--------------------------- MODULE GenerationEpisode ---------------------------
(***************************************************************************)
(* A model-generation episode (services/model_generation.py): from a       *)
(* trained parent and three corpora of labelled examples the collective    *)
(* finds thresholds to add, or a literal to drop; a child is built and     *)
(* audited on the third corpus; and the child is recorded, decided and     *)
(* activated in the durable lifecycle.  Later a labelled live corpus may   *)
(* bring the parent back.                                                  *)
(*                                                                         *)
(* It composes the collective, the objects of a generation, which are      *)
(* published before an event names them, and the lifecycle, whose log is   *)
(* here its replay, "life".  One caller, of one store; a policy that is    *)
(* refused at once is left out.                                            *)
(*                                                                         *)
(* Bounds: MaxEpisodes episodes, MaxMishaps crashes, failures, misprints   *)
(* and controllers constructed by others, together.                        *)
(***************************************************************************)
EXTENDS GenerationGraph

CONSTANTS LiveCorpora, MaxEpisodes, MaxMishaps

ASSUME LiveAssumption == \A corpus \in LiveCorpora : IsCorpus(corpus)

VARIABLES
  life,
  objects,       \* what has been published in the store
  driver,        \* where the caller is, and what it holds
  episodes, mishaps

ownVars     == <<parent, life, objects, driver, episodes, mishaps>>
episodeVars == <<session, collectiveVars, ownVars>>
-----------------------------------------------------------------------------
(***************************************************************************)
(* The caller.  "at" is its next step, "outcome" how its last call ended;  *)
(* it holds the usage it has reserved, its place in the sequence of        *)
(* activations, and its lineage, which it builds up.                       *)
(***************************************************************************)
Idle ==
  [at |-> "idle", outcome |-> "none", plan |-> NoPlan, usage |-> NoUsage,
   sequence |-> 0, previous |-> NoGeneration, lineage |-> NoLineage, live |-> <<>>]

EpisodeInit ==
  /\ CollectiveInit
  /\ session = EmptySession /\ query = QueryOf["grow"]
  /\ parent \in Parents
  /\ life = Life!Blank /\ objects = {}
  /\ driver = Idle
  /\ episodes = 0 /\ mishaps = 0

At(place)   == driver.at = place
Goes(place) == driver' = [driver EXCEPT !.at = place]
Ends(how)   == driver' = [driver EXCEPT !.at = "idle", !.outcome = how]

Elsewhere == <<session, collectiveVars, parent, episodes, mishaps>>

\* The store: what is put again is there already; what is not there raises.
Object(what, value) == [what |-> what, value |-> value]
Generations(l) == {Object("generation", l.graph[i]) : i \in 2 .. 3}
Evidenced(evidence)     == {Object("evidence", e) : e \in evidence}
Snapshots(outcomes) ==
  {Object("alternative", [extended |-> o.extended, child |-> o.child]) : o \in outcomes}
Alternatives(selection) ==
  IF selection = NoSelection THEN {}
  ELSE {Object("selection", selection)} \union Snapshots(selection.outcomes)
Examined(l) == {Object("promotion_conformance", l.conformance), Object("audit", l.audit)}
Lineage(l)  == {Object("lineage", l)}
Spent(u)    == {Object("usage", u)}
Old         == {Object("generation", Trained), Object("bundle", Bundle(Trained))}

\* What the replay of a lineage loads; the parent's own corpus is that of its
\* registration.
TrainingUsage == Life!Usage("parent", Parent, Ids(parent.training))
Needed(l) ==
  Old \union Spent(TrainingUsage) \union Spent(l.usage) \union Evidenced({l.evidence}) \union
  Alternatives(l.selection) \union Generations(l) \union Examined(l) \union Lineage(l)
Live(conformance, audit) ==
  {Object("live_conformance", conformance), Object("audit", audit)}

Publishes(set) == objects' = objects \union set
Loads(set)     == set \subseteq objects

\* What the constructor of a controller does to the log, and what it has done
\* when it fails or is interrupted: it terminates at most two transitions.
SettleOnce(s) == IF Life!Terminal(s) THEN s ELSE Life!After(s, Life!Reconciling(s))
Settled(s)    == SettleOnce(SettleOnce(s))
Settling(s)   == {s, SettleOnce(s), Settled(s)}

\* An event that is not valid now is refused by the controller.
Appends(e) == life' = Life!After(life, e)
-----------------------------------------------------------------------------
BeginWith(p) ==
  driver' = [Idle EXCEPT !.plan = p,
               !.at = IF EpisodeIds(p) \cap Ids(parent.training) = {} THEN "publish" ELSE "recover"]

BeginSingle      == \E p \in Plans : p.kind = "single" /\ BeginWith(p)
BeginGrowth      == \E p \in Plans : p.kind = "grow"   /\ BeginWith(p)
BeginContraction == \E p \in Plans : p.kind = "shrink" /\ BeginWith(p)

Begin ==
  /\ At("idle") /\ episodes < MaxEpisodes
  /\ episodes' = episodes + 1
  /\ BeginSingle \/ BeginGrowth \/ BeginContraction
  /\ UNCHANGED <<session, collectiveVars, parent, life, objects, mishaps>>

\* The parent is compiled, and published with its bundle.
PublishParent ==
  /\ At("publish") /\ Goes("construct")
  /\ Publishes(Old)
  /\ UNCHANGED <<Elsewhere, life>>

\* The controller is constructed, and the route it finds is the parent's or none.
Construct ==
  /\ At("construct")
  /\ life' = Settled(life)
  /\ Goes(CASE life'.active = NoGeneration -> "register"
            [] life'.active = Parent /\ Loads(Spent(TrainingUsage)) -> "reserve"
            [] OTHER -> "recover")
  /\ UNCHANGED <<Elsewhere, objects>>

Register ==
  /\ At("register") /\ Loads(Old) /\ Deployable(Trained)
  /\ LET e == Life!Registered(TrainingUsage) IN
       IF Life!Valid(life, e)
       THEN Publishes(Spent(TrainingUsage)) /\ Appends(e) /\ Goes("reserve")
       ELSE UNCHANGED <<life, objects>> /\ Goes("recover")
  /\ UNCHANGED Elsewhere

\* reserve_candidate_evidence and reserve_deescalation_evidence: what is
\* pending is abandoned first.
Freed(s) == IF s.pendingCandidate = NoUsage THEN s
            ELSE Life!After(s, Life!Abandoned(s.pendingCandidate))

Reserve ==
  /\ At("reserve")
  /\ LET u     == Life!Usage("candidate", life.active, EpisodeIds(driver.plan))
         freed == Freed(life)
     IN IF Life!Valid(freed, Life!Reserved(u))
        THEN /\ Publishes(Spent(u)) /\ life' = Life!After(freed, Life!Reserved(u))
             /\ driver' = [driver EXCEPT !.at = "consult", !.usage = u,
                              !.sequence = freed.count + 1, !.previous = freed.last]
        ELSE life' = freed /\ Goes("recover") /\ UNCHANGED objects
  /\ UNCHANGED Elsewhere

\* A new service, asked one question about a new session.
Consult ==
  /\ At("consult")
  /\ session' = SessionOf(driver.plan)
  /\ query' = QueryOf[driver.plan.kind]
  /\ phase' = "idle" /\ verdict' = "none" /\ answer' = NoAnswer
  /\ call' = "ready" /\ child' = "none" /\ result' = "none"
  /\ Goes("collect")
  /\ UNCHANGED <<misprints, parent, life, objects, episodes, mishaps>>

Collecting ==
  /\ At("collect") /\ phase # "ended"
  /\ CollectiveStep
  /\ misprints' + mishaps <= MaxMishaps
  /\ UNCHANGED <<session, ownVars>>

Collected ==
  /\ At("collect") /\ phase = "ended"
  /\ Goes(IF verdict = "answered" THEN "build" ELSE "recover")
  /\ UNCHANGED <<Elsewhere, life, objects>>

\* The lineage of what is built, with nothing of the audit yet.
Begun(b) ==
  LET p == driver.plan IN
    [usage |-> driver.usage, behavior |-> b.child, accepted |-> FALSE,
     sequence |-> driver.sequence, previous |-> driver.previous, plan |-> p,
     evidence |-> b.evidence, selection |-> b.selection,
     graph |-> <<Trained, MiddleOf(p, b.middle), ChildOf(p, b.child)>>,
     bundle |-> Bundle(Trained), conformance |-> <<>>, audit |-> <<>>]

\* The evidence is published, then what a child may be selected from as it is
\* tried, then the child, which is built, exported and published.
Building(built) ==
  LET evidence == Evidenced(Proved(driver.plan, answer.rows)) IN
    \/ /\ built = {} /\ Goes("recover")
       /\ \E tried \in IF Grows(driver.plan) THEN Tried(driver.plan, answer.rows) ELSE {{}} :
            Publishes(evidence \union Snapshots(tried))
    \/ \E b \in built :
         LET l == Begun(b) IN
           /\ driver' = [driver EXCEPT !.at = "audit", !.lineage = l]
           /\ Publishes(evidence \union Alternatives(l.selection) \union Generations(l))

Build ==
  /\ At("build")
  /\ \/ Grows(driver.plan)  /\ Building(GrowthsOf(driver.plan, answer.rows))
     \/ ~Grows(driver.plan) /\ Building(ContractionsOf(driver.plan, answer.rows))
  /\ UNCHANGED <<Elsewhere, life>>

\* ptmrt answers as the machine does, or the episode raises; then the audit.
Audited(l) ==
  LET vectors == Vectors(ChildOfGraph(l), l.plan.holdout)
      audit   == Counts(ParentBehavior, l.behavior, l.plan.holdout)
  IN [l EXCEPT !.conformance = Conformance(ChildOfGraph(l), l.plan.holdout, vectors),
               !.audit = audit, !.accepted = Accepts(l.plan, audit, vectors, l.plan.minimum)]

Audit ==
  /\ At("audit")
  /\ LET l == Audited(driver.lineage) IN
       IF Agree(l.conformance.vectors)
       THEN /\ driver' = [driver EXCEPT !.at = "record", !.lineage = l]
            /\ Publishes(Examined(l) \union Lineage(l))
       ELSE Goes("recover") /\ UNCHANGED objects
  /\ UNCHANGED <<Elsewhere, life>>

\* record_candidate: the whole graph is loaded and rebuilt.
Record ==
  /\ At("record")
  /\ LET l == driver.lineage IN
       IF Loads(Needed(l)) /\ Rebuilds(l) /\ Life!Valid(life, Life!Created(l))
       THEN Appends(Life!Created(l)) /\ Goes("decide")
       ELSE UNCHANGED life /\ Goes("recover")
  /\ UNCHANGED <<Elsewhere, objects>>

\* reject_candidate, after which the episode raises, or approve_promotion.
Decide ==
  /\ At("decide")
  /\ LET l == driver.lineage
         e == IF l.accepted THEN Life!Approved(l) ELSE Life!Rejected(l)
     IN IF Life!Valid(life, e)
        THEN Appends(e) /\ Goes(IF l.accepted THEN "activate" ELSE "recover")
        ELSE UNCHANGED life /\ Goes("recover")
  /\ UNCHANGED <<Elsewhere, objects>>

Activate ==
  /\ At("activate")
  /\ IF Life!Valid(life, Life!Activated(driver.lineage))
     THEN /\ Appends(Life!Activated(driver.lineage))
          /\ IF driver.plan.kind = "single" THEN Goes("attest") ELSE Ends("served")
     ELSE UNCHANGED life /\ Goes("recover")
  /\ UNCHANGED <<Elsewhere, objects>>

\* The compatibility entry point adds the evidence of its one candidate.
Attest ==
  /\ At("attest") /\ Ends("served")
  /\ Publishes({Object("invention_evidence", InventionEvidence(driver.lineage.evidence))})
  /\ UNCHANGED <<Elsewhere, life>>

\* The episode has raised: a controller is constructed for what it does.
Recover ==
  /\ At("recover")
  /\ life' = Settled(life) /\ Ends("raised")
  /\ UNCHANGED <<Elsewhere, objects>>
-----------------------------------------------------------------------------
\* reopen_and_restore_for_drift, by a caller with the result of an episode.
Forsaken(s, u) == IF s.pendingLive = u THEN Life!After(s, Life!Abandoned(u)) ELSE s

Examine ==
  /\ At("idle") /\ driver.outcome \in {"served", "unsettled"}
  /\ life.active = Life!Child(driver.lineage)
  /\ \E corpus \in LiveCorpora :
       LET u     == Life!Usage("live", life.active, Ids(corpus))
           freed == Forsaken(life, driver.usage)
       IN /\ Ids(corpus) \cap (EpisodeIds(driver.plan) \union Ids(parent.training)) = {}
          /\ Life!Valid(freed, Life!Reserved(u))
          /\ Publishes(Spent(u)) /\ life' = Life!After(freed, Life!Reserved(u))
          /\ driver' = [driver EXCEPT !.at = "evaluate", !.usage = u, !.live = corpus]
  /\ UNCHANGED Elsewhere

\* The live corpus is spent, whether it reopens or not.
Evaluate ==
  /\ At("evaluate")
  /\ LET l       == driver.lineage
         vectors == Vectors(ChildOfGraph(l), driver.live)
         witness == Conformance(ChildOfGraph(l), driver.live, vectors)
         drift   == Counts(OldOf(l).behavior, l.behavior, driver.live)
         e       == Life!ReopenRequested(l, driver.usage)
     IN IF Deployable(ChildOfGraph(l)) /\ AgreeLive(witness) /\ Exact(vectors) /\ RequiresReopen(drift)
        THEN /\ Publishes(Live(witness, drift))
             /\ IF Life!Valid(life, e)
                THEN Appends(e) /\ Goes("restore")
                ELSE life' = Forsaken(life, driver.usage) /\ Ends("served")
        ELSE life' = Forsaken(life, driver.usage) /\ Ends("served") /\ UNCHANGED objects
  /\ UNCHANGED Elsewhere

\* _validate_live_conformance_evidence, in the replay before it.
AttestedLive(l, corpus) ==
  LET witness == Conformance(ChildOfGraph(l), corpus, Vectors(ChildOfGraph(l), corpus)) IN
    /\ Attested(ChildOfGraph(l), corpus, witness)
    /\ Loads(Live(witness, Counts(OldOf(l).behavior, l.behavior, corpus)))

Restore ==
  /\ At("restore")
  /\ LET l == driver.lineage
         e == Life!ParentRestored(l, driver.usage)
     IN IF /\ Loads(Needed(l)) /\ Rebuilds(l)
           /\ AttestedLive(l, driver.live) /\ Resolves(l.bundle, OldOf(l))
           /\ Life!Valid(life, e)
        THEN Appends(e) /\ Ends("reopened")
        ELSE UNCHANGED life /\ Ends("refused")
  /\ UNCHANGED <<Elsewhere, objects>>
-----------------------------------------------------------------------------
Mishap == mishaps + misprints < MaxMishaps /\ mishaps' = mishaps + 1

\* A controller that stops as it is constructed has settled some of it.
Midway == IF At("construct") \/ At("recover") THEN Settling(life) ELSE {life}

Crash ==
  /\ ~At("idle") /\ Mishap
  /\ life' \in Midway
  /\ driver' = [Idle EXCEPT !.outcome = "crashed"]
  /\ UNCHANGED <<session, collectiveVars, parent, objects, episodes>>

\* An exception: ptmrt, the store, a collective that is asked again.
Fail ==
  /\ ~At("idle") /\ ~At("collect") /\ Mishap
  /\ \/ ~(\E place \in {"attest", "recover", "evaluate", "restore"} : At(place))
        /\ life' \in Midway /\ Goes("recover")
     \/ At("attest")   /\ UNCHANGED life /\ Ends("raised")
     \/ At("recover")  /\ life' \in Midway /\ Ends("broken")
     \/ At("evaluate") /\ life' = Forsaken(life, driver.usage) /\ Ends("served")
     \/ (At("evaluate") \/ At("restore")) /\ UNCHANGED life /\ Ends("unsettled")
  /\ UNCHANGED <<session, collectiveVars, parent, objects, episodes>>

\* Another controller is constructed over the same store, meanwhile.
Meddle ==
  /\ ~Life!Terminal(life) /\ Mishap
  /\ life' = Settled(life)
  /\ UNCHANGED <<session, collectiveVars, parent, objects, driver, episodes>>

EpisodeNext ==
  \/ Begin \/ PublishParent \/ Construct \/ Register \/ Reserve
  \/ Consult \/ Collecting \/ Collected
  \/ Build \/ Audit \/ Record \/ Decide \/ Activate \/ Attest \/ Recover
  \/ Examine \/ Evaluate \/ Restore
  \/ Crash \/ Fail \/ Meddle

EpisodeSpec == EpisodeInit /\ [][EpisodeNext]_episodeVars
-----------------------------------------------------------------------------
(***************************************************************************)
(* Whatever fails on the way, a child in the lifecycle is one that its     *)
(* episode's own evidence bears out.  A grown child has one literal more,  *)
(* at a pure flip of the invention corpus, and of all those flips none     *)
(* does better on the adaptation corpus; a contracted child has one less,  *)
(* the later of the first pair of literals that agree on every proof       *)
(* example, and scores as its parent does on both corpora.  One that is    *)
(* approved or active spoils no example of a holdout it has not seen, and  *)
(* a grown one mends some.  A parent is brought back only for a live       *)
(* corpus, never used before, on which the child does worse.  And whatever *)
(* the log names had been published before it                              *)
(* (services/model_generation.py: the two drivers, record_candidate,       *)
(* request_reopen; model_generation.py: the audits).                       *)
(***************************************************************************)
ExamplesOf(corpus) == {corpus[i] : i \in DOMAIN corpus}
Midpoints(corpus)  == {x.num + y.num : x \in ExamplesOf(corpus), y \in ExamplesOf(corpus)}

PureFlip(corpus, at) ==
  \E x, y \in ExamplesOf(corpus) :
    /\ x.num < y.num /\ at = x.num + y.num /\ x.label # y.label
    /\ \A z \in ExamplesOf(corpus) :
         /\ z.num = x.num => z.label = x.label
         /\ z.num = y.num => z.label = y.label
         /\ ~(x.num < z.num /\ z.num < y.num)

Errors(b, corpus) == Cardinality({i \in DOMAIN corpus : ~Right(b, corpus[i])})

GrownIsEarned(l) ==
  \E at \in Midpoints(l.plan.first) :
    /\ l.behavior.manifest = Append(parent.manifest, Threshold(at))
    /\ l.behavior = Grown(l.plan, at)
    /\ PureFlip(l.plan.first, at)
    /\ \A i \in DOMAIN parent.manifest : parent.manifest[i] # Threshold(at)
    /\ \A a \in Midpoints(l.plan.first) : PureFlip(l.plan.first, a) =>
         Errors(l.behavior, l.plan.second) <= Errors(Grown(l.plan, a), l.plan.second)

ContractedIsEarned(l) ==
  \E k, r \in DOMAIN parent.manifest :
    /\ k < r /\ l.behavior = Contracted(k, r)
    /\ SameColumn(k, r, l.plan.first) /\ SameColumn(k, r, l.plan.second)
    /\ \A i, j \in DOMAIN parent.manifest :
         i < j /\ SameColumn(i, j, l.plan.first) => k < i \/ (k = i /\ r <= j)
    /\ \A x \in ExamplesOf(l.plan.first) \union ExamplesOf(l.plan.second) :
         ScoreOf(ParentBehavior, x) = ScoreOf(l.behavior, x)

Spoils(l, corpus) == \E x \in ExamplesOf(corpus) : Right(ParentBehavior, x) /\ ~Right(l.behavior, x)
Mends(l, corpus)  == \E x \in ExamplesOf(corpus) : ~Right(ParentBehavior, x) /\ Right(l.behavior, x)

Derives(l)  == IF Grows(l.plan) THEN GrownIsEarned(l) ELSE ContractedIsEarned(l)
Deserves(l) ==
  /\ ~Spoils(l, l.plan.holdout)
  /\ Grows(l.plan) => Mends(l, l.plan.holdout)
  /\ Len(l.plan.holdout) >= l.plan.minimum
Unseen(l) ==
  Ids(l.plan.holdout) \cap (Ids(parent.training) \union Ids(l.plan.first) \union Ids(l.plan.second)) = {}

ChildrenAreEarned ==
  /\ \A l \in {life.candidate, life.approved, life.activated} \ {NoLineage} :
       Derives(l) /\ Unseen(l) /\ Loads(Needed(l))
  /\ \A l \in {life.approved, life.activated} \ {NoLineage} : Deserves(l)
  /\ life.reopen # NoUsage =>
       \E corpus \in LiveCorpora :
         /\ Ids(corpus) = life.reopen.examples
         /\ life.reopen.examples \cap life.activated.usage.examples = {}
         /\ Errors(life.activated.behavior, corpus) > Errors(ParentBehavior, corpus)
         /\ Loads(Live(Conformance(ChildOfGraph(life.activated), corpus,
                                   Vectors(ChildOfGraph(life.activated), corpus)),
                       Counts(ParentBehavior, life.activated.behavior, corpus)))
         /\ Loads(Spent(life.reopen))
  /\ life.active # NoGeneration => Loads(Old)

(***************************************************************************)
(* An episode settles.  When a call has ended, with a result or an error,  *)
(* nothing of it is left in progress, unless its recovery failed too; the  *)
(* result names the child that is active.  And without a mishap an episode *)
(* that came to a child records it: it raises only over one the audit      *)
(* turned down, or that has been active before, or where the policy asks   *)
(* for more observations than the holdout has (the except clauses and the  *)
(* constructor; _validate_threshold_lineage_graph).                        *)
(***************************************************************************)
EpisodesSettle ==
  /\ At("idle") /\ driver.outcome \in {"raised", "served", "reopened", "refused"} =>
       Life!Terminal(life)
  /\ At("idle") /\ driver.outcome = "served" =>
       life.activated = driver.lineage /\ life.active = Life!Child(driver.lineage)
  /\ At("recover") /\ driver.lineage # NoLineage /\ mishaps = 0 =>
       \/ ~driver.lineage.accepted
       \/ driver.lineage.behavior \in life.behaviors
================================================================================
