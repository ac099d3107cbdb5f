---------------------------- MODULE GenerationGraph ----------------------------
(***************************************************************************)
(* The objects a model-generation episode makes, and what makes each true  *)
(* of the others (model_generation.py, services/model_generation.py): the  *)
(* child that the collective's rows lead to, the generations between the   *)
(* parent and the child, the vectors of the two runtimes, the audit, and   *)
(* the lineage that names them all.                                        *)
(*                                                                         *)
(* One numeric field is asked about; the fields that tell records apart    *)
(* are left out, and a record, like an observation, is known by its id.    *)
(* The sessions number their examples by position.  IdOf[l] is the         *)
(* literal_id of l and stands for the order of the proposals' digests too. *)
(* A content address is the value it addresses; a lineage of a schema that *)
(* is no longer written is left out.                                       *)
(***************************************************************************)
EXTENDS Collective, ThresholdReview

CONSTANTS
  Parent, NoGeneration,                      \* of the lifecycle
  Tape, Scale,                               \* of the machines' generators
  Field, IdOf,
  Parents,       \* [machine, manifest, training]
  Plans,         \* [kind, first, second, holdout, epochs, selection, minimum]
  QueryOf,       \* of each kind of plan
  DriftPolicy

VARIABLE parent

NoPlan    == [kind |-> "none"]
NoUsage   == [purpose |-> "none"]
NoLineage == [plan |-> NoPlan]

TM   == INSTANCE TsetlinMachine
Life == INSTANCE GenerationLifecycle

\* "single": the compatibility entry point, which grows by the one threshold.
Grows(p) == p.kind # "shrink"
-----------------------------------------------------------------------------
\* A corpus: a sequence of [id, num, label].
Ids(corpus) == {corpus[i].id : i \in DOMAIN corpus}
EpisodeIds(p) == Ids(p.first) \union Ids(p.second) \union Ids(p.holdout)
IsCorpus(corpus) == corpus \in Seq([id : Ids(corpus), num : Int, label : Bits])

\* A behavior: a machine and the manifest its features are the literals of.
Behavior(machine, manifest) == [machine |-> machine, manifest |-> manifest]
ParentBehavior == Behavior(parent.machine, parent.manifest)

\* A threshold lies between two numbers, or on one: twice its value.
LiteralTruth(literal, example) == 2 * example.num >= literal.at
RowFor(manifest, example)      == [i \in DOMAIN manifest |-> LiteralTruth(manifest[i], example)]
ScoreOf(b, example)   == TM!Score(b.machine, RowFor(b.manifest, example))
PredictOf(b, example) == TM!Predict(b.machine, RowFor(b.manifest, example))
Right(b, example)     == PredictOf(b, example) = example.label

Positive == Nat \ {0}

\* AdaptiveSnapshotEnvelope, with the width of its manifest.
WellFormed(b) ==
  /\ b.machine.depth \in Positive /\ b.machine.margin \in Positive /\ b.machine.specificity > 1
  /\ Len(b.machine.states) \in Positive /\ Len(b.manifest) \in Positive
  /\ b.machine \in TM!Machines(Len(b.machine.states), Len(b.manifest), b.machine.depth,
                               b.machine.specificity, b.machine.margin)

AnInt(n) == [kind |-> "int", num |-> n]

\* The literals of a manifest are told apart by their identifiers.
IsManifest(m) ==
  /\ Len(m) \in Nat /\ m = [i \in 1 .. Len(m) |-> m[i]]
  /\ \A i \in DOMAIN m : m[i].at \in Int /\ IdOf[m[i]] \in Int
  /\ \A i, j \in DOMAIN m : IdOf[m[i]] = IdOf[m[j]] => i = j

\* What the collective is asked, and what the policies may ask for.
AsksForThresholds(q) ==
  /\ ~q.all /\ q.fields = {Field} /\ q.thresholds /\ ~q.intervals /\ ~q.deescalation /\ q.escalation
  /\ q.consumer = "thresholds"
AsksForRedundancies(q) ==
  /\ ~q.all /\ q.fields = {} /\ ~q.thresholds /\ ~q.intervals /\ q.deescalation /\ ~q.escalation
  /\ q.consumer = "redundancies"
PromotionPolicy(p) == p.minimum \in Positive
DriftPolicies ==
  [observations : Positive, increase : Positive, regressions : Positive, rate : 0 .. 100,
   each : Positive]

ASSUME EpisodeAssumption ==
  /\ TM!TapeFits
  /\ QueryOf \in [{"grow", "single", "shrink"} -> Queries]
  /\ AsksForThresholds(QueryOf["grow"]) /\ AsksForThresholds(QueryOf["single"])
  /\ QueryOf["single"].results = 1
  /\ AsksForRedundancies(QueryOf["shrink"])
  /\ DriftPolicy \in DriftPolicies
  /\ \A p \in Parents :
       WellFormed(Behavior(p.machine, p.manifest)) /\ IsManifest(p.manifest) /\ IsCorpus(p.training)
  /\ \A p \in Plans :
       /\ IsCorpus(p.first) /\ IsCorpus(p.second) /\ IsCorpus(p.holdout)
       /\ Cardinality(EpisodeIds(p)) = Len(p.first) + Len(p.second) + Len(p.holdout)
       /\ PromotionPolicy(p) /\ p.epochs \in Nat
       /\ Grows(p) => \A i \in DOMAIN p.first : i \in Examples /\ AnInt(p.first[i].num) \in Values

\* A comparison of two behaviors on a corpus, by who is right where.
Partition(old, new, corpus, o, n) ==
  Cardinality({i \in DOMAIN corpus : Right(old, corpus[i]) = o /\ Right(new, corpus[i]) = n})

\* ClassPromotionCounts: what an audit has seen of each class.
ClassCounts(corpus) == [y \in Bits |-> Cardinality({i \in DOMAIN corpus : corpus[i].label = y})]

\* The counts of an audit, of a selection and of a drift report.
Counts(old, new, corpus) ==
  LET part(o, n) == Partition(old, new, corpus, o, n) IN
    [observations  |-> Len(corpus),
     parent_errors |-> part(FALSE, FALSE) + part(FALSE, TRUE),
     child_errors  |-> part(FALSE, FALSE) + part(TRUE, FALSE),
     improvements  |-> part(FALSE, TRUE),
     regressions   |-> part(TRUE, FALSE),
     observed      |-> ClassCounts(corpus)]
-----------------------------------------------------------------------------
\* _invention_session.
InventionSession(corpus) ==
  [EmptySession EXCEPT
     !.observations =
        [i \in DOMAIN corpus |-> Observation(i, Field, AnInt(corpus[i].num))],
     !.example_labels  = [i \in DOMAIN corpus |-> Label(i, corpus[i].label)],
     !.example_domains = DOMAIN corpus]

\* _deescalation_session: the truth of every literal for every example.
ProofSession(corpus, manifest) ==
  LET n == Len(manifest)
      truth(k) == LET i == ((k - 1) \div n) + 1
                      j == ((k - 1) % n) + 1
                  IN Truth(IdOf[manifest[j]], i,
                           IF RowFor(manifest, corpus[i])[j] THEN 1 ELSE 0)
  IN [EmptySession EXCEPT
        !.literal_truths  = [k \in 1 .. (n * Len(corpus)) |-> truth(k)],
        !.example_labels  = [i \in DOMAIN corpus |-> Label(i, corpus[i].label)],
        !.example_domains = DOMAIN corpus]

SessionOf(p) == IF Grows(p) THEN InventionSession(p.first) ELSE ProofSession(p.first, parent.manifest)
-----------------------------------------------------------------------------
\* invent_threshold_candidates_for_corpus: nothing when it raises, as it does
\* when a candidate does not pass its review.
Threshold(at) == [field |-> Field, at |-> at]
Proposed(rows) == {r.at : r \in RowsOf(rows, "threshold_proposals")}
Reviewed(s, at) == ReviewsFor(s, Field, at, {Field}) # {}

\* PrologThresholdCandidateSet: complete, not empty, within the budget.
Candidates(p, rows) ==
  LET ats == Proposed(rows) IN
    IF /\ \A at \in ats : Reviewed(SessionOf(p), at)
       /\ Cardinality(ats) \in 1 .. QueryOf[p.kind].results
    THEN ats ELSE {}

CandidateSet(p, rows) ==
  [corpus |-> p.first, query |-> QueryOf[p.kind], found |-> Candidates(p, rows)]

\* PrologInventionEvidence, of a set of one candidate.
InventionEvidence(set) == [corpus |-> set.corpus, at |-> CHOOSE at \in set.found : TRUE]

\* extend_parent_with_threshold and adapt_extended_parent.
Extended(at) == Behavior(TM!Extend(parent.machine), Append(parent.manifest, Threshold(at)))
Adapted(b, corpus, epochs) ==
  [b EXCEPT !.machine =
     TM!Fit(@, [i \in DOMAIN corpus |-> [row    |-> RowFor(b.manifest, corpus[i]),
                                         target |-> corpus[i].label]], epochs)]

SameScores(b, c, corpus) == \A i \in DOMAIN corpus : ScoreOf(b, corpus[i]) = ScoreOf(c, corpus[i])

Extends(at) ==
  /\ \A i \in DOMAIN parent.manifest : parent.manifest[i] # Threshold(at)
  /\ SameScores(ParentBehavior, Extended(at), parent.training)

Grown(p, at) == Adapted(Extended(at), p.second, p.epochs)

\* ThresholdCandidateOutcome, of a literal on the adaptation corpus.
Outcome(literal, extended, adapted, corpus) ==
  [literal |-> literal, extended |-> extended, child |-> adapted,
   counts |-> Counts(ParentBehavior, adapted, corpus)]
OutcomeOf(p, at) == Outcome(Threshold(at), Extended(at), Grown(p, at), p.second)

\* ThresholdCandidateSelectionPolicy, then the lexicographic minimum.
Eligible(policy, o) ==
  /\ o.counts.observations >= policy.minimum
  /\ IF policy.strict THEN o.counts.child_errors < o.counts.parent_errors
                      ELSE o.counts.child_errors <= o.counts.parent_errors

Ranking(o) ==
  <<o.counts.child_errors, o.counts.regressions, -o.counts.improvements, IdOf[o.literal]>>
Lower(x, y) == \E i \in DOMAIN x : x[i] < y[i] /\ \A j \in 1 .. (i - 1) : x[j] = y[j]

\* Mutant: of the eligible, the first.
BestByDigest(eligible) == {o \in eligible : \A x \in eligible : IdOf[o.literal] <= IdOf[x.literal]}

Best(eligible) == {o \in eligible : \A x \in eligible : ~Lower(Ranking(x), Ranking(o))}

\* ThresholdCandidateSelection, if there is one.
Selections(policy, outcomes) ==
  {[policy |-> policy, outcomes |-> outcomes, selected |-> o] :
     o \in Best({x \in outcomes : Eligible(policy, x)})}
NoSelection == [outcomes |-> {}]

\* One that cannot be added spoils the others.
Chosen(p, rows) ==
  LET ats == Candidates(p, rows) IN
    IF \A at \in ats : Extends(at) THEN Selections(p.selection, {OutcomeOf(p, at) : at \in ats})
                                   ELSE {}

\* The candidates that have been stored when none is chosen: all of them, or,
\* in front of one that cannot be added, some.
Tried(p, rows) ==
  LET ats == Candidates(p, rows)
      fit == {at \in ats : Extends(at)}
  IN {{OutcomeOf(p, at) : at \in tried} : tried \in IF fit = ats THEN {ats} ELSE SUBSET fit}
-----------------------------------------------------------------------------
\* invent_literal_contraction_for_corpus: of the pairs the collective found,
\* by position, the first; its later literal is dropped.
PositionOf(id) == CHOOSE i \in DOMAIN parent.manifest : IdOf[parent.manifest[i]] = id
Redundant(rows) ==
  LET found == {{PositionOf(r.left), PositionOf(r.right)} :
                  r \in RowsOf(rows, "literal_redundancies")}
      places == DOMAIN parent.manifest
  IN {p \in places \X places : p[1] < p[2] /\ {p[1], p[2]} \in found}
First(pairs) == {p \in pairs : \A q \in pairs : ~Lower(q, p)}

\* PrologDeescalationEvidence: as the candidate set, and one of the pairs.
Dropped(rows) ==
  IF Cardinality(Redundant(rows)) \in 1 .. QueryOf["shrink"].results
  THEN First(Redundant(rows)) ELSE {}
RedundancySet(p, rows) ==
  [corpus |-> p.first, query |-> QueryOf[p.kind], found |-> Redundant(rows)]

\* contract_parent_with_equivalent_literal.
Contracted(k, r) ==
  Behavior(TM!Contract(parent.machine, k, r), TM!Without(parent.manifest, r))

SameColumn(k, r, corpus) ==
  \A i \in DOMAIN corpus : LET row == RowFor(parent.manifest, corpus[i]) IN row[k] = row[r]
SameClauses(b, c, corpus) ==
  \A i \in DOMAIN corpus, n \in DOMAIN b.machine.states :
    TM!ClauseOutput(b.machine, n, RowFor(b.manifest, corpus[i])) =
      TM!ClauseOutput(c.machine, n, RowFor(c.manifest, corpus[i]))

Contracts(k, r, corpus) ==
  /\ SameColumn(k, r, corpus)
  /\ SameClauses(ParentBehavior, Contracted(k, r), corpus)
  /\ SameScores(ParentBehavior, Contracted(k, r), corpus)

\* What the child is made from, the child, and what names them; or nothing.
Built(middle, last, evidence, selection) ==
  [middle |-> middle, child |-> last, evidence |-> evidence, selection |-> selection]
GrowthsOf(p, rows) ==
  {Built(s.selected.extended, s.selected.child, CandidateSet(p, rows), s) : s \in Chosen(p, rows)}
ContractionsOf(p, rows) ==
  {Built(Contracted(d[1], d[2]), Contracted(d[1], d[2]), RedundancySet(p, rows), NoSelection) :
     d \in {d \in Dropped(rows) : Contracts(d[1], d[2], p.first) /\ Contracts(d[1], d[2], p.second)}}

\* The evidence is published first, whatever becomes of it.
Proved(p, rows) ==
  CASE Grows(p)  /\ Candidates(p, rows) # {} -> {CandidateSet(p, rows)}
    [] ~Grows(p) /\ Dropped(rows) # {}       -> {RedundancySet(p, rows)}
    [] OTHER -> {}
-----------------------------------------------------------------------------
\* compile_generation_artifact: the artifact carries the records it must give
\* the machine's answers for.
Compiled(b, records) == [masks |-> TM!Export(b.machine), records |-> records]
MaskScoreOf(a, b, example) == TM!MaskScore(a.masks, RowFor(b.manifest, example))
NoArtifact == [masks |-> {}, records |-> <<>>]

\* ModelGeneration; origin: the corpora it was made from.
Generation(kind, b, artifact, origin) ==
  [kind |-> kind, behavior |-> b, artifact |-> artifact, origin |-> origin]
Trained ==
  Generation("trained_parent", ParentBehavior, Compiled(ParentBehavior, parent.training),
             <<parent.training>>)
MiddleOf(p, b) ==
  IF Grows(p) THEN Generation("extended_parent", b, NoArtifact, <<p.first>>)
              ELSE Generation("contracted_parent", b, NoArtifact, <<p.first, p.second>>)
ChildOf(p, b) ==
  Generation(IF Grows(p) THEN "adapted_child" ELSE "contracted_child", b,
             Compiled(b, p.holdout), <<p.first, p.second, p.holdout>>)

\* AdaptiveRestorationBundle: all that brings the parent back.
Bundle(g) == [behavior |-> g.behavior, artifact |-> g.artifact, training |-> g.origin[1]]

\* verify_conformance: the artifact gives the machine's answers.
Conforms(g) ==
  \A i \in DOMAIN g.artifact.records :
    MaskScoreOf(g.artifact, g.behavior, g.artifact.records[i]) =
      ScoreOf(g.behavior, g.artifact.records[i])

\* _validate_deployable_generation.
Deployable(g) ==
  /\ g.kind \in {"trained_parent", "adapted_child", "contracted_child"}
  /\ WellFormed(g.behavior)
  /\ g.artifact.masks = TM!Export(g.behavior.machine)
  /\ Conforms(g)
  /\ g.kind = "trained_parent" => g.origin = <<g.artifact.records>>

\* _resolve_restoration_bundle.
Resolves(bundle, g) == g.kind = "trained_parent" /\ bundle = Bundle(g) /\ Deployable(g)
-----------------------------------------------------------------------------
\* _LiveRuntimeVectors: the machine, the packed artifact, and ptmrt.
Vectors(g, corpus) ==
  LET machine(x) == ScoreOf(g.behavior, x)
      packed(x)  == MaskScoreOf(g.artifact, g.behavior, x)
      all(F(_))  == [i \in DOMAIN corpus |-> F(corpus[i])]
  IN [scores      |-> all(machine), native |-> all(packed),
      predictions |-> all(LAMBDA x : PredictOf(g.behavior, x)),
      packed      |-> all(LAMBDA x : IF packed(x) > 0 THEN 1 ELSE 0)]

\* What the conformance evidence is refused without; that of a live corpus
\* holds the corpus.
Agree(v) ==
  /\ v.scores = v.native /\ v.packed = v.predictions
  /\ v.predictions = [i \in DOMAIN v.scores |-> IF v.scores[i] > 0 THEN 1 ELSE 0]
Conformance(g, corpus, v) == [generation |-> g, corpus |-> corpus, vectors |-> v]
AgreeLive(w) ==
  /\ w.corpus # <<>> /\ DOMAIN w.vectors.scores = DOMAIN w.corpus
  /\ Agree(w.vectors)

\* RuntimeConformanceReport.
Mismatches(v) == Cardinality({i \in DOMAIN v.packed : v.packed[i] # v.predictions[i]})
Exact(v)      == Mismatches(v) = 0

\* Evidence of a corpus that is shown again when it is replayed.
Attested(g, corpus, w) ==
  Deployable(g) /\ w = Conformance(g, corpus, Vectors(g, corpus)) /\ Agree(w.vectors)

\* audit_parent_child_snapshots: strict for a threshold, not for a literal.
Accepts(p, o, v, minimum) ==
  /\ o.observations >= minimum
  /\ IF Grows(p) THEN o.child_errors < o.parent_errors ELSE o.child_errors <= o.parent_errors
  /\ o.regressions <= 0
  /\ Exact(v)

\* drift_requires_reopen; the rate in hundredths.
RequiresReopen(o) ==
  /\ o.observations >= DriftPolicy.observations
  /\ o.child_errors - o.parent_errors >= DriftPolicy.increase
  /\ o.regressions >= DriftPolicy.regressions
  /\ 100 * o.regressions >= DriftPolicy.rate * o.observations
  /\ o.regressions > o.improvements
  /\ \A y \in Bits : o.observed[y] >= DriftPolicy.each
-----------------------------------------------------------------------------
(***************************************************************************)
(* A lineage [usage, behavior, accepted, sequence, previous, plan,         *)
(* evidence, selection, graph, bundle, conformance, audit], and its        *)
(* replay: everything is derived and audited again, with an honest         *)
(* collective.                                                             *)
(***************************************************************************)
OldOf(l)    == l.graph[1]
MiddleOfGraph(l) == l.graph[2]
ChildOfGraph(l)  == l.graph[3]

SpendsItsCorpora(l) ==
  /\ l.usage = Life!Usage("candidate", Parent, EpisodeIds(l.plan))
  /\ OldOf(l).kind = "trained_parent" /\ Resolves(l.bundle, OldOf(l))
  /\ l.behavior = ChildOfGraph(l).behavior

\* One literal more, last; states at the boundary, and nothing else changed.
ExtendsExactly(old, new) ==
  LET n == Len(old.manifest) IN
    /\ Len(new.manifest) = n + 1 /\ SubSeq(new.manifest, 1, n) = old.manifest
    /\ [new.machine EXCEPT !.states = old.machine.states] = old.machine
    /\ \A c \in DOMAIN old.machine.states :
         /\ SubSeq(new.machine.states[c], 1, n) = old.machine.states[c]
         /\ new.machine.states[c][n + 1] = TM!Pair(old.machine.depth, old.machine.depth)

GrowthGraph(l) ==
  /\ MiddleOfGraph(l).kind = "extended_parent" /\ ChildOfGraph(l).kind = "adapted_child"
  /\ MiddleOfGraph(l).origin = <<l.plan.first>>
  /\ ChildOfGraph(l).origin = <<l.plan.first, l.plan.second, l.plan.holdout>>
  /\ ExtendsExactly(OldOf(l).behavior, MiddleOfGraph(l).behavior)
  /\ l.behavior.manifest = MiddleOfGraph(l).behavior.manifest

ContractionGraph(l) ==
  /\ MiddleOfGraph(l).kind = "contracted_parent" /\ ChildOfGraph(l).kind = "contracted_child"
  /\ MiddleOfGraph(l).origin = <<l.plan.first, l.plan.second>>
  /\ ChildOfGraph(l).origin = <<l.plan.first, l.plan.second, l.plan.holdout>>
  /\ MiddleOfGraph(l).behavior = l.behavior

Rederived(l) == Derived(SessionOf(l.plan), QueryOf[l.plan.kind], Selected)
Again(l) == Built(MiddleOfGraph(l).behavior, l.behavior, l.evidence, l.selection)
Regrows(l)     == Again(l) \in GrowthsOf(l.plan, Rederived(l))
Recontracts(l) == Again(l) \in ContractionsOf(l.plan, Rederived(l))

\* The policy's minimum is not in the store: the audit's own count is.
Reaudits(l) ==
  /\ Attested(ChildOfGraph(l), l.plan.holdout, l.conformance)
  /\ l.audit = Counts(OldOf(l).behavior, l.behavior, l.plan.holdout)
  /\ l.accepted = Accepts(l.plan, l.audit, l.conformance.vectors, l.audit.observations)

RebuildsGrowth(l)      == GrowthGraph(l) /\ Reaudits(l) /\ Regrows(l)
RebuildsContraction(l) == ContractionGraph(l) /\ Recontracts(l) /\ Reaudits(l)
Rebuilds(l) ==
  /\ SpendsItsCorpora(l)
  /\ IF Grows(l.plan) THEN RebuildsGrowth(l) ELSE RebuildsContraction(l)
================================================================================
