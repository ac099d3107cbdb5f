-------------------------- MODULE ThresholdPromotion --------------------------
(***************************************************************************)
(* The reviewed promotion of a threshold: a proposal of the collective is  *)
(* reviewed against the session and a catalog, its literal is registered   *)
(* (materialize_threshold_clause), and an artifact is compiled from it.    *)
(* Facts are added to the session, and other catalogs used, between the    *)
(* steps; each later step reviews again.                                   *)
(*                                                                         *)
(* A literal is its field and threshold: its identity is a digest of them. *)
(* Schemas[c] are the fields that are numbers for the catalog c.  What     *)
(* materialize and compile found is kept with their products ("seen").     *)
(*                                                                         *)
(* Bounds: MaxEvents facts added and lines misprinted, together, the facts *)
(* to relations that have some.                                            *)
(***************************************************************************)
EXTENDS Collective, ThresholdReview

CONSTANTS
  Catalogs, Schemas,
  Sessions,     \* those the collective is asked about
  Additions,    \* the lists that facts are added to
  MaxEvents

ASSUME PromotionAssumption ==
  Schemas \in [Catalogs -> SUBSET Fields] /\ Sessions \subseteq SessionType

VARIABLES
  added,
  literals,       \* catalog -> the literals registered in it
  reviewed, materialized, artifact

promotionVars == <<literals, reviewed, materialized, artifact>>
vars == <<session, added, collectiveVars, promotionVars>>

None == [is |-> "none"]

Init ==
  /\ session \in Sessions /\ added = 0
  /\ CollectiveInit
  /\ literals = [c \in Catalogs |-> {}]
  /\ reviewed = None /\ materialized = None /\ artifact = None
-----------------------------------------------------------------------------
Reviews(s, f, at, c) == ReviewsFor(s, f, at, Schemas[c])
-----------------------------------------------------------------------------
Proposals == RowsOf(answer.rows, "threshold_proposals")

Review ==
  \E r \in Proposals, c \in Catalogs :
    /\ reviewed' \in Reviews(session, r.field, r.at, c)
    /\ UNCHANGED <<session, added, collectiveVars, literals, materialized, artifact>>

\* The review is made again and must give the same.
StillHolds(r, c) == r \in Reviews(session, r.field, r.at, c)

\* The literal is registered before the exact gate, which may refuse the clause.
Materialize ==
  \E c \in Catalogs :
    /\ reviewed # None /\ StillHolds(reviewed, c)
    /\ literals' = [literals EXCEPT ![c] = @ \union {LiteralOf(reviewed)}]
    /\ \/ materialized' = [is |-> "clause", review |-> reviewed,
                           seen |-> LabelledFacts(session, reviewed.field)]
       \/ UNCHANGED materialized
    /\ UNCHANGED <<session, added, collectiveVars, reviewed, artifact>>

Registered(r, c) == LiteralOf(r) \in literals[c]

\* Mutant: an artifact is compiled without another review.
CompileUnreviewed ==
  \E c \in Catalogs :
    /\ materialized # None
    /\ Registered(materialized.review, c)
    /\ artifact' = [is |-> "artifact", clause |-> materialized, catalog |-> c,
                    seen |-> LabelledFacts(session, materialized.review.field)]
    /\ UNCHANGED <<session, added, collectiveVars, literals, reviewed, materialized>>

Compile ==
  \E c \in Catalogs :
    /\ materialized # None
    /\ StillHolds(materialized.review, c)
    /\ Registered(materialized.review, c)
    /\ artifact' = [is |-> "artifact", clause |-> materialized, catalog |-> c,
                    seen |-> LabelledFacts(session, materialized.review.field)]
    /\ UNCHANGED <<session, added, collectiveVars, literals, reviewed, materialized>>

\* One thread: no fact is added during a run of the collective.  Facts added
\* after a run that failed are those before another run.
Learn ==
  /\ phase = "idle" \/ verdict = "answered"
  /\ added + misprints < MaxEvents /\ added' = added + 1
  /\ AddFact
  /\ \A list \in Lists :
       session'[list] # session[list] => list \in Additions /\ session[list] # <<>>
  /\ UNCHANGED <<collectiveVars, promotionVars>>

Collect ==
  /\ CollectiveStep
  /\ added + misprints' <= MaxEvents
  /\ UNCHANGED <<session, added, promotionVars>>

Promote == Review \/ Materialize \/ Compile

Next == Collect \/ Promote \/ Learn

Spec == Init /\ [][Next]_vars
-----------------------------------------------------------------------------
(***************************************************************************)
(* An artifact's threshold separates a pure adjacent flip of the labelled  *)
(* facts that were reviewed; those were still the facts of its field when  *)
(* its literal was registered and when it was compiled, whatever had been  *)
(* added meanwhile; and the literal is in the catalog it was compiled      *)
(* with (threshold_artifact.py: the repeated reviews of materialize and    *)
(* compile, the registered literal).                                       *)
(***************************************************************************)
Earned(a) ==
  LET r == a.clause.review IN
    /\ a.seen = r.facts /\ a.clause.seen = r.facts
    /\ \E x, y \in r.facts : Boundary(r.facts, x, y, r.at)
    /\ Registered(r, a.catalog)

ArtifactsAreEarned == artifact # None => Earned(artifact)

(***************************************************************************)
(* What the collective proposes can be promoted: while the session is the  *)
(* one it was asked about, each threshold that an honest child proposes    *)
(* for numbers of one Python type passes the review of a catalog with that *)
(* field (pta_input.pl against threshold_artifact.py:_boundary_evidence).  *)
(***************************************************************************)
ProposalsPassReview ==
  misprints = 0 /\ answer.about = session =>
    \A r \in Proposals, c \in Catalogs :
      r.field \in Schemas[c] /\ PlainNumbers(session, {r.field}) =>
        Reviews(session, r.field, r.at, c) # {}

PromotionIsEarned == ArtifactsAreEarned /\ ProposalsPassReview
================================================================================
