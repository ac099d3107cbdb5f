--------------------------- MODULE ThresholdReview ----------------------------
(***************************************************************************)
(* The review of a proposed threshold (threshold_artifact.py): whatever    *)
(* proposed it, it must separate a pure adjacent flip of the labelled      *)
(* facts of the session.  The promotion of a threshold and the generation  *)
(* episode both rest on it.                                                *)
(***************************************************************************)
EXTENDS ReasoningSession

\* The labelled observations of a field; of an example that is observed
\* twice, the last value.
LastValue(s, e, f) ==
  LET is(i) == s.observations[i].example = e /\ s.observations[i].field = f
      last  == CHOOSE i \in DOMAIN s.observations :
                 is(i) /\ \A j \in DOMAIN s.observations : is(j) => j <= i
  IN s.observations[last].value

LabelledFacts(s, f) ==
  UNION {{[example |-> e, label |-> y, value |-> LastValue(s, e, f)] : y \in LabelsOf(s, e)} :
           e \in {e \in Examples : ValuesOf(s, e, f) # {}}}

\* x and y: two facts with opposite labels on either side of the threshold,
\* each pure, with no fact between them.
PureAmong(facts, x) == \A z \in facts : z.value.num = x.value.num => z.label = x.label
Boundary(facts, x, y, at) ==
  /\ PureAmong(facts, x) /\ PureAmong(facts, y) /\ x.label # y.label
  /\ 2 * x.value.num < at /\ at < 2 * y.value.num
  /\ ~\E z \in facts : x.value.num < z.value.num /\ z.value.num < y.value.num

\* _boundary_evidence: none, or the one review of the threshold.
Evidence(s, f, at) ==
  LET facts == LabelledFacts(s, f) IN
    {[is |-> "review", field |-> f, at |-> at, facts |-> facts,
      below |-> p[1].value.num, label |-> p[1].label, above |-> p[2].value.num] :
       p \in {p \in facts \X facts : Boundary(facts, p[1], p[2], at)}}

OneNumber(s, f) ==
  \A e \in Examples : \A v, w \in ValuesOf(s, e, f) :
    Numeric(v) /\ Numeric(w) /\ v.num = w.num

\* numeric: the fields that are numbers for the catalog.
ReviewsFor(s, f, at, numeric) ==
  {r \in Evidence(s, f, at) :
     /\ f \in numeric /\ Valid(s) /\ OneNumber(s, f)
     /\ \A e \in Examples : Cardinality(LabelsOf(s, e)) <= 1}

LiteralOf(r) == [field |-> r.field, at |-> r.at]
================================================================================
