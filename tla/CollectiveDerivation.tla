------------------------- MODULE CollectiveDerivation -------------------------
(***************************************************************************)
(* What the GNU Prolog collective derives from a session: the rows of the  *)
(* seven products of ptm_main (pta_input.pl, pta_deescalation.pl and       *)
(* pta_escalation.pl over the serialized facts).                           *)
(*                                                                         *)
(* Observed numbers are in half-units and a boundary between two of them,  *)
(* their midpoint, in quarter-units: their sum.  sort/2 puts the floats    *)
(* before the integers and 1 apart from 1.0.                               *)
(*                                                                         *)
(* After it, the Python PTAs that are its reference oracles (input.py,     *)
(* deescalation.py and escalation.py), each new and given the facts of a   *)
(* session in the order of its lists.  Their budgets of proposals, 64 and  *)
(* more, and the clamp of a weight are out of the sessions' reach.         *)
(***************************************************************************)
EXTENDS ReasoningSession

Products ==
  {"threshold_insights", "interval_insights", "literal_redundancies",
   "literal_subsumptions", "clause_subsumptions", "threshold_proposals", "weight_proposals"}

ThresholdRow(p, f, at)     == [product |-> p, field |-> f, at |-> at]
IntervalRow(f, lo, hi)     == [product |-> "interval_insights", field |-> f, lo |-> lo, hi |-> hi]
PairRow(p, x, y)           == [product |-> p, left |-> x, right |-> y]
WeightRow(c, k, w)         ==
  [product |-> "weight_proposals", clause |-> c, class |-> k, weight |-> w]
-----------------------------------------------------------------------------
\* The join of the observations of a field with the labels.
Terms(s, f) == UNION {ValuesOf(s, e, f) : e \in Labelled(s)}
StateOf(s, f, v) == UNION {LabelsOf(s, e) : e \in {d \in Labelled(s) : v \in ValuesOf(s, d, f)}}

\* The standard order of terms, and Python's order of numbers.
Before(v, w) ==
  \/ v.kind = "float" /\ w.kind = "int"
  \/ v.kind = w.kind /\ v.num < w.num

Follows(terms, v, w) == Before(v, w) /\ ~\E u \in terms : Before(v, u) /\ Before(u, w)

Mid(v, w) == v.num + w.num

\* adjacent_flip: a value with both labels is a barrier.
Flips(s, f) ==
  LET terms == Terms(s, f) IN
    {Mid(p[1], p[2]) : p \in {p \in terms \X terms :
       /\ Follows(terms, p[1], p[2])
       /\ {StateOf(s, f, p[1]), StateOf(s, f, p[2])} = {{0}, {1}}}}

\* positive_run between two negative values: what precedes and begins it, and
\* what ends and follows it.
Edges(s, f, y, z) ==
  LET terms == Terms(s, f) IN
    {p \in terms \X terms :
       StateOf(s, f, p[1]) = {y} /\ StateOf(s, f, p[2]) = {z} /\ Follows(terms, p[1], p[2])}

Runs(s, f) ==
  {r \in Edges(s, f, 0, 1) \X Edges(s, f, 1, 0) :
     /\ ~Before(r[2][1], r[1][2])
     /\ \A v \in Terms(s, f) :
          ~Before(v, r[1][2]) /\ ~Before(r[2][1], v) => StateOf(s, f, v) = {1}}

Intervals(s, f) == {[lo |-> Mid(r[1][1], r[1][2]), hi |-> Mid(r[2][1], r[2][2])] : r \in Runs(s, f)}
-----------------------------------------------------------------------------
\* Truth vectors: those of literals, or of clauses.
SubjectsOf(s, list)   == {t.of : t \in FactsOf(s, list)}
Holds(s, list, x, e)  == Truth(x, e, 1) \in FactsOf(s, list)
Fails(s, list, x, e)  == Truth(x, e, 0) \in FactsOf(s, list)
Complete(s, list, x)  == \A e \in s.example_domains : Holds(s, list, x, e) \/ Fails(s, list, x, e)
Implies(s, list, x, y) ==
  ~\E e \in s.example_domains : Holds(s, list, x, e) /\ Fails(s, list, y, e)

Equivalent(s, x, y) ==
  /\ Complete(s, "literal_truths", x) /\ Complete(s, "literal_truths", y)
  /\ Implies(s, "literal_truths", x, y) /\ Implies(s, "literal_truths", y, x)

LiteralSubsumes(s, x, y) ==
  /\ x # y
  /\ Complete(s, "literal_truths", x) /\ Complete(s, "literal_truths", y)
  /\ Implies(s, "literal_truths", x, y)
  /\ ~Equivalent(s, x, y)

LiteralsOf(s, c) == {m.literal : m \in {m \in FactsOf(s, "clause_literals") : m.clause = c}}

ClauseSubsumes(s, c, d) ==
  /\ LiteralsOf(s, c) \subseteq LiteralsOf(s, d) /\ LiteralsOf(s, c) # LiteralsOf(s, d)
  /\ Complete(s, "clause_truths", c) /\ Complete(s, "clause_truths", d)
  /\ Implies(s, "clause_truths", d, c)

\* truncate(Score * 4), from a score in eighths.
Weight(score) == IF score >= 0 THEN score \div 2 ELSE -((-score) \div 2)

Supported(s) == FactsOf(s, "class_supports")
-----------------------------------------------------------------------------
\* The clauses it goes through have literals and a truth vector.
Described(s) ==
  {c \in SubjectsOf(s, "clause_truths") : LiteralsOf(s, c) # {}}

ThresholdRows(s, product, fields) ==
  UNION {{ThresholdRow(product, f, at) : at \in Flips(s, f)} : f \in fields}
IntervalRows(s, fields) ==
  UNION {{IntervalRow(f, i.lo, i.hi) : i \in Intervals(s, f)} : f \in fields}
LiteralPairs(s) ==
  SubjectsOf(s, "literal_truths") \X SubjectsOf(s, "literal_truths")
WeightRows(s) ==
  {WeightRow(t.clause, t.class, Weight(t.score)) :
     t \in {t \in FactsOf(s, "clause_class_scores") :
              t.class \in Supported(s) /\ Weight(t.score) # 0}}

\* The rows of ptm_main for a query, before the cap.
Derived(s, q, fields) ==
  (IF q.thresholds THEN ThresholdRows(s, "threshold_insights", fields) ELSE {}) \union
  (IF q.intervals THEN IntervalRows(s, fields) ELSE {}) \union
  (IF q.deescalation
   THEN {PairRow("literal_redundancies", p[1], p[2]) :
           p \in {p \in LiteralPairs(s) : p[1] < p[2] /\ Equivalent(s, p[1], p[2])}} \union
        {PairRow("literal_subsumptions", p[1], p[2]) :
           p \in {p \in LiteralPairs(s) : LiteralSubsumes(s, p[1], p[2])}} \union
        {PairRow("clause_subsumptions", p[1], p[2]) :
           p \in {p \in Described(s) \X Described(s) : ClauseSubsumes(s, p[1], p[2])}}
   ELSE {}) \union
  (IF q.escalation
   THEN ThresholdRows(s, "threshold_proposals", fields) \union WeightRows(s)
   ELSE {})

RowsOf(rows, product) == {r \in rows : r.product = product}
-----------------------------------------------------------------------------
\* The first k of what an oracle ranks.
Foremost(candidates, k) ==
  {c \in candidates :
     Cardinality({d \in candidates :
       d.strength > c.strength \/ (d.strength = c.strength /\ d.tie < c.tie)}) < k}

\* InputPTA: pairs of a number and a label, sorted by number and then as given.
Samples(s, f) ==
  {[num |-> s.observations[p[1]].value.num, label |-> s.example_labels[p[2]].label, given |-> p] :
     p \in {p \in (DOMAIN s.observations) \X (DOMAIN s.example_labels) :
       /\ s.observations[p[1]].field = f
       /\ s.observations[p[1]].example = s.example_labels[p[2]].example}}

Precedes(p, q) ==
  \/ p.num < q.num
  \/ /\ p.num = q.num
     /\ p.given[1] < q.given[1] \/ (p.given[1] = q.given[1] /\ p.given[2] < q.given[2])

Adjacent(samples, p, q) ==
  Precedes(p, q) /\ ~\E r \in samples : Precedes(p, r) /\ Precedes(r, q)

\* Examples on the side of a boundary that their label is for.
Strength(samples, at) ==
  Cardinality({p \in samples : IF p.label = 1 THEN 2 * p.num >= at ELSE 2 * p.num < at})

\* propose_for_numeric
NumericCandidates(s, f) ==
  LET samples == Samples(s, f) IN
    {[at |-> at, strength |-> Strength(samples, at), tie |-> at] :
       at \in {Mid(p[1], p[2]) : p \in {p \in samples \X samples :
         p[1].num # p[2].num /\ p[1].label # p[2].label /\ Adjacent(samples, p[1], p[2])}}}

ProposedThresholds(s, f, k) == {c.at : c \in Foremost(NumericCandidates(s, f), k)}

\* The first and the last of a maximal run of positives.
PositiveRuns(samples) ==
  {p \in samples \X samples :
     /\ p[1].label = 1 /\ p[2].label = 1 /\ ~Precedes(p[2], p[1])
     /\ \A r \in samples :
          IF Adjacent(samples, r, p[1]) \/ Adjacent(samples, p[2], r) THEN r.label = 0
          ELSE ~Precedes(r, p[1]) /\ ~Precedes(p[2], r) => r.label = 1}

\* propose_interval: a run at an end is bounded by its own number there.
IntervalCandidates(s, f) ==
  LET samples == Samples(s, f)
      from(p)   == IF \E r \in samples : Precedes(r, p)
                   THEN Mid(CHOOSE r \in samples : Adjacent(samples, r, p), p) ELSE Mid(p, p)
      upTo(p)   == IF \E r \in samples : Precedes(p, r)
                   THEN Mid(p, CHOOSE r \in samples : Adjacent(samples, p, r)) ELSE Mid(p, p)
      length(p) == Cardinality({r \in samples : ~Precedes(r, p[1]) /\ ~Precedes(p[2], r)})
  IN IF Cardinality(samples) < 3 THEN {}
     ELSE {[lo |-> from(p[1]), hi |-> upTo(p[2]), strength |-> length(p), tie |-> from(p[1])] :
             p \in PositiveRuns(samples)}

ProposedIntervals(s, f, k) == {[lo |-> c.lo, hi |-> c.hi] : c \in Foremost(IntervalCandidates(s, f), k)}

\* DeescalationPTA: columns of truths, and sets of literals without their rows.
Column(s, x) == [e \in s.example_domains |-> Holds(s, "literal_truths", x, e)]

RedundantLiterals(s) ==
  {p \in LiteralPairs(s) : p[1] < p[2] /\ Column(s, p[1]) = Column(s, p[2])}
SubsumedLiterals(s) ==
  {p \in LiteralPairs(s) :
     /\ p[1] # p[2] /\ Column(s, p[1]) # Column(s, p[2])
     /\ \A e \in s.example_domains : Column(s, p[1])[e] => Column(s, p[2])[e]}
SubsumedClauses(s) ==
  LET clauses == {m.clause : m \in FactsOf(s, "clause_literals")} IN
    {p \in clauses \X clauses :
       LiteralsOf(s, p[1]) \subseteq LiteralsOf(s, p[2]) /\ LiteralsOf(s, p[1]) # LiteralsOf(s, p[2])}

\* round(support * 4), a half to the even side, and never zero.
Allocated(score) ==
  LET below == score \div 2
      even  == IF score % 2 = 0 \/ below % 2 = 0 THEN below ELSE below + 1
  IN IF even # 0 THEN even ELSE IF score > 0 THEN 1 ELSE -1

\* EscalationPTA.allocate_cotm_weights: k clauses of each class.
ClassCandidates(s, class) ==
  {[clause |-> s.clause_class_scores[i].clause, strength |-> s.clause_class_scores[i].score,
    tie |-> i] :
     i \in {i \in DOMAIN s.clause_class_scores :
       /\ s.clause_class_scores[i].class = class
       /\ \A j \in 1..(i - 1) : s.clause_class_scores[j] # s.clause_class_scores[i]}}

AllocatedWeights(s, k) ==
  UNION {{WeightRow(c.clause, class, Allocated(c.strength)) : c \in Foremost(ClassCandidates(s, class), k)} :
           class \in Supported(s)}
================================================================================
