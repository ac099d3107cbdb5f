------------------------------ MODULE Collective ------------------------------
(***************************************************************************)
(* One run of PTACollectiveService over a session, with the two callers in *)
(* the generation service that need the whole of a product.  Python holds  *)
(* the session and the query to their bounds, one child process, here      *)
(* BoundedCall, derives the rows, and Python decodes what it prints and    *)
(* checks each row against the session.                                    *)
(*                                                                         *)
(* Bound: MaxMisprints of the prints, each honest but for one line or one  *)
(* count (a line left out, added or repeated, or a miscount); a print that *)
(* is not of the grammar is always possible.                               *)
(***************************************************************************)
EXTENDS CollectiveDerivation

CONSTANTS
  Queries,    \* [all, fields, thresholds, intervals, deescalation, escalation, results, consumer]
  Budget,     \* [observations, examples, literals, clauses, classes, facts, pairs]
  Sums,       \* the boundaries a misprint may name
  Weights,
  MaxMisprints

ASSUME QueriesAssumption == \A q \in Queries : q.results \in Nat

VARIABLES
  query,
  phase,      \* "idle", "call", "ended"
  verdict,    \* how the run ended
  answer,     \* the accepted rows, the counts, and the session they are about
  misprints,
  call, child, result

callVars       == <<call, child, result>>
collectiveVars == <<query, phase, verdict, answer, misprints, callVars>>

Bounded == INSTANCE BoundedCall

NoAnswer == [rows |-> {}, available |-> [p \in Products |-> 0], about |-> EmptySession]

CollectiveInit ==
  /\ query \in Queries
  /\ phase = "idle" /\ verdict = "none" /\ answer = NoAnswer /\ misprints = 0
  /\ Bounded!CallInit
-----------------------------------------------------------------------------
\* _identifier_sets and _validate_resource_budget.
ExampleIds ==
  session.example_domains \union {o.example : o \in FactsOf(session, "observations")}
LiteralIds ==
  SubjectsOf(session, "literal_truths") \union
  {m.literal : m \in FactsOf(session, "clause_literals")}
ClauseIds ==
  SubjectsOf(session, "clause_truths")
    \union {m.clause : m \in FactsOf(session, "clause_literals")}
    \union {t.clause : t \in FactsOf(session, "clause_class_scores")}
ClassIds ==
  Supported(session) \union {t.class : t \in FactsOf(session, "clause_class_scores")}

FactCount ==
  Len(session.observations) + Len(session.example_labels)
    + Cardinality(session.example_domains) + Len(session.literal_truths)
    + Len(session.clause_truths) + Len(session.clause_literals)
    + Len(session.class_supports) + Len(session.clause_class_scores)

WithinBudget ==
  /\ Valid(session)
  /\ Len(session.observations) <= Budget.observations
  /\ Cardinality(ExampleIds) <= Budget.examples
  /\ Cardinality(LiteralIds) <= Budget.literals
  /\ Cardinality(ClauseIds) <= Budget.clauses
  /\ Cardinality(ClassIds) <= Budget.classes
  /\ FactCount <= Budget.facts

\* _validate_deescalation_truths: one truth for every example of the domain.
OneTruthEach(list) ==
  \A x \in SubjectsOf(session, list), e \in session.example_domains :
    \E i \in DOMAIN session[list] :
      /\ session[list][i].of = x /\ session[list][i].example = e
      /\ \A j \in DOMAIN session[list] :
           session[list][j].of = x /\ session[list][j].example = e => i = j

PairsFit(list) ==
  LET n == Cardinality(SubjectsOf(session, list)) IN n * (n - 1) <= Budget.pairs

\* _field_maps.
NumericField(f) ==
  \A o \in FactsOf(session, "observations") : o.field = f => Numeric(o.value)
Selected ==
  IF query.all THEN {f \in Observed(session) : NumericField(f)} ELSE query.fields
OneLabelEach == \A e \in Examples : Cardinality(LabelsOf(session, e)) <= 1
OneNumberEach(f) ==
  \A e \in Examples : \A v, w \in ValuesOf(session, e, f) : v.num = w.num
FieldsServe ==
  /\ Selected \subseteq Observed(session)
  /\ \A f \in Selected : NumericField(f) /\ OneNumberEach(f)
  /\ OneLabelEach

Admitted ==
  /\ WithinBudget
  /\ query.deescalation =>
       \A list \in {"literal_truths", "clause_truths"} : OneTruthEach(list) /\ PairsFit(list)
  /\ FieldsServe

EndRun(v) == phase' = "ended" /\ verdict' = v

\* The facts may be too many bytes even so.
Ask ==
  /\ phase = "idle"
  /\ \/ EndRun("refused")
     \/ Admitted /\ phase' = "call" /\ UNCHANGED verdict
  /\ UNCHANGED <<query, answer, misprints, callVars>>
-----------------------------------------------------------------------------
CallStep ==
  /\ phase = "call"
  /\ Bounded!CallNext
  /\ result' # "Cancelled"    \* there is no cancel()
  /\ UNCHANGED <<query, phase, verdict, answer, misprints>>

Returned == phase = "call" /\ call = "returned"

CallFailed ==
  /\ Returned /\ result \in Bounded!Refusals
  /\ EndRun(CASE result = "Timeout"                       -> "timeout"
              [] result = "OutputLimit"                   -> "protocol"
              [] result \in {"Interrupted", "Abandoned"} -> "interrupted"
              [] OTHER                                    -> "execution")
  /\ UNCHANGED <<query, answer, misprints, callVars>>

\* A nonzero exit code.
ExitFailed ==
  /\ Returned /\ result \in Bounded!Ended
  /\ EndRun("execution")
  /\ UNCHANGED <<query, answer, misprints, callVars>>

\* No frame, a line of another grammar, an identifier that was not given.
Garbled ==
  /\ Returned /\ result = "exited"
  /\ EndRun("protocol")
  /\ UNCHANGED <<query, answer, misprints, callVars>>
-----------------------------------------------------------------------------
\* A print: its distinct rows, those that come twice, and its counts.
Emitted(print, p) ==
  Cardinality(RowsOf(print.rows, p)) + Cardinality(RowsOf(print.twice, p))

TotalOf(count) ==
  count["threshold_insights"] + count["interval_insights"] + count["literal_redundancies"]
    + count["literal_subsumptions"] + count["clause_subsumptions"]
    + count["threshold_proposals"] + count["weight_proposals"]

\* ptm_cap, ptm_take: at most so many rows of each product, and how many there are.
Honest(derived) ==
  {[rows      |-> rows,
    twice     |-> {},
    declared  |-> Cardinality(rows),
    available |-> [p \in Products |-> Cardinality(RowsOf(derived, p))],
    total     |-> Cardinality(derived)] :
     rows \in {r \in SUBSET derived :
       \A p \in Products :
         Cardinality(RowsOf(r, p)) =
           (IF Cardinality(RowsOf(derived, p)) < query.results
            THEN Cardinality(RowsOf(derived, p)) ELSE query.results)}}

\* What a line with known identifiers may say.
Sayable ==
  {ThresholdRow(p, f, at) : p \in {"threshold_insights", "threshold_proposals"},
                            f \in Observed(session), at \in Sums}
    \union {IntervalRow(f, lo, hi) : f \in Observed(session), lo \in Sums, hi \in Sums}
    \union {PairRow(p, x, y) : p \in {"literal_redundancies", "literal_subsumptions"},
                               x \in LiteralIds, y \in LiteralIds}
    \union {PairRow("clause_subsumptions", c, d) : c \in ClauseIds, d \in ClauseIds}
    \union {WeightRow(c, k, w) : c \in ClauseIds, k \in ClassIds, w \in Weights}

Recount(print, p, by) ==
  [print EXCEPT !.declared = @ + by, !.available[p] = @ + by, !.total = @ + by]

\* A row left out, with its count or without, or printed twice.
RowLost(print) ==
  UNION {{[Recount(print, r.product, -1) EXCEPT !.rows = @ \ {r}],
          [print EXCEPT !.rows = @ \ {r}, !.declared = @ - 1],
          [Recount(print, r.product, 1) EXCEPT !.twice = {r}]} : r \in print.rows}
RowAdded(print) ==
  {[Recount(print, r.product, 1) EXCEPT !.rows = @ \union {r}] : r \in Sayable \ print.rows}
CountWrong(print) ==
  {[print EXCEPT !.available[p] = @ + 1, !.total = @ + 1] : p \in Products}
    \union {[print EXCEPT !.declared = @ + 1]}

Altered(print) == RowLost(print) \union RowAdded(print) \union CountWrong(print)

\* _decode_protocol: the counts fit together and the budget.
Decoded(print) ==
  /\ print.declared = TotalOf([p \in Products |-> Emitted(print, p)])
  /\ print.total = TotalOf(print.available)
  /\ \A p \in Products : Emitted(print, p) <= print.available[p] /\ Emitted(print, p) <= query.results
  /\ \A r \in RowsOf(print.rows, "interval_insights") : r.lo <= r.hi

\* _validate_requested_products.
Requested(print) ==
  LET none(ps) == \A p \in ps : print.available[p] = 0 IN
    /\ query.thresholds \/ none({"threshold_insights"})
    /\ query.intervals \/ none({"interval_insights"})
    /\ query.deescalation
         \/ none({"literal_redundancies", "literal_subsumptions", "clause_subsumptions"})
    /\ query.escalation \/ none({"threshold_proposals", "weight_proposals"})

\* _validate_input_products: the labelled numbers of a field in Python's order.
Pairs(s, f) ==
  UNION {{v.num : v \in {v \in ValuesOf(s, e, f) : Numeric(v)}} \X LabelsOf(s, e) :
           e \in Labelled(s)}

Less(p, q) == p[1] < q[1] \/ (p[1] = q[1] /\ p[2] < q[2])

Separates(s, f, at) ==
  LET pairs == Pairs(s, f) IN
    \E p, q \in pairs :
      /\ p[2] # q[2]
      /\ 2 * p[1] < at /\ at < 2 * q[1]
      /\ ~\E r \in pairs : Less(p, r) /\ Less(r, q)

Within(r, p) == r.lo <= 2 * p[1] /\ 2 * p[1] < r.hi

ValidInterval(s, r) ==
  /\ r.lo < r.hi
  /\ Separates(s, r.field, r.lo) /\ Separates(s, r.field, r.hi)
  /\ \E p \in Pairs(s, r.field) : p[2] = 1 /\ Within(r, p)
  /\ ~\E p \in Pairs(s, r.field) : p[2] = 0 /\ Within(r, p)

\* _validate_deescalation_products, _validate_weight_products.
SameVector(s, x, y) ==
  \A e \in s.example_domains :
    Holds(s, "literal_truths", x, e) = Holds(s, "literal_truths", y, e)
KnownIn(s, list, xs) == xs \subseteq SubjectsOf(s, list)

\* Mutant: a row is believed.
BelievedRow(s, r) == r.product \in Products

ValidRow(s, r) ==
  CASE r.product \in {"threshold_insights", "threshold_proposals"} -> Separates(s, r.field, r.at)
    [] r.product = "interval_insights" -> ValidInterval(s, r)
    [] r.product = "literal_redundancies" ->
         /\ r.left # r.right /\ KnownIn(s, "literal_truths", {r.left, r.right})
         /\ SameVector(s, r.left, r.right)
    [] r.product = "literal_subsumptions" ->
         /\ r.left # r.right /\ KnownIn(s, "literal_truths", {r.left, r.right})
         /\ ~SameVector(s, r.left, r.right)
         /\ Implies(s, "literal_truths", r.left, r.right)
    [] r.product = "clause_subsumptions" ->
         /\ r.left # r.right /\ KnownIn(s, "clause_truths", {r.left, r.right})
         /\ LiteralsOf(s, r.left) # {}
         /\ LiteralsOf(s, r.left) \subseteq LiteralsOf(s, r.right)
         /\ LiteralsOf(s, r.left) # LiteralsOf(s, r.right)
         /\ Implies(s, "clause_truths", r.right, r.left)
    [] r.product = "weight_proposals" ->
         /\ r.class \in Supported(s) /\ r.weight # 0
         /\ \E score \in Scores :
              /\ {t.score : t \in {t \in FactsOf(s, "clause_class_scores") :
                    t.clause = r.clause /\ t.class = r.class}} = {score}
              /\ Weight(score) = r.weight
-----------------------------------------------------------------------------
\* _run_complete_threshold_collective: every flip as an insight and a proposal.
Whole(print, p) == Emitted(print, p) = print.available[p]

CompleteThresholds(print) ==
  LET proposals == {r \in RowsOf(print.rows, "threshold_proposals") : r.field \in query.fields}
      n         == Cardinality(proposals)
                     + Cardinality({r \in RowsOf(print.twice, "threshold_proposals") :
                                      r.field \in query.fields})
  IN /\ Whole(print, "threshold_proposals") /\ Whole(print, "threshold_insights")
     /\ n > 0
     /\ print.available["threshold_proposals"] = n /\ print.available["threshold_insights"] = n
     /\ Emitted(print, "weight_proposals") = 0

\* Mutant: the pairs are not enumerated again.
CompletePairsByCount(print) ==
  \A p \in {"literal_redundancies", "literal_subsumptions", "clause_subsumptions"} :
    Whole(print, p)

\* _run_complete_deescalation_collective, with its own enumeration.
CompletePairs(print) ==
  LET redundant == RowsOf(print.rows, "literal_redundancies") IN
    /\ \A p \in {"literal_redundancies", "literal_subsumptions", "clause_subsumptions"} :
         Whole(print, p)
    /\ redundant # {}
    /\ RowsOf(print.twice, "literal_redundancies") = {}
    /\ \A r, t \in redundant : r.left = t.right => r.right # t.left
    /\ {{r.left, r.right} : r \in redundant} =
         {{p[1], p[2]} : p \in {p \in LiteralPairs(session) :
            p[1] < p[2] /\ SameVector(session, p[1], p[2])}}

Serves(print) ==
  CASE query.consumer = "thresholds"   -> CompleteThresholds(print)
    [] query.consumer = "redundancies" -> CompletePairs(print)
    [] OTHER                           -> TRUE

Judged(print) ==
  IF ~Decoded(print) THEN "protocol"
  ELSE IF ~Requested(print) \/ \E r \in print.rows : ~ValidRow(session, r) THEN "disbelieved"
  ELSE IF ~Serves(print) THEN "incomplete"
  ELSE "answered"

\* What is decoded, believed and of use; "disbelieved" is a protocol error too.
Read(print) ==
  /\ EndRun(Judged(print))
  /\ answer' = IF verdict' = "answered"
               THEN [rows |-> print.rows, available |-> print.available, about |-> session]
               ELSE answer
  /\ UNCHANGED <<query, callVars>>

Answered ==
  /\ Returned /\ result = "exited"
  /\ \E honest \in Honest(Derived(session, query, Selected)) :
       \/ Read(honest) /\ UNCHANGED misprints
       \/ /\ misprints < MaxMisprints /\ misprints' = misprints + 1
          /\ \E print \in Altered(honest) : Read(print)

CollectiveStep == Ask \/ CallStep \/ CallFailed \/ ExitFailed \/ Garbled \/ Answered
-----------------------------------------------------------------------------
(***************************************************************************)
(* Also when one line or count of an honest print has been altered, what   *)
(* an accepted answer says is so of the session: each boundary lies        *)
(* between two examples of opposite labels whose numbers have none between *)
(* them, an interval holds positive examples only, and of the literals,    *)
(* clauses and weights each is right for every example (collective.py: the *)
(* four _validate_ passes).                                                *)
(***************************************************************************)
NumberedAt(s, f, y) ==
  {v.num : v \in {v \in Values : Numeric(v) /\ \E e \in Examples :
                  v \in ValuesOf(s, e, f) /\ y \in LabelsOf(s, e)}}

Divides(s, f, at) ==
  LET at0 == NumberedAt(s, f, 0)
      at1 == NumberedAt(s, f, 1)
  IN \E n, m \in at0 \union at1 :
       /\ 2 * n < at /\ at < 2 * m
       /\ ~\E k \in at0 \union at1 : n < k /\ k < m
       /\ (n \in at0 /\ m \in at1) \/ (n \in at1 /\ m \in at0)

IsSo(s, r) ==
  CASE r.product \in {"threshold_insights", "threshold_proposals"} -> Divides(s, r.field, r.at)
    [] r.product = "interval_insights" ->
         LET inside(n) == r.lo <= 2 * n /\ 2 * n < r.hi IN
           /\ Divides(s, r.field, r.lo) /\ Divides(s, r.field, r.hi)
           /\ \E n \in NumberedAt(s, r.field, 1) : inside(n)
           /\ \A n \in NumberedAt(s, r.field, 0) : ~inside(n)
    [] r.product = "literal_redundancies" ->
         r.left # r.right /\ Equivalent(s, r.left, r.right)
    [] r.product = "literal_subsumptions" -> LiteralSubsumes(s, r.left, r.right)
    [] r.product = "clause_subsumptions"  -> ClauseSubsumes(s, r.left, r.right)
    [] r.product = "weight_proposals" ->
         /\ r.class \in Supported(s)
         /\ \E t \in FactsOf(s, "clause_class_scores") :
              t.clause = r.clause /\ t.class = r.class /\ Weight(t.score) = r.weight

AnswersAreTrue == \A r \in answer.rows : IsSo(answer.about, r)

(***************************************************************************)
(* A count says whether a product is complete.  Where the numbers of each  *)
(* selected field are of one Python type and no clause has two scores for  *)
(* a class, an honest child is believed; and a product of which as many    *)
(* rows are emitted as available has every threshold, interval, relation   *)
(* and weight that the session bears out.  The service that contracts      *)
(* literals gets every equivalent pair, also from a print of which one     *)
(* line or count was altered (collective.py, pta_input.pl,                 *)
(* model_generation.py:2957-3139).                                         *)
(*                                                                         *)
(* Complete products also agree with the Python reference oracles: with    *)
(* their thresholds and with their intervals between negatives, unless a   *)
(* number has both labels, when the oracles, which look at one label at a  *)
(* time, may propose more; with their literals; of their clauses, whose    *)
(* support they do not look at, with some; and a weight is of one sign     *)
(* with theirs and at most one nearer to zero (input.py, deescalation.py,  *)
(* escalation.py).                                                         *)
(***************************************************************************)
PlainNumbers(s, fields) ==
  \A f \in fields : Cardinality({v.kind : v \in Terms(s, f)}) <= 1
PlainScores(s) ==
  \A t, u \in FactsOf(s, "clause_class_scores") :
    t.clause = u.clause /\ t.class = u.class => t.score = u.score

\* The midpoints of the pure flips.
Bounds(s, f) ==
  LET at0  == NumberedAt(s, f, 0)
      at1  == NumberedAt(s, f, 1)
      ends == ((at0 \ at1) \X (at1 \ at0)) \union ((at1 \ at0) \X (at0 \ at1))
  IN {p[1] + p[2] : p \in {p \in ends :
        p[1] < p[2] /\ ~\E k \in at0 \union at1 : p[1] < k /\ k < p[2]}}

BornOut(s, product) ==
  CASE product \in {"threshold_insights", "threshold_proposals"} ->
         UNION {{ThresholdRow(product, f, at) : at \in Bounds(s, f)} : f \in Selected}
    [] product = "interval_insights" ->
         UNION {{r \in {IntervalRow(f, lo, hi) : lo \in Bounds(s, f), hi \in Bounds(s, f)} : IsSo(s, r)} :
                  f \in Selected}
    [] product \in {"literal_redundancies", "literal_subsumptions"} ->
         {r \in {PairRow(product, x, y) : x \in Literals, y \in Literals} :
            /\ product = "literal_redundancies" => r.left < r.right
            /\ KnownIn(s, "literal_truths", {r.left, r.right}) /\ IsSo(s, r)}
    [] product = "clause_subsumptions" ->
         {r \in {PairRow(product, c, d) : c \in Clauses, d \in Clauses} :
            KnownIn(s, "clause_truths", {r.left, r.right}) /\ LiteralsOf(s, r.left) # {} /\ IsSo(s, r)}
    [] product = "weight_proposals" ->
         {r \in {WeightRow(c, k, Weight(n)) : c \in Clauses, k \in Classes, n \in Scores} :
            r.weight # 0 /\ IsSo(s, r)}

IsWhole(product) == RowsOf(answer.rows, product) = BornOut(answer.about, product)

SaysWhole(product) == Cardinality(RowsOf(answer.rows, product)) = answer.available[product]
Fresh == verdict = "answered" /\ answer.about = session

AskedFor(product) ==
  CASE product = "threshold_insights" -> query.thresholds
    [] product = "interval_insights"  -> query.intervals
    [] product \in {"threshold_proposals", "weight_proposals"} -> query.escalation
    [] OTHER -> query.deescalation

Mixed(s, f) == NumberedAt(s, f, 0) \intersect NumberedAt(s, f, 1) # {}

PairsIn(product) == {<<r.left, r.right>> : r \in RowsOf(answer.rows, product)}

BetweenNegatives(s, f) ==
  {i \in ProposedIntervals(s, f, MaxFacts) :
     \E n, m \in NumberedAt(s, f, 0) : 2 * n < i.lo /\ i.hi < 2 * m}

Nearer(w, v) == (w > 0) = (v > 0) /\ v - w \in (IF v > 0 THEN 0..1 ELSE -1..0)

OracleAgrees(s, product) ==
  CASE product = "threshold_insights" ->
         \A f \in Selected :
           LET found == {r.at : r \in {r \in RowsOf(answer.rows, product) : r.field = f}} IN
             IF Mixed(s, f) THEN found \subseteq ProposedThresholds(s, f, MaxFacts)
             ELSE found = ProposedThresholds(s, f, query.results)
    [] product = "interval_insights" ->
         \A f \in {f \in Selected : ~Mixed(s, f)} :
           {[lo |-> r.lo, hi |-> r.hi] : r \in {r \in RowsOf(answer.rows, product) : r.field = f}} =
             BetweenNegatives(s, f)
    [] product = "literal_redundancies" -> PairsIn(product) = RedundantLiterals(s)
    [] product = "literal_subsumptions" -> PairsIn(product) = SubsumedLiterals(s)
    [] product = "clause_subsumptions"  -> PairsIn(product) \subseteq SubsumedClauses(s)
    [] product = "weight_proposals" ->
         LET found  == RowsOf(answer.rows, product)
             oracle == AllocatedWeights(s, MaxFacts)
             same(r, v) == r.clause = v.clause /\ r.class = v.class
         IN PlainScores(s) =>
              /\ \A r \in found : \E v \in oracle : same(r, v) /\ Nearer(r.weight, v.weight)
              /\ \A v \in oracle : v.weight \notin -1..1 => \E r \in found : same(r, v)
    [] OTHER -> TRUE

AnswersAreWhole ==
  /\ verdict = "disbelieved" /\ misprints = 0 =>
       ~PlainNumbers(session, Selected) \/ ~PlainScores(session)
  /\ Fresh /\ misprints = 0 /\ PlainNumbers(session, Selected) =>
       \A p \in Products : AskedFor(p) /\ SaysWhole(p) =>
         IsWhole(p) /\ OracleAgrees(session, p)
  /\ Fresh /\ query.consumer = "redundancies" => IsWhole("literal_redundancies")
================================================================================
