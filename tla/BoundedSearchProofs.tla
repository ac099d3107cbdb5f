-------------------------- MODULE BoundedSearchProofs --------------------------
(***************************************************************************)
(* For any features, examples, templates, parents and limits: an answer    *)
(* agrees with the examples, a repair that stops was not allowed one turn  *)
(* for each example, and a refused threshold problem has no solution.      *)
(*                                                                         *)
(* The heart of it is that a repair never meets an example twice: the      *)
(* guard it holds has just been checked against all it has met (SeenIsMet),*)
(* so the example it fails on is another (SeenOnce).  A repair that has    *)
(* made one turn for each example has therefore met them all.              *)
(*                                                                         *)
(* What the trees that the search leaves out could repair, and that a      *)
(* program computes what its tree does, are inductions over trees: they    *)
(* stay with TLC.                                                          *)
(***************************************************************************)
EXTENDS BoundedSearch, Functions, FiniteSetTheorems, SequenceTheorems, TLAPS

\* Where a repair is under way and its guard has been checked.
Checked == phase \in {"round", "tally"}

\* The request is one; the loop is a repair's; what has been met are examples.
SearchTypes ==
  /\ request \in Requests
  /\ counterexamples \in Seq(Examples)
  /\ phase \in {"begin", "call", "round", "tally", "lower", "report", "ended"}
  /\ phase \in {"round", "tally"} => Repairing
  /\ phase = "begin" => counterexamples = <<>>
  /\ phase # "ended" => outcome = "none"

\* No example is met twice.
SeenOnce ==
  \A j, k \in 1..Len(counterexamples) : counterexamples[j] = counterexamples[k] => j = k

\* The guard is right on every example it was asked for.
SeenIsMet == Checked => \A i \in Seen : Repaired(i) = request.labels[i]

\* The loop is left after as many turns as it was allowed.
TallyIsLast == phase = "tally" => Len(counterexamples) >= IterationLimit

\* An answer that is about to be reported agrees with the examples.
AnswerAgrees ==
  (phase \in {"lower", "report"} \/ outcome = "solved") => AgreesWithExamples

ThresholdIsEarned ==
  outcome = "no solution" /\ request.kind = "threshold" => NothingSolves

SearchInv ==
  SearchTypes /\ SeenOnce /\ SeenIsMet /\ TallyIsLast /\ AnswerAgrees
  /\ StopIsEarned /\ ThresholdIsEarned
-----------------------------------------------------------------------------
LEMMA RequestFields ==
  ASSUME NEW r \in Requests
  PROVE  /\ r.labels \in [Examples -> BOOLEAN]
         /\ r.kind = "repair" => r.iterations \in Nat \ {0}
BY SearchAssumption DEF Requests, Labellings

LEMMA RowsLength == Len(Rows) \in Nat /\ Examples = 1..Len(Rows)
BY SearchAssumption DEF Examples

\* A sequence of different examples that is as long as there are examples
\* names them all.
LEMMA AllAreSeen ==
  ASSUME SearchTypes, SeenOnce, Len(counterexamples) >= Len(Rows)
  PROVE  Seen = Examples
<1> DEFINE n == Len(Rows)
           f == [k \in 1..n |-> counterexamples[k]]
<1>1. n \in Nat /\ Examples = 1..n BY RowsLength
<1>2. /\ Len(counterexamples) \in Nat
      /\ \A k \in 1..Len(counterexamples) : counterexamples[k] \in 1..n
  BY <1>1 DEF SearchTypes
<1>3. f \in Injection(1..n, 1..n)
  <2>1. f \in [1..n -> 1..n] BY <1>1, <1>2
  <2>2. \A j, k \in 1..n : f[j] = f[k] => j = k BY <1>1, <1>2 DEF SeenOnce
  <2> QED BY <2>1, <2>2 DEF Injection, IsInjective
<1>4. IsFiniteSet(1..n) BY <1>1, FS_Interval
<1> HIDE DEF n, f
<1>5. f \in Surjection(1..n, 1..n)
  <2>1. Cardinality(1..n) = Cardinality(1..n) <=> f \in Surjection(1..n, 1..n)
    BY ONLY <1>3, <1>4, FS_Injection
  <2> QED BY <2>1
<1> USE DEF n, f
<1>6. \A i \in 1..n : \E k \in 1..n : f[k] = i BY <1>5 DEF Surjection
<1>7. Seen \subseteq Examples BY DEF Seen, SearchTypes
<1>8. ASSUME NEW i \in Examples PROVE i \in Seen
  <2>1. PICK k \in 1..n : f[k] = i BY <1>1, <1>6
  <2>2. k \in DOMAIN counterexamples BY <1>1, <1>2 DEF SearchTypes
  <2> QED BY <2>1, <2>2 DEF Seen
<1> QED BY <1>7, <1>8

\* An example the guard fails on has not been met.
LEMMA MismatchIsNew ==
  ASSUME SearchInv, phase \in {"round", "tally"}
  PROVE  \A i \in Mismatches : i \in Examples /\ i \notin Seen
BY DEF SearchInv, SeenIsMet, Checked, Mismatches

\* What a guard that was accepted is right on.
LEMMA AcceptedGuard ==
  ASSUME SearchTypes, Repairing, NEW c, Fits(c), NEW i \in Seen
  PROVE  (Predicts(request.parent, Rows[i]) # Predicts(c, Rows[i])) = request.labels[i]
<1>1. i \in Examples BY DEF Seen, SearchTypes
<1>2. request.labels[i] \in BOOLEAN BY <1>1, RequestFields DEF SearchTypes
<1>3. Matches(c, i) = Predicts(c, Rows[i]) BY DEF Matches, Repairing
<1>4. Matches(c, i) = Flip(i) BY DEF Fits, Asked, Wanted
<1> QED BY <1>2, <1>3, <1>4 DEF Flip, Predicts

\* What an answer that was accepted is right on.
LEMMA AcceptedAnswer ==
  ASSUME ~Repairing, NEW c, Fits(c), NEW i \in Examples
  PROVE  Matches(c, i) = request.labels[i]
BY DEF Fits, Asked, Wanted

\* _has_monotonicity_contradiction: a threshold that matches an example
\* matches a larger one.
LEMMA ThresholdsAreMonotone ==
  ASSUME request.kind = "threshold", SearchTypes, MonotonicityContradiction
  PROVE  NothingSolves
<1>1. PICK i \in Examples, j \in Examples :
        request.labels[i] /\ ~request.labels[j] /\ Rows[i] \subseteq Rows[j]
  BY DEF MonotonicityContradiction
<1>2. InBounds = Thresholds BY DEF InBounds
<1>3. SUFFICES ASSUME NEW c \in Thresholds,
                      Matches(c, i) = request.labels[i], Matches(c, j) = request.labels[j]
               PROVE  FALSE
  BY <1>2 DEF NothingSolves
<1>4. c.selected \subseteq Slots /\ c.minimum \in Int
  BY SearchAssumption DEF Thresholds
<1>5. Cardinality(c.selected \intersect Rows[i]) >= c.minimum
  BY <1>1, <1>3 DEF Matches
<1>6. ~(Cardinality(c.selected \intersect Rows[j]) >= c.minimum)
  BY <1>1, <1>3 DEF Matches
<1>7. /\ Cardinality(c.selected \intersect Rows[i]) <= Cardinality(c.selected \intersect Rows[j])
      /\ Cardinality(c.selected \intersect Rows[i]) \in Nat
      /\ Cardinality(c.selected \intersect Rows[j]) \in Nat
  <2>1. IsFiniteSet(c.selected) BY <1>4, SlotsAssumption, FS_Subset
  <2>2. IsFiniteSet(c.selected \intersect Rows[j]) /\ IsFiniteSet(c.selected \intersect Rows[i])
    BY <2>1, FS_Subset
  <2>3. c.selected \intersect Rows[i] \in SUBSET (c.selected \intersect Rows[j]) BY <1>1
  <2> QED BY <2>2, <2>3, FS_Subset, FS_CardinalityType
<1> QED BY <1>4, <1>5, <1>6, <1>7
-----------------------------------------------------------------------------
LEMMA InitHolds == Init => SearchInv
<1> SUFFICES ASSUME Init PROVE SearchInv OBVIOUS
<1>1. SearchTypes BY DEF Init, SearchTypes
<1>2. SeenOnce BY DEF Init, SeenOnce
<1> QED
  BY <1>1, <1>2 DEF Init, SearchInv, SeenIsMet, Checked, TallyIsLast, AnswerAgrees,
                    StopIsEarned, ThresholdIsEarned

\* Steps that leave the request, the guard, the loop and the outcome alone.
LEMMA StutterHolds ==
  ASSUME SearchInv, UNCHANGED <<request, phase, found, counterexamples, outcome>>
  PROVE  SearchInv'
<1>1. /\ SearchTypes' = SearchTypes /\ SeenOnce' = SeenOnce /\ SeenIsMet' = SeenIsMet
      /\ TallyIsLast' = TallyIsLast /\ AnswerAgrees' = AnswerAgrees
      /\ StopIsEarned' = StopIsEarned /\ ThresholdIsEarned' = ThresholdIsEarned
  BY DEF SearchTypes, SeenOnce, SeenIsMet, Checked, Seen, Repaired, Repairing, TallyIsLast,
         IterationLimit, AnswerAgrees, AgreesWithExamples, Matches, StopIsEarned,
         ThresholdIsEarned, NothingSolves, InBounds
<1> QED BY <1>1 DEF SearchInv

\* A request that ends with an outcome that is no result and no refusal of its
\* own: an error, a timeout, a cancellation.
LEMMA EndHolds ==
  ASSUME SearchInv, NEW o, End(o),
         o \notin {"solved", "stopped", "no solution"},
         UNCHANGED <<request, counterexamples>>
  PROVE  SearchInv'
<1>1. phase' = "ended" /\ outcome' = o BY DEF End
<1>2. SearchTypes' BY <1>1 DEF SearchInv, SearchTypes, Repairing
<1>3. SeenOnce' BY DEF SearchInv, SeenOnce
<1> QED
  BY <1>1, <1>2, <1>3 DEF SearchInv, SeenIsMet, Checked, TallyIsLast, AnswerAgrees,
                          StopIsEarned, ThresholdIsEarned

LEMMA BeginHolds ==
  ASSUME SearchInv, Begin
  PROVE  SearchInv'
<1> USE DEF Begin
<1>1. CASE expired /\ End("timeout") BY <1>1, EndHolds
<1>2. CASE /\ Repairing /\ phase' = "round" /\ UNCHANGED outcome
  <2>1. SearchTypes' BY <1>2 DEF SearchInv, SearchTypes, Repairing
  <2>2. SeenOnce' BY DEF SearchInv, SeenOnce
  <2>3. SeenIsMet'
    <3>1. counterexamples' = <<>> BY DEF SearchInv, SearchTypes
    <3>2. counterexamples' \in Seq(Examples) BY <3>1, EmptySeq
    <3>3. Len(counterexamples') = 0 BY ONLY <3>1, EmptySeq
    <3>4. DOMAIN counterexamples' = {} BY ONLY <3>2, <3>3
    <3>5. Seen' = {} BY ONLY <3>4 DEF Seen
    <3> QED BY <3>5 DEF SeenIsMet
  <2> QED
    BY <1>2, <2>1, <2>2, <2>3 DEF SearchInv, SearchTypes, TallyIsLast, AnswerAgrees,
                                  StopIsEarned, ThresholdIsEarned
<1>3. CASE request.kind = "threshold" /\ MonotonicityContradiction /\ End("no solution")
  <2>1. phase' = "ended" /\ outcome' = "no solution" BY <1>3 DEF End
  <2>2. SearchTypes' BY <2>1 DEF SearchInv, SearchTypes, Repairing
  <2>3. SeenOnce' BY DEF SearchInv, SeenOnce
  <2>4. ThresholdIsEarned'
    <3>1. NothingSolves BY <1>3, ThresholdsAreMonotone DEF SearchInv
    <3> QED BY <3>1 DEF ThresholdIsEarned, NothingSolves, InBounds, Matches
  <2> QED
    BY <2>1, <2>2, <2>3, <2>4 DEF SearchInv, SeenIsMet, Checked, TallyIsLast,
                                  AnswerAgrees, StopIsEarned
<1>4. CASE ~Repairing /\ Ask /\ UNCHANGED outcome
  <2>1. phase' = "call" /\ outcome' = "none" BY <1>4 DEF Ask, SearchInv, SearchTypes
  <2>2. SearchTypes' BY <2>1 DEF SearchInv, SearchTypes, Repairing
  <2>3. SeenOnce' BY DEF SearchInv, SeenOnce
  <2> QED
    BY <2>1, <2>2, <2>3 DEF SearchInv, SeenIsMet, Checked, TallyIsLast, AnswerAgrees,
                            StopIsEarned, ThresholdIsEarned
<1> QED BY <1>1, <1>2, <1>3, <1>4

\* One turn of the loop: a mismatch is new, so it is met once.
LEMMA RoundHolds ==
  ASSUME SearchInv, Round
  PROVE  SearchInv'
<1> USE DEF Round
<1>1. phase = "round" /\ outcome = "none" /\ Repairing /\ UNCHANGED <<request, found>>
  BY DEF SearchInv, SearchTypes
<1>2. CASE /\ Len(counterexamples) >= IterationLimit
           /\ phase' = "tally" /\ UNCHANGED <<outcome, counterexamples>>
  <2>1. SearchTypes' BY <1>1, <1>2 DEF SearchInv, SearchTypes, Repairing
  <2>2. SeenOnce' BY <1>2 DEF SearchInv, SeenOnce
  <2>3. SeenIsMet'
    BY <1>1, <1>2 DEF SearchInv, SeenIsMet, Checked, Seen, Repaired
  <2>4. TallyIsLast' BY <1>1, <1>2 DEF TallyIsLast, IterationLimit
  <2> QED
    BY <1>1, <1>2, <2>1, <2>2, <2>3, <2>4 DEF SearchInv, AnswerAgrees, StopIsEarned,
                                              ThresholdIsEarned
<1>3. CASE (End("cancelled") \/ End("timeout")) /\ UNCHANGED counterexamples
  BY <1>1, <1>3, EndHolds
<1>4. CASE Mismatches = {} /\ phase' = "lower" /\ UNCHANGED <<outcome, counterexamples>>
  <2>1. SearchTypes' BY <1>1, <1>4 DEF SearchInv, SearchTypes, Repairing
  <2>2. SeenOnce' BY <1>4 DEF SearchInv, SeenOnce
  <2>3. AgreesWithExamples BY <1>1, <1>4 DEF AgreesWithExamples, Mismatches
  <2>4. AgreesWithExamples'
    BY <1>1, <2>3 DEF AgreesWithExamples, Repairing, Repaired, Matches
  <2> QED
    BY <1>1, <1>4, <2>1, <2>2, <2>4 DEF SearchInv, SeenIsMet, Checked, TallyIsLast,
                                        AnswerAgrees, StopIsEarned, ThresholdIsEarned
<1>5. CASE /\ \E i \in Mismatches : counterexamples' = Append(counterexamples, i)
           /\ Ask /\ UNCHANGED outcome
  <2>1. PICK i \in Mismatches : counterexamples' = Append(counterexamples, i) BY <1>5
  <2>2. i \in Examples /\ i \notin Seen BY <1>1, MismatchIsNew
  <2>3. phase' = "call" /\ outcome' = "none" BY <1>1, <1>5 DEF Ask
  <2>4. counterexamples \in Seq(Examples) BY DEF SearchInv, SearchTypes
  <2>5. SearchTypes'
    BY <1>1, <2>1, <2>2, <2>3, <2>4 DEF SearchInv, SearchTypes, Repairing
  <2>6. SeenOnce'
    <3>1. \A k \in 1..Len(counterexamples) : counterexamples[k] # i
      BY <2>2, <2>4 DEF Seen
    <3>2. \A j, k \in 1..Len(counterexamples) :
            counterexamples[j] = counterexamples[k] => j = k
      BY DEF SearchInv, SeenOnce
    <3> QED BY <2>1, <2>2, <2>4, <3>1, <3>2 DEF SeenOnce
  <2> QED
    BY <2>3, <2>5, <2>6 DEF SearchInv, SeenIsMet, Checked, TallyIsLast, AnswerAgrees,
                            StopIsEarned, ThresholdIsEarned
<1> QED BY <1>1, <1>2, <1>3, <1>4, <1>5

LEMMA TallyHolds ==
  ASSUME SearchInv, Tally
  PROVE  SearchInv'
<1> USE DEF Tally
<1>1. phase = "tally" /\ outcome = "none" /\ Repairing
      /\ UNCHANGED <<request, found, counterexamples>>
  BY DEF SearchInv, SearchTypes
<1>2. CASE End("timeout") BY <1>1, <1>2, EndHolds
<1>3. CASE Mismatches = {} /\ phase' = "lower" /\ UNCHANGED outcome
  <2>1. SearchTypes' BY <1>1, <1>3 DEF SearchInv, SearchTypes, Repairing
  <2>2. SeenOnce' BY <1>1 DEF SearchInv, SeenOnce
  <2>3. AgreesWithExamples BY <1>1, <1>3 DEF AgreesWithExamples, Mismatches
  <2>4. AgreesWithExamples'
    BY <1>1, <2>3 DEF AgreesWithExamples, Repairing, Repaired, Matches
  <2> QED
    BY <1>1, <1>3, <2>1, <2>2, <2>4 DEF SearchInv, SeenIsMet, Checked, TallyIsLast,
                                        AnswerAgrees, StopIsEarned, ThresholdIsEarned
<1>4. CASE Mismatches # {} /\ End("stopped")
  <2>1. phase' = "ended" /\ outcome' = "stopped" BY <1>4 DEF End
  <2>2. SearchTypes' BY <1>1, <2>1 DEF SearchInv, SearchTypes, Repairing
  <2>3. SeenOnce' BY <1>1 DEF SearchInv, SeenOnce
  <2>4. Seen # Examples BY <1>1, <1>4, MismatchIsNew
  <2>5. ~(Len(counterexamples) >= Len(Rows)) BY <2>4, AllAreSeen DEF SearchInv
  <2>6. request.iterations \in Nat /\ Len(Rows) \in Nat /\ Len(counterexamples) \in Nat
    BY <1>1, RequestFields, RowsLength DEF SearchInv, SearchTypes, Repairing
  <2>7. Len(counterexamples) >= IterationLimit BY <1>1 DEF SearchInv, TallyIsLast
  <2>8. StopIsEarned' BY <1>1, <2>5, <2>6, <2>7 DEF StopIsEarned, IterationLimit
  <2> QED
    BY <2>1, <2>2, <2>3, <2>8 DEF SearchInv, SeenIsMet, Checked, TallyIsLast,
                                  AnswerAgrees, ThresholdIsEarned
<1> QED BY <1>1, <1>2, <1>3, <1>4

LEMMA AnsweredHolds ==
  ASSUME SearchInv, Answered
  PROVE  SearchInv'
<1> USE DEF Answered
<1>1. phase = "call" /\ outcome = "none" /\ UNCHANGED <<request, counterexamples>>
  BY DEF Printed, Returned, SearchInv, SearchTypes
<1>2. CASE End("failed") BY <1>1, <1>2, EndHolds
<1>3. CASE \E c \in Printable : /\ Fits(c) /\ found' = c
                                /\ phase' = (IF Repairing THEN "round" ELSE "lower")
                                /\ UNCHANGED outcome
  <2>1. PICK c : Fits(c) /\ found' = c BY <1>3
  <2>2. SearchTypes' BY <1>1, <1>3 DEF SearchInv, SearchTypes, Repairing
  <2>3. SeenOnce' BY <1>1 DEF SearchInv, SeenOnce
  <2>4. CASE Repairing
    <3>1. \A i \in Seen :
            (Predicts(request.parent, Rows[i]) # Predicts(c, Rows[i])) = request.labels[i]
      BY <2>1, <2>4, AcceptedGuard DEF SearchInv
    <3>2. SeenIsMet' BY <1>1, <2>1, <3>1 DEF SeenIsMet, Seen, Repaired
    <3> QED
      BY <1>1, <1>3, <2>2, <2>3, <2>4, <3>2
      DEF SearchInv, TallyIsLast, AnswerAgrees, StopIsEarned, ThresholdIsEarned
  <2>5. CASE ~Repairing
    <3>1. \A i \in Examples : Matches(c, i) = request.labels[i]
      BY <2>1, <2>5, AcceptedAnswer
    <3>2. AgreesWithExamples'
      BY <1>1, <2>1, <2>5, <3>1 DEF AgreesWithExamples, Repairing, Matches
    <3> QED
      BY <1>1, <1>3, <2>2, <2>3, <2>5, <3>2
      DEF SearchInv, SeenIsMet, Checked, TallyIsLast, AnswerAgrees, StopIsEarned,
          ThresholdIsEarned
  <2> QED BY <2>4, <2>5
<1> QED BY <1>2, <1>3 DEF Validated

LEMMA ExhaustedHolds ==
  ASSUME SearchInv, Exhausted
  PROVE  SearchInv'
<1> USE DEF Exhausted
<1>1. phase = "call" /\ outcome = "none" /\ UNCHANGED <<request, counterexamples>>
  BY DEF Printed, Returned, SearchInv, SearchTypes
<1>2. CASE Repairing BY <1>1, <1>2, EndHolds
<1>3. CASE ~Repairing
  <2>1. phase' = "ended" /\ outcome' = "no solution" BY <1>3 DEF End
  <2>2. SearchTypes' BY <1>1, <2>1 DEF SearchInv, SearchTypes, Repairing
  <2>3. SeenOnce' BY <1>1 DEF SearchInv, SeenOnce
  <2>4. ThresholdIsEarned'
    <3>1. SUFFICES ASSUME request.kind = "threshold" PROVE NothingSolves
      BY <1>1 DEF ThresholdIsEarned, NothingSolves, InBounds, Matches
    <3>2. SearchSpace = InBounds BY <3>1 DEF SearchSpace
    <3>3. \A c : ~Fits(c) => \E i \in Examples : Matches(c, i) # request.labels[i]
      BY <1>3 DEF Fits, Asked, Wanted
    <3> QED BY <3>2, <3>3 DEF NothingSolves
  <2> QED
    BY <2>1, <2>2, <2>3, <2>4 DEF SearchInv, SeenIsMet, Checked, TallyIsLast,
                                  AnswerAgrees, StopIsEarned
<1> QED BY <1>2, <1>3

LEMMA RefusedHolds ==
  ASSUME SearchInv, Refused \/ Unintelligible
  PROVE  SearchInv'
<1>1. UNCHANGED <<request, counterexamples>> BY DEF Refused, Unintelligible
<1>2. End("cancelled") \/ End("timeout") \/ End("failed")
  BY DEF Refused, Unintelligible
<1> QED BY <1>1, <1>2, EndHolds

\* The answer is lowered and reported as it is.
LEMMA ReportHolds ==
  ASSUME SearchInv, Lower \/ Report
  PROVE  SearchInv'
<1>1. /\ phase \in {"lower", "report"} /\ outcome = "none"
      /\ UNCHANGED <<request, found, counterexamples>>
  BY DEF Lower, Report, SearchInv, SearchTypes
<1>2. CASE End("not lowered") \/ End("timeout") BY <1>1, <1>2, EndHolds
<1>3. CASE \/ phase' = "report" /\ UNCHANGED outcome
           \/ End("solved")
  <2>1. phase' \in {"report", "ended"} /\ outcome' \in {"none", "solved"}
        /\ (phase' # "ended" => outcome' = "none")
    BY <1>1, <1>3 DEF End
  <2>2. SearchTypes' BY <1>1, <2>1 DEF SearchInv, SearchTypes, Repairing
  <2>3. SeenOnce' BY <1>1 DEF SearchInv, SeenOnce
  <2>4. AgreesWithExamples BY <1>1 DEF SearchInv, AnswerAgrees
  <2>5. AgreesWithExamples'
    BY <1>1, <2>4 DEF AgreesWithExamples, Repairing, Repaired, Matches
  <2> QED
    BY <2>1, <2>2, <2>3, <2>5 DEF SearchInv, SeenIsMet, Checked, TallyIsLast,
                                  AnswerAgrees, StopIsEarned, ThresholdIsEarned
<1> QED BY <1>2, <1>3 DEF Lower, Report
-----------------------------------------------------------------------------
(***************************************************************************)
(* Every step of the request and of the bounded call keeps the invariant.  *)
(***************************************************************************)
THEOREM SearchInvariant == Spec => []SearchInv
<1>1. SearchInv /\ [Next]_vars => SearchInv'
  <2> SUFFICES ASSUME SearchInv, [Next]_vars PROVE SearchInv' OBVIOUS
  <2>1. CASE CallStep \/ Expire \/ Cancel \/ UNCHANGED vars
    <3>1. UNCHANGED <<request, phase, found, counterexamples, outcome>>
      BY <2>1 DEF CallStep, CallMay, Expire, Cancel, vars
    <3> QED BY <3>1, StutterHolds
  <2>2. CASE Begin BY <2>2, BeginHolds
  <2>3. CASE Round BY <2>3, RoundHolds
  <2>4. CASE Tally BY <2>4, TallyHolds
  <2>5. CASE Refused \/ Unintelligible BY <2>5, RefusedHolds
  <2>6. CASE Answered BY <2>6, AnsweredHolds
  <2>7. CASE Exhausted BY <2>7, ExhaustedHolds
  <2>8. CASE Lower \/ Report BY <2>8, ReportHolds
  <2> QED BY <2>1, <2>2, <2>3, <2>4, <2>5, <2>6, <2>7, <2>8 DEF Next, Drive
<1> QED BY InitHolds, <1>1, PTL DEF Spec

(***************************************************************************)
(* A result that is returned agrees with every example, a repair's         *)
(* included, which was asked for some of them only (prolog_bridge.py,      *)
(* repair_decision_tree).                                                  *)
(***************************************************************************)
THEOREM AnswersFit == Spec => [](outcome = "solved" => AgreesWithExamples)
<1>1. SearchInv => (outcome = "solved" => AgreesWithExamples)
  BY DEF SearchInv, AnswerAgrees
<1> QED BY <1>1, SearchInvariant, PTL

(***************************************************************************)
(* A repair that stops without a guard had fewer turns than examples, so a *)
(* limit that is no smaller can be relied on (prolog_bridge.py,            *)
(* iteration_limit).                                                       *)
(***************************************************************************)
THEOREM StopsAreEarned == Spec => []StopIsEarned
<1>1. SearchInv => StopIsEarned BY DEF SearchInv
<1> QED BY <1>1, SearchInvariant, PTL

(***************************************************************************)
(* A threshold problem that is refused has no solution within its bounds,  *)
(* whether it was searched or turned down before (prolog_bridge.py,        *)
(* _has_monotonicity_contradiction).                                       *)
(***************************************************************************)
THEOREM ThresholdRefusalsAreEarned ==
  Spec => [](outcome = "no solution" /\ request.kind = "threshold" => NothingSolves)
<1>1. SearchInv => (outcome = "no solution" /\ request.kind = "threshold" => NothingSolves)
  BY DEF SearchInv, ThresholdIsEarned
<1> QED BY <1>1, SearchInvariant, PTL
================================================================================
