----------------------------- MODULE BoundedSearch -----------------------------
(***************************************************************************)
(* One request to the bounded symbolic search: run_bounded_search, the     *)
(* four searches of GNUPrologSearch and its counterexample-guided repair.  *)
(* Each search is one child process, here BoundedCall.  Python checks what *)
(* the child prints against the bounds and the examples; only the child's  *)
(* "no solution" is taken on trust.                                        *)
(*                                                                         *)
(* The repair looks for a guard tree whose parity with a given parent has  *)
(* the labels: it asks for a guard for the examples it has seen fail, and  *)
(* asks again with the first example the answer fails on.                  *)
(*                                                                         *)
(* Bounds: the rows, parents, depths and iteration limits of the requests. *)
(* A child that prints is honest when it prints "no solution" and may      *)
(* print any candidate; the search itself is bounded_*_search.pl.          *)
(***************************************************************************)
EXTENDS DecisionTrees, Sequences

CONSTANTS
  Rows,           \* the examples, sets of slots
  Coverage,       \* the feature templates: for each, the examples it matches
  MaxWidth,       \* max_selected and max_literals
  Parents,        \* the trees to repair
  Misprints,      \* trees that are printed though they were not searched
  Depths,         \* max_depth
  IterationLimits,\* max_iterations
  MaxCandidates   \* MAX_SEARCH_CANDIDATES

ASSUME SearchAssumption ==
  /\ Rows \in Seq(SUBSET Slots) /\ Rows # <<>>
  /\ MaxWidth \in Nat /\ MaxCandidates \in Nat /\ Depths \subseteq 0..MaxDepth /\ IterationLimits \subseteq Nat \ {0}

VARIABLES
  request,
  phase,            \* where run_bounded_search is
  found,            \* the last accepted candidate; a repair's guard
  counterexamples,  \* repair: the failing examples, in the order they were met
  program,          \* the fixed Logic program, or NoProgram
  outcome,          \* "none" until the call returns or raises
  expired,          \* the request's deadline has passed
  cancelled,        \* cancel() answers True
  call, child, result   \* the bounded call of the search under way

callVars  == <<call, child, result>>
clockVars == <<expired, cancelled>>
vars      == <<request, phase, found, counterexamples, program, outcome, clockVars, callVars>>

Bounded == INSTANCE BoundedCall

Examples  == 1..Len(Rows)
NoProgram == [op |-> "none"]

\* The candidates a search may have to go through, counted before it starts.
Comb[n \in 0..(2 * Cardinality(Slots)), k \in 0..MaxWidth] ==
  IF k = 0 THEN 1 ELSE IF n = 0 THEN 0 ELSE Comb[n - 1, k - 1] + Comb[n - 1, k]

ThresholdBound ==
  LET upTo[w \in 0..MaxWidth] ==
        IF w = 0 THEN 0 ELSE upTo[w - 1] + Comb[Cardinality(Slots), w] * w
  IN upTo[MaxWidth]

ClauseBound ==
  LET upTo[w \in 0..MaxWidth] ==
        IF w = 0 THEN 0 ELSE upTo[w - 1] + Comb[2 * Cardinality(Slots), w]
  IN upTo[MaxWidth]

\* Of a node at a depth with so many slots left; beyond the limit it is not exact.
TreeBound[slots \in 0..Cardinality(Slots), depth \in 0..MaxDepth] ==
  IF depth = 0 \/ slots = 0 THEN 2
  ELSE LET below == TreeBound[slots - 1, depth - 1]
           total == 2 + slots * below * below
       IN IF total <= MaxCandidates THEN total ELSE MaxCandidates + 1

CandidateBound(r) ==
  CASE r.kind = "threshold"        -> ThresholdBound
    [] r.kind = "feature-template" -> Len(Coverage)
    [] r.kind = "ta-clause"        -> ClauseBound
    [] OTHER                       -> TreeBound[Cardinality(Slots), r.depth]

\* search_request_budget: what the problem classes admit.
BothClasses(labels) == {labels[i] : i \in Examples} = BOOLEAN
Consistent(labels)  == \A i, j \in Examples : Rows[i] = Rows[j] => labels[i] = labels[j]

Labellings == [Examples -> BOOLEAN]
Requests ==
  {r \in [kind: {"threshold", "feature-template", "ta-clause"}, labels: Labellings]
         \union [kind: {"decision-tree"}, labels: Labellings, depth: Depths]
         \union [kind: {"repair"}, labels: Labellings, depth: Depths,
                 parent: Parents, iterations: IterationLimits] :
     /\ r.kind \in {"threshold", "feature-template", "ta-clause"} => BothClasses(r.labels)
     /\ r.kind \in {"ta-clause", "decision-tree", "repair"} => Consistent(r.labels)
     /\ CandidateBound(r) <= MaxCandidates}

Init ==
  /\ request \in Requests
  /\ phase = "begin" /\ found = Leaf(FALSE) /\ counterexamples = <<>>
  /\ program = NoProgram /\ outcome = "none"
  /\ expired = FALSE /\ cancelled = FALSE
  /\ Bounded!CallInit
-----------------------------------------------------------------------------
\* Candidates, and which examples they match.

Thresholds ==
  {c \in [selected: SUBSET Slots \ {{}}, minimum: 1..MaxWidth] :
     c.minimum <= Cardinality(c.selected) /\ Cardinality(c.selected) <= MaxWidth}
Literals  == [slot: Slots, negated: BOOLEAN]
Clauses   == {c \in [literals: SUBSET Literals \ {{}}] : Cardinality(c.literals) <= MaxWidth}
Templates == [template: DOMAIN Coverage]

\* Those within the bounds of the request, for the checks in Python.
InBounds ==
  CASE request.kind = "threshold"        -> Thresholds
    [] request.kind = "feature-template" -> Templates
    [] request.kind = "ta-clause"        -> Clauses
    [] OTHER                             -> TreesTo[request.depth]

\* Those the Prolog search goes through: it leaves out clauses with a literal
\* and its complement, and trees with equal branches.
Contradicts(c) == \E l, m \in c.literals : l.slot = m.slot /\ l.negated # m.negated
SearchSpace ==
  CASE request.kind = "ta-clause" -> {c \in Clauses : ~Contradicts(c)}
    [] request.kind \in {"decision-tree", "repair"} -> SearchedTo[request.depth]
    [] OTHER -> InBounds

Matches(c, i) ==
  CASE request.kind = "threshold"        -> Cardinality(c.selected \intersect Rows[i]) >= c.minimum
    [] request.kind = "feature-template" -> i \in Coverage[c.template]
    [] request.kind = "ta-clause"        -> \A l \in c.literals : (l.slot \in Rows[i]) # l.negated
    [] OTHER                             -> Predicts(c, Rows[i])

Repairing == request.kind = "repair"
Seen      == {counterexamples[k] : k \in DOMAIN counterexamples}

\* Mutant: a repair asks about the last failing example only.
AskedLast == IF Repairing THEN {counterexamples[Len(counterexamples)]} ELSE Examples

\* What the call under way asks for: a repair asks which of the examples it
\* has seen fail must be flipped.
Asked     == IF Repairing THEN Seen ELSE Examples
Flip(i)   == Predicts(request.parent, Rows[i]) # request.labels[i]
Wanted(i) == IF Repairing THEN Flip(i) ELSE request.labels[i]

Fits(c) == \A i \in Asked : Matches(c, i) = Wanted(i)

\* Mutant: the bounds are checked and the examples are not.
ValidatedBounds(c) == c \in InBounds

\* The check of an answer in Python.
Validated(c) == c \in InBounds /\ Fits(c)

\* A monotone rule cannot match an example and not a larger one.
MonotonicityContradiction ==
  \E i, j \in Examples : request.labels[i] /\ ~request.labels[j] /\ Rows[i] \subseteq Rows[j]
-----------------------------------------------------------------------------
End(o) == phase' = "ended" /\ outcome' = o

\* A new process for the next search.
Ask ==
  /\ phase' = "call"
  /\ call' = "ready" /\ child' = "none" /\ result' = "none"

Begin ==
  /\ phase = "begin"
  /\ \/ expired /\ End("timeout") /\ UNCHANGED callVars
     \/ /\ ~expired /\ Repairing
        /\ phase' = "round" /\ UNCHANGED <<outcome, callVars>>
     \/ /\ ~expired /\ request.kind = "threshold" /\ MonotonicityContradiction
        /\ End("no solution") /\ UNCHANGED callVars
     \/ /\ ~expired /\ ~Repairing
        /\ ~(request.kind = "threshold" /\ MonotonicityContradiction)
        /\ Ask /\ UNCHANGED outcome
  /\ UNCHANGED <<request, found, counterexamples, program, clockVars>>

\* The repaired value of an example.
Repaired(i) == Predicts(request.parent, Rows[i]) # Predicts(found, Rows[i])
Mismatches  == {i \in Examples : Repaired(i) # request.labels[i]}

IterationLimit ==
  IF request.iterations < Len(Rows) THEN request.iterations ELSE Len(Rows)

\* One turn of the loop: each turn that goes on adds a counterexample.
Round ==
  /\ phase = "round"
  /\ LET last == Len(counterexamples) >= IterationLimit IN
       \/ /\ last
          /\ phase' = "tally" /\ UNCHANGED <<outcome, counterexamples, callVars>>
       \/ /\ ~last /\ cancelled
          /\ End("cancelled") /\ UNCHANGED <<counterexamples, callVars>>
       \/ /\ ~last /\ ~cancelled /\ expired
          /\ End("timeout") /\ UNCHANGED <<counterexamples, callVars>>
       \/ /\ ~last /\ ~cancelled /\ ~expired /\ Mismatches = {}
          /\ phase' = "lower" /\ UNCHANGED <<outcome, counterexamples, callVars>>
       \/ /\ ~last /\ ~cancelled /\ ~expired
          /\ \E i \in Mismatches :
               /\ \A j \in Mismatches : i <= j
               /\ counterexamples' = Append(counterexamples, i)
          /\ Ask /\ UNCHANGED outcome
  /\ UNCHANGED <<request, found, program, clockVars>>

\* After the last turn.
Tally ==
  /\ phase = "tally"
  /\ IF expired THEN End("timeout")
     ELSE IF Mismatches = {} THEN phase' = "lower" /\ UNCHANGED outcome
     ELSE End("stopped")
  /\ UNCHANGED <<request, found, counterexamples, program, clockVars, callVars>>
-----------------------------------------------------------------------------
\* The bounded call.  It is given the time that remains and the request's
\* cancel(), so it reports a timeout or a cancellation only when there is one.
CallMay ==
  /\ phase = "call"
  /\ result' = "Timeout" => expired
  /\ result' = "Cancelled" => cancelled
  /\ UNCHANGED <<request, phase, found, counterexamples, program, outcome, clockVars>>

CallStep     == Bounded!CallNext /\ CallMay
CallProgress == (Bounded!Launch \/ Bounded!LaunchFails \/ Bounded!Progress) /\ CallMay

Returned == phase = "call" /\ call = "returned"

\* Mutant: a call whose boundary has failed is tried again.
RefusedRetries ==
  /\ Returned /\ result \in Bounded!Refusals
  /\ CASE result = "Cancelled" -> End("cancelled") /\ UNCHANGED callVars
       [] result = "Timeout"   -> End("timeout") /\ UNCHANGED callVars
       [] OTHER                -> Ask /\ UNCHANGED outcome
  /\ UNCHANGED <<request, found, counterexamples, program, clockVars>>

Refused ==
  /\ Returned /\ result \in Bounded!Refusals
  /\ CASE result = "Cancelled" -> End("cancelled")
       [] result = "Timeout"   -> End("timeout")
       [] OTHER                -> End("failed")
  /\ UNCHANGED <<request, found, counterexamples, program, clockVars, callVars>>

\* Only the threshold search looks at the exit code.
Printed == Returned /\ (result = "exited" \/ (result = "killed" /\ request.kind # "threshold"))

\* What the child may print as a candidate.
Printable ==
  SearchSpace \union (IF request.kind \in {"decision-tree", "repair"} THEN Misprints
                      ELSE InBounds)

Answered ==
  /\ Printed
  /\ \E c \in Printable :
       IF Validated(c)
       THEN /\ found' = c
            /\ phase' = (IF Repairing THEN "round" ELSE "lower")
            /\ UNCHANGED outcome
       ELSE End("failed") /\ UNCHANGED found
  /\ UNCHANGED <<request, counterexamples, program, clockVars, callVars>>

\* The search has gone through its space and found nothing.
Exhausted ==
  /\ Printed
  /\ \A c \in SearchSpace : ~Fits(c)
  /\ End(IF Repairing THEN "no guard" ELSE "no solution")
  /\ UNCHANGED <<request, found, counterexamples, program, clockVars, callVars>>

\* A child that fails prints no line of the protocol, or ends with an error.
Unintelligible ==
  /\ Returned /\ result \in Bounded!Ended
  /\ End("failed")
  /\ UNCHANGED <<request, found, counterexamples, program, clockVars, callVars>>
-----------------------------------------------------------------------------
HasTree == request.kind \in {"decision-tree", "repair"}

Root == IF Repairing THEN Parity(Lowered[request.parent], Lowered[found]) ELSE Lowered[found]

\* A tree over at most five slots is lowered; compile() may raise.
Lower ==
  /\ phase = "lower"
  /\ IF HasTree /\ Cardinality(Slots) <= 5
     THEN IF Compiles(Root)
          THEN phase' = "report" /\ program' = Root /\ UNCHANGED outcome
          ELSE End("not lowered") /\ UNCHANGED program
     ELSE phase' = "report" /\ UNCHANGED <<program, outcome>>
  /\ UNCHANGED <<request, found, counterexamples, clockVars, callVars>>

Report ==
  /\ phase = "report"
  /\ End(IF expired THEN "timeout" ELSE "solved")
  /\ UNCHANGED <<request, found, counterexamples, program, clockVars, callVars>>

\* The deadline passes, the caller cancels.
Expire ==
  /\ outcome = "none" /\ ~expired /\ expired' = TRUE
  /\ UNCHANGED <<request, phase, found, counterexamples, program, outcome, cancelled, callVars>>
Cancel ==
  /\ outcome = "none" /\ ~cancelled /\ cancelled' = TRUE
  /\ UNCHANGED <<request, phase, found, counterexamples, program, outcome, expired, callVars>>

Drive ==
  \/ Begin \/ Round \/ Tally
  \/ Refused \/ Unintelligible \/ Answered \/ Exhausted
  \/ Lower \/ Report

Next == Drive \/ CallStep \/ Expire \/ Cancel

Spec == Init /\ [][Next]_vars

\* The thread that asks runs, and a bounded call returns.
FairSpec == Spec /\ WF_vars(Drive) /\ WF_vars(CallProgress)
-----------------------------------------------------------------------------
(***************************************************************************)
(* A result that is returned agrees with every example, not only with      *)
(* those the search was told, and its program computes the same function   *)
(* on every row (prolog_bridge.py: the checks of each answer, the loop of  *)
(* repair_decision_tree, _DecisionLogicBuilder).                           *)
(***************************************************************************)
Result(row) == IF Repairing THEN Predicts(request.parent, row) # Predicts(found, row)
                            ELSE Predicts(found, row)

AgreesWithExamples ==
  \A i \in Examples :
    (IF Repairing THEN Repaired(i) ELSE Matches(found, i)) = request.labels[i]
ProgramAgrees ==
  program # NoProgram => \A row \in SUBSET Slots : Computes(program, row) = Result(row)

AnswersAreExact == outcome = "solved" => AgreesWithExamples /\ ProgramAgrees

(***************************************************************************)
(* A refusal is earned.  "No solution" is raised only if no candidate      *)
(* within the bounds solves the problem, the ones the Prolog search leaves *)
(* out and those of a threshold that was never searched included; "no      *)
(* guard" only if no tree of the depth repairs the parent; and a repair    *)
(* stops only at a limit below the number of examples, for it never meets  *)
(* an example twice.  And the child goes through no more candidates than   *)
(* the budget that admitted the request counted.                           *)
(***************************************************************************)
NothingSolves ==
  \A c \in InBounds : \E i \in Examples : Matches(c, i) # request.labels[i]
NothingRepairs ==
  \A c \in InBounds : \E i \in Examples : Predicts(c, Rows[i]) # Flip(i)
StopIsEarned == outcome = "stopped" => request.iterations < Len(Rows)

SearchIsBudgeted == Cardinality(SearchSpace) <= CandidateBound(request)

RefusalsAreEarned ==
  /\ outcome = "no solution" => NothingSolves
  /\ outcome = "no guard" => NothingRepairs
  /\ StopIsEarned
  /\ SearchIsBudgeted

(***************************************************************************)
(* Every request ends, with a result or an error: the repair asks finitely *)
(* often, and what becomes of a call is decided once.                      *)
(***************************************************************************)
RequestSettles == <>(outcome # "none")

(***************************************************************************)
(* docs/developer/prolog.md, "Counterexample-guided repair": "The parent,  *)
(* guard, and combined repair can all lower to fixed Logic programs", and  *)
(* prolog-api.md: "when the combined expression fits 32 instructions and   *)
(* bindings A..E".                                                         *)
(***************************************************************************)
RepairsLower ==
  outcome = "not lowered" => ~FitsKernel(Root)
================================================================================
