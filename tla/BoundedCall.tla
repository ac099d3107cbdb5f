----------------------------- MODULE BoundedCall -----------------------------
(***************************************************************************)
(* What run_bounded_process promises its callers: the Prolog bridge, the   *)
(* PTA collective, the benchmark runner and the wrapper it starts.  A call *)
(* owns one child; it returns once, with the exit code of a child that     *)
(* ended or with a refusal; and when it has returned nothing of the        *)
(* child's process tree is left that has not been killed, unless an        *)
(* exception has struck outside the part of it that guards the child.      *)
(* BoundedProcess is the code; its run checks that it implements this.     *)
(***************************************************************************)
EXTENDS Naturals

VARIABLES
  call,     \* "ready", "running", "returned"
  child,    \* "none", "alive", "doomed" (killed, not yet gone), "exited", "killed"
  result    \* what the caller gets: a refusal or the end of the child

callVars == <<call, child, result>>

Refusals == {"Launch", "Cancelled", "Timeout", "OutputLimit", "Drain", "Interrupted",
             "Abandoned"}
Ended    == {"exited", "killed"}

CallInit == call = "ready" /\ child = "none" /\ result = "none"

\* Popen succeeded.
Launch == call = "ready" /\ call' = "running" /\ child' = "alive" /\ UNCHANGED result

\* Popen raised: there is no child.
LaunchFails == call = "ready" /\ call' = "returned" /\ result' = "Launch" /\ UNCHANGED child

\* The child ends by itself; a child that has been killed may have been ending.
ChildEnds ==
  /\ child \in {"alive", "doomed"}
  /\ child' = "exited"
  /\ UNCHANGED <<call, result>>

Kill == call = "running" /\ child = "alive" /\ child' = "doomed" /\ UNCHANGED <<call, result>>

KilledChildDies == child = "doomed" /\ child' = "killed" /\ UNCHANGED <<call, result>>

\* The child's code, when it has ended; a refusal at any time, over a child
\* that has been killed or has ended.
CallReturns ==
  /\ call = "running"
  /\ child # "alive"
  /\ call' = "returned"
  /\ result' \in (Refusals \ {"Launch", "Abandoned"}) \union ({child} \intersect Ended)
  /\ UNCHANGED child

\* The call is left by an exception its try does not cover: the child goes on.
Abandon ==
  /\ call = "running" /\ call' = "returned"
  /\ result' = "Abandoned"
  /\ UNCHANGED child

CallNext ==
  \/ Launch \/ LaunchFails \/ ChildEnds \/ Kill \/ KilledChildDies \/ CallReturns \/ Abandon

\* The call kills or returns, and what it has killed dies: it never hangs on
\* a child that goes on for ever.
Progress == Kill \/ KilledChildDies \/ CallReturns

CallSpec == CallInit /\ [][CallNext]_callVars /\ WF_callVars(Progress)
================================================================================
