----------------------------- MODULE SearchSession -----------------------------
(***************************************************************************)
(* Bounded searches in the terminal workbench: SearchSessionController,    *)
(* the worker threads that run GNU Prolog, and the shells' handlers.       *)
(*                                                                         *)
(* Choosing another kind of search abandons the search under way: its      *)
(* event is set, the generation moves on, the session is reset, and the    *)
(* next search may start while the abandoned thread still works.  What     *)
(* such a thread reports is told by its generation.                        *)
(***************************************************************************)
EXTENDS Naturals, Sequences

CONSTANTS
  Kinds,       \* the kinds of bounded search
  DefaultKind  \* the one the selector opens with

ASSUME SearchAssumption == DefaultKind \in Kinds

VARIABLES
  search,       \* SessionState's search_state, search_request and search_result
  kind,         \* the kind the selector shows
  document,     \* the kind the request in the text area is of
  kindChanges,  \* the Select.Changed messages in the queue, with their values
  generation,   \* _search_generation
  event,        \* the id of _search_cancel: the generation it was made for
  set,          \* the events that are set
  searchers     \* what the worker thread of each generation does, if it has one

searchVars == <<search, kind, document, kindChanges, generation, event, set, searchers>>

Generations == 1..generation
NoRequestYet == "none"
NoResult     == [of |-> 0]

NewSearch == [state |-> "idle", request |-> NoRequestYet, result |-> NoResult]

SearchInit ==
  /\ search = NewSearch
  /\ kind = DefaultKind /\ document = DefaultKind /\ kindChanges = <<>>
  /\ generation = 0 /\ event = 0 /\ set = {}
  /\ searchers = <<>>

Searching == search.state \in {"queued", "running", "cancelling"}

\* The threads that still work.
Live == {g \in Generations : searchers[g] \notin {"off", "end"}}
-----------------------------------------------------------------------------
\* The user and the widgets.

SelectKind ==
  /\ \E k \in Kinds \ {kind} : kind' = k /\ kindChanges' = Append(kindChanges, k)
  /\ UNCHANGED <<search, document, generation, event, set, searchers>>

\* Mutant: the session forgets the search and lets its thread run.
KindChangedNoCancel ==
  /\ kindChanges # <<>> /\ kindChanges' = Tail(kindChanges)
  /\ generation' = generation + 1 /\ searchers' = Append(searchers, "off")
  /\ document' = Head(kindChanges)
  /\ search' = NewSearch
  /\ UNCHANGED <<kind, event, set>>

\* on_select_changed: the search under way is told to stop, and is forgotten.
Invalidates ==
  /\ set' = IF Searching THEN set \union {event} ELSE set
  /\ generation' = generation + 1 /\ searchers' = Append(searchers, "off")

KindChanged ==
  /\ kindChanges # <<>> /\ kindChanges' = Tail(kindChanges)
  /\ Invalidates
  /\ document' = Head(kindChanges)
  /\ search' = NewSearch
  /\ UNCHANGED <<kind, event>>

\* action_search with a document that is no request: not JSON, not of the kind
\* the selector shows, or one that prepare does not admit.
SearchRefused ==
  /\ ~Searching
  /\ search' = [search EXCEPT !.state = "failed", !.result = NoResult]
  /\ UNCHANGED <<kind, document, kindChanges, generation, event, set, searchers>>

\* prepare: the document has been parsed, and its budget admitted.
Prepared(request) == [state |-> "queued", request |-> request, result |-> NoResult]

\* A generation, an event and a worker.
NewSearcher ==
  /\ generation' = generation + 1 /\ event' = generation'
  /\ searchers' = Append(searchers, "start")

\* action_search.
Search ==
  /\ ~Searching /\ document = kind
  /\ search' = Prepared(document)
  /\ NewSearcher
  /\ UNCHANGED <<kind, document, kindChanges, set>>

CancelSearch ==
  /\ search.state \in {"queued", "running"}
  /\ search' = [search EXCEPT !.state = "cancelling"]
  /\ set' = set \union {event}
  /\ UNCHANGED <<kind, document, kindChanges, generation, event, searchers>>
-----------------------------------------------------------------------------
\* The worker thread of a generation.

Outcomes == {"cancelled", "no_solution", "failure", "result"}

Announces(g) ==
  /\ searchers[g] = "start" /\ searchers' = [searchers EXCEPT ![g] = "announced"]
  /\ UNCHANGED <<search, kind, document, kindChanges, generation, event, set>>

\* The bounded search returns; it is cancelled only when its event is set.
Returns(g) ==
  /\ searchers[g] = "search"
  /\ \E o \in Outcomes :
       /\ o = "cancelled" => g \in set
       /\ searchers' = [searchers EXCEPT ![g] = o]
  /\ UNCHANGED <<search, kind, document, kindChanges, generation, event, set>>

\* _show_search_running.
ShowRunning(g) ==
  /\ searchers[g] = "announced" /\ searchers' = [searchers EXCEPT ![g] = "search"]
  /\ search' = [search EXCEPT !.state = IF g = generation /\ @ = "queued" THEN "running" ELSE @]
  /\ UNCHANGED <<kind, document, kindChanges, generation, event, set>>

\* What the outcome of generation g makes of the session.
Shown(g, outcome) ==
  CASE outcome = "cancelled"   -> [search EXCEPT !.state = "cancelled"]
    [] outcome = "no_solution" -> [search EXCEPT !.state = "succeeded", !.result = NoResult]
    [] outcome = "failure"     -> [search EXCEPT !.state = "failed", !.result = NoResult]
    [] outcome = "result"      -> [search EXCEPT !.state = "succeeded", !.result = [of |-> g]]

\* _show_search_cancelled, _no_solution, _failure and _result: only the current
\* generation's.
ShowOutcome(g) ==
  /\ searchers[g] \in Outcomes /\ searchers' = [searchers EXCEPT ![g] = "end"]
  /\ search' = IF g = generation THEN Shown(g, searchers[g]) ELSE search
  /\ UNCHANGED <<kind, document, kindChanges, generation, event, set>>
\* SearchSessionController.export raises otherwise.
SearchExportable == ~Searching /\ search.result # NoResult
-----------------------------------------------------------------------------
SearchWorker(g) == Announces(g) \/ Returns(g) \/ ShowRunning(g) \/ ShowOutcome(g)
================================================================================
