------------------------ MODULE GenerationController -------------------------
(***************************************************************************)
(* ModelGenerationStore and ModelGenerationController                      *)
(* (python/prolog_tsetlin/services/model_generation.py): several           *)
(* controllers of one process share a store and its root-scoped event      *)
(* lock.  A call that appends holds the lock while it publishes the log    *)
(* and then the head, and while it undoes them if a publication fails;     *)
(* request_reopen gives the lock up while ptmrt evaluates the evidence.    *)
(* The process may die, and a publication may fail or be interrupted,      *)
(* at every step.                                                          *)
(*                                                                         *)
(* A guard that fails raises before anything is changed, and is not a      *)
(* step.  head is the log its digest binds.  ptmrt may be unavailable or   *)
(* disagree at any time; then a replay raises.                             *)
(***************************************************************************)
EXTENDS GenerationLifecycle

CONSTANTS
    Corpora,        \* the sets of observations callers offer as evidence
    Behaviors,      \* adaptive behaviors a campaign can produce
    Controllers,
    NoController,
    LogCapacity,    \* _MAX_EVENT_LOG_BYTES, in events
    Missing,        \* a file that does not exist
    Down            \* the route of a controller that is not constructed

ASSUME EvidenceAssumption == \A X \in Corpora : X # {}
ASSUME CapacityAssumption == LogCapacity \in Nat

Generations == {Parent} \cup [behavior : Behaviors, examples : Corpora]
Usages == [purpose : {"parent", "candidate", "live"}, subject : Generations, examples : Corpora]
Lineages == [usage : Usages, behavior : Behaviors, accepted : BOOLEAN,
             sequence : 1..LogCapacity, previous : Generations \cup {NoGeneration}]
Kinds == {"parent_registered", "evidence_reserved", "evidence_abandoned",
          "candidate_created", "candidate_rejected", "promotion_approved",
          "activated", "reopen_requested", "parent_restored"}
EventRecords == [kind : Kinds, usage : Usages \cup {NoUsage},
                 lineage : Lineages \cup {NoLineage}]

\* The markers are none of the values they stand in for.
ASSUME MarkerAssumption ==
    /\ NoController \notin Controllers
    /\ NoGeneration \notin Generations \cup Behaviors
    /\ NoUsage \notin Usages
    /\ NoLineage \notin Lineages
    /\ Missing \notin Seq(EventRecords)

VARIABLES
    log,      \* events.jsonl
    head,     \* events.head.json
    holder,   \* who holds the event lock
    io,       \* the append in progress: its place, the previous events, the event
    call,     \* what each controller's thread is doing
    route,    \* _active_generation_id
    acked,    \* history: the events a successful call has reported
    mishap    \* history: an append was cut short or could not be undone

vars == <<log, head, holder, io, call, route, acked, mishap>>

NoIO == [at |-> "none", events |-> <<>>, event |-> NoUsage]
Idle == [op |-> "idle", usage |-> NoUsage, lineage |-> NoLineage]
Calling(op, u, l) == [op |-> op, usage |-> u, lineage |-> l]

Init ==
    /\ log = Missing /\ head = Missing
    /\ holder = NoController
    /\ io = NoIO
    /\ call = [c \in Controllers |-> Idle]
    /\ route = [c \in Controllers |-> Down]
    /\ acked = <<>>
    /\ mishap = FALSE

-----------------------------------------------------------------------------
(* Reading                                                                 *)

Readable == (log = Missing /\ head = Missing) \/ (log # Missing /\ log = head)
Events == IF log = Missing THEN <<>> ELSE log
State == Replay(Events)

\* _authoritative_state_under_event_lock does not raise.
Authoritative(c) == Readable /\ State.ok /\ State.active = route[c]

\* A constructed controller whose control lock is free takes the event lock.
Enter(c) ==
    /\ holder = NoController
    /\ call[c].op = "idle"
    /\ route[c] # Down
    /\ Authoritative(c)

\* What _ensure_evidence_available compares a usage with.
SpendsEvidence(e) == e.kind \in {"parent_registered", "evidence_reserved"}
SpentUsages(events) == {e.usage : e \in {d \in Range(events) : SpendsEvidence(d)}}

\* A bug: an abandoned reservation makes its observations fresh again.
AvailableAfterAbandon(u, events) ==
    \A v \in SpentUsages(events) :
        \/ v.examples \cap u.examples = {}
        \/ \E i \in DOMAIN events :
              events[i].kind = "evidence_abandoned" /\ events[i].usage = v

\* A bug: evidence is compared only with evidence for the same purpose.
AvailableForPurpose(u, events) ==
    \A v \in SpentUsages(events) :
        v.purpose = u.purpose => v.examples \cap u.examples = {}

Available(u, events) ==
    \A v \in SpentUsages(events) : v.examples \cap u.examples = {}

\* A bug: evidence may be reserved while a candidate or a reopen is under way.
ReservableAnytime(u, s, events) ==
    /\ u.subject = s.active
    /\ \/ u.purpose = "candidate" /\ s.active = Parent
       \/ u.purpose = "live" /\ s.activated # NoLineage
    /\ Available(u, events)

\* _reserve_evidence_under_event_lock does not raise.
Reservable(u, s, events) ==
    /\ u.subject = s.active
    /\ NothingInProgress(s)
    /\ \/ /\ u.purpose = "candidate"
          /\ s.active = Parent
          /\ s.activated = NoLineage
          /\ s.pendingCandidate = NoUsage
       \/ /\ u.purpose = "live"
          /\ s.active \notin {Parent, NoGeneration}
          /\ s.activated # NoLineage
          /\ s.pendingLive = NoUsage
    /\ Available(u, events)

-----------------------------------------------------------------------------
(* append_event: publish the log, publish the head, undo both on a failure *)

StartAppend(c, e, doing) ==
    /\ Len(Events) < LogCapacity
    /\ holder' = c
    /\ call' = [call EXCEPT ![c] = doing]
    /\ io' = [at |-> "log", events |-> Events, event |-> e]
    /\ UNCHANGED <<log, head, route, acked, mishap>>

NewLog == Append(io.events, io.event)

PublishLog ==
    /\ io.at = "log"
    /\ log' = NewLog
    /\ io' = [io EXCEPT !.at = "head"]
    /\ UNCHANGED <<head, holder, call, route, acked, mishap>>

\* The call goes on with the lock in hand after this event.
Continues ==
    \/ call[holder].op = "construct"
    \/ call[holder].op \in {"reserve", "reopen"} /\ io.event.kind = "evidence_abandoned"

\* The route the caller sets once the event is durable.
NextRoute ==
    IF call[holder].op = "construct" THEN route[holder]
    ELSE CASE io.event.kind \in {"parent_registered", "parent_restored"} -> Parent
           [] io.event.kind = "activated" -> Child(io.event.lineage)
           [] OTHER -> route[holder]

\* What the thread does once append_event has returned and the lock is free.
NextCall ==
    IF call[holder].op = "reopen"
    THEN [call[holder] EXCEPT !.op = "evaluate"]
    ELSE Idle

PublishHead ==
    /\ io.at = "head"
    /\ head' = NewLog
    /\ acked' = NewLog
    /\ io' = NoIO
    /\ route' = [route EXCEPT ![holder] = NextRoute]
    /\ IF Continues
       THEN UNCHANGED <<call, holder>>
       ELSE call' = [call EXCEPT ![holder] = NextCall] /\ holder' = NoController
    /\ UNCHANGED <<log, mishap>>

\* A publication raises before it has replaced the file or after it.
PublicationFails ==
    /\ \/ io.at = "log" /\ log' \in {log, NewLog} /\ head' = head
       \/ io.at = "head" /\ head' \in {head, NewLog} /\ log' = log
    /\ io' = [io EXCEPT !.at = "undo_log"]
    /\ UNCHANGED <<holder, call, route, acked, mishap>>

\* previous_data: the bytes of the log before the append.
Previous == io.events

UndoLog ==
    /\ io.at = "undo_log"
    /\ log' = Previous
    /\ io' = [io EXCEPT !.at = "undo_head"]
    /\ UNCHANGED <<head, holder, call, route, acked, mishap>>

\* The thread leaves the call and the locks are released; a reopen that failed
\* to commit still has its evidence to abandon.
Leave(c) ==
    /\ io' = NoIO
    /\ holder' = NoController
    /\ call' = [call EXCEPT ![c] =
                    IF @.op = "commit" THEN [@ EXCEPT !.op = "settle"] ELSE Idle]

UndoHead ==
    /\ io.at = "undo_head"
    /\ head' = Previous
    /\ Leave(holder)
    /\ UNCHANGED <<log, route, acked, mishap>>

\* An interrupt is not an Exception and undoes nothing; a failure to undo is
\* dropped.  The file being published is replaced or not.
CutShort ==
    /\ \/ io.at = "log" /\ log' \in {log, NewLog} /\ head' = head
       \/ io.at = "head" /\ head' \in {head, NewLog} /\ log' = log
       \/ io.at = "undo_log" /\ log' \in {log, Previous} /\ head' = head
       \/ io.at = "undo_head" /\ head' \in {head, Previous} /\ log' = log
    /\ Leave(holder)
    /\ mishap' = TRUE
    /\ UNCHANGED <<route, acked>>

-----------------------------------------------------------------------------
(* Construction and recovery                                               *)

Construct(c) ==
    /\ holder = NoController
    /\ route[c] = Down
    /\ Readable /\ State.ok
    /\ holder' = c
    /\ call' = [call EXCEPT ![c] = Calling("construct", NoUsage, NoLineage)]
    /\ UNCHANGED <<log, head, io, route, acked, mishap>>

Constructing(c) == holder = c /\ io = NoIO /\ call[c].op = "construct"

Reconcile(c) ==
    /\ Constructing(c)
    /\ ~Terminal(State)
    /\ StartAppend(c, Reconciling(State), call[c])

Constructed(c) ==
    /\ Constructing(c)
    /\ Terminal(State)
    /\ route' = [route EXCEPT ![c] = State.active]
    /\ acked' = Events
    /\ Leave(c)
    /\ UNCHANGED <<log, head, mishap>>

\* The replay of an iteration raises, or the log is full.
ConstructFails(c) ==
    /\ Constructing(c)
    /\ Leave(c)
    /\ UNCHANGED <<log, head, route, acked, mishap>>

-----------------------------------------------------------------------------
(* The controller's methods                                                *)

RegisterParent(c, X) ==
    /\ Enter(c)
    /\ route[c] = NoGeneration /\ Events = <<>>
    /\ LET u == Usage("parent", Parent, X)
       IN StartAppend(c, Registered(u), Calling("register", u, NoLineage))

\* A pending reservation is abandoned first, then u is reserved.
Reserve(c, pending, u, doing) ==
    IF pending # NoUsage
    THEN StartAppend(c, Abandoned(pending), doing)
    ELSE Reservable(u, State, Events) /\ StartAppend(c, Reserved(u), doing)

ReserveEvidence(c, X) ==
    /\ Enter(c)
    /\ route[c] # NoGeneration
    /\ LET u == Usage("candidate", route[c], X)
       IN Reserve(c, State.pendingCandidate, u, Calling("reserve", u, NoLineage))

RequestReopen(c, X) ==
    /\ Enter(c)
    /\ State.activated # NoLineage
    /\ LET u == Usage("live", route[c], X)
       IN Reserve(c, State.pendingLive, u, Calling("reopen", u, State.activated))

Reserving(c) == holder = c /\ io = NoIO /\ call[c].op \in {"reserve", "reopen"}

ReserveAfterAbandon(c) ==
    /\ Reserving(c)
    /\ Reservable(call[c].usage, State, Events)
    /\ StartAppend(c, Reserved(call[c].usage), call[c])

ReserveRaises(c) ==
    /\ Reserving(c)
    /\ Leave(c)
    /\ UNCHANGED <<log, head, route, acked, mishap>>

\* ptmrt fails, disagrees or shows no drift, or the commit is refused.
EvaluationFails(c) ==
    /\ call[c].op = "evaluate"
    /\ call' = [call EXCEPT ![c].op = "settle"]
    /\ UNCHANGED <<log, head, holder, io, route, acked, mishap>>

\* The evidence is still the pending authorization of this reopen.
StillAuthorized(c, s) ==
    /\ s.activated = call[c].lineage
    /\ s.pendingLive = call[c].usage
    /\ s.reopen = NoUsage

CommitReopen(c) ==
    /\ call[c].op = "evaluate"
    /\ holder = NoController
    /\ Authoritative(c)
    /\ StillAuthorized(c, State)
    /\ StartAppend(c, ReopenRequested(call[c].lineage, call[c].usage),
                   [call[c] EXCEPT !.op = "commit"])

\* _abandon_evidence_if_pending
AbandonIfPending(c) ==
    /\ call[c].op = "settle"
    /\ holder = NoController
    /\ Authoritative(c)
    /\ State.pendingLive = call[c].usage
    /\ StartAppend(c, Abandoned(call[c].usage), [call[c] EXCEPT !.op = "abandon"])

\* The evidence is no longer pending, or abandoning it failed.
GiveUp(c) ==
    /\ call[c].op = "settle"
    /\ call' = [call EXCEPT ![c] = Idle]
    /\ UNCHANGED <<log, head, holder, io, route, acked, mishap>>

\* What reserve_candidate_evidence returned with each reservation of the log.
Tickets ==
    {LET s == Replay(SubSeq(Events, 1, i))
     IN [usage |-> Events[i].usage, sequence |-> s.count + 1, previous |-> s.last] :
        i \in {j \in DOMAIN Events : /\ Events[j].kind = "evidence_reserved"
                                     /\ Events[j].usage.purpose = "candidate"}}

\* The lineage a campaign builds from its ticket.
Lineage(t, b, accepted) ==
    [usage |-> t.usage, behavior |-> b, accepted |-> accepted,
     sequence |-> t.sequence, previous |-> t.previous]

Recordable(l, s) ==
    /\ l.behavior \notin s.behaviors
    /\ s.active = Parent
    /\ s.pendingCandidate = l.usage
    /\ s.activated = NoLineage
    /\ NothingInProgress(s)
    /\ InSequence(s, l)

RecordCandidate(c, l) ==
    /\ Enter(c)
    /\ Recordable(l, State)
    /\ StartAppend(c, Created(l), Calling("record", l.usage, l))

RejectCandidate(c) ==
    /\ Enter(c)
    /\ State.candidate # NoLineage /\ ~State.candidate.accepted
    /\ State.active = Parent
    /\ StartAppend(c, Rejected(State.candidate), Calling("reject", NoUsage, State.candidate))

ApprovePromotion(c) ==
    /\ Enter(c)
    /\ State.candidate # NoLineage /\ State.candidate.accepted
    /\ State.active = Parent
    /\ StartAppend(c, Approved(State.candidate), Calling("approve", NoUsage, State.candidate))

\* A bug: the running route changes before the event is durable.
ActivateChildEarly(c) ==
    /\ Enter(c)
    /\ State.approved # NoLineage
    /\ State.active = Parent
    /\ Len(Events) < LogCapacity
    /\ holder' = c
    /\ call' = [call EXCEPT ![c] = Calling("activate", NoUsage, State.approved)]
    /\ io' = [at |-> "log", events |-> Events, event |-> Activated(State.approved)]
    /\ route' = [route EXCEPT ![c] = Child(State.approved)]
    /\ UNCHANGED <<log, head, acked, mishap>>

ActivateChild(c) ==
    /\ Enter(c)
    /\ State.approved # NoLineage
    /\ State.active = Parent
    /\ StartAppend(c, Activated(State.approved), Calling("activate", NoUsage, State.approved))

RestoreParent(c) ==
    /\ Enter(c)
    /\ State.reopen # NoUsage
    /\ StartAppend(c, ParentRestored(State.activated, State.reopen),
                   Calling("restore", NoUsage, State.activated))

\* The application drops a controller.
Drop(c) ==
    /\ route[c] # Down
    /\ call[c].op = "idle"
    /\ route' = [route EXCEPT ![c] = Down]
    /\ UNCHANGED <<log, head, holder, io, call, acked, mishap>>

\* The process dies or the power fails.
Crash ==
    /\ holder' = NoController
    /\ io' = NoIO
    /\ call' = [c \in Controllers |-> Idle]
    /\ route' = [c \in Controllers |-> Down]
    /\ mishap' = (mishap \/ io # NoIO)
    /\ UNCHANGED <<log, head, acked>>

Appending == PublishLog \/ PublishHead \/ UndoLog \/ UndoHead

Next ==
    \/ Appending \/ PublicationFails \/ CutShort \/ Crash
    \/ \E c \in Controllers :
        \/ Construct(c) \/ Reconcile(c) \/ Constructed(c) \/ ConstructFails(c)
        \/ \E X \in Corpora :
            RegisterParent(c, X) \/ ReserveEvidence(c, X) \/ RequestReopen(c, X)
        \/ ReserveAfterAbandon(c) \/ ReserveRaises(c)
        \/ EvaluationFails(c) \/ CommitReopen(c) \/ AbandonIfPending(c) \/ GiveUp(c)
        \/ \E t \in Tickets, b \in Behaviors, accepted \in BOOLEAN :
            RecordCandidate(c, Lineage(t, b, accepted))
        \/ RejectCandidate(c) \/ ApprovePromotion(c) \/ ActivateChild(c)
        \/ RestoreParent(c) \/ Drop(c)

Spec == Init /\ [][Next]_vars

-----------------------------------------------------------------------------
(* Properties                                                              *)

IsLog(events) ==
    /\ Len(events) <= LogCapacity
    /\ \A i \in DOMAIN events : events[i] \in EventRecords
Ops == {"idle", "construct", "register", "reserve", "reopen", "evaluate", "commit",
        "settle", "abandon", "record", "reject", "approve", "activate", "restore"}

(***************************************************************************)
(* The type of every variable: no event outgrows the log's limit, and a    *)
(* controller routes only generations.                                     *)
(***************************************************************************)
TypeOK ==
    /\ log = Missing \/ IsLog(log)
    /\ head = Missing \/ IsLog(head)
    /\ IsLog(acked)
    /\ holder \in Controllers \cup {NoController}
    /\ io.at \in {"none", "log", "head", "undo_log", "undo_head"}
    /\ io # NoIO => IsLog(NewLog)
    /\ \A c \in Controllers :
        /\ call[c] \in [op : Ops, usage : Usages \cup {NoUsage},
                        lineage : Lineages \cup {NoLineage}]
        /\ route[c] \in Generations \cup {NoGeneration, Down}
    /\ mishap \in BOOLEAN

(***************************************************************************)
(* The store stays usable.  What the mutators write, replay accepts: their *)
(* guards imply every check of _replay_lifecycle_state, whichever          *)
(* controllers wrote, crashed or were interrupted before; otherwise no     *)
(* controller could ever be constructed on the store again.  And the log   *)
(* and the head disagree only after an append was cut short by a crash or  *)
(* an interrupt, or could not be undone: an ordinary failure to publish    *)
(* leaves a store that reads.                                              *)
(***************************************************************************)
DurableLogReplays ==
    /\ Readable => State.ok
    /\ io = NoIO /\ ~Readable => mishap

(***************************************************************************)
(* An event whose append has returned is never lost: not by a later append *)
(* that fails and is undone, not by a crash between the two publications,  *)
(* not by a failing undo.                                                  *)
(***************************************************************************)
AcknowledgedSurvives ==
    acked # <<>> => IsPrefix(acked, log) /\ IsPrefix(acked, head)

(***************************************************************************)
(* A running controller routes a generation that was active after some     *)
(* acknowledged event: it never runs ahead of the store, even when the     *)
(* append of its activation or restoration fails.                          *)
(***************************************************************************)
RouteWasDurable ==
    \A c \in Controllers :
        route[c] # Down =>
            \E n \in 0..Len(acked) : Replay(SubSeq(acked, 1, n)).active = route[c]

(***************************************************************************)
(* The two promises to the callers: no acknowledged event is lost, and no  *)
(* controller routes a generation that no acknowledged event activated.    *)
(***************************************************************************)
PromisesAreDurable == AcknowledgedSurvives /\ RouteWasDurable

(***************************************************************************)
(* Two controllers never evaluate the same observation against the active  *)
(* child, although the event lock is free while ptmrt runs and another     *)
(* controller may abandon a reservation in the meantime.                   *)
(***************************************************************************)
EvaluationsShareNothing ==
    \A c, d \in Controllers :
        /\ call[c].op \in {"evaluate", "commit"}
        /\ call[d].op \in {"evaluate", "commit"}
        /\ c # d
        => call[c].usage.examples \cap call[d].usage.examples = {}

\* The events that count: those before the append in progress, then the head's.
Settled == IF io # NoIO THEN io.events ELSE IF head = Missing THEN <<>> ELSE head

\* What the events say of the line of generations.
RouteEvents(events) ==
    {i \in DOMAIN events :
        events[i].kind \in {"parent_registered", "activated", "parent_restored"}}
LineActive(events) ==
    LET routes == RouteEvents(events)
        latest == events[Max(routes)]
    IN IF routes = {} THEN NoGeneration
       ELSE IF latest.kind = "activated" THEN latest.lineage.behavior
       ELSE Parent
LineSpent(events) ==
    [i \in {j \in DOMAIN events : SpendsEvidence(events[j])} |-> events[i].usage.examples]
LineRetired(events) ==
    {events[i].lineage.behavior :
        i \in {j \in DOMAIN events : events[j].kind = "activated"}}

Line == INSTANCE GenerationLine WITH
    Unregistered <- NoGeneration,
    Trained <- Parent,
    Entries <- 1..LogCapacity,
    active <- LineActive(Settled),
    retired <- LineRetired(Settled),
    spent <- LineSpent(Settled)

(***************************************************************************)
(* The store implements GenerationLine: no behavior is activated twice, no *)
(* observation is evidence twice, and the route moves only between the     *)
(* parent and a fresh child, through crashes, failures and races.          *)
(***************************************************************************)
LineSpec == Line!LineSpec

=============================================================================
