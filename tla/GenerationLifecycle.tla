------------------------- MODULE GenerationLifecycle -------------------------
(***************************************************************************)
(* The lifecycle events of the model-generation store and their replay     *)
(* (python/prolog_tsetlin/services/model_generation.py).                   *)
(*                                                                         *)
(* An event names its usage or its lineage; its sequence number and the    *)
(* identity of its predecessor are its place in the log.  Content          *)
(* addresses are the values they address.  A usage is the set of labeled   *)
(* observations it spends, for one purpose and one subject generation; the *)
(* observation identities and the record fingerprints of the code are two  *)
(* names of the same observation.  All evidence is of one dataset.         *)
(***************************************************************************)
EXTENDS Naturals, SequencesExt

CONSTANTS
    Parent,         \* the trained parent generation
    NoGeneration,   \* no active generation: nothing registered
    NoUsage,
    NoLineage

\* The child generation a lineage introduces: its content includes the
\* behavior and the corpora it was made from.  Evidence being spent once, no two
\* activated lineages share it, and last_activated_lineage_id is named by it.
Child(l) == [behavior |-> l.behavior, examples |-> l.usage.examples]

Usage(purpose, subject, X) ==
    [purpose |-> purpose, subject |-> subject, examples |-> X]

\* GenerationLifecycleEvent, without its time.
LifecycleEvent(kind, u, l) == [kind |-> kind, usage |-> u, lineage |-> l]

Registered(u)         == LifecycleEvent("parent_registered", u, NoLineage)
Reserved(u)           == LifecycleEvent("evidence_reserved", u, NoLineage)
Abandoned(u)          == LifecycleEvent("evidence_abandoned", u, NoLineage)
Created(l)            == LifecycleEvent("candidate_created", l.usage, l)
Rejected(l)           == LifecycleEvent("candidate_rejected", NoUsage, l)
Approved(l)           == LifecycleEvent("promotion_approved", NoUsage, l)
Activated(l)          == LifecycleEvent("activated", NoUsage, l)
ReopenRequested(l, u) == LifecycleEvent("reopen_requested", u, l)
ParentRestored(l, u)  == LifecycleEvent("parent_restored", u, l)

-----------------------------------------------------------------------------
(* Replay                                                                  *)

Blank ==
    [ok |-> TRUE, active |-> NoGeneration,
     pendingCandidate |-> NoUsage, candidate |-> NoLineage,
     approved |-> NoLineage, activated |-> NoLineage,
     pendingLive |-> NoUsage, reopen |-> NoUsage,
     count |-> 0, last |-> NoGeneration, behaviors |-> {}, spent |-> {}]

NothingInProgress(s) ==
    /\ s.candidate = NoLineage
    /\ s.approved = NoLineage
    /\ s.reopen = NoUsage

\* The lineage continues the activations replayed so far.
InSequence(s, l) == l.sequence = s.count + 1 /\ l.previous = s.last

ValidRegistered(s, e) ==
    /\ s.active = NoGeneration
    /\ e.usage.purpose = "parent"
    /\ e.usage.subject = Parent
    /\ e.usage.examples \cap s.spent = {}

ValidReserved(s, e) ==
    /\ s.active # NoGeneration
    /\ e.usage.subject = s.active
    /\ NothingInProgress(s)
    /\ \/ /\ e.usage.purpose = "candidate"
          /\ s.active = Parent
          /\ s.activated = NoLineage
          /\ s.pendingCandidate = NoUsage
       \/ /\ e.usage.purpose = "live"
          /\ s.active # Parent
          /\ s.activated # NoLineage
          /\ s.pendingLive = NoUsage
    /\ e.usage.examples \cap s.spent = {}

ValidAbandoned(s, e) ==
    /\ s.active # NoGeneration
    /\ e.usage.subject = s.active
    /\ NothingInProgress(s)
    /\ \/ /\ e.usage.purpose = "candidate"
          /\ s.pendingCandidate = e.usage
          /\ s.activated = NoLineage
       \/ /\ e.usage.purpose = "live"
          /\ s.pendingLive = e.usage
          /\ s.activated # NoLineage

ValidCreated(s, e) ==
    /\ s.active = Parent
    /\ NothingInProgress(s)
    /\ s.activated = NoLineage
    /\ e.lineage.behavior \notin s.behaviors
    /\ s.pendingCandidate = e.lineage.usage
    /\ InSequence(s, e.lineage)

ValidRejected(s, e) ==
    /\ s.candidate = e.lineage
    /\ ~e.lineage.accepted
    /\ InSequence(s, e.lineage)

ValidApproved(s, e) ==
    /\ s.candidate = e.lineage
    /\ e.lineage.accepted

ValidActivated(s, e) ==
    /\ s.approved = e.lineage
    /\ s.active = Parent
    /\ e.lineage.accepted
    /\ e.lineage.behavior \notin s.behaviors
    /\ InSequence(s, e.lineage)

ValidReopen(s, e) ==
    /\ s.activated # NoLineage
    /\ s.reopen = NoUsage
    /\ e.lineage = s.activated
    /\ s.active = Child(e.lineage)
    /\ s.pendingLive # NoUsage
    /\ s.pendingLive = e.usage

ValidRestored(s, e) ==
    /\ s.reopen # NoUsage
    /\ s.activated # NoLineage
    /\ e.lineage = s.activated
    /\ e.usage = s.reopen

Valid(s, e) ==
    \/ e.kind = "parent_registered" /\ ValidRegistered(s, e)
    \/ e.kind = "evidence_reserved" /\ ValidReserved(s, e)
    \/ e.kind = "evidence_abandoned" /\ ValidAbandoned(s, e)
    \/ e.kind = "candidate_created" /\ ValidCreated(s, e)
    \/ e.kind = "candidate_rejected" /\ ValidRejected(s, e)
    \/ e.kind = "promotion_approved" /\ ValidApproved(s, e)
    \/ e.kind = "activated" /\ ValidActivated(s, e)
    \/ e.kind = "reopen_requested" /\ ValidReopen(s, e)
    \/ e.kind = "parent_restored" /\ ValidRestored(s, e)

AfterActivated(s, l) ==
    [s EXCEPT !.active = Child(l), !.behaviors = @ \cup {l.behavior},
              !.count = @ + 1, !.last = Child(l),
              !.approved = NoLineage, !.activated = l]

\* The state after a valid event.
After(s, e) ==
    CASE e.kind = "parent_registered" ->
            [s EXCEPT !.active = Parent, !.spent = @ \cup e.usage.examples]
      [] e.kind = "evidence_reserved" ->
            [s EXCEPT !.pendingCandidate =
                          IF e.usage.purpose = "candidate" THEN e.usage ELSE @,
                      !.pendingLive =
                          IF e.usage.purpose = "live" THEN e.usage ELSE @,
                      !.spent = @ \cup e.usage.examples]
      [] e.kind = "evidence_abandoned" ->
            [s EXCEPT !.pendingCandidate =
                          IF e.usage.purpose = "candidate" THEN NoUsage ELSE @,
                      !.pendingLive =
                          IF e.usage.purpose = "live" THEN NoUsage ELSE @]
      [] e.kind = "candidate_created" ->
            [s EXCEPT !.candidate = e.lineage, !.pendingCandidate = NoUsage]
      [] e.kind = "candidate_rejected" -> [s EXCEPT !.candidate = NoLineage]
      [] e.kind = "promotion_approved" ->
            [s EXCEPT !.candidate = NoLineage, !.approved = e.lineage]
      [] e.kind = "activated" -> AfterActivated(s, e.lineage)
      [] e.kind = "reopen_requested" ->
            [s EXCEPT !.reopen = e.usage, !.pendingLive = NoUsage]
      [] e.kind = "parent_restored" ->
            [s EXCEPT !.active = Parent, !.activated = NoLineage,
                      !.reopen = NoUsage]

ReplayEvent(s, e) ==
    IF s.ok /\ Valid(s, e) THEN After(s, e) ELSE [s EXCEPT !.ok = FALSE]

\* _replay_lifecycle_state: the first invalid event makes it raise (ok is FALSE).
Replay(events) ==
    LET after[n \in 0 .. Len(events)] ==
            IF n = 0 THEN Blank ELSE ReplayEvent(after[n - 1], events[n])
    IN after[Len(events)]

-----------------------------------------------------------------------------
(* Recovery                                                                *)

\* The event that terminates what s has in progress.
Reconciling(s) ==
    IF s.pendingCandidate # NoUsage THEN Abandoned(s.pendingCandidate)
    ELSE IF s.pendingLive # NoUsage THEN Abandoned(s.pendingLive)
    ELSE IF s.candidate # NoLineage
    THEN IF s.candidate.accepted THEN Approved(s.candidate)
                                 ELSE Rejected(s.candidate)
    ELSE IF s.approved # NoLineage THEN Activated(s.approved)
    ELSE ParentRestored(s.activated, s.reopen)

Terminal(s) ==
    /\ s.pendingCandidate = NoUsage
    /\ s.pendingLive = NoUsage
    /\ NothingInProgress(s)

=============================================================================
