----------------------------- MODULE ShadowAudit -----------------------------
(***************************************************************************)
(* ShadowAuditor (shadow_audit.cpp): a ring of sequence-stamped slots that *)
(* any number of recorders write without a lock while one control thread   *)
(* scans it.  Every atomic access of the code is one step: a recorder      *)
(* reserves a sequence number (fetch_add), loads the slot, and then tries  *)
(* its compare-and-swap until it succeeds or finds a newer observation;    *)
(* the snapshot loads the cursor and then one slot per step.               *)
(*                                                                         *)
(* A spurious failure of compare_exchange_weak reloads the value it        *)
(* expected and changes nothing, so it is a stuttering step here.          *)
(*                                                                         *)
(* "truth", "returned", "counted" and "before" are history: what each      *)
(* reserved observation said, which record() calls have returned, which    *)
(* observations the scan has counted, and which calls had returned when it *)
(* began.  No action's guard reads them.                                   *)
(***************************************************************************)
EXTENDS AuditPolicy, FiniteSets

CONSTANTS
    WindowSize,
    Recorders,
    MaxRestored,    \* bound of the model: the cursor of a restored checkpoint
    MaxSequence     \* bound of the model: observations recorded in a behaviour

ASSUME WindowAssumption == WindowSize \in Nat \ {0}
ASSUME BoundAssumption == MaxSequence \in Nat /\ MaxRestored \in 0..MaxSequence

VARIABLES
    cursor,     \* cursor_
    slots,      \* observations_
    rec,        \* recorder -> its record() call in progress
    snap,       \* the snapshot() call in progress, or its result
    truth,      \* sequence -> did the observation mismatch
    returned    \* sequences whose record() has returned

auditVars == <<cursor, slots, rec, snap, truth, returned>>

SequenceNumbers == 0..(MaxSequence - 1)
Indices == 0..(WindowSize - 1)

Empty == [full |-> FALSE]
Stamped(sequence, mismatch) ==
    [full |-> TRUE, sequence |-> sequence, mismatch |-> mismatch]
SlotWords == {Empty} \cup
             [full: {TRUE}, sequence: SequenceNumbers, mismatch: BOOLEAN]

Slot(sequence) == sequence % WindowSize

\* The first sequence of the window that ends before "end".
WindowStart(end) == IF end > WindowSize THEN end - WindowSize ELSE 0
Window(end) == WindowStart(end)..(end - 1)

Idle == [pc |-> "idle"]
Reserved(sequence) == [pc |-> "load", sequence |-> sequence]
Trying(sequence, seen) ==
    [pc |-> "swap", sequence |-> sequence, seen |-> seen]

TypeOK ==
    /\ cursor \in 0..MaxSequence
    /\ slots \in [Indices -> SlotWords]
    /\ rec \in [Recorders ->
                  {Idle} \cup [pc: {"load"}, sequence: SequenceNumbers]
                  \cup [pc: {"swap"}, sequence: SequenceNumbers, seen: SlotWords]]
    /\ snap \in [pc: {"idle", "scan"}, end: 0..MaxSequence,
                 index: 0..WindowSize, observed: 0..WindowSize,
                 mismatches: 0..WindowSize, counted: SUBSET SequenceNumbers,
                 before: SUBSET SequenceNumbers]
    /\ truth \in [0..(cursor - 1) -> BOOLEAN]
    /\ returned \subseteq 0..(cursor - 1)

-----------------------------------------------------------------------------
\* The ring of a restored checkpoint: its observations end at its cursor, the
\* mismatches first; those it had not counted are lost.
RestoredRing(end, observed, mismatches) ==
    LET kept == (end - observed)..(end - 1)
        bad  == (end - observed)..(end - observed + mismatches - 1)
    IN /\ slots = [i \in Indices |->
                      IF \E n \in kept : Slot(n) = i
                      THEN LET n == CHOOSE n \in kept : Slot(n) = i
                           IN Stamped(n, n \in bad)
                      ELSE Empty]
       /\ truth = [n \in 0..(end - 1) |-> n \in bad]
       /\ returned = kept

\* A new auditor (a checkpoint of nothing), or one of a recovered registry.
AuditInit ==
    /\ cursor \in 0..MaxRestored
    /\ \E observed \in 0..WindowSize, mismatches \in 0..WindowSize :
          /\ mismatches <= observed /\ observed <= cursor
          /\ RestoredRing(cursor, observed, mismatches)
    /\ rec = [r \in Recorders |-> Idle]
    /\ snap = [pc |-> "idle", end |-> 0, index |-> 0, observed |-> 0,
               mismatches |-> 0, counted |-> {}, before |-> {}]

Reserve(r, mismatch) ==
    /\ rec[r].pc = "idle"
    /\ cursor < MaxSequence
    /\ cursor' = cursor + 1
    /\ rec' = [rec EXCEPT ![r] = Reserved(cursor)]
    /\ truth' = [n \in 0..cursor |-> IF n = cursor THEN mismatch ELSE truth[n]]
    /\ UNCHANGED <<slots, snap, returned>>

LoadSlot(r) ==
    /\ rec[r].pc = "load"
    /\ rec' = [rec EXCEPT ![r] =
                 Trying(rec[r].sequence, slots[Slot(rec[r].sequence)])]
    /\ UNCHANGED <<cursor, slots, snap, truth, returned>>

\* Bug variant: whatever the slot holds is overwritten.
NeverNewer(seen, sequence) == FALSE

\* A newer observation already occupies the slot: drop this one.
IsNewer(seen, sequence) == seen.full /\ seen.sequence > sequence

GiveUp(r) ==
    /\ rec[r].pc = "swap"
    /\ IsNewer(rec[r].seen, rec[r].sequence)
    /\ rec' = [rec EXCEPT ![r] = Idle]
    /\ returned' = returned \cup {rec[r].sequence}
    /\ UNCHANGED <<cursor, slots, snap, truth>>

Swap(r) ==
    LET n == rec[r].sequence
        i == Slot(n)
    IN /\ rec[r].pc = "swap"
       /\ ~IsNewer(rec[r].seen, n)
       /\ slots[i] = rec[r].seen
       /\ slots' = [slots EXCEPT ![i] = Stamped(n, truth[n])]
       /\ rec' = [rec EXCEPT ![r] = Idle]
       /\ returned' = returned \cup {n}
       /\ UNCHANGED <<cursor, snap, truth>>

\* Bug variant: the loop goes round with the value it already had.
RetryBlindly(r) ==
    /\ rec[r].pc = "swap"
    /\ slots[Slot(rec[r].sequence)] # rec[r].seen
    /\ UNCHANGED auditVars

\* The failed compare-and-swap reloads the slot and the loop goes round.
Retry(r) ==
    LET n == rec[r].sequence
        i == Slot(n)
    IN /\ rec[r].pc = "swap"
       /\ ~IsNewer(rec[r].seen, n)
       /\ slots[i] # rec[r].seen
       /\ rec' = [rec EXCEPT ![r] = Trying(n, slots[i])]
       /\ UNCHANGED <<cursor, slots, snap, truth, returned>>

SnapshotBegin ==
    /\ snap.pc = "idle"
    /\ snap' = [pc |-> "scan", end |-> cursor, index |-> 0, observed |-> 0,
                mismatches |-> 0, counted |-> {}, before |-> returned]
    /\ UNCHANGED <<cursor, slots, rec, truth, returned>>

\* Bug variant: the sequence bounds are dropped.
CountsAnyFull(w, end) == w.full

Counts(w, end) ==
    w.full /\ w.sequence >= WindowStart(end) /\ w.sequence < end

\* One iteration of the scan; after the last slot the result stands.
ScanSlot ==
    LET w == slots[snap.index]
        hit == Counts(w, snap.end)
    IN /\ snap.pc = "scan"
       /\ snap' = [snap EXCEPT
            !.pc = IF snap.index + 1 = WindowSize THEN "idle" ELSE "scan",
            !.index = @ + 1,
            !.observed = IF hit THEN @ + 1 ELSE @,
            !.mismatches = IF hit /\ w.mismatch THEN @ + 1 ELSE @,
            !.counted = IF hit THEN @ \cup {w.sequence} ELSE @]
       /\ UNCHANGED <<cursor, slots, rec, truth, returned>>

RecordStep(r) == LoadSlot(r) \/ GiveUp(r) \/ Swap(r) \/ Retry(r)

AuditNext ==
    \/ \E r \in Recorders :
          \/ \E mismatch \in BOOLEAN : Reserve(r, mismatch)
          \/ RecordStep(r)
    \/ SnapshotBegin
    \/ ScanSlot

AuditSpec == AuditInit /\ [][AuditNext]_auditVars

\* A thread inside record() or snapshot() keeps running: the operating system
\* schedules it.  Nothing obliges a thread to start a call.
AuditFairness == WF_auditVars(ScanSlot) /\ \A r \in Recorders : WF_auditVars(RecordStep(r))

FairAuditSpec == AuditSpec /\ AuditFairness

-----------------------------------------------------------------------------
SnapshotTaken == snap.pc = "idle" /\ snap.index = WindowSize

MismatchesIn(S) == Cardinality({n \in S : truth[n]})

(***************************************************************************)
(* A snapshot counts each observation at most once, only observations of   *)
(* the window that ended at its cursor load, and each with the verdict its *)
(* recorder gave: overwritten, future and recycled slots never leak in.    *)
(***************************************************************************)
SnapshotCountsWindow ==
    /\ snap.counted \subseteq Window(snap.end)
    /\ snap.observed = Cardinality(snap.counted)
    /\ snap.mismatches = MismatchesIn(snap.counted)

(***************************************************************************)
(* What a snapshot may leave out of its window: an observation whose       *)
(* record() had not returned when the snapshot began, or one whose slot    *)
(* was claimed by a newer observation while it ran.  In particular a       *)
(* snapshot that runs while no recorder does is exact.                     *)
(***************************************************************************)
SnapshotMissesOnlyUncertain ==
    SnapshotTaken =>
        \A n \in Window(snap.end) \ snap.counted :
            n \notin snap.before \/ cursor > n + WindowSize

SnapshotIsFaithful == SnapshotCountsWindow /\ SnapshotMissesOnlyUncertain

(***************************************************************************)
(* Once every record() has returned, the ring holds exactly the last       *)
(* WindowSize observations, whatever order the racing compare-and-swaps of *)
(* older and newer observations were in.  A restored ring too: it keeps    *)
(* the counts of its checkpoint, and once WindowSize observations have     *)
(* followed it cannot be told from the ring that was lost.                 *)
(***************************************************************************)
QuietRingIsWindow ==
    (\A r \in Recorders : rec[r].pc = "idle") =>
        \A n \in Window(cursor) \cap returned :
            slots[Slot(n)] = Stamped(n, truth[n])

(***************************************************************************)
(* A slot never goes back to an older observation, even when a slow        *)
(* recorder of an older lap wakes up after a newer one has written.        *)
(***************************************************************************)
SlotsNeverGoBack ==
    [][\A i \in Indices :
          slots[i].full => /\ slots'[i].full
                           /\ slots'[i].sequence >= slots[i].sequence]_slots

(***************************************************************************)
(* The record() loop terminates: a recorder can lose its compare-and-swap  *)
(* only to observations older than its own, of which there are finitely    *)
(* many, or to a newer one, after which it gives up.                       *)
(***************************************************************************)
RecordReturns ==
    \A r \in Recorders : rec[r].pc # "idle" ~> rec[r].pc = "idle"

(***************************************************************************)
(* class-ii-lifecycle.md, "Shadow auditor": "Concurrent uncertainty can    *)
(* temporarily reduce observed, which makes decisions conservative rather  *)
(* than understating mismatches."  Asked only of observations that were    *)
(* certain, those whose record() had returned before the snapshot began: a *)
(* snapshot that accepts has not lost mismatches of its window that alone  *)
(* exceed the rate the policy accepts for a full window.                   *)
(***************************************************************************)
CompletedMismatchesCount ==
    SnapshotTaken /\ DecideShadow(snap) = "activate"
        => RateAtMost([observed |-> Cardinality(Window(snap.end)),
                       mismatches |->
                           MismatchesIn(Window(snap.end) \cap snap.before)],
                      ActivationMaxMismatchRate)

=============================================================================
