----------------------------- MODULE AuditWindow -----------------------------
(***************************************************************************)
(* The audit window as its owner sees it: the sequence, oldest first, of   *)
(* the last WindowSize observations, each a record with a "mismatch" flag. *)
(* ShadowAudit shows that the lock-free ring holds exactly this once every *)
(* record() call has returned; the operators here are the sequential       *)
(* meaning of ShadowAuditor::record, snapshot and restore.                 *)
(***************************************************************************)
EXTENDS Naturals, Sequences

CONSTANT WindowSize

ASSUME WindowAssumption == WindowSize \in Nat \ {0}

\* record: the new observation takes the slot of the oldest one.
RecordIn(window, observation) ==
    IF Len(window) < WindowSize
    THEN Append(window, observation)
    ELSE Append(Tail(window), observation)

MismatchesOf(window) ==
    Len(SelectSeq(window, LAMBDA observation : observation.mismatch))

SnapshotOf(window) ==
    [observed |-> Len(window), mismatches |-> MismatchesOf(window)]

\* restore: the checkpoint keeps two counts, and the rebuilt ring stores the
\* mismatches first, as its oldest observations.
RestoredWindow(snapshot) ==
    [i \in 1..snapshot.observed |-> [mismatch |-> i <= snapshot.mismatches]]

=============================================================================
