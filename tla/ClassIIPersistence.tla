-------------------------- MODULE ClassIIPersistence --------------------------
(***************************************************************************)
(* ClassIIPersistence (class_ii_persistence.cpp): an atomic snapshot and a *)
(* hash-chained event log, used by one control-plane writer whose process, *)
(* machine and I/O may fail at any step.                                   *)
(*                                                                         *)
(* A commit token is a sequence number and the SHA-256 digest of the event *)
(* with that number; the digest covers the previous digest and the image.  *)
(* A token is therefore modelled as the chain of all images up to it: its  *)
(* length is the sequence number, its last element the registry image, and *)
(* two tokens have equal digests exactly when they are the same chain.     *)
(* The chain << >> is the image of capture(), with the zero digest.        *)
(*                                                                         *)
(* Writing a temporary file changes nothing recovery looks at, and         *)
(* replace_file synchronises the directory after the rename: an atomic     *)
(* replacement is one step, which a crash comes either before or after.    *)
(* An append is two steps, the write and the fsync.                        *)
(***************************************************************************)
EXTENDS Naturals, Sequences, SequencesExt

CONSTANTS
    Images,                \* registry images a caller may make durable
    MaxSequence,           \* bound of the model: longest chain
    FsyncCoversNewEntry    \* does fsync of a new file make its name durable?

ASSUME BoundAssumption == MaxSequence \in Nat
ASSUME EntryAssumption == FsyncCoversNewEntry \in BOOLEAN

VARIABLES
    snapshot,   \* the snapshot file: a token, or NoFile
    log,        \* the event log: complete frames, and whether a torn tail follows
    disk,       \* the log that is sure to survive a power failure
    pc,         \* the writer: "ready", inside a call, or "down"
    next,       \* the token the append in progress will return
    token,      \* the writer's current commit token
    failed,     \* has a call failed since the writer obtained its token
    acked,      \* history: the last token a call reported durable, or Nothing
    tainted     \* history: was a token adopted whose frame was not synchronised

vars == <<snapshot, log, disk, pc, next, token, failed, acked, tainted>>

NoFile == [exists |-> FALSE]
Nothing == [exists |-> FALSE]
Failure == [exists |-> FALSE]
File(chain) == [exists |-> TRUE, chain |-> chain]

Chains == UNION {[1..n -> Images] : n \in 0..MaxSequence}

NoLog == [exists |-> FALSE, frames |-> << >>, torn |-> FALSE]
EmptyLog == [exists |-> TRUE, frames |-> << >>, torn |-> FALSE]

Logs(frames) == [exists: BOOLEAN, frames: frames, torn: BOOLEAN]

TypeOK ==
    /\ snapshot \in {NoFile} \cup [exists: {TRUE}, chain: Chains]
    /\ log \in Logs({log.frames})
    /\ \A i \in DOMAIN log.frames : log.frames[i] \in Chains \ {<< >>}
    /\ disk \in Logs({SubSeq(log.frames, 1, Len(disk.frames))})
    /\ pc \in {"ready", "repair", "write", "sync", "truncate", "down"}
    /\ next \in Chains
    /\ token \in Chains
    /\ failed \in BOOLEAN
    /\ acked \in {Nothing} \cup [exists: {TRUE}, chain: Chains]
    /\ tainted \in BOOLEAN

-----------------------------------------------------------------------------
\* recover: the snapshot, then the log replayed from the frame after it.

\* parse_log: each frame continues the one before it.
Chained(frames) ==
    \A i \in 2..Len(frames) : Front(frames[i]) = frames[i - 1]

Continues(frames, i, chain) == Front(frames[i]) = chain

\* The scan for the first frame that continues the snapshot meets none that
\* contradicts it.
Anchored(frames, chain) ==
    \A i \in DOMAIN frames :
        (\A j \in 1..i : ~Continues(frames, j, chain)) =>
            /\ Len(frames[i]) <= Len(chain)
            /\ Len(frames[i]) = Len(chain) => frames[i] = chain

Replayed(frames, chain) ==
    IF \E i \in DOMAIN frames : Continues(frames, i, chain)
    THEN Last(frames)
    ELSE chain

Recovered ==
    IF ~Chained(log.frames) THEN Failure
    ELSE IF snapshot.exists
    THEN IF Anchored(log.frames, snapshot.chain)
         THEN File(Replayed(log.frames, snapshot.chain))
         ELSE Failure
    ELSE IF log.frames # << >> /\ Len(log.frames[1]) = 1
    THEN File(Last(log.frames))
    ELSE Failure

-----------------------------------------------------------------------------
\* A registry that has never been made durable.
Init ==
    /\ snapshot = NoFile
    /\ log = NoLog
    /\ disk = NoLog
    /\ pc = "ready"
    /\ next = << >>
    /\ token = << >>
    /\ failed = FALSE
    /\ acked = Nothing
    /\ tainted = FALSE

files == <<snapshot, log, disk>>

\* A call raises io_failure: the writer keeps its token.
Fail ==
    /\ pc' = "ready"
    /\ next' = << >>
    /\ failed' = TRUE
    /\ UNCHANGED <<token, acked, tainted>>

Succeed(chain) ==
    /\ pc' = "ready"
    /\ next' = << >>
    /\ token' = chain
    /\ failed' = FALSE
    /\ acked' = File(chain)

\* Bug variant: a compacted log accepts only the first event of all.
AcceptsOnlyLogEnd ==
    IF log.frames = << >> THEN token = << >>
    ELSE Chained(log.frames) /\ Last(log.frames) = token

\* append_event refuses a log that does not end at the supplied token.
AcceptsAppend ==
    /\ Chained(log.frames)
    /\ log.frames # << >> => Last(log.frames) = token

BeginAppend(image) ==
    /\ pc = "ready"
    /\ Len(token) < MaxSequence
    /\ AcceptsAppend
    /\ pc' = IF log.torn THEN "repair" ELSE "write"
    /\ next' = Append(token, image)
    /\ UNCHANGED <<files, token, failed, acked, tainted>>

\* The known torn tail is removed by an atomic replacement.
Repair ==
    /\ pc = "repair"
    /\ log' = [log EXCEPT !.torn = FALSE]
    /\ disk' = log'
    /\ pc' = "write"
    /\ tainted' = FALSE
    /\ UNCHANGED <<snapshot, next, token, failed, acked>>

\* fopen in append mode creates the file; then the frame is written.
Appended(frames, torn) ==
    /\ log' = [exists |-> TRUE, frames |-> frames, torn |-> torn]
    /\ UNCHANGED <<snapshot, disk>>

\* Bug variant: the token is returned before the frame is synchronised.
WriteAndAcknowledge ==
    /\ pc = "write"
    /\ Appended(Append(log.frames, next), FALSE)
    /\ Succeed(next)
    /\ UNCHANGED tainted

WriteFrame ==
    /\ pc = "write"
    /\ Appended(Append(log.frames, next), FALSE)
    /\ pc' = "sync"
    /\ UNCHANGED <<next, token, failed, acked, tainted>>

WriteFails ==
    /\ pc = "write"
    /\ UNCHANGED files \/ Appended(log.frames, TRUE)
    /\ Fail

SyncFrame ==
    /\ pc = "sync"
    /\ disk' = [log EXCEPT !.exists = disk.exists \/ FsyncCoversNewEntry]
    /\ Succeed(next)
    /\ tainted' = FALSE
    /\ UNCHANGED <<snapshot, log>>

\* The complete frame stays in the file although the call reports a failure.
SyncFails ==
    /\ pc = "sync"
    /\ Fail
    /\ UNCHANGED files

\* An atomic replacement that fails leaves the destination as it was.
ReplaceFails ==
    /\ pc \in {"repair", "truncate"}
    /\ Fail
    /\ UNCHANGED files

-----------------------------------------------------------------------------
\* write_snapshot_atomic; its directory sync covers the log beside it.
InstallSnapshot ==
    /\ snapshot' = File(token)
    /\ disk' = [disk EXCEPT !.exists = log.exists]
    /\ UNCHANGED log

WriteSnapshot ==
    /\ pc = "ready"
    /\ InstallSnapshot
    /\ acked' = File(token)
    /\ UNCHANGED <<pc, next, token, failed, tainted>>

\* compact: the snapshot first, then the empty log.
BeginCompact ==
    /\ pc = "ready"
    /\ InstallSnapshot
    /\ acked' = File(token)
    /\ pc' = "truncate"
    /\ UNCHANGED <<next, token, failed, tainted>>

TruncateLog ==
    /\ pc = "truncate"
    /\ log' = EmptyLog
    /\ disk' = EmptyLog
    /\ pc' = "ready"
    /\ tainted' = FALSE
    /\ UNCHANGED <<snapshot, next, token, failed, acked>>

-----------------------------------------------------------------------------
\* What a power failure may leave of the log: its name may be gone if the
\* directory was never synchronised, and of the frames that were not, any
\* number may be gone and the next one torn.
AfterPowerFailure ==
    (IF disk.exists THEN {} ELSE {NoLog}) \cup
    {left \in [exists: {log.exists}, torn: BOOLEAN,
               frames: {SubSeq(log.frames, 1, n) :
                          n \in Len(disk.frames)..Len(log.frames)}] :
        IF disk.torn THEN left = log
        ELSE left.torn => left.frames # log.frames \/ log.torn}

Stop ==
    /\ pc # "down"
    /\ pc' = "down"
    /\ next' = << >>
    /\ token' = << >>
    /\ failed' = FALSE
    /\ UNCHANGED <<snapshot, acked, tainted>>

PowerFailure ==
    /\ Stop
    /\ log' \in AfterPowerFailure
    /\ disk' = log'

\* The files stay as they were, synchronised or not.
ProcessDies ==
    /\ Stop
    /\ UNCHANGED <<log, disk>>

\* recover: the token may be that of a frame no fsync has covered yet.
Adopt ==
    /\ Recovered.exists
    /\ token' = Recovered.chain
    /\ failed' = FALSE
    /\ tainted' = (tainted \/ log.frames # disk.frames)
    /\ acked' = IF log = disk THEN Recovered ELSE acked
    /\ UNCHANGED <<files, next>>

Restart == pc = "down" /\ Adopt /\ pc' = "ready"

RecoverInPlace == pc = "ready" /\ failed /\ Adopt /\ UNCHANGED pc

\* Nothing was ever made durable: start over from capture().
StartOver ==
    /\ pc = "down"
    /\ ~Recovered.exists
    /\ ~acked.exists
    /\ pc' = "ready"
    /\ UNCHANGED <<files, next, token, failed, acked, tainted>>

Next ==
    \/ \E image \in Images : BeginAppend(image)
    \/ Repair
    \/ WriteFrame
    \/ WriteFails
    \/ SyncFrame
    \/ SyncFails
    \/ ReplaceFails
    \/ WriteSnapshot
    \/ BeginCompact
    \/ TruncateLog
    \/ PowerFailure
    \/ ProcessDies
    \/ Restart
    \/ RecoverInPlace
    \/ StartOver

Spec == Init /\ [][Next]_vars

-----------------------------------------------------------------------------
(***************************************************************************)
(* append_event "returns the only valid durable commit token", and the     *)
(* compaction table of class-ii-persistence.md promises a recovery result  *)
(* at every crash point.  At every moment, and in every state a crash can  *)
(* leave, recovery succeeds and what it returns extends every token that   *)
(* was reported durable.                                                   *)
(***************************************************************************)
RecoveryKeepsAcked ==
    acked.exists =>
        Recovered.exists /\ IsPrefix(acked.chain, Recovered.chain)

(***************************************************************************)
(* Recovery returns an image of this history: the recovered chain is at    *)
(* most the append that was in flight ahead of the writer's own token, and *)
(* never on another branch.                                                *)
(***************************************************************************)
RecoveryStaysOnBranch ==
    pc # "down" /\ Recovered.exists =>
        /\ IsPrefix(token, Recovered.chain)
        /\ Len(Recovered.chain) <= Len(token) + 1

(***************************************************************************)
(* What recover() gives back, in one: it extends what was acknowledged and *)
(* it never leaves the writer's history.                                   *)
(***************************************************************************)
RecoveryIsFaithful == RecoveryKeepsAcked /\ RecoveryStaysOnBranch

(***************************************************************************)
(* A writer that has seen no failure since it obtained its token is never  *)
(* refused: whatever compactions and crashes came before, the log is empty *)
(* or ends exactly at the token.  The exception is a token adopted by      *)
(* recovery from a frame no fsync had covered, until an append or a        *)
(* replacement of the log has made that frame durable after all: should a  *)
(* snapshot of it be written first and the power then fail, the log ends   *)
(* before the token and every append is refused until the next compaction. *)
(***************************************************************************)
FreshTokenIsAccepted ==
    pc = "ready" /\ ~failed /\ ~tainted => AcceptsAppend

(***************************************************************************)
(* class-ii-persistence.md, "Recovery": "The next append atomically removes*)
(* a known torn tail before writing its new frame."  A writer with a fresh *)
(* token whose log has a torn tail is not refused.                         *)
(***************************************************************************)
NextAppendRemovesTornTail ==
    pc = "ready" /\ ~failed /\ log.torn => AcceptsAppend

(***************************************************************************)
(* class-ii-persistence.md, "Append-only event log": "Persistence failure  *)
(* leaves the previous token as the recovery boundary".  After a failed    *)
(* call, recovery returns the token the writer had before it.              *)
(***************************************************************************)
FailureKeepsBoundary ==
    pc = "ready" /\ failed /\ Recovered.exists => Recovered.chain = token

=============================================================================
