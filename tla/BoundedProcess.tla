---------------------------- MODULE BoundedProcess ----------------------------
(***************************************************************************)
(* run_bounded_process of _bounded_process.py on POSIX: the calling        *)
(* thread, the two reader threads, the bounded queue between them, the     *)
(* child, one descendant of it, the two pipes and the clock.               *)
(*                                                                         *)
(* A unit of output is part of a read: the readers call read(8192) of a    *)
(* buffered stream, which returns when ReadSize units have come or at the  *)
(* end of the stream, never earlier.  Bounds: PipeCap, QueueCap and        *)
(* MaxWrites stand for the pipe's capacity, the queue's 8 and the output   *)
(* of the child; the clock stops counting at Deadline.                     *)
(***************************************************************************)
EXTENDS Naturals, Sequences

CONSTANTS
  ReadSize,       \* units one read waits for
  PipeCap,        \* units a pipe holds
  QueueCap,       \* items the queue of chunks holds
  MaxWrites,      \* units the child's tree writes
  Budget,         \* max_output_bytes, in units
  Deadline,       \* ticks from the start to the deadline
  CleanupReserve, \* cleanup_reserve, in ticks
  Escapes         \* whether the descendant is outside the process-tree boundary

ASSUME ProcessAssumption ==
  /\ {ReadSize, PipeCap, QueueCap, Budget} \subseteq Nat \ {0}
  /\ {MaxWrites, Deadline, CleanupReserve} \subseteq Nat
  /\ CleanupReserve < Deadline
  /\ Escapes \in BOOLEAN

VARIABLES
  clock,      \* time.monotonic() - started
  proc,       \* the child: "none", "alive", "exited", "killed"
  kin,        \* its descendant, which inherits both pipes: "none", "alive", "gone"
  doomed,     \* the processes that have been sent SIGKILL
  attached,   \* the child has its two pipes open
  pipe,       \* units written to a stream and not read
  wrote,      \* units ever written to a stream
  reader,     \* a reader thread: where it is, and the units of the read under way
  chunks,     \* the queue; an item with n = 0 is the end marker
  stop,       \* stop_readers is set
  closed,     \* streams the caller has closed
  pc,         \* where the calling thread is
  output,     \* captured units of each stream
  finished,   \* end markers taken
  failure,    \* "none" or the error to raise
  cleanup,    \* cleanup_deadline
  contained,  \* the boundary has been terminated by the loop
  result      \* "none" until the call returns

treeVars   == <<proc, kin, doomed, attached, pipe, wrote>>
readerVars == <<reader, chunks>>
callerVars == <<stop, closed, pc, output, finished, failure, cleanup, contained, result>>
vars       == <<clock, treeVars, readerVars, callerVars>>

Ended == {"exited", "killed"}

Streams == {"stdout", "stderr"}
Total(f) == f["stdout"] + f["stderr"]

ExecutionDeadline == Deadline - CleanupReserve
Earlier(a, b) == IF a <= b THEN a ELSE b

\* process.poll() is None
Running == proc = "alive"

\* The stream is empty and nobody can write to it.
AtEnd(s) == pipe[s] = 0 /\ ~(Running /\ attached) /\ kin # "alive"

\* _ProcessTree.terminate: SIGKILL to the child's process group.
Boundary == {"proc"} \union (IF Escapes THEN {} ELSE {"kin"})
\* Mutant: the child alone is killed.
TerminatedChild == doomed \union {p \in {"proc"} : Running}
Terminated == doomed \union {p \in Boundary : (p = "proc" /\ Running) \/ (p = "kin" /\ kin = "alive")}

Init ==
  /\ clock = 0
  /\ proc = "none" /\ kin = "none" /\ doomed = {} /\ attached = TRUE
  /\ pipe = [s \in Streams |-> 0] /\ wrote = [s \in Streams |-> 0]
  /\ reader = [s \in Streams |-> [at |-> "read", have |-> 0]] /\ chunks = <<>>
  /\ stop = FALSE /\ closed = {} /\ pc = "start"
  /\ output = [s \in Streams |-> 0] /\ finished = 0
  /\ failure = "none" /\ cleanup = Deadline /\ contained = FALSE /\ result = "none"
-----------------------------------------------------------------------------
\* The environment: time, the user, the child and its descendant.

Tick == clock < Deadline /\ clock' = clock + 1
        /\ UNCHANGED <<treeVars, readerVars, callerVars>>

\* The child starts a process that inherits its pipes.
Spawn ==
  /\ Running /\ attached /\ "proc" \notin doomed /\ kin = "none"
  /\ kin' = "alive"
  /\ UNCHANGED <<clock, proc, doomed, attached, pipe, wrote, readerVars, callerVars>>

Write(s) ==
  /\ \/ Running /\ attached /\ "proc" \notin doomed
     \/ kin = "alive" /\ "kin" \notin doomed
  /\ s \notin closed /\ pipe[s] < PipeCap /\ Total(wrote) < MaxWrites
  /\ pipe' = [pipe EXCEPT ![s] = @ + 1]
  /\ wrote' = [wrote EXCEPT ![s] = @ + 1]
  /\ UNCHANGED <<clock, proc, kin, doomed, attached, readerVars, callerVars>>

\* The child closes its output and goes on.
Detach ==
  /\ Running /\ attached /\ "proc" \notin doomed
  /\ attached' = FALSE
  /\ UNCHANGED <<clock, proc, kin, doomed, pipe, wrote, readerVars, callerVars>>

\* A process that has been killed may have been on its way out.
Exit ==
  /\ \/ Running /\ proc' = "exited" /\ UNCHANGED kin
     \/ kin = "alive" /\ kin' = "gone" /\ UNCHANGED proc
  /\ UNCHANGED <<clock, doomed, attached, pipe, wrote, readerVars, callerVars>>

Die ==
  /\ \/ "proc" \in doomed /\ Running /\ proc' = "killed" /\ UNCHANGED kin
     \/ "kin" \in doomed /\ kin = "alive" /\ kin' = "gone" /\ UNCHANGED proc
  /\ UNCHANGED <<clock, doomed, attached, pipe, wrote, readerVars, callerVars>>
-----------------------------------------------------------------------------
\* read_stream and emit, one thread per stream.

Move(s, at, have) == reader' = [reader EXCEPT ![s] = [at |-> at, have |-> have]]

Fill(s) ==
  /\ reader[s].at = "read" /\ pipe[s] > 0
  /\ pipe' = [pipe EXCEPT ![s] = @ - 1]
  /\ LET have == reader[s].have + 1
     IN Move(s, IF have = ReadSize THEN "emit" ELSE "read", have)
  /\ UNCHANGED <<clock, proc, kin, doomed, attached, wrote, chunks, callerVars>>

EndOfStream(s) ==
  /\ proc # "none" /\ reader[s].at = "read" /\ AtEnd(s)
  /\ Move(s, IF reader[s].have > 0 THEN "emit" ELSE "end", reader[s].have)
  /\ UNCHANGED <<clock, treeVars, chunks, callerVars>>

\* The thread enters the next read(), which holds the stream's lock, or finds
\* the stream closed: ValueError, taken for the end.
AfterEmit(s) ==
  Move(s, IF reader[s].at = "end" THEN "done" ELSE IF s \in closed THEN "end" ELSE "read", 0)

\* Mutant: an item that finds the queue full is given up at once.
DropWhenFull(s) ==
  /\ reader[s].at \in {"emit", "end"} /\ (stop \/ Len(chunks) = QueueCap)
  /\ AfterEmit(s)
  /\ UNCHANGED <<clock, treeVars, chunks, callerVars>>

\* Mutant: the end marker is put without a look at stop_readers.
DropDataOnly(s) ==
  /\ reader[s].at = "emit" /\ stop
  /\ AfterEmit(s)
  /\ UNCHANGED <<clock, treeVars, chunks, callerVars>>

Emit(s) ==
  /\ reader[s].at \in {"emit", "end"} /\ Len(chunks) < QueueCap
  /\ chunks' = Append(chunks, [s |-> s, n |-> reader[s].have])
  /\ AfterEmit(s)
  /\ UNCHANGED <<clock, treeVars, callerVars>>

\* emit() gives up once stop_readers is set.
DropEmit(s) ==
  /\ reader[s].at \in {"emit", "end"} /\ stop
  /\ AfterEmit(s)
  /\ UNCHANGED <<clock, treeVars, chunks, callerVars>>

ReadStream(s) == Fill(s) \/ EndOfStream(s) \/ Emit(s) \/ DropEmit(s)
-----------------------------------------------------------------------------
\* The calling thread.

\* Popen.
Start ==
  /\ pc = "start"
  /\ \/ proc' = "alive" /\ pc' = "setup" /\ UNCHANGED result
     \/ proc' = "none" /\ pc' = "returned" /\ result' = "Launch"
  /\ UNCHANGED <<clock, kin, doomed, attached, pipe, wrote, readerVars,
                 stop, closed, output, finished, failure, cleanup, contained>>

\* The queue is made and the two reader threads are started, in front of the try.
Prepare ==
  /\ pc = "setup"
  /\ pc' = "loop"
  /\ UNCHANGED <<clock, treeVars, readerVars, stop, closed, output,
                 finished, failure, cleanup, contained, result>>

\* The top of the loop: cancel, the execution deadline or the child's exit
\* terminate the boundary, once; past cleanup_deadline the loop is left.
\* The test finished_streams < 2 is part of the step that takes an end marker.
Loop ==
  /\ pc = "loop"
  /\ \E asked \in BOOLEAN :
     LET watching == failure = "none" /\ ~contained
         cancel   == watching /\ asked
         timeout  == watching /\ ~asked /\ clock >= ExecutionDeadline /\ Running
         ended    == watching /\ ~asked /\ ~Running
     IN /\ failure' = CASE cancel -> "Cancelled" [] timeout -> "Timeout" [] OTHER -> failure
        /\ cleanup' = IF cancel THEN Earlier(Deadline, clock + CleanupReserve) ELSE cleanup
        /\ contained' = (contained \/ cancel \/ timeout \/ ended)
        /\ doomed' = IF cancel \/ timeout \/ ended THEN Terminated ELSE doomed
  /\ pc' = IF clock >= cleanup' THEN "drained" ELSE "get"
  /\ UNCHANGED <<clock, proc, kin, attached, pipe, wrote, readerVars,
                 stop, closed, output, finished, result>>

\* chunks.get times out.
GetNothing ==
  /\ pc = "get" /\ chunks = <<>>
  /\ pc' = "loop"
  /\ UNCHANGED <<clock, treeVars, readerVars, stop, closed, output,
                 finished, failure, cleanup, contained, result>>

GetEndMarker ==
  /\ pc = "get" /\ chunks # <<>> /\ Head(chunks).n = 0
  /\ chunks' = Tail(chunks)
  /\ finished' = finished + 1
  /\ pc' = IF finished' < 2 THEN "loop" ELSE "drained"
  /\ UNCHANGED <<clock, treeVars, reader, stop, closed, output,
                 failure, cleanup, contained, result>>

GetData ==
  /\ pc = "get" /\ chunks # <<>> /\ Head(chunks).n > 0
  /\ chunks' = Tail(chunks)
  /\ pc' = "loop"
  /\ LET item      == Head(chunks)
         available == Budget - Total(output)
         over      == item.n > available
         stopNow   == over /\ failure = "none"
     IN /\ output' = [output EXCEPT ![item.s] = @ + Earlier(item.n, available)]
        /\ failure' = IF stopNow THEN "OutputLimit" ELSE failure
        /\ cleanup' = IF stopNow THEN Earlier(Deadline, clock + CleanupReserve) ELSE cleanup
        /\ contained' = (contained \/ stopNow)
        /\ doomed' = IF stopNow THEN Terminated ELSE doomed
  /\ UNCHANGED <<clock, proc, kin, attached, pipe, wrote, reader,
                 stop, closed, finished, result>>

\* In the try, cancel() raises or KeyboardInterrupt does: only the finally block runs.
Interrupt ==
  /\ pc \in {"loop", "get", "drained", "wait"}
  /\ failure' = "Interrupted"
  /\ pc' = "finally"
  /\ UNCHANGED <<clock, treeVars, readerVars, stop, closed, output,
                 finished, cleanup, contained, result>>

\* After the loop: streams that never closed are a drain error; a child that
\* still runs is killed.  When both streams have closed and nothing failed, the
\* moment it is given to exit is a step of Exit before this one.
Drained ==
  /\ pc = "drained"
  /\ failure' = IF finished < 2 /\ failure = "none" THEN "Drain" ELSE failure
  /\ doomed' = IF Running THEN Terminated ELSE doomed
  /\ pc' = "wait"
  /\ UNCHANGED <<clock, proc, kin, attached, pipe, wrote, readerVars,
                 stop, closed, output, finished, cleanup, contained, result>>

\* process.wait(remaining)
Wait ==
  /\ pc = "wait"
  /\ \/ ~Running /\ UNCHANGED failure
     \/ Running /\ clock >= Deadline
        /\ failure' = IF failure = "none" THEN "Drain" ELSE failure
  /\ pc' = "finally"
  /\ UNCHANGED <<clock, treeVars, readerVars, stop, closed, output,
                 finished, cleanup, contained, result>>

\* Mutant: the finally block relies on the loop to have killed the tree.
FinallyClosesOnly ==
  /\ pc = "finally"
  /\ stop' = TRUE
  /\ pc' = "close"
  /\ UNCHANGED <<clock, proc, kin, doomed, attached, pipe, wrote, readerVars,
                 closed, output, finished, failure, cleanup, contained, result>>

Finally ==
  /\ pc = "finally"
  /\ stop' = TRUE
  /\ doomed' = Terminated
  /\ pc' = "close"
  /\ UNCHANGED <<clock, proc, kin, attached, pipe, wrote, readerVars,
                 closed, output, finished, failure, cleanup, contained, result>>

\* stream.close() takes the lock that a reader inside read() holds.
CloseStream ==
  /\ pc = "close"
  /\ \/ /\ closed = Streams /\ pc' = "join" /\ UNCHANGED closed
     \/ \E s \in Streams \ closed :
          /\ s = "stdout" \/ "stdout" \in closed
          /\ reader[s].at # "read"
          /\ closed' = closed \union {s}
          /\ UNCHANGED pc
  /\ UNCHANGED <<clock, treeVars, readerVars, stop, output,
                 finished, failure, cleanup, contained, result>>

\* reader.join(remaining), and the value returned or the error raised.
JoinAndReturn ==
  /\ pc = "join"
  /\ clock >= Deadline \/ \A s \in Streams : reader[s].at = "done"
  /\ result' = IF failure # "none" THEN failure ELSE IF Running THEN "Drain" ELSE proc
  /\ pc' = "returned"
  /\ UNCHANGED <<clock, treeVars, readerVars, stop, closed, output,
                 finished, failure, cleanup, contained>>

\* Outside the try an exception leaves everything as it is: a thread that cannot
\* be started, an interrupt of the preparation or of the finally block itself.
Abandon ==
  /\ pc \in {"setup", "finally", "close", "join"}
  /\ stop' \in (IF pc = "finally" THEN BOOLEAN ELSE {stop})
  /\ result' = "Abandoned"
  /\ pc' = "returned"
  /\ UNCHANGED <<clock, treeVars, readerVars, closed, output,
                 finished, failure, cleanup, contained>>

Caller ==
  \/ Start \/ Prepare \/ Loop \/ GetNothing \/ GetEndMarker \/ GetData \/ Drained
  \/ Wait \/ Finally \/ CloseStream \/ JoinAndReturn
-----------------------------------------------------------------------------
Next ==
  \/ Tick \/ Spawn \/ Detach \/ Exit \/ Die \/ Caller \/ Interrupt \/ Abandon
  \/ \E s \in Streams : Write(s) \/ ReadStream(s)

\* The threads run and time passes; a killed process dies.  Nothing is assumed
\* of the child, of its descendant or of the user.
Fairness ==
  /\ WF_vars(Tick) /\ WF_vars(Caller) /\ WF_vars(Die)
  /\ \A s \in Streams : WF_vars(ReadStream(s))

Spec == Init /\ [][Next]_vars /\ Fairness
-----------------------------------------------------------------------------
Returned == pc = "returned"

ProcessTypeOK ==
  /\ clock \in 0..Deadline /\ cleanup \in 0..Deadline
  /\ stop \in BOOLEAN /\ contained \in BOOLEAN
  /\ proc \in {"none", "alive"} \union Ended
  /\ kin \in {"none", "alive", "gone"}
  /\ doomed \subseteq {"proc", "kin"}
  /\ attached \in BOOLEAN /\ closed \subseteq Streams
  /\ pipe \in [Streams -> 0..PipeCap] /\ wrote \in [Streams -> 0..MaxWrites]
  /\ reader \in [Streams -> [at : {"read", "emit", "end", "done"}, have : 0..ReadSize]]
  /\ chunks \in Seq([s : Streams, n : 0..ReadSize]) /\ Len(chunks) <= QueueCap
  /\ output \in [Streams -> 0..Budget] /\ finished \in 0..2
  /\ failure \in {"none", "Cancelled", "Timeout", "OutputLimit", "Drain", "Interrupted"}

\* A call that returns the child's code has every unit the tree wrote to both
\* streams, although reads, the queue, the end markers and the kill of the
\* group run in four threads; and it is within the budget.  Whatever the call
\* raises is what happened: a timeout after the execution deadline, an output
\* limit only when the tree wrote more than the budget, a drain error past the
\* deadline.
OutcomeIsTrue ==
  Returned =>
    CASE result \in Ended -> output = wrote /\ Total(output) <= Budget
      [] result = "Timeout" -> clock >= ExecutionDeadline
      [] result = "OutputLimit" -> Total(wrote) > Budget
      [] result = "Drain" -> clock >= Deadline
      [] OTHER -> TRUE

\* What is left of the boundary has been killed.
Killed == (Running => "proc" \in doomed) /\ (kin = "alive" /\ ~Escapes => "kin" \in doomed)

\* When the call has returned or raised, no process of the boundary is left
\* that has not been killed, whichever way it came through the try.  An exception
\* between Popen and the try, or in the finally block, does leave them: the
\* comment of run_bounded_process, "creates and owns a process-tree boundary",
\* does not hold of a call abandoned there.
NothingOutlives == Returned /\ result # "Abandoned" => Killed

\* "Run a byte-capped child within one absolute wall-clock deadline": a call
\* that has started returns, with no help of the child.
CallReturns == (pc = "setup") ~> Returned

\* The two reader threads, which may block on the full queue of a caller that
\* has gone, end as well, unless an exception in the finally block has kept that
\* caller from telling them to stop or from killing the tree they read from.
ReadersEnd ==
  (pc = "loop") ~> \/ \A s \in Streams : reader[s].at = "done"
                   \/ result = "Abandoned" /\ ~(stop /\ Killed)

\* What the callers rely on.
Abstraction == INSTANCE BoundedCall WITH
  call   <- CASE pc = "start" -> "ready" [] Returned -> "returned" [] OTHER -> "running",
  child  <- IF Running /\ "proc" \in doomed THEN "doomed" ELSE proc
CallSpec == Abstraction!CallSpec
================================================================================
