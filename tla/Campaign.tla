------------------------------- MODULE Campaign -------------------------------
(***************************************************************************)
(* A local benchmark campaign: the driver of run_local_matrix.py, which is *)
(* killed and started again, run_campaign_attempt, and the wrappers it     *)
(* starts through run_bounded_process, here BoundedCall.                   *)
(*                                                                         *)
(* A wrapper is a session of its own, so a driver that is killed leaves it *)
(* running, and it goes on writing predictions where the next attempt of   *)
(* the same run writes them: an orphan.  The native executable may be      *)
(* rebuilt under the campaign, once.  raw.jsonl is the only memory: each   *)
(* attempt appends one line, and the write may be cut short.               *)
(*                                                                         *)
(* Bounds: MaxKills kills and interrupts of the driver, MaxCuts short      *)
(* writes, one orphan at a time.  The dataset and the host stay as they    *)
(* are.                                                                    *)
(***************************************************************************)
EXTENDS Naturals, Sequences, FiniteSets

CONSTANTS
  Runs,         \* the planned attempts, 1..n in the plan's order
  Native,       \* those of the route ptm-native; the others are incumbents and the
                \* scalar reference
  Splits,       \* the score splits, 1..m in order
  MaxKills,
  MaxCuts

ASSUME CampaignAssumption ==
  /\ Runs \subseteq Nat \ {0} /\ Native \subseteq Runs
  /\ IsFiniteSet(Splits) /\ Splits = 1..Cardinality(Splits)
  /\ {MaxKills, MaxCuts} \subseteq Nat

VARIABLES
  exe,        \* the native executable on disk
  plan,       \* plan.json: the executable it names, or "unset"
  raw,        \* raw.jsonl: its lines
  unended,    \* the last line has lost its end
  summary,    \* summary.json has been published
  predictions, \* the predictions of a run and split: what is in the file
  driver,     \* the driver: see DriverStates
  wrappers,   \* the wrapper of the attempt under way, and the orphan
  kills, cuts,
  orphaned,   \* history: the runs an orphan has worked on
  call, child, result   \* the bounded call of the attempt under way

campaignVars == <<exe, plan, raw, unended, summary>>
boundVars    == <<kills, cuts, orphaned>>
callVars     == <<call, child, result>>
benchVars    == <<campaignVars, predictions, driver, wrappers, boundVars, callVars>>

Bounded == INSTANCE BoundedCall

Executables == {"first", "rebuilt"}
Malformed   == [run |-> 0]
Torn        == [by |-> "torn"]
Absent      == [by |-> "nobody"]

\* What a complete file of predictions tells: the program and the attempt.
Made(by, attempt) == [by |-> by, attempt |-> attempt]
Complete(f)       == f \notin {Absent, Torn}

Idle    == [at |-> "gone"]
Working == {w \in {"own", "orphan"} : wrappers[w] # Idle}

\* What the last wrapper left: exit code 0 and the status "ok", or a report of a
\* failure or of an unsupported model, other output, another exit code.
Claims == {"ok", "failed"}

NewDriver == [at |-> "plan", done |-> {}, run |-> 0, claim |-> "failed",
              failure |-> FALSE, scored |-> <<>>]

CampaignInit ==
  /\ exe = "first" /\ plan = "unset" /\ raw = <<>> /\ unended = FALSE /\ summary = FALSE
  /\ predictions = [r \in Runs |-> [s \in Splits |-> Absent]]
  /\ driver = [NewDriver EXCEPT !.at = "off"]
  /\ wrappers = [w \in {"own", "orphan"} |-> Idle]
  /\ kills = 0 /\ cuts = 0 /\ orphaned = {}
  /\ Bounded!CallInit
-----------------------------------------------------------------------------
\* main(): the plan, the records so far, and the next attempt.

Lines      == {raw[i] : i \in DOMAIN raw}
Recorded   == {l.run : l \in Lines}
Duplicates == \E i, j \in DOMAIN raw : i # j /\ raw[i].run = raw[j].run

Resume ==
  /\ driver.at = "off"
  /\ driver' = NewDriver
  /\ call' = "ready" /\ child' = "none" /\ result' = "none"
  /\ UNCHANGED <<campaignVars, predictions, wrappers, boundVars>>

\* The native executable's digest is part of the plan; an existing plan must
\* be equal.
PublishPlan ==
  /\ driver.at = "plan"
  /\ IF plan \in {"unset", exe}
     THEN plan' = exe /\ driver' = [driver EXCEPT !.at = "read"]
     ELSE driver' = [driver EXCEPT !.at = "refused"] /\ UNCHANGED plan
  /\ UNCHANGED <<exe, raw, unended, summary, predictions, wrappers, boundVars, callVars>>

\* Mutant: the planned runs without a record are taken for unexpected ones.
ReadAttemptsSwapped ==
  /\ driver.at = "read"
  /\ driver' = IF Malformed \in Lines \/ Duplicates \/ ~(Runs \subseteq Recorded)
               THEN [driver EXCEPT !.at = "refused"]
               ELSE [driver EXCEPT !.at = "next", !.done = Recorded]
  /\ UNCHANGED <<campaignVars, predictions, wrappers, boundVars, callVars>>

\* A malformed line, a run recorded twice or one outside the plan is refused.
ReadAttempts ==
  /\ driver.at = "read"
  /\ driver' = IF Malformed \in Lines \/ Duplicates \/ ~(Recorded \subseteq Runs)
               THEN [driver EXCEPT !.at = "refused"]
               ELSE [driver EXCEPT !.at = "next", !.done = Recorded]
  /\ UNCHANGED <<campaignVars, predictions, wrappers, boundVars, callVars>>

Remaining == Runs \ driver.done

\* The first attempt that is not recorded: its request is written.
NextAttempt ==
  /\ driver.at = "next"
  /\ \E r \in Remaining :
       /\ \A q \in Remaining : r <= q
       /\ driver' = [driver EXCEPT !.at = "call", !.run = r]
  /\ UNCHANGED <<campaignVars, predictions, wrappers, boundVars, callVars>>

\* Mutant: the summary is written from what the driver remembers.
SummarizeDone ==
  /\ driver.at = "next" /\ Remaining = {}
  /\ driver' = [driver EXCEPT !.at = "finished"] /\ summary' = TRUE
  /\ UNCHANGED <<exe, plan, raw, unended, predictions, wrappers, boundVars, callVars>>

\* Every attempt is recorded: raw.jsonl is read again and summarised.
Summarize ==
  /\ driver.at = "next" /\ Remaining = {}
  /\ IF Malformed \in Lines
     THEN driver' = [driver EXCEPT !.at = "refused"] /\ UNCHANGED summary
     ELSE driver' = [driver EXCEPT !.at = "finished"] /\ summary' = TRUE
  /\ UNCHANGED <<exe, plan, raw, unended, predictions, wrappers, boundVars, callVars>>
-----------------------------------------------------------------------------
\* run_campaign_attempt: the bounded call of the wrapper.

Attempt == kills + 1

LaunchWrapper ==
  /\ driver.at = "call" /\ Bounded!Launch
  /\ wrappers' = [wrappers EXCEPT !["own"] =
       [at |-> IF driver.run \in Native THEN "check" ELSE "write",
        run |-> driver.run, by |-> "incumbent", attempt |-> Attempt, split |-> 1]]
  /\ UNCHANGED <<campaignVars, predictions, driver, boundVars>>

LaunchFails ==
  /\ driver.at = "call" /\ Bounded!LaunchFails
  /\ UNCHANGED <<campaignVars, predictions, driver, wrappers, boundVars>>

\* The deadline, too much output or an interrupt: the wrapper's session is
\* killed, its native process with it.
KillWrapper ==
  /\ Bounded!Kill
  /\ wrappers' = [wrappers EXCEPT !["own"] = Idle]
  /\ UNCHANGED <<campaignVars, predictions, driver, boundVars>>

WrapperDies ==
  /\ Bounded!KilledChildDies
  /\ UNCHANGED <<campaignVars, predictions, driver, wrappers, boundVars>>

\* The call returns, or raises; KeyboardInterrupt ends the driver.
\* The attempt fails unless the wrapper exited with 0 and said "ok".
CallReturns ==
  /\ Bounded!CallReturns /\ result' # "Cancelled"
  /\ IF result' = "Interrupted"
     THEN kills < MaxKills /\ kills' = kills + 1 /\ driver' = [NewDriver EXCEPT !.at = "off"]
     ELSE /\ driver' = [driver EXCEPT !.at = "score", !.claim = "failed",
                          !.failure = ~(result' = "exited" /\ driver.claim = "ok")]
          /\ UNCHANGED kills
  /\ UNCHANGED <<campaignVars, predictions, wrappers, cuts, orphaned>>

LaunchFailed ==
  /\ driver.at = "call" /\ call = "returned"
  /\ driver' = [driver EXCEPT !.at = "score", !.failure = TRUE]
  /\ UNCHANGED <<campaignVars, predictions, wrappers, boundVars, callVars>>

\* The predictions of one split are read and scored; those scored before a
\* split that is missing or malformed stay in the record's metrics.
Score ==
  /\ driver.at = "score" /\ ~driver.failure /\ Len(driver.scored) + 1 \in Splits
  /\ LET f == predictions[driver.run][Len(driver.scored) + 1]
     IN driver' = IF Complete(f) THEN [driver EXCEPT !.scored = Append(@, f)]
                                 ELSE [driver EXCEPT !.failure = TRUE]
  /\ UNCHANGED <<campaignVars, predictions, wrappers, boundVars, callVars>>

Scored == driver.at = "score" /\ (driver.failure \/ Len(driver.scored) + 1 \notin Splits)

Record == [run |-> driver.run, ok |-> ~driver.failure, metrics |-> driver.scored,
           attempt |-> Attempt]

\* stream.write(data): one write whose count nobody looks at, then fsync.
\* A line joins the last one when that one has lost its end.
Joined(line) == IF unended THEN [raw EXCEPT ![Len(raw)] = Malformed] ELSE Append(raw, line)

\* The attempt is over.
AttemptEnds ==
  /\ driver' = [NewDriver EXCEPT !.at = "next", !.done = driver.done \union {driver.run}]
  /\ call' = "ready" /\ child' = "none" /\ result' = "none"

AppendWhole ==
  /\ Scored
  /\ raw' = Joined(Record) /\ unended' = FALSE
  /\ AttemptEnds
  /\ UNCHANGED <<exe, plan, summary, predictions, wrappers, boundVars>>

\* Cut within the line, or just before its end.
AppendCut ==
  /\ Scored /\ cuts < MaxCuts
  /\ \E line \in {Malformed, Record} : raw' = Joined(line)
  /\ unended' = TRUE /\ cuts' = cuts + 1
  /\ AttemptEnds
  /\ UNCHANGED <<exe, plan, summary, predictions, wrappers, kills, orphaned>>
-----------------------------------------------------------------------------
\* The wrappers, with the native process of _ptm_native_wrapper.

Becomes(w, state) == wrappers' = [wrappers EXCEPT ![w] = state]

\* It ends.  An orphan's answer reaches nobody.
Ends(w, claim) ==
  /\ Becomes(w, Idle)
  /\ IF w = "own" THEN child' = "exited" /\ driver' = [driver EXCEPT !.claim = claim]
                  ELSE UNCHANGED <<child, driver>>
  /\ UNCHANGED <<campaignVars, predictions, boundVars, call, result>>

Goes(w, at) ==
  Becomes(w, [wrappers[w] EXCEPT !.at = at])
  /\ UNCHANGED <<campaignVars, predictions, driver, boundVars, callVars>>

\* The digest of the executable against the request's, before and after.
CheckExecutable(w) ==
  /\ wrappers[w].at = "check"
  /\ IF exe = plan THEN Goes(w, "launch") ELSE Ends(w, "failed")

LaunchNative(w) ==
  /\ wrappers[w].at = "launch"
  /\ Becomes(w, [wrappers[w] EXCEPT !.at = "write", !.by = exe])
  /\ UNCHANGED <<campaignVars, predictions, driver, boundVars, callVars>>

\* A file of predictions is truncated and then written.
OpenPredictions(w) ==
  /\ wrappers[w].at = "write" /\ wrappers[w].split \in Splits
  /\ predictions' = [predictions EXCEPT ![wrappers[w].run][wrappers[w].split] = Torn]
  /\ Becomes(w, [wrappers[w] EXCEPT !.at = "flush"])
  /\ UNCHANGED <<campaignVars, driver, boundVars, callVars>>

WritePredictions(w) ==
  /\ wrappers[w].at = "flush"
  /\ predictions' = [predictions EXCEPT ![wrappers[w].run][wrappers[w].split] =
                              Made(wrappers[w].by, wrappers[w].attempt)]
  /\ Becomes(w, [wrappers[w] EXCEPT !.at = "write", !.split = @ + 1])
  /\ UNCHANGED <<campaignVars, driver, boundVars, callVars>>

\* _ptm_scalar_wrapper publishes a file of predictions whole.
PublishPredictions(w) ==
  /\ wrappers[w].at = "write" /\ wrappers[w].split \in Splits /\ wrappers[w].run \notin Native
  /\ predictions' = [predictions EXCEPT ![wrappers[w].run][wrappers[w].split] =
                              Made(wrappers[w].by, wrappers[w].attempt)]
  /\ Becomes(w, [wrappers[w] EXCEPT !.split = @ + 1])
  /\ UNCHANGED <<campaignVars, driver, boundVars, callVars>>

\* All splits are written.
Written(w) ==
  /\ wrappers[w].at = "write" /\ wrappers[w].split \notin Splits
  /\ IF wrappers[w].run \in Native THEN Goes(w, "recheck") ELSE Ends(w, "ok")

\* Mutant: the executable is not looked at again.
RecheckNothing(w) == wrappers[w].at = "recheck" /\ Goes(w, "verify")

RecheckExecutable(w) ==
  /\ wrappers[w].at = "recheck"
  /\ IF exe = plan THEN Goes(w, "verify") ELSE Ends(w, "failed")

\* The native wrapper reads its predictions back.
VerifyPredictions(w) ==
  /\ wrappers[w].at = "verify"
  /\ Ends(w, IF \A s \in Splits : Complete(predictions[wrappers[w].run][s]) THEN "ok" ELSE "failed")

\* Anything can fail: the native wrapper and its process exit with a code, an
\* incumbent's reports a failure or an unsupported model, or prints something
\* else.
WrapperFails(w) == w \in Working /\ Ends(w, "failed")

Wrapper(w) ==
  \/ CheckExecutable(w) \/ LaunchNative(w) \/ OpenPredictions(w) \/ WritePredictions(w)
  \/ PublishPredictions(w) \/ Written(w) \/ RecheckExecutable(w) \/ VerifyPredictions(w) \/ WrapperFails(w)
-----------------------------------------------------------------------------
\* Faults.

\* SIGKILL of the driver, or an exception that leaves the bounded call outside
\* its try: nobody kills the wrapper, which becomes an orphan.
KillDriver ==
  /\ driver.at \notin {"off", "refused", "finished"} /\ kills < MaxKills
  /\ wrappers["orphan"] = Idle
  /\ kills' = kills + 1
  /\ driver' = [NewDriver EXCEPT !.at = "off"]
  /\ wrappers' = [wrappers EXCEPT !["orphan"] = wrappers["own"], !["own"] = Idle]
  /\ orphaned' = orphaned \union {wrappers[w].run : w \in Working}
  /\ call' = "ready" /\ child' = "none" /\ result' = "none"
  /\ UNCHANGED <<campaignVars, predictions, cuts>>

\* The executable is built again.
Rebuild ==
  /\ exe = "first" /\ exe' = "rebuilt"
  /\ UNCHANGED <<plan, raw, unended, summary, predictions, driver, wrappers, boundVars, callVars>>

Main ==
  \/ PublishPlan \/ ReadAttempts \/ NextAttempt \/ Summarize \/ LaunchWrapper \/ LaunchFails
  \/ LaunchFailed \/ Score \/ AppendWhole \/ AppendCut

CallProgress == KillWrapper \/ WrapperDies \/ CallReturns

CampaignNext ==
  \/ Resume \/ Main \/ CallProgress \/ KillDriver \/ Rebuild
  \/ \E w \in Working : Wrapper(w)

\* The driver runs, the bounded call makes the progress BoundedCall promises,
\* and somebody starts a killed driver again.  Nothing is assumed of wrappers.
CampaignSpec ==
  CampaignInit /\ [][CampaignNext]_benchVars
  /\ WF_benchVars(Main) /\ WF_benchVars(CallProgress) /\ WF_benchVars(Resume)
-----------------------------------------------------------------------------
CampaignTypeOK ==
  /\ exe \in Executables /\ plan \in Executables \union {"unset"}
  /\ {unended, summary} \subseteq BOOLEAN
  /\ driver.done \subseteq Runs /\ driver.run \in Runs \union {0} /\ driver.claim \in Claims
  /\ driver.at \in {"off", "plan", "read", "next", "call", "score", "finished", "refused"}
  /\ Len(driver.scored) \in Splits \union {0} /\ Recorded \subseteq Runs \union {0}
  /\ kills \in 0..MaxKills /\ cuts \in 0..MaxCuts

\* "Run one contained wrapper and retain exactly one attempted-run record": no
\* run is recorded twice over any sequence of kills and resumptions, and a
\* summary stands for a raw.jsonl with exactly one whole line per planned run,
\* whatever appends were cut short on the way.
\*
\* And a record that says "ok" scores every split, each from a file that this
\* very attempt wrote, in the native case with the executable the plan names: no
\* predictions left by a killed attempt are scored, and a rebuilt executable is
\* noticed.  The exception is a run on which an orphan has worked: nothing keeps
\* it from writing between the wrapper's last check and the score.
Once ==
  /\ \A i, j \in DOMAIN raw : (i # j /\ raw[i].run = raw[j].run) => raw[i] = Malformed
  /\ summary => Recorded = Runs /\ Malformed \notin Lines
Earned ==
  \A l \in Lines : (l # Malformed /\ l.ok /\ l.run \notin orphaned) =>
    /\ DOMAIN l.metrics = Splits
    /\ \A s \in Splits : l.metrics[s] =
         Made(IF l.run \in Native THEN plan ELSE "incumbent", l.attempt)
RecordsAreEarned == Once /\ Earned

\* A campaign that is resumed after each kill comes to its summary, or is
\* refused for a cause the README names: a rebuilt executable or a malformed
\* line.  No kill by itself leaves a directory that is refused, and no wrapper
\* can hold the campaign up.
CampaignSettles ==
  <>[](\/ driver.at = "finished" /\ summary
       \/ driver.at = "refused" /\ (exe # plan \/ Malformed \in Lines))
================================================================================
