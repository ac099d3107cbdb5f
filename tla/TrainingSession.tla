---------------------------- MODULE TrainingSession ----------------------------
(***************************************************************************)
(* Training in the terminal workbench: TrainingSessionController, the      *)
(* worker thread that trains, and the handlers of the two shells (the      *)
(* classic TUI and the single pane) between them.                          *)
(*                                                                         *)
(* The handlers run on the UI thread, one at a time.  The worker reaches   *)
(* them with call_from_thread, and waits for the handler it posted.  The   *)
(* form's Input.Changed messages are queued: between an edit and its       *)
(* handler the form and the session disagree.                              *)
(*                                                                         *)
(* Bound: one selection in the timeline's queue at a time.                 *)
(***************************************************************************)
EXTENDS Naturals, Sequences, FiniteSets, SequencesExt

CONSTANTS
  Requests,        \* the configurations the form can hold
  DefaultRequest,  \* the one it opens with
  NoRequest,       \* a form that does not parse, or does not validate
  Epochs,          \* TrainingRequest.epochs
  MaximumSamples   \* DIAGNOSTIC_SAMPLE_BUDGET

ASSUME SessionAssumption ==
  /\ NoRequest \notin Requests /\ DefaultRequest \in Requests
  /\ Epochs \in Nat \ {0} /\ MaximumSamples \in Nat \ {0, 1}

VARIABLES
  shell,          \* the shell in use: "classic" or "single_pane"
  form,           \* what the form holds
  changes,        \* the Input.Changed messages in the queue
  session,        \* SessionState: see NewSession
  exportEnabled,  \* the export button
  runs,           \* the trainings begun: the run generation, and the id of self._cancel
  cancelled,      \* the trainings whose cancel event is set
  trainer,        \* the worker thread: see Resting
  shown,          \* the run and the epoch the model panels show
  timeline,       \* the generation of the timeline
  selection       \* the selection in the queue

trainingVars == <<form, changes, session, exportEnabled, runs, cancelled, trainer,
                  shown, timeline, selection>>

Shells  == {"classic", "single_pane"}
NoRun   == [run |-> 0]
Nothing == [run |-> 0, epoch |-> 0]

NewSession == [state |-> "idle", active |-> NoRequest, diagnostics |-> <<>>, dirty |-> FALSE,
               completed |-> NoRun, samples |-> <<>>, inspected |-> 0]

\* at: start, run, epoch, capture, end; posted: the handler the thread waits for.
Resting == [at |-> "rest", request |-> NoRequest, epoch |-> 0, posted |-> "none"]

TrainingInit ==
  /\ shell \in Shells
  /\ form = DefaultRequest /\ changes = 0
  /\ session = NewSession /\ exportEnabled = FALSE
  /\ runs = 0 /\ cancelled = {} /\ trainer = Resting
  /\ shown = Nothing /\ timeline = 0 /\ selection = Nothing

ActiveStates == {"queued", "running", "cancelling"}
Training     == session.state \in ActiveStates
-----------------------------------------------------------------------------
\* What the handlers share.

Ceiling(n, d) == (n + d - 1) \div d

\* TrainingDiagnosticSampling.bounded: the first epoch, the last one and those
\* on the cadence, at most MaximumSamples of them.
SampleEvery == IF MaximumSamples = 2 THEN Epochs + 1 ELSE Ceiling(Epochs, MaximumSamples - 2)

Sampled(epoch) == epoch = 1 \/ epoch % SampleEvery = 0 \/ epoch = Epochs

\* selected_epochs: sorted.
SelectedEpochs ==
  LET sampled == {e \in 1..Epochs : Sampled(e)}
  IN CHOOSE s \in [1..Cardinality(sampled) -> sampled] :
       \A i, j \in DOMAIN s : i < j => s[i] < s[j]

\* synchronize_configuration: a run that other settings trained is stale; a
\* form that does not parse makes every run stale.
Stale(completed, request) == completed # NoRun /\ completed.request # request

Exportable(s) == s.completed # NoRun /\ s.state \notin ActiveStates /\ ~s.dirty

\* What is shown of a run: the snapshot, the rows, the targets, the predictions
\* and the accuracy it had at that epoch.
TrainingInspection(run, epoch) == [run |-> run, epoch |-> epoch]

\* current_inspection: the retained run, at its last epoch or at the one selected.
Inspection(s) ==
  IF s.completed = NoRun THEN Nothing
  ELSE TrainingInspection(s.completed.run, IF s.inspected = 0 THEN Epochs ELSE s.inspected)

\* inspect_completed_epoch: the last epoch is the run itself.
Inspected(s, epoch) == [s EXCEPT !.inspected = IF epoch = Epochs THEN 0 ELSE epoch]

\* A job ends: the active request and its diagnostics are dropped, the form is
\* read again.
Ended(s, state) ==
  [s EXCEPT !.state = state, !.active = NoRequest, !.diagnostics = <<>>, !.inspected = 0,
            !.dirty = Stale(s.completed, form)]

\* record_diagnostic_sample and complete raise SessionContractError otherwise.
DiagnosticIsExpected ==
  /\ Training /\ trainer.request = session.active
  /\ Len(session.diagnostics) < Len(SelectedEpochs)
  /\ SelectedEpochs[Len(session.diagnostics) + 1] = trainer.epoch

CompletionIsExpected ==
  /\ session.active # NoRequest /\ trainer.request = session.active
  /\ shell = "single_pane" =>
       [i \in DOMAIN session.diagnostics |-> session.diagnostics[i].epoch] = SelectedEpochs
-----------------------------------------------------------------------------
\* The user.

Edit ==
  /\ \E value \in (Requests \union {NoRequest}) \ {form} : form' = value
  /\ changes' = changes + 1
  /\ UNCHANGED <<shell, session, exportEnabled, runs, cancelled, trainer, shown, timeline,
                 selection>>

\* _refresh_configuration_state: the form is read, and the session is told.
Synchronized == [session EXCEPT !.dirty = Stale(session.completed, form)]

\* Mutant: the handler leaves the export button to the next job.
InputChangedNoSync ==
  /\ changes > 0 /\ changes' = changes - 1
  /\ session' = Synchronized
  /\ UNCHANGED <<shell, form, exportEnabled, runs, cancelled, trainer, shown, timeline,
                 selection>>

\* on_input_changed reads the whole form, whatever the message was about.
InputChanged ==
  /\ changes > 0 /\ changes' = changes - 1
  /\ session' = Synchronized
  /\ exportEnabled' = IF shell = "classic" /\ session.completed = NoRun
                      THEN exportEnabled ELSE Exportable(session')
  /\ UNCHANGED <<shell, form, runs, cancelled, trainer, shown, timeline, selection>>

\* action_train with a form that is refused.
TrainRefused ==
  /\ ~Training /\ form = NoRequest
  /\ session' = [session EXCEPT !.dirty = Stale(session.completed, NoRequest)]
  /\ exportEnabled' = Exportable(session')
  /\ UNCHANGED <<shell, form, changes, runs, cancelled, trainer, shown, timeline, selection>>

Begun == [session EXCEPT !.state = "queued", !.active = form, !.diagnostics = <<>>,
                         !.inspected = 0, !.dirty = Stale(session.completed, form)]

\* Mutant: the single pane goes on showing the epoch that was selected.
TrainKeepsPanels ==
  /\ ~Training /\ form # NoRequest
  /\ session' = Begun /\ exportEnabled' = Exportable(session')
  /\ runs' = runs + 1 /\ trainer' = [Resting EXCEPT !.at = "start"]
  /\ IF shell = "classic" THEN shown' = Nothing /\ UNCHANGED timeline
     ELSE timeline' = timeline + 1 /\ UNCHANGED shown
  /\ UNCHANGED <<shell, form, changes, cancelled, selection>>

\* action_train: a new event, a new worker.  The classic shell clears its
\* tables, the single pane shows the retained run's last epoch.
Train ==
  /\ ~Training /\ form # NoRequest
  /\ session' = Begun /\ exportEnabled' = Exportable(session')
  /\ runs' = runs + 1 /\ trainer' = [Resting EXCEPT !.at = "start"]
  /\ IF shell = "classic" THEN shown' = Nothing /\ UNCHANGED timeline
     ELSE timeline' = timeline + 1 /\ shown' = Inspection(session')
  /\ UNCHANGED <<shell, form, changes, cancelled, selection>>

CancelTraining ==
  /\ session.state \in {"queued", "running"}
  /\ session' = [session EXCEPT !.state = "cancelling"]
  /\ cancelled' = cancelled \union {runs}
  /\ UNCHANGED <<shell, form, changes, exportEnabled, runs, trainer, shown, timeline,
                 selection>>

\* action_export with a form that is refused, or is not the retained run's: the
\* session learns that the run is stale.
ExportRefused ==
  /\ form = NoRequest \/ (~Training /\ Stale(session.completed, form))
  /\ session' = Synchronized
  /\ UNCHANGED <<shell, form, changes, exportEnabled, runs, cancelled, trainer, shown,
                 timeline, selection>>

\* The retained run is written, or the file cannot be: the session's flags say
\* what they said.
Export ==
  /\ ~Training /\ session.completed # NoRun /\ ~Stale(session.completed, form)
  /\ session' = [session EXCEPT !.dirty = FALSE]
  /\ UNCHANGED <<shell, form, changes, exportEnabled, runs, cancelled, trainer, shown,
                 timeline, selection>>

\* The timeline of the single pane posts the epoch selected with the run and
\* the generation it was drawn for.
SelectSample ==
  /\ shell = "single_pane" /\ ~Training /\ session.completed # NoRun /\ selection = Nothing
  /\ \E i \in DOMAIN session.samples :
       selection' = [run |-> session.completed.run, epoch |-> session.samples[i].epoch,
                     generation |-> timeline]
  /\ UNCHANGED <<shell, form, changes, session, exportEnabled, runs, cancelled, trainer,
                 shown, timeline>>

\* on_temporal_sample_selected, inspect_completed_epoch.
SampleSelected ==
  /\ selection # Nothing /\ selection' = Nothing
  /\ IF selection.generation = timeline /\ ~Training /\ selection.run = session.completed.run
     THEN session' = Inspected(session, selection.epoch) /\ shown' = Inspection(session')
     ELSE UNCHANGED <<session, shown>>
  /\ UNCHANGED <<shell, form, changes, exportEnabled, runs, cancelled, trainer, timeline>>
-----------------------------------------------------------------------------
\* The worker thread: train_xor, and the callbacks it waits for.

Posts(handler, at) == trainer' = [trainer EXCEPT !.posted = handler, !.at = at]

Works(at) == trainer.at = at /\ trainer.posted = "none"

Apart == UNCHANGED <<shell, form, changes, session, exportEnabled, runs, cancelled, shown,
                     timeline, selection>>

\* The classic worker first announces itself.
Announce == shell = "classic" /\ Works("start") /\ Posts("running", "run") /\ Apart

\* TrainingSessionController.run, on the worker's thread.
StartTrainer ==
  /\ Works(IF shell = "classic" THEN "run" ELSE "start")
  /\ trainer' = [trainer EXCEPT !.at = "epoch", !.request = session.active]
  /\ Apart

\* The classic shell is told of the first epoch, the last and every tenth.
Reported(epoch) == shell = "single_pane" \/ epoch = 1 \/ epoch = Epochs \/ epoch % 10 = 0

\* Mutant: a thread that is cancelled returns without a word.
TrainEpochQuits ==
  /\ Works("epoch") /\ trainer.epoch < Epochs
  /\ IF runs \in cancelled THEN trainer' = Resting
     ELSE trainer' = [trainer EXCEPT !.epoch = @ + 1,
            !.posted = IF Reported(trainer.epoch + 1) THEN "progress" ELSE "none",
            !.at = IF shell = "single_pane" /\ Sampled(trainer.epoch + 1)
                   THEN "capture" ELSE "epoch"]
  /\ Apart

\* The flag is looked at before an epoch, and only there.
TrainEpoch ==
  /\ Works("epoch") /\ trainer.epoch < Epochs
  /\ IF runs \in cancelled THEN Posts("cancelled", "end")
     ELSE LET epoch == trainer.epoch + 1
          IN trainer' = [trainer EXCEPT !.epoch = epoch,
               !.posted = IF Reported(epoch) THEN "progress" ELSE "none",
               !.at = IF shell = "single_pane" /\ Sampled(epoch) THEN "capture" ELSE "epoch"]
  /\ Apart

Capture == Works("capture") /\ Posts("diagnostic", "epoch") /\ Apart

TrainerReturns ==
  Works("epoch") /\ trainer.epoch = Epochs /\ Posts("complete", "end") /\ Apart

TrainerFails == Works("epoch") /\ trainer.epoch < Epochs /\ Posts("failed", "end") /\ Apart
-----------------------------------------------------------------------------
\* The handlers the worker posts, on the UI thread.

Running(s) == [s EXCEPT !.state = IF s.state = "queued" THEN "running" ELSE s.state]

\* _show_running, _show_progress, on_training_progress.
ShowProgress ==
  /\ trainer.posted \in {"running", "progress"}
  /\ session' = Running(session)
  /\ trainer' = [trainer EXCEPT !.posted = "none"]
  /\ UNCHANGED <<shell, form, changes, exportEnabled, runs, cancelled, shown, timeline,
                 selection>>

\* record_diagnostic_sample, of the sample that is expected.
WithSample(s) == [s EXCEPT !.diagnostics = Append(@, TrainingInspection(runs, trainer.epoch))]

\* Mutant: a job that is being cancelled takes no more samples.
DropSampleIfCancelling ==
  /\ trainer.posted = "diagnostic"
  /\ trainer' = [trainer EXCEPT !.posted = "none"]
  /\ IF DiagnosticIsExpected /\ session.state # "cancelling"
     THEN session' = WithSample(session)
     ELSE UNCHANGED session
  /\ UNCHANGED <<shell, form, changes, exportEnabled, runs, cancelled, shown, timeline,
                 selection>>

\* on_training_diagnostic; a sample that is not expected ends the job.
RecordDiagnostic ==
  /\ trainer.posted = "diagnostic"
  /\ IF DiagnosticIsExpected
     THEN /\ session' = WithSample(session)
          /\ trainer' = [trainer EXCEPT !.posted = "none"]
     ELSE Posts("failed", "end") /\ UNCHANGED session
  /\ UNCHANGED <<shell, form, changes, exportEnabled, runs, cancelled, shown, timeline,
                 selection>>

\* The single pane draws its panels again when a job ends; the classic shell
\* fills its tables only from a result.
Redrawn(s, filled) ==
  IF shell = "classic" THEN shown' = filled /\ UNCHANGED timeline
  ELSE timeline' = timeline + 1 /\ shown' = Inspection(s)

Ends(s, filled) ==
  /\ session' = s /\ exportEnabled' = Exportable(s) /\ Redrawn(s, filled)
  /\ trainer' = Resting
  /\ UNCHANGED <<shell, form, changes, runs, cancelled, selection>>

Retained(s) == [s EXCEPT !.completed = [run |-> runs, request |-> trainer.request],
                         !.samples = s.diagnostics]

\* _show_result, on_training_complete: a job that was being cancelled may still
\* complete.  A completion that is not expected is the classic worker's death;
\* the single pane reports a failure.
ShowResult ==
  /\ trainer.posted = "complete"
  /\ IF CompletionIsExpected
     THEN Ends(Ended(Retained(session), "succeeded"), TrainingInspection(runs, Epochs))
     ELSE IF shell = "classic" THEN trainer' = Resting /\ Apart
     ELSE Posts("failed", "end") /\ Apart

\* The analysis of a result can refuse it, in the single pane.
ResultRefused ==
  shell = "single_pane" /\ trainer.posted = "complete" /\ Ends(Ended(session, "failed"), shown)

ShowCancelled == trainer.posted = "cancelled" /\ Ends(Ended(session, "cancelled"), shown)

ShowFailure == trainer.posted = "failed" /\ Ends(Ended(session, "failed"), shown)
-----------------------------------------------------------------------------
TrainingHandlers ==
  \/ ShowProgress \/ RecordDiagnostic \/ ShowResult \/ ResultRefused
  \/ ShowCancelled \/ ShowFailure

Trainer ==
  \/ Announce \/ StartTrainer \/ TrainEpoch \/ Capture \/ TrainerReturns \/ TrainerFails
================================================================================
