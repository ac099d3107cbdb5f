------------------------------- MODULE Workbench -------------------------------
(***************************************************************************)
(* The terminal workbench: a training session, a search session and an     *)
(* artifact session in one shell.  They share the UI thread and the cancel *)
(* key, and the artifact session opens what the other two export.          *)
(*                                                                         *)
(* Bound: MaxActs edits, selections, trainings, searches, loads, records   *)
(* and replaced files together, in any order.                              *)
(***************************************************************************)
EXTENDS SearchSession, ArtifactSession

CONSTANT MaxActs

ASSUME WorkbenchAssumption == MaxActs \in Nat

VARIABLE acts   \* what the user has done, of what is bounded

vars == <<shell, trainingVars, searchVars, acts, artifactVars>>

Init == TrainingInit /\ SearchInit /\ ArtifactInit /\ acts = 0

\* The cancel key goes to the search first: in the classic shell to one that
\* can be cancelled, in the single pane to one that is active.
KeyGoesToSearch ==
  IF shell = "classic" THEN search.state \in {"queued", "running"} ELSE Searching

CancelKey == ~KeyGoesToSearch /\ CancelTraining

OnlyTraining == UNCHANGED <<searchVars, acts, artifactVars>>
OnlySearch   == UNCHANGED <<shell, trainingVars, acts, artifactVars>>
OnlyArtifact == UNCHANGED <<shell, trainingVars, searchVars, acts>>

TrainingAct == (Edit \/ Train \/ SelectSample) /\ UNCHANGED <<searchVars, artifactVars>>
SearchAct   == (SelectKind \/ Search) /\ UNCHANGED <<shell, trainingVars, artifactVars>>
PanelAct    == ArtifactAct /\ UNCHANGED <<trainingVars, searchVars>>
Act         == acts < MaxActs /\ acts' = acts + 1 /\ (TrainingAct \/ SearchAct \/ PanelAct)

\* export_training_run freezes the retained run with a contract for raw
\* records of two optional fields; export_search_artifact has no contract.
TrainedArtifact(run) ==
  [origin |-> "training", id |-> run.run, sound |-> TRUE,
   outputs |-> [i \in 1..2 |->
     [field |-> << "x0", "x1" >>[i], kind |-> "boolean", test |-> "eq",
      value |-> Value("boolean", "true"), null |-> "false"]]]

SearchArtifact(result) ==
  [origin |-> "search", id |-> result.of, sound |-> TRUE, outputs |-> <<>>]

\* The export succeeds, or the file cannot be written.
ExportRun ==
  /\ Export /\ UNCHANGED <<searchVars, acts>>
  /\ \/ \E p \in RunPaths : Written(p, TrainedArtifact(session.completed))
     \/ UNCHANGED artifactVars

\* action_export_search, of a result that lowers to a Logic program.
ExportSearch ==
  /\ SearchExportable
  /\ \E p \in Paths : Written(p, SearchArtifact(search.result))
  /\ OnlyArtifact

TrainingThreads == (TrainingHandlers \/ Trainer) /\ OnlyTraining
FormMessages    == (InputChanged \/ SampleSelected) /\ OnlyTraining
KindMessages    == KindChanged /\ OnlySearch
SearchThread(g) == SearchWorker(g) /\ OnlySearch

Next ==
  \/ Act
  \/ (TrainRefused \/ ExportRefused \/ CancelKey) /\ OnlyTraining
  \/ ExportRun \/ ExportSearch
  \/ (SearchRefused \/ CancelSearch) /\ OnlySearch
  \/ TrainingThreads \/ FormMessages \/ KindMessages
  \/ (LoadFails \/ ArtifactMessages) /\ OnlyArtifact
  \/ \E g \in Generations : SearchThread(g)

\* The UI thread runs the handlers the threads post, and the threads run: an
\* epoch ends, a bounded search returns.  The user owes nothing.
Fairness ==
  /\ WF_vars(TrainingThreads)
  /\ \A g \in 1..MaxActs : WF_vars(g \in Generations /\ SearchThread(g))

Spec == Init /\ [][Next]_vars /\ Fairness
-----------------------------------------------------------------------------
\* The types.
TypeOK ==
  /\ shell \in Shells /\ form \in Requests \union {NoRequest}
  /\ {changes, runs, timeline} \subseteq Nat /\ cancelled \subseteq 1..runs
  /\ session.state \in ActiveStates \union {"idle", "succeeded", "failed", "cancelled"}
  /\ exportEnabled \in BOOLEAN /\ trainer.epoch \in 0..Epochs
  /\ kind \in Kinds /\ document \in Kinds /\ kindChanges \in Seq(Kinds)
  /\ set \subseteq Generations /\ event \in 0..generation
  /\ openPath \in Paths \union {NoPath} /\ pathChanges \in Nat /\ runEnabled \in BOOLEAN

\* Once the form's messages are handled, the export button is enabled exactly
\* when the run an export would write was trained by the settings on the screen
\* and no training is under way, whatever edits, cancellations and late
\* completions came between (docs/manual/explanation/workbench.md:8, tui/app.py
\* _sync_training_export_control).
ExportControlIsExact ==
  changes = 0 =>
    (exportEnabled <=> /\ session.completed # NoRun /\ ~Training
                       /\ session.completed.request = form)

\* The panels show one run: the retained one, with the samples of that training
\* and no other, at the epoch that is selected, and not what a training under
\* way is making of it (single_pane/app.py _project_training_inspection: "Project
\* exactly one immutable completed-run snapshot everywhere").
PanelsShowOneRun ==
  /\ session.completed # NoRun /\ shell = "single_pane" =>
       session.samples = [i \in DOMAIN SelectedEpochs |->
                            [run |-> session.completed.run, epoch |-> SelectedEpochs[i]]]
  /\ shell = "single_pane" => shown = Inspection(session)
  /\ shell = "classic" => shown \in {Nothing, Inspection(session)}

\* What the worker hands over is what the session expects, also when the job is
\* being cancelled meanwhile: neither a sample nor a result is refused, and a
\* training that completes is not lost (controllers.py record_diagnostic_sample
\* and complete raise SessionContractError).
HandoverIsExpected ==
  /\ trainer.posted = "diagnostic" => DiagnosticIsExpected
  /\ trainer.posted = "complete"   => CompletionIsExpected

\* A search thread that nobody has told to stop is the one the cancel key and
\* on_unmount reach, and its search is the one the session calls active; what
\* the session shows is the outcome of the latest search, of the kind on the
\* screen once the selector's messages are handled.
SearchIsReachable ==
  /\ \A g \in Live \ set : g = event /\ g = generation /\ Searching
  /\ search.result # NoResult =>
       search.result.of = generation /\ (kindChanges = <<>> => search.request = kind)

\* What is predicted, is predicted by bytes that were verified, whatever became
\* of their file.  Where the classic shell shows a prediction, its record was
\* typed into inputs of that artifact's fields, and the artifact is the one that
\* is open, if one is; its run button is enabled only for the path on the screen
\* (docs/manual/explanation/workbench.md:23).  In both shells the inputs are the
\* open artifact's once the queued ones are built.
PredictionsAreVerified ==
  /\ prediction # NoPrediction =>
       /\ prediction.by \in verified
       /\ shell = "classic" =>
            /\ prediction.labels = Labels(prediction.by)
            /\ opened # NotOpened => opened.artifact = prediction.by
  /\ shell = "classic" /\ pathChanges = 0 /\ runEnabled =>
       opened # NotOpened /\ openPath = opened.path /\ inputs # <<>>
  /\ opened # NotOpened /\ populates = <<>> =>
       \/ inputs = Labels(opened.artifact)
       \/ shell = "classic" /\ inputs = <<>>

\* When the user starts nothing more, every job ends and so does every thread,
\* those of searches the session has forgotten included: no training and no
\* search stays queued, running or cancelling (docs/rfcs/textual-tui.md:213).
JobsSettle == <>[](~Training /\ ~Searching /\ Live = {})
================================================================================
