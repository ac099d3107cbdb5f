---------------------------- MODULE WorkbenchProofs ----------------------------
(***************************************************************************)
(* Proofs about Workbench, for any configurations, any kinds of search,    *)
(* any number of epochs and any number of acts of the user.                *)
(*                                                                         *)
(* The search side and the training side do not read each other's state,   *)
(* except that the cancel key looks at both: each has an inductive         *)
(* invariant of its own.                                                   *)
(***************************************************************************)
EXTENDS Workbench, SequenceTheorems, FiniteSetTheorems, WellFoundedInduction, TLAPS

Phases == Outcomes \union {"off", "start", "announced", "search", "end"}

SearchStates == {"idle", "queued", "running", "cancelling", "succeeded", "failed", "cancelled"}

SearchTypes ==
  /\ search \in [state : SearchStates, request : Kinds \union {NoRequestYet},
                 result : [of : Nat]]
  /\ kind \in Kinds /\ document \in Kinds /\ kindChanges \in Seq(Kinds)
  /\ generation \in Nat
  /\ searchers \in Seq(Phases) /\ Len(searchers) = generation

\* A thread that nobody has told to stop is the current one.
UnstoppedIsCurrent == \A g \in Live \ set : g = event /\ g = generation /\ Searching

\* The current thread, and the result on the screen, are of the request in the
\* text area.
SearchesDocument ==
  /\ generation \in Live => search.request = document
  /\ search.result # NoResult => search.result.of = generation /\ search.request = document

\* The text area lags behind the selector by the messages in the queue.
DocumentFollowsKind ==
  kind = IF kindChanges = <<>> THEN document ELSE kindChanges[Len(kindChanges)]

SearchInv == SearchTypes /\ UnstoppedIsCurrent /\ SearchesDocument /\ DocumentFollowsKind
-----------------------------------------------------------------------------
\* Which threads are alive when a generation is added.
LEMMA LiveAfterAppend ==
    ASSUME SearchTypes, NEW phase \in Phases, generation' = generation + 1,
           searchers' = Append(searchers, phase)
    PROVE  /\ searchers' \in Seq(Phases) /\ Len(searchers') = generation'
           /\ phase = "off" => Live' = Live
           /\ phase = "start" => Live' = Live \union {generation'}
<1> USE DEF SearchTypes
<1>1. /\ searchers' \in Seq(Phases) /\ Len(searchers') = generation + 1
      /\ \A g \in 1..generation : searchers'[g] = searchers[g]
      /\ searchers'[generation + 1] = phase
  OBVIOUS
<1>2. 1..(generation + 1) = (1..generation) \union {generation + 1}
  OBVIOUS
<1> QED
  BY <1>1, <1>2 DEF Live, Generations

\* Which threads are alive when one of them moves on.
LEMMA LiveAfterStep ==
    ASSUME SearchTypes, NEW g \in Generations, NEW phase \in Phases,
           generation' = generation, searchers' = [searchers EXCEPT ![g] = phase]
    PROVE  /\ searchers' \in Seq(Phases) /\ Len(searchers') = generation'
           /\ phase \in {"off", "end"} => Live' = Live \ {g}
           /\ phase \notin {"off", "end"} => Live' = Live \union {g}
<1> USE DEF SearchTypes
<1>1. g \in DOMAIN searchers
  BY DEF Generations
<1>2. /\ searchers' \in Seq(Phases) /\ Len(searchers') = generation
      /\ \A h \in 1..generation : searchers'[h] = IF h = g THEN phase ELSE searchers[h]
  BY <1>1 DEF Generations
<1> QED
  BY <1>2 DEF Live, Generations

-----------------------------------------------------------------------------
LEMMA SearchInvInit == SearchInit => SearchInv
  BY SearchAssumption
     DEF SearchInit, SearchInv, SearchTypes, UnstoppedIsCurrent, SearchesDocument,
         DocumentFollowsKind, NewSearch, NoResult, NoRequestYet, SearchStates, Live,
         Generations, Phases

\* The selector: a new kind is queued, and its message abandons the search.
LEMMA SearchInvSelectKind == SearchInv /\ SelectKind => SearchInv'
<1> SUFFICES ASSUME SearchInv, SelectKind PROVE SearchInv'
  OBVIOUS
<1>1. PICK k \in Kinds : kind' = k /\ kindChanges' = Append(kindChanges, k)
  BY DEF SelectKind
<1>2. kindChanges' \in Seq(Kinds) /\ kindChanges' # <<>>
      /\ kindChanges'[Len(kindChanges')] = k
  BY <1>1 DEF SearchInv, SearchTypes
<1> QED
  BY <1>1, <1>2
     DEF SelectKind, SearchInv, SearchTypes, UnstoppedIsCurrent, SearchesDocument,
         DocumentFollowsKind, Live, Generations, Searching

LEMMA SearchInvKindChanged == SearchInv /\ KindChanged => SearchInv'
<1> SUFFICES ASSUME SearchInv, KindChanged PROVE SearchInv'
  OBVIOUS
<1> USE DEF SearchInv
<1>1. Live' = Live /\ searchers' \in Seq(Phases) /\ Len(searchers') = generation'
  BY LiveAfterAppend DEF KindChanged, Invalidates, Phases
<1>2. /\ document' \in Kinds /\ kindChanges' \in Seq(Kinds)
      /\ kind' = IF kindChanges' = <<>> THEN document' ELSE kindChanges'[Len(kindChanges')]
  <2>1. /\ kindChanges \in Seq(Kinds) /\ kindChanges # <<>> /\ kind' = kind
        /\ document' = kindChanges[1] /\ kind = kindChanges[Len(kindChanges)]
    BY DEF KindChanged, Invalidates, SearchTypes, DocumentFollowsKind
  <2>2. /\ Tail(kindChanges) \in Seq(Kinds) /\ Len(Tail(kindChanges)) = Len(kindChanges) - 1
        /\ \A i \in 1..Len(Tail(kindChanges)) : Tail(kindChanges)[i] = kindChanges[i + 1]
    BY <2>1, HeadTailProperties
  <2>3. CASE Len(kindChanges) = 1
    BY <2>1, <2>2, <2>3 DEF KindChanged, Invalidates
  <2>4. CASE Len(kindChanges) > 1
    BY <2>1, <2>2, <2>4 DEF KindChanged, Invalidates
  <2>5. Len(kindChanges) = 1 \/ Len(kindChanges) > 1
    BY <2>1, <2>2, LenProperties
  <2> QED
    BY <2>3, <2>4, <2>5
<1>3. UnstoppedIsCurrent'
  BY <1>1 DEF KindChanged, Invalidates, UnstoppedIsCurrent, Searching
<1>4. generation' \notin Live'
  BY <1>1 DEF KindChanged, Invalidates, Live, Generations, SearchTypes
<1> QED
  BY <1>1, <1>2, <1>3, <1>4
     DEF KindChanged, Invalidates, SearchTypes, SearchesDocument, DocumentFollowsKind, NewSearch,
         NoResult, SearchStates

LEMMA SearchInvSearch == SearchInv /\ Search => SearchInv'
<1> SUFFICES ASSUME SearchInv, Search PROVE SearchInv'
  OBVIOUS
<1> USE DEF SearchInv
<1>1. /\ Live' = Live \union {generation'}
      /\ searchers' \in Seq(Phases) /\ Len(searchers') = generation'
  BY LiveAfterAppend DEF Search, NewSearcher, Phases
<1>2. UnstoppedIsCurrent'
  BY <1>1 DEF Search, NewSearcher, Prepared, UnstoppedIsCurrent, Searching
<1> QED
  BY <1>1, <1>2
     DEF Search, NewSearcher, Prepared, SearchTypes, SearchesDocument, DocumentFollowsKind, NoResult, SearchStates

\* A refusal and a cancellation leave the threads alone.
LEMMA SearchInvRefusedOrCancelled ==
    SearchInv /\ (SearchRefused \/ CancelSearch) => SearchInv'
<1> SUFFICES ASSUME SearchInv, SearchRefused \/ CancelSearch PROVE SearchInv'
  OBVIOUS
<1> USE DEF SearchInv
<1>1. Live' = Live
  BY DEF SearchRefused, CancelSearch, Live, Generations
<1>2. CASE SearchRefused
  BY <1>1, <1>2
     DEF SearchRefused, SearchTypes, UnstoppedIsCurrent, SearchesDocument,
         DocumentFollowsKind, Searching, NoResult, SearchStates
<1>3. CASE CancelSearch
  BY <1>1, <1>3
     DEF CancelSearch, SearchTypes, UnstoppedIsCurrent, SearchesDocument,
         DocumentFollowsKind, Searching, NoResult, SearchStates
<1> QED
  BY <1>2, <1>3

\* A thread moves on; only its last step, and only of the current generation,
\* changes what the session shows.
LEMMA SearchInvWorker ==
    ASSUME SearchInv, NEW g \in Generations, SearchWorker(g)
    PROVE  SearchInv'
<1> USE DEF SearchInv
<1>1. g \in Live
  BY DEF SearchWorker, Announces, Returns, ShowRunning, ShowOutcome, Outcomes, Live
<1>2. CASE Announces(g) \/ Returns(g)
  <2>1. PICK phase \in Phases \ {"off", "end"} : searchers' = [searchers EXCEPT ![g] = phase]
    BY <1>2 DEF Announces, Returns, Phases, Outcomes
  <2>2. generation' = generation
    BY <1>2 DEF Announces, Returns
  <2>3. Live' = Live /\ searchers' \in Seq(Phases) /\ Len(searchers') = generation'
    <3>1. /\ Live' = Live \union {g}
          /\ searchers' \in Seq(Phases) /\ Len(searchers') = generation'
      BY <2>1, <2>2, LiveAfterStep
    <3> QED
      BY <1>1, <3>1
  <2> QED
    BY <1>2, <2>3
       DEF Announces, Returns, SearchTypes, UnstoppedIsCurrent, SearchesDocument,
           DocumentFollowsKind, Searching
<1>3. CASE ShowRunning(g)
  <2>1. Live' = Live /\ searchers' \in Seq(Phases) /\ Len(searchers') = generation'
    <3>1. /\ searchers' = [searchers EXCEPT ![g] = "search"] /\ generation' = generation
          /\ "search" \in Phases
      BY <1>3 DEF ShowRunning, Phases
    <3>2. /\ Live' = Live \union {g}
          /\ searchers' \in Seq(Phases) /\ Len(searchers') = generation'
      BY <3>1, LiveAfterStep
    <3> QED
      BY <1>1, <3>2
  <2> QED
    BY <1>3, <2>1
       DEF ShowRunning, SearchTypes, UnstoppedIsCurrent, SearchesDocument,
           DocumentFollowsKind, Searching, SearchStates
<1>4. CASE ShowOutcome(g)
  <2>1. /\ Live' = Live \ {g}
        /\ searchers' \in Seq(Phases) /\ Len(searchers') = generation'
    BY <1>1, <1>4, LiveAfterStep DEF ShowOutcome, Phases
  <2>2. CASE g # generation
    BY <1>4, <2>1, <2>2
       DEF ShowOutcome, SearchTypes, UnstoppedIsCurrent, SearchesDocument,
           DocumentFollowsKind, Searching
  <2>3. CASE g = generation
    <3>1. /\ search'.request = search.request
          /\ search' \in [state : SearchStates, request : Kinds \union {NoRequestYet},
                          result : [of : Nat]]
          /\ search'.result \in {search.result, NoResult, [of |-> generation]}
      BY <1>4, <2>3 DEF ShowOutcome, Outcomes, Shown, SearchTypes, SearchStates, NoResult
    <3>2. search.request = document
      BY <1>1, <2>3 DEF SearchesDocument
    <3>3. Live' \ set' = {}
      BY <1>4, <2>1, <2>3 DEF ShowOutcome, UnstoppedIsCurrent
    <3> QED
      BY <1>4, <2>1, <2>3, <3>1, <3>2, <3>3
         DEF ShowOutcome, SearchTypes, UnstoppedIsCurrent, SearchesDocument,
             DocumentFollowsKind, NoResult
  <2> QED
    BY <2>2, <2>3
<1> QED
  BY <1>2, <1>3, <1>4 DEF SearchWorker

LEMMA SearchInvStep == SearchInv /\ [Next]_vars => SearchInv'
<1> SUFFICES ASSUME SearchInv, [Next]_vars PROVE SearchInv'
  OBVIOUS
<1>1. CASE UNCHANGED searchVars
  BY <1>1
     DEF searchVars, SearchInv, SearchTypes, UnstoppedIsCurrent, SearchesDocument,
         DocumentFollowsKind, Live, Generations, Searching
<1>2. CASE SelectKind
  BY <1>2, SearchInvSelectKind
<1>3. CASE KindChanged
  BY <1>3, SearchInvKindChanged
<1>4. CASE Search
  BY <1>4, SearchInvSearch
<1>5. CASE SearchRefused \/ CancelSearch
  BY <1>5, SearchInvRefusedOrCancelled
<1>6. CASE \E g \in Generations : SearchWorker(g)
  BY <1>6, SearchInvWorker
<1> QED
  BY <1>1, <1>2, <1>3, <1>4, <1>5, <1>6
     DEF Next, vars, Act, TrainingAct, SearchAct, PanelAct, OnlyTraining, OnlySearch,
         OnlyArtifact, ExportRun, ExportSearch,
         TrainingThreads, FormMessages, KindMessages, SearchThread

\* A search thread nobody has told to stop is the one the cancel key reaches,
\* and the outcome on the screen is the latest search's, of the kind selected
\* (tui/app.py, the generation checks of the _show_search handlers).
THEOREM SearchStaysReachable == Spec => []SearchIsReachable
<1>1. Init => SearchInv
  BY SearchInvInit DEF Init
<1>2. SearchInv => SearchIsReachable
  BY DEF SearchInv, UnstoppedIsCurrent, SearchesDocument, DocumentFollowsKind,
         SearchIsReachable
<1> QED
  BY <1>1, <1>2, SearchInvStep, PTL DEF Spec
-----------------------------------------------------------------------------
\* The training side.

Samples == [run : Nat, epoch : Nat]

SessionStates == ActiveStates \union {"idle", "succeeded", "failed", "cancelled"}

Forms == Requests \union {NoRequest}

RetainedRuns == {NoRun} \union [run : Nat \ {0}, request : Requests]

Sessions ==
  [state : SessionStates, active : Forms, diagnostics : Seq(Samples), dirty : BOOLEAN,
   completed : RetainedRuns, samples : Seq(Samples), inspected : Nat]

Trainers ==
  [at : {"rest", "start", "run", "epoch", "capture", "end"},
   request : Forms, epoch : Nat,
   posted : {"none", "running", "progress", "diagnostic", "complete", "cancelled", "failed"}]

TrainingTypes ==
  /\ shell \in Shells /\ form \in Forms /\ changes \in Nat
  /\ session \in Sessions /\ exportEnabled \in BOOLEAN
  /\ runs \in Nat /\ timeline \in Nat /\ trainer \in Trainers
  /\ trainer.at = "rest" => trainer.posted = "none"
  /\ trainer.at # "rest" => runs > 0
  /\ selection # Nothing => shell = "single_pane" /\ selection.epoch \in Nat

\* With no message in the queue the session and the button are up to date; a
\* classic shell without a run to export leaves the button as it is.
ExportIsSynchronized ==
  /\ changes = 0 => /\ session.dirty = Stale(session.completed, form)
                    /\ exportEnabled = Exportable(session)
  /\ session.completed = NoRun => ~exportEnabled

\* The samples under way are of the run under way; those retained are the
\* retained run's, all of them; the panels show it.
PanelsInv ==
  /\ \A i \in DOMAIN session.diagnostics : session.diagnostics[i].run = runs
  /\ shell = "classic" => session.inspected = 0
  /\ PanelsShowOneRun

TrainingInv == TrainingTypes /\ ExportIsSynchronized /\ PanelsInv
-----------------------------------------------------------------------------
\* The steps that reach the training side.
TrainingStep ==
  \/ Edit \/ InputChanged \/ TrainRefused \/ Train \/ CancelTraining \/ ExportRefused
  \/ Export \/ SelectSample \/ SampleSelected \/ TrainingHandlers \/ Trainer

LEMMA TrainingCases ==
    [Next]_vars => TrainingStep \/ UNCHANGED <<shell, trainingVars>>
  BY DEF Next, vars, Act, TrainingAct, SearchAct, PanelAct, OnlyTraining, OnlySearch,
         OnlyArtifact, ExportRun, ExportSearch, ArtifactAct, Replace, EditPath, Load,
         RunRecord, TrainingThreads, FormMessages, KindMessages, SearchThread, CancelKey,
         TrainingStep

\* The session's flags are Boolean.
LEMMA FlagsAreBoolean ==
    /\ \A completed, request : Stale(completed, request) \in BOOLEAN
    /\ \A s : Exportable(s) \in BOOLEAN
  BY Zenon DEF Stale, Exportable

\* What a job's end leaves of a session.
LEMMA EndedSession ==
    ASSUME NEW s \in Sessions, NEW state \in {"succeeded", "failed", "cancelled"},
           form \in Forms
    PROVE  /\ Ended(s, state) \in Sessions
           /\ Ended(s, state).completed = s.completed
           /\ Ended(s, state).samples = s.samples
           /\ Ended(s, state).diagnostics = <<>>
           /\ Ended(s, state).inspected = 0
           /\ Ended(s, state).dirty = Stale(s.completed, form)
<1>1. Stale(s.completed, form) \in BOOLEAN /\ state \in SessionStates
      /\ NoRequest \in Forms
  BY FlagsAreBoolean DEF SessionStates, Forms
<1>2. <<>> \in Seq(Samples) /\ 0 \in Nat
  OBVIOUS
<1>3. Ended(s, state) \in Sessions
  BY <1>1, <1>2 DEF Ended, Sessions
<1> QED
  BY <1>1, <1>3 DEF Ended, Sessions

\* An expected completion retains the run that completes.
LEMMA RetainedSession ==
    ASSUME TrainingTypes, trainer.posted = "complete", CompletionIsExpected
    PROVE  /\ Retained(session) \in Sessions
           /\ Retained(session).completed = [run |-> runs, request |-> trainer.request]
           /\ Retained(session).samples = session.diagnostics
           /\ Retained(session).completed # NoRun
<1>1. trainer.request \in Requests /\ runs \in Nat \ {0}
  BY DEF TrainingTypes, CompletionIsExpected, Sessions, Trainers, Forms
<1>2. [run |-> runs, request |-> trainer.request] \in [run : Nat \ {0}, request : Requests]
  BY <1>1
<1>3. [run |-> runs, request |-> trainer.request] # NoRun
  <2>1. [run |-> runs, request |-> trainer.request].run # NoRun.run
    BY <1>1 DEF NoRun
  <2> QED
    BY <2>1
<1> QED
  BY <1>2, <1>3 DEF Retained, TrainingTypes, Sessions, RetainedRuns

-----------------------------------------------------------------------------
LEMMA TrainingTypesStep == TrainingTypes /\ TrainingStep => TrainingTypes'
<1> SUFFICES ASSUME TrainingTypes, TrainingStep PROVE TrainingTypes'
  OBVIOUS
<1> USE DEF TrainingTypes
<1>1. CASE Edit
  BY <1>1 DEF Edit, Forms
<1>2. CASE InputChanged \/ TrainRefused
  <2>1. PICK flag \in BOOLEAN : session' = [session EXCEPT !.dirty = flag]
    BY <1>2, FlagsAreBoolean DEF InputChanged, Synchronized, TrainRefused
  <2>2. session' \in Sessions
    BY <2>1 DEF Sessions
  <2>3. exportEnabled' \in BOOLEAN /\ changes' \in Nat
    BY <1>2, FlagsAreBoolean DEF InputChanged, Synchronized, TrainRefused
  <2> QED
    BY <1>2, <2>2, <2>3 DEF InputChanged, Synchronized, TrainRefused
<1>3. CASE Train
  <2>1. Begun \in Sessions
    <3>1. /\ <<>> \in Seq(Samples) /\ 0 \in Nat
          /\ "queued" \in SessionStates /\ Stale(session.completed, form) \in BOOLEAN
      BY FlagsAreBoolean DEF SessionStates, ActiveStates
    <3> QED
      BY <3>1 DEF Begun, Sessions
  <2> QED
    <3>1. trainer' \in Trainers /\ trainer'.at = "start" /\ runs' > 0
      BY <1>3 DEF Train, Trainers, Resting, Forms
    <3> QED
      BY <1>3, <2>1, <3>1, FlagsAreBoolean DEF Train
<1>4. CASE CancelTraining
  BY <1>4 DEF CancelTraining, Sessions, SessionStates, ActiveStates
<1>5. CASE ExportRefused \/ Export
  <2>1. PICK flag \in BOOLEAN : session' = [session EXCEPT !.dirty = flag]
    BY <1>5, FlagsAreBoolean DEF ExportRefused, Synchronized, Export
  <2>2. session' \in Sessions
    BY <2>1 DEF Sessions
  <2> QED
    BY <1>5, <2>2 DEF ExportRefused, Synchronized, Export
<1>6. CASE SelectSample
  <2>1. PICK i \in DOMAIN session.samples :
          selection' = [run |-> session.completed.run, epoch |-> session.samples[i].epoch,
                        generation |-> timeline]
    BY <1>6 DEF SelectSample
  <2>2. session.samples[i].epoch \in Nat
    <3>1. session.samples \in Seq(Samples)
      BY DEF Sessions
    <3>2. session.samples[i] \in Samples
      BY <2>1, <3>1, ElementOfSeq, LenProperties
    <3> QED
      BY <3>2 DEF Samples
  <2>3. selection'.epoch \in Nat
    BY <2>1, <2>2
  <2> QED
    BY <1>6, <2>3 DEF SelectSample
<1>7. CASE SampleSelected
  BY <1>7 DEF SampleSelected, Inspected, Sessions
<1>8. CASE ShowProgress
  BY <1>8 DEF ShowProgress, Running, Sessions, SessionStates, Trainers, ActiveStates
<1>9. CASE RecordDiagnostic
  <2>1. [run |-> runs, epoch |-> trainer.epoch] \in Samples
    BY DEF Samples, Trainers
  <2>2. Append(session.diagnostics, [run |-> runs, epoch |-> trainer.epoch]) \in Seq(Samples)
    BY <2>1 DEF Sessions
  <2> QED
    <3>1. CASE DiagnosticIsExpected
      BY <1>9, <2>2, <3>1 DEF RecordDiagnostic, WithSample, TrainingInspection, Sessions, Trainers
    <3>2. CASE ~DiagnosticIsExpected
      BY <1>9, <3>2 DEF RecordDiagnostic, Posts, Trainers
    <3> QED
      BY <3>1, <3>2
<1>10. CASE ShowResult \/ ResultRefused \/ ShowCancelled \/ ShowFailure
  <2>1. ASSUME NEW s \in Sessions, NEW filled, Ends(s, filled)
        PROVE  TrainingTypes'
    <3>1. Resting \in Trainers /\ Resting.at = "rest" /\ Resting.posted = "none"
      BY DEF Resting, Trainers, Forms
    <3> QED
      BY <2>1, <3>1, FlagsAreBoolean DEF Ends, Redrawn
  <2>2. CASE ShowResult
    <3>1. CASE CompletionIsExpected
      BY <1>10, <2>1, <2>2, <3>1, RetainedSession, EndedSession DEF ShowResult
    <3>2. CASE ~CompletionIsExpected
      <4>1. Apart /\ trainer' \in {Resting, [trainer EXCEPT !.posted = "failed", !.at = "end"]}
        BY <2>2, <3>2 DEF ShowResult, Posts
      <4>2. trainer' \in Trainers /\ (trainer'.at = "rest" => trainer'.posted = "none")
        <5>1. CASE trainer' = Resting
          BY <5>1 DEF Resting, Trainers, Forms
        <5>2. CASE trainer' = [trainer EXCEPT !.posted = "failed", !.at = "end"]
          BY <5>2 DEF Trainers
        <5> QED
          BY <4>1, <5>1, <5>2
      <4> QED
        BY <2>2, <4>1, <4>2 DEF Apart, ShowResult
    <3> QED
      BY <3>1, <3>2
  <2>3. CASE ResultRefused \/ ShowCancelled \/ ShowFailure
    BY <2>1, <2>3, EndedSession DEF ResultRefused, ShowCancelled, ShowFailure
  <2> QED
    BY <1>10, <2>2, <2>3
<1>11. CASE Trainer
  <2>1. Apart
    BY <1>11
       DEF Trainer, Announce, StartTrainer, TrainEpoch, Capture, TrainerReturns, TrainerFails
  <2>2. trainer.at # "rest" /\ trainer'.at # "rest" /\ trainer' \in Trainers
    <3>1. CASE StartTrainer
      BY <3>1 DEF StartTrainer, Works, Trainers, Sessions
    <3>2. CASE TrainEpoch
      <4>1. CASE runs \in cancelled
        BY <3>2, <4>1 DEF TrainEpoch, Works, Posts, Trainers
      <4>2. CASE runs \notin cancelled
        <5>1. PICK at \in {"capture", "epoch"}, posted \in {"progress", "none"} :
                trainer' = [trainer EXCEPT !.epoch = trainer.epoch + 1, !.posted = posted,
                                           !.at = at]
          BY <3>2, <4>2, Zenon DEF TrainEpoch
        <5> QED
          <6>1. trainer.at = "epoch" /\ trainer.epoch + 1 \in Nat
            BY <3>2 DEF TrainEpoch, Works, Trainers
          <6>2. trainer'.at = at /\ trainer' \in Trainers
            BY <5>1, <6>1 DEF Trainers
          <6> QED
            BY <6>1, <6>2
      <4> QED
        BY <4>1, <4>2
    <3>3. CASE Announce \/ Capture \/ TrainerReturns \/ TrainerFails
      BY <3>3 DEF Announce, Capture, TrainerReturns, TrainerFails, Works, Posts, Trainers
    <3> QED
      BY <1>11, <3>1, <3>2, <3>3 DEF Trainer
  <2> QED
    BY <2>1, <2>2 DEF Apart
<1> QED
  BY <1>1, <1>2, <1>3, <1>4, <1>5, <1>6, <1>7, <1>8, <1>9, <1>10, <1>11
     DEF TrainingStep, TrainingHandlers
-----------------------------------------------------------------------------
\* A step that leaves the form, the button and the retained run alone, and does
\* not change whether the session is active, keeps the button in step.
LEMMA ExportUntouched ==
    ASSUME ExportIsSynchronized,
           UNCHANGED <<form, changes, exportEnabled>>,
           session'.completed = session.completed, session'.dirty = session.dirty,
           session'.state \in ActiveStates <=> session.state \in ActiveStates
    PROVE  ExportIsSynchronized'
<1>1. Exportable(session') = Exportable(session)
  BY Zenon DEF Exportable
<1>2. Stale(session'.completed, form') = Stale(session.completed, form)
  BY DEF Stale
<1> QED
  BY <1>1, <1>2 DEF ExportIsSynchronized

\* A step that reads the form again and sets the button puts it in step.
LEMMA ExportSet ==
    ASSUME form' = form,
           session'.dirty = Stale(session'.completed, form),
           exportEnabled' = Exportable(session')
    PROVE  ExportIsSynchronized'
<1>1. session'.completed = NoRun => ~Exportable(session')
  BY Zenon DEF Exportable
<1>2. session'.dirty = Stale(session'.completed, form')
  BY DEF Stale
<1> QED
  BY <1>1, <1>2 DEF ExportIsSynchronized

LEMMA ExportStep == TrainingTypes /\ ExportIsSynchronized /\ TrainingStep
                    => ExportIsSynchronized'
<1> SUFFICES ASSUME TrainingTypes, ExportIsSynchronized, TrainingStep
             PROVE  ExportIsSynchronized'
  OBVIOUS
<1>0. session \in Sessions
  BY DEF TrainingTypes
<1>1. CASE Edit
  BY <1>1 DEF Edit, ExportIsSynchronized, TrainingTypes
<1>2. CASE InputChanged
  <2>1. /\ session'.completed = session.completed /\ form' = form
        /\ session'.dirty = Stale(session'.completed, form)
    BY <1>0, <1>2 DEF InputChanged, Synchronized, Sessions
  <2>2. CASE shell = "classic" /\ session.completed = NoRun
    <3>1. ~exportEnabled /\ exportEnabled' = exportEnabled /\ ~Exportable(session')
      BY <1>2, <2>1, <2>2, Zenon DEF InputChanged, Synchronized, ExportIsSynchronized, Exportable
    <3>2. exportEnabled' = Exportable(session')
      BY <3>1, FlagsAreBoolean DEF TrainingTypes
    <3> QED
      BY <2>1, <3>2, ExportSet
  <2>3. CASE ~(shell = "classic" /\ session.completed = NoRun)
    BY <1>2, <2>1, <2>3, ExportSet DEF InputChanged, Synchronized
  <2> QED
    BY <2>2, <2>3
<1>3. CASE TrainRefused
  <2>1. form' = form /\ session'.dirty = Stale(session'.completed, form)
    BY <1>0, <1>3 DEF TrainRefused, Sessions
  <2> QED
    BY <1>3, <2>1, ExportSet DEF TrainRefused
<1>4. CASE Train
  <2>1. form' = form /\ session'.dirty = Stale(session'.completed, form)
    BY <1>0, <1>4 DEF Train, Begun, Sessions
  <2> QED
    BY <1>4, <2>1, ExportSet DEF Train
<1>5. CASE CancelTraining
  <2>1. /\ session'.completed = session.completed /\ session'.dirty = session.dirty
        /\ session'.state = "cancelling"
    BY <1>0, <1>5 DEF CancelTraining, Sessions
  <2>2. session.state \in ActiveStates /\ session'.state \in ActiveStates
    BY <1>5, <2>1 DEF CancelTraining, ActiveStates
  <2> QED
    BY <1>5, <2>1, <2>2, ExportUntouched DEF CancelTraining
<1>6. CASE ExportRefused \/ Export
  <2>1. /\ session'.completed = session.completed /\ session'.state = session.state
        /\ session'.dirty = Stale(session.completed, form)
    <3>1. CASE ExportRefused
      BY <1>0, <3>1 DEF ExportRefused, Synchronized, Sessions
    <3>2. CASE Export
      <4>1. Stale(session.completed, form) = FALSE
        BY <3>2, FlagsAreBoolean DEF Export
      <4> QED
        BY <1>0, <3>2, <4>1 DEF Export, Sessions
    <3> QED
      BY <1>6, <3>1, <3>2
  <2>2. UNCHANGED <<form, changes, exportEnabled>>
    BY <1>6 DEF ExportRefused, Synchronized, Export
  <2>3. CASE changes = 0
    BY <2>1, <2>2, <2>3, ExportUntouched DEF ExportIsSynchronized
  <2>4. CASE changes # 0
    BY <2>1, <2>2, <2>4 DEF ExportIsSynchronized
  <2> QED
    BY <2>3, <2>4
<1>7. CASE SelectSample
  BY <1>7, ExportUntouched DEF SelectSample
<1>8. CASE SampleSelected
  <2>1. /\ session'.completed = session.completed /\ session'.dirty = session.dirty
        /\ session'.state = session.state
    BY <1>0, <1>8 DEF SampleSelected, Inspected, Sessions
  <2> QED
    BY <1>8, <2>1, ExportUntouched DEF SampleSelected
<1>9. CASE ShowProgress
  <2>1. /\ session'.completed = session.completed /\ session'.dirty = session.dirty
        /\ session'.state = IF session.state = "queued" THEN "running" ELSE session.state
    BY <1>0, <1>9 DEF ShowProgress, Running, Sessions
  <2>2. session'.state \in ActiveStates <=> session.state \in ActiveStates
    BY <2>1 DEF ActiveStates
  <2> QED
    BY <1>9, <2>1, <2>2, ExportUntouched DEF ShowProgress
<1>10. CASE RecordDiagnostic
  <2>1. /\ session'.completed = session.completed /\ session'.dirty = session.dirty
        /\ session'.state = session.state
    BY <1>0, <1>10 DEF RecordDiagnostic, WithSample, Sessions
  <2> QED
    BY <1>10, <2>1, ExportUntouched DEF RecordDiagnostic
<1>11. CASE ShowResult \/ ResultRefused \/ ShowCancelled \/ ShowFailure
  <2>1. ASSUME NEW s \in Sessions, NEW state \in {"succeeded", "failed", "cancelled"},
               NEW filled, Ends(Ended(s, state), filled)
        PROVE  ExportIsSynchronized'
    <3>1. form \in Forms
      BY DEF TrainingTypes
    <3>2. form' = form /\ session'.dirty = Stale(session'.completed, form)
      BY <2>1, <3>1, EndedSession DEF Ends
    <3> QED
      BY <2>1, <3>2, ExportSet DEF Ends
  <2>2. CASE ShowResult
    <3>1. CASE CompletionIsExpected
      BY <2>1, <2>2, <3>1, RetainedSession DEF ShowResult
    <3>2. CASE ~CompletionIsExpected
      BY <2>2, <3>2, ExportUntouched DEF ShowResult, Apart
    <3> QED
      BY <3>1, <3>2
  <2>3. CASE ResultRefused \/ ShowCancelled \/ ShowFailure
    BY <1>0, <2>1, <2>3 DEF ResultRefused, ShowCancelled, ShowFailure
  <2> QED
    BY <1>11, <2>2, <2>3
<1>12. CASE Trainer
  BY <1>12, ExportUntouched
     DEF Trainer, Announce, StartTrainer, TrainEpoch, Capture, TrainerReturns,
         TrainerFails, Apart
<1> QED
  BY <1>1, <1>2, <1>3, <1>4, <1>5, <1>6, <1>7, <1>8, <1>9, <1>10, <1>11, <1>12
     DEF TrainingStep, TrainingHandlers
-----------------------------------------------------------------------------
\* The panels show what they showed, of the run they showed.
LEMMA PanelsUntouched ==
    ASSUME PanelsInv, UNCHANGED <<shell, runs, shown>>,
           session'.completed = session.completed, session'.samples = session.samples,
           session'.diagnostics = session.diagnostics,
           session'.inspected = session.inspected
    PROVE  PanelsInv'
<1>1. Inspection(session') = Inspection(session)
  BY DEF Inspection
<1> QED
  BY <1>1 DEF PanelsInv, PanelsShowOneRun

\* The samples of an expected completion are the selected epochs of its run.
LEMMA CompleteSamples ==
    ASSUME TrainingTypes, PanelsInv, shell = "single_pane", CompletionIsExpected
    PROVE  session.diagnostics =
             [i \in DOMAIN SelectedEpochs |-> [run |-> runs, epoch |-> SelectedEpochs[i]]]
<1> DEFINE d == session.diagnostics
<1>1. d \in Seq(Samples)
  BY DEF TrainingTypes, Sessions
<1>2. [i \in DOMAIN d |-> d[i].epoch] = SelectedEpochs
  BY DEF CompletionIsExpected
<1>3. /\ DOMAIN SelectedEpochs = DOMAIN d
      /\ \A i \in DOMAIN d : SelectedEpochs[i] = d[i].epoch
  <2> HIDE DEF d
  <2> QED
    BY <1>2
<1>4. \A i \in DOMAIN d : d[i] = [run |-> runs, epoch |-> d[i].epoch]
  <2> SUFFICES ASSUME NEW i \in DOMAIN d PROVE d[i] = [run |-> runs, epoch |-> d[i].epoch]
    OBVIOUS
  <2>1. d[i] \in Samples
    BY <1>1, ElementOfSeq, LenProperties
  <2>2. d[i].run = runs
    BY DEF PanelsInv
  <2> QED
    BY <2>1, <2>2 DEF Samples
<1>5. d = [i \in DOMAIN d |-> d[i]]
  <2> HIDE DEF d
  <2> QED
    BY <1>1
<1> QED
  <2> HIDE DEF d
  <2>1. d = [i \in DOMAIN SelectedEpochs |-> [run |-> runs, epoch |-> SelectedEpochs[i]]]
    BY <1>3, <1>4, <1>5
  <2> QED
    BY <2>1 DEF d

LEMMA PanelsStep == TrainingTypes /\ PanelsInv /\ TrainingStep => PanelsInv'
<1> SUFFICES ASSUME TrainingTypes, PanelsInv, TrainingStep PROVE PanelsInv'
  OBVIOUS
<1>0. session \in Sessions
  BY DEF TrainingTypes
<1>1. CASE Edit \/ SelectSample \/ Trainer
  BY <1>1, PanelsUntouched
     DEF Edit, SelectSample, Trainer, Announce, StartTrainer, TrainEpoch, Capture,
         TrainerReturns, TrainerFails, Apart
<1>2. CASE InputChanged \/ TrainRefused \/ ExportRefused \/ Export
  <2>1. PICK flag : session' = [session EXCEPT !.dirty = flag]
    BY <1>2 DEF InputChanged, Synchronized, TrainRefused, ExportRefused, Export
  <2>2. /\ session'.completed = session.completed /\ session'.samples = session.samples
        /\ session'.diagnostics = session.diagnostics
        /\ session'.inspected = session.inspected
    BY <1>0, <2>1 DEF Sessions
  <2> QED
    BY <1>2, <2>2, PanelsUntouched DEF InputChanged, Synchronized, TrainRefused, ExportRefused, Export
<1>3. CASE CancelTraining \/ ShowProgress
  <2>1. PICK state : session' = [session EXCEPT !.state = state]
    BY <1>3 DEF CancelTraining, ShowProgress, Running
  <2>2. /\ session'.completed = session.completed /\ session'.samples = session.samples
        /\ session'.diagnostics = session.diagnostics
        /\ session'.inspected = session.inspected
    BY <1>0, <2>1 DEF Sessions
  <2> QED
    BY <1>3, <2>2, PanelsUntouched DEF CancelTraining, ShowProgress
<1>4. CASE Train
  <2>1. /\ session'.completed = session.completed /\ session'.samples = session.samples
        /\ session'.diagnostics = <<>> /\ session'.inspected = 0
    BY <1>0, <1>4 DEF Train, Begun, Sessions
  <2>2. /\ shell' = shell
        /\ shell = "classic" => shown' = Nothing
        /\ shell # "classic" => shown' = Inspection(session')
    BY <1>4 DEF Train
  <2> QED
    BY <2>1, <2>2 DEF PanelsInv, PanelsShowOneRun
<1>5. CASE SampleSelected
  <2>1. shell = "single_pane" /\ shell' = shell /\ runs' = runs
    BY <1>5 DEF SampleSelected, TrainingTypes
  <2>2. /\ session'.completed = session.completed /\ session'.samples = session.samples
        /\ session'.diagnostics = session.diagnostics
    BY <1>0, <1>5 DEF SampleSelected, Inspected, Sessions
  <2>3. shown' = Inspection(session')
    BY <1>5, <2>1 DEF SampleSelected, PanelsInv, PanelsShowOneRun, Inspection
  <2> QED
    BY <2>1, <2>2, <2>3 DEF PanelsInv, PanelsShowOneRun
<1>6. CASE RecordDiagnostic
  <2>1. UNCHANGED <<shell, runs, shown>>
    BY <1>6 DEF RecordDiagnostic
  <2>2. CASE ~DiagnosticIsExpected
    BY <1>6, <2>1, <2>2, PanelsUntouched DEF RecordDiagnostic
  <2>3. CASE DiagnosticIsExpected
    <3> DEFINE sample == [run |-> runs, epoch |-> trainer.epoch]
    <3>1. /\ session'.completed = session.completed /\ session'.samples = session.samples
          /\ session'.diagnostics = Append(session.diagnostics, sample)
          /\ session'.inspected = session.inspected
      BY <1>0, <1>6, <2>3 DEF RecordDiagnostic, WithSample, TrainingInspection, Sessions
    <3>2. \A i \in DOMAIN session'.diagnostics : session'.diagnostics[i].run = runs
      <4>1. session.diagnostics \in Seq(Samples) /\ sample \in Samples /\ sample.run = runs
        BY <1>0 DEF Sessions, Samples, TrainingTypes, Trainers
      <4>2. \A i \in DOMAIN session.diagnostics : session.diagnostics[i].run = runs
        BY DEF PanelsInv
      <4> HIDE DEF sample
      <4> QED
        BY <3>1, <4>1, <4>2, AppendProperties
    <3>3. Inspection(session') = Inspection(session)
      BY <3>1 DEF Inspection
    <3> HIDE DEF sample
    <3> QED
      BY <2>1, <3>1, <3>2, <3>3 DEF PanelsInv, PanelsShowOneRun
  <2> QED
    BY <2>2, <2>3
<1>7. CASE ResultRefused \/ ShowCancelled \/ ShowFailure
  <2>1. PICK state \in {"succeeded", "failed", "cancelled"} : Ends(Ended(session, state), shown)
    BY <1>7 DEF ResultRefused, ShowCancelled, ShowFailure
  <2>2. /\ session'.completed = session.completed /\ session'.samples = session.samples
        /\ session'.diagnostics = <<>> /\ session'.inspected = 0
    BY <1>0, <2>1, EndedSession DEF Ends, TrainingTypes
  <2>3. shell = "classic" => shown' = shown /\ Inspection(session') = Inspection(session)
    BY <2>1, <2>2 DEF Ends, Redrawn, Inspection, PanelsInv
  <2>4. shell # "classic" => shown' = Inspection(session')
    BY <2>1 DEF Ends, Redrawn
  <2> QED
    BY <2>1, <2>2, <2>3, <2>4 DEF Ends, PanelsInv, PanelsShowOneRun
<1>8. CASE ShowResult
  <2>1. CASE ~CompletionIsExpected
    BY <1>8, <2>1, PanelsUntouched DEF ShowResult, Apart
  <2>2. CASE CompletionIsExpected
    <3> DEFINE s == Ended(Retained(session), "succeeded")
    <3>1. Ends(s, TrainingInspection(runs, Epochs))
      BY <1>8, <2>2 DEF ShowResult
    <3>2. /\ session'.completed = [run |-> runs, request |-> trainer.request]
          /\ session'.completed # NoRun
          /\ session'.samples = session.diagnostics
          /\ session'.diagnostics = <<>> /\ session'.inspected = 0
      BY <1>8, <2>2, <3>1, RetainedSession, EndedSession DEF Ends, ShowResult, TrainingTypes
    <3>3. session'.completed.run = runs
      BY <3>2
    <3>4. shell = "classic" => shown' = Inspection(session')
      BY <3>1, <3>2, <3>3 DEF Ends, Redrawn, Inspection
    <3>5. shell # "classic" => shown' = Inspection(session')
      BY <3>1 DEF Ends, Redrawn
    <3>6. shell = "single_pane" =>
            session'.samples = [i \in DOMAIN SelectedEpochs |->
              [run |-> session'.completed.run, epoch |-> SelectedEpochs[i]]]
      BY <2>2, <3>2, <3>3, CompleteSamples
    <3> QED
      BY <3>1, <3>2, <3>4, <3>5, <3>6 DEF Ends, PanelsInv, PanelsShowOneRun
  <2> QED
    BY <2>1, <2>2
<1> QED
  BY <1>1, <1>2, <1>3, <1>4, <1>5, <1>6, <1>7, <1>8 DEF TrainingStep, TrainingHandlers
-----------------------------------------------------------------------------
LEMMA TrainingInvInit == Init => TrainingInv
<1> SUFFICES ASSUME Init PROVE TrainingInv
  OBVIOUS
<1> USE DEF Init, TrainingInit, NewSession
<1>1. TrainingTypes
  <2>1. <<>> \in Seq(Samples) /\ NoRun \in RetainedRuns /\ "idle" \in SessionStates
        /\ NoRequest \in Forms /\ form \in Forms
    BY SessionAssumption DEF RetainedRuns, SessionStates, Forms
  <2>2. session \in Sessions
    BY <2>1 DEF Sessions
  <2>3. trainer \in Trainers
    BY <2>1 DEF Trainers, Resting
  <2> QED
    BY <2>1, <2>2, <2>3 DEF TrainingTypes, Resting
<1>2. ExportIsSynchronized
  BY Zenon DEF ExportIsSynchronized, Stale, Exportable
<1>3. PanelsInv
  BY DEF PanelsInv, PanelsShowOneRun, Inspection
<1> QED
  BY <1>1, <1>2, <1>3 DEF TrainingInv

LEMMA TrainingInvStep == TrainingInv /\ [Next]_vars => TrainingInv'
<1> SUFFICES ASSUME TrainingInv, [Next]_vars PROVE TrainingInv'
  OBVIOUS
<1>1. CASE TrainingStep
  BY <1>1, TrainingTypesStep, ExportStep, PanelsStep DEF TrainingInv
<1>2. CASE UNCHANGED <<shell, trainingVars>>
  BY <1>2
     DEF trainingVars, TrainingInv, TrainingTypes, ExportIsSynchronized, PanelsInv,
         PanelsShowOneRun, Inspection, Exportable, Stale
<1> QED
  BY <1>1, <1>2, TrainingCases

LEMMA TrainingInvAlways == Spec => []TrainingInv
  BY TrainingInvInit, TrainingInvStep, PTL DEF Spec

\* Once the form's messages are handled the export button is enabled exactly
\* when the run it would write was trained by the settings on the screen and
\* nothing trains (tui/app.py _sync_training_export_control).
THEOREM ExportStaysExact == Spec => []ExportControlIsExact
<1>1. TrainingInv => ExportControlIsExact
  BY Zenon
     DEF TrainingInv, ExportIsSynchronized, ExportControlIsExact, Exportable, Stale, Training
<1> QED
  BY <1>1, TrainingInvAlways, PTL

\* The panels show the retained run, with its own samples, at the epoch that is
\* selected (single_pane/app.py _project_training_inspection).
THEOREM PanelsStayOnOneRun == Spec => []PanelsShowOneRun
<1>1. TrainingInv => PanelsShowOneRun
  BY DEF TrainingInv, PanelsInv
<1> QED
  BY <1>1, TrainingInvAlways, PTL
-----------------------------------------------------------------------------
\* The epochs that are sampled.

\* Induction by least counterexample.
LEMMA LeastNumber ==
  ASSUME NEW T, T \subseteq Nat, T # {}
  PROVE  \E n \in T : \A m \in T : n <= m
<1> DEFINE R == {p \in Nat \X Nat : p[1] < p[2]}
<1>1. IsWellFoundedOn(R, Nat)
  BY NatLessThanWellFounded DEF OpToRel
<1>2. PICK n \in T : \A m \in T : ~(<<m, n>> \in R)
  <2> HIDE DEF R
  <2> QED BY <1>1, WFMin
<1>3. \A m \in T : ~(m < n)
  BY <1>2
<1> QED BY <1>3

\* s lists the members of S in order.
Lists(s, S) ==
  /\ s \in Seq(S)
  /\ \A e \in S : \E i \in 1..Len(s) : s[i] = e
  /\ \A i, j \in 1..Len(s) : i < j => s[i] < s[j]

\* Some sequence lists what S has up to n.
LEMMA SortedExists ==
  ASSUME NEW S, NEW n \in Nat
  PROVE  \E s : Lists(s, {e \in 1..n : e \in S})
<1> DEFINE Part(k) == {e \in 1..k : e \in S}
           T == {k \in Nat : ~\E s : Lists(s, Part(k))}
<1>1. SUFFICES ASSUME T # {} PROVE FALSE
  OBVIOUS
<1>2. PICK k \in T : \A m \in T : k <= m
  <2> HIDE DEF T
  <2>1. T \subseteq Nat
    BY DEF T
  <2> QED BY <1>1, <2>1, LeastNumber
<1>3. k # 0
  <2>1. Lists(<<>>, Part(0))
    BY DEF Lists
  <2> QED BY <2>1
<1>4. k \in Nat /\ k - 1 \in Nat /\ k - 1 \notin T
  <2>1. k \in Nat
    BY <1>2
  <2>2. k - 1 \in Nat /\ ~(k <= k - 1)
    BY <1>3, <2>1
  <2> HIDE DEF T
  <2> QED BY <1>2, <2>1, <2>2
<1>5. PICK s : Lists(s, Part(k - 1))
  BY <1>4
<1>6. PICK N \in Nat : N = Len(s) /\ s \in Seq(Part(k - 1))
  BY <1>5, LenProperties DEF Lists
<1>7. \A i \in 1..N : s[i] \in Part(k - 1)
  BY <1>6, ElementOfSeq
<1>8. CASE k \notin S
  <2>1. Part(k) = Part(k - 1)
    BY <1>4, <1>8
  <2>2. Lists(s, Part(k))
    <3> HIDE DEF Part
    <3> QED BY <1>5, <2>1
  <2> QED BY <1>2, <2>2
<1>9. CASE k \in S
  <2> DEFINE t == Append(s, k)
  <2>1. Part(k) = Part(k - 1) \union {k}
    BY <1>3, <1>4, <1>9
  <2>2. s \in Seq(Part(k)) /\ k \in Part(k)
    <3> HIDE DEF Part
    <3>1. Part(k - 1) \subseteq Part(k)
      BY <2>1
    <3> QED BY <1>6, <2>1, <3>1
  <2>3. t \in Seq(Part(k)) /\ Len(t) = N + 1 /\ t[N + 1] = k /\ \A i \in 1..N : t[i] = s[i]
    <3> HIDE DEF Part
    <3> QED BY <1>6, <2>2, AppendProperties
  <2>4. \A e \in Part(k) : \E i \in 1..(N + 1) : t[i] = e
    <3> SUFFICES ASSUME NEW e \in Part(k) PROVE \E i \in 1..(N + 1) : t[i] = e
      OBVIOUS
    <3>1. CASE e = k
      BY <2>3, <3>1, <1>6
    <3>2. CASE e \in Part(k - 1)
      <4>1. PICK i \in 1..N : s[i] = e
        <5> HIDE DEF Part
        <5> QED BY <1>5, <1>6, <3>2 DEF Lists
      <4> QED BY <2>3, <4>1, <1>6
    <3> QED BY <2>1, <3>1, <3>2
  <2>5. \A i, j \in 1..(N + 1) : i < j => t[i] < t[j]
    <3> SUFFICES ASSUME NEW i \in 1..(N + 1), NEW j \in 1..(N + 1), i < j PROVE t[i] < t[j]
      OBVIOUS
    <3>1. i \in 1..N /\ t[i] = s[i]
      BY <1>6, <2>3
    <3>2. CASE j \in 1..N
      <4>1. s[i] < s[j]
        BY <1>5, <1>6, <3>1, <3>2 DEF Lists
      <4> QED BY <2>3, <3>1, <3>2, <4>1
    <3>3. CASE j = N + 1
      <4>1. s[i] \in 1..(k - 1)
        BY <1>7, <3>1
      <4>2. s[i] < k
        BY <1>4, <4>1
      <4> QED BY <2>3, <3>1, <3>3, <4>2
    <3> QED BY <1>6, <3>2, <3>3
  <2>6. Lists(t, Part(k))
    <3> HIDE DEF t, Part
    <3> QED BY <2>3, <2>4, <2>5 DEF Lists
  <2> QED BY <1>2, <2>6
<1> QED BY <1>8, <1>9

\* The selected epochs are the sampled ones, each once and in order.
LEMMA SelectedAreSampled == Lists(SelectedEpochs, {e \in 1..Epochs : Sampled(e)})
<1> DEFINE S == {e \in 1..Epochs : Sampled(e)}
           E == {e \in 1..Epochs : e \in S}
<1>0. E = S /\ Epochs \in Nat
  BY SessionAssumption
<1>1. PICK s : Lists(s, S)
  <2>1. \E s : Lists(s, E)
    <3> HIDE DEF S
    <3> QED BY <1>0, SortedExists
  <2> HIDE DEF S, E
  <2> QED BY <1>0, <2>1
<1>2. IsFiniteSet(S) /\ S \subseteq Nat
  <2>1. S \subseteq 1..Epochs /\ S \subseteq Nat /\ 1 \in Int /\ Epochs \in Int
    BY <1>0
  <2>2. IsFiniteSet(1..Epochs)
    BY <2>1, FS_Interval
  <2> QED BY <2>1, <2>2, FS_Subset
<1> HIDE DEF S, E
<1>3. PICK N \in Nat : N = Len(s) /\ s \in [1..N -> S]
  BY <1>1, LenProperties DEF Lists
<1>4. \A i, j \in 1..N : s[i] = s[j] => i = j
  <2> SUFFICES ASSUME NEW i \in 1..N, NEW j \in 1..N, i # j PROVE s[i] # s[j]
    OBVIOUS
  <2>1. s[i] \in Nat /\ s[j] \in Nat
    BY <1>2, <1>3
  <2>2. i < j \/ j < i
    OBVIOUS
  <2>3. s[i] < s[j] \/ s[j] < s[i]
    BY <1>1, <1>3, <2>2 DEF Lists
  <2> QED BY <2>1, <2>3
<1>5. Cardinality(S) = N
  <2>1. s \in Bijection(1..N, S)
    BY <1>1, <1>3, <1>4 DEF Lists, Bijection, Injection, Surjection, IsInjective
  <2>2. ExistsBijection(1..N, S)
    BY <2>1 DEF ExistsBijection
  <2>3. IsFiniteSet(1..N) /\ Cardinality(1..N) = N
    <3>1. 1 \in Int /\ N \in Int
      OBVIOUS
    <3> QED BY <3>1, FS_Interval
  <2> QED BY <2>2, <2>3, FS_Bijection
<1> DEFINE Ordered(f) == \A i, j \in DOMAIN f : i < j => f[i] < f[j]
<1>6. Ordered(s)
  BY <1>1, <1>3 DEF Lists
<1>7. SelectedEpochs = CHOOSE f \in [1..Cardinality(S) -> S] : Ordered(f)
  BY DEF SelectedEpochs, S
<1>8. SelectedEpochs \in [1..N -> S] /\ Ordered(SelectedEpochs)
  <2> HIDE DEF Ordered
  <2> QED BY <1>3, <1>5, <1>6, <1>7
<1>9. SelectedEpochs \in Seq(S) /\ Len(SelectedEpochs) = N
  BY <1>3, <1>8
<1>10. \A e \in S : \E i \in 1..N : SelectedEpochs[i] = e
  <2>1. \A i, j \in 1..N : SelectedEpochs[i] = SelectedEpochs[j] => i = j
    <3> SUFFICES ASSUME NEW i \in 1..N, NEW j \in 1..N, i # j
                 PROVE  SelectedEpochs[i] # SelectedEpochs[j]
      OBVIOUS
    <3>1. SelectedEpochs[i] \in Nat /\ SelectedEpochs[j] \in Nat
      BY <1>2, <1>8
    <3>2. i < j \/ j < i
      OBVIOUS
    <3>3. SelectedEpochs[i] < SelectedEpochs[j] \/ SelectedEpochs[j] < SelectedEpochs[i]
      BY <1>8, <3>2
    <3> QED BY <3>1, <3>3
  <2>2. SelectedEpochs \in Injection(1..N, S)
    BY <1>8, <2>1 DEF Injection, IsInjective
  <2>3. IsFiniteSet(1..N) /\ Cardinality(1..N) = Cardinality(S)
    <3>1. 1 \in Int /\ N \in Int
      OBVIOUS
    <3> QED BY <1>5, <3>1, FS_Interval
  <2>4. SelectedEpochs \in Surjection(1..N, S)
    BY <1>2, <2>2, <2>3, FS_Injection
  <2> QED BY <2>4 DEF Surjection
<1> QED
  <2>1. \A i, j \in 1..N : i < j => SelectedEpochs[i] < SelectedEpochs[j]
    BY <1>8
  <2> QED BY <1>9, <1>10, <2>1 DEF Lists, S
-----------------------------------------------------------------------------
\* The worker has handed over a beginning of the selected epochs: those up to
\* its epoch, but for one it is about to hand over.
Recorded(d) ==
  Len(d) <= Len(SelectedEpochs) /\ \A i \in 1..Len(d) : d[i].epoch = SelectedEpochs[i]
UpTo(d, epoch) == \A i \in 1..Len(SelectedEpochs) : SelectedEpochs[i] <= epoch <=> i <= Len(d)
NextIs(d, epoch) == Len(d) < Len(SelectedEpochs) /\ SelectedEpochs[Len(d) + 1] = epoch

Awaits == trainer.at = "capture" \/ trainer.posted = "diagnostic"

SamplesInOrder ==
  /\ Recorded(session.diagnostics)
  /\ IF Awaits THEN NextIs(session.diagnostics, trainer.epoch)
     ELSE UpTo(session.diagnostics, trainer.epoch)

\* A thread works for the job that is under way.
TrainerInv ==
  /\ trainer.epoch <= Epochs
  /\ trainer.at # "rest" => Training /\ session.active # NoRequest
  /\ trainer.at \in {"epoch", "capture", "end"} => trainer.request = session.active
  /\ trainer.posted = "diagnostic" => trainer.at = "epoch"
  /\ trainer.posted = "complete" => trainer.at = "end" /\ trainer.epoch = Epochs
  /\ shell = "classic" => ~Awaits
  /\ shell = "single_pane" /\ trainer.at # "rest" => SamplesInOrder

\* The selected epochs are numbers from 1 to Epochs, in order.
LEMMA SelectedIs ==
  /\ Len(SelectedEpochs) \in Nat
  /\ \A i \in 1..Len(SelectedEpochs) : SelectedEpochs[i] \in 1..Epochs
  /\ \A i, j \in 1..Len(SelectedEpochs) : i < j => SelectedEpochs[i] < SelectedEpochs[j]
  /\ \A e \in 1..Epochs : Sampled(e) => \E i \in 1..Len(SelectedEpochs) : SelectedEpochs[i] = e
  /\ \A i \in 1..Len(SelectedEpochs) : Sampled(SelectedEpochs[i])
<1> DEFINE S == {e \in 1..Epochs : Sampled(e)}
<1>1. Lists(SelectedEpochs, S)
  BY SelectedAreSampled
<1>2. SelectedEpochs \in Seq(S)
  BY <1>1 DEF Lists
<1>3. \A i \in 1..Len(SelectedEpochs) : SelectedEpochs[i] \in S
  <2> HIDE DEF S
  <2> QED BY <1>2, ElementOfSeq
<1> QED BY <1>1, <1>2, <1>3, LenProperties DEF Lists

\* An epoch that is sampled is the next selected one; one that is not changes
\* nothing.
LEMMA NextSample ==
  ASSUME NEW d, Len(d) \in Nat, NEW e \in Nat, Recorded(d), UpTo(d, e), e < Epochs
  PROVE  IF Sampled(e + 1) THEN NextIs(d, e + 1) ELSE UpTo(d, e + 1)
<1>0. Epochs \in Nat
  BY SessionAssumption
<1>1. CASE Sampled(e + 1)
  <2>1. PICK i \in 1..Len(SelectedEpochs) : SelectedEpochs[i] = e + 1
    <3>1. e + 1 \in 1..Epochs
      BY <1>0
    <3> QED BY <1>1, <3>1, SelectedIs
  <2>2. ~(i <= Len(d))
    BY <2>1 DEF UpTo
  <2>3. Len(d) + 1 \in 1..Len(SelectedEpochs) /\ Len(d) < Len(SelectedEpochs)
    BY <2>1, <2>2, SelectedIs
  <2>4. ~(SelectedEpochs[Len(d) + 1] <= e)
    BY <2>3 DEF UpTo
  <2>5. SelectedEpochs[Len(d) + 1] \in Nat
    BY <1>0, <2>3, SelectedIs
  <2>6. i = Len(d) + 1
    <3>1. SUFFICES ASSUME Len(d) + 1 < i PROVE FALSE
      BY <2>1, <2>2, SelectedIs
    <3>2. SelectedEpochs[Len(d) + 1] < SelectedEpochs[i]
      BY <2>1, <2>3, <3>1, SelectedIs
    <3> QED BY <2>1, <2>4, <2>5, <3>2
  <2> QED BY <1>1, <2>1, <2>3, <2>6 DEF NextIs
<1>2. CASE ~Sampled(e + 1)
  <2> SUFFICES ASSUME NEW i \in 1..Len(SelectedEpochs)
               PROVE  SelectedEpochs[i] <= e + 1 <=> i <= Len(d)
    BY <1>2 DEF UpTo
  <2>1. SelectedEpochs[i] # e + 1 /\ SelectedEpochs[i] \in Nat
    BY <1>0, <1>2, SelectedIs
  <2>2. SelectedEpochs[i] <= e <=> i <= Len(d)
    BY DEF UpTo
  <2> QED BY <2>1, <2>2
<1> QED BY <1>1, <1>2

\* The sample that was awaited is recorded.
LEMMA SampleTaken ==
  ASSUME NEW d \in Seq(Samples), NEW sample \in Samples, Recorded(d), NextIs(d, sample.epoch)
  PROVE  Recorded(Append(d, sample)) /\ UpTo(Append(d, sample), sample.epoch)
<1> DEFINE more == Append(d, sample)
<1>1. PICK N \in Nat : N = Len(d)
  BY LenProperties
<1>2. Len(more) = N + 1 /\ more[N + 1] = sample /\ \A i \in 1..N : more[i] = d[i]
  BY <1>1, AppendProperties
<1> HIDE DEF more
<1>3. N < Len(SelectedEpochs) /\ SelectedEpochs[N + 1] = sample.epoch
  BY <1>1 DEF NextIs
<1>4. Recorded(more)
  <2> SUFFICES ASSUME NEW i \in 1..(N + 1) PROVE more[i].epoch = SelectedEpochs[i]
    BY <1>1, <1>2, <1>3, SelectedIs DEF Recorded
  <2>1. CASE i = N + 1
    BY <1>2, <1>3, <2>1
  <2>2. CASE i \in 1..N
    BY <1>1, <1>2, <2>2 DEF Recorded
  <2> QED BY <1>1, <2>1, <2>2
<1>5. UpTo(more, sample.epoch)
  <2> SUFFICES ASSUME NEW i \in 1..Len(SelectedEpochs)
               PROVE  SelectedEpochs[i] <= SelectedEpochs[N + 1] <=> i <= N + 1
    BY <1>2, <1>3 DEF UpTo
  <2>1. N + 1 \in 1..Len(SelectedEpochs)
    BY <1>1, <1>3, SelectedIs
  <2>2. SelectedEpochs[i] \in 1..Epochs /\ SelectedEpochs[N + 1] \in 1..Epochs /\ Epochs \in Nat
    BY <2>1, SelectedIs, SessionAssumption
  <2>3. i < N + 1 => SelectedEpochs[i] < SelectedEpochs[N + 1]
    BY <2>1, SelectedIs
  <2>4. N + 1 < i => SelectedEpochs[N + 1] < SelectedEpochs[i]
    BY <2>1, SelectedIs
  <2> QED BY <1>1, <2>2, <2>3, <2>4
<1> QED BY <1>4, <1>5 DEF more

\* At the last epoch every selected one is recorded.
LEMMA AllTaken ==
  ASSUME NEW d \in Seq(Samples), Recorded(d), UpTo(d, Epochs)
  PROVE  [i \in DOMAIN d |-> d[i].epoch] = SelectedEpochs
<1>1. Len(d) \in Nat /\ DOMAIN d = 1..Len(d)
  BY LenProperties
<1>2. Len(d) = Len(SelectedEpochs)
  <2>1. Len(SelectedEpochs) # 0 => Len(SelectedEpochs) <= Len(d)
    <3> SUFFICES ASSUME Len(SelectedEpochs) # 0 PROVE Len(SelectedEpochs) <= Len(d)
      OBVIOUS
    <3>1. Len(SelectedEpochs) \in 1..Len(SelectedEpochs)
      BY SelectedIs
    <3>2. SelectedEpochs[Len(SelectedEpochs)] \in 1..Epochs /\ Epochs \in Nat
      BY <3>1, SelectedIs, SessionAssumption
    <3>3. SelectedEpochs[Len(SelectedEpochs)] <= Epochs
      BY <3>2
    <3> QED BY <3>1, <3>3 DEF UpTo
  <2> QED BY <1>1, <2>1, SelectedIs DEF Recorded
<1>3. SelectedEpochs = [i \in 1..Len(SelectedEpochs) |-> SelectedEpochs[i]]
  <2> DEFINE S == {e \in 1..Epochs : Sampled(e)}
  <2>1. SelectedEpochs \in Seq(S)
    BY SelectedAreSampled DEF Lists
  <2> HIDE DEF S
  <2> QED BY <2>1
<1> QED BY <1>1, <1>2, <1>3 DEF Recorded
-----------------------------------------------------------------------------
\* A step that leaves the thread, the job and its samples alone.
LEMMA TrainerUntouched ==
    ASSUME TrainerInv, trainer' = trainer, shell' = shell,
           session'.active = session.active, session'.diagnostics = session.diagnostics,
           session.state \in ActiveStates => session'.state \in ActiveStates
    PROVE  TrainerInv'
<1>1. Awaits' = Awaits
  BY DEF Awaits
<1>2. SamplesInOrder' = SamplesInOrder
  BY <1>1 DEF SamplesInOrder
<1> QED
  BY <1>1, <1>2 DEF TrainerInv, Training

\* A thread that ends leaves nothing to say.
LEMMA TrainerRests == trainer' = Resting => TrainerInv'
<1> SUFFICES ASSUME trainer' = Resting PROVE TrainerInv'
  OBVIOUS
<1>1. trainer'.at = "rest" /\ trainer'.posted = "none" /\ trainer'.epoch = 0
  BY DEF Resting
<1>2. 0 <= Epochs
  BY SessionAssumption
<1> QED
  BY <1>1, <1>2 DEF TrainerInv, Awaits

\* The thread works between two hand-overs.
LEMMA TrainerKeepsInv ==
    ASSUME TrainingTypes, TrainerInv, Trainer
    PROVE  TrainerInv'
<1>1. Apart /\ trainer.posted = "none" /\ trainer.at # "rest"
  BY DEF Trainer, Announce, StartTrainer, TrainEpoch, Capture, TrainerReturns, TrainerFails,
         Works
<1>2. trainer \in Trainers /\ shell \in Shells /\ session \in Sessions
  BY DEF TrainingTypes
<1>3. shell' = shell /\ session' = session /\ Training' = Training
  BY <1>1 DEF Apart, Training
<1>4. Training /\ session.active # NoRequest
  BY <1>1 DEF TrainerInv
<1> DEFINE d == session.diagnostics
<1>5. shell = "single_pane" =>
        Recorded(d) /\ (IF Awaits THEN NextIs(d, trainer.epoch) ELSE UpTo(d, trainer.epoch))
  BY <1>1 DEF TrainerInv, SamplesInOrder
<1>6. ASSUME trainer'.epoch = trainer.epoch, Awaits' = Awaits,
             trainer'.posted \notin {"diagnostic", "complete"},
             trainer'.at \in {"epoch", "capture", "end"} => trainer'.request = session.active
      PROVE  TrainerInv'
  <2>1. SamplesInOrder' = SamplesInOrder
    BY <1>3, <1>6 DEF SamplesInOrder
  <2> QED BY <1>1, <1>3, <1>4, <1>6, <2>1 DEF TrainerInv
<1>7. CASE Announce
  <2>1. trainer' = [trainer EXCEPT !.posted = "running", !.at = "run"] /\ trainer.at = "start"
    BY <1>7 DEF Announce, Posts, Works
  <2>2. trainer'.epoch = trainer.epoch /\ trainer'.posted = "running" /\ trainer'.at = "run"
    BY <1>2, <2>1 DEF Trainers
  <2> QED BY <1>1, <1>6, <2>1, <2>2 DEF Awaits
<1>8. CASE StartTrainer
  <2>1. trainer' = [trainer EXCEPT !.at = "epoch", !.request = session.active]
        /\ trainer.at \in {"start", "run"}
    BY <1>8 DEF StartTrainer, Works
  <2>2. /\ trainer'.epoch = trainer.epoch /\ trainer'.posted = trainer.posted
        /\ trainer'.at = "epoch" /\ trainer'.request = session.active
    BY <1>2, <2>1 DEF Trainers
  <2> QED BY <1>1, <1>6, <2>1, <2>2 DEF Awaits
<1>9. CASE (TrainEpoch /\ runs \in cancelled) \/ TrainerFails
  <2>1. PICK posted \in {"cancelled", "failed"} :
          trainer' = [trainer EXCEPT !.posted = posted, !.at = "end"] /\ trainer.at = "epoch"
    BY <1>9 DEF TrainEpoch, TrainerFails, Works, Posts
  <2>2. /\ trainer'.epoch = trainer.epoch /\ trainer'.posted = posted
        /\ trainer'.at = "end" /\ trainer'.request = trainer.request
    BY <1>2, <2>1 DEF Trainers
  <2> QED BY <1>1, <1>6, <2>1, <2>2 DEF Awaits, TrainerInv
<1>10. CASE TrainerReturns
  <2>1. /\ trainer' = [trainer EXCEPT !.posted = "complete", !.at = "end"]
        /\ trainer.at = "epoch" /\ trainer.epoch = Epochs
    BY <1>10 DEF TrainerReturns, Works, Posts
  <2>2. /\ trainer'.epoch = trainer.epoch /\ trainer'.posted = "complete"
        /\ trainer'.at = "end" /\ trainer'.request = trainer.request
    BY <1>2, <2>1 DEF Trainers
  <2>3. ~Awaits /\ ~Awaits'
    BY <1>1, <2>1, <2>2 DEF Awaits
  <2>4. SamplesInOrder' = SamplesInOrder
    BY <1>3, <2>2, <2>3 DEF SamplesInOrder
  <2> QED BY <1>3, <1>4, <2>1, <2>2, <2>3, <2>4 DEF TrainerInv
<1>11. CASE Capture
  <2>1. /\ trainer' = [trainer EXCEPT !.posted = "diagnostic", !.at = "epoch"]
        /\ trainer.at = "capture"
    BY <1>11 DEF Capture, Works, Posts
  <2>2. /\ trainer'.epoch = trainer.epoch /\ trainer'.posted = "diagnostic"
        /\ trainer'.at = "epoch" /\ trainer'.request = trainer.request
    BY <1>2, <2>1 DEF Trainers
  <2>3. Awaits /\ Awaits'
    BY <2>1, <2>2 DEF Awaits
  <2>4. SamplesInOrder' = SamplesInOrder
    BY <1>3, <2>2, <2>3 DEF SamplesInOrder
  <2> QED BY <1>3, <1>4, <2>1, <2>2, <2>3, <2>4 DEF TrainerInv
<1>12. CASE TrainEpoch /\ runs \notin cancelled
  <2> DEFINE epoch == trainer.epoch + 1
  <2>1. trainer.at = "epoch" /\ trainer.epoch \in Nat /\ trainer.epoch < Epochs
    BY <1>2, <1>12 DEF TrainEpoch, Works, Trainers
  <2>2. PICK posted \in {"progress", "none"}, at \in {"capture", "epoch"} :
          /\ trainer' = [trainer EXCEPT !.epoch = epoch, !.posted = posted, !.at = at]
          /\ at = IF shell = "single_pane" /\ Sampled(epoch) THEN "capture" ELSE "epoch"
    BY <1>12, Zenon DEF TrainEpoch
  <2>3. /\ trainer'.epoch = epoch /\ trainer'.posted = posted
        /\ trainer'.at = at /\ trainer'.request = trainer.request
    BY <1>2, <2>2 DEF Trainers
  <2>4. epoch <= Epochs
    BY <2>1, SessionAssumption
  <2>5. ~Awaits /\ (Awaits' <=> at = "capture")
    BY <1>1, <2>1, <2>2, <2>3 DEF Awaits
  <2>6. shell = "single_pane" => SamplesInOrder'
    <3> SUFFICES ASSUME shell = "single_pane" PROVE SamplesInOrder'
      OBVIOUS
    <3>1. Recorded(d) /\ UpTo(d, trainer.epoch)
      BY <1>5, <2>5
    <3>2. Len(d) \in Nat
      BY <1>2, LenProperties DEF Sessions
    <3>3. IF Sampled(epoch) THEN NextIs(d, epoch) ELSE UpTo(d, epoch)
      <4> HIDE DEF d
      <4> QED BY <2>1, <3>1, <3>2, NextSample
    <3>4. Sampled(epoch) <=> at = "capture"
      BY <2>2
    <3> HIDE DEF epoch
    <3> QED BY <1>3, <2>3, <2>5, <3>1, <3>3, <3>4 DEF SamplesInOrder
  <2>7. shell = "classic" => ~Awaits'
    BY <2>2, <2>5
  <2> QED BY <1>3, <1>4, <2>1, <2>2, <2>3, <2>4, <2>6, <2>7 DEF TrainerInv
<1> QED BY <1>7, <1>8, <1>9, <1>10, <1>11, <1>12 DEF Trainer

\* What the thread hands over is expected.
LEMMA TrainerHandsOver == TrainingTypes /\ TrainerInv => HandoverIsExpected
<1> SUFFICES ASSUME TrainingTypes, TrainerInv PROVE HandoverIsExpected
  OBVIOUS
<1>1. session.diagnostics \in Seq(Samples) /\ shell \in Shells
  BY DEF TrainingTypes, Sessions
<1>2. trainer.posted = "diagnostic" => DiagnosticIsExpected
  <2> SUFFICES ASSUME trainer.posted = "diagnostic" PROVE DiagnosticIsExpected
    OBVIOUS
  <2>1. Awaits /\ trainer.at = "epoch" /\ shell = "single_pane"
    BY <1>1 DEF TrainerInv, Awaits, Shells
  <2>2. NextIs(session.diagnostics, trainer.epoch)
    BY <2>1 DEF TrainerInv, SamplesInOrder
  <2> QED BY <2>1, <2>2 DEF DiagnosticIsExpected, NextIs, TrainerInv
<1>3. trainer.posted = "complete" => CompletionIsExpected
  <2> SUFFICES ASSUME trainer.posted = "complete" PROVE CompletionIsExpected
    OBVIOUS
  <2>1. trainer.at = "end" /\ trainer.epoch = Epochs /\ ~Awaits
    BY DEF TrainerInv, Awaits
  <2>2. session.active # NoRequest /\ trainer.request = session.active
    BY <2>1 DEF TrainerInv
  <2>3. shell = "single_pane" =>
          Recorded(session.diagnostics) /\ UpTo(session.diagnostics, Epochs)
    BY <2>1 DEF TrainerInv, SamplesInOrder
  <2> QED BY <1>1, <2>2, <2>3, AllTaken DEF CompletionIsExpected
<1> QED BY <1>2, <1>3 DEF HandoverIsExpected

LEMMA TrainerInvStep ==
    TrainingTypes /\ TrainerInv /\ TrainingStep => TrainerInv'
<1> SUFFICES ASSUME TrainingTypes, TrainerInv, TrainingStep PROVE TrainerInv'
  OBVIOUS
<1>0. session \in Sessions /\ trainer \in Trainers
  BY DEF TrainingTypes
<1>1. CASE Edit \/ SelectSample
  BY <1>1, TrainerUntouched DEF Edit, SelectSample
<1>2. CASE InputChanged \/ TrainRefused \/ ExportRefused \/ Export
  <2>1. PICK flag : session' = [session EXCEPT !.dirty = flag]
    BY <1>2 DEF InputChanged, Synchronized, TrainRefused, ExportRefused, Export
  <2>2. /\ session'.active = session.active /\ session'.state = session.state
        /\ session'.diagnostics = session.diagnostics
    BY <1>0, <2>1 DEF Sessions
  <2> QED
    BY <1>2, <2>2, TrainerUntouched DEF InputChanged, Synchronized, TrainRefused, ExportRefused, Export
<1>3. CASE CancelTraining
  <2>1. /\ session'.active = session.active /\ session'.state = "cancelling"
        /\ session'.diagnostics = session.diagnostics
    BY <1>0, <1>3 DEF CancelTraining, Sessions
  <2> QED
    BY <1>3, <2>1, TrainerUntouched DEF CancelTraining, ActiveStates
<1>4. CASE SampleSelected
  <2>1. /\ session'.active = session.active /\ session'.state = session.state
        /\ session'.diagnostics = session.diagnostics
    BY <1>0, <1>4 DEF SampleSelected, Inspected, Sessions
  <2> QED
    BY <1>4, <2>1, TrainerUntouched DEF SampleSelected
<1>5. CASE Train
  <2>1. /\ session'.active = form /\ session'.state = "queued" /\ session'.diagnostics = <<>>
        /\ form # NoRequest
    BY <1>0, <1>5 DEF Train, Begun, Sessions
  <2>2. trainer'.at = "start" /\ trainer'.posted = "none" /\ trainer'.epoch = 0
    BY <1>5 DEF Train, Resting
  <2>3. ~Awaits'
    BY <2>2 DEF Awaits
  <2>4. Recorded(<<>>) /\ UpTo(<<>>, 0)
    <3>1. \A i \in 1..Len(SelectedEpochs) : ~(SelectedEpochs[i] <= 0)
      BY SelectedIs
    <3> QED BY <3>1, SelectedIs DEF Recorded, UpTo
  <2>5. SamplesInOrder'
    BY <2>1, <2>2, <2>3, <2>4 DEF SamplesInOrder
  <2>6. 0 <= Epochs
    BY SessionAssumption
  <2> QED
    BY <2>1, <2>2, <2>3, <2>5, <2>6 DEF TrainerInv, Training, ActiveStates
<1>6. CASE ShowProgress
  <2>1. /\ session'.active = session.active /\ session'.diagnostics = session.diagnostics
        /\ session'.state = IF session.state = "queued" THEN "running" ELSE session.state
    BY <1>0, <1>6 DEF ShowProgress, Running, Sessions
  <2>2. /\ trainer'.at = trainer.at /\ trainer'.posted = "none" /\ trainer'.epoch = trainer.epoch
        /\ trainer'.request = trainer.request /\ shell' = shell
    BY <1>0, <1>6 DEF ShowProgress, Trainers
  <2>3. Awaits' = Awaits
    BY <1>6, <2>2 DEF Awaits, ShowProgress
  <2>4. SamplesInOrder' = SamplesInOrder
    BY <2>1, <2>2, <2>3 DEF SamplesInOrder
  <2>5. Training => Training'
    BY <2>1 DEF Training, ActiveStates
  <2> QED
    BY <2>1, <2>2, <2>3, <2>4, <2>5 DEF TrainerInv
<1>7. CASE RecordDiagnostic
  <2> DEFINE sample == [run |-> runs, epoch |-> trainer.epoch]
             d == session.diagnostics
  <2>1. trainer.posted = "diagnostic" /\ DiagnosticIsExpected /\ shell' = shell
    BY <1>7, TrainerHandsOver DEF RecordDiagnostic, HandoverIsExpected
  <2>2. trainer.at = "epoch" /\ Awaits /\ shell = "single_pane"
    BY <2>1 DEF TrainerInv, Awaits, TrainingTypes, Shells
  <2>3. /\ session'.active = session.active /\ session'.state = session.state
        /\ session'.diagnostics = Append(d, sample)
    BY <1>0, <1>7, <2>1 DEF RecordDiagnostic, WithSample, TrainingInspection, Sessions
  <2>4. /\ trainer'.at = "epoch" /\ trainer'.posted = "none" /\ trainer'.epoch = trainer.epoch
        /\ trainer'.request = trainer.request
    BY <1>0, <1>7, <2>1, <2>2 DEF RecordDiagnostic, Trainers
  <2>5. d \in Seq(Samples) /\ sample \in Samples /\ sample.epoch = trainer.epoch
    BY <1>0 DEF Sessions, Samples, TrainingTypes, Trainers
  <2>6. Recorded(d) /\ NextIs(d, trainer.epoch)
    BY <2>2 DEF TrainerInv, SamplesInOrder
  <2> HIDE DEF d, sample
  <2>7. Recorded(Append(d, sample)) /\ UpTo(Append(d, sample), trainer.epoch)
    BY <2>5, <2>6, SampleTaken
  <2>8. ~Awaits'
    BY <2>4 DEF Awaits
  <2>9. SamplesInOrder'
    BY <2>3, <2>4, <2>7, <2>8 DEF SamplesInOrder
  <2>10. Training' /\ session.active # NoRequest /\ trainer.request = session.active
    BY <2>2, <2>3 DEF TrainerInv, Training
  <2> QED
    BY <2>1, <2>3, <2>4, <2>8, <2>9, <2>10 DEF TrainerInv
<1>8. CASE ShowResult \/ ResultRefused \/ ShowCancelled \/ ShowFailure
  <2>1. ShowResult => CompletionIsExpected
    BY TrainerHandsOver DEF ShowResult, HandoverIsExpected
  <2>2. trainer' = Resting
    BY <1>8, <2>1 DEF ShowResult, ResultRefused, ShowCancelled, ShowFailure, Ends
  <2> QED BY <2>2, TrainerRests
<1>9. CASE Trainer
  BY <1>9, TrainerKeepsInv
<1> QED
  BY <1>1, <1>2, <1>3, <1>4, <1>5, <1>6, <1>7, <1>8, <1>9
     DEF TrainingStep, TrainingHandlers

LEMMA TrainerInvAlways == Spec => [](TrainingTypes /\ TrainerInv)
<1>1. Init => TrainerInv
  <2>1. Init => trainer = Resting
    BY DEF Init, TrainingInit
  <2>2. Resting.at = "rest" /\ Resting.posted = "none" /\ Resting.epoch = 0 /\ 0 <= Epochs
    BY SessionAssumption DEF Resting
  <2> QED BY <2>1, <2>2 DEF TrainerInv, Awaits
<1>2. TrainingTypes /\ TrainerInv /\ [Next]_vars => TrainerInv'
  <2> SUFFICES ASSUME TrainingTypes, TrainerInv, [Next]_vars PROVE TrainerInv'
    OBVIOUS
  <2>1. CASE TrainingStep
    BY <2>1, TrainerInvStep
  <2>2. CASE UNCHANGED <<shell, trainingVars>>
    BY <2>2, TrainerUntouched DEF trainingVars
  <2> QED BY <2>1, <2>2, TrainingCases
<1>3. TrainingInv => TrainingTypes
  BY DEF TrainingInv
<1> QED
  BY <1>1, <1>2, <1>3, TrainingInvAlways, PTL DEF Spec

\* What a worker hands over is what the session expects, for any number of
\* epochs and any budget of samples, also while the job is being cancelled
\* (controllers.py, record_diagnostic_sample and complete).
THEOREM HandoverStaysExpected == Spec => []HandoverIsExpected
  BY TrainerInvAlways, TrainerHandsOver, PTL
-----------------------------------------------------------------------------
\* The artifact session.

LabelLists == {Labels(a) : a \in verified}

\* The last inputs queued are the open artifact's.
InputsFollowArtifact ==
  opened # NotOpened =>
    IF populates = <<>>
    THEN inputs = Labels(opened.artifact) \/ (shell = "classic" /\ inputs = <<>>)
    ELSE populates[Len(populates)] = Labels(opened.artifact)

\* An edit of the path is in the queue until the run button is disabled.
ButtonFollowsPath ==
  shell = "classic" /\ runEnabled =>
    opened # NotOpened /\ inputs # <<>> /\ (openPath = opened.path \/ pathChanges > 0)

PredictionIsEarned ==
  prediction # NoPrediction =>
    /\ prediction.by \in verified
    /\ shell = "classic" =>
         /\ prediction.labels = Labels(prediction.by)
         /\ opened # NotOpened => opened.artifact = prediction.by

ArtifactInv ==
  /\ pathChanges \in Nat /\ populates \in Seq(LabelLists)
  /\ shell = "classic" => populates = <<>>
  /\ opened # NotOpened => opened.artifact \in verified
  /\ InputsFollowArtifact /\ ButtonFollowsPath /\ PredictionIsEarned

ArtifactStep ==
  \/ Replace \/ EditPath \/ Load \/ LoadFails \/ PathChanged \/ Populate \/ RunRecord
  \/ \E p \in Paths \union {openPath},
        a \in {TrainedArtifact(session.completed), SearchArtifact(search.result)} :
       Written(p, a) /\ UNCHANGED shell

LEMMA ArtifactCases ==
    [Next]_vars => ArtifactStep \/ UNCHANGED <<shell, artifactVars>>
<1> SUFFICES ASSUME [Next]_vars PROVE ArtifactStep \/ UNCHANGED <<shell, artifactVars>>
  OBVIOUS
<1>1. CASE ExportRun
  BY <1>1 DEF ExportRun, Export, RunPaths, ArtifactStep
<1>2. CASE ExportSearch
  BY <1>2 DEF ExportSearch, OnlyArtifact, ArtifactStep
<1>3. CASE Act /\ PanelAct
  BY <1>3 DEF Act, PanelAct, ArtifactAct, ArtifactStep
<1>4. CASE (LoadFails \/ ArtifactMessages) /\ OnlyArtifact
  BY <1>4 DEF ArtifactMessages, ArtifactStep
<1>5. CASE TrainingAct \/ TrainingThreads \/ FormMessages
           \/ ((TrainRefused \/ ExportRefused \/ CancelKey) /\ OnlyTraining)
  <2>1. UNCHANGED artifactVars
    BY <1>5 DEF TrainingAct, TrainingThreads, FormMessages, OnlyTraining
  <2>2. UNCHANGED shell
    BY <1>5
       DEF TrainingAct, TrainingThreads, FormMessages, Edit, Train, SelectSample,
           TrainingHandlers, Trainer, ShowProgress, RecordDiagnostic, ShowResult,
           ResultRefused, ShowCancelled, ShowFailure, Ends, Apart, Announce, StartTrainer,
           TrainEpoch, Capture, TrainerReturns, TrainerFails, InputChanged,
           SampleSelected, TrainRefused, ExportRefused, CancelKey, CancelTraining
  <2> QED
    BY <2>1, <2>2
<1>6. CASE (Act /\ SearchAct) \/ KindMessages \/ (\E g \in Generations : SearchThread(g))
           \/ ((SearchRefused \/ CancelSearch) /\ OnlySearch) \/ UNCHANGED vars
  BY <1>6 DEF SearchAct, KindMessages, SearchThread, OnlySearch, vars
<1> QED
  BY <1>1, <1>2, <1>3, <1>4, <1>5, <1>6 DEF Next, Act, TrainingAct

LEMMA ArtifactInvStep == ArtifactInv /\ [Next]_vars => ArtifactInv'
<1> SUFFICES ASSUME ArtifactInv, [Next]_vars PROVE ArtifactInv'
  OBVIOUS
<1> USE DEF ArtifactInv, InputsFollowArtifact, ButtonFollowsPath, PredictionIsEarned
<1>1. CASE UNCHANGED <<shell, artifactVars>>
  BY <1>1 DEF artifactVars, LabelLists
<1>2. CASE Replace
  BY <1>2 DEF Replace, LabelLists
<1>20. CASE EditPath
  <2>1. /\ pathChanges' = IF shell = "classic" THEN pathChanges + 1 ELSE pathChanges
        /\ UNCHANGED <<shell, opened, inputs, populates, runEnabled, prediction, verified>>
    BY <1>20 DEF EditPath
  <2> QED
    BY <2>1 DEF LabelLists
<1>3. CASE \E p \in Paths \union {openPath}, a \in {TrainedArtifact(session.completed),
                                                   SearchArtifact(search.result)} :
             Written(p, a) /\ UNCHANGED shell
  <2>1. PICK p \in Paths \union {openPath}, a \in {TrainedArtifact(session.completed),
                                                  SearchArtifact(search.result)} :
          Written(p, a) /\ UNCHANGED shell
    BY <1>3
  <2>2. UNCHANGED <<shell, opened, inputs, populates, runEnabled, prediction, verified>>
    BY <2>1 DEF Written, ShowsPath
  <2>3. CASE shell = "classic"
    <3>1. openPath' = p /\ pathChanges' = IF openPath = p THEN pathChanges ELSE pathChanges + 1
      BY <2>1, <2>3 DEF Written, ShowsPath
    <3> QED
      BY <2>2, <2>3, <3>1 DEF LabelLists
  <2>4. CASE shell # "classic"
    BY <2>1, <2>2, <2>4 DEF Written, ShowsPath, LabelLists
  <2> QED
    BY <2>3, <2>4
<1>4. CASE PathChanged
  <2>1. /\ pathChanges > 0 /\ pathChanges' = pathChanges - 1
        /\ runEnabled' = (runEnabled /\ opened = NotOpened)
        /\ UNCHANGED <<shell, openPath, opened, inputs, populates, prediction, verified>>
    BY <1>4 DEF PathChanged
  <2>2. shell = "classic" => ~runEnabled'
    BY <2>1
  <2> QED
    BY <2>1, <2>2 DEF LabelLists
<1>5. CASE Load
  <2> DEFINE artifact == files[openPath]
  <2>1. /\ opened' = [path |-> openPath, artifact |-> artifact]
        /\ verified' = verified \union {artifact} /\ UNCHANGED <<shell, openPath, pathChanges>>
    BY <1>5 DEF Load
  <2>2. LabelLists \subseteq LabelLists' /\ Labels(artifact) \in LabelLists'
    BY <2>1 DEF LabelLists
  <2>3. CASE shell = "classic"
    <3>1. /\ inputs' = Labels(artifact) /\ runEnabled' = (Labels(artifact) # <<>>)
          /\ prediction' = NoPrediction /\ UNCHANGED populates
      BY <1>5, <2>3 DEF Load
    <3>2. populates' = <<>> /\ populates' \in Seq(LabelLists')
      BY <2>3, <3>1
    <3>3. opened'.artifact = artifact /\ opened'.path = openPath
          /\ opened' # NotOpened
      BY <1>5, <2>1 DEF Load, Loadable, NotOpened
    <3> QED
      BY <2>1, <2>3, <3>1, <3>2, <3>3
  <2>4. CASE shell # "classic"
    <3>1. populates' = Append(populates, Labels(artifact))
          /\ UNCHANGED <<inputs, runEnabled, prediction>>
      BY <1>5, <2>4 DEF Load
    <3>2. populates \in Seq(LabelLists')
      BY <2>2
    <3>3. populates' \in Seq(LabelLists') /\ populates' # <<>>
          /\ populates'[Len(populates')] = Labels(artifact)
      BY <2>2, <3>1, <3>2
    <3> QED
      BY <2>1, <2>4, <3>1, <3>3
  <2> QED
    BY <2>3, <2>4
<1>6. CASE LoadFails
  BY <1>6 DEF LoadFails, LabelLists, NoPrediction
<1>7. CASE Populate
  <2>1. /\ populates # <<>> /\ populates' = Tail(populates) /\ inputs' = Head(populates)
        /\ shell # "classic" /\ LabelLists' = LabelLists
        /\ UNCHANGED <<shell, openPath, pathChanges, opened, runEnabled, prediction, verified>>
    BY <1>7 DEF Populate, LabelLists
  <2>2. /\ populates' \in Seq(LabelLists) /\ Len(populates') = Len(populates) - 1
        /\ \A i \in 1..Len(populates') : populates'[i] = populates[i + 1]
        /\ inputs' = populates[1]
    BY <2>1, HeadTailProperties
  <2>3. CASE populates' = <<>>
    <3>1. Len(populates) = 1
      BY <2>2, <2>3
    <3> QED
      BY <2>1, <2>2, <2>3, <3>1
  <2>4. CASE populates' # <<>>
    <3>1. populates'[Len(populates')] = populates[Len(populates)]
      BY <2>2, <2>4
    <3> QED
      BY <2>1, <2>2, <2>4, <3>1
  <2> QED
    BY <2>3, <2>4
<1>8. CASE RunRecord
  <2>1. UNCHANGED <<shell, openPath, pathChanges, opened, inputs, populates, runEnabled,
                    verified>> /\ LabelLists' = LabelLists
    BY <1>8 DEF RunRecord, Predicted, LabelLists
  <2>2. CASE prediction' = NoPrediction
    BY <2>1, <2>2
  <2>3. CASE prediction' # NoPrediction
    <3>1. ~RunRefused /\ DOMAIN Labels(opened.artifact) \subseteq DOMAIN inputs
      BY <1>8, <2>3 DEF RunRecord, Predicted, RunRefused
    <3>2. /\ prediction'.by = opened.artifact
          /\ prediction'.labels = [i \in DOMAIN Labels(opened.artifact) |-> inputs[i]]
      BY <1>8, <2>3, <3>1 DEF RunRecord, Predicted, PinnedBytes
    <3>3. opened # NotOpened /\ DOMAIN Labels(opened.artifact) # {}
      BY <3>1 DEF RunRefused
    <3>4. ASSUME shell = "classic" PROVE prediction'.labels = Labels(opened.artifact)
      <4>1. inputs # <<>>
        BY <3>1, <3>3
      <4>2. inputs = Labels(opened.artifact)
        BY <3>3, <3>4, <4>1
      <4> QED
        BY <3>2, <4>2 DEF Labels
    <3> QED
      BY <2>1, <3>2, <3>3, <3>4
  <2> QED
    BY <2>2, <2>3
<1> QED
  BY <1>1, <1>2, <1>3, <1>4, <1>5, <1>6, <1>7, <1>8, <1>20, ArtifactCases
     DEF ArtifactStep

\* A prediction is by bytes that were verified, and in the classic shell of the
\* artifact that is open and of a record typed for it (controllers.py
\* run_record, run_session_artifact_records).
THEOREM PredictionsStayVerified == Spec => []PredictionsAreVerified
<1>1. Init => ArtifactInv
  BY DEF Init, ArtifactInit, ArtifactInv, InputsFollowArtifact, ButtonFollowsPath,
         PredictionIsEarned, NotOpened, NoPrediction
<1>2. ArtifactInv => PredictionsAreVerified
  BY DEF ArtifactInv, InputsFollowArtifact, ButtonFollowsPath, PredictionIsEarned,
         PredictionsAreVerified
<1> QED
  BY <1>1, <1>2, ArtifactInvStep, PTL DEF Spec
================================================================================
