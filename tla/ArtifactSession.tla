---------------------------- MODULE ArtifactSession ----------------------------
(***************************************************************************)
(* Portable artifacts in the terminal workbench: ArtifactSessionController, *)
(* the artifact panels of the two shells, the files they read and write,   *)
(* and the record that is typed, materialized and run.                     *)
(*                                                                         *)
(* The bytes of a file are pinned when it is loaded; another program may   *)
(* replace it later.  The classic shell learns from queued messages that   *)
(* its path was edited, and builds the record's inputs while it loads; the *)
(* single pane queues the building of the inputs (call_later).             *)
(*                                                                         *)
(* A record run before as many inputs exist as the artifact has fields     *)
(* raises NoMatches, which no handler catches: there the shell ends, and   *)
(* there is no step.                                                       *)
(***************************************************************************)
EXTENDS TrainingSession

CONSTANTS
  Paths,     \* the files
  NoPath,    \* an empty path field
  Foreign,   \* the artifacts other programs write
  Texts      \* what is typed into an input

ASSUME ArtifactAssumption == NoPath \notin Paths

VARIABLES
  files,        \* the artifact in each file, or NoFile
  openPath,     \* the path field of the artifact panel
  pathChanges,  \* its Input.Changed messages in the queue
  opened,       \* what the controller has loaded: a path and an artifact
  inputs,       \* the fields the record's inputs are labelled with
  populates,    \* the inputs queued to be built
  runEnabled,   \* the classic shell's run button
  prediction,   \* the prediction on the screen
  verified      \* history: the artifacts whose conformance was verified

artifactVars == <<files, openPath, pathChanges, opened, inputs, populates, runEnabled,
                  prediction, verified>>

NoFile       == [origin |-> "none"]
NotOpened    == [path |-> NoPath, artifact |-> NoFile]
NoPrediction == [by |-> NoFile]

ArtifactInit ==
  /\ files = [p \in Paths |-> NoFile]
  /\ openPath \in Paths /\ pathChanges = 0
  /\ opened = NotOpened /\ inputs = <<>> /\ populates = <<>> /\ runEnabled = FALSE
  /\ prediction = NoPrediction /\ verified = {}
-----------------------------------------------------------------------------
\* Raw records.  An output tests one field: test is "missing", "eq" or "ge",
\* null what it makes of a field that is not given.

Value(type, of) == [type |-> type, of |-> of]
Null    == Value("null", "null")
Refused == Value("refused", "")

JsonType(text) ==
  CASE text \in {"true", "false"} -> "boolean" [] text \in {"0", "1"} -> "number"
    [] OTHER -> "invalid"

\* parse_typed_record, of one text that is not blank.
Typed(kind, text) ==
  CASE text = "null" -> Null
    [] text # "null" /\ kind = "boolean" ->
         IF text \in {"true", "1"} THEN Value("boolean", "true")
         ELSE IF text \in {"false", "0"} THEN Value("boolean", "false") ELSE Refused
    [] text # "null" /\ kind = "number" ->
         IF JsonType(text) = "number" THEN Value("number", text) ELSE Refused
    [] text # "null" /\ kind = "category" ->
         Value(IF JsonType(text) = "invalid" THEN "string" ELSE JsonType(text), text)

\* The fields of an artifact's outputs, in the order of their first use; one is
\* required when an output of it takes no null.
Labels(artifact) ==
  LET Field(i) == artifact.outputs[i].field
      first == {i \in DOMAIN artifact.outputs : \A j \in 1..(i - 1) : Field(j) # Field(i)}
      order == SetToSortSeq(first, <)
  IN  [k \in DOMAIN order |-> Field(order[k])]

KindOf(artifact, name) ==
  artifact.outputs[CHOOSE i \in DOMAIN artifact.outputs : artifact.outputs[i].field = name].kind

Required(artifact, name) ==
  \E i \in DOMAIN artifact.outputs :
    artifact.outputs[i].field = name /\ artifact.outputs[i].null = "error"

\* The record of the texts typed into as many inputs as there are fields.
Record(artifact, texts) ==
  LET names == Labels(artifact)
      given == {i \in DOMAIN names : texts[i] # ""}
  IN  [n \in {names[i] : i \in given} |->
         Typed(KindOf(artifact, n), texts[CHOOSE i \in given : names[i] = n])]

RecordRefused(artifact, texts) ==
  LET names == Labels(artifact)  record == Record(artifact, texts)
  IN  \/ \E i \in DOMAIN names : Required(artifact, names[i]) /\ names[i] \notin DOMAIN record
      \/ \E n \in DOMAIN record : record[n] = Refused

IsGiven(output, record) == output.field \in DOMAIN record /\ record[output.field] # Null

\* PreprocessingContract.materialize: one feature of each output.
NullRefused(artifact, record) ==
  \E i \in DOMAIN artifact.outputs :
    LET o == artifact.outputs[i]
    IN  o.test # "missing" /\ o.null = "error" /\ ~IsGiven(o, record)

Number(value) == IF value.of = "1" THEN 1 ELSE 0

Feature(output, record) ==
  IF output.test = "missing" THEN ~IsGiven(output, record)
  ELSE IF ~IsGiven(output, record) THEN output.null = "true"
  ELSE IF output.test = "eq" THEN record[output.field] = output.value
  ELSE Number(record[output.field]) >= Number(output.value)

Materialized(artifact, record) ==
  [i \in DOMAIN artifact.outputs |-> Feature(artifact.outputs[i], record)]
-----------------------------------------------------------------------------
\* Files.

\* Where a training run is written: to a field of its own in the classic shell,
\* to the path field in the single pane.  A search has its own field in both.
RunPaths == IF shell = "classic" THEN Paths ELSE {openPath}

\* The classic shell shows the path it wrote.
ShowsPath(path) ==
  IF shell = "classic"
  THEN /\ openPath' = path
       /\ pathChanges' = IF openPath = path THEN pathChanges ELSE pathChanges + 1
  ELSE UNCHANGED <<openPath, pathChanges>>

\* An export never replaces a file.
Written(path, artifact) ==
  /\ files[path] = NoFile /\ files' = [files EXCEPT ![path] = artifact]
  /\ ShowsPath(path)
  /\ UNCHANGED <<opened, inputs, populates, runEnabled, prediction, verified>>

\* Another program writes or removes a file.
Replace ==
  /\ \E p \in Paths : \E a \in (Foreign \union {NoFile}) \ {files[p]} :
       files' = [files EXCEPT ![p] = a]
  /\ UNCHANGED <<shell, openPath, pathChanges, opened, inputs, populates, runEnabled,
                 prediction, verified>>

\* The single pane reads an empty field as its default path.
EditPath ==
  /\ \E p \in (Paths \union IF shell = "classic" THEN {NoPath} ELSE {}) \ {openPath} :
       openPath' = p
  /\ pathChanges' = IF shell = "classic" THEN pathChanges + 1 ELSE pathChanges
  /\ UNCHANGED <<shell, files, opened, inputs, populates, runEnabled, prediction, verified>>

\* on_input_changed of the classic shell: the path on the screen is not the one
\* that was loaded.
PathChanged ==
  /\ pathChanges > 0 /\ pathChanges' = pathChanges - 1
  /\ runEnabled' = (runEnabled /\ opened = NotOpened)
  /\ UNCHANGED <<shell, files, openPath, opened, inputs, populates, prediction, verified>>
-----------------------------------------------------------------------------
\* The controller and the panels.

\* verify_artifact: the container, its contracts, and its conformance cases.
Verified(artifact) == artifact.sound

Loadable(path) == path # NoPath /\ files[path] # NoFile /\ Verified(files[path])

\* open_artifact_session reads the file once.
Load ==
  /\ Loadable(openPath)
  /\ LET artifact == files[openPath]  labels == Labels(artifact)
     IN  /\ opened' = [path |-> openPath, artifact |-> artifact]
         /\ verified' = verified \union {artifact}
         /\ IF shell = "classic"
            THEN /\ inputs' = labels /\ runEnabled' = (labels # <<>>)
                 /\ prediction' = NoPrediction /\ UNCHANGED populates
            ELSE populates' = Append(populates, labels) /\ UNCHANGED <<inputs, runEnabled, prediction>>
  /\ UNCHANGED <<shell, files, openPath, pathChanges>>

\* A load that fails clears the session, unless the classic shell finds no path
\* to ask it for.
LoadFails ==
  /\ ~Loadable(openPath)
  /\ opened' = IF openPath = NoPath THEN opened ELSE NotOpened
  /\ IF shell = "classic"
     THEN inputs' = <<>> /\ runEnabled' = FALSE /\ UNCHANGED prediction
     ELSE prediction' = NoPrediction /\ UNCHANGED <<inputs, runEnabled>>
  /\ UNCHANGED <<shell, files, openPath, pathChanges, populates, verified>>

\* populate_fields.
Populate ==
  /\ populates # <<>> /\ populates' = Tail(populates) /\ inputs' = Head(populates)
  /\ UNCHANGED <<shell, files, openPath, pathChanges, opened, runEnabled, prediction, verified>>

\* Mutant: the record is run by the file, read again.
BytesOfFile == files[opened.path]

\* run_session_artifact_records: the artifact that was loaded, not the file.
PinnedBytes == opened.artifact

\* _require_loaded and run_record, before the record is parsed.
RunRefused == opened = NotOpened \/ openPath # opened.path \/ DOMAIN Labels(opened.artifact) = {}

\* run_record, of what was typed.
Predicted(texts) ==
  LET record  == Record(opened.artifact, texts)
      refused == \/ PinnedBytes = NoFile \/ RecordRefused(opened.artifact, texts)
                 \/ NullRefused(PinnedBytes, record)
  IN  IF refused THEN NoPrediction
      ELSE [by |-> PinnedBytes,
            labels |-> [i \in DOMAIN Labels(opened.artifact) |-> inputs[i]],
            features |-> Materialized(PinnedBytes, record)]

\* action_run_record: the inputs are read by their number, for the fields of
\* the artifact.
RunRecord ==
  /\ opened # NotOpened => DOMAIN Labels(opened.artifact) \subseteq DOMAIN inputs
  /\ IF RunRefused THEN prediction' = NoPrediction
     ELSE \E texts \in [DOMAIN Labels(opened.artifact) -> Texts] :
            prediction' = Predicted(texts)
  /\ UNCHANGED <<shell, files, openPath, pathChanges, opened, inputs, populates, runEnabled,
                 verified>>
-----------------------------------------------------------------------------
ArtifactAct      == Replace \/ EditPath \/ Load \/ RunRecord
ArtifactMessages == PathChanged \/ Populate
================================================================================
