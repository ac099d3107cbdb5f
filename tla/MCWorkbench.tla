------------------------------ MODULE MCWorkbench ------------------------------
(***************************************************************************)
(* Two configurations, three epochs of which the diagnostics sample the    *)
(* first and the last, two kinds of search, two files, and any four acts   *)
(* of the user beside cancellations and exports.  Another program writes   *)
(* an artifact of one field that is not asked for, and one that is broken. *)
(* The artifact panel is apart from the forms and the selectors.           *)
(***************************************************************************)
EXTENDS Workbench

CONSTANTS r1, r2, k1, k2, p1, p2

MCRequests == {r1, r2}
MCKinds    == {k1, k2}
MCPaths    == {p1, p2}

Colour(test, null) ==
  [field |-> "colour", kind |-> "category", test |-> test,
   value |-> Value("string", "red"), null |-> null]
Known   == [origin |-> "known", id |-> 0, sound |-> TRUE,
            outputs |-> << Colour("eq", "true"), Colour("missing", "false") >>]
Broken  == [Known EXCEPT !.origin = "broken", !.sound = FALSE]
MCForeign == {Known, Broken}
MCTexts   == {"", "null", "true", "red"}

VARIABLE user

\* One user trains and searches and opens nothing; the other leaves the forms as
\* they are, lets one job at a time end, and opens between them what is exported
\* and what other programs write: the panel shares nothing with a job under way.
MCInit == Init /\ user \in {"explores", "opens"}

MCNext ==
  /\ Next /\ UNCHANGED user
  /\ user = "explores" => UNCHANGED artifactVars
  /\ user = "opens" =>
       /\ UNCHANGED <<form, selection, kind, cancelled, set>>
       /\ UNCHANGED artifactVars \/ (~Training /\ ~Searching)
       /\ ~(Training' /\ Searching')

MCSpec == MCInit /\ [][MCNext]_<<vars, user>> /\ Fairness
================================================================================
