--------------------------- MODULE GenerationLine ----------------------------
(***************************************************************************)
(* What the model-generation controller promises: one line of generations  *)
(* that alternates between the trained parent and a child, in which a      *)
(* behavior is activated once and an observation is evidence once.         *)
(***************************************************************************)
CONSTANTS
    Behaviors, Corpora, Unregistered, Trained,
    Entries    \* the places of a ledger

VARIABLES
    active,    \* Unregistered, Trained, or the behavior of the active child
    retired,   \* the behaviors that have been activated
    spent      \* the ledger: the corpora that have been evidence, by their entry

line == <<active, retired, spent>>

LineInit == active = Unregistered /\ retired = {} /\ spent = [i \in {} |-> {}]

Fresh(X) == \A i \in DOMAIN spent : spent[i] \cap X = {}
Enter(i, X) == spent' = [j \in DOMAIN spent \cup {i} |-> IF j = i THEN X ELSE spent[j]]
Spend(X) == Fresh(X) /\ \E i \in Entries \ DOMAIN spent : Enter(i, X)

Register ==
    /\ active = Unregistered
    /\ active' = Trained
    /\ \E X \in Corpora : Spend(X)
    /\ UNCHANGED retired

\* Evidence is spent before it is looked at.
Collect ==
    /\ active # Unregistered
    /\ \E X \in Corpora : Spend(X)
    /\ UNCHANGED <<active, retired>>

Promote(b) ==
    /\ active = Trained
    /\ b \notin retired
    /\ active' = b
    /\ retired' = retired \cup {b}
    /\ UNCHANGED spent

Restore ==
    /\ active \in Behaviors
    /\ active' = Trained
    /\ UNCHANGED <<retired, spent>>

LineNext == Register \/ Collect \/ Restore \/ \E b \in Behaviors : Promote(b)

LineSpec == LineInit /\ [][LineNext]_line

=============================================================================
