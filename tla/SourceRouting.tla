---------------------------- MODULE SourceRouting ----------------------------
(***************************************************************************)
(* What the registry promises the hot path, with words, generations and    *)
(* lifecycle states left out: which artifact and slot each source resolves *)
(* to.  The routes of an artifact appear all at once, only on sources that *)
(* resolve to nothing, and only while it has no other; they disappear all  *)
(* at once, or, when a replacement takes them over, one by one.  A source  *)
(* never goes from one artifact to another in one step.                    *)
(***************************************************************************)
CONSTANTS Sources, Artifacts, Slots

VARIABLE route

NoRoute == [routed |-> FALSE]

Route(a, slot) == [routed |-> TRUE, artifact |-> a, slot |-> slot]

RoutedTo(a) ==
    {s \in Sources : route[s].routed /\ route[s].artifact = a}

Init == route = [s \in Sources |-> NoRoute]

Publish(a, slots) ==
    /\ DOMAIN slots # {}
    /\ RoutedTo(a) = {}
    /\ \A s \in DOMAIN slots : route[s] = NoRoute
    /\ route' = [s \in Sources |->
                   IF s \in DOMAIN slots THEN Route(a, slots[s]) ELSE route[s]]

Withdraw(a) ==
    /\ RoutedTo(a) # {}
    /\ route' = [s \in Sources |->
                   IF s \in RoutedTo(a) THEN NoRoute ELSE route[s]]

Detach(s) ==
    /\ route[s].routed
    /\ route' = [route EXCEPT ![s] = NoRoute]

Next ==
    \/ \E a \in Artifacts :
          \/ Withdraw(a)
          \/ \E S \in SUBSET Sources : \E slots \in [S -> Slots] :
                Publish(a, slots)
    \/ \E s \in Sources : Detach(s)

Spec == Init /\ [][Next]_route

=============================================================================
