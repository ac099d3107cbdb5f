--------------------------- MODULE RegistryRouting ---------------------------
(***************************************************************************)
(* The registry implements SourceRouting: a source's route is what a       *)
(* resolve() that ran in one instant would return.                         *)
(***************************************************************************)
EXTENDS ConsolidationRegistry

EffectiveRoute(s) ==
    IF word[s].bound /\ state[word[s].artifact] = "active"
    THEN [routed |-> TRUE, artifact |-> word[s].artifact, slot |-> word[s].slot]
    ELSE [routed |-> FALSE]

Routing == INSTANCE SourceRouting
               WITH route <- [s \in Sources |-> EffectiveRoute(s)]

(***************************************************************************)
(* Whatever the mutators do, seen through resolve(): an artifact's sources *)
(* start to resolve all at once, on sources that resolved to nothing, stop *)
(* all at once or are detached one by one, and no source is ever switched  *)
(* from one artifact to another under a reader.                            *)
(***************************************************************************)
RoutingSpec == Routing!Spec

=============================================================================
