----------------------- MODULE MCConsolidationRegistry -----------------------
(* Two versions of a two-source artifact, with swapped slots, that can      *)
(* replace each other; a one-source artifact that conflicts with both; and  *)
(* three specifications nominate must turn down.                            *)
EXTENDS RegistryRouting, TLC

CONSTANTS s1, s2, p1, p2

Port(slot) == [slot |-> slot, kind |-> "ta"]

Pair(x, y) == (s1 :> Port(x)) @@ (s2 :> Port(y))

Plain == [ports |-> Pair(p1, p2), shape |-> "small", mature |-> TRUE]
Swapped == [ports |-> Pair(p2, p1), shape |-> "small", mature |-> TRUE]
Single == [ports |-> s2 :> Port(p1), shape |-> "small", mature |-> TRUE]
Clashing == [ports |-> Pair(p1, p1), shape |-> "small", mature |-> TRUE]
Immature == [ports |-> Pair(p1, p2), shape |-> "small", mature |-> FALSE]
OutOfRange == [ports |-> s2 :> Port("p4096"), shape |-> "small", mature |-> TRUE]

AllSpecs == {Plain, Swapped, Single, Clashing, Immature, OutOfRange}

NoMismatch == [num |-> 0, den |-> 1]
Half == [num |-> 1, den |-> 2]

Symmetry == Permutations(Artifacts)

=============================================================================
