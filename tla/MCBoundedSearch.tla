---------------------------- MODULE MCBoundedSearch ----------------------------
(***************************************************************************)
(* Two features and the four rows over them: every labelling of them, with *)
(* trees that are right, wrong and unpruned as the parents of a repair.    *)
(* Three templates: the first feature, both features, and nothing.         *)
(* Eight instructions hold a parity of two literals and not every parity   *)
(* of two trees.                                                           *)
(***************************************************************************)
EXTENDS BoundedSearch

MCSlots    == {0, 1}
MCRows     == << {}, {0}, {1}, {0, 1} >>
MCCoverage == << {2, 4}, {4}, {} >>

Literal(f) == Node(f, Leaf(FALSE), Leaf(TRUE))
Xor        == Node(0, Literal(1), Node(1, Leaf(TRUE), Leaf(FALSE)))
Unpruned   == Node(1, Literal(0), Literal(0))

MCParents   == {Leaf(FALSE), Literal(0), Xor, Unpruned}
MCMisprints == {Xor, Unpruned}
================================================================================
