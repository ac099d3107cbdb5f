------------------------- MODULE MCConcurrentMapping -------------------------
(* Two threads, one source, two artifacts, three generations: a whole lap   *)
(* of the generation field fits, so the exception at the wrap is reached.   *)
EXTENDS ConcurrentMapping, TLC

Symmetry == Permutations(Threads) \cup Permutations(Artifacts)

=============================================================================
