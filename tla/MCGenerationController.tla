------------------------ MODULE MCGenerationController ------------------------
(* Two controllers on one store.  Each offer of evidence is a single        *)
(* observation; four of them let an episode run, be reopened on live        *)
(* evidence, and a second episode reach its activation.                     *)
EXTENDS GenerationController
CONSTANT Observations
AllCorpora == {{x} : x \in Observations}
Symmetry == Permutations(Observations) \cup Permutations(Behaviors)

===============================================================================
