----------------------------- MODULE MappingWord -----------------------------
(***************************************************************************)
(* The 64-bit word of ConcurrentMappingTable (concurrent_mapping.cpp): one *)
(* atomic word per dense source, holding a bound flag, an artifact handle, *)
(* a PA slot and a mapping generation.  The fields occupy disjoint bit     *)
(* ranges, so a word is modelled as the record of its fields; an unbound   *)
(* word carries only its generation.                                       *)
(*                                                                         *)
(* The operators below are pure: they say which word each table operation  *)
(* expects and which word its compare-and-swap installs.  Both the bare    *)
(* table (ConcurrentMapping) and the registry that owns one                *)
(* (ConsolidationRegistry) are built from them.                            *)
(***************************************************************************)
EXTENDS Naturals

CONSTANTS
    Artifacts,      \* artifact handles that fit the 24-bit field
    Slots,          \* PA slots that fit the 12-bit field
    MaxGeneration   \* maximum_mapping_generation, 2^27 - 1 in the code

ASSUME GenerationAssumption == MaxGeneration \in Nat

Generations == 0..MaxGeneration

UnboundWords == [bound: {FALSE}, generation: Generations]

BoundWords == [bound: {TRUE}, artifact: Artifacts, slot: Slots,
               generation: Generations]

Words == UnboundWords \cup BoundWords

Unbound(g) == [bound |-> FALSE, generation |-> g]

Bound(a, slot, g) == [bound |-> TRUE, artifact |-> a, slot |-> slot,
                      generation |-> g]

\* Bug variant of the next operator: the increment is forgotten.
StickyGeneration(g) == g

\* (generation + 1) & maximum_mapping_generation: the mask wraps to zero.
NextGeneration(g) == IF g = MaxGeneration THEN 0 ELSE g + 1

\* The word each compare-and-swap installs when the expectation holds.
BindWord(a, slot, g) == Bound(a, slot, g)
ReleaseWord(expected) == Unbound(NextGeneration(expected.generation))
RebindWord(expected, a, slot) ==
    Bound(a, slot, NextGeneration(expected.generation))

OwnedBy(w, a) == w.bound /\ w.artifact = a

=============================================================================
