-------------------------- MODULE ConcurrentMapping --------------------------
(***************************************************************************)
(* ConcurrentMappingTable used by several threads at once.  A thread looks *)
(* a source up and keeps the MappingEntry it read; any number of other     *)
(* threads may change the word before it hands the entry back to try_bind, *)
(* try_release or try_rebind.  Each of those is one compare-and-swap, so a *)
(* call is one atomic step.                                                *)
(*                                                                         *)
(* Two history fields ride on every remembered entry: whether the word has *)
(* been changed since it was read, and how many generation increments it   *)
(* has gone through since (capped at one more than MaxGeneration, because  *)
(* only "a whole lap or not" matters).  No action reads them.              *)
(***************************************************************************)
EXTENDS MappingWord

CONSTANTS Sources, Threads

VARIABLES
    word,    \* entries_: source -> word
    entry    \* thread -> the MappingEntry it remembers, or NoEntry

tableVars == <<word, entry>>

Laps == 0..(MaxGeneration + 1)

NoEntry == [held |-> FALSE]

Entries == [held: {TRUE}, source: Sources, word: Words,
            stale: BOOLEAN, laps: Laps]

TableTypeOK ==
    /\ word \in [Sources -> Words]
    /\ entry \in [Threads -> Entries \cup {NoEntry}]

-----------------------------------------------------------------------------
\* A table is filled with zero words and then, in ConsolidationRegistry's
\* restore, with the raw words of a checkpoint (restore_encoded): any word.
TableInit ==
    /\ word \in [Sources -> Words]
    /\ entry = [t \in Threads |-> NoEntry]

\* History bookkeeping for a successful compare-and-swap on s.
Saturate(n) == IF n > MaxGeneration THEN MaxGeneration + 1 ELSE n

Age(e, s, increments) ==
    IF e.held /\ e.source = s
    THEN [held |-> TRUE, source |-> s, word |-> e.word,
          stale |-> TRUE, laps |-> Saturate(e.laps + increments)]
    ELSE e

\* compare_exchange_strong(expected, desired) on the word of s.
CompareAndSwap(s, expected, desired, increments) ==
    IF word[s] = expected
    THEN /\ word' = [word EXCEPT ![s] = desired]
         /\ entry' = [t \in Threads |-> Age(entry[t], s, increments)]
    ELSE UNCHANGED tableVars

Lookup(t, s) ==
    /\ entry' = [entry EXCEPT ![t] = [held |-> TRUE, source |-> s,
                                      word |-> word[s],
                                      stale |-> FALSE, laps |-> 0]]
    /\ UNCHANGED word

\* try_bind is given the generation of an entry that was read unbound.
TryBind(t, a, slot) ==
    /\ entry[t].held
    /\ ~entry[t].word.bound
    /\ LET g == entry[t].word.generation
       IN CompareAndSwap(entry[t].source, Unbound(g), BindWord(a, slot, g), 0)

\* try_release and try_rebind return false at once unless the entry is bound.
TryRelease(t) ==
    /\ entry[t].held
    /\ entry[t].word.bound
    /\ CompareAndSwap(entry[t].source, entry[t].word,
                      ReleaseWord(entry[t].word), 1)

TryRebind(t, a, slot) ==
    /\ entry[t].held
    /\ entry[t].word.bound
    /\ CompareAndSwap(entry[t].source, entry[t].word,
                      RebindWord(entry[t].word, a, slot), 1)

TableNext ==
    \E t \in Threads :
        \/ \E s \in Sources : Lookup(t, s)
        \/ TryRelease(t)
        \/ \E a \in Artifacts, slot \in Slots :
              TryBind(t, a, slot) \/ TryRebind(t, a, slot)

TableSpec == TableInit /\ [][TableNext]_tableVars

-----------------------------------------------------------------------------
(***************************************************************************)
(* The header promises that "generation-tagged CAS operations prevent      *)
(* stale release calls from clearing a newer binding", and the lifecycle   *)
(* document adds the exception: the generation counter must not wrap.      *)
(* Together: a compare-and-swap whose expectation is stale can succeed     *)
(* only if the word has been through a whole lap of the generation field   *)
(* since the entry was read.  While a thread remembers a stale entry that  *)
(* is less than a lap old, the word differs from it.                       *)
(***************************************************************************)
StaleEntryMismatches ==
    \A t \in Threads :
        entry[t].held /\ entry[t].stale /\ entry[t].laps <= MaxGeneration
            => word[entry[t].source] # entry[t].word

(***************************************************************************)
(* The same for the words a step may install.  Whatever the interleaving,  *)
(* a source never passes from one artifact to another, and never becomes   *)
(* bound again after a release, within one generation: two bound words     *)
(* with equal generations, less than a lap apart, are the same binding.    *)
(***************************************************************************)
OneBindingPerGeneration ==
    \A t \in Threads :
        LET e == entry[t]
        IN /\ e.held
           /\ e.laps <= MaxGeneration
           /\ e.word.bound
           /\ word[e.source].bound
           /\ e.word.generation = word[e.source].generation
           => e.word = word[e.source]

=============================================================================
