-------------------------- MODULE ConcurrencyProofs --------------------------
(***************************************************************************)
(* Proofs about what runs concurrently: the two lock-free structures and   *)
(* the threads of a bounded process.  The mapping table, for any number of *)
(* sources, threads, artifacts and slots and any width of the generation   *)
(* field; the auditor's ring, for any window, recorders, restored          *)
(* checkpoint and number of observations; the process, for pipes, queues,  *)
(* reads, budgets and deadlines of any size, and for whatever the child,   *)
(* its descendant and the user do.                                         *)
(*                                                                         *)
(* The table.  The generation of a word is the generation of a remembered  *)
(* entry plus the laps since it was read, modulo the width of the field;   *)
(* and a word that changed without a generation increment can only have    *)
(* been bound.                                                             *)
(*                                                                         *)
(* The ring.  The properties rest on two facts that no single step shows.  *)
(* A slot holds only observations whose number has its index, so that two  *)
(* of them are a whole window apart; and the slot of an observation whose  *)
(* record() has returned holds it or a newer one, because a recorder that  *)
(* gives up has seen a newer one there and slots never go back.            *)
(*                                                                         *)
(* The process.  Until the finally block, every unit that was written to a *)
(* stream is in the pipe, in the reader's hands, in the queue or in the    *)
(* output: the running totals of the queue join the two ends (Conserved).  *)
(* An end marker is the last item of its stream, and is only sent when     *)
(* nobody can write to it any more (QueueIsOrdered, EndedIsSilent); two    *)
(* markers taken therefore mean that the output is all there was and will  *)
(* be.                                                                     *)
(***************************************************************************)
EXTENDS ConcurrentMapping, ShadowAudit, BoundedProcess,
        FiniteSetTheorems, SequenceTheorems, WellFoundedInduction, TLAPS

-----------------------------------------------------------------------------
(* The mapping table                                                       *)

\* The generation reached from g by n <= MaxGeneration increments.
Advance(g, n) ==
    IF g + n <= MaxGeneration THEN g + n ELSE g + n - (MaxGeneration + 1)

\* What an entry read less than a lap ago says of the word now.
EntryTracksWord(e, w) ==
    /\ ~e.stale => w = e.word /\ e.laps = 0
    /\ e.stale /\ e.laps <= MaxGeneration =>
          /\ w.generation = Advance(e.word.generation, e.laps)
          /\ e.laps = 0 => ~e.word.bound /\ w.bound

EntriesTrackWords ==
    \A t \in Threads :
        entry[t].held => EntryTracksWord(entry[t], word[entry[t].source])

TableInv == TableTypeOK /\ EntriesTrackWords

-----------------------------------------------------------------------------
\* What NextGeneration returns: a generation, the successor except at the wrap.
LEMMA NextGenerationType ==
    ASSUME NEW g \in Generations
    PROVE  NextGeneration(g) \in Generations
  BY GenerationAssumption DEF NextGeneration, Generations

\* Every word has a generation, and the words the operations install are words.
LEMMA WordFields ==
    ASSUME NEW w \in Words
    PROVE  /\ w.generation \in Generations
           /\ w.bound \in BOOLEAN
           /\ ReleaseWord(w) \in Words
           /\ \A a \in Artifacts, slot \in Slots :
                 RebindWord(w, a, slot) \in Words
  BY NextGenerationType
     DEF Words, UnboundWords, BoundWords, ReleaseWord, RebindWord, Unbound,
         Bound

LEMMA BindWordType ==
    ASSUME NEW g \in Generations, NEW a \in Artifacts, NEW slot \in Slots
    PROVE  /\ BindWord(a, slot, g) \in Words
           /\ Unbound(g) \in Words
  BY DEF Words, UnboundWords, BoundWords, BindWord, Unbound, Bound

\* One more increment carries Advance one step, until the lap is complete.
LEMMA AdvanceStep ==
    ASSUME NEW g \in Generations, NEW n \in Nat, n + 1 <= MaxGeneration
    PROVE  NextGeneration(Advance(g, n)) = Advance(g, n + 1)
  BY GenerationAssumption DEF NextGeneration, Advance, Generations

\* A compare-and-swap that succeeds on the word of s keeps the invariant when
\* it either binds an unbound word in its own generation or installs any word
\* of the next generation.
LEMMA SwapPreservesInv ==
    ASSUME TableInv, NEW s \in Sources, NEW desired \in Words,
           NEW increments \in {0, 1},
           \/ /\ increments = 0
              /\ ~word[s].bound
              /\ desired.bound
              /\ desired.generation = word[s].generation
           \/ /\ increments = 1
              /\ desired.generation = NextGeneration(word[s].generation),
           word' = [word EXCEPT ![s] = desired],
           entry' = [t \in Threads |-> Age(entry[t], s, increments)]
    PROVE  TableInv'
<1> USE GenerationAssumption
<1>1. word' \in [Sources -> Words]
  BY DEF TableInv, TableTypeOK
<1>2. ASSUME NEW t \in Threads
      PROVE  /\ entry'[t] \in Entries \cup {NoEntry}
             /\ entry'[t].held =>
                  EntryTracksWord(entry'[t], word'[entry'[t].source])
  <2>0. /\ entry[t] \in Entries \cup {NoEntry}
        /\ entry'[t] = Age(entry[t], s, increments)
        /\ entry[t].held =>
             EntryTracksWord(entry[t], word[entry[t].source])
    BY DEF TableInv, TableTypeOK, EntriesTrackWords
  <2>1. CASE ~entry[t].held
    <3>1. entry'[t] = entry[t]
      BY <2>0, <2>1 DEF Age
    <3> QED
      BY <2>0, <2>1, <3>1
  <2>2. CASE entry[t].held /\ entry[t].source # s
    <3>1. entry[t] \in Entries
      BY <2>0, <2>2 DEF NoEntry
    <3>2. entry'[t] = entry[t]
      BY <2>0, <2>2 DEF Age
    <3>3. word'[entry[t].source] = word[entry[t].source]
      BY <2>2, <3>1 DEF TableInv, TableTypeOK, Entries
    <3> QED
      BY <2>0, <2>2, <3>1, <3>2, <3>3
  <2>3. CASE entry[t].held /\ entry[t].source = s
    <3> DEFINE e == entry[t]
               e2 == entry'[t]
    <3>1. e \in Entries
      BY <2>0, <2>3 DEF NoEntry
    <3>2. e2 = [held |-> TRUE, source |-> s, word |-> e.word,
                stale |-> TRUE, laps |-> Saturate(e.laps + increments)]
      BY <2>0, <2>3 DEF Age
    <3>3. /\ e.laps \in Laps
          /\ Saturate(e.laps + increments) \in Laps
      <4>1. e.laps \in Laps
        BY <3>1 DEF Entries
      <4> QED
        BY <4>1 DEF Laps, Saturate
    <3>4. /\ e2 \in Entries
          /\ e2.stale
          /\ e2.held
          /\ e2.source = s
          /\ e2.word = e.word
          /\ e2.laps = Saturate(e.laps + increments)
      <4>1. e.word \in Words
        BY <3>1 DEF Entries
      <4> HIDE DEF e, e2
      <4> QED
        BY <3>2, <3>3, <4>1 DEF Entries
    <3>5. /\ word'[s] = desired
          /\ word[s] \in Words
          /\ e.word \in Words
      BY <3>1 DEF TableInv, TableTypeOK, Entries
    <3>6. /\ e.word.generation \in Generations
          /\ word[s].generation \in Generations
          /\ e.word.bound \in BOOLEAN
      BY <3>5, WordFields
    <3>7. EntryTracksWord(e, word[s])
      BY <2>0, <2>3
    <3>8. ASSUME e2.laps <= MaxGeneration
          PROVE  /\ word'[s].generation = Advance(e.word.generation, e2.laps)
                 /\ e2.laps = 0 => ~e.word.bound /\ word'[s].bound
      <4>1. /\ e.laps \in Nat
            /\ e2.laps = e.laps + increments
            /\ e.laps <= MaxGeneration
        BY <3>3, <3>4, <3>8 DEF Laps, Saturate
      <4>2. word[s].generation = Advance(e.word.generation, e.laps)
        BY <3>6, <3>7, <4>1 DEF EntryTracksWord, Advance, Generations
      <4>3. CASE increments = 0
        <5>1. e.laps = 0 => ~e.word.bound
          BY <3>5, <3>7, <4>1, <4>3 DEF EntryTracksWord
        <5> QED
          BY <3>5, <4>1, <4>2, <4>3, <5>1
      <4>4. CASE increments = 1
        <5>1. NextGeneration(word[s].generation)
                = Advance(e.word.generation, e.laps + 1)
          BY <3>6, <3>8, <4>1, <4>2, <4>4, AdvanceStep
        <5> QED
          BY <3>5, <4>1, <4>4, <5>1
      <4> QED
        BY <4>3, <4>4
    <3> QED
      BY <3>4, <3>8 DEF EntryTracksWord
  <2> QED
    BY <2>0, <2>1, <2>2, <2>3 DEF Entries, NoEntry
<1>3. entry' \in [Threads -> Entries \cup {NoEntry}]
  BY <1>2 DEF TableInv, TableTypeOK
<1> QED
  BY <1>1, <1>2, <1>3 DEF TableInv, TableTypeOK, EntriesTrackWords

-----------------------------------------------------------------------------
LEMMA TableInitInv == TableInit => TableInv
  BY DEF TableInit, TableInv, TableTypeOK, EntriesTrackWords, NoEntry

LEMMA TableStepInv == TableInv /\ [TableNext]_tableVars => TableInv'
<1> USE GenerationAssumption
<1> SUFFICES ASSUME TableInv, [TableNext]_tableVars
             PROVE  TableInv'
  OBVIOUS
<1>1. ASSUME NEW t \in Threads, NEW s \in Sources, Lookup(t, s)
      PROVE  TableInv'
  <2> DEFINE read == [held |-> TRUE, source |-> s, word |-> word[s],
                      stale |-> FALSE, laps |-> 0]
  <2>1. /\ word' = word
        /\ entry' = [entry EXCEPT ![t] = read]
    BY <1>1 DEF Lookup
  <2>2. read \in Entries
    BY DEF TableInv, TableTypeOK, Entries, Laps
  <2>3. EntryTracksWord(read, word[s])
    BY DEF EntryTracksWord
  <2>4. ASSUME NEW u \in Threads, entry'[u].held
        PROVE  EntryTracksWord(entry'[u], word'[entry'[u].source])
    <3>1. CASE u = t
      BY <2>1, <2>3, <3>1 DEF TableInv, TableTypeOK
    <3>2. CASE u # t
      BY <2>1, <2>4, <3>2 DEF TableInv, TableTypeOK, EntriesTrackWords
    <3> QED
      BY <3>1, <3>2
  <2> HIDE DEF read
  <2> QED
    BY <2>1, <2>2, <2>4 DEF TableInv, TableTypeOK, EntriesTrackWords
<1>2. ASSUME NEW t \in Threads, entry[t].held
      PROVE  /\ entry[t].source \in Sources
             /\ entry[t].word \in Words
             /\ word[entry[t].source] \in Words
             /\ entry[t].word.generation \in Generations
  <2>1. entry[t] \in Entries
    BY <1>2 DEF TableInv, TableTypeOK, NoEntry
  <2>2. entry[t].source \in Sources /\ entry[t].word \in Words
    BY <2>1 DEF Entries
  <2> QED
    BY <2>2, WordFields DEF TableInv, TableTypeOK
<1>3. ASSUME NEW t \in Threads, TryRelease(t)
      PROVE  TableInv'
  <2> DEFINE s == entry[t].source
             desired == ReleaseWord(entry[t].word)
  <2>1. /\ s \in Sources
        /\ entry[t].word \in Words
        /\ desired \in Words
    BY <1>2, <1>3, WordFields DEF TryRelease
  <2>2. CASE word[s] = entry[t].word
    <3>1. /\ word' = [word EXCEPT ![s] = desired]
          /\ entry' = [u \in Threads |-> Age(entry[u], s, 1)]
      BY <1>3, <2>2 DEF TryRelease, CompareAndSwap
    <3>2. desired.generation = NextGeneration(word[s].generation)
      BY <2>2 DEF ReleaseWord, Unbound
    <3> HIDE DEF s, desired
    <3> QED
      BY <2>1, <3>1, <3>2, SwapPreservesInv
  <2>3. CASE word[s] # entry[t].word
    BY <1>3, <2>3
       DEF TryRelease, CompareAndSwap, TableInv, TableTypeOK, EntriesTrackWords, tableVars
  <2> QED
    BY <2>2, <2>3
<1>4. ASSUME NEW t \in Threads, NEW a \in Artifacts, NEW slot \in Slots,
             TryRebind(t, a, slot)
      PROVE  TableInv'
  <2> DEFINE s == entry[t].source
             desired == RebindWord(entry[t].word, a, slot)
  <2>1. /\ s \in Sources
        /\ entry[t].word \in Words
        /\ desired \in Words
    BY <1>2, <1>4, WordFields DEF TryRebind
  <2>2. CASE word[s] = entry[t].word
    <3>1. /\ word' = [word EXCEPT ![s] = desired]
          /\ entry' = [u \in Threads |-> Age(entry[u], s, 1)]
      BY <1>4, <2>2 DEF TryRebind, CompareAndSwap
    <3>2. desired.generation = NextGeneration(word[s].generation)
      BY <2>2 DEF RebindWord, Bound
    <3> HIDE DEF s, desired
    <3> QED
      BY <2>1, <3>1, <3>2, SwapPreservesInv
  <2>3. CASE word[s] # entry[t].word
    BY <1>4, <2>3
       DEF TryRebind, CompareAndSwap, TableInv, TableTypeOK, EntriesTrackWords, tableVars
  <2> QED
    BY <2>2, <2>3
<1>5. ASSUME NEW t \in Threads, NEW a \in Artifacts, NEW slot \in Slots,
             TryBind(t, a, slot)
      PROVE  TableInv'
  <2> DEFINE s == entry[t].source
             g == entry[t].word.generation
             desired == BindWord(a, slot, g)
  <2>1. /\ s \in Sources
        /\ g \in Generations
        /\ desired \in Words
    BY <1>2, <1>5, BindWordType DEF TryBind
  <2>2. CASE word[s] = Unbound(g)
    <3>1. /\ word' = [word EXCEPT ![s] = desired]
          /\ entry' = [u \in Threads |-> Age(entry[u], s, 0)]
      BY <1>5, <2>2 DEF TryBind, CompareAndSwap
    <3>2. /\ ~word[s].bound
          /\ desired.bound
          /\ desired.generation = word[s].generation
      BY <2>2 DEF BindWord, Bound, Unbound
    <3> HIDE DEF s, g, desired
    <3> QED
      BY <2>1, <3>1, <3>2, SwapPreservesInv
  <2>3. CASE word[s] # Unbound(g)
    BY <1>5, <2>3
       DEF TryBind, CompareAndSwap, TableInv, TableTypeOK, EntriesTrackWords, tableVars
  <2> QED
    BY <2>2, <2>3
<1>6. CASE UNCHANGED tableVars
  BY <1>6 DEF tableVars, TableInv, TableTypeOK, EntriesTrackWords
<1> QED
  BY <1>1, <1>3, <1>4, <1>5, <1>6 DEF TableNext

\* The three facts an entry less than a lap old gives about the properties.
LEMMA TableInvImplies ==
    ASSUME TableInv
    PROVE  StaleEntryMismatches /\ OneBindingPerGeneration
<1> USE GenerationAssumption
<1>1. ASSUME NEW t \in Threads, entry[t].held,
             entry[t].laps <= MaxGeneration
      PROVE  /\ entry[t].stale => word[entry[t].source] # entry[t].word
             /\ /\ entry[t].word.bound
                /\ word[entry[t].source].bound
                /\ entry[t].word.generation
                      = word[entry[t].source].generation
                => entry[t].word = word[entry[t].source]
  <2> DEFINE e == entry[t]
             w == word[e.source]
  <2>1. e \in Entries
    BY <1>1 DEF TableInv, TableTypeOK, NoEntry
  <2>2. /\ e.word \in Words
        /\ e.laps \in Laps
        /\ e.stale \in BOOLEAN
        /\ e.source \in Sources
    BY <2>1 DEF Entries
  <2>3. e.word.generation \in Generations /\ e.word.bound \in BOOLEAN
    BY <2>2, WordFields
  <2>4. EntryTracksWord(e, w)
    BY <1>1 DEF TableInv, EntriesTrackWords
  <2>5. CASE ~e.stale
    BY <2>4, <2>5 DEF EntryTracksWord
  <2>6. CASE e.stale /\ e.laps = 0
    BY <1>1, <2>3, <2>4, <2>6 DEF EntryTracksWord
  <2>7. CASE e.stale /\ e.laps # 0
    <3>1. w.generation = Advance(e.word.generation, e.laps)
      BY <1>1, <2>4, <2>7 DEF EntryTracksWord
    <3>2. w.generation # e.word.generation
      BY <1>1, <2>2, <2>3, <2>7, <3>1 DEF Advance, Laps, Generations
    <3> QED
      BY <3>2
  <2> QED
    BY <2>2, <2>5, <2>6, <2>7
<1> QED
  BY <1>1 DEF StaleEntryMismatches, OneBindingPerGeneration

(***************************************************************************)
(* The table's words and remembered entries always have their types.       *)
(***************************************************************************)
THEOREM TableTypeCorrect == TableSpec => []TableTypeOK
<1>1. TableInv => TableTypeOK
  BY DEF TableInv
<1> QED
  BY TableInitInv, TableStepInv, <1>1, PTL DEF TableSpec

(***************************************************************************)
(* A stale expectation never matches within one lap of the generation      *)
(* field: no delayed try_bind, try_release or try_rebind can succeed       *)
(* against a word that changed since it was read.                          *)
(***************************************************************************)
THEOREM StaleCasFails == TableSpec => []StaleEntryMismatches
<1>1. TableInv => StaleEntryMismatches
  BY TableInvImplies
<1> QED
  BY TableInitInv, TableStepInv, <1>1, PTL DEF TableSpec

(***************************************************************************)
(* Within one lap a source has at most one binding per generation.         *)
(***************************************************************************)
THEOREM GenerationNamesBinding == TableSpec => []OneBindingPerGeneration
<1>1. TableInv => OneBindingPerGeneration
  BY TableInvImplies
<1> QED
  BY TableInitInv, TableStepInv, <1>1, PTL DEF TableSpec

-----------------------------------------------------------------------------
(* The shadow auditor's ring                                               *)

USE WindowAssumption, BoundAssumption

\* Two observations of one slot are a window apart.
LEMMA ApartByWindow ==
  ASSUME NEW a \in Nat, NEW b \in Nat, Slot(a) = Slot(b), a < b
  PROVE  b >= a + WindowSize
<1> DEFINE p == a \div WindowSize
           q == b \div WindowSize
           c == a % WindowSize
<1>1. p \in Int /\ q \in Int /\ c \in Int
  OBVIOUS
<1>2. a = WindowSize * p + c /\ b = WindowSize * q + c
  BY DEF Slot
<1> HIDE DEF p, q, c
<1>3. b - a = WindowSize * (q - p)
  BY <1>1, <1>2
<1>4. q - p >= 1
  <2> SUFFICES ASSUME q - p <= 0 PROVE FALSE
    BY <1>1
  <2>1. WindowSize * (q - p) <= 0
    BY <1>1
  <2> QED BY <1>3, <2>1
<1>5. WindowSize * (q - p) >= WindowSize
  BY <1>1, <1>4
<1> QED BY <1>3, <1>5

\* Every observation has a slot of the ring.
LEMMA SlotIsIndex ==
  ASSUME NEW n \in Nat PROVE Slot(n) \in Indices
BY DEF Slot, Indices

\* A word of the ring is empty, or has the number of an observation.
LEMMA WordCases ==
  ASSUME NEW w \in SlotWords
  PROVE  /\ w.full \in BOOLEAN
         /\ w.full => w.sequence \in SequenceNumbers /\ w.sequence \in Nat
<1>1. CASE w = Empty
  BY <1>1 DEF Empty
<1>2. CASE w \in [full: {TRUE}, sequence: SequenceNumbers, mismatch: BOOLEAN]
  <2>1. w.full = TRUE /\ w.sequence \in SequenceNumbers
    BY <1>2
  <2>2. w.sequence \in Nat
    BY <2>1 DEF SequenceNumbers
  <2> QED BY <2>1, <2>2
<1> QED BY <1>1, <1>2 DEF SlotWords
-----------------------------------------------------------------------------
\* The observation that a full slot holds was reserved, is in its place, and
\* says what its recorder said.
IsObservation(w, i) ==
  /\ w \in SlotWords
  /\ w.full => w.sequence < cursor /\ Slot(w.sequence) = i /\ w.mismatch = truth[w.sequence]

\* w is n or newer.
AtLeast(w, n) == w.full /\ w.sequence >= n

RingType ==
  /\ cursor \in 0..MaxSequence
  /\ slots \in [Indices -> SlotWords]
  /\ truth \in [0..(cursor - 1) -> BOOLEAN]
  /\ returned \subseteq 0..(cursor - 1)
SlotsAreObservations == \A i \in Indices : IsObservation(slots[i], i)

\* A recorder has a number of its own making, and what it saw in its slot was
\* no newer than what is there now.
RecorderIsWell(r) ==
  LET n == rec[r].sequence IN
    \/ rec[r] = Idle
    \/ rec[r] = Reserved(n) /\ n \in 0..(cursor - 1)
    \/ /\ rec[r] = Trying(n, rec[r].seen) /\ n \in 0..(cursor - 1)
       /\ rec[r].seen \in SlotWords
       /\ rec[r].seen.full => AtLeast(slots[Slot(n)], rec[r].seen.sequence)
RecordersAreWell == DOMAIN rec = Recorders /\ \A r \in Recorders : RecorderIsWell(r)

ReturnedAreKept == \A n \in returned : AtLeast(slots[Slot(n)], n)

RingInv == RingType /\ SlotsAreObservations /\ RecordersAreWell /\ ReturnedAreKept

\* The ring of a checkpoint keeps its observations in their places.
LEMMA RingInit == AuditInit => RingInv
<1> SUFFICES ASSUME AuditInit PROVE RingInv
  OBVIOUS
<1>1. PICK observed \in 0..WindowSize, mismatches \in 0..WindowSize :
        /\ mismatches <= observed /\ observed <= cursor
        /\ RestoredRing(cursor, observed, mismatches)
  BY DEF AuditInit
<1> DEFINE kept == (cursor - observed)..(cursor - 1)
           bad  == (cursor - observed)..(cursor - observed + mismatches - 1)
           wordAt(i) == LET n == CHOOSE n \in kept : Slot(n) = i IN Stamped(n, n \in bad)
<1>2. cursor \in 0..MaxSequence /\ cursor \in Nat /\ kept \subseteq 0..(cursor - 1)
  <2>1. cursor \in 0..MaxRestored
    BY DEF AuditInit
  <2>2. cursor \in 0..MaxSequence /\ cursor \in Nat
    BY <2>1
  <2>3. kept \subseteq 0..(cursor - 1)
    BY <1>1, <2>2
  <2> QED BY <2>2, <2>3
<1>3. /\ slots = [i \in Indices |-> IF \E n \in kept : Slot(n) = i THEN wordAt(i) ELSE Empty]
      /\ truth = [n \in 0..(cursor - 1) |-> n \in bad]
      /\ returned = kept
  BY <1>1 DEF RestoredRing
<1> HIDE DEF bad
<1>4. ASSUME NEW i \in Indices, NEW k \in kept, Slot(k) = i
      PROVE  \E n \in kept : Slot(n) = i /\ slots[i] = Stamped(n, n \in bad)
  <2> DEFINE n == CHOOSE n \in kept : Slot(n) = i
  <2>1. n \in kept /\ Slot(n) = i
    BY <1>4
  <2>2. slots[i] = Stamped(n, n \in bad)
    BY <1>3, <1>4
  <2> QED BY <2>1, <2>2
<1>5. ASSUME NEW i \in Indices PROVE IsObservation(slots[i], i)
  <2>1. CASE \E k \in kept : Slot(k) = i
    <3>1. PICK n \in kept : Slot(n) = i /\ slots[i] = Stamped(n, n \in bad)
      BY <1>4, <2>1
    <3>2. n \in SequenceNumbers /\ n < cursor /\ truth[n] = (n \in bad)
      BY <1>2, <1>3 DEF SequenceNumbers
    <3> QED BY <3>1, <3>2 DEF IsObservation, Stamped, SlotWords
  <2>2. CASE ~\E k \in kept : Slot(k) = i
    BY <1>3, <2>2 DEF IsObservation, Empty, SlotWords
  <2> QED BY <2>1, <2>2
<1>6. ASSUME NEW n \in kept PROVE AtLeast(slots[Slot(n)], n)
  <2>1. n \in Nat /\ Slot(n) \in Indices
    BY <1>2, SlotIsIndex
  <2>2. PICK m \in kept : Slot(m) = Slot(n) /\ slots[Slot(n)] = Stamped(m, m \in bad)
    BY <1>4, <2>1
  <2>3. ~(m < n)
    BY <1>1, <1>2, <2>1, <2>2, ApartByWindow
  <2> QED BY <1>2, <2>2, <2>3 DEF AtLeast, Stamped
<1>7. RingType
  <2>1. slots \in [Indices -> SlotWords]
    BY <1>3, <1>5 DEF IsObservation
  <2>2. truth \in [0..(cursor - 1) -> BOOLEAN]
    BY <1>3
  <2> QED BY <1>2, <1>3, <2>1, <2>2 DEF RingType
<1>8. RecordersAreWell
  BY DEF AuditInit, RecordersAreWell, RecorderIsWell, Idle
<1> QED BY <1>3, <1>5, <1>6, <1>7, <1>8 DEF RingInv, SlotsAreObservations, ReturnedAreKept

\* A step that leaves the ring alone, and the other recorders.
LEMMA RecorderStays ==
  ASSUME RingInv, NEW r \in Recorders, rec'[r] = rec[r], UNCHANGED <<cursor, slots>>
  PROVE  RecorderIsWell(r)'
BY DEF RingInv, RecordersAreWell, RecorderIsWell, AtLeast, Idle, Reserved, Trying

LEMMA ReserveKeepsRing ==
  ASSUME RingInv, NEW r \in Recorders, NEW mismatch \in BOOLEAN, Reserve(r, mismatch)
  PROVE  RingInv'
<1>1. /\ cursor \in Nat /\ cursor < MaxSequence /\ cursor' = cursor + 1
      /\ truth' = [n \in 0..cursor |-> IF n = cursor THEN mismatch ELSE truth[n]]
      /\ UNCHANGED <<slots, returned>>
  BY DEF Reserve, RingInv, RingType
<1>2. RingType'
  BY <1>1 DEF RingInv, RingType
<1>3. SlotsAreObservations'
  <2> SUFFICES ASSUME NEW i \in Indices PROVE IsObservation(slots[i], i)'
    BY DEF SlotsAreObservations
  <2>1. IsObservation(slots[i], i)
    BY DEF RingInv, SlotsAreObservations
  <2>2. slots[i] \in SlotWords
    BY <2>1 DEF IsObservation
  <2>3. slots[i].full => slots[i].sequence \in 0..(cursor - 1)
    BY <1>1, <2>1, <2>2, WordCases DEF IsObservation
  <2> QED BY <1>1, <2>1, <2>2, <2>3 DEF IsObservation
<1>4. RecordersAreWell'
  <2>1. rec' = [rec EXCEPT ![r] = Reserved(cursor)] /\ DOMAIN rec = Recorders
    BY DEF Reserve, RingInv, RecordersAreWell
  <2>2. ASSUME NEW q \in Recorders, q # r PROVE RecorderIsWell(q)'
    BY <1>1, <2>1, <2>2 DEF RingInv, RecordersAreWell, RecorderIsWell, AtLeast, Idle, Reserved, Trying
  <2>3. RecorderIsWell(r)'
    BY <1>1, <2>1 DEF RecorderIsWell, Reserved
  <2> QED BY <2>1, <2>2, <2>3 DEF RecordersAreWell
<1>5. ReturnedAreKept'
  BY <1>1 DEF RingInv, ReturnedAreKept, AtLeast
<1> QED BY <1>2, <1>3, <1>4, <1>5 DEF RingInv

LEMMA LookKeepsRing ==
  ASSUME RingInv, NEW r \in Recorders, LoadSlot(r) \/ Retry(r)
  PROVE  RingInv'
<1> DEFINE n == rec[r].sequence
<1>1. rec' = [rec EXCEPT ![r] = Trying(n, slots[Slot(n)])] /\ UNCHANGED <<cursor, slots, truth, returned>>
  BY DEF LoadSlot, Retry
<1>2. n \in 0..(cursor - 1) /\ cursor \in Nat
  BY DEF LoadSlot, Retry, RingInv, RingType, RecordersAreWell, RecorderIsWell, Idle
<1>3. Slot(n) \in Indices
  BY <1>2, SlotIsIndex
<1>4. slots[Slot(n)] \in SlotWords
  BY <1>3 DEF RingInv, RingType
<1>5. RecorderIsWell(r)'
  <2>1. rec'[r] = Trying(n, slots[Slot(n)])
    BY <1>1 DEF RingInv, RecordersAreWell
  <2>2. slots[Slot(n)].full => slots[Slot(n)].sequence \in Nat
    BY <1>4, WordCases
  <2> QED BY <1>1, <1>2, <1>4, <2>1, <2>2 DEF RecorderIsWell, Trying, AtLeast
<1>6. RecordersAreWell'
  BY <1>1, <1>5, RecorderStays DEF RingInv, RecordersAreWell
<1> QED BY <1>1, <1>6 DEF RingInv, RingType, SlotsAreObservations, IsObservation, ReturnedAreKept, AtLeast

LEMMA GiveUpKeepsRing ==
  ASSUME RingInv, NEW r \in Recorders, GiveUp(r)
  PROVE  RingInv'
<1> DEFINE n == rec[r].sequence
<1>1. /\ rec' = [rec EXCEPT ![r] = Idle] /\ returned' = returned \cup {n}
      /\ UNCHANGED <<cursor, slots, truth>>
  BY DEF GiveUp
<1>2. /\ n \in 0..(cursor - 1) /\ cursor \in Nat
      /\ rec[r].seen.full /\ rec[r].seen.sequence > n /\ rec[r].seen \in SlotWords
      /\ AtLeast(slots[Slot(n)], rec[r].seen.sequence)
  BY DEF GiveUp, IsNewer, RingInv, RingType, RecordersAreWell, RecorderIsWell, Idle, Reserved
<1>3. AtLeast(slots[Slot(n)], n)
  <2>1. slots[Slot(n)] \in SlotWords /\ Slot(n) \in Indices
    BY <1>2, SlotIsIndex DEF RingInv, RingType
  <2> QED BY <1>2, <2>1, WordCases DEF AtLeast
<1>4. ReturnedAreKept'
  BY <1>1, <1>3 DEF RingInv, ReturnedAreKept, AtLeast
<1>5. RecordersAreWell'
  <2>1. RecorderIsWell(r)'
    BY <1>1 DEF RecorderIsWell, RingInv, RecordersAreWell
  <2> QED BY <1>1, <2>1, RecorderStays DEF RingInv, RecordersAreWell
<1>6. RingType'
  BY <1>1, <1>2 DEF RingInv, RingType
<1> QED BY <1>1, <1>4, <1>5, <1>6 DEF RingInv, SlotsAreObservations, IsObservation

\* What a successful compare-and-swap overwrites is no newer.
LEMMA SwapIsForward ==
  ASSUME RingInv, NEW r \in Recorders, Swap(r)
  PROVE  LET n == rec[r].sequence IN
           /\ n \in 0..(cursor - 1) /\ Slot(n) \in Indices
           /\ slots' = [slots EXCEPT ![Slot(n)] = Stamped(n, truth[n])]
           /\ slots[Slot(n)].full => slots[Slot(n)].sequence <= n
<1> DEFINE n == rec[r].sequence
<1>1. n \in 0..(cursor - 1) /\ cursor \in Nat /\ rec[r].seen \in SlotWords
  BY DEF Swap, RingInv, RingType, RecordersAreWell, RecorderIsWell, Idle, Reserved
<1>2. Slot(n) \in Indices
  BY <1>1, SlotIsIndex
<1>3. rec[r].seen.full => rec[r].seen.sequence <= n
  BY <1>1, WordCases DEF Swap, IsNewer
<1> QED BY <1>1, <1>2, <1>3 DEF Swap

LEMMA SwapKeepsRing ==
  ASSUME RingInv, NEW r \in Recorders, Swap(r)
  PROVE  RingInv'
<1> DEFINE n == rec[r].sequence
           i == Slot(n)
<1>1. /\ n \in 0..(cursor - 1) /\ i \in Indices
      /\ slots' = [slots EXCEPT ![i] = Stamped(n, truth[n])]
      /\ slots[i].full => slots[i].sequence <= n
  BY SwapIsForward
<1>2. /\ rec' = [rec EXCEPT ![r] = Idle] /\ returned' = returned \cup {n}
      /\ UNCHANGED <<cursor, truth>>
  BY DEF Swap
<1>3. /\ cursor \in 0..MaxSequence /\ slots \in [Indices -> SlotWords]
      /\ truth \in [0..(cursor - 1) -> BOOLEAN] /\ returned \subseteq 0..(cursor - 1)
  BY DEF RingInv, RingType
<1>4. i = Slot(n)
  OBVIOUS
<1>5. Stamped(n, truth[n]) \in SlotWords
  BY <1>1, <1>3 DEF Stamped, SlotWords, SequenceNumbers
<1> HIDE DEF i
<1>6. RingType'
  BY <1>1, <1>2, <1>3, <1>5 DEF RingType
<1>7. SlotsAreObservations'
  <2> SUFFICES ASSUME NEW j \in Indices PROVE IsObservation(slots[j], j)'
    BY DEF SlotsAreObservations
  <2>1. CASE j = i
    BY <1>1, <1>2, <1>3, <1>4, <1>5, <2>1 DEF IsObservation, Stamped
  <2>2. CASE j # i
    BY <1>1, <1>2, <1>3, <2>2 DEF IsObservation, RingInv, SlotsAreObservations
  <2> QED BY <2>1, <2>2
<1>8. \A j \in Indices : \A m \in 0..(cursor - 1) :
        AtLeast(slots[j], m) => AtLeast(slots'[j], m)
  <2> SUFFICES ASSUME NEW j \in Indices, NEW m \in 0..(cursor - 1), AtLeast(slots[j], m)
               PROVE  AtLeast(slots'[j], m)
    OBVIOUS
  <2>1. slots[j].full /\ slots[j].sequence >= m /\ slots[j].sequence \in Nat
    BY <1>3, WordCases DEF AtLeast
  <2>2. CASE j = i
    BY <1>1, <1>3, <2>1, <2>2 DEF AtLeast, Stamped
  <2>3. CASE j # i
    BY <1>1, <1>3, <2>1, <2>3 DEF AtLeast
  <2> QED BY <2>2, <2>3
<1>9. ReturnedAreKept'
  <2> SUFFICES ASSUME NEW m \in returned' PROVE AtLeast(slots'[Slot(m)], m)
    BY DEF ReturnedAreKept, AtLeast
  <2>1. CASE m = n
    BY <1>1, <1>3, <1>4, <2>1 DEF AtLeast, Stamped
  <2>2. CASE m # n
    <3>1. m \in returned /\ m \in 0..(cursor - 1) /\ Slot(m) \in Indices
      BY <1>2, <1>3, <2>2, SlotIsIndex
    <3> QED BY <1>8, <3>1 DEF RingInv, ReturnedAreKept
  <2> QED BY <2>1, <2>2
<1>10. RecordersAreWell'
  <2> SUFFICES ASSUME NEW q \in Recorders PROVE RecorderIsWell(q)'
    BY <1>2 DEF RingInv, RecordersAreWell
  <2>1. CASE q = r
    BY <1>2, <2>1 DEF RecorderIsWell, RingInv, RecordersAreWell
  <2>2. CASE q # r
    <3>1. rec'[q] = rec[q] /\ RecorderIsWell(q)
      BY <1>2, <2>2 DEF RingInv, RecordersAreWell
    <3>2. CASE rec[q] = Trying(rec[q].sequence, rec[q].seen)
      <4> DEFINE k == rec[q].sequence
                 w == rec[q].seen
      <4>1. k \in 0..(cursor - 1) /\ w \in SlotWords /\ (w.full => AtLeast(slots[Slot(k)], w.sequence))
        BY <3>1, <3>2 DEF RecorderIsWell, Trying, Idle, Reserved
      <4>2. Slot(k) \in Indices
        BY <1>3, <4>1, SlotIsIndex
      <4>3. w.full => w.sequence \in 0..(cursor - 1)
        <5>1. w.full => w.sequence \in Nat
          BY <4>1, WordCases
        <5>2. IsObservation(slots[Slot(k)], Slot(k))
          BY <4>2 DEF RingInv, SlotsAreObservations
        <5>3. slots[Slot(k)].full => slots[Slot(k)].sequence \in Nat
          BY <5>2, WordCases DEF IsObservation
        <5> QED BY <1>3, <4>1, <5>1, <5>2, <5>3 DEF AtLeast, IsObservation
      <4>4. w.full => AtLeast(slots'[Slot(k)], w.sequence)
        BY <1>8, <4>1, <4>2, <4>3
      <4> QED BY <1>2, <3>1, <3>2, <4>1, <4>4 DEF RecorderIsWell, Trying, AtLeast
    <3>3. CASE rec[q] # Trying(rec[q].sequence, rec[q].seen)
      BY <1>2, <3>1, <3>3 DEF RecorderIsWell, Idle, Reserved
    <3> QED BY <3>2, <3>3
  <2> QED BY <2>1, <2>2
<1> QED BY <1>6, <1>7, <1>9, <1>10 DEF RingInv

LEMMA RingStays ==
  ASSUME RingInv, UNCHANGED <<cursor, slots, rec, truth, returned>> PROVE RingInv'
BY DEF RingInv, RingType, SlotsAreObservations, IsObservation, RecordersAreWell, RecorderIsWell,
       ReturnedAreKept, AtLeast

LEMMA StepKeepsRing == RingInv /\ [AuditNext]_auditVars => RingInv'
<1> SUFFICES ASSUME RingInv, [AuditNext]_auditVars PROVE RingInv'
  OBVIOUS
<1>1. CASE \E r \in Recorders, mismatch \in BOOLEAN : Reserve(r, mismatch)
  BY <1>1, ReserveKeepsRing
<1>2. CASE \E r \in Recorders : RecordStep(r)
  BY <1>2, LookKeepsRing, GiveUpKeepsRing, SwapKeepsRing DEF RecordStep
<1>3. CASE SnapshotBegin \/ ScanSlot \/ UNCHANGED auditVars
  BY <1>3, RingStays DEF SnapshotBegin, ScanSlot, auditVars
<1> QED BY <1>1, <1>2, <1>3 DEF AuditNext

(***************************************************************************)
(* The ring keeps its invariant: its slots hold reserved observations in   *)
(* their places, and of each that returned the slot has it or a newer one. *)
(***************************************************************************)
THEOREM RingInvariant == AuditSpec => []RingInv
BY RingInit, StepKeepsRing, PTL DEF AuditSpec

(***************************************************************************)
(* What returned and is of the last WindowSize observations is in its slot,*)
(* even while other recorders run.                                         *)
(***************************************************************************)
THEOREM RingKeepsItsWindow ==
  AuditSpec => [](\A n \in Window(cursor) \cap returned : slots[Slot(n)] = Stamped(n, truth[n]))
<1>1. ASSUME RingInv, NEW n \in Window(cursor) \cap returned
      PROVE  slots[Slot(n)] = Stamped(n, truth[n])
  <2> DEFINE w == slots[Slot(n)]
  <2>1. n \in 0..(cursor - 1) /\ cursor \in Nat /\ cursor <= n + WindowSize
    BY <1>1 DEF RingInv, RingType, Window, WindowStart
  <2>2. Slot(n) \in Indices /\ w \in SlotWords /\ IsObservation(w, Slot(n)) /\ AtLeast(w, n)
    BY <1>1, <2>1, SlotIsIndex DEF RingInv, RingType, SlotsAreObservations, ReturnedAreKept
  <2> HIDE DEF w
  <2>3. w.sequence \in Nat /\ w.sequence >= n /\ w.sequence < cursor /\ Slot(w.sequence) = Slot(n)
    BY <2>2, WordCases DEF AtLeast, IsObservation
  <2>4. w.sequence = n
    BY <2>1, <2>3, ApartByWindow
  <2>5. w = [full |-> TRUE, sequence |-> w.sequence, mismatch |-> w.mismatch]
    <3>1. w # Empty
      BY <2>2 DEF AtLeast, Empty
    <3>2. w \in [full: {TRUE}, sequence: SequenceNumbers, mismatch: BOOLEAN]
      BY <2>2, <3>1 DEF SlotWords
    <3> QED BY <3>2
  <2> QED BY <2>2, <2>4, <2>5 DEF AtLeast, IsObservation, Stamped, w
<1>2. RingInv => \A n \in Window(cursor) \cap returned : slots[Slot(n)] = Stamped(n, truth[n])
  BY <1>1
<1> QED BY <1>2, RingInvariant, PTL

(***************************************************************************)
(* In particular once every record() has returned.                         *)
(***************************************************************************)
THEOREM QuietRingStaysWindow == AuditSpec => []QuietRingIsWindow
<1>1. (\A n \in Window(cursor) \cap returned : slots[Slot(n)] = Stamped(n, truth[n]))
        => QuietRingIsWindow
  BY DEF QuietRingIsWindow
<1> QED BY <1>1, RingKeepsItsWindow, PTL

(***************************************************************************)
(* A slot only goes forward, however late a recorder of an older lap wakes *)
(* up: the compare-and-swap is of the very word whose number it looked at. *)
(***************************************************************************)
THEOREM SlotsGoForward == AuditSpec => SlotsNeverGoBack
<1>1. ASSUME RingInv, [AuditNext]_auditVars
      PROVE  [\A i \in Indices :
                slots[i].full => /\ slots'[i].full
                                 /\ slots'[i].sequence >= slots[i].sequence]_slots
  <2>1. CASE \E r \in Recorders : Swap(r)
    <3>1. PICK r \in Recorders : Swap(r)
      BY <2>1
    <3> DEFINE n == rec[r].sequence
    <3>2. /\ n \in 0..(cursor - 1) /\ Slot(n) \in Indices
          /\ slots' = [slots EXCEPT ![Slot(n)] = Stamped(n, truth[n])]
          /\ slots[Slot(n)].full => slots[Slot(n)].sequence <= n
      BY <1>1, <3>1, SwapIsForward
    <3> SUFFICES ASSUME NEW i \in Indices, slots[i].full
                 PROVE  slots'[i].full /\ slots'[i].sequence >= slots[i].sequence
      OBVIOUS
    <3>3. slots \in [Indices -> SlotWords] /\ slots[i].sequence \in Nat /\ cursor \in Nat
      BY <1>1, WordCases DEF RingInv, RingType
    <3> HIDE DEF n
    <3> QED BY <3>2, <3>3 DEF Stamped
  <2>2. (\E r \in Recorders : Swap(r)) \/ UNCHANGED slots
    BY <1>1 DEF AuditNext, Reserve, RecordStep, LoadSlot, GiveUp, Retry, SnapshotBegin, ScanSlot, auditVars
  <2> QED BY <2>1, <2>2
<1>2. RingInv /\ [AuditNext]_auditVars =>
        [\A i \in Indices :
           slots[i].full => /\ slots'[i].full
                            /\ slots'[i].sequence >= slots[i].sequence]_slots
  BY <1>1
<1> QED BY <1>2, RingInvariant, PTL DEF AuditSpec, SlotsNeverGoBack
-----------------------------------------------------------------------------
ScanType ==
  snap \in [pc: {"idle", "scan"}, end: 0..cursor, index: 0..WindowSize, observed: Nat,
            mismatches: Nat, counted: SUBSET (0..(cursor - 1)), before: SUBSET returned]

\* The slots before snap.index have been looked at.
CountedAreScanned == \A n \in snap.counted : Slot(n) < snap.index
MissedAreUncertain ==
  \A n \in Window(snap.end) \ snap.counted :
    Slot(n) < snap.index => n \notin snap.before \/ cursor > n + WindowSize

ScanInv ==
  /\ ScanType /\ (snap.pc = "scan" => snap.index < WindowSize)
  /\ SnapshotCountsWindow /\ CountedAreScanned /\ MissedAreUncertain

\* A window is finite, and so is what was counted of it.
LEMMA WindowIsFinite ==
  ASSUME NEW end \in Nat, NEW S, S \subseteq Window(end) PROVE IsFiniteSet(S)
<1>1. WindowStart(end) \in Int /\ end - 1 \in Int
  BY DEF WindowStart
<1>2. IsFiniteSet(Window(end))
  BY <1>1, FS_Interval DEF Window
<1> QED BY <1>2, FS_Subset

LEMMA ScanInit == AuditInit => ScanInv
<1> SUFFICES ASSUME AuditInit PROVE ScanInv
  OBVIOUS
<1>1. cursor \in Nat
  BY DEF AuditInit
<1>2. snap = [pc |-> "idle", end |-> 0, index |-> 0, observed |-> 0,
              mismatches |-> 0, counted |-> {}, before |-> {}]
  BY DEF AuditInit
<1>3. Cardinality({}) = 0
  BY FS_EmptySet
<1>4. {n \in {} : truth[n]} = {}
  OBVIOUS
<1>5. SnapshotCountsWindow
  BY <1>2, <1>3, <1>4 DEF SnapshotCountsWindow, MismatchesIn
<1>6. Window(0) = {}
  BY DEF Window, WindowStart
<1> QED BY <1>1, <1>2, <1>5, <1>6 DEF ScanInv, ScanType, CountedAreScanned, MissedAreUncertain

\* Steps of recorders add observations and returned calls only.
LEMMA RecordKeepsScan ==
  ASSUME RingInv, ScanInv, UNCHANGED snap, cursor' \in Nat, cursor <= cursor',
         returned \subseteq returned', \A n \in 0..(cursor - 1) : truth'[n] = truth[n]
  PROVE  ScanInv'
<1>1. cursor \in Nat
  BY DEF RingInv, RingType
<1>2. ScanType'
  BY <1>1 DEF ScanInv, ScanType
<1>3. SnapshotCountsWindow'
  <2>1. snap.counted \subseteq 0..(cursor - 1)
    BY DEF ScanInv, ScanType
  <2>2. {n \in snap.counted : truth'[n]} = {n \in snap.counted : truth[n]}
    BY <2>1
  <2> QED BY <2>2 DEF ScanInv, SnapshotCountsWindow, MismatchesIn
<1>4. MissedAreUncertain'
  <2> SUFFICES ASSUME NEW n \in Window(snap.end) \ snap.counted,
                      Slot(n) < snap.index, n \in snap.before
               PROVE  cursor' > n + WindowSize
    BY DEF MissedAreUncertain
  <2>1. cursor > n + WindowSize /\ n \in Nat
    BY <1>1 DEF ScanInv, ScanType, MissedAreUncertain, RingInv, RingType
  <2> QED BY <1>1, <2>1
<1> QED BY <1>2, <1>3, <1>4 DEF ScanInv, CountedAreScanned

LEMMA BeginKeepsScan ==
  ASSUME RingInv, ScanInv, SnapshotBegin PROVE ScanInv'
<1>1. snap' = [pc |-> "scan", end |-> cursor, index |-> 0, observed |-> 0,
               mismatches |-> 0, counted |-> {}, before |-> returned]
      /\ UNCHANGED <<cursor, truth, returned>>
  BY DEF SnapshotBegin
<1>2. cursor \in Nat
  BY DEF RingInv, RingType
<1>3. Cardinality({}) = 0 /\ {n \in {} : truth'[n]} = {}
  BY FS_EmptySet
<1>4. SnapshotCountsWindow'
  BY <1>1, <1>3 DEF SnapshotCountsWindow, MismatchesIn
<1>5. \A n \in Window(cursor) : ~(Slot(n) < 0)
  <2> SUFFICES ASSUME NEW n \in Window(cursor) PROVE Slot(n) \in Nat
    OBVIOUS
  <2>1. n \in Nat
    BY <1>2 DEF Window, WindowStart
  <2> QED BY <2>1, SlotIsIndex DEF Indices
<1> QED BY <1>1, <1>2, <1>4, <1>5 DEF ScanInv, ScanType, CountedAreScanned, MissedAreUncertain

\* The scan looks at a slot: it counts an observation of its window that it has
\* not counted, and what it leaves out there was overwritten or not yet certain.
LEMMA ScanKeepsScan ==
  ASSUME RingInv, ScanInv, ScanSlot PROVE ScanInv'
<1> DEFINE w == slots[snap.index]
           hit == Counts(w, snap.end)
<1>1. /\ snap.pc = "scan" /\ snap.index \in 0..(WindowSize - 1) /\ cursor \in Nat
      /\ snap.end \in 0..cursor /\ snap.observed \in Nat /\ snap.mismatches \in Nat
      /\ snap.counted \subseteq 0..(cursor - 1) /\ snap.before \subseteq returned
  BY DEF ScanSlot, ScanInv, ScanType, RingInv, RingType
<1>2. /\ snap' = [snap EXCEPT
           !.pc = IF snap.index + 1 = WindowSize THEN "idle" ELSE "scan",
           !.index = @ + 1,
           !.observed = IF hit THEN @ + 1 ELSE @,
           !.mismatches = IF hit /\ w.mismatch THEN @ + 1 ELSE @,
           !.counted = IF hit THEN @ \cup {w.sequence} ELSE @]
      /\ UNCHANGED <<cursor, slots, truth, returned>>
  BY DEF ScanSlot
<1>3. snap.index \in Indices /\ IsObservation(w, snap.index) /\ w \in SlotWords
  BY <1>1 DEF Indices, RingInv, RingType, SlotsAreObservations
<1>4. /\ snap'.end = snap.end /\ snap'.before = snap.before /\ snap'.index = snap.index + 1
      /\ snap'.pc \in {"idle", "scan"} /\ (snap'.pc = "scan" => snap'.index < WindowSize)
      /\ snap'.observed = (IF hit THEN snap.observed + 1 ELSE snap.observed)
      /\ snap'.mismatches = (IF hit /\ w.mismatch THEN snap.mismatches + 1 ELSE snap.mismatches)
      /\ snap'.counted = (IF hit THEN snap.counted \cup {w.sequence} ELSE snap.counted)
      /\ snap' = [pc |-> snap'.pc, end |-> snap'.end, index |-> snap'.index,
                  observed |-> snap'.observed, mismatches |-> snap'.mismatches,
                  counted |-> snap'.counted, before |-> snap'.before]
  <2> HIDE DEF hit, w
  <2>1. snap \in [pc: {"idle", "scan"}, end: 0..cursor, index: 0..WindowSize, observed: Nat,
                  mismatches: Nat, counted: SUBSET (0..(cursor - 1)), before: SUBSET returned]
    BY DEF ScanInv, ScanType
  <2>2. snap' = [pc |-> IF snap.index + 1 = WindowSize THEN "idle" ELSE "scan",
                 end |-> snap.end, index |-> snap.index + 1,
                 observed |-> IF hit THEN snap.observed + 1 ELSE snap.observed,
                 mismatches |-> IF hit /\ w.mismatch THEN snap.mismatches + 1 ELSE snap.mismatches,
                 counted |-> IF hit THEN snap.counted \cup {w.sequence} ELSE snap.counted,
                 before |-> snap.before]
    BY <1>2, <2>1
  <2>3. snap'.pc = "scan" => snap.index + 1 < WindowSize
    BY <1>1, <2>2
  <2> QED BY <2>2, <2>3
<1>5. hit => /\ w.full /\ w.sequence \in Window(snap.end) /\ w.sequence \in 0..(cursor - 1)
             /\ Slot(w.sequence) = snap.index /\ w.mismatch = truth[w.sequence]
  <2> SUFFICES ASSUME hit
               PROVE /\ w.full /\ w.sequence \in Window(snap.end) /\ w.sequence \in 0..(cursor - 1)
                     /\ Slot(w.sequence) = snap.index /\ w.mismatch = truth[w.sequence]
    OBVIOUS
  <2>1. w.full /\ w.sequence \in Nat /\ w.sequence >= WindowStart(snap.end) /\ w.sequence < snap.end
    BY <1>3, WordCases DEF Counts
  <2>2. w.sequence \in Window(snap.end)
    BY <1>1, <2>1 DEF Window, WindowStart
  <2> QED BY <1>1, <1>3, <2>1, <2>2 DEF IsObservation
<1> HIDE DEF w, hit
<1>6. ScanType'
  <2>1. /\ snap'.index \in 0..WindowSize /\ snap'.observed \in Nat /\ snap'.mismatches \in Nat
        /\ snap'.counted \in SUBSET (0..(cursor - 1))
    BY <1>1, <1>4, <1>5
  <2> QED BY <1>1, <1>2, <1>4, <2>1 DEF ScanType
<1>7. hit => w.sequence \notin snap.counted
  BY <1>1, <1>5 DEF ScanInv, CountedAreScanned
<1>8. SnapshotCountsWindow'
  <2> DEFINE S == snap.counted
             n == w.sequence
             B == {m \in S : truth[m]}
  <2>1. /\ S \subseteq Window(snap.end) /\ snap.observed = Cardinality(S)
        /\ snap.mismatches = Cardinality(B)
    BY DEF ScanInv, SnapshotCountsWindow, MismatchesIn
  <2>2. IsFiniteSet(S) /\ IsFiniteSet(B)
    BY <1>1, <2>1, WindowIsFinite, FS_Subset
  <2>3. CASE hit
    <3>1. snap'.counted = S \cup {n} /\ S \cup {n} \subseteq Window(snap.end)
      BY <1>4, <1>5, <2>1, <2>3
    <3>2. Cardinality(S \cup {n}) = snap.observed + 1
      BY <1>7, <2>1, <2>2, <2>3, FS_AddElement
    <3>3. CASE truth[n]
      <4>1. {m \in S \cup {n} : truth[m]} = B \cup {n}
        BY <3>3
      <4>2. n \notin B
        BY <1>7, <2>3
      <4>3. Cardinality(B \cup {n}) = snap.mismatches + 1
        BY <2>1, <2>2, <4>2, FS_AddElement
      <4>4. w.mismatch
        BY <1>5, <2>3, <3>3
      <4>5. snap'.mismatches = snap.mismatches + 1 /\ snap'.observed = snap.observed + 1
        BY <1>4, <2>3, <4>4
      <4>6. MismatchesIn(snap.counted)' = snap.mismatches + 1
        BY <1>2, <3>1, <4>1, <4>3 DEF MismatchesIn
      <4> QED BY <1>4, <3>1, <3>2, <4>5, <4>6 DEF SnapshotCountsWindow
    <3>4. CASE ~truth[n]
      <4>1. {m \in S \cup {n} : truth[m]} = B
        BY <3>4
      <4>2. snap'.mismatches = snap.mismatches /\ snap'.observed = snap.observed + 1
        BY <1>4, <1>5, <2>3, <3>4
      <4>3. MismatchesIn(snap.counted)' = snap.mismatches
        BY <1>2, <2>1, <3>1, <4>1 DEF MismatchesIn
      <4> QED BY <1>4, <3>1, <3>2, <4>2, <4>3 DEF SnapshotCountsWindow
    <3> QED BY <3>3, <3>4
  <2>4. CASE ~hit
    BY <1>2, <1>4, <2>1, <2>4 DEF SnapshotCountsWindow, MismatchesIn
  <2> QED BY <2>3, <2>4
<1>9. CountedAreScanned'
  <2> SUFFICES ASSUME NEW n \in snap'.counted PROVE Slot(n) < snap.index + 1
    BY <1>4 DEF CountedAreScanned
  <2>1. CASE n \in snap.counted
    <3>1. Slot(n) < snap.index /\ Slot(n) \in Int
      BY <1>1, <2>1, SlotIsIndex DEF ScanInv, CountedAreScanned, Indices
    <3> QED BY <1>1, <3>1
  <2>2. CASE n \notin snap.counted
    <3>1. Slot(n) = snap.index
      BY <1>4, <1>5, <2>2
    <3> QED BY <1>1, <3>1
  <2> QED BY <2>1, <2>2
<1>10. MissedAreUncertain'
  <2> SUFFICES ASSUME NEW n \in Window(snap.end), n \notin snap'.counted,
                      Slot(n) < snap.index + 1, n \in snap.before
               PROVE  cursor > n + WindowSize
    BY <1>2, <1>4 DEF MissedAreUncertain
  <2>1. n \in Nat /\ n >= WindowStart(snap.end) /\ n < snap.end /\ Slot(n) \in Indices
    <3>1. n \in Nat /\ n >= WindowStart(snap.end) /\ n < snap.end
      BY <1>1 DEF Window, WindowStart
    <3> QED BY <3>1, SlotIsIndex
  <2>2. CASE Slot(n) < snap.index
    BY <1>4, <2>2 DEF ScanInv, MissedAreUncertain
  <2>3. CASE Slot(n) = snap.index
    <3>1. AtLeast(w, n)
      BY <1>1, <2>3 DEF w, RingInv, ReturnedAreKept
    <3>2. w.full /\ w.sequence \in Nat /\ w.sequence >= n /\ w.sequence < cursor
          /\ Slot(w.sequence) = Slot(n)
      BY <1>3, <2>3, <3>1, WordCases DEF AtLeast, IsObservation
    <3>3. WindowStart(snap.end) \in Nat /\ snap.end <= WindowStart(snap.end) + WindowSize
      BY <1>1 DEF WindowStart
    <3>4. w.sequence # n
      <4> SUFFICES ASSUME w.sequence = n PROVE FALSE
        OBVIOUS
      <4>1. hit
        BY <2>1, <3>2 DEF hit, Counts
      <4> QED BY <1>4, <4>1
    <3>5. w.sequence >= n + WindowSize
      BY <2>1, <3>2, <3>4, ApartByWindow
    <3> QED BY <1>1, <2>1, <3>2, <3>5
  <2>4. Slot(n) <= snap.index
    BY <1>1, <2>1 DEF Indices
  <2> QED BY <1>1, <2>1, <2>2, <2>3, <2>4 DEF Indices
<1> QED BY <1>4, <1>6, <1>8, <1>9, <1>10 DEF ScanInv

LEMMA StepKeepsScan == RingInv /\ ScanInv /\ [AuditNext]_auditVars => ScanInv'
<1> SUFFICES ASSUME RingInv, ScanInv, [AuditNext]_auditVars PROVE ScanInv'
  OBVIOUS
<1>1. cursor \in Nat
  BY DEF RingInv, RingType
<1>2. CASE \E r \in Recorders, mismatch \in BOOLEAN : Reserve(r, mismatch)
  BY <1>1, <1>2, RecordKeepsScan DEF Reserve
<1>3. CASE \E r \in Recorders : RecordStep(r)
  BY <1>1, <1>3, RecordKeepsScan DEF RecordStep, LoadSlot, GiveUp, Swap, Retry
<1>4. CASE SnapshotBegin
  BY <1>4, BeginKeepsScan
<1>5. CASE ScanSlot
  BY <1>5, ScanKeepsScan
<1>6. CASE UNCHANGED auditVars
  BY <1>1, <1>6, RecordKeepsScan DEF auditVars
<1> QED BY <1>2, <1>3, <1>4, <1>5, <1>6 DEF AuditNext

(***************************************************************************)
(* Whatever recorders do while it runs, a snapshot counts each observation *)
(* of its window once and with its verdict, and leaves out none that had   *)
(* returned when it began and was not overwritten while it ran.            *)
(***************************************************************************)
THEOREM SnapshotsStayFaithful == AuditSpec => []SnapshotIsFaithful
<1>1. AuditSpec => []ScanInv
  BY ScanInit, StepKeepsScan, RingInvariant, PTL DEF AuditSpec
<1>2. RingInv /\ ScanInv => SnapshotIsFaithful
  <2> SUFFICES ASSUME RingInv, ScanInv PROVE SnapshotIsFaithful
    OBVIOUS
  <2>1. ASSUME SnapshotTaken, NEW n \in Window(snap.end) \ snap.counted
        PROVE  n \notin snap.before \/ cursor > n + WindowSize
    <3>1. n \in Nat
      BY DEF ScanInv, ScanType, RingInv, RingType, Window, WindowStart
    <3>2. Slot(n) < snap.index
      BY <2>1, <3>1, SlotIsIndex DEF SnapshotTaken, Indices
    <3> QED BY <2>1, <3>2 DEF ScanInv, MissedAreUncertain
  <2> QED BY <2>1 DEF SnapshotIsFaithful, SnapshotMissesOnlyUncertain, ScanInv
<1> QED BY <1>1, <1>2, RingInvariant, PTL

-----------------------------------------------------------------------------
(* The bounded process                                                     *)

Places == {"start", "setup", "loop", "get", "drained", "wait", "finally", "close", "join", "returned"}

ProcessTypes ==
  /\ clock \in Nat /\ cleanup \in Nat
  /\ proc \in {"none", "alive"} \union Ended
  /\ kin \in {"none", "alive", "gone"}
  /\ doomed \subseteq {"proc", "kin"} /\ attached \in BOOLEAN /\ closed \subseteq Streams
  /\ pipe \in [Streams -> Nat] /\ wrote \in [Streams -> Nat] /\ output \in [Streams -> Nat]
  /\ reader \in [Streams -> [at : {"read", "emit", "end", "done"}, have : Nat]]
  /\ chunks \in Seq([s : Streams, n : Nat])
  /\ finished \in Nat /\ stop \in BOOLEAN /\ contained \in BOOLEAN /\ pc \in Places
  /\ failure \in {"none", "Cancelled", "Timeout", "OutputLimit", "Drain", "Interrupted"}
  /\ result \in {"none", "Launch", "Cancelled", "Timeout", "OutputLimit", "Drain", "Interrupted",
                 "Abandoned"} \union Ended

\* Before the finally block closes anything.
Open == pc \in {"start", "setup", "loop", "get", "drained", "wait", "finally"}
OpenIsOpen == Open => ~stop /\ closed = {}

\* Nobody will ever write to either stream again.
Silent == proc # "none" /\ ~(Running /\ attached) /\ kin # "alive"

TreeIsOwned ==
  /\ pc = "start" => proc = "none" /\ kin = "none" /\ doomed = {} /\ result = "none"
  /\ proc = "none" => kin = "none" /\ pc \in {"start", "returned"} /\ (pc = "returned" => result = "Launch")
  /\ pc \in {"close", "join", "returned"} /\ result # "Abandoned" => Killed
  /\ pc # "returned" => result = "none"

\* A reader that found the end has nothing in hand, and there is nothing to come.
EndedIsSilent ==
  Open =>
    \A s \in Streams :
      /\ reader[s].at = "emit" => reader[s].have > 0
      /\ reader[s].at \in {"end", "done"} => reader[s].have = 0 /\ pipe[s] = 0 /\ Silent

IsMarker(i) == chunks[i].n = 0

\* The caller has taken the end marker of s.
Taken(s) ==
  /\ reader[s].at = "done"
  /\ \A i \in 1..Len(chunks) : chunks[i].s = s => ~IsMarker(i)

Took(s) == IF Taken(s) THEN 1 ELSE 0

\* An end marker is its reader's last item, and what is taken is counted.
QueueIsOrdered ==
  Open =>
    /\ \A i \in 1..Len(chunks) :
         IsMarker(i) =>
           /\ reader[chunks[i].s].at = "done"
           /\ \A j \in 1..Len(chunks) : chunks[j].s = chunks[i].s => j <= i
    /\ \A s \in Streams : Taken(s) => \A i \in 1..Len(chunks) : chunks[i].s # s
    /\ finished = Took("stdout") + Took("stderr")

\* The units of s in the queue, added up item by item from the output.
RunningTotals(s, totals) ==
  /\ totals \in [0..Len(chunks) -> Nat]
  /\ totals[0] = output[s]
  /\ \A i \in 1..Len(chunks) :
       totals[i] = totals[i - 1] + (IF chunks[i].s = s THEN chunks[i].n ELSE 0)
  /\ wrote[s] = totals[Len(chunks)] + reader[s].have + pipe[s]

Conserved ==
  Open /\ failure = "none" =>
    \A s \in Streams : \E totals \in [0..Len(chunks) -> Nat] : RunningTotals(s, totals)

WithinBudget == Total(output) <= Budget

Whole == Silent /\ output = wrote

\* Why a failure was recorded, and what no failure means after the loop.
FailureIsEarned ==
  /\ failure = "none" => cleanup = Deadline
  /\ failure = "Timeout" => clock >= ExecutionDeadline
  /\ failure = "OutputLimit" => Total(wrote) > Budget
  /\ failure = "Drain" => clock >= Deadline
  /\ failure = "none" =>
       /\ pc = "drained" => finished = 2 \/ clock >= Deadline
       /\ pc \in {"wait", "finally", "close", "join"} => Whole
       /\ pc \in {"finally", "close", "join"} => ~Running

ResultIsEarned ==
  /\ result \in Ended => Whole
  /\ result = "Timeout" => clock >= ExecutionDeadline
  /\ result = "OutputLimit" => Total(wrote) > Budget
  /\ result = "Drain" => clock >= Deadline

ProcessInv ==
  /\ ProcessTypes /\ OpenIsOpen /\ TreeIsOwned /\ EndedIsSilent /\ QueueIsOrdered
  /\ Conserved /\ WithinBudget /\ FailureIsEarned /\ ResultIsEarned

-----------------------------------------------------------------------------
(***************************************************************************)
(* Types                                                                   *)
(***************************************************************************)

\* A reader's move keeps the readers' type and leaves the other reader alone.
LEMMA MoveIs ==
  ASSUME ProcessTypes, NEW s \in Streams, NEW at \in {"read", "emit", "end", "done"},
         NEW have \in Nat, Move(s, at, have)
  PROVE  /\ reader' \in [Streams -> [at : {"read", "emit", "end", "done"}, have : Nat]]
         /\ reader'[s] = [at |-> at, have |-> have]
         /\ \A t \in Streams : t # s => reader'[t] = reader[t]
BY DEF Move, ProcessTypes

\* Where a reader is after an item, whether it was put or given up.
LEMMA AfterEmitIs ==
  ASSUME ProcessTypes, NEW s \in Streams, AfterEmit(s)
  PROVE  /\ reader' \in [Streams -> [at : {"read", "emit", "end", "done"}, have : Nat]]
         /\ reader'[s].have = 0 /\ reader'[s].at \in {"read", "end", "done"}
         /\ reader[s].at = "end" <=> reader'[s].at = "done"
         /\ reader[s].at # "end" /\ s \notin closed => reader'[s].at = "read"
         /\ \A t \in Streams : t # s => reader'[t] = reader[t]
<1> DEFINE at == IF reader[s].at = "end" THEN "done" ELSE IF s \in closed THEN "end" ELSE "read"
<1>1. at \in {"read", "end", "done"} /\ (at = "done" <=> reader[s].at = "end")
      /\ (reader[s].at # "end" /\ s \notin closed => at = "read")
  OBVIOUS
<1>2. Move(s, at, 0)
  BY DEF AfterEmit
<1> HIDE DEF at
<1>3. /\ reader' \in [Streams -> [at : {"read", "emit", "end", "done"}, have : Nat]]
      /\ reader'[s] = [at |-> at, have |-> 0]
      /\ \A t \in Streams : t # s => reader'[t] = reader[t]
  BY <1>1, <1>2, MoveIs
<1> QED BY <1>1, <1>3

\* The first item of a queue and what is left of it.
LEMMA QueueIs ==
  ASSUME ProcessTypes, chunks # <<>>
  PROVE  /\ Len(chunks) \in Nat /\ Len(chunks) >= 1
         /\ Head(chunks) = chunks[1] /\ chunks[1] \in [s : Streams, n : Nat]
         /\ Tail(chunks) \in Seq([s : Streams, n : Nat])
         /\ Len(Tail(chunks)) = Len(chunks) - 1
         /\ \A i \in 1..(Len(chunks) - 1) : Tail(chunks)[i] = chunks[i + 1]
<1>1. chunks \in Seq([s : Streams, n : Nat]) /\ Len(chunks) \in Nat /\ Len(chunks) >= 1
  BY EmptySeq DEF ProcessTypes
<1>2. Head(chunks) = chunks[1] /\ chunks[1] \in [s : Streams, n : Nat]
  <2>1. 1 \in 1..Len(chunks) /\ Len(chunks) \in 1..Len(chunks)
    BY <1>1
  <2>2. Head(SubSeq(chunks, 1, Len(chunks))) = chunks[1]
    BY <1>1, <2>1, HeadTailOfSubSeq
  <2>3. SubSeq(chunks, 1, Len(chunks)) = chunks
    BY <1>1, SubSeqFull
  <2>4. Head(chunks) = chunks[1]
    BY <2>2, <2>3, Zenon
  <2>5. chunks[1] \in [s : Streams, n : Nat]
    BY <1>1, <2>1, ElementOfSeq
  <2> QED BY <2>4, <2>5, Zenon
<1> QED BY <1>1, <1>2, HeadTailProperties

\* Time, the child and its descendant.
Environment == Tick \/ Spawn \/ Detach \/ Exit \/ Die \/ \E s \in Streams : Write(s)

\* The constants and the small operators, as the provers need them.
LEMMA Numbers ==
  /\ Budget \in Nat /\ Deadline \in Nat /\ CleanupReserve \in Nat /\ ReadSize \in Nat /\ ReadSize >= 1
  /\ Budget >= 1 /\ CleanupReserve < Deadline /\ ExecutionDeadline \in Nat
  /\ \A a, b \in Nat : Earlier(a, b) \in Nat /\ Earlier(a, b) <= a /\ Earlier(a, b) <= b
BY ProcessAssumption DEF Earlier, ExecutionDeadline

\* What the environment does has its type.
LEMMA EnvironmentTypes ==
  ASSUME ProcessTypes, Environment
  PROVE  ProcessTypes'
<1> USE DEF ProcessTypes, readerVars, callerVars, treeVars
<1>1. CASE Tick
  BY <1>1 DEF Tick
<1>2. CASE Spawn
  BY <1>2 DEF Spawn
<1>3. CASE Detach
  <2>1. /\ kin' \in {"none", "alive", "gone"} /\ attached' \in BOOLEAN
        /\ UNCHANGED <<clock, proc, doomed, pipe, wrote, readerVars, callerVars>>
    BY <1>3 DEF Detach
  <2> QED BY <2>1
<1>4. CASE Exit
  BY <1>4 DEF Exit, Running, Ended
<1>5. CASE Die
  BY <1>5 DEF Die, Running, Ended
<1>6. ASSUME NEW s \in Streams, Write(s) PROVE ProcessTypes'
  BY <1>6 DEF Write
<1> QED BY <1>1, <1>2, <1>3, <1>4, <1>5, <1>6 DEF Environment

\* What a reader does has its type.
LEMMA ReaderTypes ==
  ASSUME ProcessTypes, NEW s \in Streams, ReadStream(s)
  PROVE  ProcessTypes'
<1>1. reader[s] \in [at : {"read", "emit", "end", "done"}, have : Nat] /\ reader[s].have \in Nat
  BY DEF ProcessTypes
<1>2. CASE Fill(s)
  <2> DEFINE have == reader[s].have + 1
             at == IF have = ReadSize THEN "emit" ELSE "read"
  <2>1. Move(s, at, have) /\ at \in {"read", "emit", "end", "done"} /\ have \in Nat
    BY <1>1, <1>2 DEF Fill
  <2>2. reader' \in [Streams -> [at : {"read", "emit", "end", "done"}, have : Nat]]
    BY <2>1, MoveIs
  <2>3. pipe' \in [Streams -> Nat]
    BY <1>2 DEF Fill, ProcessTypes
  <2> QED BY <1>2, <2>2, <2>3 DEF Fill, ProcessTypes, callerVars
<1>3. CASE EndOfStream(s)
  <2> DEFINE at == IF reader[s].have > 0 THEN "emit" ELSE "end"
  <2>1. Move(s, at, reader[s].have) /\ at \in {"read", "emit", "end", "done"}
    BY <1>3 DEF EndOfStream
  <2>2. reader' \in [Streams -> [at : {"read", "emit", "end", "done"}, have : Nat]]
    BY <1>1, <2>1, MoveIs
  <2> QED BY <1>3, <2>2 DEF EndOfStream, ProcessTypes, treeVars, callerVars
<1>4. CASE Emit(s)
  <2>1. chunks' \in Seq([s : Streams, n : Nat])
    <3>1. [s |-> s, n |-> reader[s].have] \in [s : Streams, n : Nat]
      BY <1>1
    <3> QED BY <1>4, <3>1, AppendProperties DEF Emit, ProcessTypes
  <2>2. reader' \in [Streams -> [at : {"read", "emit", "end", "done"}, have : Nat]]
    BY <1>4, AfterEmitIs DEF Emit
  <2> QED BY <1>4, <2>1, <2>2 DEF Emit, ProcessTypes, treeVars, callerVars
<1>5. CASE DropEmit(s)
  <2>1. reader' \in [Streams -> [at : {"read", "emit", "end", "done"}, have : Nat]]
    BY <1>5, AfterEmitIs DEF DropEmit
  <2> QED BY <1>5, <2>1 DEF DropEmit, ProcessTypes, treeVars, callerVars
<1> QED BY <1>2, <1>3, <1>4, <1>5 DEF ReadStream

\* A termination of the boundary kills the child and, within it, its descendant.
LEMMA TerminatedIs ==
  ASSUME ProcessTypes
  PROVE  /\ Terminated \subseteq {"proc", "kin"} /\ doomed \subseteq Terminated
         /\ Running => "proc" \in Terminated
         /\ kin = "alive" /\ ~Escapes => "kin" \in Terminated
<1>1. Boundary \subseteq {"proc", "kin"} /\ "proc" \in Boundary /\ (~Escapes => "kin" \in Boundary)
  BY DEF Boundary
<1> QED BY <1>1 DEF Terminated, ProcessTypes

\* What the calling thread does has its type.
LEMMA CallerTypes ==
  ASSUME ProcessTypes, WithinBudget, Caller \/ Interrupt \/ Abandon
  PROVE  ProcessTypes'
<1> USE DEF readerVars, callerVars, treeVars
<1>1. CASE Start
  BY <1>1 DEF Start, ProcessTypes, Places
<1>2. CASE Loop
  <2>1. /\ doomed' \in {doomed, Terminated} /\ contained' \in BOOLEAN /\ pc' \in {"drained", "get"}
        /\ failure' \in {"Cancelled", "Timeout", failure}
        /\ cleanup' \in {Earlier(Deadline, clock + CleanupReserve), cleanup}
    <3>1. PICK asked \in BOOLEAN :
            LET watching == failure = "none" /\ ~contained
                cancel   == watching /\ asked
                timeout  == watching /\ ~asked /\ clock >= ExecutionDeadline /\ Running
                ended    == watching /\ ~asked /\ ~Running
            IN /\ failure' = CASE cancel -> "Cancelled" [] timeout -> "Timeout" [] OTHER -> failure
               /\ cleanup' = IF cancel THEN Earlier(Deadline, clock + CleanupReserve) ELSE cleanup
               /\ contained' = (contained \/ cancel \/ timeout \/ ended)
               /\ doomed' = IF cancel \/ timeout \/ ended THEN Terminated ELSE doomed
      BY <1>2 DEF Loop
    <3>2. contained' \in BOOLEAN
      BY <3>1
    <3>3. pc' \in {"drained", "get"}
      BY <1>2 DEF Loop
    <3>4. /\ doomed' \in {doomed, Terminated}
          /\ cleanup' \in {Earlier(Deadline, clock + CleanupReserve), cleanup}
      BY <3>1
    <3>5. failure' \in {"Cancelled", "Timeout", failure}
      BY <3>1
    <3> QED BY <3>2, <3>3, <3>4, <3>5
  <2>2. cleanup' \in Nat
    <3>1. clock + CleanupReserve \in Nat /\ cleanup \in Nat
      BY Numbers DEF ProcessTypes
    <3>2. Earlier(Deadline, clock + CleanupReserve) \in Nat
      BY <3>1, Numbers
    <3> QED BY <2>1, <3>1, <3>2
  <2>3. doomed' \subseteq {"proc", "kin"}
    BY <2>1, TerminatedIs DEF ProcessTypes
  <2> QED BY <1>2, <2>1, <2>2, <2>3 DEF Loop, ProcessTypes, Places
<1>3. CASE GetNothing
  BY <1>3 DEF GetNothing, ProcessTypes, Places
<1>4. CASE GetEndMarker
  <2>1. chunks' \in Seq([s : Streams, n : Nat])
    BY <1>4, QueueIs DEF GetEndMarker
  <2>2. finished' \in Nat /\ pc' \in Places
    BY <1>4 DEF GetEndMarker, ProcessTypes, Places
  <2>3. UNCHANGED <<clock, treeVars, reader, stop, closed, output, failure, cleanup, contained, result>>
    BY <1>4 DEF GetEndMarker
  <2> QED BY <2>1, <2>2, <2>3 DEF ProcessTypes
<1>5. CASE GetData
  <2> DEFINE item == Head(chunks)
             available == Budget - Total(output)
  <2>1. item \in [s : Streams, n : Nat] /\ available \in Nat /\ chunks' \in Seq([s : Streams, n : Nat])
    <3>1. Total(output) \in Nat
      BY DEF Total, ProcessTypes, Streams
    <3>2. available \in Nat
      <4>1. Total(output) <= Budget /\ Budget \in Nat
        BY Numbers DEF WithinBudget
      <4>2. \A a, b \in Nat : a <= b => b - a \in Nat
        OBVIOUS
      <4> QED BY <3>1, <4>1, <4>2
    <3> QED BY <1>5, <3>2, QueueIs DEF GetData
  <2>2. /\ output' = [output EXCEPT ![item.s] = @ + Earlier(item.n, available)]
        /\ failure' \in {"OutputLimit", failure}
        /\ cleanup' \in {Earlier(Deadline, clock + CleanupReserve), cleanup}
        /\ contained' \in BOOLEAN /\ doomed' \in {doomed, Terminated}
    <3>1. /\ output' = [output EXCEPT ![item.s] = @ + Earlier(item.n, available)]
          /\ failure' \in {"OutputLimit", failure}
          /\ cleanup' \in {Earlier(Deadline, clock + CleanupReserve), cleanup}
          /\ doomed' \in {doomed, Terminated}
      BY <1>5 DEF GetData
    <3>2. contained' = (contained \/ (item.n > available /\ failure = "none"))
      BY <1>5 DEF GetData
    <3> QED BY <3>1, <3>2
  <2> HIDE DEF item, available
  <2>3. output' \in [Streams -> Nat]
    <3>1. Earlier(item.n, available) \in Nat /\ item.s \in Streams
      BY <2>1, Numbers
    <3> QED BY <2>2, <3>1 DEF ProcessTypes
  <2>4. cleanup' \in Nat /\ doomed' \subseteq {"proc", "kin"}
    <3>1. clock + CleanupReserve \in Nat /\ cleanup \in Nat
      BY Numbers DEF ProcessTypes
    <3>2. Earlier(Deadline, clock + CleanupReserve) \in Nat
      BY <3>1, Numbers
    <3>3. doomed' \subseteq {"proc", "kin"}
      BY <2>2, TerminatedIs DEF ProcessTypes
    <3> QED BY <2>2, <3>1, <3>2, <3>3
  <2> QED BY <1>5, <2>1, <2>2, <2>3, <2>4 DEF GetData, ProcessTypes, Places
<1>6. CASE Drained
  <2>1. doomed' \subseteq {"proc", "kin"}
    BY <1>6, TerminatedIs DEF Drained, ProcessTypes
  <2> QED BY <1>6, <2>1 DEF Drained, ProcessTypes, Places
<1>7. CASE Wait
  BY <1>7 DEF Wait, ProcessTypes, Places
<1>8. CASE Finally
  BY <1>8, TerminatedIs DEF Finally, ProcessTypes, Places
<1>9. CASE CloseStream
  BY <1>9 DEF CloseStream, ProcessTypes, Places
<1>10. CASE JoinAndReturn
  <2>1. result' \in {failure, "Drain", proc} /\ (result' = proc => (failure = "none" /\ ~Running) \/ proc \in {failure, "Drain"})
    <3>1. result' = IF failure # "none" THEN failure ELSE IF Running THEN "Drain" ELSE proc
      BY <1>10 DEF JoinAndReturn
    <3>2. CASE failure # "none"
      BY <3>1, <3>2
    <3>3. CASE failure = "none"
      BY <3>1, <3>3
    <3> QED BY <3>2, <3>3
  <2>2. result' \in {"none", "Launch", "Cancelled", "Timeout", "OutputLimit", "Drain", "Interrupted",
                    "Abandoned"} \union Ended
    BY <2>1 DEF ProcessTypes, Running
  <2> QED BY <1>10, <2>2 DEF JoinAndReturn, ProcessTypes, Places
<1>11. CASE Interrupt
  BY <1>11 DEF Interrupt, ProcessTypes, Places
<1>12. CASE Prepare
  BY <1>12 DEF Prepare, ProcessTypes, Places
<1>13. CASE Abandon
  BY <1>13 DEF Abandon, ProcessTypes, Places
<1> QED BY <1>1, <1>2, <1>3, <1>4, <1>5, <1>6, <1>7, <1>8, <1>9, <1>10, <1>11, <1>12, <1>13 DEF Caller

\* Every step keeps the types.
LEMMA NextTypes ==
  ASSUME ProcessTypes, WithinBudget, [Next]_vars
  PROVE  ProcessTypes'
<1>1. CASE UNCHANGED vars
  BY <1>1 DEF vars, treeVars, readerVars, callerVars, ProcessTypes
<1> QED BY <1>1, EnvironmentTypes, ReaderTypes, CallerTypes DEF Next, Environment

-----------------------------------------------------------------------------
(***************************************************************************)
(* The process tree                                                        *)
(***************************************************************************)

\* The caller does not go back from closing.
LEMMA OpenBefore ==
  ASSUME ProcessTypes, [Next]_vars, Open'
  PROVE  Open
<1> USE DEF Open
<1>1. CASE Environment
  BY <1>1 DEF Environment, Tick, Spawn, Detach, Exit, Die, Write, callerVars
<1>2. ASSUME NEW s \in Streams, ReadStream(s) PROVE Open
  BY <1>2 DEF ReadStream, Fill, EndOfStream, Emit, DropEmit, callerVars
<1>3. CASE Caller \/ Interrupt \/ Abandon
  BY <1>3 DEF Caller, Start, Prepare, Loop, GetNothing, GetEndMarker, GetData, Drained, Wait, Finally,
              CloseStream, JoinAndReturn, Interrupt, Abandon
<1>4. CASE UNCHANGED vars
  BY <1>4 DEF vars, callerVars
<1> QED BY <1>1, <1>2, <1>3, <1>4 DEF Next, Environment

\* The finally block is the first to stop the readers and to close a stream.
LEMMA OpenStaysOpen ==
  ASSUME ProcessTypes, OpenIsOpen, [Next]_vars
  PROVE  OpenIsOpen'
<1> SUFFICES ASSUME Open' PROVE ~stop' /\ closed' = {}
  BY DEF OpenIsOpen
<1>1. Open /\ ~stop /\ closed = {}
  BY OpenBefore DEF OpenIsOpen
<1>2. CASE Environment
  BY <1>1, <1>2 DEF Environment, Tick, Spawn, Detach, Exit, Die, Write, callerVars
<1>3. ASSUME NEW s \in Streams, ReadStream(s) PROVE ~stop' /\ closed' = {}
  BY <1>1, <1>3 DEF ReadStream, Fill, EndOfStream, Emit, DropEmit, callerVars
<1>4. CASE Caller \/ Interrupt \/ Abandon
  BY <1>1, <1>4 DEF Caller, Start, Prepare, Loop, GetNothing, GetEndMarker, GetData, Drained, Wait, Finally,
                    CloseStream, JoinAndReturn, Interrupt, Abandon, Open
<1>5. CASE UNCHANGED vars
  BY <1>1, <1>5 DEF vars, callerVars
<1> QED BY <1>2, <1>3, <1>4, <1>5 DEF Next, Environment

\* A tree that is silent stays silent, and nothing is written any more.
LEMMA SilentStays ==
  ASSUME ProcessTypes, TreeIsOwned, [Next]_vars, Silent
  PROVE  Silent' /\ wrote' = wrote
<1> USE DEF Silent, Running
<1>1. CASE Environment
  <2>1. CASE Tick \/ Spawn \/ Detach
    BY <2>1 DEF Tick, Spawn, Detach, treeVars
  <2>2. CASE Exit \/ Die
    BY <2>2 DEF Exit, Die
  <2>3. ASSUME NEW s \in Streams, Write(s) PROVE FALSE
    BY <2>3 DEF Write
  <2> QED BY <1>1, <2>1, <2>2, <2>3 DEF Environment
<1>2. ASSUME NEW s \in Streams, ReadStream(s) PROVE Silent' /\ wrote' = wrote
  BY <1>2 DEF ReadStream, Fill, EndOfStream, Emit, DropEmit, treeVars
<1>3. CASE Caller \/ Interrupt \/ Abandon
  <2>1. ~Start
    BY DEF Start, TreeIsOwned
  <2> QED BY <1>3, <2>1 DEF Caller, Prepare, Loop, GetNothing, GetEndMarker, GetData, Drained, Wait, Finally,
                            CloseStream, JoinAndReturn, Interrupt, Abandon, treeVars
<1>4. CASE UNCHANGED vars
  BY <1>4 DEF vars, treeVars
<1> QED BY <1>1, <1>2, <1>3, <1>4 DEF Next, Environment

\* The finally block kills what is left, and what is killed starts nothing.
LEMMA TreeStaysOwned ==
  ASSUME ProcessTypes, TreeIsOwned, [Next]_vars
  PROVE  TreeIsOwned'
<1> USE DEF TreeIsOwned
<1>1. CASE Tick \/ Spawn \/ Detach
  BY <1>1 DEF Tick, Spawn, Detach, treeVars, callerVars, Killed, Running
<1>2. CASE Exit \/ Die
  BY <1>2 DEF Exit, Die, callerVars, Killed, Running
<1>3. ASSUME NEW s \in Streams, Write(s) PROVE TreeIsOwned'
  BY <1>3 DEF Write, callerVars, Killed, Running
<1>4. ASSUME NEW s \in Streams, ReadStream(s) PROVE TreeIsOwned'
  BY <1>4 DEF ReadStream, Fill, EndOfStream, Emit, DropEmit, treeVars, callerVars, Killed, Running
<1>5. CASE Start
  BY <1>5 DEF Start, Killed, Running
<1>6. CASE Loop
  BY <1>6 DEF Loop
<1>7. CASE GetNothing \/ GetEndMarker \/ GetData
  BY <1>7 DEF GetNothing, GetEndMarker, GetData, treeVars
<1>8. CASE Drained \/ Wait \/ Interrupt
  BY <1>8 DEF Drained, Wait, Interrupt, treeVars
<1>9. CASE Finally
  <2>1. Killed'
    BY <1>9, TerminatedIs DEF Finally, Killed, Running
  <2> QED BY <1>9, <2>1 DEF Finally
<1>10. CASE CloseStream \/ JoinAndReturn
  BY <1>10 DEF CloseStream, JoinAndReturn, treeVars, Killed, Running
<1>11. CASE Prepare \/ Abandon
  BY <1>11 DEF Prepare, Abandon, treeVars
<1>12. CASE UNCHANGED vars
  BY <1>12 DEF vars, treeVars, callerVars, Killed, Running
<1> QED BY <1>1, <1>2, <1>3, <1>4, <1>5, <1>6, <1>7, <1>8, <1>9, <1>10, <1>11, <1>12 DEF Next, Caller

-----------------------------------------------------------------------------
(***************************************************************************)
(* The streams                                                             *)
(***************************************************************************)

\* What the calling thread leaves alone.
LEMMA CallerLeaves ==
  ASSUME Caller \/ Interrupt \/ Abandon
  PROVE  reader' = reader /\ pipe' = pipe /\ wrote' = wrote
BY DEF Caller, Start, Prepare, Loop, GetNothing, GetEndMarker, GetData, Drained, Wait, Finally,
       CloseStream, JoinAndReturn, Interrupt, Abandon, treeVars, readerVars

\* The end is only found when nobody can write any more.
LEMMA EndStaysSilent ==
  ASSUME ProcessTypes, OpenIsOpen, TreeIsOwned, EndedIsSilent, [Next]_vars
  PROVE  EndedIsSilent'
<1> SUFFICES ASSUME Open', NEW s \in Streams
             PROVE  /\ reader'[s].at = "emit" => reader'[s].have > 0
                    /\ reader'[s].at \in {"end", "done"} =>
                         reader'[s].have = 0 /\ pipe'[s] = 0 /\ Silent'
  BY DEF EndedIsSilent
<1>1. /\ Open /\ ~stop
      /\ reader[s].at = "emit" => reader[s].have > 0
      /\ reader[s].at \in {"end", "done"} =>
           reader[s].have = 0 /\ pipe[s] = 0 /\ Silent /\ Silent' /\ wrote' = wrote
  BY OpenBefore, SilentStays DEF OpenIsOpen, EndedIsSilent
<1>2. pipe \in [Streams -> Nat] /\ wrote \in [Streams -> Nat] /\ reader[s].have \in Nat
  BY DEF ProcessTypes
<1>3. CASE reader'[s] = reader[s] /\ pipe'[s] = pipe[s]
  BY <1>1, <1>3
<1>4. CASE Environment
  <2>1. CASE Tick \/ Spawn \/ Detach \/ Exit \/ Die
    BY <1>3, <2>1 DEF Tick, Spawn, Detach, Exit, Die, treeVars, readerVars
  <2>2. ASSUME NEW t \in Streams, Write(t)
        PROVE  reader' = reader /\ (t # s => pipe'[s] = pipe[s]) /\ (t = s => wrote' # wrote)
    <3>1. /\ reader' = reader /\ pipe' = [pipe EXCEPT ![t] = @ + 1]
          /\ wrote' = [wrote EXCEPT ![t] = @ + 1]
      BY <2>2 DEF Write, readerVars
    <3>2. wrote'[t] = wrote[t] + 1 /\ wrote[t] \in Nat
      BY <1>2, <3>1
    <3>3. wrote'[t] # wrote[t]
      BY <3>2
    <3>4. t # s => pipe'[s] = pipe[s]
      BY <1>2, <3>1
    <3> QED BY <3>1, <3>3, <3>4
  <2> QED BY <1>1, <1>3, <1>4, <2>1, <2>2 DEF Environment
<1>5. CASE Caller \/ Interrupt \/ Abandon
  BY <1>3, <1>5, CallerLeaves
<1>6. ASSUME NEW t \in Streams, ReadStream(t), t # s PROVE reader'[s] = reader[s] /\ pipe'[s] = pipe[s]
  <2>1. CASE Fill(t)
    BY <1>2, <1>6, <2>1 DEF Fill, Move, ProcessTypes
  <2>2. CASE EndOfStream(t)
    BY <1>6, <2>2 DEF EndOfStream, Move, ProcessTypes, treeVars
  <2>3. CASE Emit(t) \/ DropEmit(t)
    BY <1>6, <2>3, AfterEmitIs DEF Emit, DropEmit, treeVars
  <2> QED BY <1>6, <2>1, <2>2, <2>3 DEF ReadStream
<1>7. CASE Fill(s)
  <2>1. reader'[s].have = reader[s].have + 1 /\ reader'[s].at \in {"read", "emit"}
    BY <1>2, <1>7 DEF Fill, Move, ProcessTypes
  <2> QED BY <1>2, <2>1
<1>8. CASE EndOfStream(s)
  <2>1. /\ reader'[s].have = reader[s].have
        /\ reader'[s].at = (IF reader[s].have > 0 THEN "emit" ELSE "end")
        /\ pipe' = pipe /\ pipe[s] = 0 /\ Silent
    BY <1>8 DEF EndOfStream, Move, ProcessTypes, AtEnd, Silent, treeVars
  <2> QED BY <1>2, <2>1, SilentStays
<1>9. CASE Emit(s)
  <2>1. /\ reader'[s].have = 0 /\ reader'[s].at \in {"read", "end", "done"} /\ pipe' = pipe
        /\ (reader[s].at = "end" <=> reader'[s].at = "done")
        /\ (reader[s].at # "end" => reader'[s].at = "read")
    BY <1>1, <1>9, AfterEmitIs DEF Emit, treeVars, OpenIsOpen
  <2> QED BY <1>1, <2>1
<1>10. ~DropEmit(s)
  BY <1>1 DEF DropEmit
<1>11. CASE UNCHANGED vars
  BY <1>3, <1>11 DEF vars, readerVars, treeVars
<1> QED BY <1>3, <1>4, <1>5, <1>6, <1>7, <1>8, <1>9, <1>10, <1>11 DEF Next, Environment, ReadStream

-----------------------------------------------------------------------------
(***************************************************************************)
(* The queue                                                               *)
(***************************************************************************)

\* What a step is that touches neither the queue nor the end of a reader.
QueueKept ==
  /\ chunks' = chunks /\ finished' = finished
  /\ \A s \in Streams : reader'[s].at = "done" <=> reader[s].at = "done"

LEMMA OrderKept ==
  ASSUME QueueIsOrdered, Open, QueueKept, chunks \in Seq([s : Streams, n : Nat])
  PROVE  QueueIsOrdered'
<1>1. \A i \in 1..Len(chunks) : chunks[i].s \in Streams /\ (IsMarker(i)' <=> IsMarker(i))
  <2>1. \A i \in 1..Len(chunks) : chunks[i] \in [s : Streams, n : Nat]
    BY ElementOfSeq
  <2> QED BY <2>1 DEF QueueKept, IsMarker
<1>2. \A s \in Streams : Taken(s)' <=> Taken(s)
  BY <1>1 DEF QueueKept, Taken
<1>3. Took("stdout")' = Took("stdout") /\ Took("stderr")' = Took("stderr")
  BY <1>2 DEF Took, Streams
<1> QED BY <1>1, <1>2, <1>3 DEF QueueIsOrdered, QueueKept

\* The steps that keep the queue and the ends of the readers.
LEMMA QueueSteps ==
  ASSUME ProcessTypes, OpenIsOpen, [Next]_vars, Open'
  PROVE  QueueKept \/ GetEndMarker \/ GetData \/ \E s \in Streams : Emit(s)
<1> USE DEF QueueKept
<1>1. CASE Environment
  BY <1>1 DEF Environment, Tick, Spawn, Detach, Exit, Die, Write, readerVars, callerVars
<1>2. ASSUME NEW s \in Streams, Fill(s) \/ EndOfStream(s) PROVE QueueKept
  <2>1. PICK at \in {"read", "emit", "end"}, have \in Nat : Move(s, at, have)
    <3>1. reader[s].have \in Nat /\ reader[s].have + 1 \in Nat
      BY DEF ProcessTypes
    <3>2. CASE Fill(s)
      BY <3>1, <3>2 DEF Fill
    <3>3. CASE EndOfStream(s)
      BY <3>1, <3>3 DEF EndOfStream
    <3> QED BY <1>2, <3>2, <3>3
  <2>2. /\ reader'[s].at = at /\ \A t \in Streams : t # s => reader'[t] = reader[t]
    <3>1. at \in {"read", "emit", "end", "done"}
      OBVIOUS
    <3>2. reader'[s] = [at |-> at, have |-> have] /\ \A t \in Streams : t # s => reader'[t] = reader[t]
      BY <2>1, <3>1, MoveIs
    <3> QED BY <3>2
  <2>3. reader[s].at = "read" /\ chunks' = chunks /\ finished' = finished
    BY <1>2 DEF Fill, EndOfStream, callerVars
  <2> QED BY <2>1, <2>2, <2>3
<1>3. ASSUME NEW s \in Streams, DropEmit(s) PROVE FALSE
  BY <1>3, OpenBefore DEF DropEmit, OpenIsOpen
<1>4. CASE Caller \/ Interrupt \/ Abandon
  <2>1. GetEndMarker \/ GetData \/ (chunks' = chunks /\ finished' = finished)
    BY <1>4 DEF Caller, Start, Prepare, Loop, GetNothing, Drained, Wait, Finally,
                CloseStream, JoinAndReturn, Interrupt, Abandon, readerVars
  <2> QED BY <1>4, <2>1, CallerLeaves
<1>5. CASE UNCHANGED vars
  BY <1>5 DEF vars, readerVars, callerVars
<1> QED BY <1>1, <1>2, <1>3, <1>4, <1>5 DEF Next, Environment, ReadStream

\* The queue and its reader after an item of s has been put.
LEMMA EmitIs ==
  ASSUME ProcessTypes, NEW s \in Streams, Emit(s), closed = {}
  PROVE  /\ Len(chunks) \in Nat /\ Len(chunks') = Len(chunks) + 1
         /\ \A i \in 1..Len(chunks) : chunks'[i] = chunks[i] /\ chunks[i] \in [s : Streams, n : Nat]
         /\ chunks'[Len(chunks) + 1] = [s |-> s, n |-> reader[s].have]
         /\ reader[s].at \in {"emit", "end"} /\ reader'[s].have = 0
         /\ reader'[s].at = IF reader[s].at = "end" THEN "done" ELSE "read"
         /\ \A t \in Streams : t # s => reader'[t] = reader[t]
         /\ pipe' = pipe /\ wrote' = wrote /\ output' = output /\ finished' = finished
         /\ failure' = failure /\ pc' = pc
<1>1. /\ chunks \in Seq([s : Streams, n : Nat])
      /\ [s |-> s, n |-> reader[s].have] \in [s : Streams, n : Nat]
      /\ chunks' = Append(chunks, [s |-> s, n |-> reader[s].have])
  BY DEF Emit, ProcessTypes
<1>2. /\ Len(chunks) \in Nat /\ Len(chunks') = Len(chunks) + 1
      /\ \A i \in 1..Len(chunks) : chunks'[i] = chunks[i] /\ chunks[i] \in [s : Streams, n : Nat]
      /\ chunks'[Len(chunks) + 1] = [s |-> s, n |-> reader[s].have]
  <2>1. \A i \in 1..Len(chunks) : chunks[i] \in [s : Streams, n : Nat]
    BY <1>1, ElementOfSeq
  <2>2. Len(chunks) \in Nat
    BY <1>1
  <2> DEFINE item == [s |-> s, n |-> reader[s].have]
  <2> HIDE DEF item
  <2>3. /\ Len(Append(chunks, item)) = Len(chunks) + 1
        /\ \A i \in 1..Len(chunks) : Append(chunks, item)[i] = chunks[i]
        /\ Append(chunks, item)[Len(chunks) + 1] = item
    BY <1>1, AppendProperties DEF item
  <2>4. chunks' = Append(chunks, item)
    BY <1>1 DEF item
  <2>5. chunks'[Len(chunks) + 1] = item
    BY <2>3, <2>4, Zenon
  <2> QED BY <2>1, <2>2, <2>3, <2>4, <2>5 DEF item
<1>3. /\ reader[s].at \in {"emit", "end"} /\ reader'[s].have = 0
      /\ reader'[s].at = IF reader[s].at = "end" THEN "done" ELSE "read"
      /\ \A t \in Streams : t # s => reader'[t] = reader[t]
  BY AfterEmitIs DEF Emit
<1> QED BY <1>2, <1>3 DEF Emit, treeVars, callerVars

\* An end marker is put behind everything else of its stream.
LEMMA EmitKeepsOrder ==
  ASSUME ProcessInv, NEW s \in Streams, Emit(s), Open
  PROVE  QueueIsOrdered'
<1> DEFINE len == Len(chunks)
<1>1. closed = {} /\ QueueIsOrdered /\ EndedIsSilent /\ ProcessTypes
  BY DEF ProcessInv, OpenIsOpen
<1>2. /\ len \in Nat /\ Len(chunks') = len + 1
      /\ \A i \in 1..len : chunks'[i] = chunks[i] /\ chunks[i] \in [s : Streams, n : Nat]
      /\ chunks'[len + 1] = [s |-> s, n |-> reader[s].have]
      /\ reader[s].at \in {"emit", "end"} /\ reader'[s].have = 0
      /\ reader'[s].at = IF reader[s].at = "end" THEN "done" ELSE "read"
      /\ \A t \in Streams : t # s => reader'[t] = reader[t]
      /\ finished' = finished
  BY <1>1, EmitIs
<1> DEFINE last == chunks'[len + 1]
<1>13. last.s = s /\ last.n = reader[s].have /\ len + 1 \in 1..Len(chunks')
  BY <1>2
<1>14. \A i \in 1..Len(chunks') : i \in 1..len \/ i = len + 1
  BY <1>2
<1>15. \A i \in 1..len : /\ chunks'[i] = chunks[i] /\ chunks[i].s \in Streams
                        /\ i <= len + 1 /\ i \in 1..Len(chunks')
  BY <1>2
<1>3. reader[s].have = 0 <=> reader[s].at = "end"
  BY <1>1, <1>2 DEF EndedIsSilent
<1>4. /\ \A i \in 1..len : IsMarker(i) =>
           /\ reader[chunks[i].s].at = "done"
           /\ \A j \in 1..len : chunks[j].s = chunks[i].s => j <= i
      /\ \A t \in Streams : Taken(t) => \A i \in 1..len : chunks[i].s # t
      /\ finished = Took("stdout") + Took("stderr")
  BY <1>1 DEF QueueIsOrdered
<1>5. \A i \in 1..len : IsMarker(i)' <=> IsMarker(i)
  BY <1>2 DEF IsMarker
<1>6. last.n = 0 <=> reader[s].at = "end"
  BY <1>3, <1>13
<1>7. ASSUME NEW i \in 1..Len(chunks'), IsMarker(i)'
      PROVE  /\ reader'[chunks'[i].s].at = "done"
             /\ \A j \in 1..Len(chunks') : chunks'[j].s = chunks'[i].s => j <= i
  <2>1. CASE i = len + 1
    <3>1. reader[s].at = "end" /\ reader'[s].at = "done" /\ chunks'[i].s = s
      BY <1>2, <1>6, <1>7, <1>13, <2>1 DEF IsMarker
    <3>2. \A j \in 1..Len(chunks') : j <= i
      BY <1>2, <2>1
    <3> QED BY <3>1, <3>2
  <2>2. CASE i \in 1..len
    <3>1. IsMarker(i) /\ chunks'[i] = chunks[i] /\ chunks[i].s \in Streams
      BY <1>2, <1>5, <1>7, <2>2
    <3>2. reader[chunks[i].s].at = "done" /\ chunks[i].s # s
      BY <1>2, <1>4, <2>2, <3>1
    <3>3. \A j \in 1..len : chunks'[j].s = chunks[i].s => j <= i
      BY <1>4, <1>15, <2>2, <3>1
    <3>4. chunks'[len + 1].s # chunks[i].s
      BY <1>13, <3>2
    <3>5. \A j \in 1..Len(chunks') : chunks'[j].s = chunks[i].s => j <= i
      BY <1>14, <3>3, <3>4
    <3>6. reader'[chunks[i].s] = reader[chunks[i].s]
      BY <1>2, <3>1, <3>2
    <3> QED BY <3>1, <3>2, <3>5, <3>6
  <2> QED BY <1>14, <2>1, <2>2
<1>8. ~Taken(s) /\ ~Taken(s)'
  <2>1. ~Taken(s)
    BY <1>2 DEF Taken
  <2>2. CASE reader[s].at = "end"
    <3>1. \E i \in 1..Len(chunks') : chunks'[i].s = s /\ chunks'[i].n = 0
      BY <1>6, <1>13, <2>2
    <3> QED BY <2>1, <3>1 DEF Taken, IsMarker
  <2>3. CASE reader[s].at # "end"
    BY <1>2, <2>1, <2>3 DEF Taken
  <2> QED BY <2>2, <2>3
<1>9. ASSUME NEW t \in Streams, t # s
      PROVE  (Taken(t)' <=> Taken(t)) /\ (Taken(t) => \A i \in 1..Len(chunks') : chunks'[i].s # t)
  <2>1. reader'[t] = reader[t] /\ chunks'[len + 1].s # t
    BY <1>2, <1>9
  <2>2. \A i \in 1..Len(chunks') : i \in 1..len \/ i = len + 1
    BY <1>2
  <2>3. \A i \in 1..len : i \in 1..Len(chunks') /\ chunks'[i].s = chunks[i].s
    BY <1>2
  <2>4. Taken(t)' <=> Taken(t)
    BY <1>5, <2>1, <2>2, <2>3 DEF Taken
  <2> QED BY <1>4, <2>1, <2>2, <2>3, <2>4
<1>10. \A t \in Streams : Taken(t)' <=> Taken(t)
  BY <1>8, <1>9
<1>11. Took("stdout")' = Took("stdout") /\ Took("stderr")' = Took("stderr")
  BY <1>10 DEF Took, Streams
<1>12. \A t \in Streams : Taken(t)' => \A i \in 1..Len(chunks') : chunks'[i].s # t
  BY <1>8, <1>9
<1> QED BY <1>2, <1>4, <1>7, <1>11, <1>12 DEF QueueIsOrdered

\* The queue after its first item has been taken.
LEMMA GetIs ==
  ASSUME ProcessTypes, GetEndMarker \/ GetData
  PROVE  /\ Len(chunks) \in Nat /\ Len(chunks) >= 1 /\ Len(chunks') = Len(chunks) - 1
         /\ chunks[1] \in [s : Streams, n : Nat]
         /\ GetEndMarker <=> chunks[1].n = 0
         /\ \A i \in 1..Len(chunks) : chunks[i] \in [s : Streams, n : Nat]
         /\ \A i \in 1..(Len(chunks) - 1) : chunks'[i] = chunks[i + 1]
         /\ reader' = reader /\ pipe' = pipe /\ wrote' = wrote
<1>1. chunks # <<>> /\ chunks' = Tail(chunks) /\ pc = "get"
  BY DEF GetEndMarker, GetData
<1>2. /\ Len(chunks) \in Nat /\ Len(chunks) >= 1
      /\ Head(chunks) = chunks[1] /\ chunks[1] \in [s : Streams, n : Nat]
      /\ Len(chunks') = Len(chunks) - 1
      /\ \A i \in 1..(Len(chunks) - 1) : chunks'[i] = chunks[i + 1]
  BY <1>1, QueueIs
<1>3. GetEndMarker => chunks[1].n = 0
  <2>1. GetEndMarker => Head(chunks).n = 0
    BY DEF GetEndMarker
  <2> QED BY <1>2, <2>1, Zenon
<1>4. GetData => chunks[1].n > 0
  <2>1. GetData => Head(chunks).n > 0
    BY DEF GetData
  <2> QED BY <1>2, <2>1, Zenon
<1>5. \A i \in 1..Len(chunks) : chunks[i] \in [s : Streams, n : Nat]
  BY ElementOfSeq DEF ProcessTypes
<1> QED BY <1>2, <1>3, <1>4, <1>5, CallerLeaves DEF Caller

\* A marker that is taken was the last item of its stream.
LEMMA GetKeepsOrder ==
  ASSUME ProcessInv, GetEndMarker \/ GetData, Open
  PROVE  QueueIsOrdered'
<1> DEFINE len == Len(chunks)
           first == chunks[1]
<1>1. QueueIsOrdered /\ ProcessTypes
  BY DEF ProcessInv
<1>2. /\ len \in Nat /\ len >= 1 /\ Len(chunks') = len - 1
      /\ first.s \in Streams
      /\ GetEndMarker <=> IsMarker(1)
      /\ \A i \in 1..len : chunks[i].s \in Streams
      /\ \A i \in 1..(len - 1) : chunks'[i] = chunks[i + 1]
      /\ reader' = reader
  BY <1>1, GetIs DEF IsMarker
<1>3. finished \in Nat /\ finished' = IF GetEndMarker THEN finished + 1 ELSE finished
  <2>1. ASSUME GetData PROVE finished' = finished
    BY <2>1 DEF GetData
  <2>2. ASSUME GetEndMarker PROVE finished' = finished + 1
    BY <2>2 DEF GetEndMarker
  <2> QED BY <1>1, <2>1, <2>2 DEF ProcessTypes
<1>4. /\ \A i \in 1..len : IsMarker(i) =>
           /\ reader[chunks[i].s].at = "done"
           /\ \A j \in 1..len : chunks[j].s = chunks[i].s => j <= i
      /\ \A t \in Streams : Taken(t) => \A i \in 1..len : chunks[i].s # t
      /\ finished = Took("stdout") + Took("stderr")
  BY <1>1 DEF QueueIsOrdered
<1>5. \A i \in 1..(len - 1) : (IsMarker(i)' <=> IsMarker(i + 1)) /\ i + 1 \in 1..len
  BY <1>2 DEF IsMarker
<1>6. ASSUME NEW i \in 1..Len(chunks'), IsMarker(i)'
      PROVE  /\ reader'[chunks'[i].s].at = "done"
             /\ \A j \in 1..Len(chunks') : chunks'[j].s = chunks'[i].s => j <= i
  <2>1. i \in 1..(len - 1) /\ i + 1 \in 1..len /\ IsMarker(i + 1) /\ chunks'[i] = chunks[i + 1]
    BY <1>2, <1>5, <1>6
  <2>2. \A j \in 1..(len - 1) : chunks'[j].s = chunks'[i].s => j + 1 <= i + 1
    BY <1>2, <1>4, <1>5, <2>1
  <2>3. \A j \in 1..(len - 1) : j + 1 <= i + 1 => j <= i
    BY <1>2, <2>1
  <2> QED BY <1>2, <1>4, <2>1, <2>2, <2>3
<1>7. ASSUME NEW t \in Streams
      PROVE  /\ Taken(t) => Taken(t)'
             /\ Taken(t)' => Taken(t) \/ (GetEndMarker /\ first.s = t)
             /\ Taken(t)' => \A i \in 1..Len(chunks') : chunks'[i].s # t
             /\ GetEndMarker /\ first.s = t => ~Taken(t) /\ Taken(t)'
  <2>1. \A i \in 1..Len(chunks') : i \in 1..(len - 1) /\ chunks'[i].s = chunks[i + 1].s /\ i + 1 \in 1..len
    BY <1>2, <1>5
  <2>2. \A i \in 1..len : i = 1 \/ (i - 1 \in 1..Len(chunks') /\ (i - 1) + 1 = i)
    BY <1>2
  <2>3. Taken(t) => Taken(t)'
    BY <1>2, <1>5, <2>1 DEF Taken
  <2>4. Taken(t)' => Taken(t) \/ (GetEndMarker /\ first.s = t)
    <3>1. SUFFICES ASSUME Taken(t)', ~(GetEndMarker /\ first.s = t) PROVE Taken(t)
      OBVIOUS
    <3>2. reader[t].at = "done" /\ \A i \in 1..Len(chunks') : chunks'[i].s = t => ~IsMarker(i)'
      BY <1>2, <3>1 DEF Taken
    <3>3. ASSUME NEW i \in 1..len, chunks[i].s = t PROVE ~IsMarker(i)
      <4>1. CASE i = 1
        BY <1>2, <3>1, <3>3, <4>1
      <4>2. CASE i # 1
        <5>1. i - 1 \in 1..Len(chunks') /\ i - 1 \in 1..(len - 1) /\ chunks'[i - 1].s = chunks[i].s
          BY <1>2, <2>1, <2>2, <4>2
        <5>2. ~IsMarker(i - 1)'
          BY <3>2, <3>3, <5>1
        <5> QED BY <1>5, <2>2, <4>2, <5>1, <5>2
      <4> QED BY <4>1, <4>2
    <3> QED BY <3>2, <3>3 DEF Taken
  <2>5. GetEndMarker /\ first.s = t => ~Taken(t) /\ Taken(t)' /\ \A i \in 1..Len(chunks') : chunks'[i].s # t
    <3>1. SUFFICES ASSUME GetEndMarker, first.s = t
                   PROVE  ~Taken(t) /\ Taken(t)' /\ \A i \in 1..Len(chunks') : chunks'[i].s # t
      OBVIOUS
    <3>2. 1 \in 1..len /\ IsMarker(1) /\ reader[t].at = "done" /\ \A j \in 1..len : chunks[j].s = t => j <= 1
      BY <1>2, <1>4, <3>1
    <3>3. \A i \in 1..Len(chunks') : chunks'[i].s # t
      <4>1. \A i \in 1..Len(chunks') : ~(i + 1 <= 1)
        BY <1>2
      <4> QED BY <2>1, <3>2, <4>1
    <3> QED BY <1>2, <3>1, <3>2, <3>3 DEF Taken
  <2>6. ASSUME Taken(t), NEW i \in 1..Len(chunks') PROVE chunks'[i].s # t
    <3>1. i + 1 \in 1..len /\ chunks'[i].s = chunks[i + 1].s
      BY <2>1, <2>6
    <3>2. \A j \in 1..len : chunks[j].s # t
      BY <1>4, <2>6
    <3> QED BY <3>1, <3>2
  <2> QED BY <2>3, <2>4, <2>5, <2>6
<1>8. finished' = Took("stdout")' + Took("stderr")'
  <2>1. "stdout" \in Streams /\ "stderr" \in Streams /\ "stdout" # "stderr" /\ first.s \in {"stdout", "stderr"}
    BY <1>2 DEF Streams
  <2>2. CASE ~GetEndMarker
    BY <1>3, <1>4, <1>7, <2>1, <2>2 DEF Took
  <2>3. CASE GetEndMarker /\ first.s = "stdout"
    BY <1>3, <1>4, <1>7, <2>1, <2>3 DEF Took
  <2>4. CASE GetEndMarker /\ first.s = "stderr"
    BY <1>3, <1>4, <1>7, <2>1, <2>4 DEF Took
  <2> QED BY <2>1, <2>2, <2>3, <2>4
<1> QED BY <1>6, <1>7, <1>8 DEF QueueIsOrdered

\* The order of the queue is kept by every step.
LEMMA OrderStays ==
  ASSUME ProcessInv, [Next]_vars
  PROVE  QueueIsOrdered'
<1>1. CASE ~Open'
  BY <1>1 DEF QueueIsOrdered
<1>2. CASE Open'
  <2>1. Open /\ ProcessTypes /\ OpenIsOpen /\ QueueIsOrdered
    BY <1>2, OpenBefore DEF ProcessInv
  <2>2. QueueKept => QueueIsOrdered'
    BY <2>1, OrderKept DEF ProcessTypes
  <2> QED BY <1>2, <2>1, <2>2, QueueSteps, EmitKeepsOrder, GetKeepsOrder
<1> QED BY <1>1, <1>2

-----------------------------------------------------------------------------
(***************************************************************************)
(* Where the units are                                                     *)
(***************************************************************************)

\* A failure is never forgotten.
LEMMA FailureStays ==
  ASSUME [Next]_vars, failure' = "none"
  PROVE  failure = "none"
<1>1. CASE Environment
  BY <1>1 DEF Environment, Tick, Spawn, Detach, Exit, Die, Write, callerVars
<1>2. ASSUME NEW s \in Streams, ReadStream(s) PROVE failure = "none"
  BY <1>2 DEF ReadStream, Fill, EndOfStream, Emit, DropEmit, callerVars
<1>3. CASE Caller \/ Interrupt \/ Abandon
  BY <1>3 DEF Caller, Start, Prepare, Loop, GetNothing, GetEndMarker, GetData, Drained, Wait, Finally,
              CloseStream, JoinAndReturn, Interrupt, Abandon
<1>4. CASE UNCHANGED vars
  BY <1>4 DEF vars, callerVars
<1> QED BY <1>1, <1>2, <1>3, <1>4 DEF Next, Environment

\* What a reader has in hand and its pipe holds.
Behind(s) == reader[s].have + pipe[s]

\* Steps that leave queue and output alone write, read or do nothing.
LEMMA BalanceStays ==
  ASSUME ProcessTypes, OpenIsOpen, [Next]_vars, Open', ~GetEndMarker, ~GetData,
         ~\E s \in Streams : Emit(s)
  PROVE  /\ chunks' = chunks /\ output' = output
         /\ \A s \in Streams : wrote'[s] + Behind(s) = wrote[s] + Behind(s)'
<1> USE DEF Behind
<1>1. \A s \in Streams : wrote[s] \in Nat /\ pipe[s] \in Nat /\ reader[s].have \in Nat
  BY DEF ProcessTypes
<1>2. CASE Tick \/ Spawn \/ Detach \/ Exit \/ Die \/ UNCHANGED vars
  BY <1>1, <1>2 DEF Tick, Spawn, Detach, Exit, Die, vars, treeVars, readerVars, callerVars
<1>3. ASSUME NEW t \in Streams, Write(t)
      PROVE  /\ chunks' = chunks /\ output' = output
             /\ \A s \in Streams : wrote'[s] + Behind(s) = wrote[s] + Behind(s)'
  <2>1. /\ chunks' = chunks /\ output' = output /\ reader' = reader
        /\ pipe' = [pipe EXCEPT ![t] = @ + 1] /\ wrote' = [wrote EXCEPT ![t] = @ + 1]
    BY <1>3 DEF Write, readerVars, callerVars
  <2>2. /\ pipe'[t] = pipe[t] + 1 /\ wrote'[t] = wrote[t] + 1
        /\ \A s \in Streams : s # t => pipe'[s] = pipe[s] /\ wrote'[s] = wrote[s]
    BY <2>1 DEF ProcessTypes
  <2>3. ASSUME NEW s \in Streams PROVE wrote'[s] + Behind(s) = wrote[s] + Behind(s)'
    BY <1>1, <2>1, <2>2
  <2> QED BY <2>1, <2>3
<1>4. ASSUME NEW t \in Streams, Fill(t) \/ EndOfStream(t)
      PROVE  /\ chunks' = chunks /\ output' = output
             /\ \A s \in Streams : wrote'[s] + Behind(s) = wrote[s] + Behind(s)'
  <2>1. /\ chunks' = chunks /\ output' = output /\ wrote' = wrote
        /\ \A s \in Streams : s # t => reader'[s] = reader[s] /\ pipe'[s] = pipe[s]
    BY <1>4 DEF Fill, EndOfStream, Move, treeVars, callerVars, ProcessTypes
  <2>2. reader'[t].have + pipe'[t] = reader[t].have + pipe[t]
    <3>1. CASE Fill(t)
      <4>1. reader'[t].have = reader[t].have + 1 /\ pipe'[t] = pipe[t] - 1
        BY <3>1 DEF Fill, Move, ProcessTypes
      <4> QED BY <1>1, <4>1
    <3>2. CASE EndOfStream(t)
      <4>1. reader'[t].have = reader[t].have /\ pipe'[t] = pipe[t]
        BY <3>2 DEF EndOfStream, Move, treeVars, ProcessTypes
      <4> QED BY <4>1
    <3> QED BY <1>4, <3>1, <3>2
  <2> QED BY <1>1, <2>1, <2>2
<1>5. ASSUME NEW t \in Streams PROVE ~DropEmit(t)
  BY OpenBefore DEF DropEmit, OpenIsOpen
<1>6. CASE Caller \/ Interrupt \/ Abandon
  <2>1. chunks' = chunks /\ output' = output
    BY <1>6 DEF Caller, Start, Prepare, Loop, GetNothing, Drained, Wait, Finally,
                CloseStream, JoinAndReturn, Interrupt, Abandon, readerVars
  <2> QED BY <1>1, <1>6, <2>1, CallerLeaves
<1> QED BY <1>2, <1>3, <1>4, <1>5, <1>6 DEF Next, ReadStream

\* An item moves its units from the reader's hands to the end of the queue.
LEMMA EmitKeepsUnits ==
  ASSUME ProcessTypes, closed = {}, NEW t \in Streams, Emit(t),
         NEW s \in Streams, NEW totals, RunningTotals(s, totals)
  PROVE  \E sums \in [0..Len(chunks') -> Nat] : RunningTotals(s, sums)'
<1> DEFINE len == Len(chunks)
           put == IF t = s THEN reader[s].have ELSE 0
           sums == [i \in 0..Len(chunks') |-> IF i <= len THEN totals[i] ELSE totals[len] + put]
           got(i) == IF chunks[i].s = s THEN chunks[i].n ELSE 0
           gotNext(i) == IF chunks'[i].s = s THEN chunks'[i].n ELSE 0
<1>1. /\ len \in Nat /\ Len(chunks') = len + 1
      /\ \A i \in 1..len : chunks'[i] = chunks[i] /\ chunks[i] \in [s : Streams, n : Nat]
      /\ chunks'[len + 1] = [s |-> t, n |-> reader[t].have]
      /\ reader'[t].have = 0 /\ (t # s => reader'[s] = reader[s])
      /\ pipe' = pipe /\ wrote' = wrote /\ output' = output
  BY EmitIs
<1>2. /\ totals \in [0..len -> Nat] /\ totals[0] = output[s]
      /\ \A i \in 1..len : totals[i] = totals[i - 1] + got(i)
      /\ wrote[s] = totals[len] + reader[s].have + pipe[s]
  BY DEF RunningTotals
<1>3. totals[len] \in Nat /\ put \in Nat /\ reader[s].have \in Nat /\ pipe[s] \in Nat
  <2>1. reader[s].have \in Nat /\ pipe[s] \in Nat
    BY DEF ProcessTypes
  <2>2. len \in 0..len
    BY <1>1
  <2>3. totals[len] \in Nat
    BY <1>2, <2>2
  <2> QED BY <2>1, <2>3
<1>4. gotNext(len + 1) = put /\ \A i \in 1..len : gotNext(i) = got(i)
  BY <1>1
<1> HIDE DEF put, got, gotNext
<1>5. sums \in [0..Len(chunks') -> Nat]
  BY <1>1, <1>2, <1>3
<1>6. sums[0] = output'[s] /\ sums[len + 1] = totals[len] + put /\ \A i \in 0..len : sums[i] = totals[i]
  BY <1>1, <1>2
<1>7. ASSUME NEW i \in 1..Len(chunks') PROVE sums[i] = sums[i - 1] + gotNext(i)
  <2>1. CASE i = len + 1
    <3>1. i - 1 = len /\ len \in 0..len
      BY <1>1, <2>1
    <3> QED BY <1>4, <1>6, <2>1, <3>1
  <2>2. CASE i \in 1..len
    <3>1. i \in 0..len /\ i - 1 \in 0..len
      BY <1>1, <2>2
    <3> QED BY <1>2, <1>4, <1>6, <2>2, <3>1
  <2> QED BY <1>1, <2>1, <2>2
<1>8. wrote'[s] = sums[Len(chunks')] + reader'[s].have + pipe'[s]
  <2>1. reader'[s].have + put = reader[s].have
    BY <1>1, <1>3 DEF put
  <2>2. reader'[s].have \in Nat
    BY <1>1, <1>3
  <2>3. sums[Len(chunks')] = totals[len] + put /\ pipe'[s] = pipe[s] /\ wrote'[s] = wrote[s]
    BY <1>1, <1>6
  <2> QED BY <1>2, <1>3, <2>1, <2>2, <2>3
<1> HIDE DEF sums
<1>9. PICK next \in [0..Len(chunks') -> Nat] : next = sums
  BY <1>5
<1>10. RunningTotals(s, next)'
  <2>1. \A i \in 1..Len(chunks') : next[i] = next[i - 1] + gotNext(i)
    BY <1>7, <1>9
  <2>2. next[0] = output'[s] /\ wrote'[s] = next[Len(chunks')] + reader'[s].have + pipe'[s]
    BY <1>6, <1>8, <1>9
  <2> QED BY <2>1, <2>2 DEF RunningTotals, gotNext
<1> QED BY <1>10

\* The caller takes what the running totals begin with.
LEMMA GetKeepsUnits ==
  ASSUME ProcessTypes, GetEndMarker \/ GetData, NEW s \in Streams, NEW totals,
         RunningTotals(s, totals), output'[s] = totals[1]
  PROVE  \E sums \in [0..Len(chunks') -> Nat] : RunningTotals(s, sums)'
<1> DEFINE len == Len(chunks)
           sums == [i \in 0..Len(chunks') |-> totals[i + 1]]
           got(i) == IF chunks[i].s = s THEN chunks[i].n ELSE 0
           gotNext(i) == IF chunks'[i].s = s THEN chunks'[i].n ELSE 0
<1>1. /\ len \in Nat /\ len >= 1 /\ Len(chunks') = len - 1
      /\ \A i \in 1..(len - 1) : chunks'[i] = chunks[i + 1]
      /\ reader' = reader /\ pipe' = pipe /\ wrote' = wrote
  BY GetIs
<1>2. /\ totals \in [0..len -> Nat]
      /\ \A i \in 1..len : totals[i] = totals[i - 1] + got(i)
      /\ wrote[s] = totals[len] + reader[s].have + pipe[s]
  BY DEF RunningTotals
<1>3. \A i \in 1..(len - 1) : gotNext(i) = got(i + 1)
  BY <1>1
<1> HIDE DEF got, gotNext
<1>4. sums \in [0..Len(chunks') -> Nat]
  BY <1>1, <1>2
<1>5. \A i \in 0..(len - 1) : sums[i] = totals[i + 1]
  BY <1>1
<1>6. sums[0] = output'[s]
  BY <1>1, <1>5
<1>7. ASSUME NEW i \in 1..Len(chunks') PROVE sums[i] = sums[i - 1] + gotNext(i)
  <2>1. i \in 1..(len - 1) /\ i \in 0..(len - 1) /\ i - 1 \in 0..(len - 1) /\ i + 1 \in 1..len
        /\ (i - 1) + 1 = i /\ (i + 1) - 1 = i
    BY <1>1
  <2>2. sums[i] = totals[i + 1] /\ sums[i - 1] = totals[i]
    BY <1>5, <2>1
  <2>3. totals[i + 1] = totals[i] + got(i + 1)
    BY <1>2, <2>1
  <2> QED BY <1>3, <2>1, <2>2, <2>3
<1>8. sums[Len(chunks')] = totals[len]
  BY <1>1, <1>5
<1> HIDE DEF sums
<1>9. PICK next \in [0..Len(chunks') -> Nat] : next = sums
  BY <1>4
<1>10. RunningTotals(s, next)'
  <2>1. \A i \in 1..Len(chunks') : next[i] = next[i - 1] + gotNext(i)
    BY <1>7, <1>9
  <2>2. next[0] = output'[s] /\ wrote'[s] = next[Len(chunks')] + reader'[s].have + pipe'[s]
    BY <1>1, <1>2, <1>6, <1>8, <1>9
  <2> QED BY <2>1, <2>2 DEF RunningTotals, gotNext
<1> QED BY <1>10

\* Without a failure, an item that is taken goes to the output whole.
LEMMA GetTakesAll ==
  ASSUME ProcessTypes, WithinBudget, GetEndMarker \/ GetData, failure' = "none"
  PROVE  \A s \in Streams :
           output'[s] = output[s] + (IF chunks[1].s = s THEN chunks[1].n ELSE 0)
<1>1. /\ chunks[1] \in [s : Streams, n : Nat] /\ (GetEndMarker <=> chunks[1].n = 0)
  BY GetIs
<1>2. output \in [Streams -> Nat]
  BY DEF ProcessTypes
<1>3. CASE GetEndMarker
  <2>1. output' = output /\ chunks[1].n = 0
    BY <1>1, <1>3 DEF GetEndMarker
  <2> QED BY <1>2, <2>1
<1>4. CASE GetData
  <2> DEFINE item == Head(chunks)
             available == Budget - Total(output)
  <2>1. item = chunks[1]
    BY <1>4, QueueIs DEF GetData
  <2>2. failure = "none"
    BY <1>4 DEF GetData
  <2>3. /\ output' = [output EXCEPT ![item.s] = @ + Earlier(item.n, available)]
        /\ failure' = IF item.n > available /\ failure = "none" THEN "OutputLimit" ELSE failure
    BY <1>4 DEF GetData
  <2>4. Total(output) \in Nat /\ Budget \in Nat /\ Total(output) <= Budget
    <3>1. output["stdout"] \in Nat /\ output["stderr"] \in Nat
      BY <1>2 DEF Streams
    <3>2. Budget \in Nat
      BY Numbers
    <3>3. Total(output) \in Nat
      BY <3>1 DEF Total
    <3> QED BY <3>2, <3>3 DEF WithinBudget
  <2>5. available \in Int /\ ~(item.n > available)
    BY <2>2, <2>3, <2>4
  <2>6. Earlier(item.n, available) = item.n
    BY <1>1, <2>1, <2>5 DEF Earlier
  <2> HIDE DEF item, available
  <2>7. output' = [output EXCEPT ![item.s] = @ + item.n]
    BY <2>3, <2>6
  <2> QED BY <1>1, <1>2, <2>1, <2>7
<1> QED BY <1>3, <1>4

\* What was written is always somewhere.
LEMMA UnitsStay ==
  ASSUME ProcessInv, [Next]_vars
  PROVE  Conserved'
<1> SUFFICES ASSUME Open', failure' = "none", NEW s \in Streams
             PROVE  \E sums \in [0..Len(chunks') -> Nat] : RunningTotals(s, sums)'
  BY DEF Conserved
<1>1. /\ Open /\ failure = "none" /\ closed = {}
      /\ ProcessTypes /\ OpenIsOpen /\ WithinBudget /\ Conserved
  BY OpenBefore, FailureStays DEF ProcessInv, OpenIsOpen
<1>2. PICK totals \in [0..Len(chunks) -> Nat] : RunningTotals(s, totals)
  BY <1>1 DEF Conserved
<1>3. ASSUME NEW t \in Streams, Emit(t)
      PROVE  \E sums \in [0..Len(chunks') -> Nat] : RunningTotals(s, sums)'
  BY <1>1, <1>2, <1>3, EmitKeepsUnits
<1>4. CASE GetEndMarker \/ GetData
  <2>1. output'[s] = totals[1]
    <3>1. Len(chunks) \in Nat /\ Len(chunks) >= 1
      BY <1>1, <1>4, GetIs
    <3>2. 1 \in 1..Len(chunks) /\ 1 - 1 = 0
      BY <3>1
    <3>3. totals[1] = totals[0] + (IF chunks[1].s = s THEN chunks[1].n ELSE 0) /\ totals[0] = output[s]
      BY <1>2, <3>2 DEF RunningTotals
    <3> QED BY <1>1, <1>4, <3>3, GetTakesAll
  <2> QED BY <1>1, <1>2, <1>4, <2>1, GetKeepsUnits
<1>5. CASE ~(GetEndMarker \/ GetData) /\ ~\E t \in Streams : Emit(t)
  <2>1. chunks' = chunks /\ output' = output /\ wrote'[s] + Behind(s) = wrote[s] + Behind(s)'
    BY <1>1, <1>5, BalanceStays
  <2>2. /\ totals[Len(chunks)] \in Nat /\ pipe[s] \in Nat /\ reader[s].have \in Nat
        /\ wrote[s] = totals[Len(chunks)] + reader[s].have + pipe[s]
    <3>1. Len(chunks) \in Nat
      BY <1>1, LenProperties DEF ProcessTypes
    <3>2. Len(chunks) \in 0..Len(chunks)
      BY <3>1
    <3> QED BY <1>1, <1>2, <3>2 DEF RunningTotals, ProcessTypes
  <2>3. wrote'[s] \in Nat /\ pipe'[s] \in Nat /\ reader'[s].have \in Nat
    BY <1>1, NextTypes DEF ProcessTypes
  <2>4. wrote'[s] = totals[Len(chunks)] + reader'[s].have + pipe'[s]
    <3> DEFINE total == totals[Len(chunks)]
    <3>1. wrote'[s] + (reader[s].have + pipe[s]) = wrote[s] + (reader'[s].have + pipe'[s])
      BY <2>1 DEF Behind
    <3>2. total \in Nat /\ wrote[s] = total + reader[s].have + pipe[s]
      BY <2>2
    <3>3. wrote'[s] = total + reader'[s].have + pipe'[s]
      <4> DEFINE w == wrote'[s]
                 v == wrote[s]
                 h == reader[s].have
                 p == pipe[s]
                 h1 == reader'[s].have
                 p1 == pipe'[s]
      <4>1. /\ w \in Nat /\ v \in Nat /\ h \in Nat /\ p \in Nat /\ h1 \in Nat /\ p1 \in Nat
            /\ total \in Nat
        BY <1>1, <2>2, <2>3, <3>2 DEF ProcessTypes
      <4>2. w + (h + p) = v + (h1 + p1) /\ v = total + h + p
        BY <3>1, <3>2
      <4> HIDE DEF w, v, h, p, h1, p1, total
      <4>3. w = total + h1 + p1
        BY <4>1, <4>2
      <4> QED BY <4>3 DEF w, h1, p1
    <3> QED BY <3>3
  <2>5. RunningTotals(s, totals)'
    BY <1>2, <2>1, <2>4 DEF RunningTotals
  <2> QED BY <2>1, <2>5
<1> QED BY <1>3, <1>4, <1>5

\* A nonempty set of naturals has a least element.
LEMMA LeastOfNumbers ==
  ASSUME NEW T, T \subseteq Nat, T # {}
  PROVE  \E n \in T : \A m \in T : n <= m
<1> DEFINE R == {p \in Nat \X Nat : p[1] < p[2]}
<1>1. IsWellFoundedOn(R, Nat)
  BY NatLessThanWellFounded DEF OpToRel
<1>2. PICK n \in T : \A m \in T : ~(<<m, n>> \in R)
  <2> HIDE DEF R
  <2> QED BY <1>1, WFMin
<1>3. \A m \in T : ~(m < n)
  BY <1>2
<1> QED BY <1>3

\* Totals that grow from item to item are at most the last one.
LEMMA TotalsGrow ==
  ASSUME NEW n \in Nat, NEW f \in [0..n -> Nat], \A i \in 1..n : f[i - 1] <= f[i]
  PROVE  \A i \in 0..n : f[i] <= f[n]
<1> DEFINE T == {n - i : i \in {j \in 0..n : f[j] > f[n]}}
<1>1. \A i \in 0..n : f[i] \in Nat
  OBVIOUS
<1>2. SUFFICES ASSUME T # {} PROVE FALSE
  <2>1. ASSUME NEW i \in 0..n, f[i] > f[n] PROVE T # {}
    BY <2>1
  <2>2. \A i \in 0..n : ~(f[i] > f[n]) => f[i] <= f[n]
    <3>1. f[n] \in Nat
      BY <1>1
    <3> QED BY <1>1, <3>1
  <2> QED BY <2>1, <2>2
<1>3. T \subseteq Nat
  OBVIOUS
<1>4. PICK d \in T : \A m \in T : d <= m
  <2> HIDE DEF T
  <2> QED BY <1>2, <1>3, LeastOfNumbers
<1>5. PICK i \in 0..n : f[i] > f[n] /\ d = n - i
  OBVIOUS
<1>6. i # n
  <2>1. f[n] \in Nat
    BY <1>1
  <2> QED BY <1>5, <2>1
<1>7. i + 1 \in 1..n /\ i + 1 \in 0..n /\ (i + 1) - 1 = i
  BY <1>6
<1>8. f[i + 1] > f[n]
  <2>1. f[i] <= f[i + 1]
    BY <1>7
  <2>2. f[i] \in Nat /\ f[i + 1] \in Nat /\ f[n] \in Nat
    BY <1>1, <1>7
  <2> QED BY <1>5, <2>1, <2>2
<1>9. n - (i + 1) \in T
  BY <1>7, <1>8
<1>10. d <= n - (i + 1)
  BY <1>4, <1>9
<1> QED BY <1>5, <1>10

\* Totals that never change end where they began.
LEMMA TotalsFlat ==
  ASSUME NEW n \in Nat, NEW f \in [0..n -> Nat], \A i \in 1..n : f[i] = f[i - 1]
  PROVE  f[n] = f[0]
<1> DEFINE T == {i \in 0..n : f[i] # f[0]}
<1>1. SUFFICES ASSUME T # {} PROVE FALSE
  OBVIOUS
<1>2. T \subseteq Nat
  OBVIOUS
<1>3. PICK i \in T : \A m \in T : i <= m
  <2> HIDE DEF T
  <2> QED BY <1>1, <1>2, LeastOfNumbers
<1>4. i \in 1..n /\ i - 1 \in 0..n /\ ~(i <= i - 1)
  BY <1>3
<1>5. f[i] = f[i - 1] /\ f[i] # f[0]
  BY <1>3, <1>4
<1>6. i - 1 \in T
  BY <1>4, <1>5
<1> QED BY <1>3, <1>4, <1>6

\* What the queue holds of a stream, and its first item, were written.
LEMMA QueueWasWritten ==
  ASSUME ProcessTypes, NEW s \in Streams, NEW totals, RunningTotals(s, totals)
  PROVE  /\ output[s] <= wrote[s]
         /\ chunks # <<>> => output[s] + (IF chunks[1].s = s THEN chunks[1].n ELSE 0) <= wrote[s]
         /\ (\A i \in 1..Len(chunks) : chunks[i].s # s) => wrote[s] = output[s] + Behind(s)
<1> DEFINE len == Len(chunks)
           got(i) == IF chunks[i].s = s THEN chunks[i].n ELSE 0
<1>1. len \in Nat /\ \A i \in 1..len : chunks[i] \in [s : Streams, n : Nat]
  BY ElementOfSeq, LenProperties DEF ProcessTypes
<1>2. \A i \in 1..len : got(i) \in Nat
  BY <1>1
<1>3. /\ totals \in [0..len -> Nat] /\ totals[0] = output[s]
      /\ \A i \in 1..len : totals[i] = totals[i - 1] + got(i)
      /\ wrote[s] = totals[len] + reader[s].have + pipe[s]
  BY DEF RunningTotals
<1>4. reader[s].have \in Nat /\ pipe[s] \in Nat /\ totals[len] \in Nat /\ wrote[s] \in Nat /\ output[s] \in Nat
  BY <1>1, <1>3 DEF ProcessTypes
<1>5. totals[len] <= wrote[s]
  <2> DEFINE w == wrote[s]
             h == reader[s].have
             p == pipe[s]
             last == totals[len]
  <2>1. w \in Nat /\ h \in Nat /\ p \in Nat /\ last \in Nat /\ w = last + h + p
    BY <1>3, <1>4
  <2> HIDE DEF w, h, p, last
  <2>2. last <= w
    BY <2>1
  <2> QED BY <2>2 DEF w, last
<1>6. \A i \in 0..len : totals[i] <= totals[len]
  <2>1. ASSUME NEW i \in 1..len PROVE totals[i - 1] <= totals[i]
    <3>1. i - 1 \in 0..len /\ i \in 0..len
      BY <1>1
    <3>2. totals[i - 1] \in Nat /\ totals[i] \in Nat /\ got(i) \in Nat /\ totals[i] = totals[i - 1] + got(i)
      BY <1>2, <1>3, <3>1
    <3> HIDE DEF got
    <3> QED BY <3>2
  <2> HIDE DEF len
  <2> QED BY <1>1, <1>3, <2>1, TotalsGrow
<1>7. output[s] <= wrote[s]
  <2>1. 0 \in 0..len
    BY <1>1
  <2>2. output[s] <= totals[len]
    BY <1>3, <1>6, <2>1
  <2> QED BY <1>4, <1>5, <2>2
<1>8. ASSUME chunks # <<>> PROVE output[s] + got(1) <= wrote[s]
  <2>1. 1 \in 1..len /\ 1 \in 0..len /\ 1 - 1 = 0
    BY <1>1, <1>8, QueueIs
  <2>2. totals[1] = output[s] + got(1) /\ totals[1] <= totals[len]
    BY <1>3, <1>6, <2>1
  <2>3. totals[1] \in Nat
    BY <1>3, <2>1
  <2> HIDE DEF got
  <2> QED BY <1>4, <1>5, <2>2, <2>3
<1>9. ASSUME \A i \in 1..len : chunks[i].s # s PROVE wrote[s] = output[s] + Behind(s)
  <2>1. \A i \in 1..len : totals[i] = totals[i - 1]
    <3>1. ASSUME NEW i \in 1..len PROVE totals[i] = totals[i - 1]
      <4>1. got(i) = 0 /\ i - 1 \in 0..len
        BY <1>1, <1>9
      <4>2. totals[i - 1] \in Nat /\ totals[i] = totals[i - 1] + got(i)
        BY <1>3, <4>1
      <4> QED BY <4>1, <4>2
    <3> QED BY <3>1
  <2>2. totals[len] = totals[0]
    <3> HIDE DEF len
    <3> QED BY <1>1, <1>3, <2>1, TotalsFlat
  <2>3. wrote[s] = output[s] + reader[s].have + pipe[s]
    BY <1>3, <2>2
  <2> QED BY <1>4, <2>3 DEF Behind
<1> QED BY <1>7, <1>8, <1>9

-----------------------------------------------------------------------------
(***************************************************************************)
(* The budget, and why a call fails or returns                             *)
(***************************************************************************)

\* Data never makes the output larger than the budget.
LEMMA BudgetStays ==
  ASSUME ProcessTypes, WithinBudget, [Next]_vars
  PROVE  WithinBudget'
<1>1. CASE output' = output
  BY <1>1 DEF WithinBudget, Total
<1>2. CASE GetData
  <2> DEFINE item == Head(chunks)
             available == Budget - Total(output)
             taken == Earlier(item.n, available)
  <2>1. item \in [s : Streams, n : Nat] /\ output' = [output EXCEPT ![item.s] = @ + taken]
    BY <1>2, QueueIs DEF GetData
  <2>2. output["stdout"] \in Nat /\ output["stderr"] \in Nat /\ Budget \in Nat
    BY Numbers DEF ProcessTypes, Streams
  <2>3. output["stdout"] + output["stderr"] <= Budget /\ available = Budget - (output["stdout"] + output["stderr"])
    BY DEF WithinBudget, Total
  <2>4. available \in Nat
    BY <2>2, <2>3
  <2>5. taken \in Nat /\ taken <= available
    BY <2>1, <2>4, Numbers
  <2>6. output'["stdout"] + output'["stderr"] = output["stdout"] + output["stderr"] + taken
    <3> HIDE DEF taken, item
    <3>1. CASE item.s = "stdout"
      <4>1. output'["stdout"] = output["stdout"] + taken /\ output'["stderr"] = output["stderr"]
        BY <2>1, <3>1 DEF ProcessTypes, Streams
      <4> QED BY <2>2, <2>5, <4>1
    <3>2. CASE item.s = "stderr"
      <4>1. output'["stderr"] = output["stderr"] + taken /\ output'["stdout"] = output["stdout"]
        BY <2>1, <3>2 DEF ProcessTypes, Streams
      <4> QED BY <2>2, <2>5, <4>1
    <3> QED BY <2>1, <3>1, <3>2 DEF Streams
  <2> HIDE DEF taken, available
  <2>7. output["stdout"] + output["stderr"] + taken <= Budget
    BY <2>2, <2>3, <2>4, <2>5
  <2> QED BY <2>6, <2>7 DEF WithinBudget, Total
<1>3. CASE ~GetData
  <2>1. CASE Environment
    BY <2>1, <1>1 DEF Environment, Tick, Spawn, Detach, Exit, Die, Write, callerVars
  <2>2. ASSUME NEW s \in Streams, ReadStream(s) PROVE output' = output
    BY <2>2 DEF ReadStream, Fill, EndOfStream, Emit, DropEmit, callerVars
  <2>3. CASE Caller \/ Interrupt \/ Abandon
    BY <1>1, <1>3, <2>3 DEF Caller, Start, Prepare, Loop, GetNothing, GetEndMarker, Drained, Wait, Finally,
                CloseStream, JoinAndReturn, Interrupt, Abandon
  <2>4. CASE UNCHANGED vars
    BY <1>1, <2>4 DEF vars, callerVars
  <2> QED BY <1>1, <2>1, <2>2, <2>3, <2>4 DEF Next, Environment
<1> QED BY <1>2, <1>3

\* Neither time nor what was written is taken back, and nothing is started twice.
LEMMA NothingIsUndone ==
  ASSUME ProcessTypes, [Next]_vars
  PROVE  /\ clock' >= clock
         /\ Total(wrote') >= Total(wrote)
         /\ ~Running /\ pc # "start" => ~Running'
<1>1. clock \in Nat /\ wrote["stdout"] \in Nat /\ wrote["stderr"] \in Nat
  BY DEF ProcessTypes, Streams
<1>2. CASE Tick
  BY <1>1, <1>2 DEF Tick, treeVars, Running, Total
<1>3. CASE Spawn \/ Detach \/ Exit \/ Die
  BY <1>1, <1>3 DEF Spawn, Detach, Exit, Die, Running, Total
<1>4. ASSUME NEW s \in Streams, Write(s)
      PROVE clock' >= clock /\ Total(wrote') >= Total(wrote) /\ (~Running => ~Running')
  <2>1. clock' = clock /\ proc' = proc /\ wrote' = [wrote EXCEPT ![s] = @ + 1]
    BY <1>4 DEF Write
  <2>2. wrote'["stdout"] \in {wrote["stdout"], wrote["stdout"] + 1}
        /\ wrote'["stderr"] \in {wrote["stderr"], wrote["stderr"] + 1}
    BY <2>1 DEF ProcessTypes, Streams
  <2>3. wrote'["stdout"] + wrote'["stderr"] >= wrote["stdout"] + wrote["stderr"]
    BY <1>1, <2>2
  <2> QED BY <1>1, <2>1, <2>3 DEF Running, Total
<1>5. CASE proc' = proc /\ wrote' = wrote /\ clock' = clock
  BY <1>1, <1>5 DEF Running, Total
<1>6. ASSUME NEW s \in Streams, ReadStream(s) PROVE proc' = proc /\ wrote' = wrote /\ clock' = clock
  BY <1>6 DEF ReadStream, Fill, EndOfStream, Emit, DropEmit, treeVars
<1>7. CASE Caller \/ Interrupt \/ Abandon
  <2>1. CASE Start
    BY <1>1, <2>1 DEF Start, Total
  <2>2. CASE ~Start
    <3>1. proc' = proc /\ wrote' = wrote /\ clock' = clock
      BY <1>7, <2>2 DEF Caller, Prepare, Loop, GetNothing, GetEndMarker, GetData, Drained, Wait, Finally,
                CloseStream, JoinAndReturn, Interrupt, Abandon, treeVars
    <3> QED BY <1>5, <3>1
  <2> QED BY <2>1, <2>2
<1>8. CASE UNCHANGED vars
  BY <1>5, <1>8 DEF vars, treeVars
<1> QED BY <1>2, <1>3, <1>4, <1>5, <1>6, <1>7, <1>8 DEF Next

\* What the caller leaves alone keeps its reasons.
LEMMA EarnedStays ==
  ASSUME ProcessInv, [Next]_vars, pc' = pc, failure' = failure, cleanup' = cleanup,
         output' = output, finished' = finished, result' = result
  PROVE  FailureIsEarned' /\ ResultIsEarned'
<1>1. /\ clock \in Nat /\ clock' \in Nat /\ Deadline \in Nat /\ ExecutionDeadline \in Nat /\ Budget \in Nat
      /\ Total(wrote) \in Nat /\ Total(wrote') \in Nat
  <2>1. ProcessTypes /\ ProcessTypes'
    BY NextTypes DEF ProcessInv
  <2>2. /\ wrote["stdout"] \in Nat /\ wrote["stderr"] \in Nat
        /\ wrote'["stdout"] \in Nat /\ wrote'["stderr"] \in Nat
    BY <2>1 DEF ProcessTypes, Streams
  <2>3. Total(wrote) \in Nat /\ Total(wrote') \in Nat
    BY <2>2 DEF Total
  <2>4. Deadline \in Nat /\ ExecutionDeadline \in Nat /\ Budget \in Nat
    BY Numbers
  <2> QED BY <2>1, <2>3, <2>4 DEF ProcessTypes
<1>2. clock' >= clock /\ Total(wrote') >= Total(wrote) /\ (~Running /\ pc # "start" => ~Running')
  BY NothingIsUndone DEF ProcessInv
<1>3. Whole => Whole'
  BY SilentStays DEF ProcessInv, Whole
<1>4. /\ clock >= ExecutionDeadline => clock' >= ExecutionDeadline
      /\ clock >= Deadline => clock' >= Deadline
      /\ Total(wrote) > Budget => Total(wrote)' > Budget
  <2>1. Total(wrote)' = Total(wrote')
    BY DEF Total
  <2> QED BY <1>1, <1>2, <2>1
<1>5. FailureIsEarned /\ ResultIsEarned
  BY DEF ProcessInv
<1>6. FailureIsEarned'
  BY <1>2, <1>3, <1>4, <1>5 DEF FailureIsEarned
<1>7. ResultIsEarned'
  BY <1>3, <1>4, <1>5 DEF ResultIsEarned
<1> QED BY <1>6, <1>7

\* Both end markers have been taken: the output is all there is.
LEMMA BothTakenIsWhole ==
  ASSUME ProcessInv, Open, failure = "none", finished >= 2
  PROVE  finished = 2 /\ Whole
<1>1. ProcessTypes /\ QueueIsOrdered /\ EndedIsSilent /\ Conserved
  BY DEF ProcessInv
<1>2. Took("stdout") \in {0, 1} /\ Took("stderr") \in {0, 1} /\ finished = Took("stdout") + Took("stderr")
  BY <1>1 DEF QueueIsOrdered, Took
<1>3. finished = 2 /\ Took("stdout") = 1 /\ Took("stderr") = 1
  BY <1>2
<1>4. \A s \in Streams : Taken(s)
  BY <1>3 DEF Took, Streams
<1>5. ASSUME NEW s \in Streams PROVE Silent /\ wrote[s] = output[s]
  <2>1. Silent /\ reader[s].have = 0 /\ pipe[s] = 0 /\ \A i \in 1..Len(chunks) : chunks[i].s # s
    BY <1>1, <1>4 DEF EndedIsSilent, QueueIsOrdered, Taken
  <2>2. PICK totals \in [0..Len(chunks) -> Nat] : RunningTotals(s, totals)
    BY <1>1 DEF Conserved
  <2>3. wrote[s] = output[s] + Behind(s)
    BY <1>1, <2>1, <2>2, QueueWasWritten
  <2>4. Behind(s) = 0 /\ output[s] \in Nat
    BY <1>1, <2>1 DEF Behind, ProcessTypes
  <2> QED BY <2>1, <2>3, <2>4
<1>6. output = wrote
  BY <1>1, <1>5 DEF ProcessTypes
<1>7. Silent
  BY <1>5 DEF Streams
<1> QED BY <1>3, <1>6, <1>7 DEF Whole

\* The step that finds a failure, or that finds none, has its reasons.
LEMMA LoopEarns ==
  ASSUME ProcessInv, Loop
  PROVE  FailureIsEarned' /\ ResultIsEarned'
<1>1. /\ ProcessTypes /\ FailureIsEarned /\ TreeIsOwned
      /\ clock' = clock /\ wrote' = wrote /\ output' = output /\ result' = result /\ pc = "loop"
      /\ pc' = IF clock >= cleanup' THEN "drained" ELSE "get"
  BY DEF ProcessInv, Loop
<1>2. /\ failure' = failure \/ failure' = "Cancelled"
         \/ (failure' = "Timeout" /\ clock >= ExecutionDeadline)
      /\ failure' = "none" => cleanup' = cleanup
  <2>1. PICK asked \in BOOLEAN :
          LET watching == failure = "none" /\ ~contained
              cancel   == watching /\ asked
              timeout  == watching /\ ~asked /\ clock >= ExecutionDeadline /\ Running
              ended    == watching /\ ~asked /\ ~Running
          IN /\ failure' = CASE cancel -> "Cancelled" [] timeout -> "Timeout" [] OTHER -> failure
             /\ cleanup' = IF cancel THEN Earlier(Deadline, clock + CleanupReserve) ELSE cleanup
    BY DEF Loop
  <2> DEFINE cancel == failure = "none" /\ ~contained /\ asked
             timeout == failure = "none" /\ ~contained /\ ~asked /\ clock >= ExecutionDeadline /\ Running
  <2>2. /\ failure' = CASE cancel -> "Cancelled" [] timeout -> "Timeout" [] OTHER -> failure
        /\ cleanup' = IF cancel THEN Earlier(Deadline, clock + CleanupReserve) ELSE cleanup
    BY <2>1
  <2>3. CASE cancel
    BY <2>2, <2>3
  <2>4. CASE ~cancel
    BY <2>2, <2>4
  <2> QED BY <2>3, <2>4
<1>3. result' = "none"
  BY <1>1 DEF TreeIsOwned
<1>4. ResultIsEarned'
  BY <1>3 DEF ResultIsEarned, Ended
<1>5. failure' = "none" => cleanup' = Deadline /\ failure = "none"
  BY <1>1, <1>2 DEF FailureIsEarned
<1>6. /\ failure' = "Timeout" => clock' >= ExecutionDeadline
      /\ failure' = "OutputLimit" => Total(wrote)' > Budget
      /\ failure' = "Drain" => clock' >= Deadline
  BY <1>1, <1>2 DEF FailureIsEarned, Total
<1>7. pc' \in {"drained", "get"} /\ (failure' = "none" /\ pc' = "drained" => clock' >= Deadline)
  BY <1>1, <1>5
<1> QED BY <1>4, <1>5, <1>6, <1>7 DEF FailureIsEarned

\* An output limit is only reported of a tree that wrote more than the budget.
LEMMA DataEarns ==
  ASSUME ProcessInv, GetData
  PROVE  FailureIsEarned' /\ ResultIsEarned'
<1> DEFINE item == Head(chunks)
           available == Budget - Total(output)
<1>1. /\ ProcessTypes /\ FailureIsEarned /\ TreeIsOwned /\ Conserved /\ WithinBudget
      /\ clock' = clock /\ wrote' = wrote /\ result' = result /\ pc = "get" /\ pc' = "loop"
      /\ item = chunks[1] /\ chunks # <<>>
  BY QueueIs DEF ProcessInv, GetData
<1>2. /\ failure' = IF item.n > available /\ failure = "none" THEN "OutputLimit" ELSE failure
      /\ cleanup' = IF item.n > available /\ failure = "none"
                    THEN Earlier(Deadline, clock + CleanupReserve) ELSE cleanup
  BY DEF GetData
<1>3. ASSUME item.n > available, failure = "none" PROVE Total(wrote)' > Budget
  <2>1. \A s \in Streams : output[s] + (IF item.s = s THEN item.n ELSE 0) <= wrote[s]
    <3>1. ASSUME NEW s \in Streams
          PROVE  output[s] + (IF item.s = s THEN item.n ELSE 0) <= wrote[s]
      <4>1. PICK totals \in [0..Len(chunks) -> Nat] : RunningTotals(s, totals)
        BY <1>1, <1>3 DEF Conserved, Open
      <4> QED BY <1>1, <4>1, QueueWasWritten
    <3> QED BY <3>1
  <2>2. item.s \in {"stdout", "stderr"} /\ item.n \in Nat
    BY <1>1, QueueIs DEF Streams
  <2>3. /\ output["stdout"] \in Nat /\ output["stderr"] \in Nat
        /\ wrote["stdout"] \in Nat /\ wrote["stderr"] \in Nat /\ Budget \in Nat
    BY <1>1, Numbers DEF ProcessTypes, Streams
  <2>4. item.n > Budget - (output["stdout"] + output["stderr"])
    BY <1>3 DEF Total
  <2> HIDE DEF item, available
  <2>5. CASE item.s = "stdout"
    <3>1. output["stdout"] + item.n <= wrote["stdout"] /\ output["stderr"] + 0 <= wrote["stderr"]
      BY <2>1, <2>5 DEF Streams
    <3>2. wrote["stdout"] + wrote["stderr"] > Budget
      BY <2>2, <2>3, <2>4, <3>1
    <3> QED BY <1>1, <3>2 DEF Total
  <2>6. CASE item.s = "stderr"
    <3>1. output["stderr"] + item.n <= wrote["stderr"] /\ output["stdout"] + 0 <= wrote["stdout"]
      BY <2>1, <2>6 DEF Streams
    <3>2. wrote["stdout"] + wrote["stderr"] > Budget
      BY <2>2, <2>3, <2>4, <3>1
    <3> QED BY <1>1, <3>2 DEF Total
  <2> QED BY <2>2, <2>5, <2>6
<1>4. ResultIsEarned'
  BY <1>1 DEF ResultIsEarned, TreeIsOwned, Ended
<1>5. Total(wrote)' = Total(wrote)
  BY <1>1 DEF Total
<1>6. CASE item.n > available /\ failure = "none"
  <2>1. failure' = "OutputLimit" /\ Total(wrote)' > Budget
    BY <1>2, <1>3, <1>6
  <2> QED BY <1>4, <2>1 DEF FailureIsEarned
<1>7. CASE ~(item.n > available /\ failure = "none")
  <2>1. failure' = failure /\ cleanup' = cleanup
    BY <1>2, <1>7
  <2> QED BY <1>1, <1>4, <1>5, <2>1 DEF FailureIsEarned
<1> QED BY <1>6, <1>7

\* The other steps of the calling thread.
LEMMA CallerEarns ==
  ASSUME ProcessInv, Caller \/ Interrupt \/ Abandon
  PROVE  FailureIsEarned' /\ ResultIsEarned'
<1>1. ProcessTypes /\ FailureIsEarned /\ ResultIsEarned /\ TreeIsOwned
  BY DEF ProcessInv
<1>2. CASE Start
  <2>1. /\ failure' = failure /\ cleanup' = cleanup /\ clock' = clock /\ wrote' = wrote
        /\ pc' \in {"setup", "returned"} /\ result' \in {"none", "Launch"}
    BY <1>1, <1>2 DEF Start, TreeIsOwned
  <2>2. ResultIsEarned'
    BY <2>1 DEF ResultIsEarned, Ended
  <2> QED BY <1>1, <2>1, <2>2 DEF FailureIsEarned, Total
<1>3. CASE Loop
  BY <1>3, LoopEarns
<1>4. CASE GetNothing
  BY <1>1, <1>4 DEF GetNothing, FailureIsEarned, ResultIsEarned, TreeIsOwned, Ended, treeVars, Total
<1>5. CASE GetEndMarker
  <2>1. /\ failure' = failure /\ cleanup' = cleanup /\ clock' = clock /\ wrote' = wrote
        /\ result' = "none" /\ finished' = finished + 1
        /\ pc' = IF finished' < 2 THEN "loop" ELSE "drained"
    BY <1>1, <1>5 DEF GetEndMarker, TreeIsOwned, treeVars
  <2>2. QueueIsOrdered'
    BY <1>5, GetKeepsOrder DEF Open, GetEndMarker
  <2>3. Open' /\ finished' \in Nat => finished' \in {0, 1, 2}
    <3>1. Took("stdout")' \in {0, 1} /\ Took("stderr")' \in {0, 1}
      BY DEF Took
    <3> QED BY <2>2, <3>1 DEF QueueIsOrdered
  <2>4. pc' \in {"loop", "drained"} /\ (pc' = "drained" => finished' = 2)
    <3>1. finished' \in Nat
      BY <1>1, <2>1 DEF ProcessTypes
    <3>2. Open'
      BY <2>1 DEF Open
    <3> QED BY <2>1, <2>3, <3>1, <3>2
  <2>5. ResultIsEarned'
    BY <2>1 DEF ResultIsEarned, Ended
  <2> QED BY <1>1, <2>1, <2>4, <2>5 DEF FailureIsEarned, Total
<1>6. CASE GetData
  BY <1>6, DataEarns
<1>7. CASE Drained
  <2>1. /\ failure' = IF finished < 2 /\ failure = "none" THEN "Drain" ELSE failure
        /\ cleanup' = cleanup /\ clock' = clock /\ wrote' = wrote /\ output' = output
        /\ proc' = proc /\ kin' = kin /\ attached' = attached
        /\ result' = "none" /\ pc = "drained" /\ pc' = "wait" /\ finished \in Nat
    BY <1>1, <1>7 DEF Drained, TreeIsOwned, ProcessTypes
  <2>2. failure' = "none" => Whole'
    <3>1. failure' = "none" => failure = "none" /\ finished >= 2
      BY <2>1
    <3>2. failure' = "none" => Whole
      BY <2>1, <3>1, BothTakenIsWhole DEF Open
    <3> QED BY <2>1, <3>2 DEF Whole, Silent, Running
  <2>3. failure' # failure => failure' = "Drain" /\ clock' >= Deadline
    <3>1. finished < 2 => finished # 2
      BY <2>1
    <3> QED BY <1>1, <2>1, <3>1 DEF FailureIsEarned
  <2>4. ResultIsEarned'
    BY <2>1 DEF ResultIsEarned, Ended
  <2> QED BY <1>1, <2>1, <2>2, <2>3, <2>4 DEF FailureIsEarned, Total
<1>8. CASE Wait
  <2>1. /\ (~Running /\ failure' = failure) \/ (clock >= Deadline /\ failure' = "Drain")
           \/ (failure # "none" /\ failure' = failure)
        /\ cleanup' = cleanup /\ clock' = clock /\ wrote' = wrote /\ output' = output
        /\ proc' = proc /\ kin' = kin /\ attached' = attached
        /\ result' = "none" /\ pc = "wait" /\ pc' = "finally"
    BY <1>1, <1>8 DEF Wait, TreeIsOwned, treeVars
  <2>2. ResultIsEarned'
    BY <2>1 DEF ResultIsEarned, Ended
  <2> QED BY <1>1, <2>1, <2>2 DEF FailureIsEarned, Total, Whole, Silent, Running
<1>9. CASE Finally \/ CloseStream
  <2>1. /\ failure' = failure /\ cleanup' = cleanup /\ clock' = clock /\ wrote' = wrote /\ output' = output
        /\ proc' = proc /\ kin' = kin /\ attached' = attached
        /\ result' = "none" /\ pc \in {"finally", "close"} /\ pc' \in {"close", "join"}
    BY <1>1, <1>9 DEF Finally, CloseStream, TreeIsOwned, treeVars
  <2>2. ResultIsEarned'
    BY <2>1 DEF ResultIsEarned, Ended
  <2> QED BY <1>1, <2>1, <2>2 DEF FailureIsEarned, Total, Whole, Silent, Running
<1>10. CASE JoinAndReturn
  <2>1. /\ failure' = failure /\ cleanup' = cleanup /\ clock' = clock /\ wrote' = wrote /\ output' = output
        /\ proc' = proc /\ kin' = kin /\ attached' = attached
        /\ pc = "join" /\ pc' = "returned"
        /\ result' = IF failure # "none" THEN failure ELSE IF Running THEN "Drain" ELSE proc
    BY <1>10 DEF JoinAndReturn, treeVars
  <2>2. FailureIsEarned'
    BY <1>1, <2>1 DEF FailureIsEarned, Total
  <2>3. CASE failure # "none"
    <3>1. result' = failure /\ result' \notin Ended
      BY <1>1, <2>1, <2>3 DEF ProcessTypes, Ended
    <3> QED BY <1>1, <2>1, <2>2, <2>3, <3>1 DEF FailureIsEarned, ResultIsEarned, Total
  <2>4. CASE failure = "none"
    <3>1. Whole' /\ result' = proc /\ proc \in {"none", "alive"} \union Ended
      BY <1>1, <2>1, <2>4 DEF FailureIsEarned, Whole, Silent, Running, ProcessTypes
    <3>2. result' \notin {"Timeout", "OutputLimit", "Drain"}
      BY <3>1 DEF Ended
    <3> QED BY <2>2, <3>1, <3>2 DEF ResultIsEarned
  <2> QED BY <2>3, <2>4
<1>11. CASE Interrupt
  <2>1. failure' = "Interrupted" /\ result' = "none"
    BY <1>1, <1>11 DEF Interrupt, TreeIsOwned
  <2> QED BY <2>1 DEF FailureIsEarned, ResultIsEarned, Ended
<1>12. CASE Prepare
  BY <1>1, <1>12 DEF Prepare, FailureIsEarned, ResultIsEarned, TreeIsOwned, Ended, treeVars, Total
<1>13. CASE Abandon
  <2>1. /\ failure' = failure /\ cleanup' = cleanup /\ clock' = clock /\ wrote' = wrote
        /\ pc' = "returned" /\ result' = "Abandoned"
    BY <1>13 DEF Abandon, treeVars
  <2>2. ResultIsEarned'
    BY <2>1 DEF ResultIsEarned, Ended
  <2> QED BY <1>1, <2>1, <2>2 DEF FailureIsEarned, Total
<1> QED BY <1>2, <1>3, <1>4, <1>5, <1>6, <1>7, <1>8, <1>9, <1>10, <1>11, <1>12, <1>13 DEF Caller

-----------------------------------------------------------------------------
(***************************************************************************)
(* The theorems                                                            *)
(***************************************************************************)

\* A call that has not started has written and lost nothing.
LEMMA ProcessInvInit == Init => ProcessInv
<1> SUFFICES ASSUME Init PROVE ProcessInv
  OBVIOUS
<1> USE DEF Init
<1>1. ProcessTypes
  <2>1. clock \in Nat /\ cleanup \in Nat
    BY Numbers
  <2>2. chunks \in Seq([s : Streams, n : Nat])
    OBVIOUS
  <2>3. /\ pipe \in [Streams -> Nat] /\ wrote \in [Streams -> Nat] /\ output \in [Streams -> Nat]
        /\ reader \in [Streams -> [at : {"read", "emit", "end", "done"}, have : Nat]]
    OBVIOUS
  <2> QED BY <2>1, <2>2, <2>3 DEF ProcessTypes, Places
<1>2. chunks = <<>> /\ Len(chunks) = 0 /\ 1..Len(chunks) = {}
  OBVIOUS
<1>3. OpenIsOpen /\ TreeIsOwned /\ EndedIsSilent
  BY DEF OpenIsOpen, TreeIsOwned, EndedIsSilent
<1>4. QueueIsOrdered
  <2>1. \A s \in Streams : ~Taken(s)
    BY DEF Taken
  <2>2. Took("stdout") = 0 /\ Took("stderr") = 0
    BY <2>1 DEF Took, Streams
  <2> QED BY <1>2, <2>1, <2>2 DEF QueueIsOrdered
<1>5. Conserved
  <2>1. ASSUME NEW s \in Streams
        PROVE  \E totals \in [0..Len(chunks) -> Nat] : RunningTotals(s, totals)
    <3>1. PICK totals \in [0..Len(chunks) -> Nat] : totals = [i \in 0..Len(chunks) |-> 0]
      OBVIOUS
    <3>2. totals[0] = 0 /\ totals[Len(chunks)] = 0
      BY <1>2, <3>1
    <3>3. output[s] = 0 /\ wrote[s] = 0 /\ reader[s].have = 0 /\ pipe[s] = 0
      OBVIOUS
    <3> QED BY <1>2, <3>2, <3>3 DEF RunningTotals
  <2> QED BY <2>1 DEF Conserved
<1>6. WithinBudget
  BY Numbers DEF WithinBudget, Total, Streams
<1>7. FailureIsEarned /\ ResultIsEarned
  BY DEF FailureIsEarned, ResultIsEarned, Ended
<1> QED BY <1>1, <1>3, <1>4, <1>5, <1>6, <1>7 DEF ProcessInv

\* Every step of every actor keeps the invariant.
LEMMA ProcessInvStep == ProcessInv /\ [Next]_vars => ProcessInv'
<1> SUFFICES ASSUME ProcessInv, [Next]_vars PROVE ProcessInv'
  OBVIOUS
<1>1. /\ ProcessTypes /\ OpenIsOpen /\ TreeIsOwned /\ EndedIsSilent /\ WithinBudget
  BY DEF ProcessInv
<1>2. ProcessTypes' /\ OpenIsOpen' /\ TreeIsOwned' /\ EndedIsSilent' /\ WithinBudget'
  BY <1>1, NextTypes, OpenStaysOpen, TreeStaysOwned, EndStaysSilent, BudgetStays
<1>3. QueueIsOrdered' /\ Conserved'
  BY OrderStays, UnitsStay
<1>4. FailureIsEarned' /\ ResultIsEarned'
  <2>1. CASE UNCHANGED callerVars
    BY <2>1, EarnedStays DEF callerVars
  <2>2. CASE Environment
    BY <2>1, <2>2 DEF Environment, Tick, Spawn, Detach, Exit, Die, Write
  <2>3. ASSUME NEW s \in Streams, ReadStream(s) PROVE UNCHANGED callerVars
    BY <2>3 DEF ReadStream, Fill, EndOfStream, Emit, DropEmit
  <2>4. CASE UNCHANGED vars
    BY <2>1, <2>4 DEF vars
  <2> QED BY <2>1, <2>2, <2>3, <2>4, CallerEarns DEF Next, Environment
<1> QED BY <1>2, <1>3, <1>4 DEF ProcessInv

LEMMA ProcessInvariant == Spec => []ProcessInv
BY ProcessInvInit, ProcessInvStep, PTL DEF Spec

(***************************************************************************)
(* Whatever order the four threads, the child and its descendant run in,   *)
(* a call that returns the child's code has all of the output, and a call  *)
(* that raises says why (run_bounded_process).                             *)
(***************************************************************************)
THEOREM OutcomeStaysTrue == Spec => []OutcomeIsTrue
<1>1. ProcessInv => OutcomeIsTrue
  <2> SUFFICES ASSUME ProcessInv PROVE OutcomeIsTrue
    OBVIOUS
  <2>1. ResultIsEarned /\ WithinBudget
    BY DEF ProcessInv
  <2> QED BY <2>1 DEF OutcomeIsTrue, ResultIsEarned, WithinBudget, Whole, Ended
<1> QED BY <1>1, ProcessInvariant, PTL

(***************************************************************************)
(* On every path out of the try, an interrupt at any place of it included, *)
(* no process of the boundary is left that has not been killed             *)
(* (_ProcessTree.terminate).  A call abandoned in front of the try or in   *)
(* its finally block is outside this.                                      *)
(***************************************************************************)
THEOREM NothingEverOutlives == Spec => []NothingOutlives
<1>1. ProcessInv => NothingOutlives
  BY DEF ProcessInv, TreeIsOwned, Killed, NothingOutlives, Returned
<1> QED BY <1>1, ProcessInvariant, PTL

-----------------------------------------------------------------------------
(***************************************************************************)
(* The call implements what its callers rely on                            *)
(***************************************************************************)

Calling == CASE pc = "start" -> "ready" [] Returned -> "returned" [] OTHER -> "running"
TheChild == IF Running /\ "proc" \in doomed THEN "doomed" ELSE proc

\* A step that keeps the child, its doom and the call is a stutter.
LEMMA CallStutters ==
  ASSUME proc' = proc, "proc" \in doomed' <=> "proc" \in doomed, result' = result,
         pc' = pc \/ (pc \notin {"start", "returned"} /\ pc' \notin {"start", "returned"})
  PROVE  UNCHANGED Abstraction!callVars
<1>1. Calling' = Calling /\ TheChild' = TheChild
  BY DEF Calling, TheChild, Returned, Running
<1> QED BY <1>1 DEF Abstraction!callVars, Calling, TheChild

\* A step of the running call that may kill the child.
LEMMA CallKills ==
  ASSUME ProcessTypes, proc' = proc, doomed' \in {doomed, Terminated}, result' = result,
         pc \notin {"start", "returned"}, pc' \notin {"start", "returned"}
  PROVE  Abstraction!CallNext \/ UNCHANGED Abstraction!callVars
<1>1. CASE "proc" \in doomed' <=> "proc" \in doomed
  BY <1>1, CallStutters
<1>2. CASE ~("proc" \in doomed' <=> "proc" \in doomed)
  <2>1. doomed' = Terminated /\ "proc" \notin doomed /\ "proc" \in doomed'
    BY <1>2, TerminatedIs
  <2>2. Running
    BY <2>1 DEF Terminated
  <2>3. Calling = "running" /\ Calling' = "running" /\ TheChild = "alive" /\ TheChild' = "doomed"
    BY <2>1, <2>2 DEF Calling, TheChild, Returned, Running
  <2>4. Abstraction!Kill
    BY <2>3 DEF Abstraction!Kill, Calling, TheChild
  <2> QED BY <2>4 DEF Abstraction!CallNext
<1> QED BY <1>1, <1>2

\* The start and the end of a call.
LEMMA CallInitImplements == Init => Abstraction!CallInit
<1> SUFFICES ASSUME Init PROVE Abstraction!CallInit
  OBVIOUS
<1>1. Calling = "ready" /\ TheChild = "none" /\ result = "none"
  <2>1. pc = "start" /\ proc = "none" /\ result = "none"
    BY DEF Init
  <2>2. Calling = "ready"
    BY <2>1 DEF Calling, Returned
  <2> QED BY <2>1, <2>2 DEF TheChild, Running
<1> QED BY <1>1 DEF Abstraction!CallInit, Calling, TheChild

LEMMA StartImplements ==
  ASSUME ProcessInv, Start
  PROVE  Abstraction!CallNext
<1>1. pc = "start" /\ proc = "none" /\ doomed = {} /\ doomed' = doomed
  BY DEF ProcessInv, TreeIsOwned, Start
<1>2. CASE proc' = "alive" /\ pc' = "setup" /\ result' = result
  <2>1. Calling = "ready" /\ Calling' = "running" /\ TheChild' = "alive"
    BY <1>1, <1>2 DEF Calling, TheChild, Returned, Running
  <2>2. Abstraction!Launch
    BY <1>2, <2>1 DEF Abstraction!Launch, Calling, TheChild
  <2> QED BY <2>2 DEF Abstraction!CallNext
<1>3. CASE proc' = "none" /\ pc' = "returned" /\ result' = "Launch"
  <2>1. Calling = "ready" /\ Calling' = "returned" /\ TheChild' = TheChild
    BY <1>1, <1>3 DEF Calling, TheChild, Returned, Running
  <2>2. Abstraction!LaunchFails
    BY <1>3, <2>1 DEF Abstraction!LaunchFails, Calling, TheChild
  <2> QED BY <2>2 DEF Abstraction!CallNext
<1> QED BY <1>2, <1>3 DEF Start

LEMMA ReturnImplements ==
  ASSUME ProcessInv, JoinAndReturn
  PROVE  Abstraction!CallNext
<1>1. /\ pc = "join" /\ pc' = "returned" /\ proc' = proc /\ doomed' = doomed
      /\ result' = IF failure # "none" THEN failure ELSE IF Running THEN "Drain" ELSE proc
  BY DEF JoinAndReturn, treeVars
<1>2. ProcessTypes /\ TreeIsOwned /\ proc # "none" /\ (Running => "proc" \in doomed)
  BY <1>1 DEF ProcessInv, TreeIsOwned, Killed
<1>3. Calling = "running" /\ Calling' = "returned" /\ TheChild # "alive" /\ TheChild' = TheChild
  BY <1>1, <1>2 DEF Calling, TheChild, Returned, Running
<1>4. result' \in (Abstraction!Refusals \ {"Launch", "Abandoned"}) \union ({TheChild} \intersect Abstraction!Ended)
  <2>1. CASE failure # "none" \/ Running
    <3>1. result' \in {"Cancelled", "Timeout", "OutputLimit", "Drain", "Interrupted"}
      BY <1>1, <1>2, <2>1 DEF ProcessTypes
    <3> QED BY <3>1 DEF Abstraction!Refusals
  <2>2. CASE failure = "none" /\ ~Running
    <3>1. result' = proc /\ TheChild = proc /\ proc \in Ended
      BY <1>1, <1>2, <2>2 DEF ProcessTypes, TheChild, Running
    <3> QED BY <3>1 DEF Ended, Abstraction!Ended
  <2> QED BY <2>1, <2>2
<1>5. Abstraction!CallReturns
  BY <1>3, <1>4 DEF Abstraction!CallReturns, Calling, TheChild
<1> QED BY <1>5 DEF Abstraction!CallNext

LEMMA AbandonImplements ==
  ASSUME ProcessInv, Abandon
  PROVE  Abstraction!CallNext
<1>1. /\ pc \notin {"start", "returned"} /\ pc' = "returned" /\ result' = "Abandoned"
      /\ proc' = proc /\ doomed' = doomed
  BY DEF Abandon, treeVars
<1>2. Calling = "running" /\ Calling' = "returned" /\ TheChild' = TheChild
  BY <1>1 DEF Calling, TheChild, Returned, Running
<1>3. Abstraction!Abandon
  BY <1>1, <1>2 DEF Abstraction!Abandon, Calling, TheChild
<1> QED BY <1>3 DEF Abstraction!CallNext

\* The child's end, and steps that the callers do not see.
LEMMA EnvironmentImplements ==
  ASSUME ProcessInv, Environment
  PROVE  Abstraction!CallNext \/ UNCHANGED Abstraction!callVars
<1>1. pc' = pc /\ result' = result /\ doomed' = doomed
  BY DEF Environment, Tick, Spawn, Detach, Exit, Die, Write, treeVars, callerVars
<1>2. CASE proc' = proc
  BY <1>1, <1>2, CallStutters
<1>3. CASE proc' # proc
  <2>1. Running /\ (proc' = "exited" \/ (proc' = "killed" /\ "proc" \in doomed))
    BY <1>3 DEF Environment, Tick, Spawn, Detach, Exit, Die, Write, treeVars
  <2>2. /\ Calling' = Calling /\ TheChild \in {"alive", "doomed"} /\ TheChild' = proc'
        /\ proc' = "killed" => TheChild = "doomed"
    BY <1>1, <2>1 DEF Calling, TheChild, Returned, Running
  <2>3. CASE proc' = "exited"
    <3>1. Abstraction!ChildEnds
      BY <1>1, <2>2, <2>3 DEF Abstraction!ChildEnds, Calling, TheChild
    <3> QED BY <3>1 DEF Abstraction!CallNext
  <2>4. CASE proc' = "killed"
    <3>1. Abstraction!KilledChildDies
      BY <1>1, <2>2, <2>4 DEF Abstraction!KilledChildDies, Calling, TheChild
    <3> QED BY <3>1 DEF Abstraction!CallNext
  <2> QED BY <2>1, <2>3, <2>4
<1> QED BY <1>2, <1>3

LEMMA CallStepImplements ==
  ASSUME ProcessInv, [Next]_vars
  PROVE  Abstraction!CallNext \/ UNCHANGED Abstraction!callVars
<1>1. ProcessTypes
  BY DEF ProcessInv
<1>2. ASSUME NEW s \in Streams, ReadStream(s)
      PROVE  proc' = proc /\ doomed' = doomed /\ result' = result /\ pc' = pc
  BY <1>2 DEF ReadStream, Fill, EndOfStream, Emit, DropEmit, treeVars, callerVars
<1>3. CASE Loop \/ GetData \/ Drained \/ Finally
  <2>1. /\ proc' = proc /\ result' = result
        /\ pc \notin {"start", "returned"} /\ pc' \notin {"start", "returned"}
    BY <1>3 DEF Loop, GetData, Drained, Finally
  <2>2. doomed' \in {doomed, Terminated}
    <3>1. CASE Loop
      BY <3>1 DEF Loop
    <3>2. CASE GetData
      BY <3>2 DEF GetData
    <3>3. CASE Drained \/ Finally
      BY <3>3 DEF Drained, Finally
    <3> QED BY <1>3, <3>1, <3>2, <3>3
  <2> QED BY <1>1, <2>1, <2>2, CallKills
<1>4. CASE Prepare \/ GetNothing \/ GetEndMarker \/ Wait \/ CloseStream \/ Interrupt
  <2>1. /\ proc' = proc /\ doomed' = doomed /\ result' = result
        /\ pc \notin {"start", "returned"} /\ pc' \notin {"start", "returned"}
    BY <1>4 DEF Prepare, GetNothing, GetEndMarker, Wait, CloseStream, Interrupt, treeVars
  <2> QED BY <2>1, CallStutters
<1>5. CASE UNCHANGED vars
  <2>1. proc' = proc /\ doomed' = doomed /\ result' = result /\ pc' = pc
    BY <1>5 DEF vars, treeVars, callerVars
  <2> QED BY <2>1, CallStutters
<1> QED BY <1>2, <1>3, <1>4, <1>5, StartImplements, ReturnImplements, AbandonImplements,
           EnvironmentImplements, CallStutters
        DEF Next, Environment, Caller

(***************************************************************************)
(* Every call is, step for step, a call of BoundedCall: it launches once,  *)
(* returns once, with the end of the child or a refusal, and, unless it is *)
(* abandoned outside its try, never over a child that has not been killed. *)
(* (That it returns at all is checked by the run: it needs the fairness.)  *)
(***************************************************************************)
THEOREM ProcessImplementsCall ==
  Spec => Abstraction!CallInit /\ [][Abstraction!CallNext]_(Abstraction!callVars)
<1>1. ProcessInv /\ [Next]_vars => [Abstraction!CallNext]_(Abstraction!callVars)
  BY CallStepImplements
<1> QED BY <1>1, CallInitImplements, ProcessInvariant, PTL DEF Spec
==============================================================================
