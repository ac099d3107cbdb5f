---------------------- MODULE GenerationControllerProofs ----------------------
(***************************************************************************)
(* Proofs about the model-generation store and its controllers, for any    *)
(* number of controllers, corpora and behaviors and any capacity of the    *)
(* log, with failing and interrupted publications and crashes.             *)
(*                                                                         *)
(* What replay computes is a recursive function of the log; that a log     *)
(* with one more event replays to the state after that event is shown by   *)
(* least counterexample.  On it rest three facts.  LogInv: whatever has    *)
(* been written replays, to a state in which one transition at a time is   *)
(* under way (OneTransition), so that the writers' guards imply every      *)
(* check of replay.  AppendInv: during an append each file holds the       *)
(* events before it or those events and the new one, and everything        *)
(* acknowledged is among the former.  CallInv: evidence that is being      *)
(* evaluated is spent in the acknowledged events, and what the reservation *)
(* in progress adds was checked against all of them.                       *)
(*                                                                         *)
(* The same invariant carries the refinement of GenerationLine: what is    *)
(* settled moves only by one event that replay accepts, and such an event  *)
(* is a step of the line or none.                                          *)
(***************************************************************************)
EXTENDS GenerationController, SequenceTheorems, WellFoundedInduction, TLAPS

-----------------------------------------------------------------------------
(* Replay                                                                  *)

\* Induction by least counterexample.
LEMMA LeastNumber ==
  ASSUME NEW T, T \subseteq Nat, T # {}
  PROVE  \E n \in T : \A m \in T : n <= m
<1> DEFINE R == {p \in Nat \X Nat : p[1] < p[2]}
<1>1. IsWellFoundedOn(R, Nat)
  BY NatLessThanWellFounded DEF OpToRel
<1>2. PICK n \in T : \A m \in T : ~(<<m, n>> \in R)
  <2> HIDE DEF R
  <2> QED BY <1>1, WFMin
<1>3. \A m \in T : ~(m < n)
  BY <1>2
<1> QED BY <1>3

\* f[n] is what the first n events come to.
Replays(f, events, k) ==
    f = [n \in 0 .. k |-> IF n = 0 THEN Blank ELSE ReplayEvent(f[n - 1], events[n])]

\* There is such a function of every length: otherwise a least one is missing,
\* which the one before it extends to.
LEMMA ReplaysExist ==
  ASSUME NEW events, NEW N \in Nat
  PROVE  \E f : Replays(f, events, N)
<1> DEFINE T == {k \in Nat : ~\E f : Replays(f, events, k)}
<1>1. SUFFICES T = {}
  OBVIOUS
<1>2. SUFFICES ASSUME T # {} PROVE FALSE
  OBVIOUS
<1>3. PICK k \in T : \A m \in T : k <= m
  <2> HIDE DEF T
  <2>1. T \subseteq Nat
    BY DEF T
  <2> QED BY <1>2, <2>1, LeastNumber
<1>4. k # 0
  <2>1. Replays([n \in 0 .. 0 |-> Blank], events, 0)
    BY DEF Replays
  <2> QED BY <2>1
<1>5. k \in Nat /\ k - 1 \in Nat /\ k - 1 \notin T
  BY <1>3, <1>4
<1>6. PICK f : Replays(f, events, k - 1)
  BY <1>5
<1> DEFINE g == [n \in 0 .. k |-> IF n = k THEN ReplayEvent(f[k - 1], events[k]) ELSE f[n]]
<1>7. \A n \in 0 .. (k - 1) :
        f[n] = IF n = 0 THEN Blank ELSE ReplayEvent(f[n - 1], events[n])
  BY <1>5, <1>6 DEF Replays
<1>8. g = [n \in 0 .. k |-> IF n = 0 THEN Blank ELSE ReplayEvent(g[n - 1], events[n])]
  <2>1. ASSUME NEW n \in 0 .. k
        PROVE  g[n] = IF n = 0 THEN Blank ELSE ReplayEvent(g[n - 1], events[n])
    <3>1. CASE n = k
      <4>1. g[n] = ReplayEvent(f[k - 1], events[k])
        BY <3>1
      <4>2. g[n - 1] = f[k - 1]
        BY <1>5, <1>4, <3>1
      <4> QED BY <1>4, <3>1, <4>1, <4>2
    <3>2. CASE n # k /\ n # 0
      <4>1. n \in 0 .. (k - 1) /\ n - 1 \in 0 .. k /\ n - 1 # k
        BY <1>5, <3>2
      <4>2. g[n] = f[n] /\ g[n - 1] = f[n - 1]
        BY <3>2, <4>1
      <4> QED BY <1>7, <3>2, <4>1, <4>2
    <3>3. CASE n # k /\ n = 0
      BY <1>5, <1>7, <3>3
    <3> QED BY <3>1, <3>2, <3>3
  <2> QED BY <2>1
<1>9. Replays(g, events, k)
  <2> HIDE DEF g
  <2> QED BY <1>8 DEF Replays
<1> QED BY <1>3, <1>9

LEMMA ReplayReplays ==
  ASSUME NEW events, Len(events) \in Nat
  PROVE  \E f : Replays(f, events, Len(events)) /\ Replay(events) = f[Len(events)]
<1> DEFINE F(f) == f = [n \in 0 .. Len(events) |->
                          IF n = 0 THEN Blank ELSE ReplayEvent(f[n - 1], events[n])]
           after == CHOOSE f : F(f)
<1>1. \E f : F(f)
  BY ReplaysExist DEF Replays
<1>2. F(after)
  BY <1>1
<1>3. Replay(events) = after[Len(events)]
  BY DEF Replay
<1>4. Replays(after, events, Len(events))
  BY <1>2 DEF Replays
<1> QED BY <1>3, <1>4

LEMMA ReplayBlank == Replay(<<>>) = Blank
<1>1. PICK f : Replays(f, <<>>, 0) /\ Replay(<<>>) = f[0]
  BY ReplayReplays
<1> QED BY <1>1 DEF Replays

\* A log with one more event replays to the state after that event.
LEMMA ReplayAppend ==
  ASSUME NEW S, NEW events \in Seq(S), NEW e \in S
  PROVE  Replay(Append(events, e)) = ReplayEvent(Replay(events), e)
<1> DEFINE more == Append(events, e)
<1>1. PICK N \in Nat : N = Len(events)
  BY LenProperties
<1>2. PICK M \in Nat : M = N + 1
  BY <1>1
<1>3. /\ Len(more) = M /\ more[M] = e
      /\ \A i \in 1 .. N : events[i] = more[i]
  BY <1>1, <1>2, AppendProperties
<1> HIDE DEF more
<1>4. PICK f : Replays(f, events, N) /\ Replay(events) = f[N]
  BY <1>1, ReplayReplays
<1>5. PICK g : Replays(g, more, M) /\ Replay(more) = g[M]
  BY <1>3, ReplayReplays
<1>6. N <= M
  BY <1>2
<1>7. f[N] = g[N]
  <2> DEFINE T == {n \in 0 .. N : f[n] # g[n]}
  <2>1. SUFFICES T = {}
    BY <1>1
  <2>2. SUFFICES ASSUME T # {} PROVE FALSE
    OBVIOUS
  <2>3. PICK n \in T : \A m \in T : n <= m
    <3> HIDE DEF T
    <3>1. T \subseteq Nat
      BY DEF T
    <3> QED BY <2>2, <3>1, LeastNumber
  <2>4. /\ \A i \in 0 .. N : f[i] = IF i = 0 THEN Blank ELSE ReplayEvent(f[i - 1], events[i])
        /\ \A i \in 0 .. M : g[i] = IF i = 0 THEN Blank ELSE ReplayEvent(g[i - 1], more[i])
    BY <1>4, <1>5 DEF Replays
  <2>5. n \in 0 .. N /\ n \in 0 .. M /\ n # 0 /\ n - 1 \in 0 .. N
    BY <1>1, <1>2, <2>3, <2>4
  <2>6. f[n - 1] = g[n - 1]
    BY <2>3, <2>5
  <2>7. events[n] = more[n]
    BY <1>3, <2>5
  <2>8. f[n] = g[n]
    BY <2>4, <2>5, <2>6, <2>7
  <2> QED BY <2>3, <2>8
<1>8. g[M] = ReplayEvent(g[N], e)
  <2>1. \A n \in 0 .. M : g[n] = IF n = 0 THEN Blank ELSE ReplayEvent(g[n - 1], more[n])
    BY <1>5 DEF Replays
  <2>2. M \in 0 .. M /\ M # 0 /\ M - 1 = N
    BY <1>2
  <2> QED BY <1>3, <2>1, <2>2
<1> QED BY <1>4, <1>5, <1>7, <1>8 DEF more

-----------------------------------------------------------------------------
(* One transition at a time                                                *)

\* What a valid log can have come to.
LifeStates ==
    [ok : {TRUE}, active : Generations \cup {NoGeneration},
     pendingCandidate : Usages \cup {NoUsage}, candidate : Lineages \cup {NoLineage},
     approved : Lineages \cup {NoLineage}, activated : Lineages \cup {NoLineage},
     pendingLive : Usages \cup {NoUsage}, reopen : Usages \cup {NoUsage},
     count : Nat, last : Generations \cup {NoGeneration},
     behaviors : SUBSET Behaviors, spent : SUBSET UNION Corpora]

CandidateOrder(s) ==
    /\ s.pendingCandidate # NoUsage =>
         /\ s.pendingCandidate.purpose = "candidate"
         /\ s.pendingCandidate.subject = s.active
         /\ NothingInProgress(s)
    /\ s.candidate # NoLineage =>
         /\ s.approved = NoLineage
         /\ InSequence(s, s.candidate)
         /\ s.candidate.behavior \notin s.behaviors
    /\ s.approved # NoLineage =>
         /\ s.approved.accepted
         /\ InSequence(s, s.approved)
         /\ s.approved.behavior \notin s.behaviors

LiveOrder(s) ==
    /\ s.pendingLive # NoUsage =>
         /\ s.pendingLive.purpose = "live"
         /\ s.pendingLive.subject = s.active
         /\ s.activated # NoLineage
         /\ NothingInProgress(s)
    /\ s.reopen # NoUsage => s.activated # NoLineage

\* No work on a candidate before there is a parent or while a child is active.
ActiveOrder(s) ==
    /\ s.activated = NoLineage => s.active \in {Parent, NoGeneration}
    /\ s.activated # NoLineage => s.active = Child(s.activated)
    /\ s.activated # NoLineage \/ s.active = NoGeneration =>
         s.candidate = NoLineage /\ s.approved = NoLineage /\ s.pendingCandidate = NoUsage

OneTransition(s) == CandidateOrder(s) /\ LiveOrder(s) /\ ActiveOrder(s)

LifeInv(s) == s \in LifeStates /\ OneTransition(s)

\* An event names the usage and the lineage its kind is about.
AboutUsage == {"parent_registered", "evidence_reserved", "evidence_abandoned",
               "reopen_requested", "parent_restored"}
Proper(e) ==
    /\ e \in EventRecords
    /\ e.kind \in AboutUsage => e.usage \in Usages
    /\ e.kind \notin AboutUsage \/ e.kind = "parent_restored" => e.lineage \in Lineages

\* The markers are no values, and the parts of values have their types.
LEMMA NoneIsReal ==
  /\ Parent \in Generations
  /\ \A u \in Usages : u # NoUsage /\ u.subject # NoGeneration /\ u.subject \in Generations
                       /\ u.examples \in Corpora
                       /\ u.purpose \in {"parent", "candidate", "live"}
                       /\ u.examples \subseteq UNION Corpora
  /\ \A l \in Lineages : l # NoLineage /\ Child(l) \in Generations /\ l.behavior \in Behaviors
                         /\ l.usage \in Usages /\ l.sequence \in 1 .. LogCapacity
                         /\ l.accepted \in BOOLEAN
                         /\ l.previous \in Generations \cup {NoGeneration}
  /\ NoGeneration \notin Generations
BY MarkerAssumption DEF Generations, Usages, Lineages, Child

\* Nothing is in progress before the first event.
LEMMA BlankInv == LifeInv(Blank)
BY DEF LifeInv, LifeStates, Blank, OneTransition, CandidateOrder, LiveOrder, ActiveOrder

\* Every event that replay accepts keeps one transition at a time.
LEMMA ValidKeepsOrder ==
  ASSUME NEW s, LifeInv(s), NEW e, Proper(e), Valid(s, e)
  PROVE  LifeInv(After(s, e))
<1> DEFINE t == After(s, e)
<1> USE DEF LifeInv, OneTransition
<1>s. s \in LifeStates
  OBVIOUS
<1>1. CASE e.kind = "parent_registered"
  <2>1. e.usage \in Usages /\ ValidRegistered(s, e)
    BY <1>1 DEF Proper, Valid, AboutUsage
  <2>2. t = [s EXCEPT !.active = Parent, !.spent = @ \cup e.usage.examples]
    BY <1>1 DEF After
  <2>3. t \in LifeStates
    <3>1. s.spent \cup e.usage.examples \in SUBSET UNION Corpora
      <4>1. s.spent \in SUBSET UNION Corpora /\ e.usage.examples \subseteq UNION Corpora
        BY <1>s, <2>1, NoneIsReal DEF LifeStates
      <4> QED BY <4>1
    <3> QED BY <1>s, <2>2, <3>1, NoneIsReal DEF LifeStates
  <2>4. CandidateOrder(t) /\ LiveOrder(t) /\ ActiveOrder(t)
    BY <1>s, <2>1, <2>2, NoneIsReal
    DEF CandidateOrder, LiveOrder, ActiveOrder, LifeStates, ValidRegistered,
        NothingInProgress, InSequence
  <2> QED BY <2>3, <2>4
<1>2. CASE e.kind = "evidence_reserved"
  <2>1. e.usage \in Usages /\ ValidReserved(s, e)
    BY <1>2 DEF Proper, Valid, AboutUsage
  <2>2. t = [s EXCEPT !.pendingCandidate =
                          IF e.usage.purpose = "candidate" THEN e.usage ELSE @,
                      !.pendingLive =
                          IF e.usage.purpose = "live" THEN e.usage ELSE @,
                      !.spent = @ \cup e.usage.examples]
    BY <1>2 DEF After
  <2>3. t \in LifeStates
    <3>1. t.pendingCandidate \in Usages \cup {NoUsage} /\ t.pendingLive \in Usages \cup {NoUsage}
      BY <1>s, <2>1, <2>2 DEF LifeStates
    <3>2. t.spent \in SUBSET UNION Corpora
      <4>1. t.spent = s.spent \cup e.usage.examples
        BY <1>s, <2>2 DEF LifeStates
      <4>2. s.spent \in SUBSET UNION Corpora /\ e.usage.examples \subseteq UNION Corpora
        BY <1>s, <2>1, NoneIsReal DEF LifeStates
      <4> QED BY <4>1, <4>2
    <3>3. t = [s EXCEPT !.pendingCandidate = t.pendingCandidate,
                        !.pendingLive = t.pendingLive, !.spent = t.spent]
      BY <1>s, <2>2 DEF LifeStates
    <3> HIDE DEF t
    <3> QED BY <1>s, <3>1, <3>2, <3>3 DEF LifeStates
  <2>4. CandidateOrder(t) /\ LiveOrder(t) /\ ActiveOrder(t)
    BY <1>s, <2>1, <2>2, NoneIsReal
    DEF CandidateOrder, LiveOrder, ActiveOrder, LifeStates, ValidReserved,
        NothingInProgress, InSequence
  <2> QED BY <2>3, <2>4
<1>3. CASE e.kind = "evidence_abandoned"
  <2>1. e.usage \in Usages /\ ValidAbandoned(s, e)
    BY <1>3 DEF Proper, Valid, AboutUsage
  <2>2. t = [s EXCEPT !.pendingCandidate =
                          IF e.usage.purpose = "candidate" THEN NoUsage ELSE @,
                      !.pendingLive =
                          IF e.usage.purpose = "live" THEN NoUsage ELSE @]
    BY <1>3 DEF After
  <2>3. t \in LifeStates
    <3>1. t.pendingCandidate \in Usages \cup {NoUsage} /\ t.pendingLive \in Usages \cup {NoUsage}
      BY <1>s, <2>1, <2>2 DEF LifeStates
    <3>2. t.spent \in SUBSET UNION Corpora
      BY <1>s, <2>1, <2>2, NoneIsReal DEF LifeStates
    <3>3. t = [s EXCEPT !.pendingCandidate = t.pendingCandidate,
                        !.pendingLive = t.pendingLive, !.spent = t.spent]
      BY <1>s, <2>2 DEF LifeStates
    <3> HIDE DEF t
    <3> QED BY <1>s, <3>1, <3>2, <3>3 DEF LifeStates
  <2>4. CandidateOrder(t) /\ LiveOrder(t) /\ ActiveOrder(t)
    BY <1>s, <2>1, <2>2, NoneIsReal
    DEF CandidateOrder, LiveOrder, ActiveOrder, LifeStates, ValidAbandoned,
        NothingInProgress, InSequence
  <2> QED BY <2>3, <2>4
<1>4. CASE e.kind = "candidate_created"
  <2>1. e.lineage \in Lineages /\ ValidCreated(s, e)
    BY <1>4 DEF Proper, Valid, AboutUsage
  <2>2. t = [s EXCEPT !.candidate = e.lineage, !.pendingCandidate = NoUsage]
    BY <1>4 DEF After
  <2>3. t \in LifeStates
    BY <1>s, <2>1, <2>2 DEF LifeStates
  <2>4. CandidateOrder(t) /\ LiveOrder(t) /\ ActiveOrder(t)
    BY <1>s, <2>1, <2>2, NoneIsReal
    DEF CandidateOrder, LiveOrder, ActiveOrder, LifeStates, ValidCreated,
        NothingInProgress, InSequence
  <2> QED BY <2>3, <2>4
<1>5. CASE e.kind = "candidate_rejected"
  <2>1. e.lineage \in Lineages /\ ValidRejected(s, e)
    BY <1>5 DEF Proper, Valid, AboutUsage
  <2>2. t = [s EXCEPT !.candidate = NoLineage]
    BY <1>5 DEF After
  <2>3. t \in LifeStates
    BY <1>s, <2>1, <2>2 DEF LifeStates
  <2>4. CandidateOrder(t) /\ LiveOrder(t) /\ ActiveOrder(t)
    BY <1>s, <2>1, <2>2, NoneIsReal
    DEF CandidateOrder, LiveOrder, ActiveOrder, LifeStates, ValidRejected,
        NothingInProgress, InSequence
  <2> QED BY <2>3, <2>4
<1>6. CASE e.kind = "promotion_approved"
  <2>1. e.lineage \in Lineages /\ ValidApproved(s, e)
    BY <1>6 DEF Proper, Valid, AboutUsage
  <2>2. t = [s EXCEPT !.candidate = NoLineage, !.approved = e.lineage]
    BY <1>6 DEF After
  <2>3. t \in LifeStates
    BY <1>s, <2>1, <2>2 DEF LifeStates
  <2>4. CandidateOrder(t) /\ LiveOrder(t) /\ ActiveOrder(t)
    BY <1>s, <2>1, <2>2, NoneIsReal
    DEF CandidateOrder, LiveOrder, ActiveOrder, LifeStates, ValidApproved,
        NothingInProgress, InSequence
  <2> QED BY <2>3, <2>4
<1>7. CASE e.kind = "activated"
  <2>1. e.lineage \in Lineages /\ ValidActivated(s, e)
    BY <1>7 DEF Proper, Valid, AboutUsage
  <2>2. t = AfterActivated(s, e.lineage)
    BY <1>7 DEF After
  <2>3. t \in LifeStates
    <3>1. Child(e.lineage) \in Generations /\ s.count + 1 \in Nat
          /\ s.behaviors \cup {e.lineage.behavior} \in SUBSET Behaviors
      BY <1>s, <2>1, NoneIsReal DEF LifeStates
    <3> QED BY <1>s, <2>1, <2>2, <3>1 DEF LifeStates, AfterActivated
  <2>4. CandidateOrder(t) /\ LiveOrder(t) /\ ActiveOrder(t)
    BY <1>s, <2>1, <2>2, NoneIsReal
    DEF CandidateOrder, LiveOrder, ActiveOrder, LifeStates, ValidActivated,
        NothingInProgress, InSequence, AfterActivated
  <2> QED BY <2>3, <2>4
<1>8. CASE e.kind = "reopen_requested"
  <2>1. e.usage \in Usages /\ ValidReopen(s, e)
    BY <1>8 DEF Proper, Valid, AboutUsage
  <2>2. t = [s EXCEPT !.reopen = e.usage, !.pendingLive = NoUsage]
    BY <1>8 DEF After
  <2>3. t \in LifeStates
    BY <1>s, <2>1, <2>2 DEF LifeStates
  <2>4. CandidateOrder(t) /\ LiveOrder(t) /\ ActiveOrder(t)
    BY <1>s, <2>1, <2>2, NoneIsReal
    DEF CandidateOrder, LiveOrder, ActiveOrder, LifeStates, ValidReopen,
        NothingInProgress, InSequence
  <2> QED BY <2>3, <2>4
<1>9. CASE e.kind = "parent_restored"
  <2>1. e.usage \in Usages /\ e.lineage \in Lineages /\ ValidRestored(s, e)
    BY <1>9 DEF Proper, Valid, AboutUsage
  <2>2. t = [s EXCEPT !.active = Parent, !.activated = NoLineage, !.reopen = NoUsage]
    BY <1>9 DEF After
  <2>3. t \in LifeStates
    BY <1>s, <2>1, <2>2, NoneIsReal DEF LifeStates
  <2>4. CandidateOrder(t) /\ LiveOrder(t) /\ ActiveOrder(t)
    BY <1>s, <2>1, <2>2, NoneIsReal
    DEF CandidateOrder, LiveOrder, ActiveOrder, LifeStates, ValidRestored,
        NothingInProgress, InSequence
  <2> QED BY <2>3, <2>4
<1>10. e.kind \in Kinds
  BY DEF Proper, EventRecords
<1> QED BY <1>1, <1>2, <1>3, <1>4, <1>5, <1>6, <1>7, <1>8, <1>9, <1>10 DEF Kinds

-----------------------------------------------------------------------------
(* Logs                                                                    *)

\* What every file that was ever published holds.
LogInv(events) ==
    /\ events \in Seq(EventRecords) /\ Len(events) <= LogCapacity
    /\ LifeInv(Replay(events))
    /\ Replay(events).count <= Len(events)
    /\ SpentUsages(events) \subseteq Usages
    /\ Replay(events).spent = UNION {u.examples : u \in SpentUsages(events)}

\* One more event spends its evidence, if it spends any.
LEMMA SpentAppend ==
  ASSUME NEW events \in Seq(EventRecords), NEW e \in EventRecords
  PROVE  SpentUsages(Append(events, e)) =
            SpentUsages(events) \cup (IF SpendsEvidence(e) THEN {e.usage} ELSE {})
<1> DEFINE more == Append(events, e)
<1>1. Range(more) = Range(events) \cup {e}
  <2>1. Range(events) = {events[i] : i \in 1 .. Len(events)}
    BY RangeEquality
  <2>2. more \in Seq(EventRecords) /\ Len(more) = Len(events) + 1 /\ Len(events) \in Nat
        /\ (\A i \in 1 .. Len(events) : more[i] = events[i]) /\ more[Len(events) + 1] = e
    BY AppendProperties, LenProperties
  <2> HIDE DEF more
  <2>3. Range(more) = {more[i] : i \in 1 .. (Len(events) + 1)}
    BY <2>2, RangeEquality
  <2>4. 1 .. (Len(events) + 1) = (1 .. Len(events)) \cup {Len(events) + 1}
    BY <2>2
  <2>5. {more[i] : i \in 1 .. Len(events)} = {events[i] : i \in 1 .. Len(events)}
    BY <2>2
  <2>6. Range(more) = {more[i] : i \in 1 .. Len(events)} \cup {more[Len(events) + 1]}
    BY <2>3, <2>4
  <2> QED BY <2>1, <2>2, <2>5, <2>6
<1> HIDE DEF more
<1>2. SpentUsages(more) = {d.usage : d \in {x \in Range(events) \cup {e} : SpendsEvidence(x)}}
  BY <1>1 DEF SpentUsages
<1>3. SpentUsages(more) =
        {d.usage : d \in {x \in Range(events) : SpendsEvidence(x)}}
          \cup {d.usage : d \in {x \in {e} : SpendsEvidence(x)}}
  BY <1>2
<1>4. {d.usage : d \in {x \in {e} : SpendsEvidence(x)}}
        = IF SpendsEvidence(e) THEN {e.usage} ELSE {}
  OBVIOUS
<1> QED BY <1>3, <1>4 DEF SpentUsages, more

LEMMA EmptyLog == LogInv(<<>>) /\ SpentUsages(<<>>) = {}
<1>1. SpentUsages(<<>>) = {}
  <2>1. Range(<<>>) = {}
    BY DEF Range
  <2> QED BY <2>1 DEF SpentUsages
<1>2. <<>> \in Seq(EventRecords) /\ Len(<<>>) = 0
  BY EmptySeq
<1>3. Replay(<<>>) = Blank /\ LifeInv(Blank) /\ Blank.count = 0 /\ Blank.spent = {}
  BY ReplayBlank, BlankInv DEF Blank
<1> QED BY <1>1, <1>2, <1>3, CapacityAssumption DEF LogInv

\* What an event adds to the activations and to the spent observations.
LEMMA AfterCounts ==
  ASSUME NEW s \in LifeStates, NEW e, Proper(e)
  PROVE  /\ After(s, e).count = IF e.kind = "activated" THEN s.count + 1 ELSE s.count
         /\ After(s, e).spent = s.spent \cup (IF SpendsEvidence(e) THEN e.usage.examples ELSE {})
<1>1. e.kind \in Kinds
  BY DEF Proper, EventRecords
<1>2. CASE e.kind \in {"parent_registered", "evidence_reserved"}
  BY <1>2 DEF After, SpendsEvidence, LifeStates
<1>3. CASE e.kind = "activated"
  BY <1>3 DEF After, AfterActivated, SpendsEvidence, LifeStates
<1>4. CASE e.kind \notin {"parent_registered", "evidence_reserved", "activated"}
  BY <1>1, <1>4 DEF After, SpendsEvidence, LifeStates, Kinds
<1> QED BY <1>2, <1>3, <1>4

\* The writers' rule: a proper event that replay accepts keeps a log replayable.
LEMMA ValidAppends ==
  ASSUME NEW events, LogInv(events), Len(events) < LogCapacity,
         NEW e, Proper(e), Valid(Replay(events), e)
  PROVE  LogInv(Append(events, e)) /\ Replay(Append(events, e)) = After(Replay(events), e)
<1> DEFINE s == Replay(events)
           more == Append(events, e)
<1>1. events \in Seq(EventRecords) /\ e \in EventRecords /\ LifeInv(s) /\ s \in LifeStates
  BY DEF LogInv, LifeInv, Proper
<1>2. Replay(more) = After(s, e)
  <2>1. Replay(more) = ReplayEvent(s, e)
    BY <1>1, ReplayAppend
  <2>2. s.ok
    BY <1>1 DEF LifeStates
  <2> HIDE DEF s, more
  <2> QED BY <2>1, <2>2 DEF ReplayEvent, s
<1>3. LifeInv(After(s, e))
  BY <1>1, ValidKeepsOrder
<1>4. more \in Seq(EventRecords) /\ Len(more) = Len(events) + 1 /\ Len(events) \in Nat
  BY <1>1, AppendProperties, LenProperties
<1>5. After(s, e).count <= Len(more)
  <2>1. s.count \in Nat /\ s.count <= Len(events)
    BY <1>1 DEF LifeStates, LogInv
  <2> HIDE DEF more, s
  <2> QED BY <1>1, <1>4, <2>1, AfterCounts
<1>6. SpentUsages(more) = SpentUsages(events) \cup (IF SpendsEvidence(e) THEN {e.usage} ELSE {})
  BY <1>1, SpentAppend
<1>7. SpendsEvidence(e) => e.usage \in Usages
  BY DEF SpendsEvidence, Proper, AboutUsage
<1> HIDE DEF more, s
<1>8. SpentUsages(more) \subseteq Usages
  BY <1>6, <1>7 DEF LogInv
<1>9. After(s, e).spent = UNION {u.examples : u \in SpentUsages(more)}
  <2>1. s.spent = UNION {u.examples : u \in SpentUsages(events)}
    BY DEF LogInv, s
  <2>2. After(s, e).spent = s.spent \cup (IF SpendsEvidence(e) THEN e.usage.examples ELSE {})
    BY <1>1, AfterCounts
  <2>3. CASE SpendsEvidence(e)
    BY <1>6, <2>1, <2>2, <2>3
  <2>4. CASE ~SpendsEvidence(e)
    BY <1>6, <2>1, <2>2, <2>4
  <2> QED BY <2>3, <2>4
<1>10. Len(more) <= LogCapacity
  BY <1>4, CapacityAssumption
<1> QED BY <1>2, <1>3, <1>4, <1>5, <1>8, <1>9, <1>10 DEF LogInv, s, more

\* _ensure_evidence_available asks what replay will ask.
LEMMA AvailableIsFresh ==
  ASSUME NEW events, LogInv(events), NEW u, Available(u, events)
  PROVE  u.examples \cap Replay(events).spent = {}
BY DEF LogInv, Available
-----------------------------------------------------------------------------
(* What the writers' guards imply                                          *)

LEMMA RegisteredIsValid ==
  ASSUME NEW X \in Corpora
  PROVE  LET e == Registered(Usage("parent", Parent, X))
         IN Proper(e) /\ Valid(Blank, e)
<1>1. Usage("parent", Parent, X) \in Usages
  BY NoneIsReal DEF Usage, Usages
<1>2. Proper(Registered(Usage("parent", Parent, X)))
  BY <1>1 DEF Proper, Registered, LifecycleEvent, EventRecords, Kinds, AboutUsage
<1> QED BY <1>1, <1>2
        DEF Registered, LifecycleEvent, Valid, ValidRegistered, Blank, Usage

LEMMA AbandonedIsValid ==
  ASSUME NEW s, LifeInv(s), NEW u, u # NoUsage, u \in {s.pendingCandidate, s.pendingLive}
  PROVE  u \in Usages /\ Proper(Abandoned(u)) /\ Valid(s, Abandoned(u))
<1>1. u \in Usages
  BY DEF LifeInv, LifeStates
<1>2. Proper(Abandoned(u))
  BY <1>1 DEF Proper, Abandoned, LifecycleEvent, EventRecords, Kinds, AboutUsage
<1>3. ValidAbandoned(s, Abandoned(u))
  BY <1>1, NoneIsReal
  DEF LifeInv, LifeStates, OneTransition, CandidateOrder, LiveOrder, ActiveOrder,
      ValidAbandoned, Abandoned, LifecycleEvent
<1> QED BY <1>1, <1>2, <1>3 DEF Valid, Abandoned, LifecycleEvent

LEMMA ReservedIsValid ==
  ASSUME NEW events, LogInv(events), NEW u \in Usages, Reservable(u, Replay(events), events)
  PROVE  Proper(Reserved(u)) /\ Valid(Replay(events), Reserved(u))
<1> DEFINE s == Replay(events)
<1>1. Proper(Reserved(u))
  BY DEF Proper, Reserved, LifecycleEvent, EventRecords, Kinds, AboutUsage
<1>2. u.examples \cap s.spent = {}
  BY AvailableIsFresh DEF Reservable
<1> HIDE DEF s
<1>3. ValidReserved(s, Reserved(u))
  BY <1>2, NoneIsReal DEF Reservable, ValidReserved, Reserved, LifecycleEvent, s
<1> QED BY <1>1, <1>3 DEF Valid, Reserved, LifecycleEvent, s

LEMMA ApprovedIsValid ==
  ASSUME NEW s, LifeInv(s), s.candidate # NoLineage
  PROVE  /\ s.candidate \in Lineages
         /\ s.candidate.accepted =>
              Proper(Approved(s.candidate)) /\ Valid(s, Approved(s.candidate))
         /\ ~s.candidate.accepted =>
              Proper(Rejected(s.candidate)) /\ Valid(s, Rejected(s.candidate))
<1>1. s.candidate \in Lineages
  BY DEF LifeInv, LifeStates
<1>2. Proper(Approved(s.candidate)) /\ Proper(Rejected(s.candidate))
  BY <1>1 DEF Proper, Approved, Rejected, LifecycleEvent, EventRecords, Kinds, AboutUsage
<1>3. s.candidate.accepted => Valid(s, Approved(s.candidate))
  BY <1>1 DEF Valid, ValidApproved, Approved, LifecycleEvent
<1>4. ~s.candidate.accepted => Valid(s, Rejected(s.candidate))
  BY <1>1 DEF Valid, ValidRejected, Rejected, LifecycleEvent, LifeInv, OneTransition, CandidateOrder
<1> QED BY <1>1, <1>2, <1>3, <1>4

LEMMA ActivatedIsValid ==
  ASSUME NEW s, LifeInv(s), s.approved # NoLineage
  PROVE  /\ s.approved \in Lineages
         /\ Proper(Activated(s.approved)) /\ Valid(s, Activated(s.approved))
<1>1. s.approved \in Lineages
  BY DEF LifeInv, LifeStates
<1>2. Proper(Activated(s.approved))
  BY <1>1 DEF Proper, Activated, LifecycleEvent, EventRecords, Kinds, AboutUsage
<1>3. s.active = Parent
  BY DEF LifeInv, OneTransition, ActiveOrder
<1>4. ValidActivated(s, Activated(s.approved))
  BY <1>1, <1>3
  DEF ValidActivated, Activated, LifecycleEvent, LifeInv, OneTransition, CandidateOrder
<1> QED BY <1>1, <1>2, <1>4 DEF Valid, Activated, LifecycleEvent

LEMMA RestoredIsValid ==
  ASSUME NEW s, LifeInv(s), s.reopen # NoUsage
  PROVE  LET e == ParentRestored(s.activated, s.reopen)
         IN s.activated \in Lineages /\ Proper(e) /\ Valid(s, e)
<1>1. s.activated # NoLineage
  BY DEF LifeInv, OneTransition, LiveOrder
<1>2. s.activated \in Lineages /\ s.reopen \in Usages
  BY <1>1 DEF LifeInv, LifeStates
<1>3. Proper(ParentRestored(s.activated, s.reopen))
  BY <1>2 DEF Proper, ParentRestored, LifecycleEvent, EventRecords, Kinds, AboutUsage
<1> QED BY <1>1, <1>2, <1>3 DEF Valid, ValidRestored, ParentRestored, LifecycleEvent

LEMMA ReconcilingIsValid ==
  ASSUME NEW s, LifeInv(s), ~Terminal(s)
  PROVE  Proper(Reconciling(s)) /\ Valid(s, Reconciling(s))
<1>1. CASE s.pendingCandidate # NoUsage
  BY <1>1, AbandonedIsValid DEF Reconciling
<1>2. CASE s.pendingCandidate = NoUsage /\ s.pendingLive # NoUsage
  BY <1>2, AbandonedIsValid DEF Reconciling
<1>3. CASE s.pendingCandidate = NoUsage /\ s.pendingLive = NoUsage /\ s.candidate # NoLineage
  BY <1>3, ApprovedIsValid DEF Reconciling
<1>4. CASE s.pendingCandidate = NoUsage /\ s.pendingLive = NoUsage /\ s.candidate = NoLineage
           /\ s.approved # NoLineage
  BY <1>4, ActivatedIsValid DEF Reconciling
<1>5. CASE s.pendingCandidate = NoUsage /\ s.pendingLive = NoUsage /\ s.candidate = NoLineage
           /\ s.approved = NoLineage
  <2>1. s.reopen # NoUsage
    BY <1>5 DEF Terminal, NothingInProgress
  <2> QED BY <1>5, <2>1, RestoredIsValid DEF Reconciling
<1> QED BY <1>1, <1>2, <1>3, <1>4, <1>5

LEMMA ReopenIsValid ==
  ASSUME NEW s, LifeInv(s), NEW l, NEW u \in Usages,
         s.activated # NoLineage, s.activated = l, s.pendingLive = u, s.reopen = NoUsage
  PROVE  Proper(ReopenRequested(l, u)) /\ Valid(s, ReopenRequested(l, u))
<1>1. l \in Lineages
  BY DEF LifeInv, LifeStates
<1>2. Proper(ReopenRequested(l, u))
  BY <1>1 DEF Proper, ReopenRequested, LifecycleEvent, EventRecords, Kinds, AboutUsage
<1>3. ValidReopen(s, ReopenRequested(l, u))
  BY NoneIsReal
  DEF ValidReopen, ReopenRequested, LifecycleEvent, LifeInv, OneTransition, ActiveOrder
<1> QED BY <1>2, <1>3 DEF Valid, ReopenRequested, LifecycleEvent

LEMMA CreatedIsValid ==
  ASSUME NEW events, LogInv(events), Len(events) < LogCapacity,
         NEW u \in Usages, NEW n, NEW p, NEW b \in Behaviors, NEW accepted \in BOOLEAN,
         Recordable(Lineage([usage |-> u, sequence |-> n, previous |-> p], b, accepted),
                    Replay(events))
  PROVE  LET l == Lineage([usage |-> u, sequence |-> n, previous |-> p], b, accepted)
         IN l \in Lineages /\ Proper(Created(l)) /\ Valid(Replay(events), Created(l))
<1> DEFINE l == Lineage([usage |-> u, sequence |-> n, previous |-> p], b, accepted)
           s == Replay(events)
<1>1. l = [usage |-> u, behavior |-> b, accepted |-> accepted, sequence |-> n, previous |-> p]
  BY DEF Lineage
<1>2. n \in 1 .. LogCapacity /\ p \in Generations \cup {NoGeneration}
  <2>1. s.count \in Nat /\ s.count <= Len(events) /\ s.last \in Generations \cup {NoGeneration}
        /\ Len(events) \in Nat
    BY LenProperties DEF LogInv, LifeInv, LifeStates
  <2>2. n = s.count + 1 /\ p = s.last
    BY DEF Recordable, InSequence, Lineage
  <2> HIDE DEF s
  <2> QED BY <2>1, <2>2, CapacityAssumption
<1>3. l \in Lineages
  BY <1>1, <1>2 DEF Lineages
<1>4. Recordable(l, s)
  OBVIOUS
<1> HIDE DEF l, s
<1>5. l.usage \in Usages
  BY <1>1
<1>6. Proper(Created(l))
  BY <1>3, <1>5 DEF Proper, Created, LifecycleEvent, EventRecords, Kinds, AboutUsage
<1>7. Valid(s, Created(l))
  BY <1>4 DEF Valid, ValidCreated, Recordable, Created, LifecycleEvent
<1> QED BY <1>3, <1>6, <1>7 DEF l, s

-----------------------------------------------------------------------------
(* Prefixes of logs                                                        *)

\* A prefix, element by element and part by part.
LEMMA PrefixMeans ==
  ASSUME NEW S, NEW a \in Seq(S), NEW b \in Seq(S)
  PROVE  /\ IsPrefix(a, b) <=> Len(a) <= Len(b) /\ \A i \in 1 .. Len(a) : a[i] = b[i]
         /\ IsPrefix(a, b) => \A n \in 0 .. Len(a) : SubSeq(a, 1, n) = SubSeq(b, 1, n)
<1>1. Len(a) \in Nat /\ Len(b) \in Nat
  BY LenProperties
<1>2. SubSeq(a, 1, Len(a)) = a
  BY SubSeqFull
<1>3. ASSUME Len(a) <= Len(b), NEW n \in 0 .. Len(a)
      PROVE  /\ SubSeq(a, 1, n) \in Seq(S) /\ SubSeq(b, 1, n) \in Seq(S)
             /\ Len(SubSeq(a, 1, n)) = n /\ Len(SubSeq(b, 1, n)) = n
             /\ \A i \in 1 .. n : SubSeq(a, 1, n)[i] = a[i] /\ SubSeq(b, 1, n)[i] = b[i]
  <2>1. (\A i \in 1 .. n : a[i] \in S) /\ (\A i \in 1 .. n : b[i] \in S)
    BY <1>1, <1>3, ElementOfSeq
  <2>2. n \in Int /\ 1 \in Int
    BY <1>1, <1>3
  <2>3. /\ SubSeq(a, 1, n) \in Seq(S)
        /\ Len(SubSeq(a, 1, n)) = IF 1 <= n THEN n - 1 + 1 ELSE 0
        /\ \A i \in 1 .. n - 1 + 1 : SubSeq(a, 1, n)[i] = a[1 + i - 1]
    BY <2>1, <2>2, SubSeqProperties
  <2>4. /\ SubSeq(b, 1, n) \in Seq(S)
        /\ Len(SubSeq(b, 1, n)) = IF 1 <= n THEN n - 1 + 1 ELSE 0
        /\ \A i \in 1 .. n - 1 + 1 : SubSeq(b, 1, n)[i] = b[1 + i - 1]
    BY <2>1, <2>2, SubSeqProperties
  <2>5. \A i \in 1 .. n : i \in 1 .. n - 1 + 1 /\ 1 + i - 1 = i
    BY <1>1, <1>3
  <2>6. (IF 1 <= n THEN n - 1 + 1 ELSE 0) = n
    BY <1>1, <1>3
  <2> QED BY <2>3, <2>4, <2>5, <2>6
<1>4. ASSUME Len(a) <= Len(b), \A i \in 1 .. Len(a) : a[i] = b[i], NEW n \in 0 .. Len(a)
      PROVE  SubSeq(a, 1, n) = SubSeq(b, 1, n)
  <2>1. \A i \in 1 .. n : SubSeq(a, 1, n)[i] = SubSeq(b, 1, n)[i]
    BY <1>1, <1>3, <1>4
  <2> QED BY <1>3, <1>4, <2>1, SeqEqual
<1>5. ASSUME IsPrefix(a, b) PROVE Len(a) <= Len(b) /\ \A i \in 1 .. Len(a) : a[i] = b[i]
  <2>1. Len(a) <= Len(b) /\ SubSeq(a, 1, Len(a)) = SubSeq(b, 1, Len(a))
    BY <1>5 DEF IsPrefix
  <2>2. Len(a) \in 0 .. Len(a)
    BY <1>1
  <2> QED BY <1>3, <2>1, <2>2
<1>6. ASSUME Len(a) <= Len(b), \A i \in 1 .. Len(a) : a[i] = b[i] PROVE IsPrefix(a, b)
  <2>2. Len(a) \in 0 .. Len(a)
    BY <1>1
  <2>3. SubSeq(a, 1, Len(a)) = SubSeq(b, 1, Len(a))
    BY <1>4, <1>6, <2>2
  <2> QED BY <1>6, <2>3 DEF IsPrefix
<1> QED BY <1>4, <1>5, <1>6

LEMMA PrefixOrder ==
  ASSUME NEW S, NEW a \in Seq(S), NEW b \in Seq(S)
  PROVE  /\ IsPrefix(a, a)
         /\ \A c \in Seq(S) : IsPrefix(a, b) /\ IsPrefix(b, c) => IsPrefix(a, c)
         /\ \A e \in S : IsPrefix(a, Append(a, e))
         /\ IsPrefix(<<>>, a)
<1>1. Len(a) \in Nat /\ Len(b) \in Nat
  BY LenProperties
<1>2. IsPrefix(a, a)
  BY <1>1, PrefixMeans
<1>3. ASSUME NEW c \in Seq(S), IsPrefix(a, b), IsPrefix(b, c) PROVE IsPrefix(a, c)
  <2>1. Len(a) <= Len(b) /\ \A i \in 1 .. Len(a) : a[i] = b[i]
    BY <1>3, PrefixMeans
  <2>2. Len(b) <= Len(c) /\ \A i \in 1 .. Len(b) : b[i] = c[i]
    BY <1>3, PrefixMeans
  <2>3. Len(c) \in Nat
    BY LenProperties
  <2>4. Len(a) <= Len(c) /\ \A i \in 1 .. Len(a) : a[i] = c[i]
    BY <1>1, <2>1, <2>2, <2>3
  <2> QED BY <2>4, PrefixMeans
<1>4. ASSUME NEW e \in S PROVE IsPrefix(a, Append(a, e))
  <2>1. Append(a, e) \in Seq(S) /\ Len(a) <= Len(Append(a, e))
        /\ \A i \in 1 .. Len(a) : a[i] = Append(a, e)[i]
    BY <1>1, AppendProperties
  <2> QED BY <2>1, PrefixMeans
<1>5. IsPrefix(<<>>, a)
  <2>1. <<>> \in Seq(S) /\ Len(<<>>) = 0
    BY EmptySeq
  <2>2. Len(<<>>) <= Len(a) /\ \A i \in 1 .. Len(<<>>) : <<>>[i] = a[i]
    BY <1>1, <2>1
  <2> QED BY <2>1, <2>2, PrefixMeans
<1> QED BY <1>2, <1>3, <1>4, <1>5

\* g was active after some of the events.
WasActive(g, events) ==
    \E n \in 0 .. Len(events) : Replay(SubSeq(events, 1, n)).active = g

LEMMA WasActiveGrows ==
  ASSUME NEW S, NEW a \in Seq(S), NEW b \in Seq(S), IsPrefix(a, b), NEW g, WasActive(g, a)
  PROVE  WasActive(g, b)
<1>1. PICK n \in 0 .. Len(a) : Replay(SubSeq(a, 1, n)).active = g
  BY DEF WasActive
<1>2. SubSeq(a, 1, n) = SubSeq(b, 1, n)
  BY <1>1, PrefixMeans
<1>3. n \in 0 .. Len(b)
  <2>1. Len(a) <= Len(b) /\ Len(a) \in Nat /\ Len(b) \in Nat
    BY PrefixMeans, LenProperties
  <2> QED BY <1>1, <2>1
<1> QED BY <1>1, <1>2, <1>3 DEF WasActive

LEMMA WasActiveNow ==
  ASSUME NEW S, NEW events \in Seq(S)
  PROVE  WasActive(Replay(events).active, events)
<1>1. SubSeq(events, 1, Len(events)) = events
  BY SubSeqFull
<1>2. Len(events) \in 0 .. Len(events)
  BY LenProperties
<1> QED BY <1>1, <1>2 DEF WasActive

LEMMA SpentGrows ==
  ASSUME NEW S, NEW a \in Seq(S), NEW b \in Seq(S), IsPrefix(a, b)
  PROVE  SpentUsages(a) \subseteq SpentUsages(b)
<1>1. Range(a) = {a[i] : i \in 1 .. Len(a)} /\ Range(b) = {b[i] : i \in 1 .. Len(b)}
  BY RangeEquality
<1>2. Len(a) <= Len(b) /\ (\A i \in 1 .. Len(a) : a[i] = b[i]) /\ Len(a) \in Nat /\ Len(b) \in Nat
  BY PrefixMeans, LenProperties
<1>3. Range(a) \subseteq Range(b)
  BY <1>1, <1>2
<1> QED BY <1>3 DEF SpentUsages

-----------------------------------------------------------------------------
(* The invariant, and appends that start                                   *)

Contents(file) == IF file = Missing THEN <<>> ELSE file
HasLog(file) == LogInv(Contents(file))

\* The append in progress: what it started from, and how far it has come.
AppendInv ==
    /\ holder \in Controllers
    /\ io \in [at : {"log", "head", "undo_log", "undo_head"},
               events : Seq(EventRecords), event : EventRecords]
    /\ LogInv(io.events) /\ Len(io.events) < LogCapacity
    /\ Proper(io.event) /\ Valid(Replay(io.events), io.event)
    /\ IsPrefix(acked, io.events)
    /\ Contents(log) \in {io.events, NewLog}
    /\ Contents(head) \in {io.events, NewLog}
    /\ io.at = "log" => log = head /\ Contents(log) = io.events
    /\ io.at = "head" => log = NewLog
    /\ io.at = "undo_head" => log = io.events

FilesInv ==
    /\ HasLog(log) /\ HasLog(head)
    /\ acked \in Seq(EventRecords)
    /\ IsPrefix(acked, Contents(log)) /\ IsPrefix(acked, Contents(head))
    /\ holder \in Controllers \cup {NoController}
    /\ io = NoIO \/ AppendInv
    /\ mishap \in BOOLEAN
    /\ io = NoIO => log = head \/ mishap
    /\ io = NoIO /\ holder # NoController => log = head

\* What a thread still needs its usage for.
CallInv ==
    /\ call \in [Controllers -> [op : Ops, usage : Usages \cup {NoUsage},
                                 lineage : Lineages \cup {NoLineage}]]
    /\ \A c \in Controllers :
         /\ call[c].op \in {"reserve", "reopen", "evaluate", "commit", "settle"} =>
              call[c].usage \in Usages
         /\ call[c].op \in {"evaluate", "commit"} => call[c].usage \in SpentUsages(acked)
    /\ io # NoIO /\ call[holder].op = "reopen" /\ io.event.kind # "evidence_abandoned" =>
         /\ io.event = Reserved(call[holder].usage)
         /\ Available(call[holder].usage, io.events)

RouteInv ==
    /\ route \in [Controllers -> Generations \cup {NoGeneration, Down}]
    /\ \A c \in Controllers : route[c] # Down => WasActive(route[c], acked)

IInv == FilesInv /\ CallInv /\ RouteInv /\ EvaluationsShareNothing

CallRecords == [op : Ops, usage : Usages \cup {NoUsage}, lineage : Lineages \cup {NoLineage}]

\* What the reader of a store that reads finds.
LEMMA ReadableLog ==
  ASSUME IInv
  PROVE  /\ Readable <=> log = head
         /\ Events = Contents(log) /\ LogInv(Events) /\ LifeInv(State) /\ State.ok
         /\ holder = NoController => io = NoIO
         /\ io # NoIO => io.at # "none"
<1>1. Readable <=> log = head
  BY DEF Readable
<1>2. Events = Contents(log)
  BY DEF Events, Contents
<1>3. LogInv(Events) /\ LifeInv(State)
  BY <1>2 DEF IInv, FilesInv, HasLog, LogInv, State
<1>4. State.ok
  BY <1>3 DEF LifeInv, LifeStates
<1>5. holder = NoController => io = NoIO
  BY MarkerAssumption DEF IInv, FilesInv, AppendInv
<1>6. io # NoIO => io.at # "none"
  BY DEF IInv, FilesInv, AppendInv
<1> QED BY <1>1, <1>2, <1>3, <1>4, <1>5, <1>6

LEMMA Entering ==
  ASSUME IInv, NEW c \in Controllers, Enter(c)
  PROVE  /\ io = NoIO /\ log = head /\ route[c] = State.active
         /\ call[c].op = "idle"
BY ReadableLog DEF Enter, Authoritative

\* An append that is started from what was read will be one that replay accepts.
LEMMA StartAppendKeeps ==
  ASSUME IInv, io = NoIO, log = head,
         NEW c \in Controllers, NEW e, Proper(e), Valid(State, e),
         NEW doing \in CallRecords,
         doing.op \in {"reserve", "reopen", "evaluate", "commit", "settle"} =>
            doing.usage \in Usages,
         doing.op \in {"evaluate", "commit"} =>
            call[c].op \in {"evaluate", "commit"} /\ doing.usage = call[c].usage,
         doing.op = "reopen" /\ e.kind # "evidence_abandoned" =>
            e = Reserved(doing.usage) /\ Available(doing.usage, Events),
         StartAppend(c, e, doing)
  PROVE  IInv'
<1>1. /\ Len(Events) < LogCapacity /\ holder' = c
      /\ call' = [call EXCEPT ![c] = doing]
      /\ io' = [at |-> "log", events |-> Events, event |-> e]
      /\ log' = log /\ head' = head /\ route' = route /\ acked' = acked /\ mishap' = mishap
  BY DEF StartAppend
<1>2. Events = Contents(log) /\ LogInv(Events) /\ Events \in Seq(EventRecords) /\ e \in EventRecords
  BY ReadableLog DEF LogInv, Proper
<1>3. FilesInv'
  <2>1. io'.events = Events /\ io'.event = e /\ io'.at = "log"
    BY <1>1
  <2>2. io' \in [at : {"log", "head", "undo_log", "undo_head"},
                 events : Seq(EventRecords), event : EventRecords]
    BY <1>1, <1>2
  <2>3. IsPrefix(acked, Events)
    BY <1>2 DEF IInv, FilesInv
  <2>4. Contents(log') = Events /\ Contents(head') = Events
    BY <1>1, <1>2
  <2>5. Valid(Replay(Events), e)
    BY DEF State
  <2>6. AppendInv'
    BY <1>1, <1>2, <2>1, <2>2, <2>3, <2>4, <2>5 DEF AppendInv
  <2>7. io' # NoIO
    BY <1>1 DEF NoIO
  <2> QED BY <1>1, <2>6, <2>7 DEF IInv, FilesInv, HasLog, Contents
<1>4. CallInv'
  <2>1. call \in [Controllers -> CallRecords]
    BY DEF IInv, CallInv, CallRecords
  <2>2. call'[c] = doing /\ \A d \in Controllers : d # c => call'[d] = call[d]
    BY <1>1, <2>1
  <2>3. call' \in [Controllers -> CallRecords]
    BY <1>1, <2>1
  <2>4. \A d \in Controllers :
          /\ call'[d].op \in {"reserve", "reopen", "evaluate", "commit", "settle"} =>
               call'[d].usage \in Usages
          /\ call'[d].op \in {"evaluate", "commit"} => call'[d].usage \in SpentUsages(acked')
    BY <1>1, <2>2 DEF IInv, CallInv
  <2>5. io'.events = Events /\ io'.event = e
    BY <1>1
  <2>6. call'[holder'].op = "reopen" /\ io'.event.kind # "evidence_abandoned" =>
         /\ io'.event = Reserved(call'[holder'].usage)
         /\ Available(call'[holder'].usage, io'.events)
    BY <1>1, <2>2, <2>5
  <2> QED BY <2>3, <2>4, <2>6 DEF CallInv, CallRecords
<1>5. RouteInv'
  BY <1>1 DEF IInv, RouteInv
<1>6. EvaluationsShareNothing'
  <2>1. call \in [Controllers -> CallRecords]
    BY DEF IInv, CallInv, CallRecords
  <2>2. \A d \in Controllers : call'[d].op \in {"evaluate", "commit"} =>
          call[d].op \in {"evaluate", "commit"} /\ call'[d].usage = call[d].usage
    BY <1>1, <2>1
  <2> QED BY <2>2 DEF IInv, EvaluationsShareNothing
<1> QED BY <1>3, <1>4, <1>5, <1>6 DEF IInv

LEMMA CallTypes == \A op \in Ops, u \in Usages \cup {NoUsage}, l \in Lineages \cup {NoLineage} :
    /\ Calling(op, u, l) \in CallRecords
    /\ Calling(op, u, l).op = op /\ Calling(op, u, l).usage = u
BY DEF Calling, CallRecords

LEMMA UsageTypes ==
  ASSUME NEW X \in Corpora, NEW g \in Generations, NEW p \in {"parent", "candidate", "live"}
  PROVE  Usage(p, g, X) \in Usages
BY DEF Usage, Usages

LEMMA CallTyped ==
  ASSUME IInv, NEW c \in Controllers
  PROVE  call[c] \in CallRecords
BY DEF IInv, CallInv, CallRecords

LEMMA ReconcileKeeps ==
  ASSUME IInv, NEW c \in Controllers, Reconcile(c)
  PROVE  IInv'
<1>1. holder = c /\ io = NoIO /\ call[c].op = "construct" /\ ~Terminal(State)
      /\ StartAppend(c, Reconciling(State), call[c])
  BY DEF Reconcile, Constructing
<1>2. log = head
  BY <1>1, MarkerAssumption DEF IInv, FilesInv
<1>3. Proper(Reconciling(State)) /\ Valid(State, Reconciling(State))
  BY <1>1, ReadableLog, ReconcilingIsValid
<1>4. call[c] \in CallRecords
  BY CallTyped
<1> QED BY <1>1, <1>2, <1>3, <1>4, StartAppendKeeps

LEMMA RegisterParentKeeps ==
  ASSUME IInv, NEW c \in Controllers, NEW X \in Corpora, RegisterParent(c, X)
  PROVE  IInv'
<1> DEFINE u == Usage("parent", Parent, X)
           doing == Calling("register", u, NoLineage)
<1>1. io = NoIO /\ log = head
  BY Entering DEF RegisterParent
<1>2. StartAppend(c, Registered(u), doing) /\ Events = <<>>
  BY DEF RegisterParent
<1>3. State = Blank
  BY <1>2, ReplayBlank DEF State
<1>4. Proper(Registered(u)) /\ Valid(State, Registered(u))
  BY <1>3, RegisteredIsValid
<1>5. u \in Usages
  BY UsageTypes, NoneIsReal
<1>6. doing \in CallRecords /\ doing.op = "register"
  BY <1>5, CallTypes DEF Ops
<1> HIDE DEF u, doing
<1> QED BY <1>1, <1>2, <1>4, <1>6, StartAppendKeeps

\* A reservation, or the abandonment that makes room for it.
LEMMA ReserveKeeps ==
  ASSUME IInv, io = NoIO, log = head,
         NEW c \in Controllers, NEW u \in Usages, NEW op \in {"reserve", "reopen"},
         NEW l \in Lineages \cup {NoLineage},
         NEW pending \in {State.pendingCandidate, State.pendingLive},
         Reserve(c, pending, u, Calling(op, u, l))
  PROVE  IInv'
<1> DEFINE doing == Calling(op, u, l)
<1>1. doing \in CallRecords /\ doing.op = op /\ doing.usage = u
  BY CallTypes DEF Ops
<1> HIDE DEF doing
<1>2. CASE pending # NoUsage
  <2>1. StartAppend(c, Abandoned(pending), doing)
    BY <1>2 DEF Reserve, doing
  <2>2. Proper(Abandoned(pending)) /\ Valid(State, Abandoned(pending))
    BY <1>2, ReadableLog, AbandonedIsValid
  <2>3. Abandoned(pending).kind = "evidence_abandoned"
    BY DEF Abandoned, LifecycleEvent
  <2> QED BY <1>1, <2>1, <2>2, <2>3, StartAppendKeeps
<1>3. CASE pending = NoUsage
  <2>1. Reservable(u, State, Events) /\ StartAppend(c, Reserved(u), doing)
    BY <1>3 DEF Reserve, doing
  <2>2. Proper(Reserved(u)) /\ Valid(State, Reserved(u))
    BY <2>1, ReadableLog, ReservedIsValid DEF State
  <2>3. Available(u, Events)
    BY <2>1 DEF Reservable
  <2> QED BY <1>1, <2>1, <2>2, <2>3, StartAppendKeeps
<1> QED BY <1>2, <1>3

LEMMA ReserveEvidenceKeeps ==
  ASSUME IInv, NEW c \in Controllers, NEW X \in Corpora, ReserveEvidence(c, X)
  PROVE  IInv'
<1> DEFINE u == Usage("candidate", route[c], X)
<1>1. io = NoIO /\ log = head /\ route[c] = State.active /\ route[c] # NoGeneration
  BY Entering DEF ReserveEvidence
<1>2. Reserve(c, State.pendingCandidate, u, Calling("reserve", u, NoLineage))
  BY DEF ReserveEvidence
<1>3. u \in Usages
  <2>1. route[c] \in Generations
    BY <1>1, ReadableLog DEF LifeInv, LifeStates
  <2> QED BY <2>1, UsageTypes
<1> HIDE DEF u
<1> QED BY <1>1, <1>2, <1>3, ReserveKeeps

LEMMA RequestReopenKeeps ==
  ASSUME IInv, NEW c \in Controllers, NEW X \in Corpora, RequestReopen(c, X)
  PROVE  IInv'
<1> DEFINE u == Usage("live", route[c], X)
<1>1. io = NoIO /\ log = head /\ route[c] = State.active /\ State.activated # NoLineage
  BY Entering DEF RequestReopen
<1>2. Reserve(c, State.pendingLive, u, Calling("reopen", u, State.activated))
  BY DEF RequestReopen
<1>3. State.activated \in Lineages
  BY <1>1, ReadableLog DEF LifeInv, LifeStates
<1>4. route[c] \in Generations
  BY <1>1, <1>3, ReadableLog, NoneIsReal DEF LifeInv, OneTransition, ActiveOrder
<1>5. u \in Usages
  BY <1>4, UsageTypes
<1> HIDE DEF u
<1> QED BY <1>1, <1>2, <1>3, <1>5, ReserveKeeps

LEMMA ReserveAfterAbandonKeeps ==
  ASSUME IInv, NEW c \in Controllers, ReserveAfterAbandon(c)
  PROVE  IInv'
<1> DEFINE u == call[c].usage
<1>1. holder = c /\ io = NoIO /\ call[c].op \in {"reserve", "reopen"}
      /\ Reservable(u, State, Events) /\ StartAppend(c, Reserved(u), call[c])
  BY DEF ReserveAfterAbandon, Reserving
<1>2. log = head
  BY <1>1, MarkerAssumption DEF IInv, FilesInv
<1>3. u \in Usages
  BY <1>1 DEF IInv, CallInv
<1>4. Proper(Reserved(u)) /\ Valid(State, Reserved(u))
  <2> HIDE DEF u
  <2> QED BY <1>1, <1>3, ReadableLog, ReservedIsValid DEF State
<1>5. Available(u, Events)
  BY <1>1 DEF Reservable
<1>6. call[c] \in CallRecords
  BY CallTyped
<1> QED BY <1>1, <1>2, <1>3, <1>4, <1>5, <1>6, StartAppendKeeps

LEMMA CommitReopenKeeps ==
  ASSUME IInv, NEW c \in Controllers, CommitReopen(c)
  PROVE  IInv'
<1> DEFINE u == call[c].usage
           l == call[c].lineage
           doing == [call[c] EXCEPT !.op = "commit"]
<1>1. call[c].op = "evaluate" /\ holder = NoController /\ Authoritative(c)
      /\ StillAuthorized(c, State) /\ StartAppend(c, ReopenRequested(l, u), doing)
  BY DEF CommitReopen
<1>2. io = NoIO /\ log = head
  BY <1>1, ReadableLog DEF Authoritative
<1>3. u \in Usages
  BY <1>1 DEF IInv, CallInv
<1>4. State.activated = l /\ State.pendingLive = u /\ State.reopen = NoUsage
  BY <1>1 DEF StillAuthorized
<1>5. State.activated # NoLineage
  BY <1>3, <1>4, ReadableLog, NoneIsReal DEF LifeInv, OneTransition, LiveOrder
<1>6. Proper(ReopenRequested(l, u)) /\ Valid(State, ReopenRequested(l, u))
  <2> HIDE DEF u, l
  <2> QED BY <1>3, <1>4, <1>5, ReadableLog, ReopenIsValid
<1>7. doing \in CallRecords /\ doing.op = "commit" /\ doing.usage = u
  BY CallTyped DEF CallRecords, Ops
<1> HIDE DEF doing
<1> QED BY <1>1, <1>2, <1>3, <1>6, <1>7, StartAppendKeeps

LEMMA AbandonIfPendingKeeps ==
  ASSUME IInv, NEW c \in Controllers, AbandonIfPending(c)
  PROVE  IInv'
<1> DEFINE u == call[c].usage
           doing == [call[c] EXCEPT !.op = "abandon"]
<1>1. call[c].op = "settle" /\ holder = NoController /\ Authoritative(c)
      /\ State.pendingLive = u /\ StartAppend(c, Abandoned(u), doing)
  BY DEF AbandonIfPending
<1>2. io = NoIO /\ log = head
  BY <1>1, ReadableLog DEF Authoritative
<1>3. u \in Usages
  BY <1>1 DEF IInv, CallInv
<1>4. Proper(Abandoned(u)) /\ Valid(State, Abandoned(u))
  BY <1>1, <1>3, ReadableLog, NoneIsReal, AbandonedIsValid
<1>5. doing \in CallRecords /\ doing.op = "abandon"
  BY CallTyped DEF CallRecords, Ops
<1> HIDE DEF doing
<1> QED BY <1>1, <1>2, <1>4, <1>5, StartAppendKeeps

LEMMA RecordCandidateKeeps ==
  ASSUME IInv, NEW c \in Controllers,
         NEW t \in Tickets, NEW b \in Behaviors, NEW accepted \in BOOLEAN,
         RecordCandidate(c, Lineage(t, b, accepted))
  PROVE  IInv'
<1> DEFINE l == Lineage(t, b, accepted)
           doing == Calling("record", l.usage, l)
<1>1. io = NoIO /\ log = head
  BY Entering DEF RecordCandidate
<1>2. Recordable(l, State) /\ StartAppend(c, Created(l), doing)
  BY DEF RecordCandidate
<1>3. LogInv(Events)
  BY ReadableLog
<1>4. PICK i \in DOMAIN Events :
        /\ Events[i].kind = "evidence_reserved"
        /\ t = LET s == Replay(SubSeq(Events, 1, i))
               IN [usage |-> Events[i].usage, sequence |-> s.count + 1, previous |-> s.last]
  BY DEF Tickets
<1>5. PICK n, p : t = [usage |-> Events[i].usage, sequence |-> n, previous |-> p]
  BY <1>4
<1>6. Events[i].usage \in Usages
  <2>1. Events[i] \in Range(Events) /\ SpendsEvidence(Events[i])
    BY <1>4 DEF SpendsEvidence, Range
  <2> QED BY <1>3, <2>1 DEF LogInv, SpentUsages
<1>7. Len(Events) < LogCapacity
  BY <1>2 DEF StartAppend
<1>8. l \in Lineages /\ Proper(Created(l)) /\ Valid(State, Created(l))
  <2>1. l = Lineage([usage |-> Events[i].usage, sequence |-> n, previous |-> p], b, accepted)
    BY <1>5
  <2> HIDE DEF l
  <2> QED BY <1>2, <1>3, <1>6, <1>7, <2>1, CreatedIsValid DEF State
<1> HIDE DEF l
<1>9. l.usage \in Usages
  BY <1>8, NoneIsReal
<1>10. doing \in CallRecords /\ doing.op = "record"
  BY <1>8, <1>9, CallTypes DEF Ops
<1> HIDE DEF doing
<1> QED BY <1>1, <1>2, <1>8, <1>10, StartAppendKeeps

LEMMA RejectCandidateKeeps ==
  ASSUME IInv, NEW c \in Controllers, RejectCandidate(c)
  PROVE  IInv'
<1> DEFINE l == State.candidate
           doing == Calling("reject", NoUsage, l)
<1>1. io = NoIO /\ log = head
  BY Entering DEF RejectCandidate
<1>2. l # NoLineage /\ ~l.accepted /\ StartAppend(c, Rejected(l), doing)
  BY DEF RejectCandidate
<1>3. l \in Lineages /\ Proper(Rejected(l)) /\ Valid(State, Rejected(l))
  BY <1>2, ReadableLog, ApprovedIsValid
<1>4. doing \in CallRecords /\ doing.op = "reject"
  BY <1>3, CallTypes DEF Ops
<1> HIDE DEF l, doing
<1> QED BY <1>1, <1>2, <1>3, <1>4, StartAppendKeeps

LEMMA ApprovePromotionKeeps ==
  ASSUME IInv, NEW c \in Controllers, ApprovePromotion(c)
  PROVE  IInv'
<1> DEFINE l == State.candidate
           doing == Calling("approve", NoUsage, l)
<1>1. io = NoIO /\ log = head
  BY Entering DEF ApprovePromotion
<1>2. l # NoLineage /\ l.accepted /\ StartAppend(c, Approved(l), doing)
  BY DEF ApprovePromotion
<1>3. l \in Lineages /\ Proper(Approved(l)) /\ Valid(State, Approved(l))
  BY <1>2, ReadableLog, ApprovedIsValid
<1>4. doing \in CallRecords /\ doing.op = "approve"
  BY <1>3, CallTypes DEF Ops
<1> HIDE DEF l, doing
<1> QED BY <1>1, <1>2, <1>3, <1>4, StartAppendKeeps

LEMMA ActivateChildKeeps ==
  ASSUME IInv, NEW c \in Controllers, ActivateChild(c)
  PROVE  IInv'
<1> DEFINE l == State.approved
           doing == Calling("activate", NoUsage, l)
<1>1. io = NoIO /\ log = head
  BY Entering DEF ActivateChild
<1>2. l # NoLineage /\ StartAppend(c, Activated(l), doing)
  BY DEF ActivateChild
<1>3. l \in Lineages /\ Proper(Activated(l)) /\ Valid(State, Activated(l))
  BY <1>2, ReadableLog, ActivatedIsValid
<1>4. doing \in CallRecords /\ doing.op = "activate"
  BY <1>3, CallTypes DEF Ops
<1> HIDE DEF l, doing
<1> QED BY <1>1, <1>2, <1>3, <1>4, StartAppendKeeps

LEMMA RestoreParentKeeps ==
  ASSUME IInv, NEW c \in Controllers, RestoreParent(c)
  PROVE  IInv'
<1> DEFINE l == State.activated
           e == ParentRestored(l, State.reopen)
           doing == Calling("restore", NoUsage, l)
<1>1. io = NoIO /\ log = head
  BY Entering DEF RestoreParent
<1>2. State.reopen # NoUsage /\ StartAppend(c, e, doing)
  BY DEF RestoreParent
<1>3. l \in Lineages /\ Proper(e) /\ Valid(State, e)
  BY <1>2, ReadableLog, RestoredIsValid
<1>4. doing \in CallRecords /\ doing.op = "restore"
  BY <1>3, CallTypes DEF Ops
<1> HIDE DEF l, e, doing
<1> QED BY <1>1, <1>2, <1>3, <1>4, StartAppendKeeps

-----------------------------------------------------------------------------
(* The steps of an append                                                  *)

LEMMA Appended ==
  ASSUME IInv, io # NoIO
  PROVE  /\ AppendInv
         /\ LogInv(NewLog) /\ Replay(NewLog) = After(Replay(io.events), io.event)
         /\ NewLog \in Seq(EventRecords) /\ io.events \in Seq(EventRecords)
         /\ IsPrefix(io.events, NewLog) /\ IsPrefix(acked, NewLog) /\ IsPrefix(acked, io.events)
         /\ Contents(NewLog) = NewLog /\ Contents(io.events) = io.events
         /\ SpentUsages(NewLog) = SpentUsages(io.events)
              \cup (IF SpendsEvidence(io.event) THEN {io.event.usage} ELSE {})
<1>1. AppendInv
  BY DEF IInv, FilesInv
<1>2. LogInv(NewLog) /\ Replay(NewLog) = After(Replay(io.events), io.event)
  BY <1>1, ValidAppends DEF AppendInv, NewLog
<1>3. NewLog \in Seq(EventRecords) /\ io.events \in Seq(EventRecords) /\ io.event \in EventRecords
      /\ acked \in Seq(EventRecords)
  BY <1>1, <1>2 DEF AppendInv, LogInv, IInv, FilesInv
<1>4. IsPrefix(io.events, NewLog)
  BY <1>3, PrefixOrder DEF NewLog
<1>5. IsPrefix(acked, io.events)
  BY <1>1 DEF AppendInv
<1>6. IsPrefix(acked, NewLog)
  BY <1>3, <1>4, <1>5, PrefixOrder
<1>7. Contents(NewLog) = NewLog /\ Contents(io.events) = io.events
  BY <1>3, MarkerAssumption DEF Contents
<1>8. SpentUsages(NewLog) = SpentUsages(io.events)
        \cup (IF SpendsEvidence(io.event) THEN {io.event.usage} ELSE {})
  BY <1>3, SpentAppend DEF NewLog
<1> QED BY <1>1, <1>2, <1>3, <1>4, <1>5, <1>6, <1>7, <1>8

\* Whatever of an append reaches a file, the file is a log with everything
\* acknowledged in it.
LEMMA FilesHold ==
  ASSUME IInv, io # NoIO,
         log' \in {log, NewLog, io.events}, head' \in {head, NewLog, io.events}, acked' = acked
  PROVE  /\ HasLog(log') /\ HasLog(head') /\ acked' \in Seq(EventRecords)
         /\ IsPrefix(acked', Contents(log')) /\ IsPrefix(acked', Contents(head'))
         /\ Contents(log') \in {io.events, NewLog} /\ Contents(head') \in {io.events, NewLog}
<1>1. HasLog(log) /\ HasLog(head) /\ acked \in Seq(EventRecords)
      /\ IsPrefix(acked, Contents(log)) /\ IsPrefix(acked, Contents(head))
  BY DEF IInv, FilesInv
<1>2. HasLog(NewLog) /\ HasLog(io.events)
      /\ IsPrefix(acked, Contents(NewLog)) /\ IsPrefix(acked, Contents(io.events))
  BY Appended DEF HasLog, AppendInv
<1>3. Contents(log) \in {io.events, NewLog} /\ Contents(head) \in {io.events, NewLog}
      /\ Contents(NewLog) = NewLog /\ Contents(io.events) = io.events
  BY Appended DEF AppendInv
<1> QED BY <1>1, <1>2, <1>3

\* A step of an append that goes on.
LEMMA AppendGoesOn ==
  ASSUME IInv, io # NoIO,
         log' \in {log, NewLog, io.events}, head' \in {head, NewLog, io.events},
         NEW at \in {"head", "undo_log", "undo_head"}, io' = [io EXCEPT !.at = at],
         at = "head" => log' = NewLog,
         at = "undo_head" => log' = io.events,
         UNCHANGED <<holder, call, route, acked, mishap>>
  PROVE  IInv'
<1>1. holder' = holder /\ call' = call /\ route' = route /\ acked' = acked /\ mishap' = mishap
  OBVIOUS
<1>2. AppendInv
  BY Appended
<1>3. io'.at = at /\ io'.events = io.events /\ io'.event = io.event
      /\ io' \in [at : {"log", "head", "undo_log", "undo_head"},
                  events : Seq(EventRecords), event : EventRecords]
  BY <1>2 DEF AppendInv
<1>4. NewLog' = NewLog
  BY <1>3 DEF NewLog
<1>5. AppendInv'
  BY <1>1, <1>2, <1>3, <1>4, FilesHold DEF AppendInv
<1>6. io' # NoIO
  BY <1>3 DEF NoIO
<1>7. FilesInv'
  BY <1>1, <1>5, <1>6, FilesHold DEF IInv, FilesInv, HasLog, Contents
<1>8. CallInv'
  BY <1>1, <1>3 DEF IInv, CallInv
<1>9. RouteInv' /\ EvaluationsShareNothing'
  BY <1>1 DEF IInv, RouteInv, EvaluationsShareNothing
<1> QED BY <1>7, <1>8, <1>9 DEF IInv

LEMMA AtAppends ==
  ASSUME io.at # "none"
  PROVE  io # NoIO
BY DEF NoIO

LEMMA PublishLogKeeps ==
  ASSUME IInv, PublishLog
  PROVE  IInv'
<1>1. io # NoIO
  BY AtAppends DEF PublishLog
<1>2. log' = NewLog /\ head' = head /\ io' = [io EXCEPT !.at = "head"]
      /\ UNCHANGED <<holder, call, route, acked, mishap>>
  BY DEF PublishLog
<1> QED BY <1>1, <1>2, AppendGoesOn

LEMMA PublicationFailsKeeps ==
  ASSUME IInv, PublicationFails
  PROVE  IInv'
<1>1. io # NoIO
  BY AtAppends DEF PublicationFails
<1>2. log' \in {log, NewLog} /\ head' \in {head, NewLog} /\ io' = [io EXCEPT !.at = "undo_log"]
      /\ UNCHANGED <<holder, call, route, acked, mishap>>
  BY DEF PublicationFails
<1> QED BY <1>1, <1>2, AppendGoesOn

LEMMA UndoLogKeeps ==
  ASSUME IInv, UndoLog
  PROVE  IInv'
<1>1. io # NoIO
  BY AtAppends DEF UndoLog
<1>2. log' = io.events /\ head' = head /\ io' = [io EXCEPT !.at = "undo_head"]
      /\ UNCHANGED <<holder, call, route, acked, mishap>>
  BY DEF UndoLog, Previous
<1> QED BY <1>1, <1>2, AppendGoesOn

\* The threads when one leaves its call: nothing but a failed commit goes on.
LEMMA LeaveKeepsCalls ==
  ASSUME IInv, NEW c, Leave(c), UNCHANGED <<route, acked>>
  PROVE  CallInv' /\ RouteInv' /\ EvaluationsShareNothing'
<1>1. io' = NoIO /\ route' = route /\ acked' = acked
      /\ call' = [call EXCEPT ![c] = IF @.op = "commit" THEN [@ EXCEPT !.op = "settle"] ELSE Idle]
  BY DEF Leave
<1>2. call \in [Controllers -> CallRecords]
  BY DEF IInv, CallInv, CallRecords
<1>3. Idle \in CallRecords /\ Idle.op = "idle"
  BY DEF Idle, CallRecords, Ops
<1>4. ASSUME NEW d \in Controllers
      PROVE  /\ call'[d] \in CallRecords
             /\ call'[d].op \in {"reserve", "reopen", "evaluate", "commit", "settle"} =>
                  call'[d].usage \in Usages
             /\ call'[d].op \in {"evaluate", "commit"} => call'[d] = call[d]
  <2>1. CASE d # c
    <3>1. call'[d] = call[d]
      BY <1>1, <1>2, <2>1
    <3> QED BY <1>2, <3>1 DEF IInv, CallInv
  <2>2. CASE d = c /\ call[c].op = "commit"
    <3>1. call'[d] = [call[d] EXCEPT !.op = "settle"]
      BY <1>1, <1>2, <2>2
    <3>2. call[d] \in CallRecords /\ call[d].usage \in Usages
      BY <1>2, <2>2 DEF IInv, CallInv
    <3>3. call'[d] \in CallRecords /\ call'[d].op = "settle" /\ call'[d].usage = call[d].usage
      BY <3>1, <3>2 DEF CallRecords, Ops
    <3> QED BY <3>2, <3>3
  <2>3. CASE d = c /\ call[c].op # "commit"
    <3>1. call'[d] = Idle
      BY <1>1, <1>2, <2>3
    <3> QED BY <1>3, <3>1
  <2> QED BY <2>1, <2>2, <2>3
<1>5. call' \in [Controllers -> CallRecords]
  <2>1. call' = [d \in Controllers |-> call'[d]]
    BY <1>1, <1>2
  <2> QED BY <1>4, <2>1
<1>6. CallInv'
  <2>1. \A d \in Controllers : call'[d].op \in {"evaluate", "commit"} =>
           call'[d].usage \in SpentUsages(acked')
    BY <1>1, <1>4 DEF IInv, CallInv
  <2> QED BY <1>1, <1>4, <1>5, <2>1 DEF CallInv, CallRecords
<1>7. EvaluationsShareNothing'
  BY <1>4 DEF IInv, EvaluationsShareNothing
<1>8. RouteInv'
  BY <1>1 DEF IInv, RouteInv
<1> QED BY <1>6, <1>7, <1>8

LEMMA UndoHeadKeeps ==
  ASSUME IInv, UndoHead
  PROVE  IInv'
<1>1. io # NoIO /\ io.at = "undo_head"
  BY AtAppends DEF UndoHead
<1>2. log' = log /\ head' = io.events /\ Leave(holder) /\ UNCHANGED <<route, acked>>
      /\ mishap' = mishap /\ io' = NoIO /\ holder' = NoController
  BY DEF UndoHead, Previous, Leave
<1>3. log' = head'
  BY <1>1, <1>2, Appended DEF AppendInv
<1>4. FilesInv'
  BY <1>1, <1>2, <1>3, FilesHold DEF IInv, FilesInv, HasLog, Contents
<1>5. CallInv' /\ RouteInv' /\ EvaluationsShareNothing'
  BY <1>2, LeaveKeepsCalls
<1> QED BY <1>4, <1>5 DEF IInv

LEMMA CutShortKeeps ==
  ASSUME IInv, CutShort
  PROVE  IInv'
<1>1. io # NoIO
  BY AtAppends DEF CutShort
<1>2. log' \in {log, NewLog, io.events} /\ head' \in {head, NewLog, io.events}
      /\ Leave(holder) /\ UNCHANGED <<route, acked>>
      /\ mishap' = TRUE /\ io' = NoIO /\ holder' = NoController
  BY DEF CutShort, Previous, Leave
<1>3. FilesInv'
  BY <1>1, <1>2, FilesHold DEF FilesInv, HasLog, Contents
<1>4. CallInv' /\ RouteInv' /\ EvaluationsShareNothing'
  BY <1>2, LeaveKeepsCalls
<1> QED BY <1>3, <1>4 DEF IInv

LEMMA CrashKeeps ==
  ASSUME IInv, Crash
  PROVE  IInv'
<1>1. /\ holder' = NoController /\ io' = NoIO
      /\ call' = [c \in Controllers |-> Idle] /\ route' = [c \in Controllers |-> Down]
      /\ log' = log /\ head' = head /\ acked' = acked
  BY DEF Crash
<1>2. mishap' = (mishap \/ io # NoIO)
  BY DEF Crash
<1>3. mishap' \in BOOLEAN /\ (mishap => mishap') /\ (io # NoIO => mishap')
  BY <1>2
<1>4. log' = head' \/ mishap'
  BY <1>1, <1>3 DEF IInv, FilesInv
<1>5. FilesInv'
  BY <1>1, <1>3, <1>4 DEF IInv, FilesInv, HasLog, Contents
<1>6. Idle \in CallRecords /\ Idle.op = "idle"
  BY DEF Idle, CallRecords, Ops
<1>7. CallInv'
  BY <1>1, <1>6 DEF CallInv, CallRecords
<1>8. RouteInv' /\ EvaluationsShareNothing'
  BY <1>1, <1>6 DEF RouteInv, EvaluationsShareNothing
<1> QED BY <1>5, <1>7, <1>8 DEF IInv

\* The append returns: the event is acknowledged, the route may move, and a
\* reopen goes on to evaluate its evidence without the lock.
LEMMA PublishHeadKeeps ==
  ASSUME IInv, PublishHead
  PROVE  IInv'
<1>1. io # NoIO /\ io.at = "head"
  BY AtAppends DEF PublishHead
<1>2. /\ head' = NewLog /\ acked' = NewLog /\ io' = NoIO /\ log' = log /\ mishap' = mishap
      /\ route' = [route EXCEPT ![holder] = NextRoute]
      /\ \/ Continues /\ call' = call /\ holder' = holder
         \/ ~Continues /\ call' = [call EXCEPT ![holder] = NextCall] /\ holder' = NoController
  BY DEF PublishHead
<1>3. AppendInv /\ log = NewLog /\ holder \in Controllers
  BY <1>1, Appended DEF AppendInv
<1>4. acked \in Seq(EventRecords) /\ NewLog \in Seq(EventRecords) /\ io.events \in Seq(EventRecords)
      /\ IsPrefix(acked, NewLog) /\ IsPrefix(acked, io.events)
  BY <1>1, Appended DEF IInv, FilesInv
<1>5. FilesInv'
  <2>1. LogInv(NewLog) /\ Contents(NewLog) = NewLog
    BY <1>1, Appended
  <2>2. IsPrefix(NewLog, NewLog)
    BY <1>4, PrefixOrder
  <2>3. mishap' \in BOOLEAN
    BY <1>2 DEF IInv, FilesInv
  <2>4. log' = NewLog
    BY <1>2, <1>3
  <2>5. holder' \in Controllers \cup {NoController}
    BY <1>2, <1>3
  <2> QED BY <1>2, <1>4, <2>1, <2>2, <2>3, <2>4, <2>5 DEF FilesInv, HasLog, Contents
<1>6. SpentUsages(acked) \subseteq SpentUsages(NewLog) /\ SpentUsages(acked) \subseteq SpentUsages(io.events)
  BY <1>4, SpentGrows
<1>7. call \in [Controllers -> CallRecords] /\ call[holder] \in CallRecords
  BY <1>3 DEF IInv, CallInv, CallRecords
\* What the thread that held the lock does next.
<1>8. ASSUME ~Continues, call[holder].op = "reopen"
      PROVE  /\ NextCall \in CallRecords /\ NextCall.op = "evaluate"
             /\ NextCall.usage = call[holder].usage /\ NextCall.usage \in Usages
             /\ NextCall.usage \in SpentUsages(NewLog)
             /\ Available(NextCall.usage, io.events)
  <2>1. NextCall = [call[holder] EXCEPT !.op = "evaluate"]
    BY <1>8 DEF NextCall
  <2>2. NextCall \in CallRecords /\ NextCall.op = "evaluate" /\ NextCall.usage = call[holder].usage
    BY <1>7, <2>1 DEF CallRecords, Ops
  <2>3. io.event.kind # "evidence_abandoned"
    BY <1>8 DEF Continues
  <2>4. io.event = Reserved(call[holder].usage) /\ Available(call[holder].usage, io.events)
    BY <1>1, <1>8, <2>3 DEF IInv, CallInv
  <2>5. SpendsEvidence(io.event) /\ io.event.usage = call[holder].usage
    BY <2>4 DEF SpendsEvidence, Reserved, LifecycleEvent
  <2>6. call[holder].usage \in SpentUsages(NewLog)
    BY <1>1, <2>5, Appended
  <2>7. call[holder].usage \in Usages
    BY <1>3, <1>8 DEF IInv, CallInv
  <2> QED BY <2>2, <2>4, <2>6, <2>7
<1>9. ASSUME ~Continues, call[holder].op # "reopen"
      PROVE  NextCall \in CallRecords /\ NextCall.op = "idle"
  BY <1>9 DEF NextCall, Idle, CallRecords, Ops
<1>10. ASSUME NEW d \in Controllers
       PROVE  /\ call'[d] \in CallRecords
              /\ call'[d].op \in {"reserve", "reopen", "evaluate", "commit", "settle"} =>
                   call'[d].usage \in Usages
              /\ call'[d].op \in {"evaluate", "commit"} =>
                   \/ call'[d] = call[d] /\ call[d].usage \in SpentUsages(acked)
                   \/ d = holder /\ call'[d].usage \in SpentUsages(NewLog)
                                 /\ Available(call'[d].usage, io.events)
  <2>1. CASE Continues \/ d # holder
    <3>1. call'[d] = call[d]
      BY <1>2, <1>7, <2>1
    <3> QED BY <1>7, <3>1 DEF IInv, CallInv
  <2>2. CASE ~Continues /\ d = holder
    <3>1. call'[d] = NextCall
      BY <1>2, <1>7, <2>2
    <3> QED BY <1>8, <1>9, <2>2, <3>1
  <2> QED BY <2>1, <2>2
<1>11. CallInv'
  <2>1. call' \in [Controllers -> CallRecords]
    <3>1. call' = [d \in Controllers |-> call'[d]]
      BY <1>2, <1>7
    <3> QED BY <1>10, <3>1
  <2>2. \A d \in Controllers :
          /\ call'[d].op \in {"reserve", "reopen", "evaluate", "commit", "settle"} =>
               call'[d].usage \in Usages
          /\ call'[d].op \in {"evaluate", "commit"} => call'[d].usage \in SpentUsages(acked')
    BY <1>2, <1>6, <1>10
  <2> QED BY <1>2, <2>1, <2>2 DEF CallInv, CallRecords
<1>12. EvaluationsShareNothing'
  <2>1. SUFFICES ASSUME NEW c \in Controllers, NEW d \in Controllers, c # d,
                        call'[c].op \in {"evaluate", "commit"},
                        call'[d].op \in {"evaluate", "commit"}
                 PROVE  call'[c].usage.examples \cap call'[d].usage.examples = {}
    BY DEF EvaluationsShareNothing
  <2>2. CASE call'[c] = call[c] /\ call'[d] = call[d]
    BY <2>1, <2>2 DEF IInv, EvaluationsShareNothing
  <2>3. CASE call'[c] # call[c]
    <3>1. Available(call'[c].usage, io.events) /\ call'[d].usage \in SpentUsages(io.events)
      BY <1>6, <1>10, <2>1, <2>3
    <3> QED BY <3>1 DEF Available
  <2>4. CASE call'[d] # call[d]
    <3>1. Available(call'[d].usage, io.events) /\ call'[c].usage \in SpentUsages(io.events)
      BY <1>6, <1>10, <2>1, <2>4
    <3> QED BY <3>1 DEF Available
  <2> QED BY <2>2, <2>3, <2>4
<1>13. RouteInv'
  <2> DEFINE s == Replay(io.events)
             e == io.event
  <2>1. WasActive(Replay(NewLog).active, NewLog)
    BY <1>4, WasActiveNow
  <2>2. Replay(NewLog).active \in Generations \cup {NoGeneration}
    BY <1>1, Appended DEF LogInv, LifeInv, LifeStates
  <2>3. route \in [Controllers -> Generations \cup {NoGeneration, Down}]
    BY DEF IInv, RouteInv
  <2>4. NextRoute = route[holder] \/ NextRoute = Replay(NewLog).active
    <3>1. Replay(NewLog) = After(s, e) /\ s \in LifeStates
      BY <1>1, Appended DEF AppendInv, LogInv, LifeInv
    <3> HIDE DEF s
    <3>2. CASE e.kind \in {"parent_registered", "parent_restored"}
      <4>1. After(s, e).active = Parent
        BY <3>1, <3>2 DEF After, LifeStates
      <4> QED BY <3>1, <3>2, <4>1 DEF NextRoute
    <3>3. CASE e.kind = "activated"
      <4>1. After(s, e).active = Child(e.lineage)
        BY <3>1, <3>3 DEF After, AfterActivated, LifeStates
      <4> QED BY <3>1, <3>3, <4>1 DEF NextRoute
    <3>4. CASE e.kind \notin {"parent_registered", "parent_restored", "activated"}
      BY <3>4 DEF NextRoute
    <3> QED BY <3>2, <3>3, <3>4
  <2>5. \A d \in Controllers : route'[d] \in {route[d], Replay(NewLog).active}
    BY <1>2, <2>3, <2>4
  <2>6. \A d \in Controllers : route[d] # Down => WasActive(route[d], NewLog)
    BY <1>4, WasActiveGrows DEF IInv, RouteInv
  <2>7. route' \in [Controllers -> Generations \cup {NoGeneration, Down}]
    BY <1>2, <1>3, <2>2, <2>3, <2>4
  <2>8. \A d \in Controllers : route'[d] # Down => WasActive(route'[d], NewLog)
    BY <2>1, <2>5, <2>6
  <2>9. \A d \in Controllers : route'[d] # Down => WasActive(route'[d], acked')
    BY <1>2, <2>8
  <2> QED BY <2>7, <2>9 DEF RouteInv
<1> QED BY <1>5, <1>11, <1>12, <1>13 DEF IInv

-----------------------------------------------------------------------------
(* Steps between appends, and the invariant                                *)

\* A step between appends that leaves the files and the acknowledged events.
LEMMA BetweenAppends ==
  ASSUME IInv, io = NoIO, io' = NoIO, UNCHANGED <<log, head, mishap>>,
         acked' = acked \/ (acked' = Events /\ log = head),
         holder' = NoController \/ (holder' \in Controllers /\ log = head)
  PROVE  FilesInv'
<1>1. log' = log /\ head' = head /\ mishap' = mishap
  OBVIOUS
<1>2. acked' \in Seq(EventRecords)
      /\ IsPrefix(acked', Contents(log)) /\ IsPrefix(acked', Contents(head))
  <2>1. CASE acked' = acked
    BY <2>1 DEF IInv, FilesInv
  <2>2. CASE acked' = Events /\ log = head
    BY <2>2, ReadableLog, PrefixOrder DEF LogInv
  <2> QED BY <2>1, <2>2
<1> QED BY <1>1, <1>2 DEF IInv, FilesInv, HasLog, Contents

LEMMA ConstructKeeps ==
  ASSUME IInv, NEW c \in Controllers, Construct(c)
  PROVE  IInv'
<1>1. holder = NoController /\ Readable /\ holder' = c
      /\ call' = [call EXCEPT ![c] = Calling("construct", NoUsage, NoLineage)]
      /\ log' = log /\ head' = head /\ io' = io /\ route' = route /\ acked' = acked
      /\ mishap' = mishap
  BY DEF Construct
<1>2. io = NoIO /\ log = head
  BY <1>1, ReadableLog
<1>3. FilesInv'
  BY <1>1, <1>2, BetweenAppends
<1>4. Calling("construct", NoUsage, NoLineage) \in CallRecords
      /\ Calling("construct", NoUsage, NoLineage).op = "construct"
  BY CallTypes DEF Ops
<1>5. call \in [Controllers -> CallRecords]
  BY DEF IInv, CallInv, CallRecords
<1>6. call' \in [Controllers -> CallRecords]
      /\ \A d \in Controllers : call'[d] = call[d] \/ call'[d].op = "construct"
  BY <1>1, <1>4, <1>5
<1>7. CallInv'
  BY <1>1, <1>2, <1>6 DEF IInv, CallInv, CallRecords
<1>8. EvaluationsShareNothing'
  BY <1>6 DEF IInv, EvaluationsShareNothing
<1>9. RouteInv'
  BY <1>1 DEF IInv, RouteInv
<1> QED BY <1>3, <1>7, <1>8, <1>9 DEF IInv

\* Leaving between two appends of a call.
LEMMA LeavingKeeps ==
  ASSUME IInv, NEW c, io = NoIO, Leave(c), UNCHANGED <<log, head, route, acked, mishap>>
  PROVE  IInv'
<1>1. FilesInv'
  <2>1. io' = NoIO /\ holder' = NoController /\ acked' = acked
    BY DEF Leave
  <2>2. log' = log /\ head' = head /\ mishap' = mishap
    OBVIOUS
  <2> QED BY <2>1, <2>2, BetweenAppends
<1>2. CallInv' /\ RouteInv' /\ EvaluationsShareNothing'
  BY LeaveKeepsCalls
<1> QED BY <1>1, <1>2 DEF IInv

LEMMA ConstructFailsKeeps ==
  ASSUME IInv, NEW c \in Controllers, ConstructFails(c)
  PROVE  IInv'
BY LeavingKeeps DEF ConstructFails, Constructing

LEMMA ReserveRaisesKeeps ==
  ASSUME IInv, NEW c \in Controllers, ReserveRaises(c)
  PROVE  IInv'
BY LeavingKeeps DEF ReserveRaises, Reserving

LEMMA ConstructedKeeps ==
  ASSUME IInv, NEW c \in Controllers, Constructed(c)
  PROVE  IInv'
<1>1. holder = c /\ io = NoIO /\ call[c].op = "construct"
      /\ route' = [route EXCEPT ![c] = State.active] /\ acked' = Events
      /\ log' = log /\ head' = head /\ mishap' = mishap
      /\ io' = NoIO /\ holder' = NoController
      /\ call' = [call EXCEPT ![c] = Idle]
  BY DEF Constructed, Constructing, Leave
<1>2. log = head
  BY <1>1, MarkerAssumption DEF IInv, FilesInv
<1>3. FilesInv'
  BY <1>1, <1>2, BetweenAppends
<1>4. call \in [Controllers -> CallRecords] /\ Idle \in CallRecords /\ Idle.op = "idle"
  BY DEF IInv, CallInv, CallRecords, Idle, Ops
<1>5. call' \in [Controllers -> CallRecords]
      /\ \A d \in Controllers : call'[d] = call[d] \/ call'[d].op = "idle"
  BY <1>1, <1>4
<1>6. acked \in Seq(EventRecords) /\ Events \in Seq(EventRecords) /\ IsPrefix(acked, Events)
  BY ReadableLog DEF IInv, FilesInv, LogInv
<1>7. SpentUsages(acked) \subseteq SpentUsages(Events)
  BY <1>6, SpentGrows
<1>8. CallInv'
  BY <1>1, <1>5, <1>7 DEF IInv, CallInv, CallRecords
<1>9. EvaluationsShareNothing'
  BY <1>5 DEF IInv, EvaluationsShareNothing
<1>10. RouteInv'
  <2>1. WasActive(State.active, Events)
    BY <1>6, WasActiveNow DEF State
  <2>2. State.active \in Generations \cup {NoGeneration}
    BY ReadableLog DEF LifeInv, LifeStates
  <2>3. route \in [Controllers -> Generations \cup {NoGeneration, Down}]
    BY DEF IInv, RouteInv
  <2>4. \A d \in Controllers : route[d] # Down => WasActive(route[d], Events)
    BY <1>6, WasActiveGrows DEF IInv, RouteInv
  <2>5. \A d \in Controllers : route'[d] \in {route[d], State.active}
    BY <1>1, <2>3
  <2>6. \A d \in Controllers : route'[d] # Down => WasActive(route'[d], Events)
    BY <2>1, <2>4, <2>5
  <2>7. route' \in [Controllers -> Generations \cup {NoGeneration, Down}]
    BY <1>1, <2>2, <2>3
  <2>8. \A d \in Controllers : route'[d] # Down => WasActive(route'[d], acked')
    BY <1>1, <2>6
  <2> QED BY <2>7, <2>8 DEF RouteInv
<1> QED BY <1>3, <1>8, <1>9, <1>10 DEF IInv

\* A thread outside the lock settles or gives up, whatever the holder does.
LEMMA OutsideKeeps ==
  ASSUME IInv, NEW c \in Controllers, call[c].op \in {"evaluate", "settle"},
         NEW next \in CallRecords, next.op \in {"settle", "idle"},
         next.op = "settle" => next.usage = call[c].usage,
         call' = [call EXCEPT ![c] = next],
         UNCHANGED <<log, head, holder, io, route, acked, mishap>>
  PROVE  IInv'
<1>1. log' = log /\ head' = head /\ holder' = holder /\ io' = io /\ route' = route
      /\ acked' = acked /\ mishap' = mishap
  OBVIOUS
<1>2. call \in [Controllers -> CallRecords] /\ call[c].usage \in Usages
  BY DEF IInv, CallInv, CallRecords
<1>3. call' \in [Controllers -> CallRecords] /\ call'[c] = next
      /\ \A d \in Controllers : d # c => call'[d] = call[d]
  BY <1>2
<1>4. FilesInv'
  <2>1. AppendInv => AppendInv'
    BY <1>1 DEF AppendInv, NewLog, Contents
  <2> QED BY <1>1, <2>1 DEF IInv, FilesInv, HasLog, Contents
<1>5. CallInv'
  <2>1. \A d \in Controllers :
          /\ call'[d].op \in {"reserve", "reopen", "evaluate", "commit", "settle"} =>
               call'[d].usage \in Usages
          /\ call'[d].op \in {"evaluate", "commit"} => call'[d].usage \in SpentUsages(acked')
    BY <1>1, <1>2, <1>3 DEF IInv, CallInv
  <2>2. io' # NoIO /\ call'[holder'].op = "reopen" /\ io'.event.kind # "evidence_abandoned" =>
         /\ io'.event = Reserved(call'[holder'].usage)
         /\ Available(call'[holder'].usage, io'.events)
    <3>1. io # NoIO => holder \in Controllers
      BY DEF IInv, FilesInv, AppendInv
    <3> QED BY <1>1, <1>3, <3>1 DEF IInv, CallInv
  <2> QED BY <1>3, <2>1, <2>2 DEF CallInv, CallRecords
<1>6. RouteInv'
  BY <1>1 DEF IInv, RouteInv
<1>7. EvaluationsShareNothing'
  <2>1. \A d \in Controllers : call'[d].op \in {"evaluate", "commit"} => call'[d] = call[d]
    BY <1>3
  <2> QED BY <2>1 DEF IInv, EvaluationsShareNothing
<1> QED BY <1>4, <1>5, <1>6, <1>7 DEF IInv

LEMMA EvaluationFailsKeeps ==
  ASSUME IInv, NEW c \in Controllers, EvaluationFails(c)
  PROVE  IInv'
<1> DEFINE next == [call[c] EXCEPT !.op = "settle"]
<1>1. call[c].op = "evaluate" /\ call' = [call EXCEPT ![c] = next]
      /\ UNCHANGED <<log, head, holder, io, route, acked, mishap>>
  BY DEF EvaluationFails
<1>2. next \in CallRecords /\ next.op = "settle" /\ next.usage = call[c].usage
  BY CallTyped DEF CallRecords, Ops
<1> HIDE DEF next
<1> QED BY <1>1, <1>2, OutsideKeeps

LEMMA GiveUpKeeps ==
  ASSUME IInv, NEW c \in Controllers, GiveUp(c)
  PROVE  IInv'
<1>1. Idle \in CallRecords /\ Idle.op = "idle"
  BY DEF Idle, CallRecords, Ops
<1> QED BY <1>1, OutsideKeeps DEF GiveUp

LEMMA DropKeeps ==
  ASSUME IInv, NEW c \in Controllers, Drop(c)
  PROVE  IInv'
<1>1. log' = log /\ head' = head /\ holder' = holder /\ io' = io /\ call' = call
      /\ acked' = acked /\ mishap' = mishap /\ route' = [route EXCEPT ![c] = Down]
  BY DEF Drop
<1>2. FilesInv'
  <2>1. AppendInv => AppendInv'
    BY <1>1 DEF AppendInv, NewLog, Contents
  <2> QED BY <1>1, <2>1 DEF IInv, FilesInv, HasLog, Contents
<1>3. CallInv' /\ EvaluationsShareNothing'
  BY <1>1 DEF IInv, CallInv, EvaluationsShareNothing
<1>4. RouteInv'
  BY <1>1 DEF IInv, RouteInv
<1> QED BY <1>2, <1>3, <1>4 DEF IInv

LEMMA InitInv == Init => IInv
<1> SUFFICES ASSUME Init PROVE IInv
  OBVIOUS
<1>1. FilesInv
  <2>1. Contents(log) = <<>> /\ Contents(head) = <<>> /\ LogInv(<<>>)
    BY EmptyLog DEF Init, Contents
  <2>2. acked = <<>> /\ acked \in Seq(EventRecords)
    BY EmptySeq DEF Init
  <2>3. IsPrefix(<<>>, <<>>)
    BY <2>2, PrefixOrder
  <2> QED BY <2>1, <2>2, <2>3 DEF Init, FilesInv, HasLog
<1>2. \A c \in Controllers : call[c] = Idle
  BY DEF Init
<1>3. CallInv
  BY <1>2 DEF Init, CallInv, Idle, Ops
<1>4. RouteInv
  BY DEF Init, RouteInv
<1>5. EvaluationsShareNothing
  BY <1>2 DEF EvaluationsShareNothing, Idle
<1> QED BY <1>1, <1>3, <1>4, <1>5 DEF IInv

LEMMA StepInv == IInv /\ [Next]_vars => IInv'
<1> SUFFICES ASSUME IInv, [Next]_vars PROVE IInv'
  OBVIOUS
<1>1. CASE Appending
  BY <1>1, PublishLogKeeps, PublishHeadKeeps, UndoLogKeeps, UndoHeadKeeps DEF Appending
<1>2. CASE PublicationFails \/ CutShort \/ Crash
  BY <1>2, PublicationFailsKeeps, CutShortKeeps, CrashKeeps
<1>3. ASSUME NEW c \in Controllers,
             Construct(c) \/ Reconcile(c) \/ Constructed(c) \/ ConstructFails(c)
      PROVE  IInv'
  BY <1>3, ConstructKeeps, ReconcileKeeps, ConstructedKeeps, ConstructFailsKeeps
<1>4. ASSUME NEW c \in Controllers, NEW X \in Corpora,
             RegisterParent(c, X) \/ ReserveEvidence(c, X) \/ RequestReopen(c, X)
      PROVE  IInv'
  BY <1>4, RegisterParentKeeps, ReserveEvidenceKeeps, RequestReopenKeeps
<1>5. ASSUME NEW c \in Controllers, ReserveAfterAbandon(c) \/ ReserveRaises(c)
      PROVE  IInv'
  BY <1>5, ReserveAfterAbandonKeeps, ReserveRaisesKeeps
<1>6. ASSUME NEW c \in Controllers,
             EvaluationFails(c) \/ CommitReopen(c) \/ AbandonIfPending(c) \/ GiveUp(c)
      PROVE  IInv'
  BY <1>6, EvaluationFailsKeeps, CommitReopenKeeps, AbandonIfPendingKeeps, GiveUpKeeps
<1>7. ASSUME NEW c \in Controllers, NEW t \in Tickets, NEW b \in Behaviors,
             NEW accepted \in BOOLEAN, RecordCandidate(c, Lineage(t, b, accepted))
      PROVE  IInv'
  BY <1>7, RecordCandidateKeeps
<1>8. ASSUME NEW c \in Controllers,
             \/ RejectCandidate(c) \/ ApprovePromotion(c) \/ ActivateChild(c)
             \/ RestoreParent(c) \/ Drop(c)
      PROVE  IInv'
  BY <1>8, RejectCandidateKeeps, ApprovePromotionKeeps, ActivateChildKeeps,
     RestoreParentKeeps, DropKeeps
<1>9. CASE UNCHANGED vars
  <2>1. log' = log /\ head' = head /\ holder' = holder /\ io' = io /\ call' = call
        /\ route' = route /\ acked' = acked /\ mishap' = mishap
    BY <1>9 DEF vars
  <2>2. AppendInv => AppendInv'
    BY <2>1 DEF AppendInv, NewLog, Contents
  <2> QED BY <2>1, <2>2
          DEF IInv, FilesInv, CallInv, RouteInv, EvaluationsShareNothing, HasLog, Contents
<1> QED BY <1>1, <1>2, <1>3, <1>4, <1>5, <1>6, <1>7, <1>8, <1>9 DEF Next

(***************************************************************************)
(* The invariant of the store and its controllers: the files, the append   *)
(* in progress, what the threads still need their evidence for, the        *)
(* routes.                                                                 *)
(***************************************************************************)
THEOREM ControllerInvariant == Spec => []IInv
BY InitInv, StepInv, PTL DEF Spec

\* What the invariant says of the three promises.
LEMMA PromisesHold == IInv => DurableLogReplays /\ PromisesAreDurable /\ EvaluationsShareNothing
<1> SUFFICES ASSUME IInv
             PROVE  DurableLogReplays /\ PromisesAreDurable /\ EvaluationsShareNothing
  OBVIOUS
<1>1. DurableLogReplays
  BY ReadableLog DEF DurableLogReplays, IInv, FilesInv
<1>2. AcknowledgedSurvives
  <2>1. IsPrefix(acked, Contents(log)) /\ IsPrefix(acked, Contents(head))
        /\ acked \in Seq(EventRecords)
    BY DEF IInv, FilesInv
  <2>2. SUFFICES ASSUME acked # <<>> PROVE log # Missing /\ head # Missing
    BY <2>1 DEF AcknowledgedSurvives, Contents
  <2>3. Len(acked) \in Nat /\ Len(acked) # 0
    BY <2>1, <2>2, EmptySeq
  <2>4. ~IsPrefix(acked, <<>>)
    <3>1. Len(<<>>) = 0
      OBVIOUS
    <3> QED BY <2>3, <3>1 DEF IsPrefix
  <2> QED BY <2>1, <2>4 DEF Contents
<1>3. RouteWasDurable
  BY DEF RouteWasDurable, WasActive, IInv, RouteInv
<1> QED BY <1>1, <1>2, <1>3 DEF PromisesAreDurable, IInv

(***************************************************************************)
(* _replay_lifecycle_state accepts whatever append_event has published, by *)
(* whichever controllers, failures and crashes; and the log and the head   *)
(* disagree only after an append was cut short or could not be undone.     *)
(***************************************************************************)
THEOREM LogAlwaysReplays == Spec => []DurableLogReplays
BY ControllerInvariant, PromisesHold, PTL

(***************************************************************************)
(* The events a call has reported stay in both files, and a controller     *)
(* routes only what one of them made active: an append that fails, is      *)
(* undone or dies takes nothing back and moves no route.                   *)
(***************************************************************************)
THEOREM PromisesStayDurable == Spec => []PromisesAreDurable
BY ControllerInvariant, PromisesHold, PTL

(***************************************************************************)
(* Two request_reopen calls whose ptmrt runs overlap evaluate disjoint     *)
(* observations, though the event lock is free while they run.             *)
(***************************************************************************)
THEOREM EvaluationsStayApart == Spec => []EvaluationsShareNothing
BY ControllerInvariant, PromisesHold, PTL

-----------------------------------------------------------------------------
(* The line of generations                                                 *)

RouteKinds == {"parent_registered", "activated", "parent_restored"}

\* The active generation of a replay, as the line names it.
View(s) == IF s.activated # NoLineage THEN s.activated.behavior ELSE s.active

\* The events tell the line what replay makes of them.
LineTold(events) ==
    /\ LineActive(events) = View(Replay(events))
    /\ LineRetired(events) = Replay(events).behaviors

\* The latest of finitely many events.
LEMMA GreatestNumber ==
  ASSUME NEW N \in Nat, NEW T, T \subseteq 1 .. N, T # {}
  PROVE  Max(T) \in T /\ \A m \in T : Max(T) >= m
<1> DEFINE U == {N - i : i \in T}
<1>1. U \subseteq Nat /\ U # {}
  <2>1. \A i \in T : N - i \in Nat
    OBVIOUS
  <2> QED BY <2>1
<1>2. PICK u \in U : \A v \in U : u <= v
  <2> HIDE DEF U
  <2> QED BY <1>1, LeastNumber
<1>3. PICK n \in T : u = N - n
  BY <1>2
<1>4. \A m \in T : n >= m
  <2>1. SUFFICES ASSUME NEW m \in T PROVE n >= m
    OBVIOUS
  <2>2. N - m \in U
    OBVIOUS
  <2>3. u <= N - m
    BY <1>2, <2>2
  <2>4. n \in Int /\ m \in Int /\ N \in Int
    BY <1>3
  <2> QED BY <1>3, <2>3, <2>4
<1> QED BY <1>3, <1>4 DEF Max

LEMMA MaxIs ==
  ASSUME NEW T, T \subseteq Nat, NEW n \in T, \A m \in T : n >= m
  PROVE  Max(T) = n
<1>1. Max(T) \in T /\ \A m \in T : Max(T) >= m
  BY DEF Max
<1>2. Max(T) >= n /\ n >= Max(T) /\ Max(T) \in Nat /\ n \in Nat
  BY <1>1
<1> QED BY <1>2

\* What one more event tells the line.
LEMMA RoutesAppend ==
  ASSUME NEW events \in Seq(EventRecords), NEW e \in EventRecords
  PROVE  LineActive(Append(events, e)) =
            IF e.kind \in RouteKinds
            THEN IF e.kind = "activated" THEN e.lineage.behavior ELSE Parent
            ELSE LineActive(events)
<1> DEFINE more == Append(events, e)
<1>1. PICK N \in Nat : N = Len(events)
  BY LenProperties
<1>2. DOMAIN events = 1 .. N /\ DOMAIN more = 1 .. (N + 1)
      /\ more[N + 1] = e /\ \A i \in 1 .. N : more[i] = events[i]
  BY <1>1, AppendProperties, LenProperties
<1> HIDE DEF more
<1>3. RouteEvents(events) \subseteq 1 .. N /\ RouteEvents(more) \subseteq 1 .. (N + 1)
  BY <1>2 DEF RouteEvents
<1>4. CASE e.kind \in RouteKinds
  <2>1. N + 1 \in RouteEvents(more)
    BY <1>1, <1>2, <1>4 DEF RouteEvents, RouteKinds
  <2>2. \A m \in RouteEvents(more) : N + 1 >= m
    BY <1>1, <1>3
  <2>3. RouteEvents(more) \subseteq Nat
    BY <1>1, <1>3
  <2>4. Max(RouteEvents(more)) = N + 1
    BY <2>1, <2>2, <2>3, MaxIs
  <2> QED BY <1>2, <1>4, <2>1, <2>4 DEF LineActive, more
<1>5. CASE e.kind \notin RouteKinds
  <2>1. RouteEvents(more) = RouteEvents(events)
    <3>1. \A i \in 1 .. (N + 1) : i \in RouteEvents(more) <=> i \in RouteEvents(events)
      <4>1. SUFFICES ASSUME NEW i \in 1 .. (N + 1)
                     PROVE  i \in RouteEvents(more) <=> i \in RouteEvents(events)
        OBVIOUS
      <4>2. CASE i \in 1 .. N
        BY <1>2, <4>2 DEF RouteEvents
      <4>3. CASE i = N + 1
        <5>1. i \notin 1 .. N
          BY <1>1, <4>3
        <5> QED BY <1>2, <1>5, <4>3, <5>1 DEF RouteEvents, RouteKinds
      <4> QED BY <1>1, <4>1, <4>2, <4>3
    <3>2. 1 .. N \subseteq 1 .. (N + 1)
      BY <1>1
    <3> QED BY <1>3, <3>1, <3>2
  <2>2. CASE RouteEvents(events) = {}
    BY <1>5, <2>1, <2>2 DEF LineActive, more
  <2>3. CASE RouteEvents(events) # {}
    <3>1. Max(RouteEvents(events)) \in 1 .. N
      BY <1>1, <1>3, <2>3, GreatestNumber
    <3>2. more[Max(RouteEvents(events))] = events[Max(RouteEvents(events))]
      BY <1>2, <3>1
    <3> QED BY <1>5, <2>1, <3>2 DEF LineActive, more
  <2> QED BY <2>2, <2>3
<1> QED BY <1>4, <1>5

LEMMA RetiredAppend ==
  ASSUME NEW events \in Seq(EventRecords), NEW e \in EventRecords
  PROVE  LineRetired(Append(events, e)) =
            LineRetired(events) \cup (IF e.kind = "activated" THEN {e.lineage.behavior} ELSE {})
<1> DEFINE more == Append(events, e)
           A(s) == {j \in DOMAIN s : s[j].kind = "activated"}
<1>1. PICK N \in Nat : N = Len(events)
  BY LenProperties
<1>2. DOMAIN events = 1 .. N /\ DOMAIN more = 1 .. (N + 1)
      /\ more[N + 1] = e /\ \A i \in 1 .. N : more[i] = events[i]
  BY <1>1, AppendProperties, LenProperties
<1> HIDE DEF more
<1>3. A(more) = A(events) \cup (IF e.kind = "activated" THEN {N + 1} ELSE {})
  <2>1. 1 .. (N + 1) = (1 .. N) \cup {N + 1}
    BY <1>1
  <2>2. A(more) = {j \in 1 .. N : more[j].kind = "activated"}
                   \cup {j \in {N + 1} : more[j].kind = "activated"}
    BY <1>2, <2>1
  <2>3. {j \in 1 .. N : more[j].kind = "activated"} = A(events)
    BY <1>2
  <2>4. {j \in {N + 1} : more[j].kind = "activated"} = IF e.kind = "activated" THEN {N + 1} ELSE {}
    BY <1>2
  <2> QED BY <2>2, <2>3, <2>4
<1>4. {more[i].lineage.behavior : i \in A(events)} = {events[i].lineage.behavior : i \in A(events)}
  BY <1>2
<1>5. LineRetired(more) = {more[i].lineage.behavior : i \in A(more)}
      /\ LineRetired(events) = {events[i].lineage.behavior : i \in A(events)}
  BY DEF LineRetired
<1> HIDE DEF A
<1>6. CASE e.kind = "activated"
  <2>1. {more[i].lineage.behavior : i \in A(more)}
          = {more[i].lineage.behavior : i \in A(events)} \cup {more[N + 1].lineage.behavior}
    BY <1>3, <1>6
  <2> QED BY <1>2, <1>4, <1>5, <1>6, <2>1 DEF more
<1>7. CASE e.kind # "activated"
  BY <1>3, <1>4, <1>5, <1>7 DEF more
<1> QED BY <1>6, <1>7

LEMMA LedgerAppend ==
  ASSUME NEW events \in Seq(EventRecords), NEW e \in EventRecords
  PROVE  LET spent == LineSpent(events)
             i == Len(events) + 1
         IN /\ i \notin DOMAIN spent
            /\ LineSpent(Append(events, e)) =
                 IF SpendsEvidence(e)
                 THEN [j \in DOMAIN spent \cup {i} |-> IF j = i THEN e.usage.examples ELSE spent[j]]
                 ELSE spent
<1> DEFINE more == Append(events, e)
           A(s) == {j \in DOMAIN s : SpendsEvidence(s[j])}
<1>1. PICK N \in Nat : N = Len(events)
  BY LenProperties
<1>2. DOMAIN events = 1 .. N /\ DOMAIN more = 1 .. (N + 1)
      /\ more[N + 1] = e /\ \A i \in 1 .. N : more[i] = events[i]
  BY <1>1, AppendProperties, LenProperties
<1> HIDE DEF more
<1>3. A(more) = A(events) \cup (IF SpendsEvidence(e) THEN {N + 1} ELSE {})
  <2>1. 1 .. (N + 1) = (1 .. N) \cup {N + 1}
    BY <1>1
  <2>2. A(more) = {j \in 1 .. N : SpendsEvidence(more[j])} \cup {j \in {N + 1} : SpendsEvidence(more[j])}
    BY <1>2, <2>1
  <2>3. {j \in 1 .. N : SpendsEvidence(more[j])} = A(events)
    BY <1>2
  <2>4. {j \in {N + 1} : SpendsEvidence(more[j])} = IF SpendsEvidence(e) THEN {N + 1} ELSE {}
    BY <1>2
  <2> QED BY <2>2, <2>3, <2>4
<1>4. A(events) \subseteq 1 .. N /\ N + 1 \notin A(events)
  BY <1>1, <1>2
<1>5. LineSpent(more) = [i \in A(more) |-> more[i].usage.examples]
      /\ LineSpent(events) = [i \in A(events) |-> events[i].usage.examples]
  BY DEF LineSpent
<1> HIDE DEF A
<1>6. CASE SpendsEvidence(e)
  <2>1. LineSpent(more) = [i \in A(events) \cup {N + 1} |-> more[i].usage.examples]
    BY <1>3, <1>5, <1>6
  <2>2. \A j \in A(events) \cup {N + 1} :
           more[j].usage.examples =
             IF j = N + 1 THEN e.usage.examples ELSE LineSpent(events)[j]
    BY <1>2, <1>4, <1>5
  <2>3. DOMAIN LineSpent(events) = A(events)
    BY <1>5
  <2>4. LineSpent(more) = [j \in DOMAIN LineSpent(events) \cup {N + 1} |->
                              IF j = N + 1 THEN e.usage.examples ELSE LineSpent(events)[j]]
    BY <2>1, <2>2, <2>3
  <2> QED BY <1>1, <1>4, <1>6, <2>3, <2>4 DEF more
<1>7. CASE ~SpendsEvidence(e)
  <2>1. A(more) = A(events)
    BY <1>3, <1>7
  <2>2. LineSpent(more) = LineSpent(events)
    BY <1>2, <1>4, <1>5, <2>1
  <2>3. DOMAIN LineSpent(events) = A(events)
    BY <1>5
  <2> QED BY <1>1, <1>4, <1>7, <2>2, <2>3 DEF more
<1> QED BY <1>6, <1>7

\* What the ledger holds, replay knows to be spent.
LEMMA LedgerIsSpent ==
  ASSUME NEW events, LogInv(events), NEW i \in DOMAIN LineSpent(events)
  PROVE  LineSpent(events)[i] \subseteq Replay(events).spent
<1>1. i \in DOMAIN events /\ SpendsEvidence(events[i])
      /\ LineSpent(events)[i] = events[i].usage.examples
  BY DEF LineSpent
<1>2. events[i].usage \in SpentUsages(events)
  BY <1>1 DEF SpentUsages, Range
<1> QED BY <1>1, <1>2 DEF LogInv

LEMMA LineToldBlank ==
  /\ LineTold(<<>>) /\ LineActive(<<>>) = NoGeneration /\ LineRetired(<<>>) = {}
  /\ LineSpent(<<>>) = [i \in {} |-> {}]
<1>1. DOMAIN <<>> = {}
  OBVIOUS
<1>2. RouteEvents(<<>>) = {}
  BY <1>1 DEF RouteEvents
<1>3. LineActive(<<>>) = NoGeneration /\ LineRetired(<<>>) = {}
  BY <1>1, <1>2 DEF LineActive, LineRetired
<1>4. LineSpent(<<>>) = [i \in {} |-> {}]
  BY <1>1 DEF LineSpent
<1>5. View(Blank) = NoGeneration /\ Blank.behaviors = {}
  BY DEF View, Blank
<1>6. LineTold(<<>>)
  BY <1>3, <1>5, ReplayBlank DEF LineTold
<1> QED BY <1>3, <1>4, <1>6

\* A valid event is a step of the line, or none.
LEMMA EventImplements ==
  ASSUME LogInv(Settled), LineTold(Settled), Len(Settled) < LogCapacity,
         NEW e, Proper(e), Valid(Replay(Settled), e), Settled' = Append(Settled, e)
  PROVE  LineTold(Settled)' /\ (Line!LineNext \/ UNCHANGED Line!line)
<1> DEFINE s == Replay(Settled)
           t == Replay(Settled')
           active == LineActive(Settled)
           retired == LineRetired(Settled)
           spent == LineSpent(Settled)
<1>1. Settled \in Seq(EventRecords) /\ e \in EventRecords /\ s \in LifeStates /\ OneTransition(s)
  BY DEF LogInv, LifeInv, Proper
<1>2. t = After(s, e)
  BY ValidAppends
<1>3. LineActive(Settled') = (IF e.kind \in RouteKinds
                              THEN IF e.kind = "activated" THEN e.lineage.behavior ELSE Parent
                              ELSE active)
  BY <1>1, RoutesAppend
<1>4. LineRetired(Settled') =
        retired \cup (IF e.kind = "activated" THEN {e.lineage.behavior} ELSE {})
  BY <1>1, RetiredAppend
<1>5. Len(Settled) + 1 \notin DOMAIN spent
      /\ LineSpent(Settled') =
           IF SpendsEvidence(e)
           THEN [j \in DOMAIN spent \cup {Len(Settled) + 1} |->
                    IF j = Len(Settled) + 1 THEN e.usage.examples ELSE spent[j]]
           ELSE spent
  BY <1>1, LedgerAppend
<1>6. Len(Settled) + 1 \in 1 .. LogCapacity
  BY <1>1, LenProperties, CapacityAssumption
<1>7. active = View(s) /\ retired = s.behaviors
  BY DEF LineTold
<1>8. \A i \in DOMAIN spent : spent[i] \subseteq s.spent
  BY LedgerIsSpent
<1>9. e.kind \in Kinds
  BY <1>1 DEF EventRecords
<1> HIDE DEF s, t, active, retired, spent
<1>10. CASE e.kind = "parent_registered"
  <2>1. e.usage \in Usages /\ s.active = NoGeneration /\ e.usage.examples \cap s.spent = {}
    BY <1>10 DEF Proper, AboutUsage, Valid, ValidRegistered, s
  <2>2. SpendsEvidence(e) /\ e.kind \in RouteKinds /\ e.kind # "activated"
    BY <1>10 DEF SpendsEvidence, RouteKinds
  <2>3. s.activated = NoLineage /\ t.activated = NoLineage
        /\ t.active = Parent /\ t.behaviors = s.behaviors
    <3>1. s.activated \in Lineages \cup {NoLineage}
      BY <1>1 DEF LifeStates
    <3>2. s.activated # NoLineage => s.active \in Generations
      BY <1>1, <3>1, NoneIsReal DEF OneTransition, ActiveOrder
    <3>3. s.activated = NoLineage
      BY <2>1, <3>2, NoneIsReal
    <3> QED BY <1>1, <1>2, <1>10, <3>3 DEF After, LifeStates
  <2>4. Line!Fresh(e.usage.examples)
    <3>1. \A i \in DOMAIN spent : spent[i] \cap e.usage.examples = {}
      BY <1>8, <2>1
    <3> QED BY <3>1 DEF Line!Fresh, spent
  <2>5. Line!Spend(e.usage.examples)
    <3>1. LineSpent(Settled') = [j \in DOMAIN spent \cup {Len(Settled) + 1} |->
                                   IF j = Len(Settled) + 1 THEN e.usage.examples ELSE spent[j]]
      BY <1>5, <2>2
    <3>2. Line!Enter(Len(Settled) + 1, e.usage.examples)
      BY <3>1 DEF Line!Enter, spent
    <3> QED BY <1>5, <1>6, <2>4, <3>2 DEF Line!Spend, spent
  <2>6. active = NoGeneration /\ LineActive(Settled') = Parent /\ LineRetired(Settled') = retired
    BY <1>3, <1>4, <1>7, <2>1, <2>2, <2>3 DEF View
  <2>7. LineTold(Settled')
    BY <1>7, <2>3, <2>6 DEF LineTold, View, t
  <2>8. Line!Register
    BY <2>1, <2>5, <2>6, NoneIsReal DEF Line!Register, active, retired
  <2> QED BY <2>7, <2>8 DEF Line!LineNext
<1>11. CASE e.kind = "evidence_reserved"
  <2>1. e.usage \in Usages /\ s.active # NoGeneration /\ e.usage.examples \cap s.spent = {}
    BY <1>11 DEF Proper, AboutUsage, Valid, ValidReserved, s
  <2>2. SpendsEvidence(e) /\ e.kind \notin RouteKinds /\ e.kind # "activated"
    BY <1>11 DEF SpendsEvidence, RouteKinds
  <2>3. t.activated = s.activated /\ t.active = s.active /\ t.behaviors = s.behaviors
    BY <1>1, <1>2, <1>11 DEF After, LifeStates
  <2>4. Line!Fresh(e.usage.examples)
    <3>1. \A i \in DOMAIN spent : spent[i] \cap e.usage.examples = {}
      BY <1>8, <2>1
    <3> QED BY <3>1 DEF Line!Fresh, spent
  <2>5. Line!Spend(e.usage.examples)
    <3>1. LineSpent(Settled') = [j \in DOMAIN spent \cup {Len(Settled) + 1} |->
                                   IF j = Len(Settled) + 1 THEN e.usage.examples ELSE spent[j]]
      BY <1>5, <2>2
    <3>2. Line!Enter(Len(Settled) + 1, e.usage.examples)
      BY <3>1 DEF Line!Enter, spent
    <3> QED BY <1>5, <1>6, <2>4, <3>2 DEF Line!Spend, spent
  <2>6. LineActive(Settled') = active /\ LineRetired(Settled') = retired
    BY <1>3, <1>4, <2>2
  <2>7. LineTold(Settled')
    BY <1>7, <2>3, <2>6 DEF LineTold, View, t
  <2>8. active # NoGeneration
    <3>1. s.activated # NoLineage => s.activated.behavior \in Behaviors
      BY <1>1, NoneIsReal DEF LifeStates
    <3> QED BY <1>7, <2>1, <3>1, MarkerAssumption DEF View
  <2>9. Line!Collect
    BY <2>1, <2>5, <2>6, <2>8, NoneIsReal DEF Line!Collect, active, retired
  <2> QED BY <2>7, <2>9 DEF Line!LineNext
<1>12. CASE e.kind = "activated"
  <2>1. e.lineage \in Lineages /\ s.approved = e.lineage /\ s.active = Parent
        /\ e.lineage.behavior \notin s.behaviors
    BY <1>12 DEF Proper, AboutUsage, Valid, ValidActivated, s
  <2>2. ~SpendsEvidence(e) /\ e.kind \in RouteKinds
    BY <1>12 DEF SpendsEvidence, RouteKinds
  <2>3. s.activated = NoLineage /\ t.activated = e.lineage
        /\ t.behaviors = s.behaviors \cup {e.lineage.behavior}
    BY <1>1, <1>2, <1>12, <2>1, NoneIsReal
    DEF After, AfterActivated, LifeStates, OneTransition, ActiveOrder
  <2>4. active = Parent /\ e.lineage.behavior \notin retired
        /\ LineActive(Settled') = e.lineage.behavior
        /\ LineRetired(Settled') = retired \cup {e.lineage.behavior}
        /\ LineSpent(Settled') = spent
    BY <1>3, <1>4, <1>5, <1>7, <1>12, <2>1, <2>2, <2>3 DEF View
  <2>5. LineTold(Settled')
    BY <1>7, <2>1, <2>3, <2>4, NoneIsReal DEF LineTold, View, t
  <2>6. Line!Promote(e.lineage.behavior)
    BY <2>4 DEF Line!Promote, active, retired, spent
  <2> QED BY <2>1, <2>5, <2>6, NoneIsReal DEF Line!LineNext
<1>13. CASE e.kind = "parent_restored"
  <2>1. e.lineage \in Lineages /\ s.activated # NoLineage
    BY <1>13 DEF Proper, AboutUsage, Valid, ValidRestored, s
  <2>2. ~SpendsEvidence(e) /\ e.kind \in RouteKinds /\ e.kind # "activated"
    BY <1>13 DEF SpendsEvidence, RouteKinds
  <2>3. t.activated = NoLineage /\ t.active = Parent /\ t.behaviors = s.behaviors
    BY <1>1, <1>2, <1>13 DEF After, LifeStates
  <2>4. active \in Behaviors /\ LineActive(Settled') = Parent
        /\ LineRetired(Settled') = retired /\ LineSpent(Settled') = spent
    <3>1. s.activated.behavior \in Behaviors
      BY <1>1, <2>1, NoneIsReal DEF LifeStates
    <3> QED BY <1>3, <1>4, <1>5, <1>7, <2>1, <2>2, <3>1 DEF View
  <2>5. LineTold(Settled')
    BY <1>7, <2>3, <2>4 DEF LineTold, View, t
  <2>6. Line!Restore
    BY <2>4 DEF Line!Restore, active, retired, spent
  <2> QED BY <2>5, <2>6 DEF Line!LineNext
<1>14. CASE e.kind \notin {"parent_registered", "evidence_reserved", "activated", "parent_restored"}
  <2>1. t.active = s.active /\ t.activated = s.activated /\ t.behaviors = s.behaviors
    BY <1>1, <1>2, <1>9, <1>14 DEF After, LifeStates, Kinds
  <2>2. LineActive(Settled') = active /\ LineRetired(Settled') = retired /\ LineSpent(Settled') = spent
    BY <1>3, <1>4, <1>5, <1>14 DEF RouteKinds, SpendsEvidence
  <2>3. LineTold(Settled')
    BY <1>7, <2>1, <2>2 DEF LineTold, View, t
  <2>4. UNCHANGED Line!line
    BY <2>2 DEF Line!line, active, retired, spent
  <2> QED BY <2>3, <2>4
<1> QED BY <1>10, <1>11, <1>12, <1>13, <1>14

\* Only two steps move what is settled, by the event of the append in progress.
LEMMA SettledMoves ==
  ASSUME IInv, [Next]_vars
  PROVE  \/ Settled' = Settled
         \/ /\ io # NoIO /\ Settled = io.events /\ Settled' = Append(Settled, io.event)
<1>1. io # NoIO =>
        /\ Settled = io.events /\ NewLog = Append(Settled, io.event)
        /\ Contents(head) \in {io.events, NewLog}
        /\ Contents(NewLog) = NewLog /\ Contents(io.events) = io.events
  BY Appended DEF Settled, NewLog, AppendInv
<1>2. io = NoIO => Settled = Contents(head)
  BY DEF Settled, Contents
<1>3. io' = NoIO => Settled' = Contents(head')
  BY DEF Settled, Contents
<1>4. io' # NoIO => Settled' = io'.events
  BY DEF Settled
<1>5. ASSUME UNCHANGED <<head, io>> PROVE Settled' = Settled
  BY <1>5 DEF Settled
<1>6. ASSUME NEW c, NEW e, NEW doing, StartAppend(c, e, doing), io = NoIO, log = head
      PROVE  Settled' = Settled
  <2>1. io'.events = Events /\ io' # NoIO
    BY <1>6 DEF StartAppend, NoIO
  <2>2. Events = Contents(head)
    BY <1>6, ReadableLog
  <2> QED BY <1>2, <1>4, <1>6, <2>1, <2>2
<1>7. CASE Appending \/ PublicationFails
  <2>1. CASE PublishLog \/ UndoLog \/ PublicationFails
    <3>1. io # NoIO
      BY <2>1, AtAppends DEF PublishLog, UndoLog, PublicationFails
    <3>2. AppendInv /\ \E at \in {"head", "undo_log", "undo_head"} : io' = [io EXCEPT !.at = at]
      BY <2>1, <3>1, Appended DEF PublishLog, UndoLog, PublicationFails
    <3>3. io'.events = io.events /\ io' # NoIO
      BY <3>2 DEF AppendInv, NoIO
    <3> QED BY <1>1, <1>4, <3>1, <3>3
  <2>2. CASE PublishHead \/ UndoHead
    <3>1. io # NoIO /\ io' = NoIO /\ head' \in {NewLog, io.events}
      BY <2>2, AtAppends DEF PublishHead, UndoHead, Leave, Previous
    <3> QED BY <1>1, <1>3, <3>1
  <2> QED BY <1>7, <2>1, <2>2 DEF Appending
<1>8. CASE CutShort
  <2>1. io # NoIO /\ io' = NoIO /\ head' \in {head, NewLog, io.events}
    BY <1>8, AtAppends DEF CutShort, Leave, Previous
  <2> QED BY <1>1, <1>3, <2>1
<1>9. CASE Crash
  <2>1. io' = NoIO /\ head' = head
    BY <1>9 DEF Crash
  <2> QED BY <1>1, <1>2, <1>3, <2>1
<1>10. ASSUME NEW c \in Controllers,
              \/ Construct(c) \/ Constructed(c) \/ ConstructFails(c) \/ ReserveRaises(c)
              \/ EvaluationFails(c) \/ GiveUp(c) \/ Drop(c)
       PROVE  Settled' = Settled
  BY <1>5, <1>10
  DEF Construct, Constructed, ConstructFails, ReserveRaises, EvaluationFails, GiveUp, Drop,
      Leave, Constructing, Reserving
<1>11. ASSUME NEW c \in Controllers, Reconcile(c) \/ ReserveAfterAbandon(c)
       PROVE  Settled' = Settled
  <2>1. io = NoIO /\ holder = c /\ \E e, doing : StartAppend(c, e, doing)
    BY <1>11 DEF Reconcile, ReserveAfterAbandon, Constructing, Reserving
  <2>2. log = head
    BY <2>1, MarkerAssumption DEF IInv, FilesInv
  <2> QED BY <1>6, <2>1, <2>2
<1>12. ASSUME NEW c \in Controllers, NEW X \in Corpora,
              RegisterParent(c, X) \/ ReserveEvidence(c, X) \/ RequestReopen(c, X)
       PROVE  Settled' = Settled
  <2>1. io = NoIO /\ log = head
    BY <1>12, Entering DEF RegisterParent, ReserveEvidence, RequestReopen
  <2>2. \E e, doing : StartAppend(c, e, doing)
    BY <1>12 DEF RegisterParent, ReserveEvidence, RequestReopen, Reserve
  <2> QED BY <1>6, <2>1, <2>2
<1>13. ASSUME NEW c \in Controllers, CommitReopen(c) \/ AbandonIfPending(c)
       PROVE  Settled' = Settled
  <2>1. io = NoIO /\ log = head /\ \E e, doing : StartAppend(c, e, doing)
    BY <1>13, ReadableLog DEF CommitReopen, AbandonIfPending, Authoritative
  <2> QED BY <1>6, <2>1
<1>14. ASSUME NEW c \in Controllers, NEW t \in Tickets, NEW b \in Behaviors,
              NEW accepted \in BOOLEAN, RecordCandidate(c, Lineage(t, b, accepted))
       PROVE  Settled' = Settled
  <2>1. io = NoIO /\ log = head /\ \E e, doing : StartAppend(c, e, doing)
    BY <1>14, Entering DEF RecordCandidate
  <2> QED BY <1>6, <2>1
<1>15. ASSUME NEW c \in Controllers,
              RejectCandidate(c) \/ ApprovePromotion(c) \/ ActivateChild(c) \/ RestoreParent(c)
       PROVE  Settled' = Settled
  <2>1. io = NoIO /\ log = head /\ \E e, doing : StartAppend(c, e, doing)
    BY <1>15, Entering DEF RejectCandidate, ApprovePromotion, ActivateChild, RestoreParent
  <2> QED BY <1>6, <2>1
<1>16. CASE UNCHANGED vars
  BY <1>5, <1>16 DEF vars
<1> QED BY <1>7, <1>8, <1>9, <1>10, <1>11, <1>12, <1>13, <1>14, <1>15, <1>16 DEF Next

LEMMA SettledIsLog == IInv => LogInv(Settled)
BY DEF IInv, FilesInv, AppendInv, HasLog, Contents, Settled

LEMMA LineInitImplements == Init => Line!LineInit /\ LineTold(Settled)
<1> SUFFICES ASSUME Init PROVE Line!LineInit /\ LineTold(Settled)
  OBVIOUS
<1>1. Settled = <<>>
  BY DEF Init, Settled
<1> QED BY <1>1, LineToldBlank DEF Line!LineInit

LEMMA LineStepImplements ==
  ASSUME IInv, LineTold(Settled), [Next]_vars
  PROVE  LineTold(Settled)' /\ (Line!LineNext \/ UNCHANGED Line!line)
<1>1. CASE Settled' = Settled
  BY <1>1 DEF LineTold, Line!line
<1>2. CASE io # NoIO /\ Settled = io.events /\ Settled' = Append(Settled, io.event)
  <2>1. LogInv(Settled)
    BY SettledIsLog
  <2>2. Len(Settled) < LogCapacity /\ Proper(io.event) /\ Valid(Replay(Settled), io.event)
    BY <1>2, Appended DEF AppendInv
  <2> QED BY <1>2, <2>1, <2>2, EventImplements
<1> QED BY <1>1, <1>2, SettledMoves

(***************************************************************************)
(* The store implements GenerationLine: through crashes, failures and      *)
(* races, the settled events register once, spend an observation once,     *)
(* activate a behavior once, and move the route only between the parent    *)
(* and a fresh child.                                                      *)
(***************************************************************************)
THEOREM ControllerImplementsLine == Spec => LineSpec
<1>1. IInv /\ LineTold(Settled) /\ [Next]_vars
        => LineTold(Settled)' /\ [Line!LineNext]_(Line!line)
  BY LineStepImplements
<1> QED BY <1>1, LineInitImplements, ControllerInvariant, PTL
        DEF Spec, LineSpec, Line!LineSpec

===============================================================================
