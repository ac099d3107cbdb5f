--------------------------- MODULE DurabilityProofs ----------------------------
(***************************************************************************)
(* Proofs about the two components whose promises are about files that     *)
(* outlive the process: ClassIIPersistence, for any images, any length of  *)
(* history and any sequence of crashes and failed calls, and Campaign, for *)
(* any plan and any number of kills, resumptions and short writes.         *)
(*                                                                         *)
(* ClassIIPersistence.  The properties are about what recover() would      *)
(* return, which is read off two files that change one at a time.  The     *)
(* inductive invariant says how the files and the writer's token lie on    *)
(* one branch: the frames of the log are consecutive prefixes of its last, *)
(* the snapshot is on the same branch and leaves no gap below them, the    *)
(* writer is at most one append behind, and what was acknowledged lies     *)
(* under the part of the files that a power failure cannot take.           *)
(*                                                                         *)
(* Campaign.  The property is about lines that were written long ago, from *)
(* files that several wrappers wrote.  The inductive invariant follows an  *)
(* attempt through its wrapper, the files, the bounded call and the score, *)
(* and says what the driver's memory has to do with raw.jsonl.             *)
(***************************************************************************)
EXTENDS ClassIIPersistence, Campaign, SequenceTheorems, FiniteSetTheorems, TLAPS

\* s is a prefix of t, element by element.
Under(s, t) == Len(s) <= Len(t) /\ \A i \in 1..Len(s) : s[i] = t[i]
Aligned(s, t) == Under(s, t) \/ Under(t, s)

Tip(frames) == IF frames = << >> THEN << >> ELSE frames[Len(frames)]
Base == IF snapshot.exists THEN snapshot.chain ELSE << >>
LogTip == Tip(log.frames)

PersistenceTypes ==
  /\ snapshot \in {NoFile} \cup [exists: {TRUE}, chain: Seq(Images)]
  /\ acked \in {Nothing} \cup [exists: {TRUE}, chain: Seq(Images)]
  /\ log \in Logs(Seq(Seq(Images))) /\ disk \in Logs(Seq(Seq(Images)))
  /\ pc \in {"ready", "repair", "write", "sync", "truncate", "down"}
  /\ next \in Seq(Images) /\ token \in Seq(Images)
  /\ failed \in BOOLEAN /\ tainted \in BOOLEAN

\* Consecutive prefixes of the last frame.
Tower(frames) ==
  \A i \in 1..Len(frames) :
    /\ Under(frames[i], Tip(frames))
    /\ Len(frames[i]) = Len(frames[1]) + i - 1

\* The log continues the snapshot, with no gap and on its branch.
LogContinues ==
  /\ Tower(log.frames)
  /\ log.frames # << >> =>
       /\ Len(log.frames[1]) \in 1..(Len(Base) + 1)
       /\ Aligned(Base, LogTip)

\* What is sure to survive is the beginning of what is there.
DiskIsBeginning ==
  /\ Len(disk.frames) <= Len(log.frames)
  /\ \A i \in 1..Len(disk.frames) : disk.frames[i] = log.frames[i]
  /\ disk.torn => log.torn /\ disk.frames = log.frames
  /\ disk.exists \/ log.frames # << >> \/ log.torn => log.exists

\* The writer's token is recovered, or what is recovered is one append ahead.
WriterIsClose ==
  IF pc = "down"
  THEN token = << >>
  ELSE /\ Under(Base, token)
       /\ Under(token, LogTip) \/ token = Base
       /\ Len(LogTip) <= Len(token) + 1

Accepted == log.frames = << >> \/ LogTip = token
NextContinues == Len(next) = Len(token) + 1 /\ Under(token, next)

\* What holds inside a call.
CallIsWell ==
  /\ pc \in {"repair", "write"} => Accepted /\ NextContinues
  /\ pc \in {"write", "sync"} => ~log.torn
  /\ pc = "sync" => log.frames # << >> /\ LogTip = next /\ NextContinues
  /\ pc = "truncate" => snapshot = File(token) /\ acked = File(token)

\* Unless an unsynchronised frame was adopted, the snapshot and the token are
\* under every frame that a power failure may leave as the last.
UntaintedIsUnder ==
  ~tainted =>
    \A n \in 1..Len(log.frames) : n >= Len(disk.frames) =>
      /\ Under(Base, log.frames[n])
      /\ pc # "down" => Under(token, log.frames[n])

FreshIsAccepted == pc = "ready" /\ ~failed /\ ~tainted => Accepted

PersistenceInv ==
  /\ PersistenceTypes /\ LogContinues /\ DiskIsBeginning /\ WriterIsClose
  /\ CallIsWell /\ UntaintedIsUnder /\ FreshIsAccepted

\* What was acknowledged is in the snapshot, or in a log that is sure to be there.
AckedIsDurable ==
  acked.exists =>
    \/ snapshot.exists /\ Under(acked.chain, snapshot.chain)
    \/ disk.exists /\ disk.frames # << >> /\ Under(acked.chain, Tip(disk.frames))

-----------------------------------------------------------------------------
(***************************************************************************)
(* Prefixes                                                                *)
(***************************************************************************)

\* A prefix of a prefix is a prefix.
LEMMA UnderTransitive ==
  ASSUME NEW S, NEW r \in Seq(S), NEW s \in Seq(S), NEW t \in Seq(S),
         Under(r, s), Under(s, t)
  PROVE  Under(r, t)
BY DEF Under

\* A prefix of the same length is the whole.
LEMMA UnderSameLength ==
  ASSUME NEW S, NEW s \in Seq(S), NEW t \in Seq(S), Under(s, t), Len(t) <= Len(s)
  PROVE  s = t
<1>1. Len(s) = Len(t)
  BY DEF Under
<1>2. \A i \in 1..Len(s) : s[i] = t[i]
  BY DEF Under
<1> QED BY <1>1, <1>2, SeqEqual

\* Of two prefixes of one sequence, the shorter is a prefix of the longer.
LEMMA UnderOneRoof ==
  ASSUME NEW S, NEW r \in Seq(S), NEW s \in Seq(S), NEW t \in Seq(S),
         Under(r, t), Under(s, t), Len(r) <= Len(s)
  PROVE  Under(r, s)
BY DEF Under

\* The shorter of two aligned sequences is a prefix of the longer.
LEMMA AlignedShorter ==
  ASSUME NEW S, NEW s \in Seq(S), NEW t \in Seq(S), Aligned(s, t), Len(s) <= Len(t)
  PROVE  Under(s, t)
<1>1. CASE Under(s, t)
  BY <1>1
<1>2. CASE Under(t, s)
  BY <1>2, UnderSameLength DEF Under
<1> QED BY <1>1, <1>2 DEF Aligned

\* A sequence is a prefix of what is appended to it.
LEMMA AppendIsAbove ==
  ASSUME NEW S, NEW s \in Seq(S), NEW e \in S
  PROVE  /\ Append(s, e) \in Seq(S)
         /\ Len(Append(s, e)) = Len(s) + 1
         /\ Under(s, Append(s, e))
BY AppendProperties DEF Under

\* Front takes one element off.
LEMMA FrontIsBelow ==
  ASSUME NEW S, NEW s \in Seq(S), NEW c \in Seq(S), s # << >>
  PROVE  Front(s) = c <=> Under(c, s) /\ Len(s) = Len(c) + 1
<1> DEFINE f == SubSeq(s, 1, Len(s) - 1)
<1>1. Len(s) \in Nat /\ Len(s) >= 1 /\ Len(c) \in Nat
  BY EmptySeq, LenProperties
<1>2. /\ f \in Seq(S) /\ Len(f) = Len(s) - 1
      /\ \A i \in 1..(Len(s) - 1) : f[i] = s[i]
  <2>1. 1 \in Int /\ Len(s) - 1 \in Int /\ \A i \in 1..(Len(s) - 1) : s[i] \in S
    BY <1>1, ElementOfSeq
  <2> DEFINE m == Len(s) - 1
  <2>2. /\ f \in Seq(S) /\ Len(f) = IF 1 <= m THEN m - 1 + 1 ELSE 0
        /\ \A i \in 1..(m - 1 + 1) : f[i] = s[1 + i - 1]
    BY <2>1, SubSeqProperties
  <2>3. m \in Nat
    BY <1>1
  <2> HIDE DEF f, m
  <2>4. Len(f) = m /\ \A i \in 1..m : f[i] = s[i]
    BY <2>2, <2>3
  <2> QED BY <2>2, <2>4 DEF m
<1> HIDE DEF f
<1>3. f = c => Under(c, s) /\ Len(s) = Len(c) + 1
  BY <1>1, <1>2 DEF Under
<1>4. ASSUME Under(c, s), Len(s) = Len(c) + 1 PROVE f = c
  <2>1. Len(f) = Len(c)
    BY <1>1, <1>2, <1>4
  <2>2. \A i \in 1..Len(f) : f[i] = c[i]
    BY <1>1, <1>2, <1>4, <2>1 DEF Under
  <2> QED BY <1>2, <2>1, <2>2, SeqEqual
<1> QED BY <1>3, <1>4 DEF Front, f

\* Under is the library's IsPrefix.
LEMMA UnderIsPrefix ==
  ASSUME NEW S, NEW s \in Seq(S), NEW t \in Seq(S), Under(s, t)
  PROVE  IsPrefix(s, t)
<1> DEFINE a == SubSeq(s, 1, Len(s))
           b == SubSeq(t, 1, Len(s))
<1>1. Len(s) \in Nat /\ Len(t) \in Nat /\ Len(s) <= Len(t)
  BY DEF Under
<1>2. a \in Seq(S) /\ Len(a) = Len(s) /\ \A i \in 1..Len(s) : a[i] = s[i]
  BY <1>1
<1>3. b \in Seq(S) /\ Len(b) = Len(s) /\ \A i \in 1..Len(s) : b[i] = t[i]
  BY <1>1
<1>4. \A i \in 1..Len(s) : a[i] = b[i]
  BY <1>2, <1>3 DEF Under
<1>5. a = b
  BY <1>2, <1>3, <1>4, SeqEqual
<1> QED BY <1>1, <1>5 DEF IsPrefix

-----------------------------------------------------------------------------
(***************************************************************************)
(* The log and what recover() makes of it                                  *)
(***************************************************************************)

\* The elements of a log are chains, and its tip is the last of them.
LEMMA FramesAreChains ==
  ASSUME NEW f \in Seq(Seq(Images))
  PROVE  /\ Len(f) \in Nat
         /\ \A i \in 1..Len(f) : f[i] \in Seq(Images) /\ Len(f[i]) \in Nat
         /\ f # << >> => Len(f) >= 1 /\ Tip(f) = f[Len(f)]
         /\ Tip(f) \in Seq(Images) /\ Len(Tip(f)) \in Nat
<1>1. Len(f) \in Nat
  BY LenProperties
<1>2. ASSUME NEW i \in 1..Len(f) PROVE f[i] \in Seq(Images) /\ Len(f[i]) \in Nat
  BY ElementOfSeq, LenProperties
<1>3. f # << >> => Len(f) >= 1 /\ Tip(f) = f[Len(f)]
  BY EmptySeq DEF Tip
<1>4. Tip(f) \in Seq(Images)
  <2>1. CASE f = << >>
    BY <2>1, EmptySeq DEF Tip
  <2>2. CASE f # << >>
    BY <1>1, <1>2, <1>3, <2>2
  <2> QED BY <2>1, <2>2
<1> QED BY <1>1, <1>2, <1>3, <1>4, LenProperties

\* What the types say of the chains the files hold.
LEMMA TypesAreChains ==
  ASSUME PersistenceTypes
  PROVE  /\ log.frames \in Seq(Seq(Images)) /\ disk.frames \in Seq(Seq(Images))
         /\ Base \in Seq(Images) /\ Len(Base) \in Nat
         /\ LogTip \in Seq(Images) /\ Len(LogTip) \in Nat
         /\ snapshot.exists \in BOOLEAN
         /\ snapshot.exists => snapshot = File(Base)
         /\ token \in Seq(Images) /\ Len(token) \in Nat
         /\ next \in Seq(Images) /\ Len(next) \in Nat
<1>1. log.frames \in Seq(Seq(Images)) /\ disk.frames \in Seq(Seq(Images))
  BY DEF PersistenceTypes, Logs
<1>2. CASE snapshot = NoFile
  <2>1. snapshot.exists = FALSE /\ Base = << >>
    BY <1>2 DEF NoFile, Base
  <2> QED BY <1>1, <2>1, FramesAreChains, EmptySeq, LenProperties DEF LogTip, PersistenceTypes
<1>3. CASE snapshot \in [exists: {TRUE}, chain: Seq(Images)]
  <2>1. /\ snapshot.exists = TRUE /\ Base = snapshot.chain /\ Base \in Seq(Images)
        /\ snapshot = File(Base)
    BY <1>3 DEF Base, File
  <2> QED BY <1>1, <2>1, FramesAreChains, LenProperties DEF LogTip, PersistenceTypes
<1> QED BY <1>2, <1>3 DEF PersistenceTypes

\* A tower's frames lie on one branch, each one longer than the one before.
LEMMA TowerIsChained ==
  ASSUME NEW f \in Seq(Seq(Images)), Tower(f), f # << >>, Len(f[1]) >= 1
  PROVE  /\ Chained(f)
         /\ Last(f) = Tip(f)
         /\ Len(Tip(f)) = Len(f[1]) + Len(f) - 1
         /\ \A i \in 1..Len(f) : \A j \in i..Len(f) : Under(f[i], f[j])
         /\ \A i \in 1..Len(f) : f[i] # << >>
<1>1. Len(f) \in Nat /\ Len(f) >= 1 /\ Tip(f) = f[Len(f)] /\ Tip(f) \in Seq(Images)
  BY FramesAreChains
<1>2. \A i \in 1..Len(f) : f[i] \in Seq(Images) /\ Len(f[i]) \in Nat
  BY FramesAreChains
<1>3. \A i \in 1..Len(f) : Len(f[i]) = Len(f[1]) + i - 1 /\ Under(f[i], Tip(f))
  BY DEF Tower
<1>4. ASSUME NEW i \in 1..Len(f), NEW j \in i..Len(f) PROVE Under(f[i], f[j])
  <2>1. i \in 1..Len(f) /\ j \in 1..Len(f) /\ i \in Nat /\ j \in Nat /\ i <= j /\ 1 \in 1..Len(f)
    BY <1>1
  <2>2. Len(f[i]) <= Len(f[j])
    BY <1>2, <1>3, <2>1
  <2>3. f[i] \in Seq(Images) /\ f[j] \in Seq(Images) /\ Under(f[i], Tip(f)) /\ Under(f[j], Tip(f))
    BY <1>2, <1>3, <2>1
  <2> QED BY <1>1, <2>2, <2>3, UnderOneRoof
<1>5. ASSUME NEW i \in 1..Len(f) PROVE f[i] # << >>
  BY <1>1, <1>2, <1>3, EmptySeq
<1>6. ASSUME NEW i \in 2..Len(f) PROVE Front(f[i]) = f[i - 1]
  <2>1. i \in 1..Len(f) /\ i - 1 \in 1..Len(f) /\ i \in (i - 1)..Len(f) /\ 1 \in 1..Len(f)
    BY <1>1
  <2>2. Len(f[i]) = Len(f[i - 1]) + 1
    <3>1. i \in Nat
      BY <1>1
    <3>2. Len(f[1]) \in Nat
      BY <1>2, <2>1
    <3>3. Len(f[i]) = Len(f[1]) + i - 1
      BY <1>3, <2>1
    <3>4. Len(f[i - 1]) = Len(f[1]) + (i - 1) - 1
      BY <1>3, <2>1
    <3> QED BY <3>1, <3>2, <3>3, <3>4
  <2>3. f[i] \in Seq(Images) /\ f[i - 1] \in Seq(Images) /\ f[i] # << >> /\ Under(f[i - 1], f[i])
    BY <1>2, <1>4, <1>5, <2>1
  <2> QED BY <2>2, <2>3, FrontIsBelow
<1>7. Last(f) = Tip(f)
  BY <1>1 DEF Last
<1>8. Len(Tip(f)) = Len(f[1]) + Len(f) - 1
  BY <1>1, <1>3
<1> QED BY <1>4, <1>5, <1>6, <1>7, <1>8 DEF Chained

\* Replaying a log that continues a snapshot: the scan meets nothing that
\* contradicts it, and ends at the log's tip if that is beyond the snapshot.
LEMMA ReplayIs ==
  ASSUME NEW f \in Seq(Seq(Images)), NEW b \in Seq(Images), Tower(f), f # << >>,
         Len(f[1]) \in 1..(Len(b) + 1), Aligned(b, Tip(f))
  PROVE  /\ Anchored(f, b)
         /\ Replayed(f, b) = IF Len(b) < Len(Tip(f)) THEN Tip(f) ELSE b
<1> DEFINE tip == Tip(f)
           n == Len(b) + 2 - Len(f[1])
<1>1. /\ Len(f) \in Nat /\ Len(f) >= 1 /\ DOMAIN f = 1..Len(f)
      /\ tip \in Seq(Images) /\ Len(tip) \in Nat /\ Len(b) \in Nat
  BY FramesAreChains, LenProperties
<1>2. \A i \in 1..Len(f) : f[i] \in Seq(Images) /\ Len(f[i]) \in Nat
  BY FramesAreChains
<1>3. Len(f[1]) \in Nat /\ Len(f[1]) >= 1 /\ Len(f[1]) <= Len(b) + 1
  BY <1>1
<1>4. \A i \in 1..Len(f) : Len(f[i]) = Len(f[1]) + i - 1 /\ Under(f[i], tip)
  BY DEF Tower
<1>5. Last(f) = tip /\ Len(tip) = Len(f[1]) + Len(f) - 1 /\ \A i \in 1..Len(f) : f[i] # << >>
  BY <1>3, TowerIsChained
<1> HIDE DEF tip
<1>6. \A i \in 1..Len(f) : Continues(f, i, b) <=> Under(b, f[i]) /\ Len(f[i]) = Len(b) + 1
  BY <1>2, <1>5, FrontIsBelow DEF Continues
<1>7. Len(b) < Len(tip) => Under(b, tip)
  BY <1>1, AlignedShorter DEF tip
<1>8. Len(b) >= Len(tip) => Under(tip, b)
  BY <1>1, AlignedShorter DEF tip, Aligned
<1>9. ASSUME Len(b) < Len(tip) PROVE n \in 1..Len(f) /\ Continues(f, n, b)
  <2>1. n \in 1..Len(f)
    BY <1>1, <1>3, <1>5, <1>9
  <2>2. Len(f[n]) = Len(b) + 1
    <3>1. Len(f[n]) = Len(f[1]) + n - 1
      BY <1>4, <2>1
    <3> QED BY <1>1, <1>3, <3>1
  <2>3. f[n] \in Seq(Images) /\ Under(f[n], tip) /\ Len(b) <= Len(f[n])
    BY <1>1, <1>2, <1>4, <2>1, <2>2
  <2>4. Under(b, f[n])
    BY <1>1, <1>7, <1>9, <2>3, UnderOneRoof
  <2> QED BY <1>6, <2>1, <2>2, <2>4
<1>10. ASSUME NEW i \in 1..Len(f), Len(f[i]) = Len(b) PROVE f[i] = b
  <2>1. f[i] \in Seq(Images) /\ Under(f[i], tip)
    BY <1>2, <1>4
  <2>2. Under(f[i], b)
    <3>1. CASE Len(b) < Len(tip)
      BY <1>1, <1>7, <1>10, <2>1, <3>1, UnderOneRoof
    <3>2. CASE Len(b) >= Len(tip)
      BY <1>1, <1>8, <2>1, <3>2, UnderTransitive
    <3> QED BY <1>1, <3>1, <3>2
  <2> QED BY <1>1, <1>10, <2>1, <2>2, UnderSameLength
<1>11. Anchored(f, b)
  <2>1. SUFFICES ASSUME NEW i \in 1..Len(f), \A j \in 1..i : ~Continues(f, j, b)
                 PROVE  Len(f[i]) <= Len(b) /\ (Len(f[i]) = Len(b) => f[i] = b)
    BY <1>1 DEF Anchored
  <2>2. ASSUME Len(f[i]) > Len(b) PROVE FALSE
    <3>1. Len(f[i]) = Len(f[1]) + i - 1 /\ i \in Nat /\ i <= Len(f)
      BY <1>1, <1>4
    <3>2. Len(b) < Len(tip) /\ n <= i
      BY <1>1, <1>3, <1>5, <2>2, <3>1
    <3>3. n \in 1..Len(f) /\ Continues(f, n, b)
      BY <1>9, <3>2
    <3>4. n \in 1..i
      BY <3>1, <3>2, <3>3, <1>1
    <3> QED BY <2>1, <3>3, <3>4
  <2>3. Len(f[i]) \in Nat
    BY <1>2
  <2> QED BY <1>1, <1>10, <2>2, <2>3
<1>12. (\E i \in 1..Len(f) : Continues(f, i, b)) <=> Len(b) < Len(tip)
  <2>1. ASSUME NEW i \in 1..Len(f), Continues(f, i, b) PROVE Len(b) < Len(tip)
    <3>1. Len(f[i]) = Len(b) + 1 /\ Len(f[i]) = Len(f[1]) + i - 1 /\ i \in Nat /\ i <= Len(f)
      BY <1>1, <1>4, <1>6, <2>1
    <3> QED BY <1>1, <1>3, <1>5, <3>1
  <2> QED BY <1>9, <2>1
<1> QED BY <1>1, <1>5, <1>11, <1>12 DEF Replayed, tip

\* What recover() returns: the snapshot's token, unless the log goes beyond it.
LEMMA RecoveredIs ==
  ASSUME PersistenceTypes, LogContinues
  PROVE  /\ Chained(log.frames)
         /\ log.frames # << >> => Last(log.frames) = LogTip /\ Len(LogTip) >= 1
         /\ Recovered = IF snapshot.exists \/ log.frames # << >>
                        THEN File(IF Len(Base) < Len(LogTip) THEN LogTip ELSE Base)
                        ELSE Failure
<1> DEFINE f == log.frames
<1>1. /\ f \in Seq(Seq(Images)) /\ Base \in Seq(Images) /\ Len(Base) \in Nat
      /\ snapshot.exists \in BOOLEAN
      /\ snapshot.exists => Base = snapshot.chain
      /\ ~snapshot.exists => Base = << >>
  BY TypesAreChains DEF Base
<1>2. CASE f = << >>
  <2>1. Len(f) = 0 /\ DOMAIN f = {}
    BY <1>2
  <2>2. Chained(f) /\ LogTip = << >> /\ Len(LogTip) = 0
    BY <1>2, <2>1 DEF Chained, LogTip, Tip
  <2>3. Anchored(f, Base) /\ Replayed(f, Base) = Base
    BY <2>1 DEF Anchored, Replayed
  <2> QED BY <1>1, <1>2, <2>2, <2>3 DEF Recovered
<1>3. CASE f # << >>
  <2>1. Len(f[1]) \in 1..(Len(Base) + 1) /\ Aligned(Base, Tip(f)) /\ Tower(f)
    BY <1>3 DEF LogContinues, LogTip
  <2>2. Len(f[1]) \in Nat /\ Len(f[1]) >= 1 /\ Len(f) \in Nat /\ Len(f) >= 1
    BY <1>1, <1>3, <2>1, FramesAreChains
  <2>3. Chained(f) /\ Last(f) = LogTip /\ Len(LogTip) = Len(f[1]) + Len(f) - 1
    BY <1>1, <1>3, <2>1, <2>2, TowerIsChained DEF LogTip
  <2>4. /\ Anchored(f, Base)
        /\ Replayed(f, Base) = IF Len(Base) < Len(LogTip) THEN LogTip ELSE Base
    BY <1>1, <1>3, <2>1, ReplayIs DEF LogTip
  <2>5. Len(LogTip) >= 1
    BY <2>2, <2>3
  <2>6. CASE snapshot.exists
    BY <1>1, <2>3, <2>4, <2>5, <2>6 DEF Recovered
  <2>7. CASE ~snapshot.exists
    <3>1. Base = << >>
      BY <1>1, <2>7
    <3>2. Len(Base) = 0
      BY <3>1, EmptySeq
    <3>3. Len(f[1]) <= Len(Base) + 1
      BY <1>1, <2>1
    <3>4. Len(f[1]) = 1
      <4>1. \A n \in Nat : n >= 1 /\ n <= 1 => n = 1
        OBVIOUS
      <4>2. Len(f[1]) \in Nat /\ Len(f[1]) >= 1 /\ Len(f[1]) <= 1
        BY <2>2, <3>2, <3>3
      <4> QED BY <4>1, <4>2
    <3> QED BY <1>3, <2>3, <2>5, <2>7, <3>1, <3>2, <3>4 DEF Recovered
  <2> QED BY <1>1, <2>6, <2>7
<1> QED BY <1>2, <1>3

\* A tower with one frame more.
LEMMA TowerGrows ==
  ASSUME NEW f \in Seq(Seq(Images)), NEW s \in Seq(Images), Tower(f),
         f # << >> => Len(f[1]) >= 1 /\ Under(Tip(f), s) /\ Len(s) = Len(Tip(f)) + 1
  PROVE  LET g == Append(f, s)
         IN  /\ g \in Seq(Seq(Images)) /\ g # << >> /\ Len(g) = Len(f) + 1
             /\ \A i \in 1..Len(f) : g[i] = f[i]
             /\ g[Len(f) + 1] = s /\ Tip(g) = s
             /\ g[1] = IF f = << >> THEN s ELSE f[1]
             /\ Tower(g)
<1> DEFINE g == Append(f, s)
<1>1. /\ g \in Seq(Seq(Images)) /\ g # << >> /\ Len(g) = Len(f) + 1
      /\ \A i \in 1..Len(f) : g[i] = f[i]
      /\ g[Len(f) + 1] = s
  BY AppendProperties
<1> HIDE DEF g
<1>2. Len(f) \in Nat /\ Len(s) \in Nat
  BY FramesAreChains, LenProperties
<1>3. Tip(g) = s
  BY <1>1 DEF Tip
<1>4. g[1] = IF f = << >> THEN s ELSE f[1]
  <2>1. CASE f = << >>
    BY <1>1, <2>1, EmptySeq
  <2>2. CASE f # << >>
    BY <1>1, <1>2, <2>2, FramesAreChains
  <2> QED BY <2>1, <2>2
<1>5. ASSUME NEW i \in 1..Len(g) PROVE Under(g[i], s) /\ Len(g[i]) = Len(g[1]) + i - 1
  <2>1. CASE f = << >>
    <3>1. Len(f) = 0
      BY <2>1, EmptySeq
    <3>2. i = 1 /\ g[i] = s
      BY <1>1, <3>1
    <3> QED BY <1>2, <3>2 DEF Under
  <2>2. CASE f # << >>
    <3>1. Len(f) >= 1 /\ Tip(f) \in Seq(Images) /\ Len(f[1]) \in Nat /\ g[1] = f[1]
      BY <1>1, <1>2, <1>4, <2>2, FramesAreChains
    <3>2. Len(s) = Len(f[1]) + Len(f)
      <4>1. Len(Tip(f)) = Len(f[1]) + Len(f) - 1
        BY <2>2, TowerIsChained
      <4> QED BY <1>2, <2>2, <3>1, <4>1
    <3>3. CASE i = Len(f) + 1
      <4>1. g[i] = s
        BY <1>1, <3>3
      <4> QED BY <1>2, <3>1, <3>2, <3>3, <4>1 DEF Under
    <3>4. CASE i \in 1..Len(f)
      <4>1. g[i] = f[i] /\ f[i] \in Seq(Images) /\ Under(f[i], Tip(f)) /\ Len(f[i]) = Len(f[1]) + i - 1
        BY <1>1, <3>4, FramesAreChains DEF Tower
      <4> QED BY <2>2, <3>1, <4>1, UnderTransitive
    <3> QED BY <1>1, <1>2, <3>3, <3>4
  <2> QED BY <2>1, <2>2
<1>6. Tower(g)
  BY <1>3, <1>5 DEF Tower
<1> QED BY <1>1, <1>3, <1>4, <1>6 DEF g

\* A tower cut off after its first n frames.
LEMMA TowerIsCut ==
  ASSUME NEW f \in Seq(Seq(Images)), Tower(f), f # << >> => Len(f[1]) >= 1,
         NEW n \in 0..Len(f)
  PROVE  LET g == SubSeq(f, 1, n)
         IN  /\ g \in Seq(Seq(Images)) /\ Len(g) = n
             /\ \A i \in 1..n : g[i] = f[i]
             /\ n >= 1 => Tip(g) = f[n]
             /\ n = 0 => g = << >>
             /\ Tower(g)
<1> DEFINE g == SubSeq(f, 1, n)
<1>1. Len(f) \in Nat /\ n \in Nat /\ n <= Len(f)
  BY FramesAreChains
<1>2. g \in Seq(Seq(Images)) /\ Len(g) = n /\ \A i \in 1..n : g[i] = f[i]
  <2>1. \A i \in 1..n : f[i] \in Seq(Images)
    BY <1>1, FramesAreChains
  <2>2. /\ g \in Seq(Seq(Images)) /\ Len(g) = IF 1 <= n THEN n - 1 + 1 ELSE 0
        /\ \A i \in 1..(n - 1 + 1) : g[i] = f[1 + i - 1]
    BY <1>1, <2>1, SubSeqProperties
  <2> HIDE DEF g
  <2> QED BY <1>1, <2>2
<1> HIDE DEF g
<1>3. n = 0 => g = << >>
  BY <1>2, EmptySeq
<1>4. n >= 1 => g # << >> /\ Tip(g) = f[n]
  BY <1>1, <1>2, EmptySeq DEF Tip
<1>5. ASSUME NEW i \in 1..Len(g) PROVE Under(g[i], Tip(g)) /\ Len(g[i]) = Len(g[1]) + i - 1
  <2>1. i \in 1..n /\ n >= 1 /\ n \in 1..Len(f) /\ i \in 1..Len(f) /\ n \in i..Len(f) /\ 1 \in 1..n
    BY <1>1, <1>2
  <2>2. f # << >>
    BY <1>1, <2>1, EmptySeq
  <2>3. Under(f[i], f[n])
    BY <2>1, <2>2, TowerIsChained
  <2>4. Len(f[i]) = Len(f[1]) + i - 1
    BY <2>1 DEF Tower
  <2> QED BY <1>2, <1>4, <2>1, <2>3, <2>4
<1>6. Tower(g)
  BY <1>5 DEF Tower
<1> QED BY <1>2, <1>3, <1>4, <1>6 DEF g

-----------------------------------------------------------------------------
(***************************************************************************)
(* The invariant, one action at a time                                     *)
(***************************************************************************)

\* A step that leaves the snapshot and the log's frames alone keeps their relation.
LEMMA FramesKept ==
  ASSUME snapshot' = snapshot, log'.frames = log.frames
  PROVE  Base' = Base /\ LogTip' = LogTip /\ (LogContinues => LogContinues')
BY DEF Base, LogTip, LogContinues

\* The registry that has never been made durable.
LEMMA InitIsWell == Init => PersistenceInv /\ AckedIsDurable
<1> SUFFICES ASSUME Init PROVE PersistenceInv /\ AckedIsDurable
  OBVIOUS
<1>1. << >> \in Seq(Seq(Images)) /\ << >> \in Seq(Images) /\ Len(<< >>) = 0
  BY EmptySeq
<1>2. log.frames = << >> /\ disk.frames = << >> /\ Base = << >> /\ LogTip = << >> /\ token = << >>
  BY DEF Init, NoLog, NoFile, Base, LogTip, Tip
<1>3. PersistenceTypes
  BY <1>1 DEF Init, PersistenceTypes, NoFile, Nothing, NoLog, Logs
<1>4. LogContinues
  BY <1>1, <1>2 DEF LogContinues, Tower
<1>5. DiskIsBeginning
  BY <1>1, <1>2 DEF DiskIsBeginning, Init, NoLog
<1>6. WriterIsClose
  BY <1>1, <1>2 DEF WriterIsClose, Under, Init
<1>7. CallIsWell /\ UntaintedIsUnder /\ FreshIsAccepted
  BY <1>1, <1>2 DEF CallIsWell, UntaintedIsUnder, FreshIsAccepted, Accepted, Init
<1>8. AckedIsDurable
  BY DEF AckedIsDurable, Init, Nothing
<1> QED BY <1>3, <1>4, <1>5, <1>6, <1>7, <1>8 DEF PersistenceInv

\* append_event accepts the token: the log is empty or ends at it.
LEMMA BeginAppendKeeps ==
  ASSUME PersistenceInv, NEW image \in Images, BeginAppend(image)
  PROVE  PersistenceInv'
<1> USE DEF PersistenceInv
<1>1. /\ pc = "ready" /\ pc' = (IF log.torn THEN "repair" ELSE "write")
      /\ next' = Append(token, image)
      /\ snapshot' = snapshot /\ log' = log /\ disk' = disk
      /\ token' = token /\ failed' = failed /\ acked' = acked /\ tainted' = tainted
  BY DEF BeginAppend, files
<1>2. next' \in Seq(Images) /\ Len(next') = Len(token') + 1 /\ Under(token', next')
  BY <1>1, AppendIsAbove, TypesAreChains
<1>3. Accepted
  BY RecoveredIs DEF BeginAppend, AcceptsAppend, Accepted
<1>4. Base' = Base /\ LogTip' = LogTip /\ LogContinues' /\ Accepted'
  BY <1>1, <1>3, FramesKept DEF Accepted
<1>5. PersistenceTypes'
  BY <1>1, <1>2 DEF PersistenceTypes
<1>6. DiskIsBeginning'
  BY <1>1 DEF DiskIsBeginning
<1>7. WriterIsClose'
  BY <1>1, <1>4 DEF WriterIsClose
<1>8. CallIsWell'
  BY <1>1, <1>2, <1>4 DEF CallIsWell, NextContinues
<1>9. UntaintedIsUnder' /\ FreshIsAccepted'
  BY <1>1, <1>4 DEF UntaintedIsUnder, FreshIsAccepted
<1> QED BY <1>4, <1>5, <1>6, <1>7, <1>8, <1>9

\* The torn tail is cut off and everything that is left is durable.
LEMMA RepairKeeps ==
  ASSUME PersistenceInv, Repair
  PROVE  PersistenceInv'
<1> USE DEF PersistenceInv
<1>1. /\ pc = "repair" /\ pc' = "write" /\ disk' = log'
      /\ log' = [log EXCEPT !.torn = FALSE] /\ tainted' = FALSE
      /\ snapshot' = snapshot /\ next' = next /\ token' = token
      /\ failed' = failed /\ acked' = acked
  BY DEF Repair
<1>2. log \in Logs(Seq(Seq(Images)))
  BY DEF PersistenceTypes
<1>3. /\ log'.frames = log.frames /\ log'.torn = FALSE /\ log'.exists = log.exists
      /\ disk'.frames = log.frames /\ log' \in Logs(Seq(Seq(Images)))
  BY <1>1, <1>2 DEF Logs
<1>4. Base' = Base /\ LogTip' = LogTip /\ LogContinues'
  BY <1>1, <1>3, FramesKept
<1>5. PersistenceTypes'
  BY <1>1, <1>3 DEF PersistenceTypes
<1>6. DiskIsBeginning'
  BY <1>1, <1>2, <1>3, TypesAreChains, FramesAreChains DEF DiskIsBeginning
<1>7. WriterIsClose'
  BY <1>1, <1>4 DEF WriterIsClose
<1>8. CallIsWell'
  BY <1>1, <1>3, <1>4 DEF CallIsWell, NextContinues, Accepted
<1>9. UntaintedIsUnder'
  <2>1. SUFFICES ASSUME NEW n \in 1..Len(log.frames), n >= Len(log.frames)
                 PROVE  Under(Base, log.frames[n]) /\ Under(token, log.frames[n])
    BY <1>1, <1>3, <1>4 DEF UntaintedIsUnder
  <2>2. log.frames # << >> /\ log.frames[n] = LogTip
    BY <2>1, TypesAreChains, FramesAreChains, EmptySeq DEF LogTip
  <2>3. LogTip = token
    BY <1>1, <2>2 DEF CallIsWell, Accepted
  <2> QED BY <1>1, <2>2, <2>3 DEF WriterIsClose, Under
<1>10. FreshIsAccepted'
  BY <1>1 DEF FreshIsAccepted
<1> QED BY <1>4, <1>5, <1>6, <1>7, <1>8, <1>9, <1>10

\* The frame is written after the writer's token; no fsync has covered it yet.
LEMMA WriteFrameKeeps ==
  ASSUME PersistenceInv, WriteFrame
  PROVE  PersistenceInv'
<1> USE DEF PersistenceInv
<1> DEFINE f == log.frames
           g == log'.frames
<1>1. /\ pc = "write" /\ pc' = "sync"
      /\ log' = [exists |-> TRUE, frames |-> Append(f, next), torn |-> FALSE]
      /\ snapshot' = snapshot /\ disk' = disk /\ next' = next /\ token' = token
      /\ failed' = failed /\ acked' = acked /\ tainted' = tainted
  BY DEF WriteFrame, Appended
<1>2. /\ f \in Seq(Seq(Images)) /\ Base \in Seq(Images) /\ Len(Base) \in Nat
      /\ LogTip \in Seq(Images) /\ token \in Seq(Images) /\ Len(token) \in Nat
      /\ next \in Seq(Images) /\ Len(f) \in Nat
  BY TypesAreChains, FramesAreChains
<1>3. /\ Accepted /\ Len(next) = Len(token) + 1 /\ Under(token, next) /\ ~log.torn
      /\ Under(Base, token) /\ (Under(token, LogTip) \/ token = Base)
  BY <1>1 DEF CallIsWell, NextContinues, WriterIsClose
<1>4. f # << >> => LogTip = token /\ Len(f[1]) \in Nat /\ Len(f[1]) >= 1 /\ Len(f[1]) <= Len(Base) + 1
  <2>1. f # << >> => Len(f[1]) \in 1..(Len(Base) + 1)
    BY DEF LogContinues
  <2> QED BY <1>2, <1>3, <2>1 DEF Accepted
<1>5. Tower(f)
  BY DEF LogContinues
<1>6. /\ g \in Seq(Seq(Images)) /\ g # << >> /\ Len(g) = Len(f) + 1
      /\ \A i \in 1..Len(f) : g[i] = f[i]
      /\ g[Len(f) + 1] = next /\ Tip(g) = next
      /\ g[1] = IF f = << >> THEN next ELSE f[1]
      /\ Tower(g)
  <2>1. f # << >> => Len(f[1]) >= 1 /\ Under(Tip(f), next) /\ Len(next) = Len(Tip(f)) + 1
    BY <1>3, <1>4 DEF LogTip
  <2> DEFINE h == Append(f, next)
  <2>2. /\ h \in Seq(Seq(Images)) /\ h # << >> /\ Len(h) = Len(f) + 1
        /\ \A i \in 1..Len(f) : h[i] = f[i]
        /\ h[Len(f) + 1] = next /\ Tip(h) = next
        /\ h[1] = IF f = << >> THEN next ELSE f[1]
        /\ Tower(h)
    BY <1>2, <1>5, <2>1, TowerGrows
  <2>3. g = h
    BY <1>1
  <2> HIDE DEF h
  <2> QED BY <2>2, <2>3
<1>7. Base' = Base /\ LogTip' = next /\ Under(Base, next)
  BY <1>1, <1>2, <1>3, <1>6, UnderTransitive DEF Base, LogTip
<1>8. LogContinues'
  <2>1. Len(g[1]) \in 1..(Len(Base) + 1)
    <3>1. CASE f = << >>
      <4>1. Len(token) <= Len(Base)
        <5>1. LogTip = << >>
          BY <3>1 DEF LogTip, Tip
        <5> QED BY <1>2, <1>3, <5>1, EmptySeq DEF Under
      <4>2. g[1] = next
        BY <1>6, <3>1
      <4> QED BY <1>2, <1>3, <4>1, <4>2
    <3>2. CASE f # << >>
      <4>1. g[1] = f[1]
        BY <1>6, <3>2
      <4> QED BY <1>2, <1>4, <3>2, <4>1
    <3> QED BY <3>1, <3>2
  <2> QED BY <1>6, <1>7, <2>1 DEF LogContinues, Aligned
<1>9. PersistenceTypes'
  BY <1>1, <1>6 DEF PersistenceTypes, Logs
<1>10. DiskIsBeginning'
  <2>1. Len(disk.frames) \in Nat /\ Len(disk.frames) <= Len(f)
    BY TypesAreChains, FramesAreChains DEF DiskIsBeginning
  <2>2. ASSUME NEW i \in 1..Len(disk.frames) PROVE disk.frames[i] = g[i]
    <3>1. i \in 1..Len(f)
      BY <1>2, <2>1
    <3>2. disk.frames[i] = f[i]
      BY DEF DiskIsBeginning
    <3> QED BY <1>6, <3>1, <3>2
  <2> QED BY <1>1, <1>2, <1>3, <1>6, <2>1, <2>2 DEF DiskIsBeginning
<1>11. WriterIsClose'
  BY <1>1, <1>2, <1>3, <1>7 DEF WriterIsClose
<1>12. CallIsWell'
  BY <1>1, <1>3, <1>6, <1>7 DEF CallIsWell, NextContinues
<1>13. UntaintedIsUnder'
  <2>1. SUFFICES ASSUME ~tainted, NEW n \in 1..Len(g), n >= Len(disk.frames)
                 PROVE  Under(Base, g[n]) /\ Under(token, g[n])
    BY <1>1, <1>7 DEF UntaintedIsUnder
  <2>2. CASE n = Len(f) + 1
    BY <1>3, <1>6, <1>7, <2>2
  <2>3. CASE n \in 1..Len(f)
    BY <1>1, <1>6, <2>1, <2>3 DEF UntaintedIsUnder
  <2> QED BY <1>2, <1>6, <2>2, <2>3
<1>14. FreshIsAccepted'
  BY <1>1 DEF FreshIsAccepted
<1> QED BY <1>8, <1>9, <1>10, <1>11, <1>12, <1>13, <1>14

\* A call that fails leaves the frames, the token and what is durable alone.
LEMMA FailKeeps ==
  ASSUME PersistenceInv, pc # "down", Fail, UNCHANGED files \/ Appended(log.frames, TRUE)
  PROVE  PersistenceInv'
<1> USE DEF PersistenceInv
<1>1. /\ pc' = "ready" /\ next' = << >> /\ failed' = TRUE /\ token' = token
      /\ acked' = acked /\ tainted' = tainted
      /\ snapshot' = snapshot /\ disk' = disk
      /\ log' = log \/ log' = [exists |-> TRUE, frames |-> log.frames, torn |-> TRUE]
  BY DEF Fail, files, Appended
<1>2. /\ log'.frames = log.frames /\ (log.torn => log'.torn) /\ (log.exists => log'.exists)
      /\ (log'.torn => log'.exists \/ log' = log)
      /\ log' \in Logs(Seq(Seq(Images)))
  <2>1. log \in Logs(Seq(Seq(Images)))
    BY DEF PersistenceTypes
  <2>2. CASE log' = log
    BY <2>1, <2>2
  <2>3. CASE log' = [exists |-> TRUE, frames |-> log.frames, torn |-> TRUE]
    BY <2>1, <2>3 DEF Logs
  <2> QED BY <1>1, <2>2, <2>3
<1>3. Base' = Base /\ LogTip' = LogTip /\ LogContinues'
  BY <1>1, <1>2, FramesKept
<1>4. PersistenceTypes'
  BY <1>1, <1>2, EmptySeq DEF PersistenceTypes
<1>5. DiskIsBeginning'
  BY <1>1, <1>2 DEF DiskIsBeginning
<1>6. WriterIsClose'
  BY <1>1, <1>3 DEF WriterIsClose
<1>7. CallIsWell' /\ FreshIsAccepted'
  BY <1>1 DEF CallIsWell, FreshIsAccepted
<1>8. UntaintedIsUnder'
  BY <1>1, <1>2, <1>3 DEF UntaintedIsUnder
<1> QED BY <1>3, <1>4, <1>5, <1>6, <1>7, <1>8

\* The frame is durable, and its chain is the writer's token.
LEMMA SyncFrameKeeps ==
  ASSUME PersistenceInv, SyncFrame
  PROVE  PersistenceInv'
<1> USE DEF PersistenceInv
<1>1. /\ pc = "sync" /\ pc' = "ready" /\ next' = << >> /\ token' = next /\ failed' = FALSE
      /\ acked' = File(next) /\ tainted' = FALSE /\ snapshot' = snapshot /\ log' = log
      /\ disk' = [log EXCEPT !.exists = disk.exists \/ FsyncCoversNewEntry]
  BY DEF SyncFrame, Succeed
<1>2. log \in Logs(Seq(Seq(Images))) /\ disk \in Logs(Seq(Seq(Images)))
  BY DEF PersistenceTypes
<1>3. /\ disk'.frames = log.frames /\ disk'.torn = log.torn
      /\ disk' \in Logs(Seq(Seq(Images)))
  BY <1>1, <1>2, EntryAssumption DEF Logs
<1>4. /\ Base \in Seq(Images) /\ token \in Seq(Images) /\ next \in Seq(Images)
      /\ LogTip \in Seq(Images) /\ Len(next) \in Nat /\ Len(LogTip) \in Nat
      /\ log.frames \in Seq(Seq(Images)) /\ Len(log.frames) \in Nat
  BY TypesAreChains, FramesAreChains
<1>5. /\ log.frames # << >> /\ LogTip = next /\ Under(token, next) /\ Under(Base, token)
      /\ ~log.torn /\ log.exists
  BY <1>1 DEF CallIsWell, NextContinues, WriterIsClose, DiskIsBeginning
<1>6. Base' = Base /\ LogTip' = next /\ LogContinues' /\ Under(Base, next)
  BY <1>1, <1>4, <1>5, FramesKept, UnderTransitive
<1>7. PersistenceTypes'
  BY <1>1, <1>3, <1>4, EmptySeq DEF PersistenceTypes, File
<1>8. DiskIsBeginning'
  BY <1>1, <1>3, <1>4, <1>5 DEF DiskIsBeginning
<1>9. Under(next, next)
  BY <1>4 DEF Under
<1>10. WriterIsClose' /\ CallIsWell' /\ FreshIsAccepted'
  BY <1>1, <1>4, <1>6, <1>9 DEF WriterIsClose, CallIsWell, FreshIsAccepted, Accepted
<1>11. UntaintedIsUnder'
  <2>1. SUFFICES ASSUME NEW n \in 1..Len(log.frames), n >= Len(log.frames)
                 PROVE  Under(Base, log.frames[n]) /\ Under(next, log.frames[n])
    BY <1>1, <1>3, <1>6 DEF UntaintedIsUnder
  <2>2. log.frames[n] = next
    BY <1>4, <1>5, <2>1 DEF LogTip, Tip
  <2> QED BY <1>6, <1>9, <2>2
<1> QED BY <1>6, <1>7, <1>8, <1>10, <1>11

\* A snapshot of the writer's token, for its own sake or before a truncation.
LEMMA SnapshotKeeps ==
  ASSUME PersistenceInv, WriteSnapshot \/ BeginCompact
  PROVE  PersistenceInv'
<1> USE DEF PersistenceInv
<1>1. /\ pc = "ready" /\ pc' \in {"ready", "truncate"}
      /\ snapshot' = File(token) /\ disk' = [disk EXCEPT !.exists = log.exists] /\ log' = log
      /\ acked' = File(token) /\ next' = next /\ token' = token
      /\ failed' = failed /\ tainted' = tainted
  BY DEF WriteSnapshot, BeginCompact, InstallSnapshot
<1>2. log \in Logs(Seq(Seq(Images))) /\ disk \in Logs(Seq(Seq(Images)))
  BY DEF PersistenceTypes
<1>3. /\ disk'.frames = disk.frames /\ disk'.torn = disk.torn /\ disk'.exists = log.exists
      /\ disk' \in Logs(Seq(Seq(Images)))
  BY <1>1, <1>2 DEF Logs
<1>4. /\ Base \in Seq(Images) /\ Len(Base) \in Nat /\ token \in Seq(Images) /\ Len(token) \in Nat
      /\ LogTip \in Seq(Images) /\ Len(LogTip) \in Nat
      /\ log.frames \in Seq(Seq(Images)) /\ Len(log.frames) \in Nat
  BY TypesAreChains, FramesAreChains
<1>5. Base' = token /\ LogTip' = LogTip
  BY <1>1 DEF Base, LogTip, File
<1>6. /\ Under(Base, token) /\ (Under(token, LogTip) \/ token = Base)
      /\ Len(LogTip) <= Len(token) + 1 /\ Len(Base) <= Len(token)
  BY <1>1 DEF WriterIsClose, Under
<1>7. LogContinues'
  <2>1. SUFFICES ASSUME log.frames # << >>
                 PROVE  Len(log.frames[1]) \in 1..(Len(token) + 1) /\ Aligned(token, LogTip)
    BY <1>1, <1>5 DEF LogContinues
  <2>2. Len(log.frames[1]) \in 1..(Len(Base) + 1) /\ Aligned(Base, LogTip)
    BY <2>1 DEF LogContinues
  <2>3. Len(log.frames[1]) \in 1..(Len(token) + 1)
    BY <1>4, <1>6, <2>2
  <2> QED BY <1>6, <2>2, <2>3 DEF Aligned
<1>8. PersistenceTypes'
  BY <1>1, <1>3, <1>4 DEF PersistenceTypes, File
<1>9. DiskIsBeginning'
  BY <1>1, <1>3 DEF DiskIsBeginning
<1>10. Under(token, token)
  BY <1>4 DEF Under
<1>11. WriterIsClose' /\ CallIsWell' /\ FreshIsAccepted'
  BY <1>1, <1>5, <1>6, <1>10 DEF WriterIsClose, CallIsWell, FreshIsAccepted, Accepted
<1>12. UntaintedIsUnder'
  BY <1>1, <1>3, <1>5 DEF UntaintedIsUnder
<1> QED BY <1>7, <1>8, <1>9, <1>11, <1>12

\* The snapshot holds all that the emptied log said.
LEMMA TruncateKeeps ==
  ASSUME PersistenceInv, TruncateLog
  PROVE  PersistenceInv'
<1> USE DEF PersistenceInv
<1>1. /\ pc = "truncate" /\ pc' = "ready" /\ log' = EmptyLog /\ disk' = EmptyLog
      /\ tainted' = FALSE /\ snapshot' = snapshot /\ next' = next /\ token' = token
      /\ failed' = failed /\ acked' = acked
  BY DEF TruncateLog
<1>2. << >> \in Seq(Seq(Images)) /\ Len(<< >>) = 0
  BY EmptySeq
<1>3. token \in Seq(Images) /\ Len(token) \in Nat
  BY TypesAreChains
<1>4. log'.frames = << >> /\ disk'.frames = << >> /\ log'.torn = FALSE /\ disk'.torn = FALSE
      /\ log'.exists = TRUE /\ log' \in Logs(Seq(Seq(Images))) /\ disk' \in Logs(Seq(Seq(Images)))
  BY <1>1, <1>2 DEF EmptyLog, Logs
<1>5. LogTip' = << >> /\ Base' = token
  BY <1>1, <1>4 DEF LogTip, Tip, Base, CallIsWell, File
<1>6. PersistenceTypes'
  BY <1>1, <1>4 DEF PersistenceTypes
<1>7. LogContinues' /\ DiskIsBeginning' /\ UntaintedIsUnder' /\ FreshIsAccepted' /\ CallIsWell'
  BY <1>1, <1>2, <1>4 DEF LogContinues, Tower, DiskIsBeginning, UntaintedIsUnder,
                          FreshIsAccepted, Accepted, CallIsWell
<1>8. WriterIsClose'
  BY <1>1, <1>2, <1>3, <1>5 DEF WriterIsClose, Under
<1> QED BY <1>6, <1>7, <1>8

\* A process that dies forgets its token and leaves the files alone.
LEMMA ProcessDiesKeeps ==
  ASSUME PersistenceInv, ProcessDies
  PROVE  PersistenceInv'
<1> USE DEF PersistenceInv
<1>1. /\ pc' = "down" /\ next' = << >> /\ token' = << >> /\ failed' = FALSE
      /\ snapshot' = snapshot /\ acked' = acked /\ tainted' = tainted
      /\ log' = log /\ disk' = disk
  BY DEF ProcessDies, Stop
<1>2. Base' = Base /\ LogTip' = LogTip /\ LogContinues'
  BY <1>1, FramesKept
<1>3. PersistenceTypes' /\ DiskIsBeginning'
  BY <1>1, EmptySeq DEF PersistenceTypes, DiskIsBeginning
<1>4. WriterIsClose' /\ CallIsWell' /\ FreshIsAccepted' /\ UntaintedIsUnder'
  BY <1>1, <1>2 DEF WriterIsClose, CallIsWell, FreshIsAccepted, UntaintedIsUnder
<1> QED BY <1>2, <1>3, <1>4

\* What a power failure leaves of the log: nothing, if its name was not
\* durable, or its first frames, at least those that were.
LEMMA PowerFailureLeaves ==
  ASSUME PersistenceInv, PowerFailure
  PROVE  /\ log' \in Logs(Seq(Seq(Images)))
         /\ \/ log' = NoLog /\ ~disk.exists
            \/ \E n \in Len(disk.frames)..Len(log.frames) :
                 log'.frames = SubSeq(log.frames, 1, n) /\ log'.exists = log.exists
         /\ log'.torn \/ log'.frames # << >> => log'.exists
<1> USE DEF PersistenceInv
<1>1. log \in Logs(Seq(Seq(Images))) /\ disk \in Logs(Seq(Seq(Images)))
  BY DEF PersistenceTypes
<1>2. /\ log.frames \in Seq(Seq(Images)) /\ Len(log.frames) \in Nat /\ Len(disk.frames) \in Nat
      /\ << >> \in Seq(Seq(Images))
  BY TypesAreChains, FramesAreChains, EmptySeq
<1>3. CASE log' = NoLog /\ ~disk.exists
  BY <1>2, <1>3 DEF NoLog, Logs
<1>4. CASE log' \in {left \in [exists: {log.exists}, torn: BOOLEAN,
                              frames: {SubSeq(log.frames, 1, n) :
                                         n \in Len(disk.frames)..Len(log.frames)}] :
                      IF disk.torn THEN left = log
                      ELSE left.torn => left.frames # log.frames \/ log.torn}
  <2>1. /\ log' \in [exists: {log.exists}, torn: BOOLEAN,
                     frames: {SubSeq(log.frames, 1, n) :
                                n \in Len(disk.frames)..Len(log.frames)}]
        /\ IF disk.torn THEN log' = log ELSE log'.torn => log'.frames # log.frames \/ log.torn
    BY <1>4
  <2>2. PICK n \in Len(disk.frames)..Len(log.frames) : log'.frames = SubSeq(log.frames, 1, n)
    BY <2>1
  <2>3. n \in 0..Len(log.frames)
    BY <1>2
  <2>4. log'.frames \in Seq(Seq(Images)) /\ Len(log'.frames) = n
    <3>1. Tower(log.frames) /\ (log.frames # << >> => Len(log.frames[1]) >= 1)
      BY <1>2, TypesAreChains DEF LogContinues
    <3>2. /\ SubSeq(log.frames, 1, n) \in Seq(Seq(Images))
          /\ Len(SubSeq(log.frames, 1, n)) = n
      BY <1>2, <2>3, <3>1, TowerIsCut
    <3> QED BY <2>2, <3>2
  <2>5. log' \in Logs(Seq(Seq(Images))) /\ log'.exists = log.exists
    BY <1>1, <2>1, <2>4 DEF Logs
  <2>6. log'.torn \/ log'.frames # << >> => log'.exists
    <3>1. CASE log.exists
      BY <2>5, <3>1
    <3>2. CASE ~log.exists
      <4>1. log.frames = << >> /\ ~log.torn /\ ~disk.exists
        BY <1>1, <3>2 DEF DiskIsBeginning, Logs
      <4>2. n = 0
        BY <1>2, <2>3, <4>1, EmptySeq
      <4>3. log'.frames = << >>
        BY <2>4, <4>2, EmptySeq
      <4>4. ~disk.torn
        BY <4>1 DEF DiskIsBeginning
      <4>5. ~log'.torn
        BY <2>1, <4>1, <4>3, <4>4
      <4> QED BY <4>3, <4>5
    <3> QED BY <3>1, <3>2
  <2> QED BY <2>2, <2>5, <2>6
<1> QED BY <1>3, <1>4 DEF PowerFailure, AfterPowerFailure

\* The frames that survive still continue the snapshot.
LEMMA PowerFailureKeeps ==
  ASSUME PersistenceInv, PowerFailure
  PROVE  PersistenceInv'
<1> USE DEF PersistenceInv
<1> DEFINE f == log.frames
           g == log'.frames
<1>1. /\ pc' = "down" /\ next' = << >> /\ token' = << >> /\ failed' = FALSE
      /\ snapshot' = snapshot /\ acked' = acked /\ tainted' = tainted /\ disk' = log'
  BY DEF PowerFailure, Stop
<1>2. /\ f \in Seq(Seq(Images)) /\ Base \in Seq(Images) /\ Len(Base) \in Nat
      /\ LogTip \in Seq(Images) /\ Len(LogTip) \in Nat /\ Len(f) \in Nat /\ Len(disk.frames) \in Nat
  BY TypesAreChains, FramesAreChains
<1>3. Tower(f) /\ (f # << >> => Len(f[1]) \in 1..(Len(Base) + 1) /\ Len(f[1]) >= 1 /\ Aligned(Base, LogTip))
  BY <1>2 DEF LogContinues
<1>4. Base' = Base
  BY <1>1 DEF Base
<1>5. log' \in Logs(Seq(Seq(Images))) /\ (log'.torn \/ g # << >> => log'.exists)
  BY PowerFailureLeaves
<1>6. PersistenceTypes' /\ DiskIsBeginning'
  <2>1. g \in Seq(Seq(Images))
    BY <1>5 DEF Logs
  <2>2. Len(g) \in Nat
    BY <2>1, FramesAreChains
  <2>3. PersistenceTypes'
    BY <1>1, <1>5, EmptySeq DEF PersistenceTypes
  <2>4. disk'.frames = g /\ (disk'.torn => log'.torn) /\ (disk'.exists => log'.exists)
    BY <1>1
  <2>5. Len(disk'.frames) <= Len(g)
    BY <2>2, <2>4
  <2> QED BY <1>5, <2>3, <2>4, <2>5 DEF DiskIsBeginning
<1>7. WriterIsClose' /\ CallIsWell' /\ FreshIsAccepted'
  BY <1>1 DEF WriterIsClose, CallIsWell, FreshIsAccepted
<1>8. CASE g = << >>
  <2>1. Len(g) = 0
    BY <1>8, EmptySeq
  <2> QED BY <1>1, <1>6, <1>7, <1>8, <2>1 DEF LogContinues, Tower, UntaintedIsUnder
<1>9. CASE g # << >>
  <2>1. PICK n \in Len(disk.frames)..Len(f) : g = SubSeq(f, 1, n)
    BY <1>9, PowerFailureLeaves DEF NoLog
  <2>2. n \in 0..Len(f)
    BY <1>2
  <2>3. /\ Len(g) = n /\ \A i \in 1..n : g[i] = f[i]
        /\ n >= 1 => Tip(g) = f[n]
        /\ n = 0 => g = << >>
        /\ Tower(g)
    BY <1>2, <1>3, <2>1, <2>2, TowerIsCut
  <2>4. n \in 1..Len(f) /\ f # << >> /\ Tip(g) = f[n] /\ g[1] = f[1] /\ g[n] = f[n]
    BY <1>2, <1>9, <2>2, <2>3, EmptySeq
  <2>5. f[n] \in Seq(Images) /\ Len(f[n]) \in Nat /\ Under(f[n], LogTip)
    BY <1>2, <1>3, <2>4, FramesAreChains DEF Tower, LogTip
  <2>6. Aligned(Base, f[n])
    <3>1. CASE Under(Base, LogTip) /\ Len(Base) <= Len(f[n])
      BY <1>2, <2>5, <3>1, UnderOneRoof DEF Aligned
    <3>2. CASE Under(Base, LogTip) /\ Len(f[n]) <= Len(Base)
      BY <1>2, <2>5, <3>2, UnderOneRoof DEF Aligned
    <3>3. CASE Under(LogTip, Base)
      BY <1>2, <2>5, <3>3, UnderTransitive DEF Aligned
    <3> QED BY <1>2, <1>3, <2>4, <2>5, <3>1, <3>2, <3>3 DEF Aligned
  <2>7. LogContinues'
    BY <1>3, <1>4, <2>3, <2>4, <2>6 DEF LogContinues, LogTip
  <2>8. UntaintedIsUnder'
    <3>1. SUFFICES ASSUME ~tainted, NEW m \in 1..Len(g), m >= Len(g)
                   PROVE  Under(Base, g[m])
      BY <1>1, <1>4 DEF UntaintedIsUnder
    <3>2. m = n /\ n >= Len(disk.frames)
      BY <1>2, <2>3, <2>4, <3>1
    <3>3. Under(Base, f[n])
      BY <2>4, <3>1, <3>2 DEF UntaintedIsUnder
    <3> QED BY <2>4, <3>2, <3>3
  <2> QED BY <1>6, <1>7, <2>7, <2>8
<1> QED BY <1>8, <1>9

\* What recovery returns, and how it lies to the snapshot and to the log.
LEMMA RecoveredLies ==
  ASSUME PersistenceInv, Recovered.exists
  PROVE  /\ Recovered = File(Recovered.chain)
         /\ Recovered.chain \in Seq(Images) /\ Len(Recovered.chain) \in Nat
         /\ snapshot.exists \/ log.frames # << >>
         /\ \/ /\ Recovered.chain = LogTip /\ log.frames # << >>
               /\ Len(Base) < Len(LogTip) /\ Under(Base, LogTip)
            \/ /\ Recovered.chain = Base /\ snapshot.exists
               /\ Len(LogTip) <= Len(Base) /\ Under(LogTip, Base)
<1> USE DEF PersistenceInv
<1>1. /\ Base \in Seq(Images) /\ Len(Base) \in Nat /\ snapshot.exists \in BOOLEAN
      /\ LogTip \in Seq(Images) /\ Len(LogTip) \in Nat
  BY TypesAreChains
<1>2. /\ snapshot.exists \/ log.frames # << >>
      /\ Recovered = File(IF Len(Base) < Len(LogTip) THEN LogTip ELSE Base)
      /\ log.frames # << >> => Len(LogTip) >= 1
  BY RecoveredIs DEF Failure
<1>3. /\ Recovered = File(Recovered.chain)
      /\ Recovered.chain = IF Len(Base) < Len(LogTip) THEN LogTip ELSE Base
  BY <1>2 DEF File
<1>4. log.frames = << >> => LogTip = << >> /\ Len(LogTip) = 0 /\ Under(LogTip, Base)
  BY <1>1, EmptySeq DEF LogTip, Tip, Under
<1>5. log.frames # << >> => Aligned(Base, LogTip)
  BY DEF LogContinues
<1>6. CASE Len(Base) < Len(LogTip)
  <2>1. log.frames # << >>
    BY <1>1, <1>4, <1>6
  <2>2. Under(Base, LogTip)
    BY <1>1, <1>5, <1>6, <2>1, AlignedShorter
  <2> QED BY <1>1, <1>2, <1>3, <1>6, <2>1, <2>2
<1>7. CASE Len(LogTip) <= Len(Base)
  <2>1. Under(LogTip, Base)
    BY <1>1, <1>4, <1>5, <1>7, AlignedShorter DEF Aligned
  <2>2. snapshot.exists
    <3>1. CASE log.frames = << >>
      BY <1>2, <3>1
    <3>2. CASE log.frames # << >> /\ ~snapshot.exists
      <4>1. Base = << >>
        BY <3>2 DEF Base
      <4>2. Len(Base) = 0
        BY <4>1, EmptySeq
      <4> QED BY <1>1, <1>2, <1>7, <3>2, <4>2
    <3> QED BY <3>1, <3>2
  <2>3. Recovered.chain = Base
    BY <1>1, <1>3, <1>7
  <2> QED BY <1>1, <1>2, <1>3, <1>7, <2>1, <2>2, <2>3
<1> QED BY <1>1, <1>6, <1>7

\* The recovered token is the writer's, whether or not its frame is durable.
LEMMA AdoptKeeps ==
  ASSUME PersistenceInv, Adopt, pc' = "ready"
  PROVE  PersistenceInv'
<1> USE DEF PersistenceInv
<1> DEFINE r == Recovered.chain
<1>1. /\ Recovered.exists /\ token' = r /\ failed' = FALSE
      /\ tainted' = (tainted \/ log.frames # disk.frames)
      /\ acked' = (IF log = disk THEN Recovered ELSE acked)
      /\ snapshot' = snapshot /\ log' = log /\ disk' = disk /\ next' = next
  BY DEF Adopt, files
<1>2. /\ Base \in Seq(Images) /\ LogTip \in Seq(Images)
      /\ Len(Base) \in Nat /\ Len(LogTip) \in Nat
      /\ log.frames \in Seq(Seq(Images)) /\ Len(log.frames) \in Nat
  BY TypesAreChains, FramesAreChains
<1>3. /\ Recovered = File(r) /\ r \in Seq(Images)
      /\ \/ r = LogTip /\ log.frames # << >> /\ Len(Base) < Len(LogTip) /\ Under(Base, LogTip)
         \/ r = Base /\ snapshot.exists /\ Len(LogTip) <= Len(Base) /\ Under(LogTip, Base)
  BY <1>1, RecoveredLies
<1> HIDE DEF r
<1>4. Base' = Base /\ LogTip' = LogTip /\ LogContinues'
  BY <1>1, FramesKept
<1>5. PersistenceTypes'
  <2>1. acked' \in {Nothing} \cup [exists: {TRUE}, chain: Seq(Images)]
    BY <1>1, <1>3 DEF PersistenceTypes, File
  <2>2. tainted' \in BOOLEAN
    BY <1>1 DEF PersistenceTypes
  <2> QED BY <1>1, <1>3, <2>1, <2>2 DEF PersistenceTypes
<1>6. DiskIsBeginning'
  BY <1>1 DEF DiskIsBeginning
<1>7. Under(LogTip, LogTip) /\ Under(Base, Base)
  BY <1>2 DEF Under
<1>8. WriterIsClose'
  BY <1>1, <1>2, <1>3, <1>4, <1>7 DEF WriterIsClose
<1>9. CallIsWell'
  BY DEF CallIsWell
<1>10. ASSUME ~tainted' PROVE log.frames = << >> \/ (LogTip = r /\ Under(Base, LogTip))
  <2>1. ~tainted /\ log.frames = disk.frames
    BY <1>1, <1>10
  <2>2. CASE log.frames # << >>
    <3>1. Len(log.frames) \in 1..Len(log.frames) /\ LogTip = log.frames[Len(log.frames)]
      BY <1>2, <2>2, FramesAreChains DEF LogTip
    <3>2. Under(Base, LogTip)
      BY <1>2, <2>1, <3>1 DEF UntaintedIsUnder
    <3>3. r = Base /\ Len(LogTip) <= Len(Base) => LogTip = r
      BY <1>2, <3>2, UnderSameLength
    <3> QED BY <1>3, <3>2, <3>3
  <2> QED BY <2>2
<1>11. UntaintedIsUnder'
  <2>1. SUFFICES ASSUME ~tainted', NEW n \in 1..Len(log.frames), n >= Len(disk.frames)
                 PROVE  Under(Base, log.frames[n]) /\ Under(r, log.frames[n])
    BY <1>1, <1>4 DEF UntaintedIsUnder
  <2>2. log.frames # << >> /\ log.frames = disk.frames
    <3>1. log.frames # << >>
      BY <1>2, <2>1, EmptySeq
    <3>2. log.frames = disk.frames
      BY <1>1, <2>1
    <3> QED BY <3>1, <3>2
  <2>3. n = Len(log.frames) /\ log.frames[n] = LogTip
    BY <1>2, <2>1, <2>2, FramesAreChains DEF LogTip
  <2>4. LogTip = r /\ Under(Base, LogTip)
    BY <1>10, <2>1, <2>2
  <2> QED BY <1>7, <2>3, <2>4
<1>12. FreshIsAccepted'
  BY <1>1, <1>4, <1>10 DEF FreshIsAccepted, Accepted
<1> QED BY <1>4, <1>5, <1>6, <1>8, <1>9, <1>11, <1>12

\* Nothing to recover: no snapshot, no frame, and the empty token.
LEMMA StartOverKeeps ==
  ASSUME PersistenceInv, StartOver
  PROVE  PersistenceInv'
<1> USE DEF PersistenceInv
<1>1. /\ pc = "down" /\ pc' = "ready" /\ ~Recovered.exists
      /\ snapshot' = snapshot /\ log' = log /\ disk' = disk /\ next' = next /\ token' = token
      /\ failed' = failed /\ acked' = acked /\ tainted' = tainted
  BY DEF StartOver, files
<1>2. ~snapshot.exists /\ log.frames = << >>
  BY <1>1, RecoveredIs DEF File
<1>3. Base = << >> /\ LogTip = << >> /\ token = << >> /\ Len(<< >>) = 0
  BY <1>1, <1>2, EmptySeq DEF Base, LogTip, Tip, WriterIsClose
<1>4. Base' = Base /\ LogTip' = LogTip /\ LogContinues'
  BY <1>1, FramesKept
<1>5. PersistenceTypes' /\ DiskIsBeginning'
  BY <1>1 DEF PersistenceTypes, DiskIsBeginning
<1>6. WriterIsClose'
  BY <1>1, <1>3, <1>4 DEF WriterIsClose, Under
<1>7. CallIsWell' /\ UntaintedIsUnder' /\ FreshIsAccepted'
  BY <1>1, <1>2, <1>3, EmptySeq DEF CallIsWell, UntaintedIsUnder, FreshIsAccepted, Accepted
<1> QED BY <1>4, <1>5, <1>6, <1>7

\* Every step keeps the invariant.
LEMMA StepKeepsPersistence == PersistenceInv /\ [Next]_vars => PersistenceInv'
<1> SUFFICES ASSUME PersistenceInv, [Next]_vars PROVE PersistenceInv'
  OBVIOUS
<1>1. CASE \E image \in Images : BeginAppend(image)
  BY <1>1, BeginAppendKeeps
<1>2. CASE Repair
  BY <1>2, RepairKeeps
<1>3. CASE WriteFrame
  BY <1>3, WriteFrameKeeps
<1>4. CASE WriteFails \/ SyncFails \/ ReplaceFails
  BY <1>4, FailKeeps DEF WriteFails, SyncFails, ReplaceFails
<1>5. CASE SyncFrame
  BY <1>5, SyncFrameKeeps
<1>6. CASE WriteSnapshot \/ BeginCompact
  BY <1>6, SnapshotKeeps
<1>7. CASE TruncateLog
  BY <1>7, TruncateKeeps
<1>8. CASE PowerFailure
  BY <1>8, PowerFailureKeeps
<1>9. CASE ProcessDies
  BY <1>9, ProcessDiesKeeps
<1>10. CASE Restart \/ RecoverInPlace
  BY <1>10, AdoptKeeps DEF Restart, RecoverInPlace
<1>11. CASE StartOver
  BY <1>11, StartOverKeeps
<1>12. CASE UNCHANGED vars
  <2>1. Base' = Base /\ LogTip' = LogTip /\ LogContinues'
    BY <1>12, FramesKept DEF vars, PersistenceInv
  <2> QED BY <1>12, <2>1 DEF vars, PersistenceInv, PersistenceTypes, DiskIsBeginning, WriterIsClose,
                             CallIsWell, NextContinues, Accepted, UntaintedIsUnder, FreshIsAccepted
<1> QED BY <1>1, <1>2, <1>3, <1>4, <1>5, <1>6, <1>7, <1>8, <1>9, <1>10, <1>11, <1>12 DEF Next

-----------------------------------------------------------------------------
(***************************************************************************)
(* Durability: what a call reported durable survives, provided the fsync   *)
(* of a new log also covers its directory entry.                           *)
(***************************************************************************)

\* What was acknowledged is a chain.
LEMMA AckedIsChain ==
  ASSUME PersistenceTypes, acked.exists
  PROVE  acked.chain \in Seq(Images)
<1>1. CASE acked = Nothing
  <2>1. acked.exists = FALSE
    BY <1>1 DEF Nothing
  <2> QED BY <2>1
<1>2. CASE acked \in [exists: {TRUE}, chain: Seq(Images)]
  BY <1>2
<1> QED BY <1>1, <1>2 DEF PersistenceTypes

\* What is sure to survive of the log lies under its tip.
LEMMA DiskTipIsUnder ==
  ASSUME PersistenceInv, disk.frames # << >>
  PROVE  /\ log.frames # << >> /\ Len(disk.frames) \in 1..Len(log.frames)
         /\ Tip(disk.frames) \in Seq(Images)
         /\ \A n \in Len(disk.frames)..Len(log.frames) : Under(Tip(disk.frames), log.frames[n])
         /\ Under(Tip(disk.frames), LogTip)
<1> DEFINE d == disk.frames
           f == log.frames
<1>1. d \in Seq(Seq(Images)) /\ f \in Seq(Seq(Images)) /\ Len(Base) \in Nat
  BY TypesAreChains DEF PersistenceInv
<1>2. /\ Len(d) \in Nat /\ Len(f) \in Nat /\ Len(d) >= 1 /\ Tip(d) = d[Len(d)]
      /\ Tip(d) \in Seq(Images)
  BY <1>1, FramesAreChains
<1>3. Len(d) <= Len(f) /\ d[Len(d)] = f[Len(d)]
  <2>1. Len(d) \in 1..Len(d)
    BY <1>2
  <2> QED BY <2>1 DEF PersistenceInv, DiskIsBeginning
<1>4. Len(d) \in 1..Len(f)
  BY <1>2, <1>3
<1>5. f # << >>
  BY <1>2, <1>4, EmptySeq
<1>6. Tower(f) /\ Len(f[1]) >= 1
  BY <1>1, <1>5 DEF PersistenceInv, LogContinues
<1>7. \A n \in Len(d)..Len(f) : Under(f[Len(d)], f[n])
  BY <1>1, <1>4, <1>5, <1>6, TowerIsChained
<1>8. Len(f) \in Len(d)..Len(f) /\ LogTip = f[Len(f)]
  BY <1>1, <1>2, <1>3, <1>5, FramesAreChains DEF LogTip
<1> QED BY <1>2, <1>3, <1>4, <1>5, <1>7, <1>8

\* A power failure takes nothing that was acknowledged.
LEMMA PowerFailureKeepsAcked ==
  ASSUME PersistenceInv, AckedIsDurable, PowerFailure
  PROVE  AckedIsDurable'
<1>1. snapshot' = snapshot /\ acked' = acked /\ disk' = log'
  BY DEF PowerFailure, Stop
<1>2. CASE ~acked.exists
  BY <1>1, <1>2 DEF AckedIsDurable
<1>3. CASE snapshot.exists /\ Under(acked.chain, snapshot.chain)
  BY <1>1, <1>3 DEF AckedIsDurable
<1>4. CASE acked.exists /\ disk.exists /\ disk.frames # << >> /\ Under(acked.chain, Tip(disk.frames))
  <2>1. PICK n \in Len(disk.frames)..Len(log.frames) :
            log'.frames = SubSeq(log.frames, 1, n) /\ log'.exists = log.exists
    BY <1>4, PowerFailureLeaves
  <2>2. /\ log.frames \in Seq(Seq(Images)) /\ Len(log.frames) \in Nat /\ Len(Base) \in Nat
        /\ \A i \in 1..Len(log.frames) : log.frames[i] \in Seq(Images)
    BY TypesAreChains, FramesAreChains DEF PersistenceInv
  <2>3. /\ Len(disk.frames) \in 1..Len(log.frames) /\ log.frames # << >>
        /\ Tip(disk.frames) \in Seq(Images) /\ Under(Tip(disk.frames), log.frames[n])
    BY <1>4, DiskTipIsUnder
  <2>4. n \in 0..Len(log.frames) /\ n >= 1 /\ n \in 1..Len(log.frames)
    BY <2>2, <2>3
  <2>5. Tower(log.frames) /\ Len(log.frames[1]) >= 1
    BY <2>2, <2>3 DEF PersistenceInv, LogContinues
  <2>6. Tip(SubSeq(log.frames, 1, n)) = log.frames[n] /\ Len(SubSeq(log.frames, 1, n)) = n
    BY <2>2, <2>4, <2>5, TowerIsCut
  <2>7. Tip(log'.frames) = log.frames[n] /\ log'.frames # << >>
    BY <2>1, <2>4, <2>6, EmptySeq
  <2>8. acked.chain \in Seq(Images)
    BY <1>4, AckedIsChain DEF PersistenceInv
  <2>9. Under(acked.chain, Tip(log'.frames))
    BY <1>4, <2>2, <2>3, <2>4, <2>7, <2>8, UnderTransitive
  <2>10. log.exists
    BY <2>3 DEF PersistenceInv, DiskIsBeginning
  <2> QED BY <1>1, <2>1, <2>7, <2>9, <2>10 DEF AckedIsDurable
<1> QED BY <1>2, <1>3, <1>4 DEF AckedIsDurable

\* Every step keeps what was acknowledged durable.
LEMMA StepKeepsAcked ==
  ASSUME FsyncCoversNewEntry = TRUE, PersistenceInv, AckedIsDurable, [Next]_vars
  PROVE  AckedIsDurable'
<1>1. /\ acked \in {Nothing} \cup [exists: {TRUE}, chain: Seq(Images)]
      /\ log \in Logs(Seq(Seq(Images))) /\ disk \in Logs(Seq(Seq(Images)))
      /\ token \in Seq(Images) /\ next \in Seq(Images)
      /\ log.frames \in Seq(Seq(Images)) /\ LogTip \in Seq(Images) /\ Base \in Seq(Images)
  BY TypesAreChains DEF PersistenceInv, PersistenceTypes
<1>2. acked.exists => acked.chain \in Seq(Images)
  BY AckedIsChain DEF PersistenceInv
<1>3. Under(token, token) /\ Under(next, next) /\ Under(LogTip, LogTip) /\ Under(Base, Base)
  BY <1>1 DEF Under
<1>4. disk.exists /\ disk.frames # << >> => log.exists /\ log.frames # << >>
  BY DiskTipIsUnder DEF PersistenceInv, DiskIsBeginning
<1>5. ASSUME acked' = acked, snapshot' = snapshot, disk' = disk PROVE AckedIsDurable'
  BY <1>5 DEF AckedIsDurable
<1>6. CASE \/ \E image \in Images : BeginAppend(image)
          \/ WriteFrame \/ WriteFails \/ SyncFails \/ ReplaceFails
          \/ ProcessDies \/ StartOver \/ UNCHANGED vars
  BY <1>5, <1>6 DEF BeginAppend, WriteFrame, WriteFails, SyncFails, ReplaceFails, Fail, Appended,
                    ProcessDies, Stop, StartOver, files, vars
<1>7. CASE Repair
  <2>1. acked' = acked /\ snapshot' = snapshot /\ disk'.frames = log.frames /\ disk'.exists = log.exists
    BY <1>1, <1>7 DEF Repair, Logs
  <2>2. ASSUME acked.exists, disk.exists, disk.frames # << >>, Under(acked.chain, Tip(disk.frames))
        PROVE  Under(acked.chain, Tip(log.frames))
    BY <1>1, <1>2, <2>2, DiskTipIsUnder, UnderTransitive DEF LogTip
  <2> QED BY <1>4, <2>1, <2>2 DEF AckedIsDurable
<1>8. CASE SyncFrame
  <2>1. acked' = File(next) /\ disk'.frames = log.frames /\ disk'.exists = TRUE
    BY <1>1, <1>8 DEF SyncFrame, Succeed, Logs
  <2>2. log.frames # << >> /\ Tip(log.frames) = next
    BY <1>8 DEF PersistenceInv, CallIsWell, SyncFrame, LogTip
  <2> QED BY <1>3, <2>1, <2>2 DEF AckedIsDurable, File
<1>9. CASE WriteSnapshot \/ BeginCompact
  <2>1. acked' = File(token) /\ snapshot' = File(token)
    BY <1>9 DEF WriteSnapshot, BeginCompact, InstallSnapshot
  <2> QED BY <1>3, <2>1 DEF AckedIsDurable, File
<1>10. CASE TruncateLog
  <2>1. acked' = File(token) /\ snapshot' = File(token)
    BY <1>10 DEF TruncateLog, PersistenceInv, CallIsWell
  <2> QED BY <1>3, <2>1 DEF AckedIsDurable, File
<1>11. CASE PowerFailure
  BY <1>11, PowerFailureKeepsAcked
<1>12. CASE Restart \/ RecoverInPlace
  <2>1. /\ Recovered.exists /\ snapshot' = snapshot /\ disk' = disk
        /\ acked' = IF log = disk THEN Recovered ELSE acked
    BY <1>12 DEF Restart, RecoverInPlace, Adopt, files
  <2>2. CASE log # disk
    BY <1>5, <2>1, <2>2
  <2>3. CASE log = disk
    <3>1. acked' = File(Recovered.chain)
      BY <2>1, <2>3, RecoveredLies
    <3>2. CASE Recovered.chain = LogTip /\ log.frames # << >>
      <4>1. log.exists
        BY <3>2 DEF PersistenceInv, DiskIsBeginning
      <4>2. acked'.chain = Tip(disk'.frames)
        BY <2>1, <2>3, <3>1, <3>2 DEF LogTip, File
      <4>3. Under(acked'.chain, Tip(disk'.frames))
        BY <1>3, <2>1, <2>3, <4>2 DEF LogTip
      <4> QED BY <2>1, <2>3, <3>2, <4>1, <4>3 DEF AckedIsDurable
    <3>3. CASE Recovered.chain = Base /\ snapshot.exists
      <4>1. acked'.chain = Base /\ snapshot'.chain = Base
        BY <2>1, <3>1, <3>3 DEF Base, File
      <4> QED BY <1>3, <2>1, <3>3, <4>1 DEF AckedIsDurable
    <3> QED BY <2>1, <3>2, <3>3, RecoveredLies
  <2> QED BY <2>2, <2>3
<1> QED BY <1>6, <1>7, <1>8, <1>9, <1>10, <1>11, <1>12 DEF Next

-----------------------------------------------------------------------------
(***************************************************************************)
(* Theorems                                                                *)
(***************************************************************************)

(***************************************************************************)
(* In every reachable state the files lie on one branch: the frames of the *)
(* log are consecutive prefixes of its last, the snapshot is on their      *)
(* branch, and the writer is at most one append behind.                    *)
(***************************************************************************)
THEOREM PersistenceInvariant == Spec => []PersistenceInv
<1>1. Init => PersistenceInv
  BY InitIsWell
<1> QED BY <1>1, StepKeepsPersistence, PTL DEF Spec

(***************************************************************************)
(* recover() never leaves the writer's history: while a writer runs, what  *)
(* its files give back is its own token or that token and the one append   *)
(* that was in flight.                                                     *)
(***************************************************************************)
THEOREM RecoveryStays == Spec => []RecoveryStaysOnBranch
<1>1. ASSUME PersistenceInv PROVE RecoveryStaysOnBranch
  <2>1. SUFFICES ASSUME pc # "down", Recovered.exists
                 PROVE  /\ IsPrefix(token, Recovered.chain)
                        /\ Len(Recovered.chain) <= Len(token) + 1
    BY DEF RecoveryStaysOnBranch
  <2> DEFINE r == Recovered.chain
  <2>2. /\ Base \in Seq(Images) /\ LogTip \in Seq(Images) /\ token \in Seq(Images)
        /\ Len(Base) \in Nat /\ Len(LogTip) \in Nat /\ Len(token) \in Nat
    BY <1>1, TypesAreChains DEF PersistenceInv
  <2>3. /\ r \in Seq(Images)
        /\ \/ r = LogTip /\ Under(Base, LogTip)
           \/ r = Base /\ Under(LogTip, Base)
    BY <1>1, <2>1, RecoveredLies
  <2> HIDE DEF r
  <2>4. /\ Under(Base, token) /\ (Under(token, LogTip) \/ token = Base)
        /\ Len(LogTip) <= Len(token) + 1 /\ Len(Base) <= Len(token)
    BY <1>1, <2>1 DEF PersistenceInv, WriterIsClose, Under
  <2>5. Under(token, r)
    BY <2>2, <2>3, <2>4, UnderTransitive DEF Under
  <2>6. Len(r) <= Len(token) + 1
    BY <2>2, <2>3, <2>4
  <2> QED BY <2>2, <2>3, <2>5, <2>6, UnderIsPrefix DEF r
<1> QED BY <1>1, PersistenceInvariant, PTL

(***************************************************************************)
(* A writer that has seen no failure since it obtained its token is never  *)
(* refused by append_event, whatever compactions and crashes came before.  *)
(***************************************************************************)
THEOREM FreshTokensStayAccepted == Spec => []FreshTokenIsAccepted
<1>1. ASSUME PersistenceInv PROVE FreshTokenIsAccepted
  BY <1>1, RecoveredIs DEF PersistenceInv, FreshIsAccepted, FreshTokenIsAccepted, Accepted, AcceptsAppend
<1> QED BY <1>1, PersistenceInvariant, PTL

(***************************************************************************)
(* Where the fsync of a new log makes its name durable as well, recovery   *)
(* succeeds in every state a crash can leave, extends every token that was *)
(* reported durable, and never leaves the writer's history.                *)
(***************************************************************************)
THEOREM RecoveryStaysFaithful ==
  ASSUME FsyncCoversNewEntry = TRUE
  PROVE  Spec => []RecoveryIsFaithful
<1>1. Init => PersistenceInv /\ AckedIsDurable
  BY InitIsWell
<1>2. PersistenceInv /\ AckedIsDurable /\ [Next]_vars => (PersistenceInv /\ AckedIsDurable)'
  BY StepKeepsPersistence, StepKeepsAcked
<1>3. ASSUME PersistenceInv, AckedIsDurable PROVE RecoveryKeepsAcked
  <2>1. SUFFICES ASSUME acked.exists
                 PROVE  Recovered.exists /\ IsPrefix(acked.chain, Recovered.chain)
    BY DEF RecoveryKeepsAcked
  <2>2. /\ Base \in Seq(Images) /\ LogTip \in Seq(Images) /\ acked.chain \in Seq(Images)
        /\ snapshot.exists => Base = snapshot.chain
    BY <1>3, <2>1, TypesAreChains, AckedIsChain DEF PersistenceInv, Base
  <2>3. snapshot.exists \/ log.frames # << >>
    BY <1>3, <2>1, DiskTipIsUnder DEF AckedIsDurable
  <2>4. Recovered.exists
    BY <1>3, <2>3, RecoveredIs DEF PersistenceInv, File
  <2>5. /\ Recovered.chain \in Seq(Images)
        /\ \/ Recovered.chain = LogTip /\ Under(Base, LogTip)
           \/ Recovered.chain = Base /\ Under(LogTip, Base)
    BY <1>3, <2>4, RecoveredLies
  <2>6. Under(Base, Base) /\ Under(LogTip, LogTip)
    BY <2>2 DEF Under
  <2>7. Under(acked.chain, Base) \/ Under(acked.chain, LogTip)
    <3>1. CASE snapshot.exists /\ Under(acked.chain, snapshot.chain)
      BY <2>2, <3>1
    <3>2. CASE disk.frames # << >> /\ Under(acked.chain, Tip(disk.frames))
      BY <1>3, <2>2, <3>2, DiskTipIsUnder, UnderTransitive
    <3> QED BY <1>3, <2>1, <3>1, <3>2 DEF AckedIsDurable
  <2>8. Under(acked.chain, Recovered.chain)
    BY <2>2, <2>5, <2>6, <2>7, UnderTransitive
  <2> QED BY <2>2, <2>4, <2>5, <2>8, UnderIsPrefix
<1>4. Spec => []RecoveryKeepsAcked
  BY <1>1, <1>2, <1>3, PTL DEF Spec
<1> QED BY <1>4, RecoveryStays, PTL DEF RecoveryIsFaithful

-----------------------------------------------------------------------------
(* Campaign. *)

LastSplit == Cardinality(Splits)

Files   == {Absent, Torn} \union [by : Executables \union {"incumbent"}, attempt : Nat]
Workers == [at : {"check", "launch", "write", "flush", "recheck", "verify"}, run : Runs,
            by : Executables \union {"incumbent"}, attempt : Nat, split : Nat]
Records == [run : Runs, ok : BOOLEAN, metrics : Seq(Files), attempt : Nat]
Drivers == [at : {"off", "plan", "read", "next", "call", "score", "finished", "refused"},
            done : SUBSET Runs, run : Runs \union {0}, claim : Claims, failure : BOOLEAN,
            scored : Seq(Files)]

CampaignTypes ==
  /\ exe \in Executables /\ plan \in Executables \union {"unset"}
  /\ raw \in Seq(Records \union {Malformed})
  /\ unended \in BOOLEAN /\ (unended => raw # <<>>) /\ summary \in BOOLEAN
  /\ predictions \in [Runs -> [Splits -> Files]]
  /\ driver \in Drivers
  /\ wrappers \in [{"own", "orphan"} -> Workers \union {Idle}]
  /\ kills \in Nat /\ cuts \in Nat /\ orphaned \subseteq Runs

Own == wrappers["own"]

\* A rebuilt executable stays; nothing is recorded before there is a plan.
PlanHolds ==
  /\ plan = "rebuilt" => exe = "rebuilt"
  /\ raw # <<>> \/ driver.at \in {"read", "next", "call", "score"} => plan # "unset"

\* What the driver remembers is what raw.jsonl says, but for lines cut short.
DriverKnows ==
  /\ driver.at \in {"next", "call", "score"} =>
       /\ Recorded \subseteq driver.done \union {0}
       /\ Malformed \notin Lines => Recorded = driver.done
  /\ driver.at \in {"call", "score"} => driver.run \in Runs \ driver.done
  /\ driver.at \in {"plan", "read", "next", "call"} => driver.scored = <<>> /\ ~driver.failure
  /\ summary => driver.at = "finished"

\* Nobody but an orphan writes to a run's files behind the driver's back.
CallHolds ==
  /\ call = "running" => driver.at = "call"
  /\ Own # Idle => call = "running" /\ child = "alive" /\ Own.run = driver.run
                   /\ Own.attempt = Attempt
  /\ driver.claim = "ok" => call = "running" /\ child = "exited"
  /\ wrappers["orphan"] # Idle => wrappers["orphan"].run \in orphaned

\* How far the wrapper has come, and by what program.
WrapperHolds ==
  Own # Idle =>
    /\ Own.split \in 1..(LastSplit + 1)
    /\ Own.at \in {"check", "launch"} => Own.split = 1
    /\ Own.at = "flush" => Own.split \in Splits
    /\ Own.at \in {"recheck", "verify"} => Own.split = LastSplit + 1
    /\ Own.at \in {"check", "launch", "recheck", "verify"} => Own.run \in Native
    /\ Own.at = "verify" => Own.by = plan
    /\ Own.run \in Native /\ Own.at \in {"write", "flush", "recheck"} =>
         Own.by = plan \/ exe # plan
    /\ Own.run \notin Native => Own.by = "incumbent"
    /\ Own.run \notin orphaned =>
         \A s \in Splits : s < Own.split => predictions[Own.run][s] = Made(Own.by, Attempt)

Maker(r) == IF r \in Native THEN plan ELSE "incumbent"

\* A wrapper that says "ok" has written every split.
Delivered ==
  driver.run \notin orphaned =>
    \A s \in Splits : predictions[driver.run][s] = Made(Maker(driver.run), Attempt)

ScoresHold ==
  /\ driver.claim = "ok" => Delivered
  /\ driver.at = "score" /\ ~driver.failure =>
       /\ Delivered /\ Len(driver.scored) <= LastSplit
       /\ driver.run \notin orphaned =>
            \A i \in 1..Len(driver.scored) : driver.scored[i] = Made(Maker(driver.run), Attempt)

CampaignInv ==
  /\ CampaignTypes /\ PlanHolds /\ DriverKnows /\ CallHolds /\ WrapperHolds /\ ScoresHold
  /\ RecordsAreEarned
-----------------------------------------------------------------------------
LEMMA SplitsAre == LastSplit \in Nat /\ Splits = 1..LastSplit
  BY CampaignAssumption, FS_CardinalityType DEF LastSplit

\* A wrapper that works is a record of all its fields.
LEMMA WorkingIs ==
  ASSUME CampaignTypes, NEW w \in {"own", "orphan"}
  PROVE  /\ wrappers[w] # Idle <=> wrappers[w] \in Workers
         /\ wrappers[w] = Idle => wrappers[w].at = "gone"
<1>1. Idle.at = "gone" /\ Idle \notin Workers
  BY DEF Idle, Workers
<1> QED BY <1>1 DEF CampaignTypes

\* What has been recorded stays what it was.
LEMMA EarnedStays ==
  ASSUME RecordsAreEarned, raw' = raw, summary' = summary, orphaned \subseteq orphaned',
         plan' = plan \/ raw = <<>>
  PROVE  RecordsAreEarned'
<1>1. Lines' = Lines /\ Recorded' = Recorded
  BY DEF Lines, Recorded
<1>2. Once'
  BY <1>1 DEF RecordsAreEarned, Once
<1>3. Earned'
  <2>1. CASE plan' = plan
    BY <1>1, <2>1 DEF RecordsAreEarned, Earned
  <2>2. CASE raw = <<>>
    <3>1. Lines = {}
      BY <2>2 DEF Lines
    <3> QED BY <1>1, <3>1 DEF Earned
  <2> QED BY <2>1, <2>2
<1> QED BY <1>2, <1>3 DEF RecordsAreEarned

\* The wrapper and its files are left alone.
LEMMA WrapperStays ==
  ASSUME WrapperHolds, UNCHANGED <<predictions, wrappers, plan, exe, kills, orphaned>>
  PROVE  WrapperHolds'
BY DEF WrapperHolds, Own, Attempt

LEMMA InitHolds == CampaignInit => CampaignInv
<1> SUFFICES ASSUME CampaignInit PROVE CampaignInv
  OBVIOUS
<1> USE DEF CampaignInit
<1>1. driver \in Drivers /\ driver.at = "off" /\ driver.claim = "failed"
  <2>1. <<>> \in Seq(Files)
    OBVIOUS
  <2> QED BY <2>1 DEF NewDriver, Drivers, Claims
<1>2. Own = Idle /\ wrappers["orphan"] = Idle
  BY DEF Own
<1>3. CampaignTypes
  <2>1. raw \in Seq(Records \union {Malformed})
    OBVIOUS
  <2>2. predictions \in [Runs -> [Splits -> Files]]
    BY DEF Files
  <2>3. wrappers \in [{"own", "orphan"} -> Workers \union {Idle}]
    OBVIOUS
  <2> QED BY <1>1, <2>1, <2>2, <2>3 DEF CampaignTypes, Executables
<1>4. RecordsAreEarned
  <2>1. Lines = {}
    BY DEF Lines
  <2> QED BY <2>1 DEF RecordsAreEarned, Once, Earned
<1>5. call = "ready"
  BY DEF Bounded!CallInit
<1>6. WrapperHolds /\ CallHolds
  BY <1>1, <1>2, <1>5 DEF WrapperHolds, CallHolds
<1> QED BY <1>1, <1>3, <1>4, <1>6 DEF CampaignInv, PlanHolds, DriverKnows, ScoresHold

-----------------------------------------------------------------------------
\* main()
LEMMA ResumeHolds == CampaignInv /\ Resume => CampaignInv'
<1> SUFFICES ASSUME CampaignInv, Resume PROVE CampaignInv'
  OBVIOUS
<1> USE DEF CampaignInv
<1>1. /\ driver' \in Drivers /\ driver'.at = "plan" /\ driver'.claim = "failed"
      /\ driver'.scored = <<>> /\ ~driver'.failure
  <2>1. <<>> \in Seq(Files)
    OBVIOUS
  <2> QED BY <2>1 DEF Resume, NewDriver, Drivers, Claims
<1>2. CampaignTypes'
  BY <1>1 DEF CampaignTypes, Resume, campaignVars, boundVars
<1>3. PlanHolds' /\ DriverKnows' /\ ScoresHold'
  BY <1>1 DEF Resume, PlanHolds, DriverKnows, ScoresHold, campaignVars
<1>4. Own = Idle
  BY DEF Resume, CallHolds
<1>5. CallHolds'
  BY <1>1, <1>4 DEF Resume, CallHolds, Own, boundVars
<1>6. WrapperHolds' /\ RecordsAreEarned'
  BY WrapperStays, EarnedStays DEF Resume, campaignVars, boundVars
<1> QED BY <1>2, <1>3, <1>5, <1>6

LEMMA PublishPlanHolds == CampaignInv /\ PublishPlan => CampaignInv'
<1> SUFFICES ASSUME CampaignInv, PublishPlan PROVE CampaignInv'
  OBVIOUS
<1> USE DEF CampaignInv
<1>1. PICK at \in {"read", "refused"} : driver' = [driver EXCEPT !.at = at]
  BY DEF PublishPlan
<1>2. /\ driver' \in Drivers /\ driver'.at \in {"read", "refused"}
      /\ driver'.claim = driver.claim /\ driver'.failure = driver.failure
      /\ driver'.scored = driver.scored
  BY <1>1 DEF CampaignTypes, Drivers
<1>3. plan' = plan \/ (plan = "unset" /\ plan' = exe)
  BY DEF PublishPlan
<1>4. CampaignTypes'
  BY <1>2, <1>3 DEF CampaignTypes, PublishPlan, boundVars
<1>5. driver.at = "plan" /\ driver.claim # "ok"
  BY DEF PublishPlan, CallHolds
<1>6. driver'.at = "read" => plan' # "unset"
  BY <1>1, <1>5 DEF PublishPlan, CampaignTypes, Drivers, Executables
<1>7. PlanHolds' /\ DriverKnows' /\ ScoresHold'
  BY <1>2, <1>3, <1>5, <1>6 DEF PublishPlan, PlanHolds, DriverKnows, ScoresHold, CampaignTypes, Executables
<1>8. Own = Idle
  BY <1>5 DEF CallHolds
<1>9. CallHolds' /\ WrapperHolds'
  BY <1>2, <1>5, <1>8 DEF PublishPlan, CallHolds, WrapperHolds, Own, boundVars, callVars
<1>10. RecordsAreEarned'
  BY <1>3, EarnedStays DEF PublishPlan, PlanHolds, boundVars
<1> QED BY <1>4, <1>7, <1>9, <1>10

LEMMA ReadAttemptsHolds == CampaignInv /\ ReadAttempts => CampaignInv'
<1> SUFFICES ASSUME CampaignInv, ReadAttempts PROVE CampaignInv'
  OBVIOUS
<1> USE DEF CampaignInv
<1>1. driver.at = "read" /\ driver.claim # "ok" /\ Own = Idle
  BY DEF ReadAttempts, CallHolds
<1>2. /\ driver' \in Drivers /\ driver'.at \in {"next", "refused"}
      /\ driver'.claim = driver.claim /\ driver'.failure = driver.failure
      /\ driver'.scored = driver.scored
      /\ driver'.at = "next" =>
           driver'.done = Recorded /\ Recorded \subseteq Runs /\ Malformed \notin Lines
  BY DEF ReadAttempts, CampaignTypes, Drivers
<1>3. CampaignTypes'
  BY <1>2 DEF CampaignTypes, ReadAttempts, campaignVars, boundVars
<1>4. Lines' = Lines /\ Recorded' = Recorded
  BY DEF ReadAttempts, campaignVars, Lines, Recorded
<1>5. PlanHolds' /\ ScoresHold'
  BY <1>1, <1>2 DEF ReadAttempts, PlanHolds, ScoresHold, campaignVars
<1>6. DriverKnows'
  <2>1. ~summary'
    BY <1>1 DEF ReadAttempts, DriverKnows, campaignVars
  <2>2. driver'.at = "next" => driver'.scored = <<>> /\ ~driver'.failure
    BY <1>1, <1>2 DEF DriverKnows
  <2>3. driver'.at = "next" => Recorded' = driver'.done
    BY <1>2, <1>4
  <2> QED BY <1>1, <1>2, <2>1, <2>2, <2>3 DEF DriverKnows
<1>7. CallHolds'
  BY <1>1, <1>2 DEF ReadAttempts, CallHolds, Own, boundVars, callVars
<1>8. WrapperHolds' /\ RecordsAreEarned'
  BY WrapperStays, EarnedStays DEF ReadAttempts, campaignVars, boundVars
<1> QED BY <1>3, <1>5, <1>6, <1>7, <1>8
\* The first attempt that is not recorded.
LEMMA NextAttemptHolds == CampaignInv /\ NextAttempt => CampaignInv'
<1> SUFFICES ASSUME CampaignInv, NextAttempt PROVE CampaignInv'
  OBVIOUS
<1> USE DEF CampaignInv
<1>1. PICK r \in Runs \ driver.done : driver' = [driver EXCEPT !.at = "call", !.run = r]
  BY DEF NextAttempt, Remaining
<1>2. driver.at = "next" /\ driver.claim # "ok" /\ Own = Idle
  BY DEF NextAttempt, CallHolds
<1>3. /\ driver' \in Drivers /\ driver'.at = "call" /\ driver'.run = r
      /\ driver'.done = driver.done /\ driver'.claim = driver.claim
      /\ driver'.failure = driver.failure /\ driver'.scored = driver.scored
  BY <1>1 DEF CampaignTypes, Drivers
<1>4. CampaignTypes'
  BY <1>3 DEF CampaignTypes, NextAttempt, campaignVars, boundVars
<1>5. Lines' = Lines /\ Recorded' = Recorded
  BY DEF NextAttempt, campaignVars, Lines, Recorded
<1>6. PlanHolds' /\ ScoresHold'
  BY <1>2, <1>3 DEF NextAttempt, PlanHolds, ScoresHold, campaignVars
<1>7. DriverKnows'
  BY <1>1, <1>2, <1>3, <1>5 DEF NextAttempt, DriverKnows, campaignVars
<1>8. CallHolds'
  BY <1>2, <1>3 DEF NextAttempt, CallHolds, Own, boundVars, callVars
<1>9. WrapperHolds' /\ RecordsAreEarned'
  BY WrapperStays, EarnedStays DEF NextAttempt, campaignVars, boundVars
<1> QED BY <1>4, <1>6, <1>7, <1>8, <1>9

\* Nothing remains, and no line is malformed: raw.jsonl holds the plan's runs.
LEMMA SummarizeHolds == CampaignInv /\ Summarize => CampaignInv'
<1> SUFFICES ASSUME CampaignInv, Summarize PROVE CampaignInv'
  OBVIOUS
<1> USE DEF CampaignInv
<1>1. driver.at = "next" /\ driver.claim # "ok" /\ Own = Idle
  BY DEF Summarize, CallHolds
<1>2. /\ driver' \in Drivers /\ driver'.at \in {"refused", "finished"}
      /\ driver'.claim = driver.claim
      /\ summary' \in BOOLEAN /\ (summary' => driver'.at = "finished" /\ Malformed \notin Lines)
  <2>1. ~summary
    BY <1>1 DEF DriverKnows
  <2> QED BY <2>1 DEF Summarize, CampaignTypes, Drivers
<1>3. CampaignTypes'
  BY <1>2 DEF CampaignTypes, Summarize, boundVars
<1>4. PlanHolds' /\ ScoresHold'
  BY <1>1, <1>2 DEF Summarize, PlanHolds, ScoresHold
<1>5. DriverKnows' /\ CallHolds'
  BY <1>1, <1>2 DEF Summarize, DriverKnows, CallHolds, Own, boundVars, callVars
<1>6. WrapperHolds'
  BY WrapperStays DEF Summarize, boundVars
<1>7. Lines' = Lines /\ Recorded' = Recorded
  BY DEF Summarize, Lines, Recorded
<1>8. Once'
  <2>1. Malformed \notin Lines => Recorded = driver.done
    BY <1>1 DEF DriverKnows
  <2>2. driver.done = Runs
    BY DEF Summarize, Remaining, CampaignTypes, Drivers
  <2>3. summary' => Recorded' = Runs /\ Malformed \notin Lines'
    BY <1>2, <1>7, <2>1, <2>2
  <2>4. raw' = raw
    BY DEF Summarize
  <2> QED BY <2>3, <2>4 DEF RecordsAreEarned, Once
<1>9. Earned'
  BY <1>7 DEF RecordsAreEarned, Earned, Summarize, boundVars
<1> QED BY <1>3, <1>4, <1>5, <1>6, <1>8, <1>9 DEF RecordsAreEarned

-----------------------------------------------------------------------------
\* The bounded call.

\* The wrapper has written nothing yet.
LEMMA LaunchWrapperHolds == CampaignInv /\ LaunchWrapper => CampaignInv'
<1> SUFFICES ASSUME CampaignInv, LaunchWrapper PROVE CampaignInv'
  OBVIOUS
<1> USE DEF CampaignInv
<1> DEFINE new == [at |-> IF driver.run \in Native THEN "check" ELSE "write",
                   run |-> driver.run, by |-> "incumbent", attempt |-> Attempt, split |-> 1]
<1>1. /\ driver.at = "call" /\ driver' = driver
      /\ call = "ready" /\ call' = "running" /\ child' = "alive"
      /\ wrappers' = [wrappers EXCEPT !["own"] = new]
  BY DEF LaunchWrapper, Bounded!Launch
<1>2. driver.claim # "ok" /\ driver.run \in Runs
  BY <1>1 DEF CallHolds, DriverKnows
<1>3. new \in Workers /\ new # Idle
  BY <1>2 DEF Workers, Attempt, CampaignTypes, Idle
<1>4. Own' = new /\ wrappers'["orphan"] = wrappers["orphan"]
      /\ wrappers' \in [{"own", "orphan"} -> Workers \union {Idle}]
  BY <1>1, <1>3 DEF Own, CampaignTypes
<1>5. CampaignTypes'
  BY <1>1, <1>4 DEF CampaignTypes, LaunchWrapper, campaignVars, boundVars
<1>6. PlanHolds' /\ DriverKnows' /\ ScoresHold'
  BY <1>1, <1>2 DEF LaunchWrapper, PlanHolds, DriverKnows, ScoresHold, campaignVars, Lines, Recorded
<1>7. CallHolds'
  BY <1>1, <1>2, <1>4 DEF LaunchWrapper, CallHolds, Attempt, boundVars
<1>8. WrapperHolds'
  <2>1. Own'.split = 1 /\ Own'.by = "incumbent" /\ Own'.run = driver.run
        /\ Own'.at = IF driver.run \in Native THEN "check" ELSE "write"
    BY <1>4
  <2>2. LastSplit' = LastSplit /\ LastSplit \in Nat /\ Splits = 1..LastSplit
    BY SplitsAre DEF LastSplit
  <2>3. \A s \in Splits : ~(s < 1)
    BY <2>2
  <2> QED BY <2>1, <2>2, <2>3 DEF WrapperHolds
<1>9. RecordsAreEarned'
  BY EarnedStays DEF LaunchWrapper, campaignVars, boundVars
<1> QED BY <1>5, <1>6, <1>7, <1>8, <1>9

LEMMA LaunchFailsHolds == CampaignInv /\ LaunchFails => CampaignInv'
<1> SUFFICES ASSUME CampaignInv, LaunchFails PROVE CampaignInv'
  OBVIOUS
<1> USE DEF CampaignInv
<1>1. driver.at = "call" /\ driver' = driver /\ call = "ready" /\ call' = "returned"
  BY DEF LaunchFails, Bounded!LaunchFails
<1>2. driver.claim # "ok" /\ Own = Idle
  BY <1>1 DEF CallHolds
<1>3. CampaignTypes' /\ PlanHolds'
  BY <1>1 DEF LaunchFails, CampaignTypes, PlanHolds, campaignVars, boundVars
<1>4. DriverKnows' /\ ScoresHold'
  BY <1>1, <1>2 DEF LaunchFails, DriverKnows, ScoresHold, campaignVars, Lines, Recorded
<1>5. CallHolds'
  BY <1>1, <1>2 DEF LaunchFails, CallHolds, Own, boundVars
<1>6. WrapperHolds' /\ RecordsAreEarned'
  BY WrapperStays, EarnedStays DEF LaunchFails, campaignVars, boundVars
<1> QED BY <1>3, <1>4, <1>5, <1>6

\* A wrapper that is alive has not said "ok".
LEMMA KillWrapperHolds == CampaignInv /\ KillWrapper => CampaignInv'
<1> SUFFICES ASSUME CampaignInv, KillWrapper PROVE CampaignInv'
  OBVIOUS
<1> USE DEF CampaignInv
<1>1. /\ call = "running" /\ child = "alive" /\ driver' = driver /\ call' = call
      /\ wrappers' = [wrappers EXCEPT !["own"] = Idle]
  BY DEF KillWrapper, Bounded!Kill
<1>2. driver.claim # "ok" /\ driver.at = "call"
  BY <1>1 DEF CallHolds
<1>3. Own' = Idle /\ wrappers'["orphan"] = wrappers["orphan"]
      /\ wrappers' \in [{"own", "orphan"} -> Workers \union {Idle}]
  BY <1>1 DEF Own, CampaignTypes
<1>4. CampaignTypes' /\ PlanHolds'
  BY <1>1, <1>3 DEF KillWrapper, CampaignTypes, PlanHolds, campaignVars, boundVars
<1>5. DriverKnows' /\ ScoresHold'
  BY <1>1, <1>2 DEF KillWrapper, DriverKnows, ScoresHold, campaignVars, Lines, Recorded
<1>6. CallHolds' /\ WrapperHolds'
  BY <1>1, <1>2, <1>3 DEF KillWrapper, CallHolds, WrapperHolds, boundVars
<1>7. RecordsAreEarned'
  BY EarnedStays DEF KillWrapper, campaignVars, boundVars
<1> QED BY <1>4, <1>5, <1>6, <1>7

LEMMA WrapperDiesHolds == CampaignInv /\ WrapperDies => CampaignInv'
<1> SUFFICES ASSUME CampaignInv, WrapperDies PROVE CampaignInv'
  OBVIOUS
<1> USE DEF CampaignInv
<1>1. child = "doomed" /\ driver' = driver /\ call' = call
  BY DEF WrapperDies, Bounded!KilledChildDies
<1>2. driver.claim # "ok" /\ Own = Idle
  BY <1>1 DEF CallHolds
<1>3. CampaignTypes' /\ PlanHolds'
  BY <1>1 DEF WrapperDies, CampaignTypes, PlanHolds, campaignVars, boundVars
<1>4. DriverKnows' /\ ScoresHold'
  BY <1>1, <1>2 DEF WrapperDies, DriverKnows, ScoresHold, Delivered, Maker, Attempt,
                    campaignVars, boundVars, Lines, Recorded
<1>5. CallHolds'
  BY <1>1, <1>2 DEF WrapperDies, CallHolds, Own, boundVars
<1>6. WrapperHolds' /\ RecordsAreEarned'
  BY WrapperStays, EarnedStays DEF WrapperDies, campaignVars, boundVars
<1> QED BY <1>3, <1>4, <1>5, <1>6

\* An interrupt ends the driver; an attempt that did not fail has said "ok".
LEMMA CallReturnsHolds == CampaignInv /\ CallReturns => CampaignInv'
<1> SUFFICES ASSUME CampaignInv, CallReturns PROVE CampaignInv'
  OBVIOUS
<1> USE DEF CampaignInv
<1>1. call = "running" /\ child # "alive" /\ call' = "returned"
  BY DEF CallReturns, Bounded!CallReturns
<1>2. driver.at = "call" /\ Own = Idle /\ driver.scored = <<>> /\ ~driver.failure /\ ~summary
  BY <1>1 DEF CallHolds, DriverKnows
<1>3. RecordsAreEarned' /\ Lines' = Lines /\ Recorded' = Recorded
  BY EarnedStays DEF CallReturns, campaignVars, Lines, Recorded
<1>4. WrapperHolds'
  BY <1>2 DEF CallReturns, WrapperHolds, Own
<1>5. CASE result' = "Interrupted"
  <2>1. kills' = kills + 1 /\ driver'.at = "off" /\ driver'.claim = "failed" /\ driver' \in Drivers
    <3>1. <<>> \in Seq(Files)
      OBVIOUS
    <3> QED BY <1>5, <3>1 DEF CallReturns, NewDriver, Drivers, Claims
  <2>2. CampaignTypes'
    BY <2>1 DEF CallReturns, CampaignTypes, campaignVars
  <2>3. PlanHolds' /\ DriverKnows' /\ ScoresHold'
    BY <1>2, <2>1 DEF CallReturns, PlanHolds, DriverKnows, ScoresHold, campaignVars
  <2>4. CallHolds'
    BY <1>1, <1>2, <2>1 DEF CallReturns, CallHolds, Own
  <2> QED BY <1>3, <1>4, <2>2, <2>3, <2>4
<1>6. CASE result' # "Interrupted"
  <2>1. /\ kills' = kills
        /\ driver' = [driver EXCEPT !.at = "score", !.claim = "failed",
                        !.failure = ~(result' = "exited" /\ driver.claim = "ok")]
    BY <1>6 DEF CallReturns
  <2>2. (~(result' = "exited" /\ driver.claim = "ok")) \in BOOLEAN
    OBVIOUS
  <2>3. /\ driver' \in Drivers /\ driver'.at = "score" /\ driver'.claim = "failed"
        /\ driver'.run = driver.run /\ driver'.done = driver.done /\ driver'.scored = <<>>
        /\ ~driver'.failure => driver.claim = "ok"
    BY <1>2, <2>1, <2>2 DEF CampaignTypes, Drivers, Claims
  <2>4. CampaignTypes'
    BY <2>1, <2>3 DEF CallReturns, CampaignTypes, campaignVars
  <2>5. PlanHolds' /\ DriverKnows'
    BY <1>2, <1>3, <2>3 DEF CallReturns, PlanHolds, DriverKnows, campaignVars
  <2>6. CallHolds'
    BY <1>1, <1>2, <2>3 DEF CallReturns, CallHolds, Own
  <2>7. ~driver'.failure => Delivered'
    BY <2>1, <2>3 DEF CallReturns, ScoresHold, Delivered, Maker, Attempt, campaignVars
  <2>8. Len(driver'.scored) = 0 /\ LastSplit' = LastSplit /\ 1..0 = {}
    BY <2>3 DEF LastSplit
  <2>9. ScoresHold'
    BY <2>3, <2>7, <2>8, SplitsAre DEF ScoresHold
  <2> QED BY <1>3, <1>4, <2>4, <2>5, <2>6, <2>9
<1> QED BY <1>5, <1>6

LEMMA LaunchFailedHolds == CampaignInv /\ LaunchFailed => CampaignInv'
<1> SUFFICES ASSUME CampaignInv, LaunchFailed PROVE CampaignInv'
  OBVIOUS
<1> USE DEF CampaignInv
<1>1. driver.at = "call" /\ call = "returned"
  BY DEF LaunchFailed
<1>2. driver.claim # "ok" /\ Own = Idle
  BY <1>1 DEF CallHolds
<1>3. /\ driver' \in Drivers /\ driver'.at = "score" /\ driver'.run = driver.run
      /\ driver'.done = driver.done /\ driver'.claim = driver.claim /\ driver'.failure
  BY DEF LaunchFailed, CampaignTypes, Drivers
<1>4. CampaignTypes'
  BY <1>3 DEF LaunchFailed, CampaignTypes, campaignVars, boundVars
<1>5. PlanHolds' /\ DriverKnows' /\ ScoresHold'
  BY <1>1, <1>2, <1>3 DEF LaunchFailed, PlanHolds, DriverKnows, ScoresHold, campaignVars, Lines, Recorded
<1>6. CallHolds'
  BY <1>1, <1>2, <1>3 DEF LaunchFailed, CallHolds, Own, boundVars, callVars
<1>7. WrapperHolds' /\ RecordsAreEarned'
  BY WrapperStays, EarnedStays DEF LaunchFailed, campaignVars, boundVars
<1> QED BY <1>4, <1>5, <1>6, <1>7

\* A split that is scored was written by this attempt.
LEMMA ScoreHolds == CampaignInv /\ Score => CampaignInv'
<1> SUFFICES ASSUME CampaignInv, Score PROVE CampaignInv'
  OBVIOUS
<1> USE DEF CampaignInv
<1> DEFINE f == predictions[driver.run][Len(driver.scored) + 1]
<1>1. /\ driver.at = "score" /\ ~driver.failure /\ Len(driver.scored) + 1 \in Splits
      /\ driver' = IF Complete(f) THEN [driver EXCEPT !.scored = Append(@, f)]
                                  ELSE [driver EXCEPT !.failure = TRUE]
  BY DEF Score
<1>2. driver.claim # "ok" /\ Own = Idle /\ driver.run \in Runs /\ ~summary
  BY <1>1 DEF CallHolds, DriverKnows
<1>3. f \in Files /\ driver.scored \in Seq(Files)
  BY <1>1, <1>2 DEF CampaignTypes, Drivers
<1>4. /\ driver' \in Drivers /\ driver'.at = "score" /\ driver'.run = driver.run
      /\ driver'.done = driver.done /\ driver'.claim = driver.claim
      /\ driver'.failure \/ driver'.scored = Append(driver.scored, f)
  <2>1. driver \in Drivers /\ Append(driver.scored, f) \in Seq(Files)
    BY <1>3 DEF CampaignTypes
  <2>2. CASE Complete(f)
    BY <1>1, <2>1, <2>2 DEF Drivers
  <2>3. CASE ~Complete(f)
    BY <1>1, <2>1, <2>3 DEF Drivers
  <2> QED BY <2>2, <2>3
<1>5. CampaignTypes'
  BY <1>4 DEF Score, CampaignTypes, campaignVars, boundVars
<1>6. PlanHolds' /\ DriverKnows'
  BY <1>1, <1>2, <1>4 DEF Score, PlanHolds, DriverKnows, campaignVars, Lines, Recorded
<1>7. CallHolds'
  BY <1>1, <1>2, <1>4 DEF Score, CallHolds, Own, boundVars, callVars
<1>8. WrapperHolds' /\ RecordsAreEarned'
  BY WrapperStays, EarnedStays DEF Score, campaignVars, boundVars
<1>9. ScoresHold'
  <2>1. /\ Delivered /\ Len(driver.scored) \in Nat
        /\ driver.run \notin orphaned =>
             \A i \in 1..Len(driver.scored) : driver.scored[i] = Made(Maker(driver.run), Attempt)
    BY <1>1, <1>3 DEF ScoresHold
  <2>2. /\ plan' = plan /\ predictions' = predictions /\ Attempt' = Attempt
        /\ LastSplit' = LastSplit /\ orphaned' = orphaned
    BY DEF Score, Attempt, LastSplit, campaignVars, boundVars
  <2>5. Delivered'
    BY <1>4, <2>1, <2>2 DEF Delivered, Maker
  <2>3. CASE driver'.scored = Append(driver.scored, f)
    <3>1. Len(driver'.scored) = Len(driver.scored) + 1 /\ Len(driver.scored) + 1 <= LastSplit
      BY <1>1, <1>3, <2>1, <2>3, SplitsAre
    <3>2. driver.run \notin orphaned => f = Made(Maker(driver.run), Attempt)
      BY <1>1, <2>1 DEF Delivered
    <3>3. ASSUME driver.run \notin orphaned, NEW i \in 1..Len(driver'.scored)
          PROVE  driver'.scored[i] = Made(Maker(driver.run), Attempt)
      <4>1. i = Len(driver.scored) + 1 \/ i \in 1..Len(driver.scored)
        BY <2>1, <3>1
      <4>2. CASE i = Len(driver.scored) + 1
        BY <1>3, <2>3, <3>2, <3>3, <4>2
      <4>3. CASE i \in 1..Len(driver.scored)
        <5>1. driver'.scored[i] = driver.scored[i]
          BY <1>3, <2>3, <4>3
        <5> QED BY <2>1, <3>3, <4>3, <5>1
      <4> QED BY <4>1, <4>2, <4>3
    <3>4. driver'.run \notin orphaned' =>
            \A i \in 1..Len(driver'.scored) :
              driver'.scored[i] = (Made(Maker(driver.run), Attempt))'
      BY <1>4, <2>2, <3>3 DEF Maker, Made
    <3> QED BY <1>2, <1>4, <2>2, <2>5, <3>1, <3>4 DEF ScoresHold
  <2>4. CASE driver'.failure
    BY <1>2, <1>4, <2>4 DEF ScoresHold
  <2> QED BY <1>4, <2>3, <2>4
<1> QED BY <1>5, <1>6, <1>7, <1>8, <1>9

\* What raw.jsonl tells when a line has been appended, or joined to a torn one.
LEMMA JoinedTells ==
  ASSUME CampaignTypes, NEW line \in Records \union {Malformed}, raw' = Joined(line)
  PROVE  /\ raw' \in Seq(Records \union {Malformed}) /\ raw' # <<>>
         /\ \A i \in DOMAIN raw' :
              \/ i \in DOMAIN raw /\ raw'[i] = raw[i]
              \/ raw'[i] = Malformed
              \/ i = Len(raw) + 1 /\ raw'[i] = line
         /\ Malformed \notin Lines' => raw' = Append(raw, line)
<1>1. raw \in Seq(Records \union {Malformed}) /\ Len(raw) \in Nat
  BY DEF CampaignTypes
<1>2. CASE unended
  <2>1. raw' = [raw EXCEPT ![Len(raw)] = Malformed] /\ raw # <<>>
    BY <1>2 DEF Joined, CampaignTypes
  <2>2. Len(raw) \in 1..Len(raw) /\ DOMAIN raw = 1..Len(raw)
    BY <1>1, <2>1
  <2>3. raw' \in Seq(Records \union {Malformed}) /\ DOMAIN raw' = DOMAIN raw
    BY <1>1, <2>1, <2>2
  <2>4. raw'[Len(raw)] = Malformed /\ Len(raw) \in DOMAIN raw'
    BY <2>1, <2>2, <2>3
  <2>5. Malformed \in Lines'
    BY <2>4 DEF Lines
  <2>6. raw' # <<>>
    BY <2>4, <1>1
  <2>7. \A i \in DOMAIN raw' : i \in DOMAIN raw /\ (raw'[i] = raw[i] \/ raw'[i] = Malformed)
    BY <2>1, <2>3
  <2> QED BY <2>3, <2>5, <2>6, <2>7
<1>3. CASE ~unended
  <2>1. raw' = Append(raw, line)
    BY <1>3 DEF Joined
  <2>2. raw' \in Seq(Records \union {Malformed}) /\ Len(raw') = Len(raw) + 1
    BY <1>1, <2>1
  <2>3. \A i \in DOMAIN raw' : \/ i \in DOMAIN raw /\ raw'[i] = raw[i]
                               \/ i = Len(raw) + 1 /\ raw'[i] = line
    BY <1>1, <2>1, <2>2
  <2>4. raw' # <<>>
    BY <1>1, <2>2
  <2> QED BY <2>1, <2>2, <2>3, <2>4
<1> QED BY <1>2, <1>3 DEF CampaignTypes

\* The line of an attempt that is over.
LEMMA RecordIs ==
  ASSUME CampaignInv, Scored
  PROVE  /\ Record \in Records /\ Record.run = driver.run /\ Record # Malformed
         /\ Record.ok /\ driver.run \notin orphaned =>
              /\ DOMAIN Record.metrics = Splits
              /\ \A s \in Splits : Record.metrics[s] = Made(Maker(driver.run), Record.attempt)
<1> USE DEF CampaignInv
<1>1. driver.at = "score" /\ driver.run \in Runs /\ driver \in Drivers /\ kills \in Nat
  BY DEF Scored, DriverKnows, CampaignTypes
<1>2. (~driver.failure) \in BOOLEAN /\ Attempt \in Nat
  BY <1>1 DEF Attempt
<1>3. /\ Record \in Records /\ Record.run = driver.run /\ Record.metrics = driver.scored
      /\ Record.ok = ~driver.failure /\ Record.attempt = Attempt
  BY <1>1, <1>2 DEF Record, Records, Drivers
<1>4. Record # Malformed
  <2>1. Malformed.run = 0 /\ 0 \notin Runs
    BY CampaignAssumption DEF Malformed
  <2> QED BY <1>1, <1>3, <2>1
<1>5. ASSUME Record.ok, driver.run \notin orphaned
      PROVE  /\ DOMAIN Record.metrics = Splits
             /\ \A s \in Splits : Record.metrics[s] = Made(Maker(driver.run), Record.attempt)
  <2>1. /\ ~driver.failure /\ Len(driver.scored) <= LastSplit
        /\ \A i \in 1..Len(driver.scored) : driver.scored[i] = Made(Maker(driver.run), Attempt)
    BY <1>1, <1>3, <1>5 DEF ScoresHold
  <2>2. Len(driver.scored) \in Nat /\ DOMAIN driver.scored = 1..Len(driver.scored)
    BY <1>1 DEF Drivers
  <2>3. Len(driver.scored) + 1 \notin Splits
    BY <2>1 DEF Scored
  <2>4. Len(driver.scored) = LastSplit
    BY <2>1, <2>2, <2>3, SplitsAre
  <2> QED BY <1>3, <2>1, <2>2, <2>4, SplitsAre
<1> QED BY <1>3, <1>4, <1>5

\* However much of its line is written, an attempt is recorded at most once.
LEMMA AppendHolds ==
  ASSUME CampaignInv, Scored, NEW line \in {Malformed, Record}, raw' = Joined(line),
         unended' \in BOOLEAN, line = Record \/ unended', cuts' \in Nat, AttemptEnds,
         UNCHANGED <<exe, plan, summary, predictions, wrappers, kills, orphaned>>
  PROVE  CampaignInv'
<1> USE DEF CampaignInv
<1>1. /\ driver.at = "score" /\ driver.run \in Runs \ driver.done /\ ~summary
      /\ driver.claim # "ok" /\ Own = Idle
      /\ Recorded \subseteq driver.done \union {0}
      /\ Malformed \notin Lines => Recorded = driver.done
  BY DEF Scored, DriverKnows, CallHolds
<1>2. line \in Records \union {Malformed}
  BY RecordIs
<1>3. /\ raw' \in Seq(Records \union {Malformed}) /\ raw' # <<>>
      /\ \A i \in DOMAIN raw' :
           \/ i \in DOMAIN raw /\ raw'[i] = raw[i]
           \/ raw'[i] = Malformed
           \/ i = Len(raw) + 1 /\ raw'[i] = line
      /\ Malformed \notin Lines' => raw' = Append(raw, line)
  BY <1>2, JoinedTells
<1>4. /\ driver' \in Drivers /\ driver'.at = "next" /\ driver'.scored = <<>>
      /\ driver'.done = driver.done \union {driver.run}
      /\ driver'.claim = "failed" /\ ~driver'.failure
  <2>1. <<>> \in Seq(Files)
    OBVIOUS
  <2> QED BY <1>1, <2>1 DEF AttemptEnds, NewDriver, Drivers, Claims, CampaignTypes
<1>5. CampaignTypes'
  BY <1>3, <1>4 DEF CampaignTypes
<1>6. PlanHolds' /\ ScoresHold' /\ WrapperHolds'
  BY <1>1, <1>4, WrapperStays DEF PlanHolds, ScoresHold
<1>7. CallHolds'
  BY <1>1, <1>4 DEF CallHolds, AttemptEnds, Own
<1>8. Malformed.run = 0 /\ 0 \notin Runs /\ Record.run = driver.run
  BY RecordIs, CampaignAssumption DEF Malformed
<1>9. \A l \in Lines' : l \in Lines \/ l = Malformed \/ l = line
  BY <1>3 DEF Lines
<1>10. Recorded' \subseteq driver'.done \union {0}
  BY <1>1, <1>4, <1>8, <1>9 DEF Recorded
<1>11. Malformed \notin Lines' => Recorded' = driver'.done
  <2> SUFFICES ASSUME Malformed \notin Lines' PROVE Recorded' = driver'.done
    OBVIOUS
  <2>1. raw' = Append(raw, line) /\ raw \in Seq(Records \union {Malformed})
    BY <1>3 DEF CampaignTypes
  <2>2. DOMAIN raw' = DOMAIN raw \union {Len(raw) + 1} /\ raw'[Len(raw) + 1] = line
        /\ \A i \in DOMAIN raw : raw'[i] = raw[i]
    BY <2>1
  <2>3. Lines' = Lines \union {line}
    BY <2>2 DEF Lines
  <2>4. line = Record /\ Recorded = driver.done
    BY <1>1, <2>3
  <2> QED BY <1>4, <1>8, <2>3, <2>4 DEF Recorded
<1>12. DriverKnows'
  BY <1>1, <1>4, <1>10, <1>11 DEF DriverKnows
<1>13. Once'
  <2>1. ASSUME NEW i \in DOMAIN raw', NEW j \in DOMAIN raw', i # j,
               raw'[i].run = raw'[j].run, raw'[i] # Malformed
        PROVE  FALSE
    <3>1. raw'[i] \in Records /\ raw'[i].run \in Runs
      BY <1>3, <2>1 DEF Records
    <3>2. raw'[j] # Malformed
      BY <1>8, <2>1, <3>1
    <3>3. ASSUME NEW k \in DOMAIN raw, raw[k].run = driver.run PROVE FALSE
      <4>1. driver.run \in Recorded
        BY <3>3 DEF Recorded, Lines
      <4> QED BY <1>1, <1>8, <4>1
    <3>4. CASE i \in DOMAIN raw /\ raw'[i] = raw[i] /\ j \in DOMAIN raw /\ raw'[j] = raw[j]
      BY <2>1, <3>4 DEF RecordsAreEarned, Once
    <3>5. CASE i = Len(raw) + 1 /\ raw'[i] = line
      <4>1. j \in DOMAIN raw /\ raw'[j] = raw[j]
        BY <1>3, <2>1, <3>2, <3>5
      <4> QED BY <1>8, <2>1, <3>3, <3>5, <4>1
    <3>6. CASE j = Len(raw) + 1 /\ raw'[j] = line
      <4>1. i \in DOMAIN raw /\ raw'[i] = raw[i]
        BY <1>3, <2>1, <3>6
      <4> QED BY <1>8, <2>1, <3>2, <3>3, <3>6, <4>1
    <3> QED BY <1>3, <2>1, <3>2, <3>4, <3>5, <3>6
  <2> QED BY <1>1, <2>1 DEF Once
<1>14. Earned'
  <2> SUFFICES ASSUME NEW l \in Lines', l # Malformed, l.ok, l.run \notin orphaned
               PROVE  /\ DOMAIN l.metrics = Splits
                      /\ \A s \in Splits : l.metrics[s] = Made(Maker(l.run), l.attempt)
    BY DEF Earned, Maker
  <2>1. CASE l \in Lines
    BY <2>1 DEF RecordsAreEarned, Earned, Maker
  <2>2. CASE l = Record
    BY <1>8, <2>2, RecordIs
  <2> QED BY <1>9, <2>1, <2>2
<1> QED BY <1>5, <1>6, <1>7, <1>12, <1>13, <1>14 DEF RecordsAreEarned

LEMMA AppendWholeHolds == CampaignInv /\ AppendWhole => CampaignInv'
<1> SUFFICES ASSUME CampaignInv, AppendWhole PROVE CampaignInv'
  OBVIOUS
<1>1. cuts' \in Nat
  BY DEF AppendWhole, boundVars, CampaignInv, CampaignTypes
<1> QED BY <1>1, AppendHolds DEF AppendWhole, boundVars

LEMMA AppendCutHolds == CampaignInv /\ AppendCut => CampaignInv'
<1> SUFFICES ASSUME CampaignInv, AppendCut PROVE CampaignInv'
  OBVIOUS
<1>1. PICK line \in {Malformed, Record} : raw' = Joined(line)
  BY DEF AppendCut
<1>2. cuts' \in Nat
  BY DEF AppendCut, CampaignInv, CampaignTypes
<1> QED BY <1>1, <1>2, AppendHolds DEF AppendCut

-----------------------------------------------------------------------------
\* The faults.

\* The wrapper of a killed driver is an orphan, and its run is known as one.
LEMMA KillDriverHolds == CampaignInv /\ KillDriver => CampaignInv'
<1> SUFFICES ASSUME CampaignInv, KillDriver PROVE CampaignInv'
  OBVIOUS
<1> USE DEF CampaignInv
<1>1. /\ wrappers["orphan"] = Idle /\ kills' = kills + 1 /\ call' = "ready" /\ ~summary
      /\ wrappers' = [wrappers EXCEPT !["orphan"] = wrappers["own"], !["own"] = Idle]
      /\ orphaned' = orphaned \union {wrappers[w].run : w \in Working}
  BY DEF KillDriver, DriverKnows
<1>2. driver' \in Drivers /\ driver'.at = "off" /\ driver'.claim = "failed"
  <2>1. <<>> \in Seq(Files)
    OBVIOUS
  <2> QED BY <2>1 DEF KillDriver, NewDriver, Drivers, Claims
<1>3. Own' = Idle /\ wrappers'["orphan"] = Own
      /\ wrappers' \in [{"own", "orphan"} -> Workers \union {Idle}]
  BY <1>1 DEF Own, CampaignTypes
<1>4. orphaned' \subseteq Runs /\ (Own # Idle => Own.run \in orphaned')
  <2>1. \A w \in Working : wrappers[w].run \in Runs
    BY WorkingIs DEF Working, Workers
  <2>2. Own # Idle => Own.run \in {wrappers[w].run : w \in Working}
    BY DEF Own, Working
  <2> QED BY <1>1, <2>1, <2>2 DEF CampaignTypes
<1>5. CampaignTypes'
  BY <1>1, <1>2, <1>3, <1>4 DEF KillDriver, CampaignTypes, campaignVars
<1>6. PlanHolds' /\ DriverKnows' /\ ScoresHold'
  BY <1>1, <1>2 DEF KillDriver, PlanHolds, DriverKnows, ScoresHold, campaignVars
<1>7. CallHolds' /\ WrapperHolds'
  BY <1>1, <1>2, <1>3, <1>4 DEF CallHolds, WrapperHolds
<1>8. RecordsAreEarned'
  BY <1>1, EarnedStays DEF KillDriver, campaignVars
<1> QED BY <1>5, <1>6, <1>7, <1>8

\* A rebuilt executable is not the planned one.
LEMMA RebuildHolds == CampaignInv /\ Rebuild => CampaignInv'
<1> SUFFICES ASSUME CampaignInv, Rebuild PROVE CampaignInv'
  OBVIOUS
<1> USE DEF CampaignInv
<1>1. plan # "rebuilt" /\ exe' = "rebuilt" /\ plan' = plan
  BY DEF Rebuild, PlanHolds
<1>2. CampaignTypes' /\ PlanHolds'
  BY <1>1 DEF Rebuild, CampaignTypes, PlanHolds, Executables, boundVars
<1>3. DriverKnows' /\ CallHolds'
  BY DEF Rebuild, DriverKnows, CallHolds, Own, Attempt, Lines, Recorded, boundVars, callVars
<1>4. ScoresHold' /\ WrapperHolds'
  BY <1>1 DEF Rebuild, ScoresHold, WrapperHolds, Delivered, Maker, Own, Attempt, LastSplit, boundVars
<1>5. RecordsAreEarned'
  BY EarnedStays DEF Rebuild, boundVars
<1> QED BY <1>2, <1>3, <1>4, <1>5

-----------------------------------------------------------------------------
\* The wrappers.

\* What a wrapper's steps do to its own state and its run's predictions.
Proceeds(w) ==
  \E state \in Workers \union {Idle} :
    /\ state # Idle => state.run = wrappers[w].run /\ state.attempt = wrappers[w].attempt
    /\ wrappers' = [wrappers EXCEPT ![w] = state]

WritesOwnRun(w) ==
  /\ predictions' \in [Runs -> [Splits -> Files]]
  /\ \A r \in Runs : r # wrappers[w].run => predictions'[r] = predictions[r]

Finished(w) ==
  \/ wrappers[w].at = "verify"
  \/ wrappers[w].at = "write" /\ wrappers[w].split \notin Splits /\ wrappers[w].run \notin Native

Endings(w) ==
  \/ UNCHANGED <<driver, child>>
  \/ /\ w = "own" /\ wrappers'["own"] = Idle /\ child' = "exited" /\ predictions' = predictions
     /\ \E claim \in Claims : /\ claim = "ok" => Finished(w)
                             /\ driver' = [driver EXCEPT !.claim = claim]

LEMMA WrapperSteps ==
  ASSUME CampaignTypes, NEW w \in Working, Wrapper(w)
  PROVE  /\ Proceeds(w) /\ WritesOwnRun(w) /\ Endings(w)
         /\ UNCHANGED <<campaignVars, boundVars, call, result>>
<1>1. w \in {"own", "orphan"} /\ wrappers[w] \in Workers
  BY WorkingIs DEF Working
<1>2. ASSUME predictions' = predictions PROVE WritesOwnRun(w)
  BY <1>2 DEF WritesOwnRun, CampaignTypes
<1>3. ASSUME NEW state \in Workers, state.run = wrappers[w].run,
             state.attempt = wrappers[w].attempt, Becomes(w, state)
      PROVE  Proceeds(w)
  BY <1>3 DEF Proceeds, Becomes
<1>4. ASSUME NEW claim \in Claims, Ends(w, claim), claim = "ok" => Finished(w)
      PROVE  /\ Proceeds(w) /\ WritesOwnRun(w) /\ Endings(w)
             /\ UNCHANGED <<campaignVars, boundVars, call, result>>
  <2>1. Proceeds(w)
    BY <1>4 DEF Ends, Becomes, Proceeds
  <2>2. WritesOwnRun(w)
    BY <1>2, <1>4 DEF Ends
  <2>3. Endings(w)
    <3>1. wrappers'[w] = Idle
      BY <1>1, <1>4 DEF Ends, Becomes, CampaignTypes
    <3> QED BY <1>4, <3>1 DEF Ends, Endings
  <2> QED BY <1>4, <2>1, <2>2, <2>3 DEF Ends
<1>5. ASSUME NEW at \in {"launch", "recheck", "verify"}, Goes(w, at)
      PROVE  /\ Proceeds(w) /\ WritesOwnRun(w) /\ Endings(w)
             /\ UNCHANGED <<campaignVars, boundVars, call, result>>
  <2> DEFINE state == [wrappers[w] EXCEPT !.at = at]
  <2>1. /\ state \in Workers /\ state.run = wrappers[w].run
        /\ state.attempt = wrappers[w].attempt
    BY <1>1 DEF Workers
  <2>2. Becomes(w, state)
    BY <1>5 DEF Goes
  <2>3. Proceeds(w)
    BY <1>3, <2>1, <2>2
  <2> QED BY <1>2, <1>5, <2>3 DEF Goes, Endings, callVars
<1>6. CASE CheckExecutable(w)
  BY <1>4, <1>5, <1>6 DEF CheckExecutable, Claims
<1>7. CASE LaunchNative(w)
  <2> DEFINE state == [wrappers[w] EXCEPT !.at = "write", !.by = exe]
  <2>1. /\ state \in Workers /\ state.run = wrappers[w].run
        /\ state.attempt = wrappers[w].attempt
    BY <1>1 DEF Workers, CampaignTypes
  <2>2. Proceeds(w)
    BY <1>3, <1>7, <2>1 DEF LaunchNative
  <2> QED BY <1>2, <1>7, <2>2 DEF LaunchNative, Endings, callVars
<1>8. ASSUME NEW f \in Files,
             predictions' = [predictions EXCEPT ![wrappers[w].run][wrappers[w].split] = f]
      PROVE  WritesOwnRun(w)
  <2> DEFINE run   == wrappers[w].run
             split == wrappers[w].split
             new   == [predictions[run] EXCEPT ![split] = f]
  <2>1. run \in Runs /\ predictions \in [Runs -> [Splits -> Files]]
    BY <1>1 DEF Workers, CampaignTypes
  <2>2. predictions' = [predictions EXCEPT ![run] = new]
    BY <1>8
  <2>3. new \in [Splits -> Files]
    BY <2>1
  <2> HIDE DEF new
  <2> QED BY <2>1, <2>2, <2>3 DEF WritesOwnRun
<1>9. CASE OpenPredictions(w)
  <2> DEFINE state == [wrappers[w] EXCEPT !.at = "flush"]
  <2>1. /\ state \in Workers /\ state.run = wrappers[w].run
        /\ state.attempt = wrappers[w].attempt
    BY <1>1 DEF Workers
  <2>2. Proceeds(w)
    BY <1>3, <1>9, <2>1 DEF OpenPredictions
  <2>3. Torn \in Files
    BY DEF Files
  <2>4. WritesOwnRun(w)
    BY <1>8, <1>9, <2>3 DEF OpenPredictions
  <2> QED BY <1>9, <2>2, <2>4 DEF OpenPredictions, Endings, callVars
<1>10. CASE WritePredictions(w)
  <2> DEFINE state == [wrappers[w] EXCEPT !.at = "write", !.split = @ + 1]
  <2>1. /\ state \in Workers /\ state.run = wrappers[w].run
        /\ state.attempt = wrappers[w].attempt
    <3>1. wrappers[w].split + 1 \in Nat
      BY <1>1 DEF Workers
    <3> QED BY <1>1, <3>1 DEF Workers
  <2>2. Proceeds(w)
    BY <1>3, <1>10, <2>1 DEF WritePredictions
  <2>3. Made(wrappers[w].by, wrappers[w].attempt) \in Files
    BY <1>1 DEF Files, Made, Workers
  <2>4. WritesOwnRun(w)
    BY <1>8, <1>10, <2>3 DEF WritePredictions
  <2> QED BY <1>10, <2>2, <2>4 DEF WritePredictions, Endings, callVars
<1>11. CASE Written(w)
  BY <1>4, <1>5, <1>11 DEF Written, Finished, Claims
<1>12. CASE RecheckExecutable(w)
  BY <1>4, <1>5, <1>12 DEF RecheckExecutable, Claims
<1>13. CASE VerifyPredictions(w)
  <2>1. PICK claim \in Claims : Ends(w, claim)
    BY <1>13 DEF VerifyPredictions, Claims
  <2> QED BY <1>4, <1>13, <2>1 DEF VerifyPredictions, Finished
<1>14. CASE WrapperFails(w)
  BY <1>4, <1>14 DEF WrapperFails, Claims
<1>15. CASE PublishPredictions(w)
  <2> DEFINE state == [wrappers[w] EXCEPT !.split = @ + 1]
  <2>1. /\ state \in Workers /\ state.run = wrappers[w].run
        /\ state.attempt = wrappers[w].attempt
    <3>1. wrappers[w].split + 1 \in Nat
      BY <1>1 DEF Workers
    <3> QED BY <1>1, <3>1 DEF Workers
  <2>2. Proceeds(w)
    BY <1>3, <1>15, <2>1 DEF PublishPredictions
  <2>3. Made(wrappers[w].by, wrappers[w].attempt) \in Files
    BY <1>1 DEF Files, Made, Workers
  <2>4. WritesOwnRun(w)
    BY <1>8, <1>15, <2>3 DEF PublishPredictions
  <2> QED BY <1>15, <2>2, <2>4 DEF PublishPredictions, Endings, callVars
<1> QED BY <1>6, <1>7, <1>9, <1>10, <1>11, <1>12, <1>13, <1>14, <1>15 DEF Wrapper

\* What no step of a wrapper disturbs.
LEMMA WrapperKeeps ==
  ASSUME CampaignInv, NEW w \in Working, Wrapper(w)
  PROVE  CampaignTypes' /\ PlanHolds' /\ DriverKnows' /\ CallHolds' /\ RecordsAreEarned'
<1> USE DEF CampaignInv
<1>1. /\ Proceeds(w) /\ WritesOwnRun(w) /\ Endings(w)
      /\ UNCHANGED <<campaignVars, boundVars, call, result>>
  BY WrapperSteps
<1>2. w \in {"own", "orphan"} /\ wrappers[w] # Idle
  BY DEF Working
<1>3. PICK state \in Workers \union {Idle} :
        /\ state # Idle => state.run = wrappers[w].run /\ state.attempt = wrappers[w].attempt
        /\ wrappers' = [wrappers EXCEPT ![w] = state]
  BY <1>1 DEF Proceeds
<1>4. /\ wrappers' \in [{"own", "orphan"} -> Workers \union {Idle}]
      /\ wrappers'[w] = state
      /\ \A v \in {"own", "orphan"} : v # w => wrappers'[v] = wrappers[v]
  BY <1>2, <1>3 DEF CampaignTypes
<1>5. RecordsAreEarned' /\ Lines' = Lines /\ Recorded' = Recorded
  BY <1>1, EarnedStays DEF campaignVars, boundVars, Lines, Recorded
<1>6. CASE UNCHANGED <<driver, child>>
  <2>1. CampaignTypes' /\ PlanHolds'
    BY <1>1, <1>4, <1>6 DEF CampaignTypes, PlanHolds, WritesOwnRun, campaignVars, boundVars
  <2>2. DriverKnows'
    BY <1>1, <1>5, <1>6 DEF DriverKnows, campaignVars
  <2>3. CallHolds'
    <3>1. Own' # Idle => Own # Idle /\ Own'.run = Own.run /\ Own'.attempt = Own.attempt
      BY <1>2, <1>3, <1>4 DEF Own
    <3>2. wrappers'["orphan"] # Idle =>
            wrappers["orphan"] # Idle /\ wrappers'["orphan"].run = wrappers["orphan"].run
      BY <1>2, <1>3, <1>4
    <3> QED BY <1>1, <1>6, <3>1, <3>2 DEF CallHolds, Attempt, boundVars
  <2> QED BY <1>5, <2>1, <2>2, <2>3
<1>7. CASE /\ w = "own" /\ wrappers'["own"] = Idle /\ child' = "exited"
           /\ \E claim \in Claims : driver' = [driver EXCEPT !.claim = claim]
  <2>1. PICK claim \in Claims : driver' = [driver EXCEPT !.claim = claim]
    BY <1>7
  <2>2. /\ driver' \in Drivers /\ driver'.at = driver.at /\ driver'.run = driver.run
        /\ driver'.done = driver.done /\ driver'.scored = driver.scored
        /\ driver'.failure = driver.failure
    BY <2>1 DEF CampaignTypes, Drivers
  <2>3. CampaignTypes' /\ PlanHolds'
    BY <1>1, <1>4, <2>2 DEF CampaignTypes, PlanHolds, WritesOwnRun, campaignVars, boundVars
  <2>4. DriverKnows'
    BY <1>1, <1>5, <2>2 DEF DriverKnows, campaignVars
  <2>5. CallHolds'
    BY <1>1, <1>2, <1>4, <1>7, <2>2 DEF CallHolds, Own, boundVars
  <2> QED BY <1>5, <2>3, <2>4, <2>5
<1> QED BY <1>1, <1>5, <1>6, <1>7 DEF Endings

\* An orphan writes only to the files of a run that it is known to work on.
LEMMA OrphanHolds ==
  ASSUME CampaignInv, "orphan" \in Working, Wrapper("orphan")
  PROVE  CampaignInv'
<1> USE DEF CampaignInv
<1>1. /\ Proceeds("orphan") /\ WritesOwnRun("orphan") /\ Endings("orphan")
      /\ UNCHANGED <<campaignVars, boundVars, call, result>>
  BY WrapperSteps
<1>2. wrappers["orphan"].run \in orphaned
  BY DEF CallHolds, Working
<1>3. Own' = Own
  BY <1>1 DEF Proceeds, Own
<1>4. driver' = driver
  BY <1>1 DEF Endings
<1>5. \A r \in Runs \ orphaned : predictions'[r] = predictions[r]
  BY <1>1, <1>2 DEF WritesOwnRun
<1>6. Own # Idle => Own.run \in Runs
  BY WorkingIs DEF Own, Workers
<1>7. WrapperHolds'
  BY <1>1, <1>3, <1>5, <1>6 DEF WrapperHolds, LastSplit, Attempt, campaignVars, boundVars
<1>8. driver.claim = "ok" \/ driver.at = "score" => driver.run \in Runs
  BY DEF CallHolds, DriverKnows
<1>9. (driver.claim = "ok" \/ driver.at = "score") /\ Delivered => Delivered'
  BY <1>1, <1>4, <1>5, <1>8 DEF Delivered, Maker, Attempt, campaignVars, boundVars
<1>10. ScoresHold'
  BY <1>1, <1>4, <1>9 DEF ScoresHold, LastSplit, Maker, Attempt, campaignVars, boundVars
<1> QED BY <1>7, <1>10, WrapperKeeps

\* The attempt's own wrapper goes on: what it has written is its own.
LEMMA OwnGoesOn ==
  ASSUME CampaignInv, "own" \in Working, Wrapper("own"), Own' # Idle
  PROVE  WrapperHolds'
<1> USE DEF CampaignInv
<1>1. /\ UNCHANGED <<campaignVars, boundVars>>
      /\ Own # Idle /\ Own \in Workers /\ Own.attempt = Attempt
  BY WrapperSteps, WorkingIs DEF Working, Own, CallHolds
<1>2. LastSplit' = LastSplit /\ Attempt' = Attempt /\ LastSplit \in Nat /\ Splits = 1..LastSplit
  BY <1>1, SplitsAre DEF LastSplit, Attempt, boundVars
<1>3. ASSUME NEW state, Becomes("own", state) PROVE Own' = state
  BY <1>3 DEF Becomes, Own, CampaignTypes
<1>4. ASSUME NEW claim, Ends("own", claim) PROVE FALSE
  BY <1>3, <1>4 DEF Ends
<1>5. ASSUME NEW at \in {"launch", "recheck", "verify"}, Goes("own", at)
      PROVE  /\ Own' = [Own EXCEPT !.at = at] /\ predictions' = predictions
             /\ Own'.at = at /\ Own'.split = Own.split /\ Own'.run = Own.run /\ Own'.by = Own.by
  <2>1. Own' = [Own EXCEPT !.at = at]
    BY <1>3, <1>5 DEF Goes, Own
  <2> QED BY <1>1, <1>5, <2>1 DEF Goes, Workers
<1> USE DEF WrapperHolds, campaignVars, boundVars
<1>6. CASE CheckExecutable("own")
  BY <1>1, <1>2, <1>4, <1>5, <1>6 DEF CheckExecutable, Own
<1>7. CASE LaunchNative("own")
  <2>1. Own' = [Own EXCEPT !.at = "write", !.by = exe]
    BY <1>3, <1>7 DEF LaunchNative, Own
  <2>2. /\ Own'.at = "write" /\ Own'.split = Own.split /\ Own'.run = Own.run /\ Own'.by = exe
        /\ Own.at = "launch" /\ Own.split = 1
    BY <1>1, <1>7, <2>1 DEF LaunchNative, Own, Workers
  <2>3. \A s \in Splits : ~(s < 1)
    BY <1>2
  <2> QED BY <1>1, <1>2, <2>2, <2>3
<1>8. CASE OpenPredictions("own")
  <2>1. Own' = [Own EXCEPT !.at = "flush"]
    BY <1>3, <1>8 DEF OpenPredictions, Own
  <2>2. /\ Own'.at = "flush" /\ Own'.split = Own.split /\ Own'.run = Own.run /\ Own'.by = Own.by
        /\ Own.at = "write" /\ Own.split \in Splits
        /\ predictions' = [predictions EXCEPT ![Own.run][Own.split] = Torn]
    BY <1>1, <1>8, <2>1 DEF OpenPredictions, Own, Workers
  <2>3. \A s \in Splits : s < Own.split => predictions'[Own.run][s] = predictions[Own.run][s]
    BY <1>1, <1>2, <2>2 DEF CampaignTypes, Workers
  <2> QED BY <1>1, <1>2, <2>2, <2>3
<1>9. CASE WritePredictions("own")
  <2>1. Own' = [Own EXCEPT !.at = "write", !.split = @ + 1]
    BY <1>3, <1>9 DEF WritePredictions, Own
  <2>2. /\ Own'.at = "write" /\ Own'.split = Own.split + 1 /\ Own'.run = Own.run
        /\ Own'.by = Own.by /\ Own.at = "flush" /\ Own.split \in Splits
        /\ predictions' = [predictions EXCEPT ![Own.run][Own.split] = Made(Own.by, Attempt)]
    BY <1>1, <1>9, <2>1 DEF WritePredictions, Own, Workers
  <2>3. /\ predictions'[Own.run][Own.split] = Made(Own.by, Attempt)
        /\ \A s \in Splits : s # Own.split => predictions'[Own.run][s] = predictions[Own.run][s]
    BY <1>1, <2>2 DEF CampaignTypes, Workers
  <2>4. Own'.split \in 1..(LastSplit + 1)
    BY <1>2, <2>2
  <2>5. \A s \in Splits : s < Own'.split => s < Own.split \/ s = Own.split
    BY <1>2, <2>2
  <2>6. Own.run \notin orphaned =>
          \A s \in Splits : s < Own'.split => predictions'[Own.run][s] = Made(Own.by, Attempt)
    BY <1>1, <2>3, <2>5
  <2> QED BY <1>1, <1>2, <2>2, <2>4, <2>6 DEF Made
<1>10. CASE Written("own")
  <2>1. /\ Own.split \notin Splits /\ Own.at = "write" /\ Own.run \in Native
        /\ Goes("own", "recheck")
    BY <1>4, <1>10 DEF Written, Own
  <2>2. Own.split = LastSplit + 1
    BY <1>1, <1>2, <2>1
  <2> QED BY <1>1, <1>2, <1>5, <2>1, <2>2
<1>11. CASE RecheckExecutable("own")
  <2>1. exe = plan /\ Own.at = "recheck" /\ Goes("own", "verify")
    BY <1>4, <1>11 DEF RecheckExecutable, Own
  <2> QED BY <1>1, <1>2, <1>5, <2>1
<1>12. CASE VerifyPredictions("own") \/ WrapperFails("own")
  BY <1>4, <1>12 DEF VerifyPredictions, WrapperFails
<1>13. CASE PublishPredictions("own")
  <2>1. Own' = [Own EXCEPT !.split = @ + 1]
    BY <1>3, <1>13 DEF PublishPredictions, Own
  <2>2. /\ Own'.at = "write" /\ Own'.split = Own.split + 1 /\ Own'.run = Own.run
        /\ Own'.by = Own.by /\ Own.at = "write" /\ Own.split \in Splits
        /\ Own.run \notin Native
        /\ predictions' = [predictions EXCEPT ![Own.run][Own.split] = Made(Own.by, Attempt)]
    BY <1>1, <1>13, <2>1 DEF PublishPredictions, Own, Workers
  <2>3. /\ predictions'[Own.run][Own.split] = Made(Own.by, Attempt)
        /\ \A s \in Splits : s # Own.split => predictions'[Own.run][s] = predictions[Own.run][s]
    BY <1>1, <2>2 DEF CampaignTypes, Workers
  <2>4. Own'.split \in 1..(LastSplit + 1)
    BY <1>2, <2>2
  <2>5. \A s \in Splits : s < Own'.split => s < Own.split \/ s = Own.split
    BY <1>2, <2>2
  <2>6. Own.run \notin orphaned =>
          \A s \in Splits : s < Own'.split => predictions'[Own.run][s] = Made(Own.by, Attempt)
    BY <1>1, <2>2, <2>3, <2>5
  <2> QED BY <1>1, <1>2, <2>2, <2>4, <2>6 DEF Made
<1> QED BY <1>6, <1>7, <1>8, <1>9, <1>10, <1>11, <1>12, <1>13 DEF Wrapper

\* It ends: one that says "ok" has written every split, and the native one has
\* looked at the executable again.
LEMMA OwnHolds ==
  ASSUME CampaignInv, "own" \in Working, Wrapper("own")
  PROVE  CampaignInv'
<1> USE DEF CampaignInv
<1>1. Endings("own") /\ UNCHANGED <<campaignVars, boundVars, call, result>>
  BY WrapperSteps
<1>2. /\ Own # Idle /\ child = "alive" /\ driver.claim # "ok" /\ driver.at = "call"
      /\ Own.run = driver.run
  BY DEF Working, Own, CallHolds
<1>3. WrapperHolds'
  BY OwnGoesOn DEF WrapperHolds
<1>4. ASSUME driver' = driver PROVE ScoresHold'
  BY <1>2, <1>4 DEF ScoresHold
<1>5. ASSUME predictions' = predictions,
             \E claim \in Claims : /\ claim = "ok" => Finished("own")
                                 /\ driver' = [driver EXCEPT !.claim = claim]
      PROVE  ScoresHold'
  <2>1. PICK claim \in Claims : /\ claim = "ok" => Finished("own")
                                /\ driver' = [driver EXCEPT !.claim = claim]
    BY <1>5
  <2>2. driver'.at = "call" /\ driver'.claim = claim /\ driver'.run = driver.run
    BY <1>2, <2>1 DEF CampaignTypes, Drivers
  <2>3. Finished("own") => Own.split = LastSplit + 1 /\ Own.by = Maker(Own.run)
    BY <1>2, SplitsAre DEF Finished, WrapperHolds, Own, Maker
  <2>4. Finished("own") => Delivered
    <3>1. \A s \in Splits : s < LastSplit + 1
      BY SplitsAre
    <3> QED BY <1>2, <2>3, <3>1 DEF WrapperHolds, Delivered
  <2>5. Delivered => Delivered'
    BY <1>1, <1>5, <2>2 DEF Delivered, Maker, Attempt, campaignVars, boundVars
  <2> QED BY <2>1, <2>2, <2>4, <2>5 DEF ScoresHold
<1>6. ScoresHold'
  BY <1>1, <1>4, <1>5 DEF Endings
<1> QED BY <1>3, <1>6, WrapperKeeps

-----------------------------------------------------------------------------
LEMMA CampaignStep == CampaignInv /\ [CampaignNext]_benchVars => CampaignInv'
<1> SUFFICES ASSUME CampaignInv, [CampaignNext]_benchVars PROVE CampaignInv'
  OBVIOUS
<1>1. CASE Main
  BY <1>1, PublishPlanHolds, ReadAttemptsHolds, NextAttemptHolds, SummarizeHolds,
     LaunchWrapperHolds, LaunchFailsHolds, LaunchFailedHolds, ScoreHolds, AppendWholeHolds,
     AppendCutHolds DEF Main
<1>2. CASE CallProgress
  BY <1>2, KillWrapperHolds, WrapperDiesHolds, CallReturnsHolds DEF CallProgress
<1>3. CASE \E w \in Working : Wrapper(w)
  BY <1>3, OwnHolds, OrphanHolds DEF Working
<1>4. CASE UNCHANGED benchVars
  <2> USE <1>4 DEF CampaignInv, benchVars, campaignVars, boundVars, callVars
  <2>1. CampaignTypes' /\ PlanHolds' /\ DriverKnows' /\ CallHolds'
    BY DEF CampaignTypes, PlanHolds, DriverKnows, CallHolds, Own, Attempt, Lines, Recorded
  <2>2. WrapperHolds' /\ RecordsAreEarned'
    BY WrapperStays, EarnedStays
  <2>3. ScoresHold'
    BY DEF ScoresHold, Delivered, Maker, Attempt, LastSplit
  <2> QED BY <2>1, <2>2, <2>3
<1> QED BY <1>1, <1>2, <1>3, <1>4, ResumeHolds, KillDriverHolds, RebuildHolds DEF CampaignNext

\* The records are earned: no run is recorded twice over any sequence of kills,
\* resumptions and short writes, a summary stands for a raw.jsonl with one whole
\* line per planned run, and a record that says "ok" scores every split from a
\* file that this very attempt wrote, in the native case with the executable the
\* plan names, unless an orphan has worked on the run.
THEOREM RecordsStayEarned == CampaignSpec => []RecordsAreEarned
<1>1. CampaignInv => RecordsAreEarned
  BY DEF CampaignInv
<1> QED BY InitHolds, CampaignStep, <1>1, PTL DEF CampaignSpec
================================================================================
