----------------------- MODULE GenerationEpisodeProofs -----------------------
(***************************************************************************)
(* A child in the lifecycle is earned, and an episode settles: for every   *)
(* set of parents, plans, corpora, policies and live corpora, however many *)
(* lines are misprinted and episodes fail.                                 *)
(*                                                                         *)
(* A machine keeps its scores when a literal is added or dropped, and when *)
(* it is exported.                                                         *)
(*                                                                         *)
(* A child is earned because the lifecycle takes only a lineage that its   *)
(* own corpora lead to once more, by an honest collective.  What that      *)
(* derives from the two kinds of session comes first; then EpisodeInv,     *)
(* which carries the order of the lifecycle's events and what the caller   *)
(* holds between them.                                                     *)
(*                                                                         *)
(* That an episode settles is of two parts.  Whatever fails, a call leaves *)
(* nothing behind: SettleInv says of each place in it what is in progress. *)
(* When nothing fails, what it built is recorded: SmoothInv carries that   *)
(* the replay would derive it again, which needs that training keeps a     *)
(* machine well formed, that a compiled one is deployable, and that an     *)
(* answer which is taken says all that an honest one would.                *)
(***************************************************************************)
EXTENDS GenerationEpisode, ThresholdPromotionProofs

(***************************************************************************)
(* What a generation may do to a machine without changing what it says:    *)
(* extend it by a feature, contract two features that agree, and export    *)
(* its masks (model_generation.py, model_artifact.py).  For machines of    *)
(* any size, whatever their automata have learnt.                          *)
(***************************************************************************)

\* The clauses that are on decide the score.
On(m, row) == {c \in TM!ClausesOf(m) : TM!ClauseOutput(m, c, row)}

LEMMA SameClausesOn ==
  ASSUME NEW m, NEW n, NEW row, NEW other,
         m.margin = n.margin, On(m, row) = On(n, other)
  PROVE  TM!Score(m, row) = TM!Score(n, other)
BY DEF TM!Score, On

LEMMA StatesAreSequences ==
  ASSUME NEW n \in Nat, NEW S, NEW s \in [1 .. n -> S]
  PROVE  s \in Seq(S) /\ Len(s) = n /\ DOMAIN s = 1 .. n
OBVIOUS

LEMMA ShapeOf ==
  ASSUME NEW clauses \in Nat \ {0}, NEW features \in Nat \ {0}, NEW depth \in Nat \ {0},
         NEW specificity, NEW margin,
         NEW m \in TM!Machines(clauses, features, depth, specificity, margin)
  PROVE  /\ TM!ClausesOf(m) = 1 .. clauses /\ TM!FeaturesOf(m) = 1 .. features
         /\ m.depth = depth
         /\ \A c \in 1 .. clauses : m.states[c] \in
              [1 .. features -> [pos : 1 .. (2 * depth), neg : 1 .. (2 * depth)]]
<1>1. /\ m.depth = depth
      /\ m.states \in [1 .. clauses ->
           [1 .. features -> [pos : 1 .. (2 * depth), neg : 1 .. (2 * depth)]]]
  BY DEF TM!Machines
<1>2. 1 \in 1 .. clauses
  OBVIOUS
<1> QED BY <1>1, <1>2 DEF TM!ClausesOf, TM!FeaturesOf

\* The extension of a child by a new threshold: until it has been trained, it
\* scores every row as its parent does, whatever the new literal is
\* (model_generation.py: extend_snapshot_features).
THEOREM ExtensionKeepsScores ==
  ASSUME NEW clauses \in Nat \ {0}, NEW features \in Nat \ {0}, NEW depth \in Nat \ {0},
         NEW specificity, NEW margin,
         NEW m \in TM!Machines(clauses, features, depth, specificity, margin),
         NEW row \in [1 .. features -> BOOLEAN], NEW literal \in BOOLEAN
  PROVE  TM!Score(TM!Extend(m), Append(row, literal)) = TM!Score(m, row)
<1> DEFINE e == TM!Extend(m)
           States == [pos : 1 .. (2 * depth), neg : 1 .. (2 * depth)]
           wide == Append(row, literal)
<1>1. /\ TM!ClausesOf(m) = 1 .. clauses /\ TM!FeaturesOf(m) = 1 .. features /\ m.depth = depth
      /\ \A c \in 1 .. clauses : m.states[c] \in [1 .. features -> States]
  BY ONLY ShapeOf, clauses \in Nat \ {0}, features \in Nat \ {0}, depth \in Nat \ {0},
          m \in TM!Machines(clauses, features, depth, specificity, margin)
<1>2. /\ e.depth = depth /\ e.margin = m.margin
      /\ DOMAIN e.states = 1 .. clauses
      /\ \A c \in 1 .. clauses : e.states[c] = Append(m.states[c], TM!Pair(depth, depth))
  BY <1>1 DEF TM!Extend, TM!Machines, TM!ClausesOf
<1>3. \A c \in 1 .. clauses :
        /\ DOMAIN e.states[c] = 1 .. (features + 1)
        /\ \A f \in 1 .. features : e.states[c][f] = m.states[c][f]
        /\ e.states[c][features + 1] = TM!Pair(depth, depth)
  <2> TAKE c \in 1 .. clauses
  <2>1. /\ m.states[c] \in Seq(States) /\ Len(m.states[c]) = features
        /\ DOMAIN m.states[c] = 1 .. features
    BY <1>1, StatesAreSequences
  <2>2. TM!Pair(depth, depth) \in States
    BY DEF TM!Pair
  <2> HIDE DEF States
  <2>3. LET s == Append(m.states[c], TM!Pair(depth, depth)) IN
          /\ s \in Seq(States) /\ Len(s) = features + 1
          /\ \A f \in 1 .. features : s[f] = m.states[c][f]
          /\ s[features + 1] = TM!Pair(depth, depth)
    BY <2>1, <2>2
  <2>4. e.states[c] \in Seq(States) /\ Len(e.states[c]) = features + 1
    BY <2>3, <1>2
  <2>5. DOMAIN e.states[c] = 1 .. (features + 1)
    BY <2>4
  <2> QED BY <2>3, <2>5, <1>2
<1>4. wide[features + 1] = literal /\ \A f \in 1 .. features : wide[f] = row[f]
  <2>1. row \in Seq(BOOLEAN) /\ Len(row) = features
    BY StatesAreSequences
  <2> QED BY <2>1
<1>5. TM!ClausesOf(e) = 1 .. clauses /\ TM!FeaturesOf(e) = 1 .. (features + 1)
  <2>1. 1 \in 1 .. clauses
    OBVIOUS
  <2> QED BY <2>1, <1>2, <1>3 DEF TM!ClausesOf, TM!FeaturesOf
<1>6. ASSUME NEW c \in 1 .. clauses
      PROVE  TM!ClauseOutput(e, c, wide) <=> TM!ClauseOutput(m, c, row)
  <2>1. \A f \in 1 .. features : /\ TM!Includes(e, c, f) <=> TM!Includes(m, c, f)
                                 /\ TM!Excludes(e, c, f) <=> TM!Excludes(m, c, f)
    BY <1>1, <1>2, <1>3 DEF TM!Includes, TM!Excludes
  <2>2. ~TM!Includes(e, c, features + 1) /\ ~TM!Excludes(e, c, features + 1)
    BY <1>2, <1>3 DEF TM!Includes, TM!Excludes, TM!Pair
  <2>3. \A f \in 1 .. (features + 1) : f \in 1 .. features \/ f = features + 1
    OBVIOUS
  <2>4. \A f \in 1 .. features : f \in 1 .. (features + 1)
    OBVIOUS
  <2>5. TM!EmptyClause(e, c) <=> TM!EmptyClause(m, c)
    BY <2>1, <2>2, <2>3, <2>4, <1>1, <1>5 DEF TM!EmptyClause
  <2>6. TM!Agrees(e, c, wide) <=> TM!Agrees(m, c, row)
    BY <2>1, <2>2, <2>3, <2>4, <1>1, <1>4, <1>5 DEF TM!Agrees
  <2> QED BY <2>5, <2>6 DEF TM!ClauseOutput
<1>7. On(e, wide) = On(m, row)
  BY <1>1, <1>5, <1>6 DEF On
<1> QED BY <1>2, <1>7, SameClausesOn

\* The contraction of two literals that agree: on every row on which they do,
\* the child scores as the parent does (model_generation.py:
\* contract_snapshot_equivalent_feature).
THEOREM ContractionKeepsScores ==
  ASSUME NEW clauses \in Nat \ {0}, NEW features \in Nat \ {0}, NEW depth \in Nat \ {0},
         NEW specificity, NEW margin,
         NEW m \in TM!Machines(clauses, features, depth, specificity, margin),
         NEW row \in [1 .. features -> BOOLEAN],
         NEW k \in 1 .. features, NEW r \in 1 .. features, k < r, row[k] = row[r]
  PROVE  TM!Score(TM!Contract(m, k, r), TM!Without(row, r)) = TM!Score(m, row)
<1> DEFINE States == [pos : 1 .. (2 * depth), neg : 1 .. (2 * depth)]
<1>1. /\ TM!ClausesOf(m) = 1 .. clauses /\ TM!FeaturesOf(m) = 1 .. features /\ m.depth = depth
      /\ \A c \in 1 .. clauses : m.states[c] \in [1 .. features -> States]
  BY ONLY ShapeOf, clauses \in Nat \ {0}, features \in Nat \ {0}, depth \in Nat \ {0},
          m \in TM!Machines(clauses, features, depth, specificity, margin)
<1> DEFINE e == TM!Contract(m, k, r)
           narrow == TM!Without(row, r)
           Place(f) == IF f < r THEN f ELSE f + 1
<1>2. /\ e.depth = depth /\ e.margin = m.margin
      /\ DOMAIN e.states = 1 .. clauses
      /\ \A c \in 1 .. clauses :
           e.states[c] = TM!Without([m.states[c] EXCEPT ![k] = TM!Stronger(@, m.states[c][r])], r)
  BY <1>1 DEF TM!Contract, TM!Machines, TM!ClausesOf
<1>3. \A c \in 1 .. clauses :
        /\ DOMAIN e.states[c] = 1 .. (features - 1)
        /\ \A f \in 1 .. (features - 1) :
             e.states[c][f] = IF f = k THEN TM!Stronger(m.states[c][k], m.states[c][r])
                              ELSE m.states[c][Place(f)]
  <2> TAKE c \in 1 .. clauses
  <2> DEFINE s == [m.states[c] EXCEPT ![k] = TM!Stronger(@, m.states[c][r])]
  <2>1. DOMAIN s = 1 .. features /\ s[k] = TM!Stronger(m.states[c][k], m.states[c][r])
        /\ \A f \in 1 .. features : f # k => s[f] = m.states[c][f]
    BY <1>1
  <2>2. Len(s) = features
    BY <2>1
  <2> HIDE DEF s
  <2>3. TM!Without(s, r) = [f \in 1 .. (features - 1) |-> IF f < r THEN s[f] ELSE s[f + 1]]
    BY <2>2 DEF TM!Without
  <2>4. e.states[c] = TM!Without(s, r)
    BY <1>2 DEF s
  <2>5. DOMAIN e.states[c] = 1 .. (features - 1)
    BY <2>3, <2>4
  <2>6. ASSUME NEW f \in 1 .. (features - 1)
        PROVE  e.states[c][f] = IF f = k THEN TM!Stronger(m.states[c][k], m.states[c][r])
                                ELSE m.states[c][Place(f)]
    <3>1. e.states[c][f] = s[Place(f)] /\ Place(f) \in 1 .. features
      BY <2>3, <2>4
    <3>2. Place(f) = k <=> f = k
      OBVIOUS
    <3> HIDE DEF Place
    <3> QED BY <3>1, <3>2, <2>1
  <2> QED BY <2>5, <2>6
<1>4. \A f \in 1 .. (features - 1) : narrow[f] = row[Place(f)]
  <2>1. Len(row) = features
    BY StatesAreSequences
  <2> QED BY <2>1 DEF TM!Without
<1>5. TM!ClausesOf(e) = 1 .. clauses /\ TM!FeaturesOf(e) = 1 .. (features - 1)
  <2>1. 1 \in 1 .. clauses
    OBVIOUS
  <2> QED BY <2>1, <1>2, <1>3 DEF TM!ClausesOf, TM!FeaturesOf
<1>6. ASSUME NEW c \in 1 .. clauses
      PROVE  TM!ClauseOutput(e, c, narrow) <=> TM!ClauseOutput(m, c, row)
  <2>1. \A f \in 1 .. (features - 1) : f # k =>
          /\ TM!Includes(e, c, f) <=> TM!Includes(m, c, Place(f))
          /\ TM!Excludes(e, c, f) <=> TM!Excludes(m, c, Place(f))
    BY <1>1, <1>2, <1>3 DEF TM!Includes, TM!Excludes
  <2>2. k \in 1 .. (features - 1) /\ Place(k) = k
    OBVIOUS
  <2>3. /\ m.states[c][k] \in States /\ m.states[c][r] \in States
        /\ e.states[c][k] = TM!Stronger(m.states[c][k], m.states[c][r])
    BY <1>1, <1>3, <2>2
  <2>4. /\ TM!Includes(e, c, k) <=> TM!Includes(m, c, k) \/ TM!Includes(m, c, r)
        /\ TM!Excludes(e, c, k) <=> TM!Excludes(m, c, k) \/ TM!Excludes(m, c, r)
    <3>1. ASSUME NEW x \in States, NEW y \in States
          PROVE  /\ TM!Stronger(x, y).pos > depth <=> x.pos > depth \/ y.pos > depth
                 /\ TM!Stronger(x, y).neg > depth <=> x.neg > depth \/ y.neg > depth
      BY DEF TM!Stronger, TM!Pair
    <3> HIDE DEF States
    <3> QED BY <3>1, <1>1, <1>2, <2>3 DEF TM!Includes, TM!Excludes
  <2>5. /\ \A f \in 1 .. (features - 1) : Place(f) \in 1 .. features
        /\ \A g \in 1 .. features : g = r \/ \E f \in 1 .. (features - 1) : g = Place(f)
    <3>1. \A f \in 1 .. (features - 1) : Place(f) \in 1 .. features
      OBVIOUS
    <3>2. ASSUME NEW g \in 1 .. features, g # r
          PROVE  \E f \in 1 .. (features - 1) : g = Place(f)
      <4>1. CASE g < r
        <5>1. g \in 1 .. (features - 1) /\ g = Place(g)
          BY <4>1
        <5> QED BY <5>1
      <4>2. CASE g > r
        <5>1. g - 1 \in 1 .. (features - 1) /\ g = Place(g - 1)
          BY <4>2
        <5> QED BY <5>1
      <4> QED BY <3>2, <4>1, <4>2
    <3> QED BY <3>1, <3>2
  <2> HIDE DEF Place
  <2>6. TM!EmptyClause(e, c) <=> TM!EmptyClause(m, c)
    <3>1. ASSUME TM!EmptyClause(e, c), NEW g \in 1 .. features
          PROVE  ~TM!Includes(m, c, g) /\ ~TM!Excludes(m, c, g)
      <4>1. CASE g \in {k, r}
        BY <3>1, <4>1, <2>2, <2>4, <1>5 DEF TM!EmptyClause
      <4>2. CASE g \notin {k, r}
        <5>1. PICK f \in 1 .. (features - 1) : g = Place(f)
          BY <4>2, <2>5
        <5> QED BY <3>1, <4>2, <5>1, <2>1, <2>2, <1>5 DEF TM!EmptyClause
      <4> QED BY <4>1, <4>2
    <3>2. ASSUME TM!EmptyClause(m, c), NEW f \in 1 .. (features - 1)
          PROVE  ~TM!Includes(e, c, f) /\ ~TM!Excludes(e, c, f)
      <4>1. CASE f = k
        BY <3>2, <4>1, <2>4, <1>1 DEF TM!EmptyClause
      <4>2. CASE f # k
        BY <3>2, <4>2, <2>1, <2>5, <1>1 DEF TM!EmptyClause
      <4> QED BY <4>1, <4>2
    <3> QED BY <3>1, <3>2, <1>1, <1>5 DEF TM!EmptyClause
  <2>7. TM!Agrees(e, c, narrow) <=> TM!Agrees(m, c, row)
    <3>1. ASSUME TM!Agrees(e, c, narrow), NEW g \in 1 .. features
          PROVE  (TM!Includes(m, c, g) => row[g]) /\ (TM!Excludes(m, c, g) => ~row[g])
      <4>1. CASE g \in {k, r}
        <5>1. /\ TM!Includes(e, c, k) => narrow[k]
              /\ TM!Excludes(e, c, k) => ~narrow[k]
          BY <3>1, <2>2, <1>5 DEF TM!Agrees
        <5>2. narrow[k] = row[k]
          BY <2>2, <1>4
        <5> QED BY <5>1, <5>2, <4>1, <2>4
      <4>2. CASE g \notin {k, r}
        <5>1. PICK f \in 1 .. (features - 1) : g = Place(f)
          BY <4>2, <2>5
        <5>2. f # k
          BY <5>1, <4>2, <2>2
        <5>3. /\ TM!Includes(e, c, f) => narrow[f]
              /\ TM!Excludes(e, c, f) => ~narrow[f]
          BY <3>1, <1>5 DEF TM!Agrees
        <5>4. narrow[f] = row[g]
          BY <5>1, <1>4
        <5> QED BY <5>1, <5>2, <5>3, <5>4, <2>1
      <4> QED BY <4>1, <4>2
    <3>2. ASSUME TM!Agrees(m, c, row), NEW f \in 1 .. (features - 1)
          PROVE  (TM!Includes(e, c, f) => narrow[f]) /\ (TM!Excludes(e, c, f) => ~narrow[f])
      <4>1. narrow[f] = row[Place(f)] /\ Place(f) \in 1 .. features
        BY <1>4, <2>5
      <4>2. CASE f = k
        BY <3>2, <4>1, <4>2, <2>2, <2>4, <1>1 DEF TM!Agrees
      <4>3. CASE f # k
        BY <3>2, <4>1, <4>3, <2>1, <1>1 DEF TM!Agrees
      <4> QED BY <4>2, <4>3
    <3> QED BY <3>1, <3>2, <1>1, <1>5 DEF TM!Agrees
  <2> QED BY <2>6, <2>7 DEF TM!ClauseOutput
<1>7. On(e, narrow) = On(m, row)
  BY <1>1, <1>5, <1>6 DEF On
<1> QED BY <1>2, <1>7, SameClausesOn

\* An exported machine scores as the one it was exported from: the evaluation
\* of its masks agrees with the clauses of the reference on every row, an empty
\* clause included (model_artifact.py: export_packed_tm, _evaluate_masks).
THEOREM ExportKeepsScores ==
  ASSUME NEW clauses \in Nat \ {0}, NEW features \in Nat \ {0}, NEW depth \in Nat \ {0},
         NEW specificity, NEW margin,
         NEW m \in TM!Machines(clauses, features, depth, specificity, margin),
         NEW row \in [1 .. features -> BOOLEAN]
  PROVE  TM!MaskScore(TM!Export(m), row) = TM!Score(m, row)
<1> DEFINE a == TM!Export(m)
<1>1. TM!ClausesOf(m) = 1 .. clauses /\ TM!FeaturesOf(m) = 1 .. features
  BY ShapeOf
<1>2. /\ a.margin = m.margin /\ DOMAIN a.positive = 1 .. clauses
      /\ \A c \in 1 .. clauses :
           /\ a.positive[c] = {f \in 1 .. features : TM!Includes(m, c, f)}
           /\ a.negative[c] = {f \in 1 .. features : TM!Excludes(m, c, f)}
  BY <1>1 DEF TM!Export
<1>3. ASSUME NEW c \in 1 .. clauses
      PROVE  TM!MaskOutput(a, c, row) <=> TM!ClauseOutput(m, c, row)
  BY <1>1, <1>2 DEF TM!MaskOutput, TM!ClauseOutput, TM!EmptyClause, TM!Agrees
<1>4. {c \in DOMAIN a.positive : TM!MaskOutput(a, c, row)} = On(m, row)
  BY <1>1, <1>2, <1>3 DEF On
<1> QED BY <1>2, <1>4 DEF TM!MaskScore, TM!Score, On
-----------------------------------------------------------------------------
(***************************************************************************)
(* The episode: what its corpora's sessions hold, and what the collective  *)
(* derives from them.                                                      *)
(***************************************************************************)

\* What an invention session holds of its corpus.
Invented(c) == IsCorpus(c) /\ \A i \in DOMAIN c : i \in Examples /\ AnInt(c[i].num) \in Values

LEMMA CorpusTypes ==
  ASSUME NEW c, IsCorpus(c)
  PROVE  /\ Len(c) \in Nat /\ DOMAIN c = 1 .. Len(c)
         /\ \A i \in DOMAIN c : c[i].num \in Int /\ c[i].label \in Bits /\ c[i].id \in Ids(c)
         /\ IsFiniteSet(DOMAIN c) /\ Cardinality(DOMAIN c) = Len(c)
<1>1. Len(c) \in Nat /\ DOMAIN c = 1 .. Len(c)
  BY DEF IsCorpus
<1>2. IsFiniteSet(1 .. Len(c)) /\ Cardinality(1 .. Len(c)) = Len(c)
  <2> DEFINE n == Len(c)
  <2>1. n \in Nat /\ n \in Int /\ 1 \in Int
    BY <1>1
  <2> HIDE DEF n
  <2>2. IsFiniteSet(1 .. n) /\ Cardinality(1 .. n) = IF 1 > n THEN 0 ELSE n - 1 + 1
    BY <2>1, FS_Interval
  <2>3. Cardinality(1 .. n) = n
    BY <2>1, <2>2
  <2> QED BY <2>2, <2>3 DEF n
<1>3. \A i \in DOMAIN c : c[i].num \in Int /\ c[i].label \in Bits /\ c[i].id \in Ids(c)
  <2> DEFINE S == [id : Ids(c), num : Int, label : Bits]
  <2>1. \A x \in S : x.num \in Int /\ x.label \in Bits /\ x.id \in Ids(c)
    OBVIOUS
  <2>2. c \in Seq(S)
    BY DEF IsCorpus
  <2> HIDE DEF S
  <2>3. \A i \in DOMAIN c : c[i] \in S
    BY <2>2
  <2> QED BY <2>1, <2>3
<1> QED BY <1>1, <1>2, <1>3

LEMMA InventedFacts ==
  ASSUME NEW c, Invented(c), NEW s, s = InventionSession(c)
  PROVE  /\ \A e \in Examples : LabelsOf(s, e) = IF e \in DOMAIN c THEN {c[e].label} ELSE {}
         /\ \A e \in Examples : ValuesOf(s, e, Field) =
              IF e \in DOMAIN c THEN {AnInt(c[e].num)} ELSE {}
         /\ Labelled(s) = DOMAIN c
<1>1. \A i \in DOMAIN c : i \in Examples /\ AnInt(c[i].num) \in Values /\ c[i].label \in Bits
  BY CorpusTypes DEF Invented
<1>2. /\ s.observations = [i \in DOMAIN c |-> Observation(i, Field, AnInt(c[i].num))]
      /\ s.example_labels = [i \in DOMAIN c |-> Label(i, c[i].label)]
  BY DEF InventionSession, EmptySession
<1>3. /\ FactsOf(s, "observations") = {Observation(i, Field, AnInt(c[i].num)) : i \in DOMAIN c}
      /\ FactsOf(s, "example_labels") = {Label(i, c[i].label) : i \in DOMAIN c}
  BY <1>2 DEF FactsOf
<1>4. ASSUME NEW e \in Examples
      PROVE  LabelsOf(s, e) = IF e \in DOMAIN c THEN {c[e].label} ELSE {}
  <2>1. \A y \in Bits : Label(e, y) \in FactsOf(s, "example_labels") <=> e \in DOMAIN c /\ y = c[e].label
    BY <1>3 DEF Label
  <2> QED BY <2>1, <1>1 DEF LabelsOf
<1>5. ASSUME NEW e \in Examples
      PROVE  ValuesOf(s, e, Field) = IF e \in DOMAIN c THEN {AnInt(c[e].num)} ELSE {}
  <2>1. \A v \in Values : Observation(e, Field, v) \in FactsOf(s, "observations")
                            <=> e \in DOMAIN c /\ v = AnInt(c[e].num)
    BY <1>3 DEF Observation
  <2> QED BY <2>1, <1>1 DEF ValuesOf
<1>6. Labelled(s) = DOMAIN c
  BY <1>1, <1>4 DEF Labelled
<1> QED BY <1>4, <1>5, <1>6

\* Its terms are the numbers of the corpus, each with the labels it comes with.
LEMMA InventedTerms ==
  ASSUME NEW c, Invented(c), NEW s, s = InventionSession(c)
  PROVE  /\ Terms(s, Field) = {AnInt(c[i].num) : i \in DOMAIN c}
         /\ \A v : StateOf(s, Field, v) = {c[i].label : i \in {i \in DOMAIN c : AnInt(c[i].num) = v}}
<1>1. \A i \in DOMAIN c : i \in Examples
  BY DEF Invented
<1>2. /\ Labelled(s) = DOMAIN c
      /\ \A i \in DOMAIN c : LabelsOf(s, i) = {c[i].label} /\ ValuesOf(s, i, Field) = {AnInt(c[i].num)}
  BY <1>1, InventedFacts
<1>3. Terms(s, Field) = {AnInt(c[i].num) : i \in DOMAIN c}
  BY <1>2 DEF Terms
<1>4. ASSUME NEW v
      PROVE  StateOf(s, Field, v) = {c[i].label : i \in {i \in DOMAIN c : AnInt(c[i].num) = v}}
  <2>1. {d \in Labelled(s) : v \in ValuesOf(s, d, Field)} = {i \in DOMAIN c : AnInt(c[i].num) = v}
    BY <1>2
  <2> QED BY <1>2, <2>1 DEF StateOf
<1> QED BY <1>3, <1>4

LEMMA IntsInOrder ==
  ASSUME NEW n \in Int, NEW m \in Int
  PROVE  /\ Before(AnInt(n), AnInt(m)) <=> n < m
         /\ AnInt(n) = AnInt(m) <=> n = m
         /\ Mid(AnInt(n), AnInt(m)) = n + m
BY DEF Before, AnInt, Mid

\* The flips of an invention session are the pure flips of its corpus.
LEMMA FlipsArePure ==
  ASSUME NEW c, Invented(c), NEW at \in Flips(InventionSession(c), Field)
  PROVE  PureFlip(c, at)
<1> DEFINE s == InventionSession(c)
<1>1. \A i \in DOMAIN c : c[i].num \in Int /\ c[i].label \in Bits
  BY CorpusTypes DEF Invented
<1>2. /\ Terms(s, Field) = {AnInt(c[i].num) : i \in DOMAIN c}
      /\ \A v : StateOf(s, Field, v) = {c[i].label : i \in {i \in DOMAIN c : AnInt(c[i].num) = v}}
  BY InventedTerms
<1> HIDE DEF s
<1>3. PICK p \in Terms(s, Field) \X Terms(s, Field) :
        /\ at = Mid(p[1], p[2]) /\ Follows(Terms(s, Field), p[1], p[2])
        /\ {StateOf(s, Field, p[1]), StateOf(s, Field, p[2])} = {{0}, {1}}
  BY DEF Flips, s
<1>4. PICK i \in DOMAIN c : p[1] = AnInt(c[i].num)
  BY <1>2, <1>3
<1>5. PICK j \in DOMAIN c : p[2] = AnInt(c[j].num)
  BY <1>2, <1>3
<1>6. /\ c[i].num < c[j].num /\ at = c[i].num + c[j].num
      /\ \A k \in DOMAIN c : ~(c[i].num < c[k].num /\ c[k].num < c[j].num)
  <2>1. Before(p[1], p[2]) /\ \A k \in DOMAIN c :
          ~(Before(p[1], AnInt(c[k].num)) /\ Before(AnInt(c[k].num), p[2]))
    BY <1>2, <1>3 DEF Follows
  <2>2. c[i].num < c[j].num /\ at = c[i].num + c[j].num
    <3>1. c[i].num \in Int /\ c[j].num \in Int
      BY <1>1
    <3>2. /\ Before(AnInt(c[i].num), AnInt(c[j].num)) <=> c[i].num < c[j].num
          /\ Mid(AnInt(c[i].num), AnInt(c[j].num)) = c[i].num + c[j].num
      BY <3>1, IntsInOrder
    <3>3. Before(AnInt(c[i].num), AnInt(c[j].num)) /\ at = Mid(AnInt(c[i].num), AnInt(c[j].num))
      BY <1>3, <1>4, <1>5, <2>1
    <3> QED BY <3>2, <3>3
  <2>3. ASSUME NEW k \in DOMAIN c PROVE ~(c[i].num < c[k].num /\ c[k].num < c[j].num)
    <3>1. ~(Before(p[1], AnInt(c[k].num)) /\ Before(AnInt(c[k].num), p[2]))
      BY <2>1
    <3>2. c[i].num \in Int /\ c[k].num \in Int /\ c[j].num \in Int
      BY <1>1
    <3>3. /\ Before(AnInt(c[i].num), AnInt(c[k].num)) <=> c[i].num < c[k].num
          /\ Before(AnInt(c[k].num), AnInt(c[j].num)) <=> c[k].num < c[j].num
      BY <3>2, IntsInOrder
    <3> QED BY <1>4, <1>5, <3>1, <3>3
  <2> QED BY <2>2, <2>3
<1>7. /\ \A k \in DOMAIN c : c[k].num = c[i].num => c[k].label \in StateOf(s, Field, p[1])
      /\ \A k \in DOMAIN c : c[k].num = c[j].num => c[k].label \in StateOf(s, Field, p[2])
  BY <1>2, <1>4, <1>5 DEF AnInt
<1>8. PICK y, z \in Bits : StateOf(s, Field, p[1]) = {y} /\ StateOf(s, Field, p[2]) = {z} /\ y # z
  <2> DEFINE A == StateOf(s, Field, p[1])
             B == StateOf(s, Field, p[2])
  <2>1. {A, B} = {{0}, {1}}
    BY <1>3
  <2> HIDE DEF A, B
  <2>2. (A = {0} /\ B = {1}) \/ (A = {1} /\ B = {0})
    <3>1. 0 # 1
      OBVIOUS
    <3>2. {0} # {1}
      BY <3>1, Zenon
    <3> QED BY <2>1, <3>2, Zenon
  <2>3. 0 \in Bits /\ 1 \in Bits
    BY DEF Bits
  <2> QED BY <2>2, <2>3 DEF A, B
<1>9. /\ c[i].label = y /\ c[j].label = z
      /\ \A k \in DOMAIN c : c[k].num = c[i].num => c[k].label = y
      /\ \A k \in DOMAIN c : c[k].num = c[j].num => c[k].label = z
  BY <1>7, <1>8
<1>10. c[i] \in ExamplesOf(c) /\ c[j] \in ExamplesOf(c)
  BY DEF ExamplesOf
<1>11. \A x \in ExamplesOf(c) : \E k \in DOMAIN c : x = c[k]
  BY DEF ExamplesOf
<1> QED BY <1>6, <1>8, <1>9, <1>10, <1>11 DEF PureFlip

LEMMA PureFlipsAreFlips ==
  ASSUME NEW c, Invented(c), NEW at, PureFlip(c, at)
  PROVE  at \in Flips(InventionSession(c), Field)
<1> DEFINE s == InventionSession(c)
<1>1. \A i \in DOMAIN c : c[i].num \in Int /\ c[i].label \in Bits
  BY CorpusTypes DEF Invented
<1>2. /\ Terms(s, Field) = {AnInt(c[i].num) : i \in DOMAIN c}
      /\ \A v : StateOf(s, Field, v) = {c[i].label : i \in {i \in DOMAIN c : AnInt(c[i].num) = v}}
  BY InventedTerms
<1> HIDE DEF s
<1>3. PICK i, j \in DOMAIN c :
        /\ c[i].num < c[j].num /\ at = c[i].num + c[j].num /\ c[i].label # c[j].label
        /\ \A k \in DOMAIN c :
             /\ c[k].num = c[i].num => c[k].label = c[i].label
             /\ c[k].num = c[j].num => c[k].label = c[j].label
             /\ ~(c[i].num < c[k].num /\ c[k].num < c[j].num)
  BY DEF PureFlip, ExamplesOf
<1> DEFINE v == AnInt(c[i].num)
           w == AnInt(c[j].num)
<1>4. v \in Terms(s, Field) /\ w \in Terms(s, Field)
  BY <1>2
<1>5. at = Mid(v, w) /\ Before(v, w)
  BY <1>1, <1>3, IntsInOrder
<1>6. ASSUME NEW u \in Terms(s, Field) PROVE ~(Before(v, u) /\ Before(u, w))
  <2>1. PICK k \in DOMAIN c : u = AnInt(c[k].num)
    BY <1>2
  <2> QED BY <1>1, <1>3, <2>1, IntsInOrder
<1>7. StateOf(s, Field, v) = {c[i].label} /\ StateOf(s, Field, w) = {c[j].label}
  <2>1. \A k \in DOMAIN c : (AnInt(c[k].num) = v <=> c[k].num = c[i].num)
                            /\ (AnInt(c[k].num) = w <=> c[k].num = c[j].num)
    BY DEF AnInt
  <2> HIDE DEF v, w
  <2>2. i \in {k \in DOMAIN c : AnInt(c[k].num) = v} /\ j \in {k \in DOMAIN c : AnInt(c[k].num) = w}
    BY <2>1
  <2> QED BY <1>2, <1>3, <2>1, <2>2
<1> HIDE DEF v, w
<1>8. {StateOf(s, Field, v), StateOf(s, Field, w)} = {{0}, {1}}
  BY <1>1, <1>3, <1>7 DEF Bits
<1>9. <<v, w>> \in Terms(s, Field) \X Terms(s, Field) /\ Follows(Terms(s, Field), v, w)
  BY <1>4, <1>5, <1>6 DEF Follows
<1>10. \E p \in Terms(s, Field) \X Terms(s, Field) :
         /\ at = Mid(p[1], p[2]) /\ Follows(Terms(s, Field), p[1], p[2])
         /\ {StateOf(s, Field, p[1]), StateOf(s, Field, p[2])} = {{0}, {1}}
  BY <1>5, <1>8, <1>9
<1> QED BY <1>10 DEF Flips, s
-----------------------------------------------------------------------------
\* The examples on which the old behavior is right or not, and the new.
Cell(old, new, c, o, n) == {i \in DOMAIN c : Right(old, c[i]) = o /\ Right(new, c[i]) = n}

LEMMA CellsAreCounted ==
  ASSUME NEW c, IsCorpus(c), NEW old, NEW new, NEW o \in BOOLEAN, NEW n \in BOOLEAN
  PROVE  /\ IsFiniteSet(Cell(old, new, c, o, n))
         /\ Partition(old, new, c, o, n) = Cardinality(Cell(old, new, c, o, n))
         /\ Cardinality(Cell(old, new, c, o, n)) \in Nat
<1>1. IsFiniteSet(DOMAIN c)
  BY CorpusTypes
<1>2. Cell(old, new, c, o, n) \subseteq DOMAIN c
  BY DEF Cell
<1>3. IsFiniteSet(Cell(old, new, c, o, n))
  BY <1>1, <1>2, FS_Subset
<1> QED BY <1>3, FS_CardinalityType DEF Partition, Cell

LEMMA ErrorsAreCells ==
  ASSUME NEW c, IsCorpus(c), NEW old, NEW new, NEW b \in {old, new}
  PROVE  /\ Errors(b, c) \in Nat
         /\ Errors(new, c) = Cardinality(Cell(old, new, c, FALSE, FALSE))
                               + Cardinality(Cell(old, new, c, TRUE, FALSE))
         /\ Errors(old, c) = Cardinality(Cell(old, new, c, FALSE, FALSE))
                               + Cardinality(Cell(old, new, c, FALSE, TRUE))
<1> DEFINE FF == Cell(old, new, c, FALSE, FALSE)
           FT == Cell(old, new, c, FALSE, TRUE)
           TF == Cell(old, new, c, TRUE, FALSE)
           bad(x) == {i \in DOMAIN c : ~Right(x, c[i])}
<1>1. IsFiniteSet(FF) /\ IsFiniteSet(FT) /\ IsFiniteSet(TF)
  BY CellsAreCounted
<1>2. bad(new) = FF \union TF /\ bad(old) = FF \union FT /\ FF \intersect TF = {} /\ FF \intersect FT = {}
  BY DEF Cell, Right
<1>3. Errors(new, c) = Cardinality(bad(new)) /\ Errors(old, c) = Cardinality(bad(old))
  BY DEF Errors
<1>4. b = old \/ b = new
  OBVIOUS
<1> HIDE DEF FF, FT, TF, bad
<1>5. Cardinality(FF \union TF) = Cardinality(FF) + Cardinality(TF)
  <2>1. Cardinality(FF \union TF) = Cardinality(FF) + Cardinality(TF) - Cardinality(FF \intersect TF)
    BY <1>1, FS_Union
  <2>2. Cardinality(FF \intersect TF) = 0
    BY <1>2, FS_EmptySet
  <2> QED BY <1>1, <2>1, <2>2, FS_CardinalityType
<1>6. Cardinality(FF \union FT) = Cardinality(FF) + Cardinality(FT)
  <2>1. Cardinality(FF \union FT) = Cardinality(FF) + Cardinality(FT) - Cardinality(FF \intersect FT)
    BY <1>1, FS_Union
  <2>2. Cardinality(FF \intersect FT) = 0
    BY <1>2, FS_EmptySet
  <2> QED BY <1>1, <2>1, <2>2, FS_CardinalityType
<1>7. Errors(b, c) \in Nat
  BY <1>1, <1>2, <1>3, <1>4, <1>5, <1>6, FS_CardinalityType
<1> QED BY <1>2, <1>3, <1>5, <1>6, <1>7 DEF FF, FT, TF

\* What an audit counts.
LEMMA CountsAreErrors ==
  ASSUME NEW c, IsCorpus(c), NEW old, NEW new, NEW o, o = Counts(old, new, c)
  PROVE  /\ o.observations = Len(c)
         /\ o.child_errors = Errors(new, c) /\ o.parent_errors = Errors(old, c)
         /\ o.child_errors \in Nat /\ o.parent_errors \in Nat
         /\ o.regressions \in Nat
         /\ o.regressions <= 0 => ~\E i \in DOMAIN c : Right(old, c[i]) /\ ~Right(new, c[i])
         /\ o.regressions <= 0 /\ o.child_errors < o.parent_errors =>
              \E i \in DOMAIN c : ~Right(old, c[i]) /\ Right(new, c[i])
<1> DEFINE FF == Cell(old, new, c, FALSE, FALSE)
           FT == Cell(old, new, c, FALSE, TRUE)
           TF == Cell(old, new, c, TRUE, FALSE)
<1>1. /\ o.observations = Len(c)
      /\ o.child_errors = Partition(old, new, c, FALSE, FALSE) + Partition(old, new, c, TRUE, FALSE)
      /\ o.parent_errors = Partition(old, new, c, FALSE, FALSE) + Partition(old, new, c, FALSE, TRUE)
      /\ o.regressions = Partition(old, new, c, TRUE, FALSE)
  BY DEF Counts
<1>2. /\ Partition(old, new, c, FALSE, FALSE) = Cardinality(FF)
      /\ Partition(old, new, c, FALSE, TRUE) = Cardinality(FT)
      /\ Partition(old, new, c, TRUE, FALSE) = Cardinality(TF)
      /\ IsFiniteSet(FF) /\ IsFiniteSet(FT) /\ IsFiniteSet(TF)
      /\ Cardinality(FF) \in Nat /\ Cardinality(FT) \in Nat /\ Cardinality(TF) \in Nat
  BY CellsAreCounted
<1>3. /\ Errors(new, c) = Cardinality(FF) + Cardinality(TF)
      /\ Errors(old, c) = Cardinality(FF) + Cardinality(FT)
      /\ Errors(new, c) \in Nat /\ Errors(old, c) \in Nat
  BY ErrorsAreCells
<1>4. /\ TF = {} <=> ~\E i \in DOMAIN c : Right(old, c[i]) /\ ~Right(new, c[i])
      /\ FT = {} <=> ~\E i \in DOMAIN c : ~Right(old, c[i]) /\ Right(new, c[i])
  BY DEF Cell, Right
<1> HIDE DEF FF, FT, TF
<1>5. (Cardinality(TF) = 0 => TF = {}) /\ (FT = {} => Cardinality(FT) = 0)
  BY <1>2, FS_EmptySet
<1>6. /\ o.child_errors = Cardinality(FF) + Cardinality(TF)
      /\ o.parent_errors = Cardinality(FF) + Cardinality(FT)
      /\ o.regressions = Cardinality(TF)
  BY <1>1, <1>2
<1>7. o.regressions <= 0 => TF = {}
  BY <1>2, <1>5, <1>6
<1>8. o.regressions <= 0 /\ o.child_errors < o.parent_errors => FT # {}
  BY <1>2, <1>5, <1>6
<1>9. o.child_errors \in Nat /\ o.parent_errors \in Nat /\ o.regressions \in Nat
  BY <1>2, <1>6
<1>10. o.child_errors = Errors(new, c) /\ o.parent_errors = Errors(old, c)
  BY <1>3, <1>6
<1> QED BY <1>1, <1>4, <1>7, <1>8, <1>9, <1>10

-----------------------------------------------------------------------------
\* A selected outcome is of a candidate, and none of the others does better.
LEMMA SelectedIsBest ==
  ASSUME NEW p \in Plans, NEW rows, NEW s \in Chosen(p, rows)
  PROVE  \E at \in Candidates(p, rows) :
           /\ s.selected = OutcomeOf(p, at) /\ Extends(at)
           /\ \A a \in Candidates(p, rows) :
                Errors(Grown(p, at), p.second) <= Errors(Grown(p, a), p.second)
<1> DEFINE c == p.second
           ats == Candidates(p, rows)
           outcomes == {OutcomeOf(p, at) : at \in ats}
<1>1. IsCorpus(c)
  BY EpisodeAssumption
<1>2. s \in Selections(p.selection, outcomes) /\ \A at \in ats : Extends(at)
  <2>1. \A at \in ats : Extends(at)
    BY DEF Chosen
  <2> QED BY <2>1 DEF Chosen
<1>3. /\ s.selected \in Best({x \in outcomes : Eligible(p.selection, x)})
  BY <1>2 DEF Selections
<1>4. /\ s.selected \in outcomes /\ Eligible(p.selection, s.selected)
      /\ \A x \in outcomes : Eligible(p.selection, x) => ~Lower(Ranking(x), Ranking(s.selected))
  BY <1>3 DEF Best
<1>5. PICK at \in ats : s.selected = OutcomeOf(p, at)
  BY <1>4
<1>6. ASSUME NEW a \in ats
      PROVE  LET o == OutcomeOf(p, a) IN
               /\ o.counts = Counts(ParentBehavior, Grown(p, a), c)
               /\ o.counts.child_errors = Errors(Grown(p, a), c) /\ Errors(Grown(p, a), c) \in Nat
               /\ o.counts.parent_errors = Errors(ParentBehavior, c) /\ Errors(ParentBehavior, c) \in Nat
               /\ o.counts.observations = Len(c)
  <2>1. OutcomeOf(p, a).counts = Counts(ParentBehavior, Grown(p, a), c)
    BY DEF OutcomeOf, Outcome
  <2> HIDE DEF c
  <2> QED BY <1>1, <2>1, CountsAreErrors
<1>7. ASSUME NEW a \in ats
      PROVE  Errors(Grown(p, at), c) <= Errors(Grown(p, a), c)
  <2> DEFINE x == OutcomeOf(p, a)
             o == OutcomeOf(p, at)
             ex == Errors(Grown(p, a), c)
             eo == Errors(Grown(p, at), c)
             ep == Errors(ParentBehavior, c)
  <2>1. /\ x.counts.child_errors = ex /\ x.counts.parent_errors = ep
        /\ o.counts.child_errors = eo /\ o.counts.parent_errors = ep
        /\ x.counts.observations = o.counts.observations
        /\ ex \in Nat /\ eo \in Nat /\ ep \in Nat
    BY <1>6
  <2>2. Eligible(p.selection, o) /\ x \in outcomes
    BY <1>4, <1>5
  <2>3. CASE Eligible(p.selection, x)
    <3> SUFFICES eo <= ex
      OBVIOUS
    <3>1. ~Lower(Ranking(x), Ranking(o))
      BY <1>4, <1>5, <2>2, <2>3
    <3>2. DOMAIN Ranking(x) = 1 .. 4 /\ Ranking(x)[1] = ex /\ Ranking(o)[1] = eo
      BY <2>1 DEF Ranking
    <3> HIDE DEF x, o
    <3>3. ~(Ranking(x)[1] < Ranking(o)[1])
      BY <3>1, <3>2 DEF Lower
    <3> HIDE DEF ex, eo
    <3> QED BY <2>1, <3>2, <3>3
  <2>4. CASE ~Eligible(p.selection, x)
    <3> SUFFICES eo <= ex
      OBVIOUS
    <3> HIDE DEF x, o, ex, eo, ep
    <3> QED BY <2>1, <2>2, <2>4 DEF Eligible
  <2> QED BY <2>3, <2>4
<1> QED BY <1>2, <1>5, <1>7

-----------------------------------------------------------------------------
\* What the replay asks the collective about.
AsAsked(p) == p.kind \in {"grow", "single", "shrink"} /\ query = QueryOf[p.kind]

LEMMA AskedFields ==
  ASSUME NEW p, AsAsked(p)
  PROVE  /\ Selected = query.fields
         /\ Grows(p) => AsksForThresholds(query)
         /\ ~Grows(p) => AsksForRedundancies(query)
BY EpisodeAssumption DEF AsAsked, Selected, Grows, AsksForThresholds, AsksForRedundancies

LEMMA ProposedAreFlips ==
  ASSUME NEW p, AsAsked(p), Grows(p)
  PROVE  Proposed(Derived(SessionOf(p), query, Selected)) = Flips(SessionOf(p), Field)
<1> DEFINE s == SessionOf(p)
           rows == Derived(s, query, Selected)
           flips == Flips(s, Field)
           proposals == {ThresholdRow("threshold_proposals", Field, at) : at \in flips}
<1>1. /\ Selected = {Field} /\ query.thresholds /\ ~query.intervals /\ ~query.deescalation
      /\ query.escalation
  BY AskedFields DEF AsksForThresholds
<1> HIDE DEF s
<1>2. rows = ThresholdRows(s, "threshold_insights", {Field})
               \union (ThresholdRows(s, "threshold_proposals", {Field}) \union WeightRows(s))
  BY <1>1 DEF Derived
<1>3. /\ \A r \in ThresholdRows(s, "threshold_insights", {Field}) : r.product = "threshold_insights"
      /\ \A r \in WeightRows(s) : r.product = "weight_proposals"
      /\ \A r \in proposals : r.product = "threshold_proposals"
      /\ ThresholdRows(s, "threshold_proposals", {Field}) = proposals
  BY DEF ThresholdRows, ThresholdRow, WeightRows, WeightRow
<1> HIDE DEF rows, proposals
<1>4. RowsOf(rows, "threshold_proposals") = proposals
  BY <1>2, <1>3 DEF RowsOf
<1>5. {r.at : r \in proposals} = flips
  <2> DEFINE row(at) == ThresholdRow("threshold_proposals", Field, at)
  <2>1. \A at : row(at).at = at
    BY DEF ThresholdRow
  <2>2. proposals = {row(at) : at \in flips}
    BY DEF proposals
  <2> HIDE DEF row, flips
  <2>3. \A x : x \in {r.at : r \in proposals} <=> \E at \in flips : x = row(at).at
    BY <2>2
  <2> QED BY <2>1, <2>3
<1> QED BY <1>4, <1>5 DEF Proposed, rows, s

\* What the replay finds again is borne out by its corpora.
LEMMA RegrownIsEarned ==
  ASSUME NEW l, l.plan \in Plans, AsAsked(l.plan), Grows(l.plan), Regrows(l)
  PROVE  GrownIsEarned(l)
<1> DEFINE p == l.plan
           c == p.first
           rows == Rederived(l)
<1>1. Invented(c) /\ IsCorpus(c) /\ SessionOf(p) = InventionSession(c)
  BY EpisodeAssumption DEF Invented, SessionOf
<1>2. PICK s \in Chosen(p, rows) : l.behavior = s.selected.child
  <2>1. PICK s \in Chosen(p, rows) :
          Again(l) = Built(s.selected.extended, s.selected.child, CandidateSet(p, rows), s)
    BY DEF Regrows, GrowthsOf
  <2> QED BY <2>1 DEF Again, Built
<1> HIDE DEF rows
<1>3. PICK at \in Candidates(p, rows) :
        /\ s.selected = OutcomeOf(p, at) /\ Extends(at)
        /\ \A a \in Candidates(p, rows) :
             Errors(Grown(p, at), p.second) <= Errors(Grown(p, a), p.second)
  BY <1>2, SelectedIsBest
<1>4. Candidates(p, rows) = Flips(InventionSession(c), Field)
  <2>1. Candidates(p, rows) = Proposed(rows)
    BY <1>3 DEF Candidates
  <2>2. rows = Derived(SessionOf(p), query, Selected)
    BY DEF rows, Rederived, AsAsked
  <2> QED BY <1>1, <2>1, <2>2, ProposedAreFlips
<1>5. l.behavior = Grown(p, at)
  BY <1>2, <1>3 DEF OutcomeOf, Outcome
<1>6. l.behavior.manifest = Append(parent.manifest, Threshold(at))
  BY <1>5 DEF Grown, Adapted, Extended, Behavior
<1>7. PureFlip(c, at) /\ at \in Midpoints(c)
  <2>1. PureFlip(c, at)
    BY <1>1, <1>3, <1>4, FlipsArePure
  <2> QED BY <2>1 DEF PureFlip, Midpoints
<1>8. \A i \in DOMAIN parent.manifest : parent.manifest[i] # Threshold(at)
  BY <1>3 DEF Extends
<1>9. ASSUME NEW a \in Midpoints(c), PureFlip(c, a)
      PROVE  Errors(l.behavior, p.second) <= Errors(Grown(p, a), p.second)
  <2>1. a \in Candidates(p, rows)
    BY <1>1, <1>4, <1>9, PureFlipsAreFlips
  <2> QED BY <1>3, <1>5, <2>1
<1> QED BY <1>5, <1>6, <1>7, <1>8, <1>9 DEF GrownIsEarned

-----------------------------------------------------------------------------
\* Examples by their identifiers are as many as their places, so none is twice
\* in a plan.
LEMMA IdsAreCounted ==
  ASSUME NEW c, IsCorpus(c)
  PROVE  IsFiniteSet(Ids(c)) /\ Cardinality(Ids(c)) \in Nat /\ Cardinality(Ids(c)) <= Len(c)
<1> DEFINE f == [i \in DOMAIN c |-> c[i].id]
           S == DOMAIN c
<1>1. IsFiniteSet(S) /\ Cardinality(S) = Len(c)
  BY CorpusTypes
<1>2. f \in [S -> Ids(c)] /\ f \in Surjection(S, Ids(c))
  BY DEF Surjection, Ids
<1> HIDE DEF f, S
<1>3. IsFiniteSet(Ids(c)) /\ Cardinality(Ids(c)) <= Cardinality(S)
  BY <1>1, <1>2, FS_Surjection
<1> QED BY <1>1, <1>3, FS_CardinalityType

LEMMA DisjointByCount ==
  ASSUME NEW A, NEW B, NEW C, IsFiniteSet(A), IsFiniteSet(B), IsFiniteSet(C),
         NEW a \in Nat, NEW b \in Nat, NEW c \in Nat,
         Cardinality(A) <= a, Cardinality(B) <= b, Cardinality(C) <= c,
         Cardinality((A \union B) \union C) = a + b + c
  PROVE  (A \union B) \intersect C = {}
<1>1. /\ IsFiniteSet(A \union B)
      /\ Cardinality(A \union B) = Cardinality(A) + Cardinality(B) - Cardinality(A \intersect B)
  BY FS_Union
<1>2. Cardinality((A \union B) \union C)
        = Cardinality(A \union B) + Cardinality(C) - Cardinality((A \union B) \intersect C)
  BY <1>1, FS_Union
<1>3. IsFiniteSet(A \intersect B) /\ IsFiniteSet((A \union B) \intersect C)
  BY <1>1, FS_Intersection
<1>4. /\ Cardinality(A) \in Nat /\ Cardinality(B) \in Nat /\ Cardinality(C) \in Nat
      /\ Cardinality(A \intersect B) \in Nat /\ Cardinality((A \union B) \intersect C) \in Nat
  BY <1>3, FS_CardinalityType
<1>5. Cardinality((A \union B) \intersect C) = 0
  BY <1>1, <1>2, <1>4
<1> QED BY <1>3, <1>5, FS_EmptySet

\* A holdout that the parent was not trained on is not seen before the audit.
LEMMA HoldoutIsUnseen ==
  ASSUME NEW l, l.plan \in Plans, EpisodeIds(l.plan) \cap Ids(parent.training) = {}
  PROVE  Unseen(l)
<1> DEFINE A == Ids(l.plan.first)
           B == Ids(l.plan.second)
           C == Ids(l.plan.holdout)
           a == Len(l.plan.first)
           b == Len(l.plan.second)
           c == Len(l.plan.holdout)
<1>1. IsCorpus(l.plan.first) /\ IsCorpus(l.plan.second) /\ IsCorpus(l.plan.holdout)
  BY EpisodeAssumption
<1>2. /\ IsFiniteSet(A) /\ IsFiniteSet(B) /\ IsFiniteSet(C)
      /\ Cardinality(A) <= a /\ Cardinality(B) <= b /\ Cardinality(C) <= c
  BY <1>1, IdsAreCounted
<1>3. a \in Nat /\ b \in Nat /\ c \in Nat
  BY <1>1, CorpusTypes
<1>4. Cardinality((A \union B) \union C) = a + b + c
  BY EpisodeAssumption DEF EpisodeIds
<1>5. C \cap Ids(parent.training) = {}
  BY DEF EpisodeIds
<1> HIDE DEF A, B, C, a, b, c
<1>6. (A \union B) \intersect C = {}
  BY <1>2, <1>3, <1>4, DisjointByCount
<1> QED BY <1>5, <1>6 DEF Unseen, A, B, C

-----------------------------------------------------------------------------
\* What an audit accepts deserves it.
LEMMA AcceptedDeserves ==
  ASSUME NEW l, l.plan \in Plans,
         Accepts(l.plan, Counts(ParentBehavior, l.behavior, l.plan.holdout), l.conformance.vectors,
                 l.plan.minimum)
  PROVE  Deserves(l)
<1> DEFINE c == l.plan.holdout
           o == Counts(ParentBehavior, l.behavior, c)
<1>1. IsCorpus(c)
  BY EpisodeAssumption
<1>2. /\ o.observations >= l.plan.minimum /\ o.regressions <= 0
      /\ Grows(l.plan) => o.child_errors < o.parent_errors
  BY DEF Accepts
<1> HIDE DEF c, o
<1>3. /\ o.observations = Len(c)
      /\ o.regressions <= 0 => ~\E i \in DOMAIN c : Right(ParentBehavior, c[i]) /\ ~Right(l.behavior, c[i])
      /\ o.regressions <= 0 /\ o.child_errors < o.parent_errors =>
           \E i \in DOMAIN c : ~Right(ParentBehavior, c[i]) /\ Right(l.behavior, c[i])
  BY <1>1, CountsAreErrors DEF o
<1>4. ~Spoils(l, c)
  BY <1>2, <1>3 DEF Spoils, ExamplesOf
<1>5. Grows(l.plan) => Mends(l, c)
  BY <1>2, <1>3 DEF Mends, ExamplesOf
<1> QED BY <1>2, <1>3, <1>4, <1>5 DEF Deserves, c

-----------------------------------------------------------------------------
\* A place in a list of truths is a place of an example and one of a literal.
LEMMA Division ==
  ASSUME NEW n \in Nat, n > 0, NEW m \in Nat
  PROVE  m % n \in 0 .. (n - 1) /\ m \div n \in Nat /\ m = n * (m \div n) + (m % n)
OBVIOUS

LEMMA DivisionBack ==
  ASSUME NEW n \in Nat, n > 0, NEW q \in Nat, NEW r \in 0 .. (n - 1)
  PROVE  (n * q + r) \div n = q /\ (n * q + r) % n = r
OBVIOUS

LEMMA DivisionBound ==
  ASSUME NEW n \in Nat, n > 0, NEW q \in Nat, NEW r \in 0 .. (n - 1), NEW b \in Nat
  PROVE  /\ n * q + r < n * b <=> q < b
         /\ n * q + r \in Nat /\ n * b \in Nat
OBVIOUS

TruthAt(c, manifest, i, j) ==
  Truth(IdOf[manifest[j]], i, IF RowFor(manifest, c[i])[j] THEN 1 ELSE 0)

LEMMA ProofFacts ==
  ASSUME NEW c, IsCorpus(c), NEW manifest, Len(manifest) \in Nat, DOMAIN manifest = 1 .. Len(manifest),
         NEW s, s = ProofSession(c, manifest)
  PROVE  /\ s.example_domains = DOMAIN c
         /\ FactsOf(s, "literal_truths") =
              {TruthAt(c, manifest, x[1], x[2]) : x \in (DOMAIN c) \X (DOMAIN manifest)}
<1> DEFINE n == Len(manifest)
           b == Len(c)
           truth(k) == TruthAt(c, manifest, ((k - 1) \div n) + 1, ((k - 1) % n) + 1)
<1>1. n \in Nat /\ b \in Nat /\ DOMAIN c = 1 .. b /\ DOMAIN manifest = 1 .. n
  BY CorpusTypes
<1>2. s.example_domains = DOMAIN c /\ s.literal_truths = [k \in 1 .. (n * b) |-> truth(k)]
  BY DEF ProofSession, EmptySession, TruthAt
<1>3. FactsOf(s, "literal_truths") = {truth(k) : k \in 1 .. (n * b)}
  BY <1>2 DEF FactsOf
<1> HIDE DEF n, b
<1>4. ASSUME NEW k \in 1 .. (n * b)
      PROVE  \E x \in (DOMAIN c) \X (DOMAIN manifest) : truth(k) = TruthAt(c, manifest, x[1], x[2])
  <2> DEFINE m == k - 1
             q == m \div n
             r == m % n
  <2>1. n * b \in Nat /\ n > 0 /\ m \in Nat /\ m < n * b
    <3>1. n = 0 => n * b = 0
      BY <1>1
    <3>2. n * b \in Nat
      BY <1>1
    <3> QED BY <1>1, <1>4, <3>1, <3>2
  <2> HIDE DEF m
  <2>2. r \in 0 .. (n - 1) /\ q \in Nat /\ m = n * q + r
    BY <1>1, <2>1, Division
  <2> HIDE DEF q, r
  <2>3. q < b
    BY <1>1, <2>1, <2>2, DivisionBound
  <2>4. q + 1 \in DOMAIN c /\ r + 1 \in DOMAIN manifest
    BY <1>1, <2>1, <2>2, <2>3
  <2>5. truth(k) = TruthAt(c, manifest, q + 1, r + 1)
    BY DEF q, r, m
  <2>6. <<q + 1, r + 1>> \in (DOMAIN c) \X (DOMAIN manifest)
    BY <2>4
  <2> QED BY <2>5, <2>6
<1>5. ASSUME NEW i \in DOMAIN c, NEW j \in DOMAIN manifest
      PROVE  \E k \in 1 .. (n * b) : truth(k) = TruthAt(c, manifest, i, j)
  <2> DEFINE q == i - 1
             r == j - 1
             m == n * q + r
  <2>1. n > 0 /\ q \in Nat /\ q < b /\ r \in 0 .. (n - 1) /\ q + 1 = i /\ r + 1 = j
    BY <1>1
  <2> HIDE DEF q, r
  <2>2. m \in Nat /\ m < n * b /\ n * b \in Nat /\ m \div n = q /\ m % n = r
    BY <1>1, <2>1, DivisionBound, DivisionBack
  <2> HIDE DEF m
  <2>3. m + 1 \in 1 .. (n * b) /\ (m + 1) - 1 = m
    BY <2>2
  <2>4. truth(m + 1) = TruthAt(c, manifest, i, j)
    BY <2>1, <2>2, <2>3
  <2> QED BY <2>3, <2>4
<1> HIDE DEF truth
<1>6. {truth(k) : k \in 1 .. (n * b)} =
        {TruthAt(c, manifest, x[1], x[2]) : x \in (DOMAIN c) \X (DOMAIN manifest)}
  BY <1>4, <1>5
<1> QED BY <1>2, <1>3, <1>6

\* A proof session holds, of each literal and example, what the row says.
LEMMA ProofTruths ==
  ASSUME NEW c, IsCorpus(c), NEW p \in Parents, NEW s, s = ProofSession(c, p.manifest),
         NEW i \in DOMAIN c, NEW j \in DOMAIN p.manifest
  PROVE  /\ Holds(s, "literal_truths", IdOf[p.manifest[j]], i) <=> RowFor(p.manifest, c[i])[j]
         /\ Fails(s, "literal_truths", IdOf[p.manifest[j]], i) <=> ~RowFor(p.manifest, c[i])[j]
         /\ IdOf[p.manifest[j]] \in SubjectsOf(s, "literal_truths")
<1> DEFINE M == p.manifest
           facts == FactsOf(s, "literal_truths")
           x == IdOf[M[j]]
           row == RowFor(M, c[i])[j]
<1>1. facts = {TruthAt(c, M, y[1], y[2]) : y \in (DOMAIN c) \X (DOMAIN M)}
  BY EpisodeAssumption, ProofFacts DEF IsManifest
<1>2. \A k \in DOMAIN M : k # j => IdOf[M[k]] # IdOf[M[j]]
  BY EpisodeAssumption DEF IsManifest
<1>3. row \in BOOLEAN
  <2>1. c[i].num \in Int /\ M[j].at \in Int
    BY EpisodeAssumption, CorpusTypes DEF IsManifest
  <2>2. row = (2 * c[i].num >= M[j].at)
    BY DEF RowFor, LiteralTruth
  <2> HIDE DEF row, M
  <2> QED BY <2>1, <2>2
<1> HIDE DEF facts, row
<1>4. TruthAt(c, M, i, j) \in facts /\ TruthAt(c, M, i, j) = Truth(x, i, IF row THEN 1 ELSE 0)
  <2>1. <<i, j>> \in (DOMAIN c) \X (DOMAIN M)
    OBVIOUS
  <2>2. TruthAt(c, M, <<i, j>>[1], <<i, j>>[2]) \in facts
    BY <1>1, <2>1
  <2> QED BY <2>2 DEF TruthAt, row
<1>5. ASSUME NEW t, Truth(x, i, t) \in facts PROVE t = IF row THEN 1 ELSE 0
  <2>1. PICK a \in DOMAIN c, k \in DOMAIN M : Truth(x, i, t) = TruthAt(c, M, a, k)
    BY <1>1, <1>5
  <2>2. a = i /\ IdOf[M[k]] = x
    BY <2>1 DEF TruthAt, Truth
  <2>3. k = j
    BY <1>2, <2>2
  <2> QED BY <1>4, <2>1, <2>2, <2>3 DEF Truth
<1> HIDE DEF x, M
<1>6. Truth(x, i, 1) \in facts <=> row
  BY <1>3, <1>4, <1>5
<1>7. Truth(x, i, 0) \in facts <=> ~row
  BY <1>3, <1>4, <1>5
<1>8. x \in {t.of : t \in facts}
  BY <1>4 DEF Truth
<1> QED BY <1>6, <1>7, <1>8 DEF Holds, Fails, SubjectsOf, facts, row, x, M

\* Two literals are equivalent in it when their columns are the same.
LEMMA EquivalentColumns ==
  ASSUME NEW c, IsCorpus(c), parent \in Parents, NEW s, s = ProofSession(c, parent.manifest),
         NEW i \in DOMAIN parent.manifest, NEW j \in DOMAIN parent.manifest
  PROVE  Equivalent(s, IdOf[parent.manifest[i]], IdOf[parent.manifest[j]]) <=> SameColumn(i, j, c)
<1> DEFINE x == IdOf[parent.manifest[i]]
           y == IdOf[parent.manifest[j]]
<1>1. s.example_domains = DOMAIN c
  BY EpisodeAssumption, ProofFacts DEF IsManifest
<1>2. \A e \in DOMAIN c :
        /\ Holds(s, "literal_truths", x, e) <=> RowFor(parent.manifest, c[e])[i]
        /\ Fails(s, "literal_truths", x, e) <=> ~RowFor(parent.manifest, c[e])[i]
        /\ Holds(s, "literal_truths", y, e) <=> RowFor(parent.manifest, c[e])[j]
        /\ Fails(s, "literal_truths", y, e) <=> ~RowFor(parent.manifest, c[e])[j]
  BY ProofTruths
<1>3. ASSUME NEW e \in DOMAIN c
      PROVE  RowFor(parent.manifest, c[e])[i] \in BOOLEAN /\ RowFor(parent.manifest, c[e])[j] \in BOOLEAN
  <2>1. c[e].num \in Int /\ parent.manifest[i].at \in Int /\ parent.manifest[j].at \in Int
    BY EpisodeAssumption, CorpusTypes DEF IsManifest
  <2>2. /\ RowFor(parent.manifest, c[e])[i] = (2 * c[e].num >= parent.manifest[i].at)
        /\ RowFor(parent.manifest, c[e])[j] = (2 * c[e].num >= parent.manifest[j].at)
    BY DEF RowFor, LiteralTruth
  <2> QED BY <2>1, <2>2
<1> HIDE DEF x, y
<1>4. Equivalent(s, x, y) <=> \A e \in DOMAIN c :
        RowFor(parent.manifest, c[e])[i] <=> RowFor(parent.manifest, c[e])[j]
  BY <1>1, <1>2 DEF Equivalent, Complete, Implies
<1> QED BY <1>3, <1>4 DEF SameColumn, x, y

LEMMA PositionsAreFound ==
  ASSUME parent \in Parents, NEW i \in DOMAIN parent.manifest
  PROVE  PositionOf(IdOf[parent.manifest[i]]) = i
BY EpisodeAssumption DEF PositionOf, IsManifest

\* What the collective derives of the redundancies of a proof session.
LEMMA RedundanciesDerived ==
  ASSUME NEW s, NEW q, AsksForRedundancies(q), NEW rows, rows = Derived(s, q, {})
  PROVE  RowsOf(rows, "literal_redundancies") =
           {PairRow("literal_redundancies", x[1], x[2]) :
              x \in {x \in LiteralPairs(s) : x[1] < x[2] /\ Equivalent(s, x[1], x[2])}}
<1> DEFINE wanted == {PairRow("literal_redundancies", x[1], x[2]) :
                        x \in {x \in LiteralPairs(s) : x[1] < x[2] /\ Equivalent(s, x[1], x[2])}}
           implied == {PairRow("literal_subsumptions", x[1], x[2]) :
                        x \in {x \in LiteralPairs(s) : LiteralSubsumes(s, x[1], x[2])}}
           clauses == {PairRow("clause_subsumptions", x[1], x[2]) :
                        x \in {x \in Described(s) \X Described(s) : ClauseSubsumes(s, x[1], x[2])}}
<1>1. rows = wanted \union implied \union clauses
  BY DEF Derived, AsksForRedundancies
<1>2. /\ \A r \in wanted : r.product = "literal_redundancies"
      /\ \A r \in implied : r.product = "literal_subsumptions"
      /\ \A r \in clauses : r.product = "clause_subsumptions"
  BY DEF PairRow
<1> HIDE DEF wanted, implied, clauses
<1>3. RowsOf(rows, "literal_redundancies") = wanted
  BY <1>1, <1>2 DEF RowsOf
<1> QED BY <1>3 DEF wanted

\* The subjects of a proof session are the literals of the manifest.
LEMMA ProofSubjects ==
  ASSUME NEW c, IsCorpus(c), parent \in Parents, NEW s, s = ProofSession(c, parent.manifest),
         NEW x \in SubjectsOf(s, "literal_truths")
  PROVE  \E k \in DOMAIN parent.manifest : x = IdOf[parent.manifest[k]]
<1>0. PICK M : M = parent.manifest
  OBVIOUS
<1>1. DOMAIN M = 1 .. Len(M) /\ Len(M) \in Nat /\ s = ProofSession(c, M)
  BY <1>0, EpisodeAssumption DEF IsManifest
<1>2. FactsOf(s, "literal_truths") = {TruthAt(c, M, y[1], y[2]) : y \in (DOMAIN c) \X (DOMAIN M)}
  BY <1>1, ProofFacts
<1>3. PICK f \in FactsOf(s, "literal_truths") : x = f.of
  BY DEF SubjectsOf
<1>4. PICK y \in (DOMAIN c) \X (DOMAIN M) : f = TruthAt(c, M, y[1], y[2])
  BY <1>2, <1>3
<1>5. x = IdOf[M[y[2]]] /\ y[2] \in DOMAIN M
  BY <1>3, <1>4 DEF TruthAt, Truth
<1> QED BY <1>0, <1>5

\* The pairs of the replay are those whose columns are the same.
LEMMA RedundantColumns ==
  ASSUME parent \in Parents, NEW p \in Plans, AsAsked(p), ~Grows(p),
         NEW rows, rows = Derived(SessionOf(p), query, Selected),
         NEW i \in DOMAIN parent.manifest, NEW j \in DOMAIN parent.manifest, i < j,
         DOMAIN p.first # {}
  PROVE  <<i, j>> \in Redundant(rows) <=> SameColumn(i, j, p.first)
<1> DEFINE s == SessionOf(p)
           M == parent.manifest
           subjects == SubjectsOf(s, "literal_truths")
           found == {{PositionOf(r.left), PositionOf(r.right)} : r \in RowsOf(rows, "literal_redundancies")}
<1>0. AsksForRedundancies(query)
  BY AskedFields
<1>1. Selected = {}
  BY AskedFields DEF AsksForRedundancies
<1>2. IsCorpus(p.first) /\ s = ProofSession(p.first, M)
  BY EpisodeAssumption DEF SessionOf
<1>2a. DOMAIN M = 1 .. Len(M) /\ Len(M) \in Nat
  BY EpisodeAssumption DEF IsManifest
<1> HIDE DEF s
<1>3. RowsOf(rows, "literal_redundancies") =
        {PairRow("literal_redundancies", q[1], q[2]) :
           q \in {q \in LiteralPairs(s) : q[1] < q[2] /\ Equivalent(s, q[1], q[2])}}
  BY <1>0, <1>1, RedundanciesDerived DEF s
<1>4. \A k \in DOMAIN M : IdOf[M[k]] \in subjects /\ IdOf[M[k]] \in Int
  <2>1. PICK e \in DOMAIN p.first : TRUE
    OBVIOUS
  <2> QED BY <1>2, <2>1, ProofTruths, EpisodeAssumption DEF IsManifest
<1>5. \A x \in subjects : \E k \in DOMAIN M : x = IdOf[M[k]]
  BY <1>2, ProofSubjects
<1> HIDE DEF subjects
<1>6. ASSUME NEW a \in DOMAIN M, NEW b \in DOMAIN M
      PROVE  Equivalent(s, IdOf[M[a]], IdOf[M[b]]) <=> SameColumn(a, b, p.first)
  BY <1>2, EquivalentColumns
<1>7. SameColumn(i, j, p.first) <=> SameColumn(j, i, p.first)
  BY DEF SameColumn
<1>8. <<i, j>> \in Redundant(rows) <=> {i, j} \in found
  BY DEF Redundant
<1>9. ASSUME {i, j} \in found PROVE SameColumn(i, j, p.first)
  <2>1. PICK r \in RowsOf(rows, "literal_redundancies") :
          {i, j} = {PositionOf(r.left), PositionOf(r.right)}
    BY <1>9
  <2>2. PICK q \in LiteralPairs(s) :
          Equivalent(s, q[1], q[2]) /\ r = PairRow("literal_redundancies", q[1], q[2])
    BY <1>3, <2>1
  <2>3. PICK a \in DOMAIN M : q[1] = IdOf[M[a]]
    BY <1>5, <2>2 DEF LiteralPairs, subjects
  <2>4. PICK b \in DOMAIN M : q[2] = IdOf[M[b]]
    BY <1>5, <2>2 DEF LiteralPairs, subjects
  <2>5. PositionOf(r.left) = a /\ PositionOf(r.right) = b
    BY <2>2, <2>3, <2>4, PositionsAreFound DEF PairRow
  <2>6. SameColumn(a, b, p.first)
    BY <1>6, <2>2, <2>3, <2>4
  <2>7. (a = i /\ b = j) \/ (a = j /\ b = i)
    BY <2>1, <2>5
  <2> QED BY <1>7, <2>6, <2>7
<1>10. ASSUME SameColumn(i, j, p.first) PROVE {i, j} \in found
  <2> DEFINE x == IdOf[M[i]]
             y == IdOf[M[j]]
  <2>1. x # y /\ x \in Int /\ y \in Int /\ x \in subjects /\ y \in subjects
    <3>1. IsManifest(M)
      BY EpisodeAssumption
    <3>2. IdOf[M[i]] = IdOf[M[j]] => i = j
      BY <3>1 DEF IsManifest
    <3>3. i # j
      BY <1>2a
    <3> QED BY <1>4, <3>2, <3>3
  <2>2. Equivalent(s, x, y) /\ Equivalent(s, y, x)
    BY <1>6, <1>7, <1>10
  <2>3. PositionOf(x) = i /\ PositionOf(y) = j
    BY PositionsAreFound
  <2> HIDE DEF x, y
  <2>4. CASE x < y
    <3>1. <<x, y>> \in LiteralPairs(s)
      BY <2>1 DEF LiteralPairs, subjects
    <3> DEFINE r == PairRow("literal_redundancies", x, y)
    <3>2. r \in RowsOf(rows, "literal_redundancies") /\ r.left = x /\ r.right = y
      BY <1>3, <2>2, <2>4, <3>1 DEF PairRow
    <3> QED BY <2>3, <3>2
  <2>5. CASE y < x
    <3>1. <<y, x>> \in LiteralPairs(s)
      BY <2>1 DEF LiteralPairs, subjects
    <3> DEFINE r == PairRow("literal_redundancies", y, x)
    <3>2. r \in RowsOf(rows, "literal_redundancies") /\ r.left = y /\ r.right = x
      BY <1>3, <2>2, <2>5, <3>1 DEF PairRow
    <3>3. {PositionOf(r.left), PositionOf(r.right)} = {i, j}
      BY <2>3, <3>2
    <3> QED BY <3>2, <3>3
  <2> QED BY <2>1, <2>4, <2>5
<1> QED BY <1>8, <1>9, <1>10

LEMMA RecontractedIsEarned ==
  ASSUME parent \in Parents, NEW l, l.plan \in Plans, AsAsked(l.plan), ~Grows(l.plan), Recontracts(l)
  PROVE  ContractedIsEarned(l)
<1> DEFINE p == l.plan
           rows == Rederived(l)
<1>1. PICK d \in Dropped(rows) :
        /\ Contracts(d[1], d[2], p.first) /\ Contracts(d[1], d[2], p.second)
        /\ l.behavior = Contracted(d[1], d[2])
  <2>1. PICK d \in Dropped(rows) :
          /\ Contracts(d[1], d[2], p.first) /\ Contracts(d[1], d[2], p.second)
          /\ Again(l) = Built(Contracted(d[1], d[2]), Contracted(d[1], d[2]),
                              RedundancySet(p, rows), NoSelection)
    BY DEF Recontracts, ContractionsOf
  <2> QED BY <2>1 DEF Again, Built
<1>2. rows = Derived(SessionOf(p), query, Selected)
  BY DEF Rederived, AsAsked
<1> HIDE DEF rows
<1>3. d \in Redundant(rows) /\ \A q \in Redundant(rows) : ~Lower(q, d)
  BY <1>1 DEF Dropped, First
<1> DEFINE k == d[1]
           r == d[2]
<1>4. /\ k \in DOMAIN parent.manifest /\ r \in DOMAIN parent.manifest /\ k < r /\ d = <<k, r>>
  BY <1>3 DEF Redundant
<1>4a. DOMAIN parent.manifest = 1 .. Len(parent.manifest) /\ Len(parent.manifest) \in Nat
  BY EpisodeAssumption DEF IsManifest
<1>5. DOMAIN p.first # {}
  <2>1. SUFFICES ASSUME DOMAIN p.first = {} PROVE FALSE
    OBVIOUS
  <2>2. FactsOf(SessionOf(p), "literal_truths") = {}
    <3>1. IsCorpus(p.first) /\ SessionOf(p) = ProofSession(p.first, parent.manifest)
      BY EpisodeAssumption DEF SessionOf
    <3>2. FactsOf(SessionOf(p), "literal_truths") =
            {TruthAt(p.first, parent.manifest, x[1], x[2]) :
               x \in (DOMAIN p.first) \X (DOMAIN parent.manifest)}
      BY <3>1, <1>4a, ProofFacts
    <3> QED BY <2>1, <3>2
  <2>3. LiteralPairs(SessionOf(p)) = {}
    BY <2>2 DEF LiteralPairs, SubjectsOf
  <2>4. RowsOf(rows, "literal_redundancies") = {}
    <3>1. Selected = {} /\ ~query.thresholds /\ ~query.intervals /\ query.deescalation /\ ~query.escalation
      BY AskedFields DEF AsksForRedundancies
    <3>2. \A x \in rows : x.product # "literal_redundancies"
      BY <1>2, <2>3, <3>1 DEF Derived, PairRow
    <3> QED BY <3>2 DEF RowsOf
  <2> QED BY <1>3, <2>4 DEF Redundant
<1>6. SameColumn(k, r, p.first) /\ SameColumn(k, r, p.second)
  BY <1>1 DEF Contracts
<1>7. ASSUME NEW i \in DOMAIN parent.manifest, NEW j \in DOMAIN parent.manifest,
             i < j, SameColumn(i, j, p.first)
      PROVE  k < i \/ (k = i /\ r <= j)
  <2>1. <<i, j>> \in Redundant(rows)
    BY <1>2, <1>5, <1>7, RedundantColumns
  <2>2. ~Lower(<<i, j>>, d)
    BY <1>3, <2>1
  <2>3. ~(i < k) /\ ~(i = k /\ j < r)
    <3>1. DOMAIN <<i, j>> = 1 .. 2
      OBVIOUS
    <3>2. i < k => Lower(<<i, j>>, d)
      BY <1>4, <3>1 DEF Lower
    <3>3. i = k /\ j < r => Lower(<<i, j>>, d)
      BY <1>4, <3>1 DEF Lower
    <3> QED BY <2>2, <3>2, <3>3
  <2>4. i \in Int /\ j \in Int /\ k \in Int /\ r \in Int
    BY <1>4, <1>4a
  <2> QED BY <2>3, <2>4
<1>8. \A x \in ExamplesOf(p.first) \union ExamplesOf(p.second) :
        ScoreOf(ParentBehavior, x) = ScoreOf(l.behavior, x)
  BY <1>1 DEF Contracts, SameScores, ExamplesOf
<1> HIDE DEF k, r
<1> QED BY <1>1, <1>4, <1>6, <1>7, <1>8 DEF ContractedIsEarned, k, r
-----------------------------------------------------------------------------
(***************************************************************************)
(* The invariant of an episode.                                            *)
(***************************************************************************)
LineageIsEarned(l, have) ==
  /\ Derives(l) /\ Unseen(l) /\ Needed(l) \subseteq have
  /\ OldOf(l) = Trained /\ l.usage.examples = EpisodeIds(l.plan)
  /\ l.accepted => Deserves(l)

\* The corpus that reopened the parent's case, of the lineage that is active.
ReopenedBy(corpus, l, usage, have) ==
  /\ corpus \in LiveCorpora /\ Ids(corpus) = usage.examples
  /\ usage.examples \cap l.usage.examples = {}
  /\ Errors(l.behavior, corpus) > Errors(ParentBehavior, corpus)
  /\ Live(Conformance(ChildOfGraph(l), corpus, Vectors(ChildOfGraph(l), corpus)),
          Counts(ParentBehavior, l.behavior, corpus)) \subseteq have
  /\ Spent(usage) \subseteq have

LifeShape(s) ==
  s = [ok |-> s.ok, active |-> s.active, pendingCandidate |-> s.pendingCandidate,
       candidate |-> s.candidate, approved |-> s.approved, activated |-> s.activated,
       pendingLive |-> s.pendingLive, reopen |-> s.reopen, count |-> s.count, last |-> s.last,
       behaviors |-> s.behaviors, spent |-> s.spent]

\* What is in progress excludes what comes before and after it.
InOrder(s) ==
  /\ s.activated # NoLineage => s.candidate = NoLineage /\ s.approved = NoLineage
  /\ s.approved # NoLineage => s.candidate = NoLineage
  /\ s.pendingLive # NoUsage \/ s.reopen # NoUsage =>
       s.activated # NoLineage /\ s.active \notin {Parent, NoGeneration}
  /\ s.reopen # NoUsage => s.pendingLive = NoUsage

LifeIsEarned(s, have) ==
  /\ LifeShape(s) /\ InOrder(s)
  /\ \A l \in {s.candidate, s.approved, s.activated} \ {NoLineage} : LineageIsEarned(l, have)
  /\ \A l \in {s.approved, s.activated} \ {NoLineage} : l.accepted
  /\ s.reopen # NoUsage => \E corpus : ReopenedBy(corpus, s.activated, s.reopen, have)
  /\ s.active # NoGeneration => Old \subseteq have

\* The driver's places from the start of an episode to its end.
Underway ==
  {"publish", "construct", "register", "reserve", "consult", "collect", "build", "audit",
   "record", "decide", "activate", "attest"}

DriverShape ==
  driver = [at |-> driver.at, outcome |-> driver.outcome, plan |-> driver.plan,
            usage |-> driver.usage, sequence |-> driver.sequence, previous |-> driver.previous,
            lineage |-> driver.lineage, live |-> driver.live]

LineageShape(l) ==
  l = [usage |-> l.usage, behavior |-> l.behavior, accepted |-> l.accepted, sequence |-> l.sequence,
       previous |-> l.previous, plan |-> l.plan, evidence |-> l.evidence, selection |-> l.selection,
       graph |-> l.graph, bundle |-> l.bundle, conformance |-> l.conformance, audit |-> l.audit]

PlanIsFresh ==
  /\ driver.plan \in Plans /\ driver.plan.kind \in {"grow", "single", "shrink"}
  /\ EpisodeIds(driver.plan) \cap Ids(parent.training) = {}

InHand(l) == LineageShape(l) /\ l.plan = driver.plan /\ OldOf(l) = Trained
AuditedInHand(l) ==
  l.accepted = Accepts(l.plan, Counts(ParentBehavior, l.behavior, l.plan.holdout),
                       l.conformance.vectors, l.plan.minimum)

LiveInHand ==
  /\ driver.live \in LiveCorpora /\ driver.usage.examples = Ids(driver.live)
  /\ Loads(Spent(driver.usage))
  /\ Ids(driver.live) \cap EpisodeIds(driver.plan) = {}

DriverInv ==
  /\ DriverShape
  /\ driver.at \in Underway => PlanIsFresh
  /\ driver.at \in Underway \ {"publish"} => Loads(Old)
  /\ driver.at \in {"collect", "build", "audit", "record"} => query = QueryOf[driver.plan.kind]
  /\ driver.at \in {"audit", "record"} => InHand(driver.lineage)
  /\ driver.at = "record" => AuditedInHand(driver.lineage)
  /\ driver.lineage # NoLineage => driver.lineage.plan = driver.plan
  /\ driver.at = "evaluate" => LiveInHand

EpisodeInv == parent \in Parents /\ LifeIsEarned(life, objects) /\ DriverInv

\* The parent is trained before the first episode.
LEMMA ParentStays ==
  ASSUME parent' = parent
  PROVE  /\ ParentBehavior' = ParentBehavior /\ Trained' = Trained /\ Old' = Old
         /\ \A l : /\ Derives(l)' <=> Derives(l)
                   /\ Unseen(l)' <=> Unseen(l)
                   /\ Deserves(l)' <=> Deserves(l)
                   /\ Needed(l)' = Needed(l)
<1>1. ParentBehavior' = ParentBehavior
  BY DEF ParentBehavior
<1>2. Trained' = Trained
  BY <1>1 DEF Trained
<1>3. Old' = Old /\ TrainingUsage' = TrainingUsage
  BY <1>2 DEF Old, TrainingUsage
<1>4. \A at : Extended(at)' = Extended(at)
  BY DEF Extended
<1>5. \A p, at : Grown(p, at)' = Grown(p, at)
  BY <1>4 DEF Grown
<1>6. \A k, r : Contracted(k, r)' = Contracted(k, r)
  BY DEF Contracted
<1>7. \A k, r, c : SameColumn(k, r, c)' <=> SameColumn(k, r, c)
  BY DEF SameColumn
<1>8. ASSUME NEW l PROVE GrownIsEarned(l)' <=> GrownIsEarned(l)
  BY <1>5 DEF GrownIsEarned
<1>9. ASSUME NEW l PROVE ContractedIsEarned(l)' <=> ContractedIsEarned(l)
  BY <1>1, <1>6, <1>7 DEF ContractedIsEarned
<1>10. ASSUME NEW l PROVE Derives(l)' <=> Derives(l)
  BY <1>8, <1>9 DEF Derives
<1>11. ASSUME NEW l PROVE Unseen(l)' <=> Unseen(l)
  BY DEF Unseen
<1>12. ASSUME NEW l PROVE Deserves(l)' <=> Deserves(l)
  BY <1>1 DEF Deserves, Spoils, Mends
<1>13. ASSUME NEW l PROVE Needed(l)' = Needed(l)
  BY <1>3 DEF Needed
<1> QED BY <1>1, <1>2, <1>3, <1>10, <1>11, <1>12, <1>13

LEMMA LifeStays ==
  ASSUME NEW s, NEW have, NEW more, have \subseteq more, LifeIsEarned(s, have)
  PROVE  LifeIsEarned(s, more)
<1>1. \A l : LineageIsEarned(l, have) => LineageIsEarned(l, more)
  BY DEF LineageIsEarned
<1>2. \A corpus, l, usage : ReopenedBy(corpus, l, usage, have) => ReopenedBy(corpus, l, usage, more)
  BY DEF ReopenedBy
<1> QED BY <1>1, <1>2 DEF LifeIsEarned

LEMMA LifeStaysEarned ==
  ASSUME NEW s, NEW have, LifeIsEarned(s, have), parent' = parent, life' = s, objects' = have
  PROVE  LifeIsEarned(life, objects)'
<1>1. \A l : LineageIsEarned(l, have)' <=> LineageIsEarned(l, have)
  BY ParentStays DEF LineageIsEarned
<1>2. \A corpus, l, usage : ReopenedBy(corpus, l, usage, have)' <=> ReopenedBy(corpus, l, usage, have)
  BY ParentStays DEF ReopenedBy
<1>3. Old' = Old
  BY ParentStays
<1>4. LifeIsEarned(s, have)'
  BY <1>1, <1>2, <1>3 DEF LifeIsEarned
<1> QED BY <1>4
-----------------------------------------------------------------------------
\* What each event changes.
SameBut(t, s, fields) ==
  /\ LifeShape(t)
  /\ "active" \in fields \/ t.active = s.active
  /\ "pendingCandidate" \in fields \/ t.pendingCandidate = s.pendingCandidate
  /\ "candidate" \in fields \/ t.candidate = s.candidate
  /\ "approved" \in fields \/ t.approved = s.approved
  /\ "activated" \in fields \/ t.activated = s.activated
  /\ "pendingLive" \in fields \/ t.pendingLive = s.pendingLive
  /\ "reopen" \in fields \/ t.reopen = s.reopen

LEMMA AfterRegistered ==
  ASSUME NEW s, LifeShape(s), NEW u, NEW t, t = Life!After(s, Life!Registered(u))
  PROVE  SameBut(t, s, {"active"}) /\ t.active = Parent
BY DEF LifeShape, SameBut, Life!After, Life!Registered, Life!LifecycleEvent

LEMMA AfterReserved ==
  ASSUME NEW s, LifeShape(s), NEW u, NEW t, t = Life!After(s, Life!Reserved(u))
  PROVE  /\ SameBut(t, s, {"pendingCandidate", "pendingLive"})
         /\ t.pendingCandidate = IF u.purpose = "candidate" THEN u ELSE s.pendingCandidate
         /\ t.pendingLive = IF u.purpose = "live" THEN u ELSE s.pendingLive
BY DEF LifeShape, SameBut, Life!After, Life!Reserved, Life!LifecycleEvent

LEMMA AfterAbandoned ==
  ASSUME NEW s, LifeShape(s), NEW u, NEW t, t = Life!After(s, Life!Abandoned(u))
  PROVE  /\ SameBut(t, s, {"pendingCandidate", "pendingLive"})
         /\ t.pendingCandidate = IF u.purpose = "candidate" THEN NoUsage ELSE s.pendingCandidate
         /\ t.pendingLive = IF u.purpose = "live" THEN NoUsage ELSE s.pendingLive
BY DEF LifeShape, SameBut, Life!After, Life!Abandoned, Life!LifecycleEvent

LEMMA AfterCreated ==
  ASSUME NEW s, LifeShape(s), NEW l, NEW t, t = Life!After(s, Life!Created(l))
  PROVE  /\ SameBut(t, s, {"candidate", "pendingCandidate"})
         /\ t.candidate = l /\ t.pendingCandidate = NoUsage
BY DEF LifeShape, SameBut, Life!After, Life!Created, Life!LifecycleEvent

LEMMA AfterRejected ==
  ASSUME NEW s, LifeShape(s), NEW l, NEW t, t = Life!After(s, Life!Rejected(l))
  PROVE  SameBut(t, s, {"candidate"}) /\ t.candidate = NoLineage
BY DEF LifeShape, SameBut, Life!After, Life!Rejected, Life!LifecycleEvent

LEMMA AfterApproved ==
  ASSUME NEW s, LifeShape(s), NEW l, NEW t, t = Life!After(s, Life!Approved(l))
  PROVE  SameBut(t, s, {"candidate", "approved"}) /\ t.candidate = NoLineage /\ t.approved = l
BY DEF LifeShape, SameBut, Life!After, Life!Approved, Life!LifecycleEvent

LEMMA AfterActivation ==
  ASSUME NEW s, LifeShape(s), NEW l, NEW t, t = Life!After(s, Life!Activated(l))
  PROVE  /\ SameBut(t, s, {"active", "approved", "activated"})
         /\ t.active = Life!Child(l) /\ t.approved = NoLineage /\ t.activated = l
BY DEF LifeShape, SameBut, Life!After, Life!AfterActivated, Life!Activated, Life!LifecycleEvent

LEMMA AfterReopened ==
  ASSUME NEW s, LifeShape(s), NEW l, NEW u, NEW t, t = Life!After(s, Life!ReopenRequested(l, u))
  PROVE  SameBut(t, s, {"reopen", "pendingLive"}) /\ t.reopen = u /\ t.pendingLive = NoUsage
BY DEF LifeShape, SameBut, Life!After, Life!ReopenRequested, Life!LifecycleEvent

LEMMA AfterRestored ==
  ASSUME NEW s, LifeShape(s), NEW l, NEW u, NEW t, t = Life!After(s, Life!ParentRestored(l, u))
  PROVE  /\ SameBut(t, s, {"active", "activated", "reopen"})
         /\ t.active = Parent /\ t.activated = NoLineage /\ t.reopen = NoUsage
BY DEF LifeShape, SameBut, Life!After, Life!ParentRestored, Life!LifecycleEvent

-----------------------------------------------------------------------------
\* What terminates a transition adds no lineage and no reopening.
LEMMA AbandonedIsEarned ==
  ASSUME NEW s, NEW have, LifeIsEarned(s, have), NEW u
  PROVE  LifeIsEarned(Life!After(s, Life!Abandoned(u)), have)
<1>1. PICK t : t = Life!After(s, Life!Abandoned(u))
  OBVIOUS
<1>2. SameBut(t, s, {"pendingCandidate", "pendingLive"}) /\ t.pendingLive \in {NoUsage, s.pendingLive}
  BY <1>1, AfterAbandoned DEF LifeIsEarned
<1>3. LifeIsEarned(t, have)
  BY <1>2 DEF LifeIsEarned, InOrder, SameBut
<1> QED BY <1>1, <1>3

LEMMA RejectedIsEarned ==
  ASSUME NEW s, NEW have, LifeIsEarned(s, have), NEW l
  PROVE  LifeIsEarned(Life!After(s, Life!Rejected(l)), have)
<1>1. PICK t : t = Life!After(s, Life!Rejected(l))
  OBVIOUS
<1>2. SameBut(t, s, {"candidate"}) /\ t.candidate = NoLineage
  BY <1>1, AfterRejected DEF LifeIsEarned
<1>3. LifeIsEarned(t, have)
  BY <1>2 DEF LifeIsEarned, InOrder, SameBut
<1> QED BY <1>1, <1>3

LEMMA ApprovedIsEarned ==
  ASSUME NEW s, NEW have, LifeIsEarned(s, have), NEW l, s.candidate = l, l.accepted
  PROVE  LifeIsEarned(Life!After(s, Life!Approved(l)), have)
<1>1. PICK t : t = Life!After(s, Life!Approved(l))
  OBVIOUS
<1>2. SameBut(t, s, {"candidate", "approved"}) /\ t.candidate = NoLineage /\ t.approved = l
  BY <1>1, AfterApproved DEF LifeIsEarned
<1>3. LifeIsEarned(t, have)
  BY <1>2 DEF LifeIsEarned, InOrder, SameBut
<1> QED BY <1>1, <1>3

LEMMA ActivatedIsEarned ==
  ASSUME NEW s, NEW have, LifeIsEarned(s, have), NEW l, s.approved = l, l.accepted,
         s.pendingLive = NoUsage, s.reopen = NoUsage, Old \subseteq have
  PROVE  LifeIsEarned(Life!After(s, Life!Activated(l)), have)
<1>1. PICK t : t = Life!After(s, Life!Activated(l))
  OBVIOUS
<1>2. /\ SameBut(t, s, {"active", "approved", "activated"})
      /\ t.approved = NoLineage /\ t.activated = l
  BY <1>1, AfterActivation DEF LifeIsEarned
<1>3. LifeIsEarned(t, have)
  BY <1>2 DEF LifeIsEarned, InOrder, SameBut
<1> QED BY <1>1, <1>3

LEMMA RestoredIsEarned ==
  ASSUME NEW s, NEW have, LifeIsEarned(s, have), NEW l, NEW u, s.pendingLive = NoUsage,
         Old \subseteq have
  PROVE  LifeIsEarned(Life!After(s, Life!ParentRestored(l, u)), have)
<1>1. PICK t : t = Life!After(s, Life!ParentRestored(l, u))
  OBVIOUS
<1>2. /\ SameBut(t, s, {"active", "activated", "reopen"})
      /\ t.activated = NoLineage /\ t.reopen = NoUsage
  BY <1>1, AfterRestored DEF LifeIsEarned
<1>3. LifeIsEarned(t, have)
  BY <1>2 DEF LifeIsEarned, InOrder, SameBut
<1> QED BY <1>1, <1>3

LEMMA SettleOnceIsEarned ==
  ASSUME NEW s, NEW have, LifeIsEarned(s, have)
  PROVE  LifeIsEarned(SettleOnce(s), have)
<1>1. CASE Life!Terminal(s)
  BY <1>1 DEF SettleOnce
<1>2. CASE ~Life!Terminal(s)
  <2>1. SUFFICES LifeIsEarned(Life!After(s, Life!Reconciling(s)), have)
    BY <1>2 DEF SettleOnce
  <2>2. CASE s.pendingCandidate # NoUsage
    <3>1. Life!Reconciling(s) = Life!Abandoned(s.pendingCandidate)
      BY <2>2 DEF Life!Reconciling
    <3> QED BY <3>1, AbandonedIsEarned
  <2>3. CASE s.pendingCandidate = NoUsage /\ s.pendingLive # NoUsage
    <3>1. Life!Reconciling(s) = Life!Abandoned(s.pendingLive)
      BY <2>3 DEF Life!Reconciling
    <3> QED BY <3>1, AbandonedIsEarned
  <2>4. CASE s.pendingCandidate = NoUsage /\ s.pendingLive = NoUsage /\ s.candidate # NoLineage
    <3>1. CASE s.candidate.accepted
      <4>1. Life!Reconciling(s) = Life!Approved(s.candidate)
        BY <2>4, <3>1 DEF Life!Reconciling
      <4> QED BY <3>1, <4>1, ApprovedIsEarned
    <3>2. CASE ~s.candidate.accepted
      <4>1. Life!Reconciling(s) = Life!Rejected(s.candidate)
        BY <2>4, <3>2 DEF Life!Reconciling
      <4> QED BY <4>1, RejectedIsEarned
    <3> QED BY <3>1, <3>2
  <2>5. CASE /\ s.pendingCandidate = NoUsage /\ s.pendingLive = NoUsage /\ s.candidate = NoLineage
             /\ s.approved # NoLineage
    <3>1. Life!Reconciling(s) = Life!Activated(s.approved)
      BY <2>5 DEF Life!Reconciling
    <3>2. LineageIsEarned(s.approved, have) /\ s.approved.accepted
      BY <2>5 DEF LifeIsEarned
    <3>3. Old \subseteq have
      BY <3>2 DEF LineageIsEarned, Needed
    <3>4. s.reopen = NoUsage
      BY <2>5 DEF LifeIsEarned, InOrder
    <3> QED BY <2>5, <3>1, <3>2, <3>3, <3>4, ActivatedIsEarned
  <2>6. CASE /\ s.pendingCandidate = NoUsage /\ s.pendingLive = NoUsage /\ s.candidate = NoLineage
             /\ s.approved = NoLineage
    <3>1. Life!Reconciling(s) = Life!ParentRestored(s.activated, s.reopen)
      BY <2>6 DEF Life!Reconciling
    <3>2. s.reopen # NoUsage
      BY <1>2, <2>6 DEF Life!Terminal, Life!NothingInProgress
    <3>3. Old \subseteq have
      BY <3>2 DEF LifeIsEarned, InOrder, LineageIsEarned, Needed
    <3> QED BY <2>6, <3>1, <3>3, RestoredIsEarned
  <2> QED BY <2>2, <2>3, <2>4, <2>5, <2>6
<1> QED BY <1>1, <1>2

LEMMA SettledIsEarned ==
  ASSUME NEW s, NEW have, LifeIsEarned(s, have), NEW t \in Settling(s) \union {Settled(s)}
  PROVE  LifeIsEarned(t, have)
BY SettleOnceIsEarned DEF Settling, Settled
-----------------------------------------------------------------------------
\* What the guards of the events add to it.
LEMMA RegisteredIsEarned ==
  ASSUME NEW s, NEW have, LifeIsEarned(s, have), NEW u, Life!Valid(s, Life!Registered(u)),
         Old \subseteq have
  PROVE  LifeIsEarned(Life!After(s, Life!Registered(u)), have)
<1>1. PICK t : t = Life!After(s, Life!Registered(u))
  OBVIOUS
<1>2. SameBut(t, s, {"active"}) /\ t.active = Parent
  BY <1>1, AfterRegistered DEF LifeIsEarned
<1>3. s.active = NoGeneration
  BY DEF Life!Valid, Life!Registered, Life!LifecycleEvent, Life!ValidRegistered
<1>4. LifeIsEarned(t, have)
  BY <1>2, <1>3 DEF LifeIsEarned, InOrder, SameBut
<1> QED BY <1>1, <1>4

LEMMA ReservedIsEarned ==
  ASSUME NEW s, NEW have, LifeIsEarned(s, have), NEW u, Life!Valid(s, Life!Reserved(u))
  PROVE  LifeIsEarned(Life!After(s, Life!Reserved(u)), have)
<1>1. PICK t : t = Life!After(s, Life!Reserved(u))
  OBVIOUS
<1>2. /\ SameBut(t, s, {"pendingCandidate", "pendingLive"})
      /\ t.pendingLive = IF u.purpose = "live" THEN u ELSE s.pendingLive
  BY <1>1, AfterReserved DEF LifeIsEarned
<1>3. u.purpose = "live" =>
        s.activated # NoLineage /\ s.active \notin {Parent, NoGeneration} /\ s.reopen = NoUsage
  BY DEF Life!Valid, Life!Reserved, Life!LifecycleEvent, Life!ValidReserved, Life!NothingInProgress
<1>4. LifeIsEarned(t, have)
  BY <1>2, <1>3 DEF LifeIsEarned, InOrder, SameBut
<1> QED BY <1>1, <1>4

LEMMA CreatedIsEarned ==
  ASSUME NEW s, NEW have, LifeIsEarned(s, have), NEW l, Life!Valid(s, Life!Created(l)),
         LineageIsEarned(l, have)
  PROVE  LifeIsEarned(Life!After(s, Life!Created(l)), have)
<1>1. PICK t : t = Life!After(s, Life!Created(l))
  OBVIOUS
<1>2. SameBut(t, s, {"candidate", "pendingCandidate"}) /\ t.candidate = l
  BY <1>1, AfterCreated DEF LifeIsEarned
<1>3. s.activated = NoLineage /\ s.approved = NoLineage
  BY DEF Life!Valid, Life!Created, Life!LifecycleEvent, Life!ValidCreated, Life!NothingInProgress
<1>4. LifeIsEarned(t, have)
  BY <1>2, <1>3 DEF LifeIsEarned, InOrder, SameBut
<1> QED BY <1>1, <1>4

LEMMA ReopenedIsEarned ==
  ASSUME NEW s, NEW have, LifeIsEarned(s, have), NEW l, NEW u,
         Life!Valid(s, Life!ReopenRequested(l, u)),
         NEW corpus, ReopenedBy(corpus, l, u, have)
  PROVE  LifeIsEarned(Life!After(s, Life!ReopenRequested(l, u)), have)
<1>1. PICK t : t = Life!After(s, Life!ReopenRequested(l, u))
  OBVIOUS
<1>2. SameBut(t, s, {"reopen", "pendingLive"}) /\ t.reopen = u /\ t.pendingLive = NoUsage
  BY <1>1, AfterReopened DEF LifeIsEarned
<1>3. l = s.activated /\ s.pendingLive # NoUsage
  BY DEF Life!Valid, Life!ReopenRequested, Life!LifecycleEvent, Life!ValidReopen
<1>4. LifeIsEarned(t, have)
  BY <1>2, <1>3 DEF LifeIsEarned, InOrder, SameBut
<1> QED BY <1>1, <1>4

LEMMA ValidActivation ==
  ASSUME NEW s, NEW have, LifeIsEarned(s, have), NEW l, Life!Valid(s, Life!Activated(l))
  PROVE  s.approved = l /\ l.accepted /\ s.pendingLive = NoUsage /\ s.reopen = NoUsage
<1>1. s.approved = l /\ l.accepted /\ s.active = Parent
  BY DEF Life!Valid, Life!Activated, Life!LifecycleEvent, Life!ValidActivated
<1> QED BY <1>1 DEF LifeIsEarned, InOrder

-----------------------------------------------------------------------------
Moves(x) ==
  /\ DriverShape' /\ driver'.at = x
  /\ driver'.plan = driver.plan /\ driver'.lineage = driver.lineage
  /\ driver'.usage = driver.usage /\ driver'.live = driver.live

LEMMA GoesMoves ==
  ASSUME DriverShape, NEW x, Goes(x)
  PROVE  Moves(x)
BY DEF DriverShape, Goes, Moves

LEMMA EndsMoves ==
  ASSUME DriverShape, NEW how, Ends(how)
  PROVE  Moves("idle")
BY DEF DriverShape, Ends, Moves

LEMMA MovesKeep ==
  ASSUME DriverInv, NEW x, Moves(x), parent' = parent, objects \subseteq objects',
         x \in Underway => driver.at \in Underway,
         x \in Underway \ {"publish"} => Old \subseteq objects',
         x \in {"collect", "build", "audit", "record"} => query' = QueryOf[driver.plan.kind],
         x \in {"audit", "record"} => InHand(driver.lineage),
         x = "record" => AuditedInHand(driver.lineage),
         x # "evaluate"
  PROVE  DriverInv'
<1>1. Old' = Old /\ Trained' = Trained /\ ParentBehavior' = ParentBehavior
  BY ParentStays
<1>2. DriverShape' /\ driver'.at = x /\ driver'.plan = driver.plan /\ driver'.lineage = driver.lineage
  BY DEF Moves
<1>3. (driver.at \in Underway => PlanIsFresh) /\ (driver.lineage # NoLineage => driver.lineage.plan = driver.plan)
  BY DEF DriverInv
<1>4. PlanIsFresh' <=> PlanIsFresh
  BY <1>2 DEF PlanIsFresh
<1>5. InHand(driver.lineage)' <=> InHand(driver.lineage)
  BY <1>1, <1>2 DEF InHand, LineageShape
<1>6. AuditedInHand(driver.lineage)' <=> AuditedInHand(driver.lineage)
  BY <1>1, <1>2 DEF AuditedInHand
<1>7. Loads(Old)' <=> Old \subseteq objects'
  BY <1>1 DEF Loads
<1>8. (driver'.at \in Underway => PlanIsFresh')
  BY <1>2, <1>3, <1>4
<1>9. driver'.at \in Underway \ {"publish"} => Loads(Old)'
  BY <1>2, <1>7
<1>10. driver'.at \in {"collect", "build", "audit", "record"} => query' = QueryOf[driver'.plan.kind]
  BY <1>2
<1>11. driver'.at \in {"audit", "record"} => InHand(driver.lineage)'
  BY <1>2, <1>5
<1>12. driver'.at = "record" => AuditedInHand(driver.lineage)'
  BY <1>2, <1>6
<1>13. driver'.lineage # NoLineage => driver'.lineage.plan = driver'.plan
  BY <1>2, <1>3
<1>14. driver'.at # "evaluate"
  BY <1>2
<1> QED BY <1>2, <1>8, <1>9, <1>10, <1>11, <1>12, <1>13, <1>14 DEF DriverInv
-----------------------------------------------------------------------------
\* A step that takes the lifecycle to a state that is earned.
LEMMA LifeSteps ==
  ASSUME NEW s, LifeIsEarned(s, objects), parent' = parent, life' = s, objects \subseteq objects'
  PROVE  LifeIsEarned(life, objects)'
<1>1. PICK have : have = objects'
  OBVIOUS
<1>2. LifeIsEarned(s, have)
  BY <1>1, LifeStays
<1> QED BY <1>1, <1>2, LifeStaysEarned

LEMMA IdleKeeps ==
  ASSUME DriverShape', driver'.at = "idle", driver'.lineage = NoLineage
  PROVE  DriverInv'
BY DEF DriverInv, Underway

LEMMA BeginKeeps ==
  ASSUME EpisodeInv, Begin
  PROVE  EpisodeInv'
<1>1. /\ UNCHANGED <<session, query, parent, life, objects>>
      /\ \E p \in Plans : p.kind \in {"grow", "single", "shrink"} /\ BeginWith(p)
  BY DEF Begin, BeginSingle, BeginGrowth, BeginContraction, collectiveVars
<1>2. LifeIsEarned(life, objects)'
  BY <1>1, LifeSteps DEF EpisodeInv
<1>3. PICK p \in Plans : p.kind \in {"grow", "single", "shrink"} /\ BeginWith(p)
  BY <1>1
<1>4. /\ DriverShape' /\ driver'.plan = p /\ driver'.lineage = NoLineage
      /\ driver'.at = IF EpisodeIds(p) \cap Ids(parent.training) = {} THEN "publish" ELSE "recover"
  BY <1>3 DEF BeginWith, Idle, DriverShape
<1>5. PlanIsFresh' \/ driver'.at = "recover"
  BY <1>1, <1>3, <1>4 DEF PlanIsFresh
<1>6. DriverInv'
  BY <1>4, <1>5 DEF DriverInv, Underway
<1> QED BY <1>1, <1>2, <1>6 DEF EpisodeInv

LEMMA PublishParentKeeps ==
  ASSUME EpisodeInv, PublishParent
  PROVE  EpisodeInv'
<1>1. /\ Goes("construct") /\ objects' = objects \union Old /\ driver.at = "publish"
      /\ UNCHANGED <<query, parent, life>>
  BY DEF PublishParent, Publishes, Elsewhere, collectiveVars, At
<1>2. LifeIsEarned(life, objects)'
  BY <1>1, LifeSteps DEF EpisodeInv
<1>3. Moves("construct")
  BY <1>1, GoesMoves DEF EpisodeInv, DriverInv
<1>4. DriverInv'
  BY <1>1, <1>3, MovesKeep DEF EpisodeInv, Underway
<1> QED BY <1>1, <1>2, <1>4 DEF EpisodeInv

\* Where the caller goes, with what is published already.
LEMMA GoesKeeps ==
  ASSUME DriverInv, NEW x, Goes(x), x \in {"construct", "register", "reserve", "collect", "build",
                                            "decide", "activate", "attest", "recover", "restore"},
         parent' = parent, objects \subseteq objects',
         x \in Underway => driver.at \in Underway \ {"publish"},
         x \in {"collect", "build"} => query' = QueryOf[driver.plan.kind]
  PROVE  DriverInv'
<1>1. Moves(x)
  BY GoesMoves DEF DriverInv
<1>2. x \in Underway => Old \subseteq objects'
  BY DEF DriverInv, Loads
<1> QED BY <1>1, <1>2, MovesKeep

LEMMA EndsKeeps ==
  ASSUME DriverInv, NEW how, Ends(how), parent' = parent, objects \subseteq objects'
  PROVE  DriverInv'
<1>1. Moves("idle")
  BY EndsMoves DEF DriverInv
<1> QED BY <1>1, MovesKeep DEF Underway

LEMMA ConstructKeeps ==
  ASSUME EpisodeInv, Construct
  PROVE  EpisodeInv'
<1>1. /\ \E x \in {"register", "reserve", "recover"} : Goes(x)
      /\ objects' = objects /\ driver.at = "construct" /\ life' = Settled(life)
      /\ UNCHANGED <<query, parent>>
  BY DEF Construct, Elsewhere, collectiveVars, At
<1>2. LifeIsEarned(Settled(life), objects)
  BY SettledIsEarned DEF EpisodeInv
<1>3. LifeIsEarned(life, objects)'
  BY <1>1, <1>2, LifeSteps
<1>4. DriverInv'
  BY <1>1, GoesKeeps DEF EpisodeInv, Underway
<1> QED BY <1>1, <1>3, <1>4 DEF EpisodeInv

LEMMA RegisterKeeps ==
  ASSUME EpisodeInv, Register
  PROVE  EpisodeInv'
<1> DEFINE e == Life!Registered(TrainingUsage)
<1> HIDE DEF e
<1>1. /\ Old \subseteq objects /\ driver.at = "register" /\ UNCHANGED <<query, parent>>
      /\ objects \subseteq objects' /\ (Goes("reserve") \/ Goes("recover"))
      /\ \/ life' = life
         \/ Life!Valid(life, e) /\ life' = Life!After(life, e)
  BY DEF Register, Loads, Publishes, Appends, Elsewhere, collectiveVars, At, e
<1>2. Life!Valid(life, e) => LifeIsEarned(Life!After(life, e), objects)
  BY <1>1, RegisteredIsEarned DEF EpisodeInv, e
<1>4. LifeIsEarned(life, objects)'
  BY <1>1, <1>2, LifeSteps DEF EpisodeInv
<1>5. DriverInv'
  BY <1>1, GoesKeeps DEF EpisodeInv, Underway
<1> QED BY <1>1, <1>4, <1>5 DEF EpisodeInv

LEMMA FreedIsEarned ==
  ASSUME NEW s, NEW have, LifeIsEarned(s, have)
  PROVE  LifeIsEarned(Freed(s), have)
BY AbandonedIsEarned DEF Freed

LEMMA ForsakenIsEarned ==
  ASSUME NEW s, NEW have, LifeIsEarned(s, have), NEW u
  PROVE  LifeIsEarned(Forsaken(s, u), have)
BY AbandonedIsEarned DEF Forsaken

LEMMA ReserveKeeps ==
  ASSUME EpisodeInv, Reserve
  PROVE  EpisodeInv'
<1> DEFINE u     == Life!Usage("candidate", life.active, EpisodeIds(driver.plan))
           freed == Freed(life)
           e     == Life!Reserved(u)
<1>1. /\ driver.at = "reserve" /\ UNCHANGED <<query, parent>>
      /\ objects \subseteq objects'
      /\ \/ /\ Life!Valid(freed, e) /\ life' = Life!After(freed, e)
            /\ driver' = [driver EXCEPT !.at = "consult", !.usage = u,
                             !.sequence = freed.count + 1, !.previous = freed.last]
         \/ life' = freed /\ Goes("recover")
  BY DEF Reserve, Publishes, Elsewhere, collectiveVars, At
<1>2. LifeIsEarned(freed, objects)
  BY FreedIsEarned DEF EpisodeInv
<1>3. Life!Valid(freed, e) => LifeIsEarned(Life!After(freed, e), objects)
  BY <1>2, ReservedIsEarned
<1>4. LifeIsEarned(life, objects)'
  <2> HIDE DEF u, freed, e
  <2>1. CASE life' = freed
    BY <1>1, <1>2, <2>1, LifeSteps
  <2>2. CASE Life!Valid(freed, e) /\ life' = Life!After(freed, e)
    BY <1>1, <1>3, <2>2, LifeSteps
  <2> QED BY <1>1, <2>1, <2>2
<1>5. DriverInv'
  <2>1. CASE Goes("recover")
    BY <1>1, <2>1, GoesKeeps DEF EpisodeInv, Underway
  <2>2. CASE driver' = [driver EXCEPT !.at = "consult", !.usage = u,
                           !.sequence = freed.count + 1, !.previous = freed.last]
    <3> HIDE DEF u, freed, e
    <3>1. /\ DriverShape' /\ driver'.at = "consult" /\ driver'.plan = driver.plan
          /\ driver'.lineage = driver.lineage
      BY <2>2 DEF EpisodeInv, DriverInv, DriverShape
    <3>2. PlanIsFresh /\ Old \subseteq objects
      BY <1>1 DEF EpisodeInv, DriverInv, Underway, Loads
    <3>3. PlanIsFresh'
      BY <1>1, <3>1, <3>2 DEF PlanIsFresh
    <3>4. Loads(Old)'
      BY <1>1, <3>2, ParentStays DEF Loads
    <3> QED BY <3>1, <3>3, <3>4 DEF EpisodeInv, DriverInv, Underway
  <2> QED BY <1>1, <2>1, <2>2
<1> QED BY <1>1, <1>4, <1>5 DEF EpisodeInv

LEMMA ConsultKeeps ==
  ASSUME EpisodeInv, Consult
  PROVE  EpisodeInv'
<1>1. /\ Goes("collect") /\ driver.at = "consult" /\ UNCHANGED <<parent, life, objects>>
      /\ query' = QueryOf[driver.plan.kind]
  BY DEF Consult, At
<1>2. LifeIsEarned(life, objects)'
  BY <1>1, LifeSteps DEF EpisodeInv
<1>3. DriverInv'
  BY <1>1, GoesKeeps DEF EpisodeInv, Underway
<1> QED BY <1>1, <1>2, <1>3 DEF EpisodeInv

LEMMA StutterKeeps ==
  ASSUME EpisodeInv, UNCHANGED <<query, parent, life, objects, driver>>
  PROVE  EpisodeInv'
<1>1. LifeIsEarned(life, objects)'
  BY LifeSteps DEF EpisodeInv
<1>2. Moves(driver.at)
  BY DEF EpisodeInv, DriverInv, DriverShape, Moves
<1>3. LiveInHand' <=> LiveInHand
  BY DEF LiveInHand, Loads, Spent
<1>4. DriverInv'
  <2>1. CASE driver.at = "evaluate"
    BY <1>2, <1>3, <2>1 DEF EpisodeInv, DriverInv, Moves, Underway
  <2>2. CASE driver.at # "evaluate"
    BY <1>2, <2>2, MovesKeep DEF EpisodeInv, DriverInv, Loads
  <2> QED BY <2>1, <2>2
<1> QED BY <1>1, <1>4 DEF EpisodeInv

LEMMA CollectingKeeps ==
  ASSUME EpisodeInv, Collecting
  PROVE  EpisodeInv'
<1>1. CollectiveStep /\ UNCHANGED <<parent, life, objects, driver>>
  BY DEF Collecting, ownVars
<1>2. CASE Answered
  <2>1. \E print : Read(print)
    BY <1>2 DEF Answered
  <2> QED BY <2>1, <1>1, StutterKeeps DEF Read
<1>3. CASE CollectiveStep /\ ~Answered
  <2>1. UNCHANGED query
    BY <1>3 DEF CollectiveStep, Ask, CallStep, CallFailed, ExitFailed, Garbled
  <2> QED BY <1>1, <2>1, StutterKeeps
<1> QED BY <1>1, <1>2, <1>3

LEMMA CollectedKeeps ==
  ASSUME EpisodeInv, Collected
  PROVE  EpisodeInv'
<1>1. /\ \E x \in {"build", "recover"} : Goes(x)
      /\ driver.at = "collect" /\ UNCHANGED <<query, parent, life, objects>>
  BY DEF Collected, Elsewhere, collectiveVars, At
<1>2. LifeIsEarned(life, objects)'
  BY <1>1, LifeSteps DEF EpisodeInv
<1>3. query = QueryOf[driver.plan.kind]
  BY <1>1 DEF EpisodeInv, DriverInv
<1>4. DriverInv'
  BY <1>1, <1>3, GoesKeeps DEF EpisodeInv, Underway
<1> QED BY <1>1, <1>2, <1>4 DEF EpisodeInv

LEMMA BuildKeeps ==
  ASSUME EpisodeInv, Build
  PROVE  EpisodeInv'
<1>1. /\ driver.at = "build" /\ UNCHANGED <<query, parent, life>>
      /\ \E built : Building(built)
  BY DEF Build, Elsewhere, collectiveVars, At
<1>2. /\ objects \subseteq objects'
      /\ \/ Goes("recover")
         \/ \E b : driver' = [driver EXCEPT !.at = "audit", !.lineage = Begun(b)]
  BY <1>1 DEF Building, Publishes
<1>3. LifeIsEarned(life, objects)'
  BY <1>1, <1>2, LifeSteps DEF EpisodeInv
<1>4. DriverInv'
  <2>1. CASE Goes("recover")
    BY <1>1, <1>2, <2>1, GoesKeeps DEF EpisodeInv, Underway
  <2>2. CASE \E b : driver' = [driver EXCEPT !.at = "audit", !.lineage = Begun(b)]
    <3>1. PICK b : driver' = [driver EXCEPT !.at = "audit", !.lineage = Begun(b)]
      BY <2>2
    <3>2. PICK l : l = Begun(b)
      OBVIOUS
    <3>3. LineageShape(l) /\ l.plan = driver.plan /\ OldOf(l) = Trained
      BY <3>2 DEF LineageShape, Begun, OldOf
    <3>4. /\ DriverShape' /\ driver'.at = "audit" /\ driver'.plan = driver.plan
          /\ driver'.lineage = l
      BY <3>1, <3>2 DEF EpisodeInv, DriverInv, DriverShape
    <3>5. PlanIsFresh /\ Old \subseteq objects /\ query = QueryOf[driver.plan.kind]
      BY <1>1 DEF EpisodeInv, DriverInv, Underway, Loads
    <3>6. PlanIsFresh'
      BY <1>1, <3>4, <3>5 DEF PlanIsFresh
    <3>7. Loads(Old)'
      BY <1>1, <1>2, <3>5, ParentStays DEF Loads
    <3>8. InHand(l)'
      BY <1>1, <3>3, <3>4, ParentStays DEF InHand, LineageShape
    <3>9. InHand(driver.lineage)'
      BY <3>4, <3>8
    <3> QED BY <1>1, <3>3, <3>4, <3>5, <3>6, <3>7, <3>9 DEF DriverInv, Underway
  <2> QED BY <1>2, <2>1, <2>2
<1> QED BY <1>1, <1>3, <1>4 DEF EpisodeInv

LEMMA AuditKeeps ==
  ASSUME EpisodeInv, Audit
  PROVE  EpisodeInv'
<1>1. PICK l : l = Audited(driver.lineage)
  OBVIOUS
<1>2. /\ driver.at = "audit" /\ UNCHANGED <<query, parent, life>> /\ objects \subseteq objects'
      /\ \/ Goes("recover")
         \/ driver' = [driver EXCEPT !.at = "record", !.lineage = l]
  BY <1>1 DEF Audit, Elsewhere, collectiveVars, At, Publishes
<1>3. LifeIsEarned(life, objects)'
  BY <1>2, LifeSteps DEF EpisodeInv
<1>4. DriverInv'
  <2>1. CASE Goes("recover")
    BY <1>2, <2>1, GoesKeeps DEF EpisodeInv, Underway
  <2>2. CASE driver' = [driver EXCEPT !.at = "record", !.lineage = l]
    <3>1. /\ PlanIsFresh /\ Old \subseteq objects /\ query = QueryOf[driver.plan.kind]
          /\ InHand(driver.lineage)
      BY <1>2 DEF EpisodeInv, DriverInv, Underway, Loads
    <3>2. InHand(l)
      BY <1>1, <3>1 DEF InHand, LineageShape, Audited, OldOf
    <3>3. AuditedInHand(l)
      <4>1. PICK old : old = driver.lineage
        OBVIOUS
      <4>2. PICK v : v = Vectors(ChildOfGraph(old), old.plan.holdout)
        OBVIOUS
      <4>3. PICK audit : audit = Counts(ParentBehavior, old.behavior, old.plan.holdout)
        OBVIOUS
      <4>4. l = [old EXCEPT !.conformance = Conformance(ChildOfGraph(old), old.plan.holdout, v),
                   !.audit = audit, !.accepted = Accepts(old.plan, audit, v, old.plan.minimum)]
        BY <1>1, <4>1, <4>2, <4>3 DEF Audited
      <4>5. LineageShape(old)
        BY <3>1, <4>1 DEF InHand
      <4>6. /\ l.plan = old.plan /\ l.behavior = old.behavior
            /\ l.accepted = Accepts(old.plan, audit, v, old.plan.minimum)
            /\ l.conformance = Conformance(ChildOfGraph(old), old.plan.holdout, v)
        BY <4>4, <4>5 DEF LineageShape
      <4>7. l.conformance.vectors = v
        BY <4>6 DEF Conformance
      <4> QED BY <4>3, <4>6, <4>7 DEF AuditedInHand
    <3>4. /\ DriverShape' /\ driver'.at = "record" /\ driver'.plan = driver.plan
          /\ driver'.lineage = l
      BY <2>2 DEF EpisodeInv, DriverInv, DriverShape
    <3>5. PlanIsFresh'
      BY <1>2, <3>1, <3>4 DEF PlanIsFresh
    <3>6. Loads(Old)'
      BY <1>2, <3>1, ParentStays DEF Loads
    <3>7. InHand(l)' /\ AuditedInHand(l)'
      BY <1>2, <3>2, <3>3, <3>4, ParentStays DEF InHand, LineageShape, AuditedInHand
    <3>8. InHand(driver.lineage)' /\ AuditedInHand(driver.lineage)'
      BY <3>4, <3>7
    <3>9. l.plan = driver.plan
      BY <3>2 DEF InHand
    <3> QED BY <1>2, <3>1, <3>4, <3>5, <3>6, <3>8, <3>9 DEF DriverInv, Underway
  <2> QED BY <1>2, <2>1, <2>2
<1> QED BY <1>2, <1>3, <1>4 DEF EpisodeInv
-----------------------------------------------------------------------------
\* What record_candidate rebuilds is what the lifecycle may hold.
LEMMA RebuiltIsEarned ==
  ASSUME parent \in Parents, NEW l, l.plan \in Plans,
         l.plan.kind \in {"grow", "single", "shrink"}, query = QueryOf[l.plan.kind],
         EpisodeIds(l.plan) \cap Ids(parent.training) = {},
         OldOf(l) = Trained, AuditedInHand(l), NEW have, Needed(l) \subseteq have, Rebuilds(l)
  PROVE  LineageIsEarned(l, have)
<1>1. AsAsked(l.plan)
  BY DEF AsAsked
<1>2. Derives(l)
  <2>1. CASE Grows(l.plan)
    <3>1. Regrows(l)
      BY <2>1 DEF Rebuilds, RebuildsGrowth
    <3> QED BY <1>1, <2>1, <3>1, RegrownIsEarned DEF Derives
  <2>2. CASE ~Grows(l.plan)
    <3>1. Recontracts(l)
      BY <2>2 DEF Rebuilds, RebuildsContraction
    <3> QED BY <1>1, <2>2, <3>1, RecontractedIsEarned DEF Derives
  <2> QED BY <2>1, <2>2
<1>3. Unseen(l)
  BY HoldoutIsUnseen
<1>4. l.usage.examples = EpisodeIds(l.plan)
  BY DEF Rebuilds, SpendsItsCorpora, Life!Usage
<1>5. l.accepted => Deserves(l)
  BY AcceptedDeserves DEF AuditedInHand
<1> QED BY <1>2, <1>3, <1>4, <1>5 DEF LineageIsEarned

LEMMA RecordKeeps ==
  ASSUME EpisodeInv, Record
  PROVE  EpisodeInv'
<1>1. PICK l : l = driver.lineage
  OBVIOUS
<1>2. /\ driver.at = "record" /\ UNCHANGED <<query, parent, objects>>
      /\ Goes("decide") \/ Goes("recover")
      /\ \/ life' = life
         \/ /\ Needed(l) \subseteq objects /\ Rebuilds(l) /\ Life!Valid(life, Life!Created(l))
            /\ life' = Life!After(life, Life!Created(l))
  BY <1>1 DEF Record, Elsewhere, collectiveVars, At, Loads, Appends
<1>3. PlanIsFresh /\ query = QueryOf[driver.plan.kind] /\ InHand(l) /\ AuditedInHand(l)
  BY <1>1, <1>2 DEF EpisodeInv, DriverInv, Underway
<1>4. LifeIsEarned(life, objects)'
  <2>1. CASE life' = life
    BY <1>2, <2>1, LifeSteps DEF EpisodeInv
  <2>2. CASE /\ Needed(l) \subseteq objects /\ Rebuilds(l) /\ Life!Valid(life, Life!Created(l))
             /\ life' = Life!After(life, Life!Created(l))
    <3>1. LineageIsEarned(l, objects)
      BY <1>3, <2>2, RebuiltIsEarned DEF EpisodeInv, PlanIsFresh, InHand
    <3>2. LifeIsEarned(Life!After(life, Life!Created(l)), objects)
      BY <2>2, <3>1, CreatedIsEarned DEF EpisodeInv
    <3> QED BY <1>2, <2>2, <3>2, LifeSteps
  <2> QED BY <1>2, <2>1, <2>2
<1>5. DriverInv'
  BY <1>2, GoesKeeps DEF EpisodeInv, Underway
<1> QED BY <1>2, <1>4, <1>5 DEF EpisodeInv

LEMMA DecideKeeps ==
  ASSUME EpisodeInv, Decide
  PROVE  EpisodeInv'
<1>1. PICK l : l = driver.lineage
  OBVIOUS
<1>2. PICK e : e = IF l.accepted THEN Life!Approved(l) ELSE Life!Rejected(l)
  OBVIOUS
<1>3. /\ driver.at = "decide" /\ UNCHANGED <<query, parent, objects>>
      /\ Goes("activate") \/ Goes("recover")
      /\ \/ life' = life
         \/ Life!Valid(life, e) /\ life' = Life!After(life, e)
  BY <1>1, <1>2 DEF Decide, Elsewhere, collectiveVars, At, Appends
<1>4. ASSUME Life!Valid(life, e) PROVE LifeIsEarned(Life!After(life, e), objects)
  <2>1. CASE l.accepted
    <3>1. life.candidate = l
      BY <1>2, <1>4, <2>1 DEF Life!Valid, Life!Approved, Life!LifecycleEvent, Life!ValidApproved
    <3> QED BY <1>2, <2>1, <3>1, ApprovedIsEarned DEF EpisodeInv
  <2>2. CASE ~l.accepted
    BY <1>2, <2>2, RejectedIsEarned DEF EpisodeInv
  <2> QED BY <2>1, <2>2
<1>5. LifeIsEarned(life, objects)'
  BY <1>3, <1>4, LifeSteps DEF EpisodeInv
<1>6. DriverInv'
  BY <1>3, GoesKeeps DEF EpisodeInv, Underway
<1> QED BY <1>3, <1>5, <1>6 DEF EpisodeInv

LEMMA ActivateKeeps ==
  ASSUME EpisodeInv, Activate
  PROVE  EpisodeInv'
<1>1. PICK l : l = driver.lineage
  OBVIOUS
<1>2. PICK e : e = Life!Activated(l)
  OBVIOUS
<1>3. /\ driver.at = "activate" /\ UNCHANGED <<query, parent, objects>>
      /\ Goes("attest") \/ Goes("recover") \/ Ends("served")
      /\ \/ life' = life
         \/ Life!Valid(life, e) /\ life' = Life!After(life, e)
  BY <1>1, <1>2 DEF Activate, Elsewhere, collectiveVars, At, Appends
<1>4. ASSUME Life!Valid(life, e) PROVE LifeIsEarned(Life!After(life, e), objects)
  <2>1. Old \subseteq objects
    BY <1>3 DEF EpisodeInv, DriverInv, Underway, Loads
  <2>2. life.approved = l /\ l.accepted /\ life.pendingLive = NoUsage /\ life.reopen = NoUsage
    BY <1>2, <1>4, ValidActivation DEF EpisodeInv
  <2> QED BY <1>2, <2>1, <2>2, ActivatedIsEarned DEF EpisodeInv
<1>5. LifeIsEarned(life, objects)'
  BY <1>3, <1>4, LifeSteps DEF EpisodeInv
<1>6. DriverInv'
  BY <1>3, GoesKeeps, EndsKeeps DEF EpisodeInv, Underway
<1> QED BY <1>3, <1>5, <1>6 DEF EpisodeInv

LEMMA AttestKeeps ==
  ASSUME EpisodeInv, Attest
  PROVE  EpisodeInv'
<1>1. Ends("served") /\ UNCHANGED <<query, parent, life>> /\ objects \subseteq objects'
  BY DEF Attest, Elsewhere, collectiveVars, Publishes
<1>2. LifeIsEarned(life, objects)'
  BY <1>1, LifeSteps DEF EpisodeInv
<1>3. DriverInv'
  BY <1>1, EndsKeeps DEF EpisodeInv
<1> QED BY <1>1, <1>2, <1>3 DEF EpisodeInv

LEMMA RecoverKeeps ==
  ASSUME EpisodeInv, Recover
  PROVE  EpisodeInv'
<1>1. Ends("raised") /\ UNCHANGED <<query, parent, objects>> /\ life' = Settled(life)
  BY DEF Recover, Elsewhere, collectiveVars
<1>2. LifeIsEarned(Settled(life), objects)
  BY SettledIsEarned DEF EpisodeInv
<1>3. LifeIsEarned(life, objects)'
  BY <1>1, <1>2, LifeSteps
<1>4. DriverInv'
  BY <1>1, EndsKeeps DEF EpisodeInv
<1> QED BY <1>1, <1>3, <1>4 DEF EpisodeInv

LEMMA ExamineKeeps ==
  ASSUME EpisodeInv, Examine
  PROVE  EpisodeInv'
<1>1. /\ UNCHANGED <<query, parent>>
      /\ \E corpus \in LiveCorpora :
           LET u     == Life!Usage("live", life.active, Ids(corpus))
               freed == Forsaken(life, driver.usage)
           IN /\ Ids(corpus) \cap (EpisodeIds(driver.plan) \union Ids(parent.training)) = {}
              /\ Life!Valid(freed, Life!Reserved(u))
              /\ Publishes(Spent(u)) /\ life' = Life!After(freed, Life!Reserved(u))
              /\ driver' = [driver EXCEPT !.at = "evaluate", !.usage = u, !.live = corpus]
  BY DEF Examine, Elsewhere, collectiveVars
<1>2. PICK corpus \in LiveCorpora :
        LET u     == Life!Usage("live", life.active, Ids(corpus))
            freed == Forsaken(life, driver.usage)
        IN /\ Ids(corpus) \cap (EpisodeIds(driver.plan) \union Ids(parent.training)) = {}
           /\ Life!Valid(freed, Life!Reserved(u))
           /\ Publishes(Spent(u)) /\ life' = Life!After(freed, Life!Reserved(u))
           /\ driver' = [driver EXCEPT !.at = "evaluate", !.usage = u, !.live = corpus]
  BY <1>1
<1> DEFINE u == Life!Usage("live", life.active, Ids(corpus))
<1>3. LifeIsEarned(life, objects)'
  <2>1. LifeIsEarned(Forsaken(life, driver.usage), objects)
    BY ForsakenIsEarned DEF EpisodeInv
  <2>2. LifeIsEarned(Life!After(Forsaken(life, driver.usage), Life!Reserved(u)), objects)
    BY <1>2, <2>1, ReservedIsEarned
  <2> QED BY <1>1, <1>2, <2>2, LifeSteps DEF Publishes
<1>4. /\ DriverShape' /\ driver'.at = "evaluate" /\ driver'.plan = driver.plan
      /\ driver'.lineage = driver.lineage /\ driver'.usage = u /\ driver'.live = corpus
  BY <1>2 DEF EpisodeInv, DriverInv, DriverShape
<1>5. LiveInHand'
  <2>1. u.examples = Ids(corpus)
    BY <1>2 DEF Life!Usage
  <2>2. Spent(u) \subseteq objects'
    BY <1>2 DEF Publishes
  <2>3. Ids(corpus) \cap EpisodeIds(driver.plan) = {}
    BY <1>2
  <2>4. Loads(Spent(driver.usage))'
    BY <1>4, <2>2 DEF Loads, Spent
  <2> QED BY <1>4, <2>1, <2>3, <2>4 DEF LiveInHand
<1>6. DriverInv'
  BY <1>4, <1>5 DEF EpisodeInv, DriverInv, Underway
<1> QED BY <1>1, <1>3, <1>6 DEF EpisodeInv
-----------------------------------------------------------------------------
\* A drift that the policy asks to reopen for is one on which the child does worse.
LEMMA DriftIsWorse ==
  ASSUME NEW corpus \in LiveCorpora, NEW old, NEW new, RequiresReopen(Counts(old, new, corpus))
  PROVE  Errors(new, corpus) > Errors(old, corpus)
<1>1. PICK o : o = Counts(old, new, corpus)
  OBVIOUS
<1>2. IsCorpus(corpus)
  BY LiveAssumption
<1>3. /\ o.child_errors = Errors(new, corpus) /\ o.parent_errors = Errors(old, corpus)
      /\ o.child_errors \in Nat /\ o.parent_errors \in Nat
  BY <1>1, <1>2, CountsAreErrors
<1>4. DriftPolicy.increase \in Nat /\ DriftPolicy.increase > 0
  <2>1. DriftPolicy.increase \in Nat \ {0}
    BY EpisodeAssumption DEF DriftPolicies, Positive
  <2> QED BY <2>1
<1>5. o.child_errors - o.parent_errors >= DriftPolicy.increase
  BY <1>1 DEF RequiresReopen
<1>6. o.child_errors > o.parent_errors
  BY <1>3, <1>4, <1>5
<1> QED BY <1>3, <1>6

LEMMA EvaluateKeeps ==
  ASSUME EpisodeInv, Evaluate
  PROVE  EpisodeInv'
<1>1. PICK l, u, corpus : l = driver.lineage /\ u = driver.usage /\ corpus = driver.live
  OBVIOUS
<1>2. PICK witness, drift, e :
        /\ witness = Conformance(ChildOfGraph(l), corpus, Vectors(ChildOfGraph(l), corpus))
        /\ drift = Counts(OldOf(l).behavior, l.behavior, corpus)
        /\ e = Life!ReopenRequested(l, u)
  OBVIOUS
<1>3. /\ driver.at = "evaluate" /\ UNCHANGED <<query, parent>> /\ objects \subseteq objects'
      /\ \/ /\ RequiresReopen(drift) /\ Live(witness, drift) \subseteq objects'
            /\ Life!Valid(life, e) /\ life' = Life!After(life, e) /\ Goes("restore")
         \/ life' = Forsaken(life, u) /\ Ends("served")
  <2>1. /\ driver.at = "evaluate" /\ UNCHANGED <<query, parent>>
    BY DEF Evaluate, Elsewhere, collectiveVars, At
  <2>2. \/ /\ RequiresReopen(drift) /\ Publishes(Live(witness, drift))
           /\ Life!Valid(life, e) /\ life' = Life!After(life, e) /\ Goes("restore")
        \/ /\ Publishes(Live(witness, drift)) \/ objects' = objects
           /\ life' = Forsaken(life, u) /\ Ends("served")
    BY <1>1, <1>2 DEF Evaluate, Appends
  <2> QED BY <2>1, <2>2 DEF Publishes
<1>4. LifeIsEarned(life, objects)'
  <2>1. CASE life' = Forsaken(life, u)
    <3>1. LifeIsEarned(Forsaken(life, u), objects)
      BY ForsakenIsEarned DEF EpisodeInv
    <3> QED BY <1>3, <2>1, <3>1, LifeSteps
  <2>2. CASE /\ RequiresReopen(drift) /\ Live(witness, drift) \subseteq objects'
             /\ Life!Valid(life, e) /\ life' = Life!After(life, e)
    <3>1. PICK have : have = objects'
      OBVIOUS
    <3>2. LifeIsEarned(life, have)
      BY <1>3, <3>1, LifeStays DEF EpisodeInv
    <3>3. /\ corpus \in LiveCorpora /\ u.examples = Ids(corpus)
          /\ Spent(u) \subseteq have /\ Ids(corpus) \cap EpisodeIds(driver.plan) = {}
      BY <1>1, <1>3, <3>1 DEF EpisodeInv, DriverInv, LiveInHand, Loads
    <3>4. l = life.activated /\ l # NoLineage
      BY <1>2, <2>2 DEF Life!Valid, Life!ReopenRequested, Life!LifecycleEvent, Life!ValidReopen
    <3>5. LineageIsEarned(l, have)
      BY <3>2, <3>4 DEF LifeIsEarned
    <3>6. OldOf(l).behavior = ParentBehavior
      BY <3>5 DEF LineageIsEarned, Trained, Generation
    <3>7. l.usage.examples = EpisodeIds(driver.plan)
      BY <1>1, <3>4, <3>5 DEF LineageIsEarned, EpisodeInv, DriverInv
    <3>8. Errors(l.behavior, corpus) > Errors(ParentBehavior, corpus)
      BY <1>2, <2>2, <3>3, <3>6, DriftIsWorse
    <3>9. Live(Conformance(ChildOfGraph(l), corpus, Vectors(ChildOfGraph(l), corpus)),
               Counts(ParentBehavior, l.behavior, corpus)) \subseteq have
      BY <1>2, <2>2, <3>1, <3>6
    <3>10. ReopenedBy(corpus, l, u, have)
      BY <3>3, <3>7, <3>8, <3>9 DEF ReopenedBy
    <3>11. LifeIsEarned(Life!After(life, e), have)
      BY <1>2, <2>2, <3>2, <3>10, ReopenedIsEarned
    <3>12. PICK s : s = Life!After(life, e)
      OBVIOUS
    <3> QED BY <1>3, <2>2, <3>1, <3>11, <3>12, LifeStaysEarned
  <2> QED BY <1>3, <2>1, <2>2
<1>5. DriverInv'
  BY <1>3, GoesKeeps, EndsKeeps DEF EpisodeInv, Underway
<1> QED BY <1>3, <1>4, <1>5 DEF EpisodeInv

LEMMA RestoreKeeps ==
  ASSUME EpisodeInv, Restore
  PROVE  EpisodeInv'
<1>1. PICK l, u : l = driver.lineage /\ u = driver.usage
  OBVIOUS
<1>2. PICK e : e = Life!ParentRestored(l, u)
  OBVIOUS
<1>3. /\ UNCHANGED <<query, parent, objects>>
      /\ Ends("reopened") \/ Ends("refused")
      /\ \/ life' = life
         \/ Life!Valid(life, e) /\ life' = Life!After(life, e)
  BY <1>1, <1>2 DEF Restore, Elsewhere, collectiveVars, Appends
<1>4. ASSUME Life!Valid(life, e) PROVE LifeIsEarned(Life!After(life, e), objects)
  <2>1. life.reopen # NoUsage
    BY <1>2, <1>4 DEF Life!Valid, Life!ParentRestored, Life!LifecycleEvent, Life!ValidRestored
  <2>2. life.pendingLive = NoUsage /\ Old \subseteq objects
    BY <2>1 DEF EpisodeInv, LifeIsEarned, InOrder
  <2> QED BY <1>2, <2>2, RestoredIsEarned DEF EpisodeInv
<1>5. LifeIsEarned(life, objects)'
  BY <1>3, <1>4, LifeSteps DEF EpisodeInv
<1>6. DriverInv'
  BY <1>3, EndsKeeps DEF EpisodeInv
<1> QED BY <1>3, <1>5, <1>6 DEF EpisodeInv

LEMMA MidwayIsEarned ==
  ASSUME EpisodeInv, NEW s \in Midway
  PROVE  LifeIsEarned(s, objects)
BY SettledIsEarned DEF EpisodeInv, Midway

LEMMA CrashKeeps ==
  ASSUME EpisodeInv, Crash
  PROVE  EpisodeInv'
<1>1. /\ life' \in Midway /\ UNCHANGED <<query, parent, objects>>
      /\ driver' = [Idle EXCEPT !.outcome = "crashed"]
  BY DEF Crash, collectiveVars
<1>2. PICK s \in Midway : life' = s
  BY <1>1
<1>3. LifeIsEarned(life, objects)'
  BY <1>1, <1>2, MidwayIsEarned, LifeSteps
<1>4. DriverShape' /\ driver'.at = "idle" /\ driver'.lineage = NoLineage
  BY <1>1 DEF DriverShape, Idle
<1>5. DriverInv'
  BY <1>4, IdleKeeps
<1> QED BY <1>1, <1>3, <1>5 DEF EpisodeInv

LEMMA FailKeeps ==
  ASSUME EpisodeInv, Fail
  PROVE  EpisodeInv'
<1>1. /\ UNCHANGED <<query, parent, objects>>
      /\ life' \in Midway \/ life' = life \/ life' = Forsaken(life, driver.usage)
      /\ Goes("recover") \/ \E how : Ends(how)
  BY DEF Fail, collectiveVars
<1>2. LifeIsEarned(life, objects)'
  <2>1. CASE life' \in Midway
    <3>1. PICK s \in Midway : life' = s
      BY <2>1
    <3> QED BY <1>1, <3>1, MidwayIsEarned, LifeSteps
  <2>2. CASE life' = life
    BY <1>1, <2>2, LifeSteps DEF EpisodeInv
  <2>3. CASE life' = Forsaken(life, driver.usage)
    <3>1. LifeIsEarned(Forsaken(life, driver.usage), objects)
      BY ForsakenIsEarned DEF EpisodeInv
    <3> QED BY <1>1, <2>3, <3>1, LifeSteps
  <2> QED BY <1>1, <2>1, <2>2, <2>3
<1>3. DriverInv'
  BY <1>1, GoesKeeps, EndsKeeps DEF EpisodeInv, Underway
<1> QED BY <1>1, <1>2, <1>3 DEF EpisodeInv

LEMMA MeddleKeeps ==
  ASSUME EpisodeInv, Meddle
  PROVE  EpisodeInv'
<1>1. life' = Settled(life) /\ UNCHANGED <<query, parent, objects, driver>>
  BY DEF Meddle, collectiveVars
<1>2. LifeIsEarned(Settled(life), objects)
  BY SettledIsEarned DEF EpisodeInv
<1>3. LifeIsEarned(life, objects)'
  BY <1>1, <1>2, LifeSteps
<1>4. DriverInv'
  <2>1. DriverInv' \/ driver.at # "evaluate"
    <3>1. LiveInHand' <=> LiveInHand
      BY <1>1 DEF LiveInHand, Loads, Spent
    <3> QED BY <1>1, <3>1 DEF EpisodeInv, DriverInv, Underway, DriverShape
  <2>2. Moves(driver.at)
    BY <1>1 DEF EpisodeInv, DriverInv, DriverShape, Moves
  <2> QED BY <1>1, <2>1, <2>2, MovesKeep DEF EpisodeInv, DriverInv, Loads
<1> QED BY <1>1, <1>3, <1>4 DEF EpisodeInv

\* What the theorem below keeps from the start.
LEMMA EpisodeStarts == EpisodeInit => EpisodeInv
<1> SUFFICES ASSUME EpisodeInit PROVE EpisodeInv
  OBVIOUS
<1>1. parent \in Parents /\ life = Life!Blank /\ objects = {} /\ driver = Idle
  BY DEF EpisodeInit
<1>2. LifeIsEarned(life, objects)
  BY <1>1 DEF Life!Blank, LifeIsEarned, LifeShape, InOrder
<1>3. DriverInv
  BY <1>1 DEF DriverInv, DriverShape, Idle, Underway
<1> QED BY <1>1, <1>2, <1>3 DEF EpisodeInv

LEMMA EpisodeKeeps == EpisodeInv /\ [EpisodeNext]_episodeVars => EpisodeInv'
<1> SUFFICES ASSUME EpisodeInv, [EpisodeNext]_episodeVars PROVE EpisodeInv'
  OBVIOUS
<1>1. CASE UNCHANGED episodeVars
  BY <1>1, StutterKeeps DEF episodeVars, ownVars, collectiveVars
<1>2. CASE EpisodeNext
  BY <1>2, BeginKeeps, PublishParentKeeps, ConstructKeeps, RegisterKeeps, ReserveKeeps,
     ConsultKeeps, CollectingKeeps, CollectedKeeps, BuildKeeps, AuditKeeps, RecordKeeps,
     DecideKeeps, ActivateKeeps, AttestKeeps, RecoverKeeps, ExamineKeeps, EvaluateKeeps,
     RestoreKeeps, CrashKeeps, FailKeeps, MeddleKeeps
  DEF EpisodeNext
<1> QED BY <1>1, <1>2

LEMMA EarnedIsChildren == EpisodeInv => ChildrenAreEarned
<1> SUFFICES ASSUME EpisodeInv PROVE ChildrenAreEarned
  OBVIOUS
<1>1. LifeIsEarned(life, objects)
  BY DEF EpisodeInv
<1>2. \A l \in {life.candidate, life.approved, life.activated} \ {NoLineage} :
        Derives(l) /\ Unseen(l) /\ Loads(Needed(l))
  BY <1>1 DEF LifeIsEarned, LineageIsEarned, Loads
<1>3. \A l \in {life.approved, life.activated} \ {NoLineage} : Deserves(l)
  BY <1>1 DEF LifeIsEarned, LineageIsEarned
<1>4. ASSUME life.reopen # NoUsage
      PROVE  \E corpus \in LiveCorpora :
               /\ Ids(corpus) = life.reopen.examples
               /\ life.reopen.examples \cap life.activated.usage.examples = {}
               /\ Errors(life.activated.behavior, corpus) > Errors(ParentBehavior, corpus)
               /\ Loads(Live(Conformance(ChildOfGraph(life.activated), corpus,
                                         Vectors(ChildOfGraph(life.activated), corpus)),
                             Counts(ParentBehavior, life.activated.behavior, corpus)))
               /\ Loads(Spent(life.reopen))
  <2>1. PICK corpus : ReopenedBy(corpus, life.activated, life.reopen, objects)
    BY <1>1, <1>4 DEF LifeIsEarned
  <2> QED BY <2>1 DEF ReopenedBy, Loads
<1>5. life.active # NoGeneration => Loads(Old)
  BY <1>1 DEF LifeIsEarned, Loads
<1> QED BY <1>2, <1>3, <1>4, <1>5 DEF ChildrenAreEarned

\* The inductive invariant of an episode: the lifecycle holds only earned
\* lineages, and the caller only what its place calls for.
THEOREM EpisodeInvariant == EpisodeSpec => []EpisodeInv
BY EpisodeStarts, EpisodeKeeps, PTL DEF EpisodeSpec

\* Whatever is asked, with one line or count of a print altered or none and
\* wherever an episode fails, a child in the lifecycle is borne out by its evidence.
THEOREM ChildrenStayEarned == EpisodeSpec => []ChildrenAreEarned
BY EpisodeInvariant, EarnedIsChildren, PTL
-----------------------------------------------------------------------------
(***************************************************************************)
(* An episode settles: nothing is left in progress beside what the caller  *)
(* holds, and what the caller holds is what the log says.                  *)
(***************************************************************************)

\* What is pending is alone, so that two events terminate whatever there is.
Orderly(s) ==
  /\ s.pendingCandidate # NoUsage =>
       /\ s.pendingCandidate.purpose = "candidate" /\ s.active = Parent
       /\ s.activated = NoLineage /\ s.pendingLive = NoUsage /\ Life!NothingInProgress(s)
  /\ s.pendingLive # NoUsage => s.pendingLive.purpose = "live"

LEMMA OrderlyAbandoned ==
  ASSUME NEW s, LifeShape(s), InOrder(s), Orderly(s), NEW u
  PROVE  Orderly(Life!After(s, Life!Abandoned(u)))
<1>1. PICK t : t = Life!After(s, Life!Abandoned(u))
  OBVIOUS
<1>2. /\ SameBut(t, s, {"pendingCandidate", "pendingLive"})
      /\ t.pendingCandidate = IF u.purpose = "candidate" THEN NoUsage ELSE s.pendingCandidate
      /\ t.pendingLive = IF u.purpose = "live" THEN NoUsage ELSE s.pendingLive
  BY <1>1, AfterAbandoned
<1> QED BY <1>1, <1>2 DEF Orderly, SameBut, Life!NothingInProgress

LEMMA OrderlyReserved ==
  ASSUME NEW s, LifeShape(s), InOrder(s), Orderly(s), NEW u, Life!Valid(s, Life!Reserved(u))
  PROVE  Orderly(Life!After(s, Life!Reserved(u)))
<1>1. PICK t : t = Life!After(s, Life!Reserved(u))
  OBVIOUS
<1>2. /\ SameBut(t, s, {"pendingCandidate", "pendingLive"})
      /\ t.pendingCandidate = IF u.purpose = "candidate" THEN u ELSE s.pendingCandidate
      /\ t.pendingLive = IF u.purpose = "live" THEN u ELSE s.pendingLive
  BY <1>1, AfterReserved
<1>3. /\ Life!NothingInProgress(s)
      /\ \/ u.purpose = "candidate" /\ s.active = Parent /\ s.activated = NoLineage
         \/ u.purpose = "live" /\ s.active # Parent
  BY DEF Life!Valid, Life!Reserved, Life!LifecycleEvent, Life!ValidReserved
<1>4. s.active = Parent => s.pendingLive = NoUsage
  BY DEF InOrder
<1> QED BY <1>1, <1>2, <1>3, <1>4 DEF Orderly, SameBut, Life!NothingInProgress

LEMMA OrderlyRegistered ==
  ASSUME NEW s, LifeShape(s), Orderly(s), NEW u, Life!Valid(s, Life!Registered(u))
  PROVE  Orderly(Life!After(s, Life!Registered(u)))
<1>1. PICK t : t = Life!After(s, Life!Registered(u))
  OBVIOUS
<1>2. SameBut(t, s, {"active"}) /\ t.active = Parent
  BY <1>1, AfterRegistered
<1> QED BY <1>1, <1>2 DEF Orderly, SameBut, Life!NothingInProgress

LEMMA OrderlyCreated ==
  ASSUME NEW s, LifeShape(s), Orderly(s), NEW l
  PROVE  Orderly(Life!After(s, Life!Created(l)))
<1>1. PICK t : t = Life!After(s, Life!Created(l))
  OBVIOUS
<1>2. SameBut(t, s, {"candidate", "pendingCandidate"}) /\ t.pendingCandidate = NoUsage
  BY <1>1, AfterCreated
<1> QED BY <1>1, <1>2 DEF Orderly, SameBut

LEMMA OrderlyRejected ==
  ASSUME NEW s, LifeShape(s), Orderly(s), NEW l
  PROVE  Orderly(Life!After(s, Life!Rejected(l)))
<1>1. PICK t : t = Life!After(s, Life!Rejected(l))
  OBVIOUS
<1>2. SameBut(t, s, {"candidate"}) /\ t.candidate = NoLineage
  BY <1>1, AfterRejected
<1> QED BY <1>1, <1>2 DEF Orderly, SameBut, Life!NothingInProgress

LEMMA OrderlyApproved ==
  ASSUME NEW s, LifeShape(s), Orderly(s), NEW l, s.candidate = l
  PROVE  Orderly(Life!After(s, Life!Approved(l)))
<1>1. PICK t : t = Life!After(s, Life!Approved(l))
  OBVIOUS
<1>2. /\ SameBut(t, s, {"candidate", "approved"})
      /\ t.candidate = NoLineage /\ t.approved = l
  BY <1>1, AfterApproved
<1> QED BY <1>1, <1>2 DEF Orderly, SameBut, Life!NothingInProgress

LEMMA OrderlyActivated ==
  ASSUME NEW s, LifeShape(s), Orderly(s), NEW l, s.approved = l, l # NoLineage
  PROVE  Orderly(Life!After(s, Life!Activated(l)))
<1>1. PICK t : t = Life!After(s, Life!Activated(l))
  OBVIOUS
<1>2. SameBut(t, s, {"active", "approved", "activated"})
  BY <1>1, AfterActivation
<1> QED BY <1>1, <1>2 DEF Orderly, SameBut, Life!NothingInProgress

LEMMA OrderlyReopened ==
  ASSUME NEW s, LifeShape(s), Orderly(s), NEW l, NEW u, Life!Valid(s, Life!ReopenRequested(l, u))
  PROVE  Orderly(Life!After(s, Life!ReopenRequested(l, u)))
<1>1. PICK t : t = Life!After(s, Life!ReopenRequested(l, u))
  OBVIOUS
<1>2. SameBut(t, s, {"reopen", "pendingLive"}) /\ t.reopen = u /\ t.pendingLive = NoUsage
  BY <1>1, AfterReopened
<1>3. s.activated # NoLineage
  BY DEF Life!Valid, Life!ReopenRequested, Life!LifecycleEvent, Life!ValidReopen
<1> QED BY <1>1, <1>2, <1>3 DEF Orderly, SameBut

LEMMA OrderlyRestored ==
  ASSUME NEW s, LifeShape(s), Orderly(s), NEW l, NEW u, s.reopen # NoUsage
  PROVE  Orderly(Life!After(s, Life!ParentRestored(l, u)))
<1>1. PICK t : t = Life!After(s, Life!ParentRestored(l, u))
  OBVIOUS
<1>2. SameBut(t, s, {"active", "activated", "reopen"})
  BY <1>1, AfterRestored
<1> QED BY <1>1, <1>2 DEF Orderly, SameBut, Life!NothingInProgress
-----------------------------------------------------------------------------
\* One event terminates what there is, or approves what a second activates.
LEMMA SettleOnceIsOrderly ==
  ASSUME NEW s, LifeShape(s), InOrder(s), Orderly(s)
  PROVE  /\ Orderly(SettleOnce(s))
         /\ ~Life!Terminal(s) =>
              Life!Terminal(SettleOnce(s))
                \/ (SettleOnce(s).approved # NoLineage /\ s.approved = NoLineage)
<1>1. CASE Life!Terminal(s)
  BY <1>1 DEF SettleOnce
<1>2. CASE ~Life!Terminal(s)
  <2>1. PICK t : t = Life!After(s, Life!Reconciling(s))
    OBVIOUS
  <2>2. SettleOnce(s) = t
    BY <1>2, <2>1 DEF SettleOnce
  <2>3. SUFFICES Orderly(t) /\ (Life!Terminal(t) \/ (t.approved # NoLineage /\ s.approved = NoLineage))
    BY <2>2
  <2>4. CASE s.pendingCandidate # NoUsage
    <3>1. Life!Reconciling(s) = Life!Abandoned(s.pendingCandidate)
      BY <2>4 DEF Life!Reconciling
    <3>2. Orderly(t)
      BY <2>1, <3>1, OrderlyAbandoned
    <3>3. /\ SameBut(t, s, {"pendingCandidate", "pendingLive"})
          /\ t.pendingCandidate = NoUsage /\ t.pendingLive = s.pendingLive
      BY <2>1, <2>4, <3>1, AfterAbandoned DEF Orderly
    <3> QED BY <2>4, <3>2, <3>3 DEF Orderly, Life!Terminal, Life!NothingInProgress, SameBut
  <2>5. CASE s.pendingCandidate = NoUsage /\ s.pendingLive # NoUsage
    <3>1. Life!Reconciling(s) = Life!Abandoned(s.pendingLive)
      BY <2>5 DEF Life!Reconciling
    <3>2. Orderly(t)
      BY <2>1, <3>1, OrderlyAbandoned
    <3>3. /\ SameBut(t, s, {"pendingCandidate", "pendingLive"})
          /\ t.pendingCandidate = NoUsage /\ t.pendingLive = NoUsage
      BY <2>1, <2>5, <3>1, AfterAbandoned DEF Orderly
    <3>4. s.candidate = NoLineage /\ s.approved = NoLineage /\ s.reopen = NoUsage
      BY <2>5 DEF InOrder
    <3> QED BY <3>2, <3>3, <3>4 DEF Life!Terminal, Life!NothingInProgress, SameBut
  <2>6. CASE s.pendingCandidate = NoUsage /\ s.pendingLive = NoUsage /\ s.candidate # NoLineage
    <3>0. s.approved = NoLineage /\ s.reopen = NoUsage
      BY <2>6 DEF InOrder
    <3>1. CASE s.candidate.accepted
      <4>1. Life!Reconciling(s) = Life!Approved(s.candidate)
        BY <2>6, <3>1 DEF Life!Reconciling
      <4>2. Orderly(t)
        BY <2>1, <4>1, OrderlyApproved
      <4>3. t.approved = s.candidate
        BY <2>1, <4>1, AfterApproved
      <4> QED BY <2>6, <3>0, <4>2, <4>3
    <3>2. CASE ~s.candidate.accepted
      <4>1. Life!Reconciling(s) = Life!Rejected(s.candidate)
        BY <2>6, <3>2 DEF Life!Reconciling
      <4>2. Orderly(t)
        BY <2>1, <4>1, OrderlyRejected
      <4>3. SameBut(t, s, {"candidate"}) /\ t.candidate = NoLineage
        BY <2>1, <4>1, AfterRejected
      <4> QED BY <2>6, <3>0, <4>2, <4>3 DEF Life!Terminal, Life!NothingInProgress, SameBut
    <3> QED BY <3>1, <3>2
  <2>7. CASE /\ s.pendingCandidate = NoUsage /\ s.pendingLive = NoUsage /\ s.candidate = NoLineage
             /\ s.approved # NoLineage
    <3>1. Life!Reconciling(s) = Life!Activated(s.approved)
      BY <2>7 DEF Life!Reconciling
    <3>2. Orderly(t)
      BY <2>1, <2>7, <3>1, OrderlyActivated
    <3>3. SameBut(t, s, {"active", "approved", "activated"}) /\ t.approved = NoLineage
      BY <2>1, <3>1, AfterActivation
    <3>4. s.reopen = NoUsage
      BY <2>7 DEF InOrder
    <3> QED BY <2>7, <3>2, <3>3, <3>4 DEF Life!Terminal, Life!NothingInProgress, SameBut
  <2>8. CASE /\ s.pendingCandidate = NoUsage /\ s.pendingLive = NoUsage /\ s.candidate = NoLineage
             /\ s.approved = NoLineage
    <3>1. Life!Reconciling(s) = Life!ParentRestored(s.activated, s.reopen)
      BY <2>8 DEF Life!Reconciling
    <3>2. s.reopen # NoUsage
      BY <1>2, <2>8 DEF Life!Terminal, Life!NothingInProgress
    <3>3. Orderly(t)
      BY <2>1, <3>1, <3>2, OrderlyRestored
    <3>4. SameBut(t, s, {"active", "activated", "reopen"}) /\ t.reopen = NoUsage
      BY <2>1, <3>1, AfterRestored
    <3> QED BY <2>8, <3>3, <3>4 DEF Life!Terminal, Life!NothingInProgress, SameBut
  <2> QED BY <2>4, <2>5, <2>6, <2>7, <2>8
<1> QED BY <1>1, <1>2

LEMMA SettledIsOrderly ==
  ASSUME NEW s, NEW have, LifeIsEarned(s, have), Orderly(s)
  PROVE  /\ \A t \in Settling(s) : Orderly(t)
         /\ Orderly(Settled(s)) /\ Life!Terminal(Settled(s))
<1>1. PICK t : t = SettleOnce(s)
  OBVIOUS
<1>2. LifeIsEarned(t, have)
  BY <1>1, SettleOnceIsEarned
<1>3. /\ Orderly(t)
      /\ Life!Terminal(s) \/ Life!Terminal(t) \/ t.approved # NoLineage
  BY <1>1, SettleOnceIsOrderly DEF LifeIsEarned
<1>4. /\ Orderly(SettleOnce(t))
      /\ ~Life!Terminal(t) => Life!Terminal(SettleOnce(t)) \/ t.approved = NoLineage
  BY <1>2, <1>3, SettleOnceIsOrderly DEF LifeIsEarned
<1>5. Life!Terminal(t) => SettleOnce(t) = t
  BY DEF SettleOnce
<1>6. Life!Terminal(s) => t = s
  BY <1>1 DEF SettleOnce
<1>7. Life!Terminal(SettleOnce(t))
  BY <1>3, <1>4, <1>5, <1>6
<1>8. Settled(s) = SettleOnce(t)
  BY <1>1 DEF Settled
<1> QED BY <1>1, <1>3, <1>4, <1>7, <1>8 DEF Settling

\* With a child active, settling keeps it, or brings the parent back.
LEMMA SettledServes ==
  ASSUME NEW s, NEW have, LifeIsEarned(s, have), Orderly(s), s.activated # NoLineage
  PROVE  /\ s.reopen = NoUsage =>
              Settled(s).activated = s.activated /\ Settled(s).active = s.active
         /\ s.reopen # NoUsage => Settled(s).active = Parent
<1>1. PICK t : t = SettleOnce(s)
  OBVIOUS
<1>2. /\ s.pendingCandidate = NoUsage /\ s.candidate = NoLineage /\ s.approved = NoLineage
      /\ s.reopen # NoUsage => s.pendingLive = NoUsage
      /\ LifeShape(s)
  BY DEF LifeIsEarned, InOrder, Orderly
<1>3. CASE Life!Terminal(s)
  <2>1. t = s /\ Settled(s) = s
    BY <1>1, <1>3 DEF SettleOnce, Settled
  <2>2. s.reopen = NoUsage
    BY <1>3 DEF Life!Terminal, Life!NothingInProgress
  <2> QED BY <2>1, <2>2
<1>4. CASE ~Life!Terminal(s)
  <2>1. t = Life!After(s, Life!Reconciling(s))
    BY <1>1, <1>4 DEF SettleOnce
  <2>2. CASE s.pendingLive # NoUsage
    <3>1. Life!Reconciling(s) = Life!Abandoned(s.pendingLive)
      BY <1>2, <2>2 DEF Life!Reconciling
    <3>2. SameBut(t, s, {"pendingCandidate", "pendingLive"})
      BY <1>2, <2>1, <3>1, AfterAbandoned
    <3>3. t.pendingCandidate = NoUsage /\ t.pendingLive = NoUsage /\ s.reopen = NoUsage
      BY <1>2, <2>1, <2>2, <3>1, AfterAbandoned DEF Orderly
    <3>4. Life!Terminal(t)
      BY <1>2, <3>2, <3>3 DEF Life!Terminal, Life!NothingInProgress, SameBut
    <3>5. Settled(s) = t
      BY <1>1, <3>4 DEF Settled, SettleOnce
    <3> QED BY <3>2, <3>3, <3>5 DEF SameBut
  <2>3. CASE s.pendingLive = NoUsage
    <3>1. Life!Reconciling(s) = Life!ParentRestored(s.activated, s.reopen) /\ s.reopen # NoUsage
      BY <1>2, <1>4, <2>3 DEF Life!Reconciling, Life!Terminal, Life!NothingInProgress
    <3>2. /\ SameBut(t, s, {"active", "activated", "reopen"})
          /\ t.active = Parent /\ t.reopen = NoUsage
      BY <1>2, <2>1, <3>1, AfterRestored
    <3>4. Life!Terminal(t)
      BY <1>2, <2>3, <3>2 DEF Life!Terminal, Life!NothingInProgress, SameBut
    <3>5. Settled(s) = t
      BY <1>1, <3>4 DEF Settled, SettleOnce
    <3> QED BY <3>1, <3>2, <3>5
  <2> QED BY <2>2, <2>3
<1> QED BY <1>3, <1>4

LEMMA ForsakenServes ==
  ASSUME NEW s, NEW have, LifeIsEarned(s, have), Orderly(s), s.activated # NoLineage,
         s.reopen = NoUsage, NEW u, s.pendingLive \in {u, NoUsage}, u.purpose = "live"
  PROVE  /\ Orderly(Forsaken(s, u)) /\ Life!Terminal(Forsaken(s, u))
         /\ Forsaken(s, u).activated = s.activated /\ Forsaken(s, u).active = s.active
<1>1. /\ s.pendingCandidate = NoUsage /\ s.candidate = NoLineage /\ s.approved = NoLineage
      /\ LifeShape(s) /\ InOrder(s)
  BY DEF LifeIsEarned, InOrder, Orderly
<1>2. CASE s.pendingLive = u
  <2>1. PICK t : t = Life!After(s, Life!Abandoned(u))
    OBVIOUS
  <2>2. /\ SameBut(t, s, {"pendingCandidate", "pendingLive"}) /\ t.pendingLive = NoUsage
        /\ t.pendingCandidate = s.pendingCandidate
    BY <1>1, <2>1, AfterAbandoned
  <2>3. Orderly(t)
    BY <1>1, <2>1, OrderlyAbandoned
  <2>4. Forsaken(s, u) = t
    BY <1>2, <2>1 DEF Forsaken
  <2> QED BY <1>1, <2>2, <2>3, <2>4 DEF Life!Terminal, Life!NothingInProgress, SameBut
<1>3. CASE s.pendingLive # u
  <2>1. Forsaken(s, u) = s
    BY <1>3 DEF Forsaken
  <2> QED BY <1>1, <1>3, <2>1 DEF Life!Terminal, Life!NothingInProgress
<1> QED BY <1>2, <1>3
-----------------------------------------------------------------------------
\* What is derived from an answer depends on the parent alone.
LEMMA DerivationsStay ==
  ASSUME parent' = parent
  PROVE  /\ \A p, rows : /\ GrowthsOf(p, rows)' = GrowthsOf(p, rows)
                         /\ ContractionsOf(p, rows)' = ContractionsOf(p, rows)
                         /\ Redundant(rows)' = Redundant(rows)
         /\ \A p : SessionOf(p)' = SessionOf(p)
<1>1. ParentBehavior' = ParentBehavior
  BY DEF ParentBehavior
<1>2. ASSUME NEW p PROVE SessionOf(p)' = SessionOf(p)
  BY DEF SessionOf
<1>3. ASSUME NEW at PROVE Extended(at)' = Extended(at)
  BY DEF Extended
<1>4. ASSUME NEW p, NEW at PROVE OutcomeOf(p, at)' = OutcomeOf(p, at)
  BY <1>1, <1>3 DEF OutcomeOf, Outcome, Grown
<1>5. ASSUME NEW at PROVE Extends(at)' <=> Extends(at)
  BY <1>1, <1>3 DEF Extends
<1>6. ASSUME NEW p, NEW rows PROVE Candidates(p, rows)' = Candidates(p, rows)
  BY <1>2 DEF Candidates
<1>7. ASSUME NEW p, NEW rows PROVE GrowthsOf(p, rows)' = GrowthsOf(p, rows)
  <2>1. Chosen(p, rows)' = Chosen(p, rows)
    BY <1>4, <1>5, <1>6 DEF Chosen
  <2>2. CandidateSet(p, rows)' = CandidateSet(p, rows)
    BY <1>6 DEF CandidateSet
  <2> QED BY <2>1, <2>2 DEF GrowthsOf
<1>8. ASSUME NEW rows PROVE Redundant(rows)' = Redundant(rows)
  <2>1. ASSUME NEW x PROVE PositionOf(x)' = PositionOf(x)
    BY DEF PositionOf
  <2> QED BY <2>1 DEF Redundant
<1>9. ASSUME NEW k, NEW r PROVE Contracted(k, r)' = Contracted(k, r)
  BY DEF Contracted
<1>10. ASSUME NEW k, NEW r, NEW c PROVE Contracts(k, r, c)' <=> Contracts(k, r, c)
  BY <1>1, <1>9 DEF Contracts, SameColumn
<1>11. ASSUME NEW p, NEW rows PROVE ContractionsOf(p, rows)' = ContractionsOf(p, rows)
  BY <1>8, <1>9, <1>10 DEF ContractionsOf, Dropped, RedundancySet
<1> QED BY <1>2, <1>7, <1>8, <1>11

\* What is rebuilt from the store is the same as long as the question is.
LEMMA RebuildsStays ==
  ASSUME parent' = parent, query' = query, session' = session, NEW l
  PROVE  Rebuilds(l)' <=> Rebuilds(l)
<1>1. Selected' = Selected
  BY DEF Selected, NumericField
<1>2. Rederived(l)' = Rederived(l)
  BY <1>1, DerivationsStay DEF Rederived
<1>3. Regrows(l)' <=> Regrows(l)
  BY <1>2, DerivationsStay DEF Regrows
<1>4. Recontracts(l)' <=> Recontracts(l)
  BY <1>2, DerivationsStay DEF Recontracts
<1> QED BY <1>3, <1>4 DEF Rebuilds, RebuildsGrowth, RebuildsContraction
-----------------------------------------------------------------------------
\* What the log says of the child the caller has a result or a case about.
Serving(l)  == l # NoLineage /\ life.activated = l /\ life.active = Life!Child(l)
ParentIsBack == life.active = Parent /\ Life!Terminal(life)
Reopening(l) == Serving(l) /\ life.reopen = driver.usage /\ driver.usage # NoUsage

Ended(outcomes) == driver.at = "idle" /\ driver.outcome \in outcomes

\* A lineage that has been recorded is in the store, and is rebuilt from it.
Recorded ==
  driver.lineage # NoLineage /\ Rebuilds(driver.lineage) /\ Loads(Needed(driver.lineage))
Holding == {"decide", "activate", "attest", "evaluate", "restore"}

Evaluating ==
  /\ Serving(driver.lineage) /\ life.reopen = NoUsage
  /\ life.pendingLive \in {driver.usage, NoUsage} /\ driver.usage.purpose = "live"

SettleInv ==
  /\ Orderly(life)
  /\ driver.at \in Holding \/ Ended({"served", "unsettled"}) => Recorded
  /\ driver.at = "attest" \/ Ended({"raised", "served", "reopened", "refused"}) => Life!Terminal(life)
  /\ driver.at = "attest" \/ Ended({"served"}) => Serving(driver.lineage)
  /\ Ended({"unsettled"}) => Serving(driver.lineage) \/ ParentIsBack
  /\ driver.at = "evaluate" => Evaluating
  /\ driver.at = "restore" =>
       AttestedLive(driver.lineage, driver.live) /\ (ParentIsBack \/ Reopening(driver.lineage))

LEMMA QuietKeeps ==
  ASSUME Orderly(life'), driver'.at \notin Holding \union {"idle"}
  PROVE  SettleInv'
BY DEF SettleInv, Holding, Ended

LEMMA EndsSays ==
  ASSUME DriverShape, NEW how, Ends(how)
  PROVE  /\ driver'.at = "idle" /\ driver'.outcome = how /\ driver'.lineage = driver.lineage
         /\ driver'.usage = driver.usage
BY DEF DriverShape, Ends

LEMMA GoesSays ==
  ASSUME DriverShape, NEW x, Goes(x)
  PROVE  /\ driver'.at = x /\ driver'.outcome = driver.outcome /\ driver'.lineage = driver.lineage
         /\ driver'.usage = driver.usage /\ driver'.live = driver.live
         /\ driver'.plan = driver.plan /\ driver'.sequence = driver.sequence
         /\ driver'.previous = driver.previous
BY DEF DriverShape, Goes

LEMMA RecordedStays ==
  ASSUME Recorded, UNCHANGED <<session, query, parent>>, objects \subseteq objects',
         driver'.lineage = driver.lineage
  PROVE  Recorded'
<1>1. PICK l : l = driver.lineage
  OBVIOUS
<1>2. Rebuilds(l)' <=> Rebuilds(l)
  BY RebuildsStays
<1>3. Needed(l)' = Needed(l)
  BY ParentStays
<1>4. l # NoLineage /\ Rebuilds(l) /\ Needed(l) \subseteq objects
  BY <1>1 DEF Recorded, Loads
<1>5. Rebuilds(l)' /\ Loads(Needed(l))'
  BY <1>2, <1>3, <1>4 DEF Loads
<1>6. driver'.lineage = l
  BY <1>1
<1> QED BY <1>4, <1>5, <1>6 DEF Recorded

\* An activation ends all that is in progress.
LEMMA ActivationServes ==
  ASSUME LifeIsEarned(life, objects), Orderly(life), NEW l, l # NoLineage,
         Life!Valid(life, Life!Activated(l)), life' = Life!After(life, Life!Activated(l))
  PROVE  Orderly(life') /\ Life!Terminal(life') /\ Serving(l)'
<1>1. /\ SameBut(life', life, {"active", "approved", "activated"})
      /\ life'.active = Life!Child(l) /\ life'.approved = NoLineage /\ life'.activated = l
  BY AfterActivation DEF LifeIsEarned
<1>2. life.approved = l /\ life.pendingLive = NoUsage /\ life.reopen = NoUsage
  BY ValidActivation
<1>3. life.candidate = NoLineage
  BY <1>2 DEF LifeIsEarned, InOrder
<1>4. life.pendingCandidate = NoUsage
  BY <1>2 DEF Orderly, Life!NothingInProgress
<1>5. Orderly(life')
  BY <1>2, OrderlyActivated DEF LifeIsEarned
<1>6. Life!Terminal(life')
  BY <1>1, <1>2, <1>3, <1>4 DEF Life!Terminal, Life!NothingInProgress, SameBut
<1>7. Serving(l)'
  BY <1>1 DEF Serving
<1> QED BY <1>5, <1>6, <1>7
-----------------------------------------------------------------------------
SettlePre == EpisodeInv /\ SettleInv

LEMMA SettlePreSays ==
  ASSUME SettlePre
  PROVE  /\ LifeIsEarned(life, objects) /\ LifeShape(life) /\ InOrder(life) /\ Orderly(life)
         /\ DriverShape
BY DEF SettlePre, EpisodeInv, SettleInv, LifeIsEarned, DriverInv

LEMMA BeginSettles ==
  ASSUME SettlePre, Begin
  PROVE  SettleInv'
<1>1. life' = life /\ \E p \in Plans : BeginWith(p)
  BY DEF Begin, BeginSingle, BeginGrowth, BeginContraction
<1>2. driver'.at \in {"publish", "recover"}
  BY <1>1 DEF BeginWith, Idle
<1> QED BY <1>1, <1>2, QuietKeeps, SettlePreSays DEF Holding

\* A step to a place where nothing is said of the log, that leaves it orderly.
LEMMA GoesQuietly ==
  ASSUME SettlePre, Orderly(life'), NEW x, Goes(x), x \notin Holding \union {"idle"}
  PROVE  SettleInv'
BY GoesSays, QuietKeeps, SettlePreSays

LEMMA PreparationSettles ==
  ASSUME SettlePre, PublishParent \/ Construct \/ Register \/ Consult \/ Collected
  PROVE  SettleInv'
<1>1. CASE PublishParent
  BY <1>1, GoesQuietly, SettlePreSays DEF PublishParent, Holding
<1>2. CASE Construct
  <2>1. life' = Settled(life) /\ \E x \in {"register", "reserve", "recover"} : Goes(x)
    BY <1>2 DEF Construct
  <2>2. Orderly(life')
    BY <2>1, SettledIsOrderly, SettlePreSays
  <2> QED BY <2>1, <2>2, GoesQuietly DEF Holding
<1>3. CASE Register
  <2>1. /\ Goes("reserve") \/ Goes("recover")
        /\ \/ life' = life
           \/ /\ Life!Valid(life, Life!Registered(TrainingUsage))
              /\ life' = Life!After(life, Life!Registered(TrainingUsage))
    BY <1>3 DEF Register, Appends
  <2>2. Orderly(life')
    BY <2>1, OrderlyRegistered, SettlePreSays
  <2> QED BY <2>1, <2>2, GoesQuietly DEF Holding
<1>4. CASE Consult
  BY <1>4, GoesQuietly, SettlePreSays DEF Consult, Holding
<1>5. CASE Collected
  <2>1. life' = life /\ \E x \in {"build", "recover"} : Goes(x)
    BY <1>5 DEF Collected
  <2> QED BY <2>1, GoesQuietly, SettlePreSays DEF Holding
<1> QED BY <1>1, <1>2, <1>3, <1>4, <1>5

LEMMA ReserveSettles ==
  ASSUME SettlePre, Reserve
  PROVE  SettleInv'
<1>1. PICK u, freed : /\ u = Life!Usage("candidate", life.active, EpisodeIds(driver.plan))
                      /\ freed = Freed(life)
  OBVIOUS
<1>2. \/ /\ Life!Valid(freed, Life!Reserved(u)) /\ life' = Life!After(freed, Life!Reserved(u))
         /\ driver' = [driver EXCEPT !.at = "consult", !.usage = u,
                           !.sequence = freed.count + 1, !.previous = freed.last]
      \/ life' = freed /\ Goes("recover")
  BY <1>1 DEF Reserve
<1>3. LifeIsEarned(freed, objects)
  BY <1>1, FreedIsEarned, SettlePreSays
<1>4. Orderly(freed)
  BY <1>1, OrderlyAbandoned, SettlePreSays DEF Freed
<1>5. Orderly(life')
  BY <1>2, <1>3, <1>4, OrderlyReserved DEF LifeIsEarned
<1>6. driver'.at \in {"consult", "recover"}
  BY <1>2, GoesSays, SettlePreSays DEF DriverShape
<1> QED BY <1>5, <1>6, QuietKeeps DEF Holding

LEMMA MakingSettles ==
  ASSUME SettlePre, Collecting \/ Build \/ Audit
  PROVE  SettleInv'
<1>1. life' = life
  BY DEF Collecting, Build, Audit, ownVars
<1>2. driver'.at \in {"collect", "audit", "record", "recover"}
  <2>1. CASE Collecting
    BY <2>1 DEF Collecting, ownVars, At
  <2>2. CASE Build
    <3>1. Goes("recover") \/ \E b : driver' = [driver EXCEPT !.at = "audit", !.lineage = Begun(b)]
      BY <2>2 DEF Build, Building
    <3> QED BY <3>1, GoesSays, SettlePreSays DEF DriverShape
  <2>3. CASE Audit
    <3>1. Goes("recover") \/ \E l : driver' = [driver EXCEPT !.at = "record", !.lineage = l]
      BY <2>3 DEF Audit
    <3> QED BY <3>1, GoesSays, SettlePreSays DEF DriverShape
  <2> QED BY <2>1, <2>2, <2>3
<1> QED BY <1>1, <1>2, QuietKeeps, SettlePreSays DEF Holding

\* The lineage of an episode is of a plan, and so is one.
LEMMA InHandIsLineage ==
  ASSUME PlanIsFresh, NEW l, l.plan = driver.plan
  PROVE  l # NoLineage
BY DEF PlanIsFresh, NoLineage, NoPlan

LEMMA RecordSettles ==
  ASSUME SettlePre, Record
  PROVE  SettleInv'
<1>1. PICK l : l = driver.lineage
  OBVIOUS
<1>2. /\ driver.at = "record" /\ UNCHANGED <<session, query, parent, objects>>
      /\ \/ /\ Loads(Needed(l)) /\ Rebuilds(l) /\ Life!Valid(life, Life!Created(l))
            /\ life' = Life!After(life, Life!Created(l)) /\ Goes("decide")
         \/ life' = life /\ Goes("recover")
  BY <1>1 DEF Record, Elsewhere, collectiveVars, At, Appends
<1>3. CASE life' = life /\ Goes("recover")
  BY <1>3, GoesQuietly, SettlePreSays DEF Holding
<1>4. CASE /\ Loads(Needed(l)) /\ Rebuilds(l)
           /\ life' = Life!After(life, Life!Created(l)) /\ Goes("decide")
  <2>1. l # NoLineage
    BY <1>1, <1>2, InHandIsLineage DEF SettlePre, EpisodeInv, DriverInv, InHand, Underway
  <2>2. Recorded
    BY <1>1, <1>4, <2>1 DEF Recorded
  <2>3. driver'.at = "decide" /\ driver'.lineage = driver.lineage
    BY <1>4, GoesSays, SettlePreSays
  <2>4. Recorded'
    BY <1>2, <2>2, <2>3, RecordedStays
  <2>5. Orderly(life')
    BY <1>4, OrderlyCreated, SettlePreSays
  <2> QED BY <2>3, <2>4, <2>5 DEF SettleInv, Ended
<1> QED BY <1>2, <1>3, <1>4

LEMMA DecideSettles ==
  ASSUME SettlePre, Decide
  PROVE  SettleInv'
<1>1. PICK l : l = driver.lineage
  OBVIOUS
<1>2. /\ driver.at = "decide" /\ UNCHANGED <<session, query, parent, objects>>
      /\ \/ /\ l.accepted /\ Life!Valid(life, Life!Approved(l))
            /\ life' = Life!After(life, Life!Approved(l)) /\ Goes("activate")
         \/ ~l.accepted /\ life' = Life!After(life, Life!Rejected(l)) /\ Goes("recover")
         \/ life' = life /\ Goes("recover")
  BY <1>1 DEF Decide, Elsewhere, collectiveVars, At, Appends
<1>3. CASE /\ Goes("recover")
           /\ life' = life \/ life' = Life!After(life, Life!Rejected(l))
  <2>1. Orderly(life')
    BY <1>3, OrderlyRejected, SettlePreSays
  <2> QED BY <1>3, <2>1, GoesQuietly DEF Holding
<1>4. CASE /\ Life!Valid(life, Life!Approved(l))
           /\ life' = Life!After(life, Life!Approved(l)) /\ Goes("activate")
  <2>1. Recorded
    BY <1>2 DEF SettlePre, SettleInv, Holding
  <2>2. driver'.at = "activate" /\ driver'.lineage = driver.lineage
    BY <1>4, GoesSays, SettlePreSays
  <2>3. Recorded'
    BY <1>2, <2>1, <2>2, RecordedStays
  <2>4. life.candidate = l
    BY <1>4 DEF Life!Valid, Life!Approved, Life!LifecycleEvent, Life!ValidApproved
  <2>5. Orderly(life')
    BY <1>4, <2>4, OrderlyApproved, SettlePreSays
  <2> QED BY <2>2, <2>3, <2>5 DEF SettleInv, Ended
<1> QED BY <1>2, <1>3, <1>4

LEMMA ActivateSettles ==
  ASSUME SettlePre, Activate
  PROVE  SettleInv'
<1>1. PICK l : l = driver.lineage
  OBVIOUS
<1>2. /\ driver.at = "activate" /\ UNCHANGED <<session, query, parent, objects>>
      /\ \/ /\ Life!Valid(life, Life!Activated(l)) /\ life' = Life!After(life, Life!Activated(l))
            /\ Goes("attest") \/ Ends("served")
         \/ life' = life /\ Goes("recover")
  BY <1>1 DEF Activate, Elsewhere, collectiveVars, At, Appends
<1>3. CASE life' = life /\ Goes("recover")
  BY <1>3, GoesQuietly, SettlePreSays DEF Holding
<1>4. CASE /\ Life!Valid(life, Life!Activated(l)) /\ life' = Life!After(life, Life!Activated(l))
           /\ Goes("attest") \/ Ends("served")
  <2>1. Recorded
    BY <1>2 DEF SettlePre, SettleInv, Holding
  <2>2. /\ driver'.lineage = l
        /\ driver'.at = "attest" \/ (driver'.at = "idle" /\ driver'.outcome = "served")
    BY <1>1, <1>4, GoesSays, EndsSays, SettlePreSays
  <2>3. Recorded'
    BY <1>1, <1>2, <2>1, <2>2, RecordedStays
  <2>4. Orderly(life') /\ Life!Terminal(life') /\ Serving(l)'
    BY <1>1, <1>4, <2>1, ActivationServes, SettlePreSays DEF Recorded
  <2>5. Serving(driver.lineage)'
    BY <2>2, <2>4 DEF Serving
  <2> QED BY <2>2, <2>3, <2>4, <2>5 DEF SettleInv, Ended
<1> QED BY <1>2, <1>3, <1>4

LEMMA AttestSettles ==
  ASSUME SettlePre, Attest
  PROVE  SettleInv'
<1>1. /\ driver.at = "attest" /\ UNCHANGED <<session, query, parent, life>>
      /\ Ends("served") /\ objects \subseteq objects'
  BY DEF Attest, Elsewhere, collectiveVars, At, Publishes
<1>2. Recorded /\ Life!Terminal(life) /\ Serving(driver.lineage)
  BY <1>1 DEF SettlePre, SettleInv, Holding
<1>3. driver'.at = "idle" /\ driver'.outcome = "served" /\ driver'.lineage = driver.lineage
  BY <1>1, EndsSays, SettlePreSays
<1>4. Recorded'
  BY <1>1, <1>2, <1>3, RecordedStays
<1>5. Serving(driver.lineage)'
  BY <1>1, <1>2, <1>3 DEF Serving
<1>6. Orderly(life') /\ Life!Terminal(life')
  BY <1>1, <1>2, SettlePreSays
<1> QED BY <1>3, <1>4, <1>5, <1>6 DEF SettleInv, Ended

LEMMA RecoverSettles ==
  ASSUME SettlePre, Recover
  PROVE  SettleInv'
<1>1. life' = Settled(life) /\ Ends("raised")
  BY DEF Recover
<1>2. Orderly(life') /\ Life!Terminal(life')
  BY <1>1, SettledIsOrderly, SettlePreSays
<1>3. driver'.at = "idle" /\ driver'.outcome = "raised"
  BY <1>1, EndsSays, SettlePreSays
<1> QED BY <1>2, <1>3 DEF SettleInv, Ended, Holding

LEMMA ExamineSettles ==
  ASSUME SettlePre, Examine
  PROVE  SettleInv'
<1>1. PICK l, freed : l = driver.lineage /\ freed = Forsaken(life, driver.usage)
  OBVIOUS
<1>2. /\ Ended({"served", "unsettled"}) /\ life.active = Life!Child(l)
      /\ UNCHANGED <<session, query, parent>> /\ objects \subseteq objects'
      /\ \E u, corpus :
           /\ u = Life!Usage("live", life.active, Ids(corpus)) /\ Life!Valid(freed, Life!Reserved(u))
           /\ life' = Life!After(freed, Life!Reserved(u))
           /\ driver' = [driver EXCEPT !.at = "evaluate", !.usage = u, !.live = corpus]
  BY <1>1 DEF Examine, Ended, At, Elsewhere, collectiveVars, Publishes
<1>3. PICK u, corpus :
        /\ u = Life!Usage("live", life.active, Ids(corpus)) /\ Life!Valid(freed, Life!Reserved(u))
        /\ life' = Life!After(freed, Life!Reserved(u))
        /\ driver' = [driver EXCEPT !.at = "evaluate", !.usage = u, !.live = corpus]
  BY <1>2
<1>4. u.purpose = "live"
  BY <1>3 DEF Life!Usage
<1>5. LifeIsEarned(freed, objects) /\ Orderly(freed)
  BY <1>1, ForsakenIsEarned, OrderlyAbandoned, SettlePreSays DEF Forsaken
<1>6. freed.active = life.active /\ freed.activated = life.activated
  <2>1. PICK t : t = Life!After(life, Life!Abandoned(driver.usage))
    OBVIOUS
  <2>2. SameBut(t, life, {"pendingCandidate", "pendingLive"})
    BY <2>1, AfterAbandoned, SettlePreSays
  <2>3. freed = t \/ freed = life
    BY <1>1, <2>1 DEF Forsaken
  <2> QED BY <2>2, <2>3 DEF SameBut
<1>7. freed.active # Parent /\ freed.reopen = NoUsage
  BY <1>3, <1>4 DEF Life!Valid, Life!Reserved, Life!LifecycleEvent, Life!ValidReserved,
     Life!NothingInProgress
<1>8. Recorded /\ Serving(l)
  BY <1>1, <1>2, <1>6, <1>7 DEF SettlePre, SettleInv, Ended, ParentIsBack
<1>9. /\ SameBut(life', freed, {"pendingCandidate", "pendingLive"}) /\ life'.pendingLive = u
  BY <1>3, <1>4, <1>5, AfterReserved DEF LifeIsEarned
<1>10. Orderly(life')
  BY <1>3, <1>5, OrderlyReserved DEF LifeIsEarned
<1>11. driver'.at = "evaluate" /\ driver'.usage = u /\ driver'.lineage = l
  BY <1>1, <1>3, SettlePreSays DEF DriverShape
<1>12. Recorded'
  BY <1>1, <1>2, <1>8, <1>11, RecordedStays
<1>13. Serving(l)'
  BY <1>6, <1>8, <1>9 DEF Serving, SameBut
<1>14. Evaluating'
  <2>1. Serving(driver.lineage)'
    BY <1>11, <1>13 DEF Serving
  <2>2. life'.reopen = NoUsage
    BY <1>7, <1>9 DEF SameBut
  <2> QED BY <1>4, <1>9, <1>11, <2>1, <2>2 DEF Evaluating
<1> QED BY <1>10, <1>11, <1>12, <1>14 DEF SettleInv, Ended

\* A case that is not made ends as it began.
LEMMA ForsakingServes ==
  ASSUME SettlePre, driver.at = "evaluate", life' = Forsaken(life, driver.usage), Ends("served"),
         UNCHANGED <<session, query, parent>>, objects \subseteq objects'
  PROVE  SettleInv'
<1>1. PICK l : l = driver.lineage
  OBVIOUS
<1>2. Recorded /\ Evaluating /\ Serving(l)
  BY <1>1 DEF SettlePre, SettleInv, Holding, Evaluating
<1>3. /\ Orderly(life') /\ Life!Terminal(life')
      /\ life'.activated = life.activated /\ life'.active = life.active
  BY <1>2, ForsakenServes, SettlePreSays DEF Evaluating, Serving
<1>4. driver'.at = "idle" /\ driver'.outcome = "served" /\ driver'.lineage = l
  BY <1>1, EndsSays, SettlePreSays
<1>5. Recorded'
  BY <1>1, <1>2, <1>4, RecordedStays
<1>6. Serving(driver.lineage)'
  BY <1>2, <1>3, <1>4 DEF Serving
<1> QED BY <1>3, <1>4, <1>5, <1>6 DEF SettleInv, Ended

LEMMA EvaluateSettles ==
  ASSUME SettlePre, Evaluate
  PROVE  SettleInv'
<1>1. PICK l, u, corpus : l = driver.lineage /\ u = driver.usage /\ corpus = driver.live
  OBVIOUS
<1>2. PICK witness, drift, e :
        /\ witness = Conformance(ChildOfGraph(l), corpus, Vectors(ChildOfGraph(l), corpus))
        /\ drift = Counts(OldOf(l).behavior, l.behavior, corpus)
        /\ e = Life!ReopenRequested(l, u)
  OBVIOUS
<1>3. /\ driver.at = "evaluate" /\ UNCHANGED <<session, query, parent>>
      /\ \/ /\ Deployable(ChildOfGraph(l)) /\ AgreeLive(witness)
            /\ objects' = objects \union Live(witness, drift)
            /\ Life!Valid(life, e) /\ life' = Life!After(life, e) /\ Goes("restore")
         \/ /\ objects \subseteq objects'
            /\ life' = Forsaken(life, u) /\ Ends("served")
  <2>1. /\ driver.at = "evaluate" /\ UNCHANGED <<session, query, parent>>
    BY DEF Evaluate, Elsewhere, collectiveVars, At
  <2>2. \/ /\ Deployable(ChildOfGraph(l)) /\ AgreeLive(witness) /\ Publishes(Live(witness, drift))
           /\ Life!Valid(life, e) /\ life' = Life!After(life, e) /\ Goes("restore")
        \/ /\ Publishes(Live(witness, drift)) \/ objects' = objects
           /\ life' = Forsaken(life, u) /\ Ends("served")
    BY <1>1, <1>2 DEF Evaluate, Appends
  <2> QED BY <2>1, <2>2 DEF Publishes
<1>4. CASE objects \subseteq objects' /\ life' = Forsaken(life, u) /\ Ends("served")
  BY <1>1, <1>3, <1>4, ForsakingServes
<1>5. CASE /\ Deployable(ChildOfGraph(l)) /\ AgreeLive(witness)
           /\ objects' = objects \union Live(witness, drift)
           /\ Life!Valid(life, e) /\ life' = Life!After(life, e) /\ Goes("restore")
  <2>1. Recorded /\ Serving(l)
    BY <1>1, <1>3 DEF SettlePre, SettleInv, Holding, Evaluating
  <2>2. /\ driver'.at = "restore" /\ driver'.lineage = l /\ driver'.usage = u
        /\ driver'.live = corpus
    BY <1>1, <1>5, GoesSays, SettlePreSays
  <2>3. Recorded'
    BY <1>1, <1>3, <1>5, <2>1, <2>2, RecordedStays
  <2>4. AttestedLive(driver.lineage, driver.live)'
    <3>1. Agree(witness.vectors)
      BY <1>5 DEF AgreeLive
    <3>2. Attested(ChildOfGraph(l), corpus, witness)
      BY <1>2, <1>5, <3>1 DEF Attested
    <3>3. Live(witness, drift) \subseteq objects'
      BY <1>5
    <3>4. AttestedLive(l, corpus)'
      BY <1>2, <3>2, <3>3 DEF AttestedLive, Loads
    <3> QED BY <2>2, <3>4
  <2>5. /\ SameBut(life', life, {"reopen", "pendingLive"}) /\ life'.reopen = u
    BY <1>2, <1>5, AfterReopened, SettlePreSays
  <2>6. u # NoUsage
    BY <1>2, <1>5 DEF Life!Valid, Life!ReopenRequested, Life!LifecycleEvent, Life!ValidReopen
  <2>7. Orderly(life')
    BY <1>2, <1>5, OrderlyReopened, SettlePreSays
  <2>8. Reopening(driver.lineage)'
    BY <2>1, <2>2, <2>5, <2>6 DEF Reopening, Serving, SameBut
  <2> QED BY <2>2, <2>3, <2>4, <2>7, <2>8 DEF SettleInv, Ended
<1> QED BY <1>3, <1>4, <1>5

LEMMA RestoreSettles ==
  ASSUME SettlePre, Restore
  PROVE  SettleInv'
<1>1. PICK l, u, e : l = driver.lineage /\ u = driver.usage /\ e = Life!ParentRestored(l, u)
  OBVIOUS
<1>2. /\ driver.at = "restore"
      /\ \/ Life!Valid(life, e) /\ life' = Life!After(life, e) /\ Ends("reopened")
         \/ /\ ~(/\ Loads(Needed(l)) /\ Rebuilds(l)
                 /\ AttestedLive(l, driver.live) /\ Resolves(l.bundle, OldOf(l))
                 /\ Life!Valid(life, e))
            /\ life' = life /\ Ends("refused")
  BY <1>1 DEF Restore, Elsewhere, At, Appends
<1>3. /\ Loads(Needed(l)) /\ Rebuilds(l) /\ AttestedLive(l, driver.live)
      /\ ParentIsBack \/ Reopening(l)
  BY <1>1, <1>2 DEF SettlePre, SettleInv, Holding, Recorded
<1>4. Resolves(l.bundle, OldOf(l))
  BY <1>3 DEF Rebuilds, SpendsItsCorpora
<1>5. Reopening(l) => Life!Valid(life, e)
  BY <1>1 DEF Reopening, Serving, Life!Valid, Life!ParentRestored, Life!LifecycleEvent, Life!ValidRestored
<1>6. CASE Life!Valid(life, e) /\ life' = Life!After(life, e) /\ Ends("reopened")
  <2>1. life.reopen # NoUsage
    BY <1>1, <1>6 DEF Life!Valid, Life!ParentRestored, Life!LifecycleEvent, Life!ValidRestored
  <2>2. /\ life.pendingLive = NoUsage /\ life.pendingCandidate = NoUsage
        /\ life.candidate = NoLineage /\ life.approved = NoLineage
    BY <2>1, SettlePreSays DEF InOrder, Orderly, Life!NothingInProgress
  <2>3. /\ SameBut(life', life, {"active", "activated", "reopen"}) /\ life'.reopen = NoUsage
    BY <1>1, <1>6, AfterRestored, SettlePreSays
  <2>4. Life!Terminal(life')
    BY <2>2, <2>3 DEF Life!Terminal, Life!NothingInProgress, SameBut
  <2>5. Orderly(life')
    BY <1>1, <1>6, <2>1, OrderlyRestored, SettlePreSays
  <2>6. driver'.at = "idle" /\ driver'.outcome = "reopened"
    BY <1>6, EndsSays, SettlePreSays
  <2> QED BY <2>4, <2>5, <2>6 DEF SettleInv, Ended, Holding
<1>7. CASE life' = life /\ Ends("refused") /\ ParentIsBack
  <2>1. driver'.at = "idle" /\ driver'.outcome = "refused"
    BY <1>7, EndsSays, SettlePreSays
  <2>2. Orderly(life') /\ Life!Terminal(life')
    BY <1>7, SettlePreSays DEF ParentIsBack
  <2> QED BY <2>1, <2>2 DEF SettleInv, Ended, Holding
<1> QED BY <1>2, <1>3, <1>4, <1>5, <1>6, <1>7
-----------------------------------------------------------------------------
LEMMA MidwayIsOrderly ==
  ASSUME SettlePre, NEW s \in Midway
  PROVE  Orderly(s)
BY SettledIsOrderly, SettlePreSays DEF Midway

LEMMA CrashSettles ==
  ASSUME SettlePre, Crash
  PROVE  SettleInv'
<1>1. life' \in Midway /\ driver' = [Idle EXCEPT !.outcome = "crashed"]
  BY DEF Crash
<1>2. Orderly(life')
  BY <1>1, MidwayIsOrderly
<1>3. driver'.at = "idle" /\ driver'.outcome = "crashed"
  BY <1>1 DEF Idle
<1> QED BY <1>2, <1>3 DEF SettleInv, Ended, Holding

LEMMA FailSettles ==
  ASSUME SettlePre, Fail
  PROVE  SettleInv'
<1>1. /\ UNCHANGED <<session, query, parent, objects>>
      /\ \/ life' \in Midway /\ Goes("recover")
         \/ driver.at = "attest" /\ life' = life /\ Ends("raised")
         \/ life' \in Midway /\ Ends("broken")
         \/ driver.at = "evaluate" /\ life' = Forsaken(life, driver.usage) /\ Ends("served")
         \/ driver.at \in {"evaluate", "restore"} /\ life' = life /\ Ends("unsettled")
  BY DEF Fail, collectiveVars, At
<1>2. CASE life' \in Midway /\ Goes("recover")
  <2>1. Orderly(life')
    BY <1>2, MidwayIsOrderly
  <2> QED BY <1>2, <2>1, GoesQuietly DEF Holding
<1>3. CASE driver.at = "attest" /\ life' = life /\ Ends("raised")
  <2>1. Orderly(life') /\ Life!Terminal(life')
    BY <1>3, SettlePreSays DEF SettlePre, SettleInv
  <2>2. driver'.at = "idle" /\ driver'.outcome = "raised"
    BY <1>3, EndsSays, SettlePreSays
  <2> QED BY <2>1, <2>2 DEF SettleInv, Ended, Holding
<1>4. CASE life' \in Midway /\ Ends("broken")
  <2>1. Orderly(life')
    BY <1>4, MidwayIsOrderly
  <2>2. driver'.at = "idle" /\ driver'.outcome = "broken"
    BY <1>4, EndsSays, SettlePreSays
  <2> QED BY <2>1, <2>2 DEF SettleInv, Ended, Holding
<1>5. CASE driver.at = "evaluate" /\ life' = Forsaken(life, driver.usage) /\ Ends("served")
  BY <1>1, <1>5, ForsakingServes
<1>6. CASE driver.at \in {"evaluate", "restore"} /\ life' = life /\ Ends("unsettled")
  <2>1. Recorded /\ (Serving(driver.lineage) \/ ParentIsBack)
    BY <1>6 DEF SettlePre, SettleInv, Holding, Evaluating, Reopening
  <2>2. driver'.at = "idle" /\ driver'.outcome = "unsettled" /\ driver'.lineage = driver.lineage
    BY <1>6, EndsSays, SettlePreSays
  <2>3. Recorded'
    BY <1>1, <2>1, <2>2, RecordedStays
  <2>4. (Serving(driver.lineage) \/ ParentIsBack)'
    BY <1>6, <2>1, <2>2 DEF Serving, ParentIsBack
  <2>5. Orderly(life')
    BY <1>6, SettlePreSays
  <2> QED BY <2>2, <2>3, <2>4, <2>5 DEF SettleInv, Ended, Holding
<1> QED BY <1>1, <1>2, <1>3, <1>4, <1>5, <1>6

\* What holds of the caller stays while the store grows and the log is settled.
LEMMA MeddleSettles ==
  ASSUME SettlePre, Meddle
  PROVE  SettleInv'
<1>1. /\ ~Life!Terminal(life) /\ life' = Settled(life)
      /\ UNCHANGED <<session, query, parent, objects, driver>>
  BY DEF Meddle, collectiveVars
<1>2. Orderly(life') /\ Life!Terminal(life')
  BY <1>1, SettledIsOrderly, SettlePreSays
<1>3. PICK l : l = driver.lineage /\ l = driver'.lineage
  BY <1>1
<1>4. driver.at \in Holding \/ Ended({"served", "unsettled"}) => Recorded'
  BY <1>1, RecordedStays DEF SettlePre, SettleInv
<1>5. driver.at # "attest" /\ ~Ended({"raised", "served", "reopened", "refused"})
  BY <1>1 DEF SettlePre, SettleInv
<1>6. Serving(l) => /\ life.reopen = NoUsage => Serving(l)'
                    /\ life.reopen # NoUsage => ParentIsBack'
  <2>1. ASSUME Serving(l), life.reopen = NoUsage PROVE Serving(l)'
    BY <1>1, <2>1, SettledServes, SettlePreSays DEF Serving
  <2>2. ASSUME Serving(l), life.reopen # NoUsage PROVE ParentIsBack'
    BY <1>1, <1>2, <2>2, SettledServes, SettlePreSays DEF Serving, ParentIsBack
  <2> QED BY <2>1, <2>2
<1>7. Ended({"unsettled"}) => Serving(l)' \/ ParentIsBack'
  BY <1>1, <1>3, <1>6 DEF SettlePre, SettleInv, ParentIsBack
<1>8. ASSUME driver.at = "evaluate" PROVE Evaluating'
  <2>1. Evaluating /\ Serving(l)
    BY <1>3, <1>8 DEF SettlePre, SettleInv, Evaluating
  <2>2. Serving(driver.lineage)'
    BY <1>3, <1>6, <2>1 DEF Evaluating, Serving
  <2>3. life'.reopen = NoUsage /\ life'.pendingLive = NoUsage
    BY <1>2 DEF Life!Terminal, Life!NothingInProgress
  <2> QED BY <1>1, <2>1, <2>2, <2>3 DEF Evaluating
<1>9. ASSUME driver.at = "restore"
      PROVE  AttestedLive(driver.lineage, driver.live)' /\ ParentIsBack'
  <2>1. AttestedLive(driver.lineage, driver.live) /\ Reopening(l)
    BY <1>1, <1>3, <1>9 DEF SettlePre, SettleInv, ParentIsBack
  <2>2. AttestedLive(driver.lineage, driver.live)'
    BY <1>1, <2>1 DEF AttestedLive, Loads
  <2>3. ParentIsBack'
    BY <1>6, <2>1 DEF Reopening
  <2> QED BY <2>2, <2>3
<1>10. driver' = driver
  BY <1>1
<1> QED BY <1>2, <1>3, <1>4, <1>5, <1>7, <1>8, <1>9, <1>10 DEF SettleInv, Ended, Serving

LEMMA StutterSettles ==
  ASSUME SettlePre, UNCHANGED <<session, query, parent, life, objects, driver>>
  PROVE  SettleInv'
<1>1. Recorded => Recorded'
  BY RecordedStays
<1>2. AttestedLive(driver.lineage, driver.live) => AttestedLive(driver.lineage, driver.live)'
  BY DEF AttestedLive, Loads
<1>3. driver' = driver /\ life' = life
  OBVIOUS
<1> QED BY <1>1, <1>2, <1>3
        DEF SettlePre, SettleInv, Ended, Serving, ParentIsBack, Evaluating, Reopening

LEMMA EpisodeStartsSettled == EpisodeInit => SettleInv
<1> SUFFICES ASSUME EpisodeInit PROVE SettleInv
  OBVIOUS
<1>1. life = Life!Blank /\ driver = Idle
  BY DEF EpisodeInit
<1> QED BY <1>1 DEF SettleInv, Ended, Holding, Orderly, Idle, Life!Blank

LEMMA EpisodeKeepsSettled == SettlePre /\ [EpisodeNext]_episodeVars => SettleInv'
<1> SUFFICES ASSUME SettlePre, [EpisodeNext]_episodeVars PROVE SettleInv'
  OBVIOUS
<1>1. CASE UNCHANGED episodeVars
  BY <1>1, StutterSettles DEF episodeVars, ownVars, collectiveVars
<1>2. CASE EpisodeNext
  BY <1>2, BeginSettles, PreparationSettles, ReserveSettles, MakingSettles, RecordSettles,
     DecideSettles, ActivateSettles, AttestSettles, RecoverSettles, ExamineSettles,
     EvaluateSettles, RestoreSettles, CrashSettles, FailSettles, MeddleSettles
  DEF EpisodeNext
<1> QED BY <1>1, <1>2

\* The invariant of the end of a call: whatever fails, what is in progress is
\* what its caller holds, and two constructions of a controller end it.
THEOREM SettleInvariant == EpisodeSpec => []SettlePre
<1>1. EpisodeInit => SettlePre
  BY EpisodeStarts, EpisodeStartsSettled DEF SettlePre
<1>2. SettlePre /\ [EpisodeNext]_episodeVars => SettlePre'
  BY EpisodeKeeps, EpisodeKeepsSettled DEF SettlePre
<1> QED BY <1>1, <1>2, PTL DEF EpisodeSpec
-----------------------------------------------------------------------------
(***************************************************************************)
(* Training keeps a machine well formed, however long it goes on.          *)
(***************************************************************************)

\* What each step keeps, the whole recursion keeps.
LEMMA KeptThroughout ==
  ASSUME NEW n \in Nat, NEW after, NEW M, after[0] \in M,
         \A i \in 1 .. n : after[i - 1] \in M => after[i] \in M
  PROVE  \A i \in 0 .. n : after[i] \in M
<1> DEFINE Bad == {i \in 0 .. n : after[i] \notin M}
<1>1. SUFFICES ASSUME Bad # {} PROVE FALSE
  OBVIOUS
<1>2. PICK i \in Bad : \A j \in Bad : i <= j
  <2>1. Bad \subseteq Nat
    OBVIOUS
  <2> HIDE DEF Bad
  <2> QED BY <1>1, <2>1, LeastNumber
<1>3. i \in 1 .. n /\ after[i] \notin M
  BY <1>2
<1>4. i - 1 \in 0 .. n /\ i - 1 \notin Bad
  BY <1>2, <1>3
<1>5. after[i - 1] \in M
  BY <1>4
<1> QED BY <1>3, <1>5

\* A recursion over the numbers up to n has a solution.
Run(n, M, m, step) ==
  \E g \in [0 .. n -> M] : g[0] = m /\ \A i \in 1 .. n : g[i] = step[i][g[i - 1]]

LEMMA StepsRun ==
  ASSUME NEW n \in Nat, NEW M, NEW m \in M, NEW step \in [1 .. n -> [M -> M]]
  PROVE  Run(n, M, m, step)
<1> DEFINE Runs_(k) == \E g \in [0 .. k -> M] :
                         g = [i \in 0 .. k |-> IF i = 0 THEN m ELSE step[i][g[i - 1]]]
           Bad == {k \in 0 .. n : ~Runs_(k)}
<1>1. SUFFICES ASSUME Bad # {} PROVE FALSE
  <2> HIDE DEF Runs_
  <2>1. n \in 0 .. n
    OBVIOUS
  <2>2. Bad = {} => Runs_(n)
    BY <2>1
  <2>3. CASE Runs_(n)
    <3>1. PICK g \in [0 .. n -> M] :
            g = [i \in 0 .. n |-> IF i = 0 THEN m ELSE step[i][g[i - 1]]]
      BY <2>3 DEF Runs_
    <3>2. g[0] = m /\ \A i \in 1 .. n : g[i] = step[i][g[i - 1]]
      BY <3>1
    <3> QED BY <3>2 DEF Run
  <2> QED BY <2>2, <2>3
<1>2. PICK k \in Bad : \A j \in Bad : k <= j
  <2>1. Bad \subseteq Nat
    OBVIOUS
  <2> HIDE DEF Bad
  <2> QED BY <1>1, <2>1, LeastNumber
<1>3. Runs_(0)
  <2> DEFINE g == [i \in 0 .. 0 |-> m]
  <2>1. g \in [0 .. 0 -> M] /\ g = [i \in 0 .. 0 |-> IF i = 0 THEN m ELSE step[i][g[i - 1]]]
    OBVIOUS
  <2> QED BY <2>1
<1>4. k \in 1 .. n /\ k - 1 \in 0 .. n /\ ~Runs_(k)
  <2> HIDE DEF Runs_
  <2> QED BY <1>2, <1>3
<1>5. Runs_(k - 1)
  <2> HIDE DEF Runs_
  <2>1. ~(k <= k - 1)
    BY <1>4
  <2> QED BY <1>2, <1>4, <2>1
<1>6. PICK g \in [0 .. (k - 1) -> M] :
        g = [i \in 0 .. (k - 1) |-> IF i = 0 THEN m ELSE step[i][g[i - 1]]]
  BY <1>5
<1> DEFINE h == [i \in 0 .. k |-> IF i = k THEN step[k][g[k - 1]] ELSE g[i]]
<1>7. h \in [0 .. k -> M]
  <2>1. step[k] \in [M -> M] /\ g[k - 1] \in M
    BY <1>4, <1>6
  <2>2. step[k][g[k - 1]] \in M
    BY <2>1
  <2>3. \A i \in 0 .. k : i # k => i \in 0 .. (k - 1)
    BY <1>4
  <2> QED BY <1>6, <2>2, <2>3
<1>8. ASSUME NEW i \in 0 .. k
      PROVE  h[i] = IF i = 0 THEN m ELSE step[i][h[i - 1]]
  <2>1. CASE i = k
    <3>1. k - 1 \in 0 .. k /\ k - 1 # k /\ k # 0
      BY <1>4
    <3>2. h[k - 1] = g[k - 1] /\ h[k] = step[k][g[k - 1]]
      BY <1>4, <3>1
    <3> QED BY <2>1, <3>1, <3>2
  <2>2. CASE i # k
    <3>1. i \in 0 .. (k - 1) /\ h[i] = g[i]
      BY <1>4, <2>2
    <3>2. g[i] = IF i = 0 THEN m ELSE step[i][g[i - 1]]
      BY <1>6, <3>1
    <3>3. i # 0 => i - 1 \in 0 .. k /\ i - 1 # k /\ h[i - 1] = g[i - 1]
      BY <1>4, <3>1
    <3> QED BY <3>1, <3>2, <3>3
  <2> QED BY <2>1, <2>2
<1>9. h = [i \in 0 .. k |-> IF i = 0 THEN m ELSE step[i][h[i - 1]]]
  BY <1>8
<1> HIDE DEF h
<1>10. Runs_(k)
  BY <1>7, <1>9
<1> QED BY <1>4, <1>10

\* The feedback of a clause.
LEMMA FeedbackKeeps ==
  ASSUME NEW clauses \in Nat \ {0}, NEW features \in Nat \ {0}, NEW depth \in Nat \ {0},
         NEW specificity, NEW margin,
         NEW m \in TM!Machines(clauses, features, depth, specificity, margin),
         NEW c \in 1 .. clauses, NEW row, NEW target, NEW score
  PROVE  TM!Feedback(m, c, row, target, score) \in
           TM!Machines(clauses, features, depth, specificity, margin)
<1> DEFINE M == TM!Machines(clauses, features, depth, specificity, margin)
           Side == 1 .. (2 * depth)
           States == [pos : Side, neg : Side]
           gated == [m EXCEPT !.rng = TM!Drawn(@, 1)]
           output == TM!Agrees(m, c, row)
           one == TM!TypeI(gated, c, row, output)
           two == TM!TypeII(gated, c, row, output)
<1>1. \A x \in Int, n \in Int : TM!Drawn(x, n) \in 0 .. (Len(Tape) - 1)
  <2>1. Len(Tape) \in Nat /\ Len(Tape) > 0
    BY EpisodeAssumption DEF TM!TapeFits
  <2> QED BY <2>1 DEF TM!Drawn
<1>2. \A x : x \in M <=> x = [depth |-> depth, specificity |-> specificity, margin |-> margin,
                              states |-> x.states, rng |-> x.rng]
                         /\ x.states \in [1 .. clauses -> [1 .. features -> States]]
                         /\ x.rng \in 0 .. (Len(Tape) - 1)
  <2> HIDE DEF States, Side
  <2>1. M = [depth : {depth}, specificity : {specificity}, margin : {margin},
             states : [1 .. clauses -> [1 .. features -> States]], rng : 0 .. (Len(Tape) - 1)]
    BY DEF TM!Machines, States, Side
  <2> HIDE DEF M
  <2> DEFINE A == [1 .. clauses -> [1 .. features -> States]]
             B == 0 .. (Len(Tape) - 1)
  <2> HIDE DEF A, B
  <2>2. M = [depth : {depth}, specificity : {specificity}, margin : {margin}, states : A, rng : B]
    BY <2>1 DEF A, B
  <2>3. ASSUME NEW x
        PROVE  x \in M <=> x = [depth |-> depth, specificity |-> specificity, margin |-> margin,
                               states |-> x.states, rng |-> x.rng] /\ x.states \in A /\ x.rng \in B
    BY <2>2
  <2> QED BY <2>3 DEF A, B
<1>3. m.rng \in Int /\ 1 \in Int
  <2>1. Len(Tape) \in Nat
    BY EpisodeAssumption DEF TM!TapeFits
  <2> QED BY <1>2, <2>1
<1>4. gated \in M
  BY <1>1, <1>2, <1>3
<1>5. \A n \in Side : TM!Raised(gated, n) \in Side /\ TM!Lowered(gated, n) \in Side
  <2>1. gated.depth = depth
    BY <1>2, <1>4
  <2> HIDE DEF gated
  <2> QED BY <2>1 DEF TM!Raised, TM!Lowered
<1>6. TM!FeaturesOf(gated) = 1 .. features /\ gated.states[c] \in [1 .. features -> States]
      /\ TM!Width(gated) = features
  <2>1. gated.states \in [1 .. clauses -> [1 .. features -> States]] /\ 1 \in 1 .. clauses
    BY <1>2, <1>4
  <2> HIDE DEF gated
  <2>2. gated.states[1] \in [1 .. features -> States] /\ gated.states[c] \in [1 .. features -> States]
    BY <2>1
  <2>3. Len(gated.states[1]) = features
    <3> HIDE DEF States
    <3> QED BY <2>2, StatesAreSequences
  <2> QED BY <2>2, <2>3 DEF TM!FeaturesOf, TM!Width
<1> HIDE DEF gated, output
<1>7. one \in [1 .. features -> States]
  <2>1. ASSUME NEW n \in Side, NEW seen, NEW d PROVE TM!Reinforced(gated, n, seen, d) \in Side
    BY <1>5 DEF TM!Reinforced
  <2>2. \A f \in 1 .. features : gated.states[c][f].pos \in Side /\ gated.states[c][f].neg \in Side
    BY <1>6
  <2> HIDE DEF Side
  <2> QED BY <1>6, <2>1, <2>2 DEF TM!TypeI, TM!Pair
<1>8. two \in [1 .. features -> States]
  <2>1. ASSUME NEW n \in Side, NEW seen PROVE TM!Discouraged(gated, n, seen) \in Side
    BY <1>5 DEF TM!Discouraged
  <2>2. \A f \in 1 .. features : gated.states[c][f].pos \in Side /\ gated.states[c][f].neg \in Side
    BY <1>6
  <2> HIDE DEF Side
  <2> QED BY <1>6, <2>1, <2>2 DEF TM!TypeII, TM!Pair
<1> HIDE DEF one, two
<1>9. ASSUME NEW x \in [1 .. features -> States]
      PROVE  /\ [gated EXCEPT !.states[c] = x, !.rng = TM!Drawn(@, 2 * TM!Width(gated))] \in M
             /\ [gated EXCEPT !.states[c] = x] \in M
  <2>1. gated.rng \in Int /\ 2 * TM!Width(gated) \in Int
    <3>1. Len(Tape) \in Nat
      BY EpisodeAssumption DEF TM!TapeFits
    <3> QED BY <1>2, <1>4, <1>6, <3>1
  <2>2. TM!Drawn(gated.rng, 2 * TM!Width(gated)) \in 0 .. (Len(Tape) - 1)
    BY <1>1, <2>1
  <2>3. [gated.states EXCEPT ![c] = x] \in [1 .. clauses -> [1 .. features -> States]]
    <3> HIDE DEF States
    <3> QED BY <1>2, <1>4 DEF States
  <2> DEFINE t == [gated.states EXCEPT ![c] = x]
             r == TM!Drawn(gated.rng, 2 * TM!Width(gated))
             y == [gated EXCEPT !.states[c] = x, !.rng = TM!Drawn(@, 2 * TM!Width(gated))]
             z == [gated EXCEPT !.states[c] = x]
  <2>4. gated = [depth |-> depth, specificity |-> specificity, margin |-> margin,
                 states |-> gated.states, rng |-> gated.rng] /\ gated.rng \in 0 .. (Len(Tape) - 1)
    BY <1>2, <1>4
  <2> HIDE DEF t, r
  <2>5. /\ y = [depth |-> depth, specificity |-> specificity, margin |-> margin, states |-> t, rng |-> r]
        /\ z = [depth |-> depth, specificity |-> specificity, margin |-> margin,
                states |-> t, rng |-> gated.rng]
    <3> DEFINE w == 2 * TM!Width(gated)
    <3> HIDE DEF w
    <3>1. PICK u, v : u = gated.states /\ v = gated.rng
      OBVIOUS
    <3>2. gated = [depth |-> depth, specificity |-> specificity, margin |-> margin,
                   states |-> u, rng |-> v]
      BY <2>4, <3>1
    <3>3. y = [gated EXCEPT !.states = [u EXCEPT ![c] = x], !.rng = TM!Drawn(v, w)]
      BY <3>1, <3>2 DEF w
    <3>4. z = [gated EXCEPT !.states = [u EXCEPT ![c] = x]]
      BY <3>1, <3>2
    <3>5. t = [u EXCEPT ![c] = x] /\ r = TM!Drawn(v, w)
      BY <3>1 DEF t, r, w
    <3>6. y = [[gated EXCEPT !.states = t] EXCEPT !.rng = r] /\ z = [gated EXCEPT !.states = t]
      <4> HIDE DEF y, z
      <4> QED BY <3>3, <3>4, <3>5
    <3> DEFINE g == [depth |-> depth, specificity |-> specificity, margin |-> margin,
                     states |-> u, rng |-> v]
    <3>7. /\ [g EXCEPT !.states = t] = [depth |-> depth, specificity |-> specificity,
                                        margin |-> margin, states |-> t, rng |-> v]
          /\ [[depth |-> depth, specificity |-> specificity, margin |-> margin, states |-> t,
               rng |-> v] EXCEPT !.rng = r]
               = [depth |-> depth, specificity |-> specificity, margin |-> margin,
                  states |-> t, rng |-> r]
      OBVIOUS
    <3>8. gated = g
      BY <3>2
    <3> HIDE DEF g, y, z
    <3> QED BY <3>1, <3>6, <3>7, <3>8
  <2> HIDE DEF y, z, M, States
  <2>6. y \in M /\ z \in M
    BY <1>2, <2>2, <2>3, <2>4, <2>5 DEF t, r
  <2> QED BY <2>6 DEF y, z
<1>10. TM!Width(m) = TM!Width(gated)
  BY <1>2 DEF gated, TM!Width
<1>11. \/ TM!Feedback(m, c, row, target, score) = gated
       \/ TM!Feedback(m, c, row, target, score) =
            [gated EXCEPT !.states[c] = one, !.rng = TM!Drawn(@, 2 * TM!Width(gated))]
       \/ TM!Feedback(m, c, row, target, score) = [gated EXCEPT !.states[c] = two]
  BY <1>10 DEF TM!Feedback, gated, output, one, two
<1> QED BY <1>4, <1>7, <1>8, <1>9, <1>11

LEMMA UpdateKeeps ==
  ASSUME NEW clauses \in Nat \ {0}, NEW features \in Nat \ {0}, NEW depth \in Nat \ {0},
         NEW specificity, NEW margin,
         NEW m \in TM!Machines(clauses, features, depth, specificity, margin),
         NEW row, NEW target
  PROVE  TM!Update(m, row, target) \in TM!Machines(clauses, features, depth, specificity, margin)
<1> DEFINE M == TM!Machines(clauses, features, depth, specificity, margin)
           score == TM!Score(m, row)
           next(i, x) == TM!Feedback(x, i, row, target, score)
           n == Len(m.states)
           after == CHOOSE g : g = [i \in 0 .. n |-> IF i = 0 THEN m ELSE next(i, g[i - 1])]
           step == [i \in 1 .. n |-> [x \in M |-> next(i, x)]]
<1>1. TM!Update(m, row, target) = after[n]
  BY DEF TM!Update
<1>2. n = clauses
  <2> DEFINE S == [1 .. features -> [pos : 1 .. (2 * depth), neg : 1 .. (2 * depth)]]
  <2>1. m.states \in [1 .. clauses -> S]
    BY DEF TM!Machines
  <2> HIDE DEF S
  <2> QED BY <2>1, StatesAreSequences
<1>3. \A i \in 1 .. n, x \in M : next(i, x) \in M
  BY <1>2, FeedbackKeeps
<1> HIDE DEF M, score, n, next
<1>4. n \in Nat /\ m \in M
  BY <1>2 DEF M
<1>5. step \in [1 .. n -> [M -> M]] /\ \A i \in 1 .. n : \A x \in M : step[i][x] = next(i, x)
  BY <1>3
<1> HIDE DEF step
<1>6. \E g : g = [i \in 0 .. n |-> IF i = 0 THEN m ELSE next(i, g[i - 1])]
  <2>1. PICK g \in [0 .. n -> M] : g[0] = m /\ \A i \in 1 .. n : g[i] = step[i][g[i - 1]]
    <3>1. Run(n, M, m, step)
      BY <1>4, <1>5, StepsRun
    <3> QED BY <3>1 DEF Run
  <2>2. \A i \in 1 .. n : g[i] = next(i, g[i - 1])
    BY <1>4, <1>5, <2>1
  <2>3. \A i \in 0 .. n : i = 0 \/ i \in 1 .. n
    BY <1>4
  <2>4. \A i \in 0 .. n : g[i] = IF i = 0 THEN m ELSE next(i, g[i - 1])
    BY <2>1, <2>2, <2>3
  <2>5. g = [i \in 0 .. n |-> IF i = 0 THEN m ELSE next(i, g[i - 1])]
    BY <2>1, <2>4
  <2> QED BY <2>5
<1>7. after = [i \in 0 .. n |-> IF i = 0 THEN m ELSE next(i, after[i - 1])]
  BY <1>6, Zenon
<1> HIDE DEF after
<1>8. after[0] = m /\ \A i \in 1 .. n : after[i] = next(i, after[i - 1])
  BY <1>4, <1>7
<1>9. \A i \in 1 .. n : after[i - 1] \in M => after[i] \in M
  BY <1>3, <1>8
<1>10. \A i \in 0 .. n : after[i] \in M
  BY <1>4, <1>8, <1>9, KeptThroughout
<1> QED BY <1>1, <1>4, <1>10 DEF M

LEMMA FitOnceKeeps ==
  ASSUME NEW clauses \in Nat \ {0}, NEW features \in Nat \ {0}, NEW depth \in Nat \ {0},
         NEW specificity, NEW margin,
         NEW m \in TM!Machines(clauses, features, depth, specificity, margin),
         NEW rows, Len(rows) \in Nat
  PROVE  TM!FitOnce(m, rows) \in TM!Machines(clauses, features, depth, specificity, margin)
<1> DEFINE M == TM!Machines(clauses, features, depth, specificity, margin)
           next(i, x) == TM!Update(x, rows[i].row, rows[i].target)
           n == Len(rows)
           after == CHOOSE g : g = [i \in 0 .. n |-> IF i = 0 THEN m ELSE next(i, g[i - 1])]
           step == [i \in 1 .. n |-> [x \in M |-> next(i, x)]]
<1>1. TM!FitOnce(m, rows) = after[n]
  BY DEF TM!FitOnce
<1>2. n \in Nat
  OBVIOUS
<1>3. \A i \in 1 .. n, x \in M : next(i, x) \in M
  BY UpdateKeeps
<1> HIDE DEF M, n, next
<1>4. n \in Nat /\ m \in M
  BY <1>2 DEF M
<1>5. step \in [1 .. n -> [M -> M]] /\ \A i \in 1 .. n : \A x \in M : step[i][x] = next(i, x)
  BY <1>3
<1> HIDE DEF step
<1>6. \E g : g = [i \in 0 .. n |-> IF i = 0 THEN m ELSE next(i, g[i - 1])]
  <2>1. PICK g \in [0 .. n -> M] : g[0] = m /\ \A i \in 1 .. n : g[i] = step[i][g[i - 1]]
    <3>1. Run(n, M, m, step)
      BY <1>4, <1>5, StepsRun
    <3> QED BY <3>1 DEF Run
  <2>2. \A i \in 1 .. n : g[i] = next(i, g[i - 1])
    BY <1>4, <1>5, <2>1
  <2>3. \A i \in 0 .. n : i = 0 \/ i \in 1 .. n
    BY <1>4
  <2>4. \A i \in 0 .. n : g[i] = IF i = 0 THEN m ELSE next(i, g[i - 1])
    BY <2>1, <2>2, <2>3
  <2>5. g = [i \in 0 .. n |-> IF i = 0 THEN m ELSE next(i, g[i - 1])]
    BY <2>1, <2>4
  <2> QED BY <2>5
<1>7. after = [i \in 0 .. n |-> IF i = 0 THEN m ELSE next(i, after[i - 1])]
  BY <1>6, Zenon
<1> HIDE DEF after
<1>8. after[0] = m /\ \A i \in 1 .. n : after[i] = next(i, after[i - 1])
  BY <1>4, <1>7
<1>9. \A i \in 1 .. n : after[i - 1] \in M => after[i] \in M
  BY <1>3, <1>8
<1>10. \A i \in 0 .. n : after[i] \in M
  BY <1>4, <1>8, <1>9, KeptThroughout
<1> QED BY <1>1, <1>4, <1>10 DEF M

\* Training keeps a machine: its clauses, its features and its hyperparameters
\* stay, every automaton stays between its first state and its last, and the
\* generator on its tape, for every corpus and every number of epochs
\* (ScalarTsetlinMachine.fit).
THEOREM FitKeeps ==
  ASSUME NEW clauses \in Nat \ {0}, NEW features \in Nat \ {0}, NEW depth \in Nat \ {0},
         NEW specificity, NEW margin,
         NEW m \in TM!Machines(clauses, features, depth, specificity, margin),
         NEW rows, Len(rows) \in Nat, NEW epochs \in Nat
  PROVE  TM!Fit(m, rows, epochs) \in TM!Machines(clauses, features, depth, specificity, margin)
<1> DEFINE M == TM!Machines(clauses, features, depth, specificity, margin)
           next(i, x) == TM!FitOnce(x, rows)
           n == epochs
           after == CHOOSE g : g = [i \in 0 .. n |-> IF i = 0 THEN m ELSE next(i, g[i - 1])]
           step == [i \in 1 .. n |-> [x \in M |-> next(i, x)]]
<1>1. TM!Fit(m, rows, epochs) = after[n]
  BY DEF TM!Fit
<1>2. n \in Nat
  OBVIOUS
<1>3. \A i \in 1 .. n, x \in M : next(i, x) \in M
  BY FitOnceKeeps
<1> HIDE DEF M, n, next
<1>4. n \in Nat /\ m \in M
  BY <1>2 DEF M
<1>5. step \in [1 .. n -> [M -> M]] /\ \A i \in 1 .. n : \A x \in M : step[i][x] = next(i, x)
  BY <1>3
<1> HIDE DEF step
<1>6. \E g : g = [i \in 0 .. n |-> IF i = 0 THEN m ELSE next(i, g[i - 1])]
  <2>1. PICK g \in [0 .. n -> M] : g[0] = m /\ \A i \in 1 .. n : g[i] = step[i][g[i - 1]]
    <3>1. Run(n, M, m, step)
      BY <1>4, <1>5, StepsRun
    <3> QED BY <3>1 DEF Run
  <2>2. \A i \in 1 .. n : g[i] = next(i, g[i - 1])
    BY <1>4, <1>5, <2>1
  <2>3. \A i \in 0 .. n : i = 0 \/ i \in 1 .. n
    BY <1>4
  <2>4. \A i \in 0 .. n : g[i] = IF i = 0 THEN m ELSE next(i, g[i - 1])
    BY <2>1, <2>2, <2>3
  <2>5. g = [i \in 0 .. n |-> IF i = 0 THEN m ELSE next(i, g[i - 1])]
    BY <2>1, <2>4
  <2> QED BY <2>5
<1>7. after = [i \in 0 .. n |-> IF i = 0 THEN m ELSE next(i, after[i - 1])]
  BY <1>6, Zenon
<1> HIDE DEF after
<1>8. after[0] = m /\ \A i \in 1 .. n : after[i] = next(i, after[i - 1])
  BY <1>4, <1>7
<1>9. \A i \in 1 .. n : after[i - 1] \in M => after[i] \in M
  BY <1>3, <1>8
<1>10. \A i \in 0 .. n : after[i] \in M
  BY <1>4, <1>8, <1>9, KeptThroughout
<1> QED BY <1>1, <1>4, <1>10 DEF M
-----------------------------------------------------------------------------
(***************************************************************************)
(* What is compiled from a machine that was trained may be deployed.       *)
(***************************************************************************)

\* A machine by its parts.
LEMMA MachineIs ==
  ASSUME NEW clauses, NEW features, NEW depth, NEW specificity, NEW margin, NEW x
  PROVE  x \in TM!Machines(clauses, features, depth, specificity, margin) <=>
           /\ x = [depth |-> depth, specificity |-> specificity, margin |-> margin,
                   states |-> x.states, rng |-> x.rng]
           /\ x.states \in [1 .. clauses -> [1 .. features ->
                              [pos : 1 .. (2 * depth), neg : 1 .. (2 * depth)]]]
           /\ x.rng \in 0 .. (Len(Tape) - 1)
<1> DEFINE A == [1 .. clauses -> [1 .. features -> [pos : 1 .. (2 * depth), neg : 1 .. (2 * depth)]]]
           B == 0 .. (Len(Tape) - 1)
           M == TM!Machines(clauses, features, depth, specificity, margin)
<1>1. M = [depth : {depth}, specificity : {specificity}, margin : {margin}, states : A, rng : B]
  BY DEF TM!Machines
<1> HIDE DEF A, B, M
<1>2. x \in M <=> x = [depth |-> depth, specificity |-> specificity, margin |-> margin,
                       states |-> x.states, rng |-> x.rng] /\ x.states \in A /\ x.rng \in B
  BY <1>1
<1> QED BY <1>2 DEF A, B, M

\* A manifest whose literals have a truth for every example.
Readable(m) == Len(m) \in Nat /\ DOMAIN m = 1 .. Len(m) /\ \A i \in DOMAIN m : m[i].at \in Int

LEMMA RowsAreBoolean ==
  ASSUME NEW m, Readable(m), NEW x, x.num \in Int
  PROVE  RowFor(m, x) \in [1 .. Len(m) -> BOOLEAN]
<1>1. ASSUME NEW i \in DOMAIN m PROVE LiteralTruth(m[i], x) \in BOOLEAN
  BY DEF Readable, LiteralTruth
<1> QED BY <1>1 DEF Readable, RowFor

LEMMA ArtifactAnswers ==
  ASSUME NEW b, WellFormed(b), Readable(b.manifest), NEW x, x.num \in Int
  PROVE  TM!MaskScore(TM!Export(b.machine), RowFor(b.manifest, x)) = ScoreOf(b, x)
<1> DEFINE m == b.machine
           n == Len(b.manifest)
           clauses == Len(m.states)
<1>1. /\ clauses \in Nat \ {0} /\ n \in Nat \ {0} /\ m.depth \in Nat \ {0}
      /\ m \in TM!Machines(clauses, n, m.depth, m.specificity, m.margin)
  BY DEF WellFormed, Positive
<1>2. RowFor(b.manifest, x) \in [1 .. n -> BOOLEAN]
  BY RowsAreBoolean
<1> HIDE DEF m, n, clauses
<1>3. TM!MaskScore(TM!Export(m), RowFor(b.manifest, x)) = TM!Score(m, RowFor(b.manifest, x))
  BY <1>1, <1>2, ExportKeepsScores
<1> QED BY <1>3 DEF ScoreOf, m

\* What is compiled from a behavior may be deployed.
LEMMA CompiledIsDeployable ==
  ASSUME NEW g, NEW c, IsCorpus(c), WellFormed(g.behavior), Readable(g.behavior.manifest),
         g.artifact = Compiled(g.behavior, c),
         g.kind \in {"trained_parent", "adapted_child", "contracted_child"},
         g.kind = "trained_parent" => g.origin = <<c>>
  PROVE  Deployable(g)
<1> DEFINE b == g.behavior
           a == g.artifact
<1>1. a.masks = TM!Export(b.machine) /\ a.records = c
  BY DEF Compiled
<1>2. \A i \in DOMAIN c : c[i].num \in Int
  BY CorpusTypes
<1>3. \A i \in DOMAIN c :
        TM!MaskScore(TM!Export(b.machine), RowFor(b.manifest, c[i])) = ScoreOf(b, c[i])
  BY <1>2, ArtifactAnswers
<1> HIDE DEF a, b
<1>4. \A i \in DOMAIN c : MaskScoreOf(a, b, c[i]) = ScoreOf(b, c[i])
  BY <1>1, <1>3 DEF MaskScoreOf
<1>5. Conforms(g)
  BY <1>1, <1>4 DEF Conforms, a, b
<1> QED BY <1>1, <1>5 DEF Deployable, a, b

LEMMA ParentIsWellFormed ==
  ASSUME parent \in Parents
  PROVE  /\ WellFormed(ParentBehavior) /\ Readable(ParentBehavior.manifest)
         /\ ParentBehavior = [machine |-> parent.machine, manifest |-> parent.manifest]
         /\ IsCorpus(parent.training)
BY EpisodeAssumption DEF ParentBehavior, Behavior, IsManifest, Readable

LEMMA TrainedIsDeployable ==
  ASSUME parent \in Parents
  PROVE  Deployable(Trained) /\ Resolves(Bundle(Trained), Trained)
<1>1. /\ Trained.behavior = ParentBehavior /\ Trained.artifact = Compiled(ParentBehavior, parent.training)
      /\ Trained.kind = "trained_parent" /\ Trained.origin = <<parent.training>>
  BY DEF Trained, Generation
<1>2. Deployable(Trained)
  BY <1>1, ParentIsWellFormed, CompiledIsDeployable
<1> QED BY <1>1, <1>2 DEF Resolves

\* Of a well-formed behaviour whose literals can be read back, the artifact is
\* deployable: it answers on its holdout as the compiled machine does.
THEOREM ChildIsDeployable ==
  ASSUME NEW p \in Plans, NEW b, WellFormed(b), Readable(b.manifest)
  PROVE  Deployable(ChildOf(p, b))
<1>1. IsCorpus(p.holdout)
  BY EpisodeAssumption
<1>2. PICK g : g = ChildOf(p, b)
  OBVIOUS
<1>3. /\ g.behavior = b /\ g.artifact = Compiled(b, p.holdout)
      /\ g.kind \in {"adapted_child", "contracted_child"}
  BY <1>2 DEF ChildOf, Generation
<1>4. g.kind # "trained_parent"
  BY <1>3
<1>5. Deployable(g)
  BY <1>1, <1>3, <1>4, CompiledIsDeployable
<1> QED BY <1>2, <1>5

\* Sequences that grow by one.
LEMMA Appended ==
  ASSUME NEW n \in Nat, NEW S, NEW s \in [1 .. n -> S], NEW x \in S
  PROVE  /\ Append(s, x) \in [1 .. (n + 1) -> S] /\ Len(Append(s, x)) = n + 1
         /\ SubSeq(Append(s, x), 1, n) = s
         /\ Append(s, x)[n + 1] = x /\ \A i \in 1 .. n : Append(s, x)[i] = s[i]
<1>1. s \in Seq(S) /\ Len(s) = n
  BY StatesAreSequences
<1>2. /\ Append(s, x) \in Seq(S) /\ Len(Append(s, x)) = n + 1
      /\ Append(s, x)[n + 1] = x /\ \A i \in 1 .. n : Append(s, x)[i] = s[i]
  BY <1>1
<1>3. PICK t : t = Append(s, x)
  OBVIOUS
<1>4. t \in Seq(S) /\ Len(t) = n + 1 /\ \A i \in 1 .. n : t[i] = s[i]
  BY <1>2, <1>3
<1>5. t \in [1 .. (n + 1) -> S]
  BY <1>4
<1>6. SubSeq(t, 1, n) = [i \in 1 .. n |-> t[i]]
  BY <1>4
<1>7. SubSeq(t, 1, n) = s
  BY <1>4, <1>6
<1> QED BY <1>2, <1>3, <1>5, <1>7

\* A machine with a feature more, at the boundary.
LEMMA ExtensionIsMachine ==
  ASSUME NEW clauses \in Nat \ {0}, NEW features \in Nat \ {0}, NEW depth \in Nat \ {0},
         NEW specificity, NEW margin,
         NEW m \in TM!Machines(clauses, features, depth, specificity, margin)
  PROVE  /\ TM!Extend(m) \in TM!Machines(clauses, features + 1, depth, specificity, margin)
         /\ [TM!Extend(m) EXCEPT !.states = m.states] = m
         /\ \A c \in DOMAIN m.states :
              /\ SubSeq(TM!Extend(m).states[c], 1, features) = m.states[c]
              /\ TM!Extend(m).states[c][features + 1] = TM!Pair(m.depth, m.depth)
<1> DEFINE S == [pos : 1 .. (2 * depth), neg : 1 .. (2 * depth)]
           e == TM!Extend(m)
<1>1. /\ m = [depth |-> depth, specificity |-> specificity, margin |-> margin,
              states |-> m.states, rng |-> m.rng]
      /\ m.states \in [1 .. clauses -> [1 .. features -> S]] /\ m.rng \in 0 .. (Len(Tape) - 1)
  BY MachineIs
<1>2. TM!Pair(depth, depth) \in S
  BY DEF TM!Pair
<1> HIDE DEF S
<1>3. PICK states, rng, pair : states = m.states /\ rng = m.rng /\ pair = TM!Pair(depth, depth)
  OBVIOUS
<1>4. PICK more : more = [c \in 1 .. clauses |-> Append(states[c], pair)]
  OBVIOUS
<1>5. m = [depth |-> depth, specificity |-> specificity, margin |-> margin,
           states |-> states, rng |-> rng]
  BY <1>1, <1>3
<1>6. e = [m EXCEPT !.states = more]
  <2>1. DOMAIN m.states = 1 .. clauses /\ m.depth = depth
    BY <1>1
  <2>2. more = [c \in TM!ClausesOf(m) |-> Append(m.states[c], TM!Pair(m.depth, m.depth))]
    BY <1>3, <1>4, <2>1 DEF TM!ClausesOf
  <2> QED BY <2>2 DEF TM!Extend
<1> HIDE DEF e
<1>7. e = [depth |-> depth, specificity |-> specificity, margin |-> margin,
           states |-> more, rng |-> rng]
  BY <1>5, <1>6
<1>8. [e EXCEPT !.states = states] = m
  BY <1>5, <1>7
<1>9. \A c \in 1 .. clauses : /\ Append(states[c], pair) \in [1 .. (features + 1) -> S]
                              /\ SubSeq(Append(states[c], pair), 1, features) = states[c]
                              /\ Append(states[c], pair)[features + 1] = pair
  <2>1. SUFFICES ASSUME NEW c \in 1 .. clauses
                 PROVE  /\ Append(states[c], pair) \in [1 .. (features + 1) -> S]
                        /\ SubSeq(Append(states[c], pair), 1, features) = states[c]
                        /\ Append(states[c], pair)[features + 1] = pair
    OBVIOUS
  <2>2. states[c] \in [1 .. features -> S]
    BY <1>1, <1>3
  <2>3. features \in Nat /\ pair \in S
    BY <1>2, <1>3
  <2> QED BY <2>2, <2>3, Appended
<1>10. more \in [1 .. clauses -> [1 .. (features + 1) -> S]]
  BY <1>4, <1>9
<1>11. e.states = more /\ e.rng = rng
  BY <1>7
<1>12. e \in TM!Machines(clauses, features + 1, depth, specificity, margin)
  BY <1>1, <1>3, <1>7, <1>10, <1>11, MachineIs DEF S
<1>13. DOMAIN m.states = 1 .. clauses /\ m.depth = depth
  BY <1>1
<1>14. \A c \in DOMAIN m.states : /\ SubSeq(e.states[c], 1, features) = m.states[c]
                                  /\ e.states[c][features + 1] = TM!Pair(m.depth, m.depth)
  <2> SUFFICES ASSUME NEW c \in 1 .. clauses
               PROVE  /\ SubSeq(e.states[c], 1, features) = states[c]
                      /\ e.states[c][features + 1] = pair
    BY <1>3, <1>13
  <2>1. e.states[c] = Append(states[c], pair)
    BY <1>4, <1>11
  <2> QED BY <1>9, <2>1
<1> QED BY <1>3, <1>8, <1>12, <1>14 DEF e

\* A machine with a feature less.
LEMMA ContractionIsMachine ==
  ASSUME NEW clauses \in Nat \ {0}, NEW features \in Nat \ {0}, NEW depth \in Nat \ {0},
         NEW specificity, NEW margin,
         NEW m \in TM!Machines(clauses, features, depth, specificity, margin),
         NEW k \in 1 .. features, NEW r \in 1 .. features
  PROVE  TM!Contract(m, k, r) \in TM!Machines(clauses, features - 1, depth, specificity, margin)
<1> DEFINE S == [pos : 1 .. (2 * depth), neg : 1 .. (2 * depth)]
           e == TM!Contract(m, k, r)
<1>1. /\ m = [depth |-> depth, specificity |-> specificity, margin |-> margin,
              states |-> m.states, rng |-> m.rng]
      /\ m.states \in [1 .. clauses -> [1 .. features -> S]] /\ m.rng \in 0 .. (Len(Tape) - 1)
  BY MachineIs
<1>2. \A x, y \in S : TM!Stronger(x, y) \in S
  BY DEF TM!Stronger, TM!Pair
<1> HIDE DEF S
<1>3. PICK states, rng : states = m.states /\ rng = m.rng
  OBVIOUS
<1> DEFINE met(c) == [states[c] EXCEPT ![k] = TM!Stronger(@, states[c][r])]
<1>4. PICK fewer : fewer = [c \in 1 .. clauses |-> TM!Without(met(c), r)]
  OBVIOUS
<1>5. m = [depth |-> depth, specificity |-> specificity, margin |-> margin,
           states |-> states, rng |-> rng]
  BY <1>1, <1>3
<1>6. e = [m EXCEPT !.states = fewer]
  BY <1>1, <1>3, <1>4 DEF TM!Contract, TM!ClausesOf
<1> HIDE DEF e
<1>7. e = [depth |-> depth, specificity |-> specificity, margin |-> margin,
           states |-> fewer, rng |-> rng]
  BY <1>5, <1>6
<1>8. ASSUME NEW c \in 1 .. clauses
      PROVE  TM!Without(met(c), r) \in [1 .. (features - 1) -> S]
  <2>1. states[c] \in [1 .. features -> S]
    BY <1>1, <1>3
  <2>2. met(c) \in [1 .. features -> S]
    BY <1>2, <2>1
  <2> HIDE DEF met
  <2>3. Len(met(c)) = features
    BY <2>2, StatesAreSequences
  <2>4. TM!Without(met(c), r) =
          [i \in 1 .. (features - 1) |-> IF i < r THEN met(c)[i] ELSE met(c)[i + 1]]
    BY <2>3 DEF TM!Without
  <2>5. \A i \in 1 .. (features - 1) : i \in 1 .. features /\ i + 1 \in 1 .. features
    OBVIOUS
  <2> QED BY <2>2, <2>4, <2>5
<1> HIDE DEF met
<1>9. fewer \in [1 .. clauses -> [1 .. (features - 1) -> S]]
  BY <1>4, <1>8
<1>10. e.states = fewer /\ e.rng = rng
  BY <1>7
<1>11. e \in TM!Machines(clauses, features - 1, depth, specificity, margin)
  BY <1>1, <1>3, <1>7, <1>9, <1>10, MachineIs DEF S
<1> QED BY <1>11 DEF e

\* A behavior, by its parts.
LEMMA BehaviorIsWellFormed ==
  ASSUME NEW b, NEW clauses \in Nat \ {0}, NEW features \in Nat \ {0}, NEW depth \in Nat \ {0},
         NEW specificity, specificity > 1, NEW margin \in Nat \ {0},
         b.machine \in TM!Machines(clauses, features, depth, specificity, margin),
         Len(b.manifest) = features
  PROVE  WellFormed(b)
<1>1. /\ b.machine.depth = depth /\ b.machine.specificity = specificity
      /\ b.machine.margin = margin
  BY MachineIs
<1>2. Len(b.machine.states) = clauses
  <2> DEFINE S == [1 .. features -> [pos : 1 .. (2 * depth), neg : 1 .. (2 * depth)]]
  <2>1. b.machine.states \in [1 .. clauses -> S]
    BY MachineIs
  <2> HIDE DEF S
  <2> QED BY <2>1, StatesAreSequences
<1> QED BY <1>1, <1>2 DEF WellFormed, Positive
-----------------------------------------------------------------------------
(***************************************************************************)
(* What is grown from the parent, or contracted, may be deployed.          *)
(***************************************************************************)

\* The parent's machine has its manifest's width.
LEMMA ParentMachine ==
  ASSUME parent \in Parents
  PROVE  LET m == parent.machine IN
           /\ Len(m.states) \in Nat \ {0} /\ Len(parent.manifest) \in Nat \ {0}
           /\ m.depth \in Nat \ {0} /\ m.margin \in Nat \ {0} /\ m.specificity > 1
           /\ m \in TM!Machines(Len(m.states), Len(parent.manifest), m.depth, m.specificity, m.margin)
           /\ DOMAIN parent.manifest = 1 .. Len(parent.manifest)
           /\ \A i \in DOMAIN parent.manifest : parent.manifest[i].at \in Int
BY ParentIsWellFormed DEF WellFormed, Positive, Readable

LEMMA ManifestExtended ==
  ASSUME parent \in Parents, NEW at \in Int, NEW m, m = Append(parent.manifest, Threshold(at))
  PROVE  /\ Readable(m) /\ Len(m) = Len(parent.manifest) + 1
         /\ SubSeq(m, 1, Len(parent.manifest)) = parent.manifest
<1> DEFINE old == parent.manifest
           n == Len(old)
           S == {old[i] : i \in 1 .. n} \union {Threshold(at)}
<1>1. n \in Nat \ {0} /\ DOMAIN old = 1 .. n /\ \A i \in 1 .. n : old[i].at \in Int
  BY ParentMachine
<1>2. Threshold(at).at \in Int
  BY DEF Threshold
<1>3. \A i \in 1 .. n : old[i] \in S
  OBVIOUS
<1>4. Threshold(at) \in S
  OBVIOUS
<1>4a. n \in Nat /\ IsManifest(old)
  BY EpisodeAssumption, <1>1
<1>5. m \in [1 .. (n + 1) -> S] /\ Len(m) = n + 1 /\ SubSeq(m, 1, n) = old
  <2>1. old \in [1 .. n -> S]
    <3>1. old = [i \in 1 .. n |-> old[i]]
      BY <1>4a DEF IsManifest
    <3> HIDE DEF S
    <3> QED BY <1>3, <3>1
  <2> HIDE DEF S, n, old
  <2>2. Append(old, Threshold(at)) \in [1 .. (n + 1) -> S] /\ Len(Append(old, Threshold(at))) = n + 1
        /\ SubSeq(Append(old, Threshold(at)), 1, n) = old
    <3> DEFINE x == Threshold(at)
    <3>1. x \in S
      BY <1>4
    <3> HIDE DEF x
    <3>2. PICK s, k, T, y : s = old /\ k = n /\ T = S /\ y = x
      OBVIOUS
    <3>3. k \in Nat /\ s \in [1 .. k -> T] /\ y \in T
      BY <1>4a, <2>1, <3>1, <3>2
    <3>4. Append(s, y) \in [1 .. (k + 1) -> T] /\ SubSeq(Append(s, y), 1, k) = s
      BY <3>3, Appended, ZenonT(30)
    <3>5. k + 1 \in Nat
      BY <3>3
    <3>6. Len(Append(s, y)) = k + 1
      BY <3>4, <3>5, StatesAreSequences
    <3> QED BY <3>2, <3>4, <3>6 DEF x
  <2> QED BY <2>2 DEF old
<1>6. \A x \in S : x.at \in Int
  BY <1>1, <1>2
<1> HIDE DEF S, n, old
<1>7. DOMAIN m = 1 .. Len(m) /\ Len(m) \in Nat /\ \A i \in DOMAIN m : m[i].at \in Int
  <2>1. DOMAIN m = 1 .. Len(m) /\ Len(m) \in Nat
    BY <1>4a, <1>5
  <2>2. \A i \in DOMAIN m : m[i] \in S
    BY <1>5
  <2> QED BY <1>6, <2>1, <2>2
<1> QED BY <1>5, <1>7 DEF Readable, n, old

\* The parent's machine with a threshold more, before it is trained and after.
ExtendedWell(at) ==
  /\ WellFormed(Extended(at)) /\ Readable(Extended(at).manifest)
  /\ ExtendsExactly(ParentBehavior, Extended(at))

LEMMA ExtendedIsWell ==
  ASSUME parent \in Parents, NEW at \in Int
  PROVE  ExtendedWell(at)
<1>1. PICK m, old, new, b : /\ m = parent.machine /\ old = parent.manifest
                            /\ new = Append(parent.manifest, Threshold(at)) /\ b = Extended(at)
  OBVIOUS
<1>2. PICK clauses, n : clauses = Len(m.states) /\ n = Len(old)
  OBVIOUS
<1>3. /\ clauses \in Nat \ {0} /\ n \in Nat \ {0} /\ m.depth \in Nat \ {0}
      /\ m.margin \in Nat \ {0} /\ m.specificity > 1
      /\ m \in TM!Machines(clauses, n, m.depth, m.specificity, m.margin)
  BY <1>1, <1>2, ParentMachine
<1>4. Readable(new) /\ Len(new) = n + 1 /\ SubSeq(new, 1, n) = old
  BY <1>1, <1>2, ManifestExtended
<1>5. b.machine = TM!Extend(m) /\ b.manifest = new
  BY <1>1 DEF Extended, Behavior
<1>6. /\ b.machine \in TM!Machines(clauses, n + 1, m.depth, m.specificity, m.margin)
      /\ [b.machine EXCEPT !.states = m.states] = m
      /\ \A c \in DOMAIN m.states :
           /\ SubSeq(b.machine.states[c], 1, n) = m.states[c]
           /\ b.machine.states[c][n + 1] = TM!Pair(m.depth, m.depth)
  BY <1>3, <1>5, ExtensionIsMachine
<1>7. n + 1 \in Nat \ {0}
  BY <1>3
<1>8. WellFormed(b)
  BY <1>3, <1>4, <1>5, <1>6, <1>7, BehaviorIsWellFormed
<1>9. ParentBehavior.machine = m /\ ParentBehavior.manifest = old
  BY <1>1 DEF ParentBehavior, Behavior
<1>10. ExtendsExactly(ParentBehavior, b)
  BY <1>2, <1>4, <1>5, <1>6, <1>9 DEF ExtendsExactly
<1> QED BY <1>1, <1>4, <1>5, <1>8, <1>10 DEF ExtendedWell

\* So it is once it has been trained.
LEMMA GrownIsWell ==
  ASSUME parent \in Parents, NEW p \in Plans, NEW at \in Int
  PROVE  /\ WellFormed(Grown(p, at)) /\ Readable(Grown(p, at).manifest)
         /\ Grown(p, at).manifest = Extended(at).manifest
<1>1. PICK b, g : b = Extended(at) /\ g = Grown(p, at)
  OBVIOUS
<1>2. WellFormed(b) /\ Readable(b.manifest)
  BY <1>1, ExtendedIsWell DEF ExtendedWell
<1>3. b = [machine |-> b.machine, manifest |-> b.manifest]
  BY <1>1 DEF Extended, Behavior
<1>4. PICK rows : rows = [i \in DOMAIN p.second |-> [row    |-> RowFor(b.manifest, p.second[i]),
                                                     target |-> p.second[i].label]]
  OBVIOUS
<1>5. Len(rows) \in Nat
  <2>1. Len(p.second) \in Nat /\ DOMAIN p.second = 1 .. Len(p.second)
    BY EpisodeAssumption, CorpusTypes
  <2>2. DOMAIN rows = 1 .. Len(p.second)
    BY <1>4, <2>1
  <2>3. Len(rows) = Len(p.second)
    BY <2>1, <2>2
  <2> QED BY <2>1, <2>3
<1>6. g = [b EXCEPT !.machine = TM!Fit(b.machine, rows, p.epochs)]
  BY <1>1, <1>4 DEF Grown, Adapted
<1>7. g.machine = TM!Fit(b.machine, rows, p.epochs) /\ g.manifest = b.manifest
  BY <1>3, <1>6
<1>8. PICK m, clauses, n : m = b.machine /\ clauses = Len(b.machine.states) /\ n = Len(b.manifest)
  OBVIOUS
<1>9. /\ clauses \in Nat \ {0} /\ n \in Nat \ {0} /\ m.depth \in Nat \ {0}
      /\ m.margin \in Nat \ {0} /\ m.specificity > 1
      /\ m \in TM!Machines(clauses, n, m.depth, m.specificity, m.margin)
  BY <1>2, <1>8 DEF WellFormed, Positive
<1>10. p.epochs \in Nat
  BY EpisodeAssumption
<1>11. g.machine \in TM!Machines(clauses, n, m.depth, m.specificity, m.margin)
  <2>1. Len(rows) \in Nat
    BY <1>5
  <2> QED BY <1>7, <1>8, <1>9, <1>10, <2>1, FitKeeps, SMTT(30)
<1>12. WellFormed(g)
  BY <1>7, <1>8, <1>9, <1>11, BehaviorIsWellFormed
<1> QED BY <1>1, <1>2, <1>7, <1>12

\* The parent's machine with a literal less.
LEMMA ContractedIsWell ==
  ASSUME parent \in Parents, NEW k \in DOMAIN parent.manifest, NEW r \in DOMAIN parent.manifest, k < r
  PROVE  WellFormed(Contracted(k, r)) /\ Readable(Contracted(k, r).manifest)
<1>1. PICK m, old, b : m = parent.machine /\ old = parent.manifest /\ b = Contracted(k, r)
  OBVIOUS
<1>2. PICK clauses, n : clauses = Len(m.states) /\ n = Len(old)
  OBVIOUS
<1>3. /\ clauses \in Nat \ {0} /\ n \in Nat \ {0} /\ m.depth \in Nat \ {0}
      /\ m.margin \in Nat \ {0} /\ m.specificity > 1
      /\ m \in TM!Machines(clauses, n, m.depth, m.specificity, m.margin)
      /\ \A i \in 1 .. n : old[i].at \in Int
      /\ k \in 1 .. n /\ r \in 1 .. n
  BY <1>1, <1>2, ParentMachine
<1>4. b.machine = TM!Contract(m, k, r) /\ b.manifest = TM!Without(old, r)
  BY <1>1 DEF Contracted, Behavior
<1>5. b.machine \in TM!Machines(clauses, n - 1, m.depth, m.specificity, m.margin)
  BY <1>3, <1>4, ContractionIsMachine
<1>6. n - 1 \in Nat \ {0}
  BY <1>3
<1>7. b.manifest = [i \in 1 .. (n - 1) |-> IF i < r THEN old[i] ELSE old[i + 1]]
  BY <1>2, <1>4 DEF TM!Without
<1>8. Len(b.manifest) = n - 1 /\ DOMAIN b.manifest = 1 .. (n - 1)
  BY <1>6, <1>7
<1>9. \A i \in 1 .. (n - 1) : b.manifest[i].at \in Int
  BY <1>3, <1>7
<1>10. Readable(b.manifest)
  BY <1>6, <1>8, <1>9 DEF Readable
<1>11. WellFormed(b)
  BY <1>3, <1>5, <1>6, <1>8, BehaviorIsWellFormed
<1> QED BY <1>1, <1>10, <1>11
-----------------------------------------------------------------------------
(***************************************************************************)
(* An answer that is taken says all that an honest one would.              *)
(***************************************************************************)

\* A flip is one row of a threshold product.
LEMMA RowsOfFlips ==
  ASSUME NEW F, IsFiniteSet(F), NEW product, NEW rows,
         rows = {ThresholdRow(product, Field, at) : at \in F}
  PROVE  IsFiniteSet(rows) /\ Cardinality(rows) = Cardinality(F)
<1> DEFINE f == [at \in F |-> ThresholdRow(product, Field, at)]
<1>1. f \in [F -> rows]
  OBVIOUS
<1>2. \A a, b \in F : f[a] = f[b] => a = b
  BY DEF ThresholdRow
<1>3. \A r \in rows : \E at \in F : f[at] = r
  OBVIOUS
<1> HIDE DEF f
<1>4. f \in Bijection(F, rows)
  BY <1>1, <1>2, <1>3 DEF Bijection, Injection, Surjection, IsInjective
<1>5. ExistsBijection(F, rows)
  BY <1>4 DEF ExistsBijection
<1> QED BY <1>5, FS_Bijection

\* The rows of an invention session: its flips, twice, and nothing else.
LEMMA InventedRows ==
  ASSUME NEW c, Invented(c), NEW s, s = InventionSession(c),
         NEW q, AsksForThresholds(q), NEW D, D = Derived(s, q, {Field})
  PROVE  /\ \A r \in D : r.product \in {"threshold_insights", "threshold_proposals"}
         /\ \A p \in {"threshold_insights", "threshold_proposals"} :
              RowsOf(D, p) = {ThresholdRow(p, Field, at) : at \in Flips(s, Field)}
         /\ IsFiniteSet(Flips(s, Field)) /\ Flips(s, Field) \subseteq Int
<1>1. WeightRows(s) = {}
  <2>1. FactsOf(s, "clause_class_scores") = {}
    BY DEF InventionSession, EmptySession, FactsOf
  <2> QED BY <2>1 DEF WeightRows
<1> DEFINE rows(p) == {ThresholdRow(p, Field, at) : at \in Flips(s, Field)}
<1>2. \A p : ThresholdRows(s, p, {Field}) = rows(p) /\ \A r \in rows(p) : r.product = p
  BY DEF ThresholdRows, ThresholdRow
<1> HIDE DEF rows
<1>3. D = rows("threshold_insights") \union rows("threshold_proposals")
  BY <1>1, <1>2 DEF Derived, AsksForThresholds
<1>4. \A p \in {"threshold_insights", "threshold_proposals"} : RowsOf(D, p) = rows(p)
  BY <1>2, <1>3 DEF RowsOf
<1>5. IsFiniteSet(Flips(s, Field)) /\ Flips(s, Field) \subseteq Int
  <2> DEFINE terms == Terms(s, Field)
             ends  == {p \in terms \X terms :
                         /\ Follows(terms, p[1], p[2])
                         /\ {StateOf(s, Field, p[1]), StateOf(s, Field, p[2])} = {{0}, {1}}}
             mid   == [p \in ends |-> Mid(p[1], p[2])]
             term  == [i \in DOMAIN c |-> AnInt(c[i].num)]
  <2>1. terms = {term[i] : i \in DOMAIN c}
    BY InventedTerms
  <2>2. IsFiniteSet(DOMAIN c) /\ \A i \in DOMAIN c : c[i].num \in Int
    BY CorpusTypes DEF Invented
  <2>3. DOMAIN term = DOMAIN c /\ term = [i \in DOMAIN c |-> term[i]]
    OBVIOUS
  <2>4. IsFiniteSet({term[i] : i \in DOMAIN c})
    <3> HIDE DEF term
    <3> QED BY <2>2, <2>3, ImageIsFinite
  <2>5. \A v \in terms : v.num \in Int
    BY <2>1, <2>2 DEF AnInt
  <2>6. Flips(s, Field) = {mid[p] : p \in ends}
    BY DEF Flips
  <2> HIDE DEF terms
  <2>7. IsFiniteSet(terms \X terms)
    BY <2>1, <2>4, FS_Product
  <2>8. IsFiniteSet(ends)
    BY <2>7, FS_Subset
  <2>9. \A p \in ends : mid[p] \in Int
    <3> SUFFICES ASSUME NEW p \in ends PROVE Mid(p[1], p[2]) \in Int
      OBVIOUS
    <3>1. p[1] \in terms /\ p[2] \in terms
      OBVIOUS
    <3>2. p[1].num \in Int /\ p[2].num \in Int
      BY <2>5, <3>1
    <3> QED BY <3>2 DEF Mid
  <2>10. DOMAIN mid = ends /\ mid = [p \in ends |-> mid[p]]
    OBVIOUS
  <2> HIDE DEF ends, mid
  <2>11. IsFiniteSet({mid[p] : p \in ends})
    BY <2>8, <2>10, ImageIsFinite
  <2> QED BY <2>6, <2>9, <2>11
<1> QED BY <1>2, <1>3, <1>4, <1>5 DEF rows

\* Of what an honest child, or one with a misprint, prints about the flips, the
\* service that grows a machine takes only what has all of them.
LEMMA GrowthPrintsServe ==
  ASSUME NEW D, \A r \in D : r.product \in {"threshold_insights", "threshold_proposals"},
         NEW n \in Nat,
         \A p \in {"threshold_insights", "threshold_proposals"} :
           IsFiniteSet(RowsOf(D, p)) /\ Cardinality(RowsOf(D, p)) = n,
         NEW h \in Honest(D), NEW print, print = h \/ print \in Altered(h),
         CompleteThresholds(print)
  PROVE  RowsOf(print.rows, "threshold_proposals") = RowsOf(D, "threshold_proposals")
<1> DEFINE P == "threshold_proposals"
           I == "threshold_insights"
           A == [p \in Products |-> Cardinality(RowsOf(D, p))]
<1>0. PICK R \in SUBSET D : \E declared, total :
        h = [rows |-> R, twice |-> {}, declared |-> declared, available |-> A, total |-> total]
  BY DEF Honest
<1>1. PICK declared, total :
        h = [rows |-> R, twice |-> {}, declared |-> declared, available |-> A, total |-> total]
  BY <1>0
<1>2. P \in Products /\ I \in Products
  BY DEF Products
<1>3. A[P] = n /\ A[I] = n /\ DOMAIN A = Products
  BY <1>2
<1> HIDE DEF A
<1>4. \/ \E q \in {I, P}, by \in {-1, 1} : print.available = [A EXCEPT ![q] = @ + by]
      \/ /\ RowsOf(print.twice, P) = {} /\ print.available[P] = A[P]
         /\ RowsOf(print.rows, P) \subseteq RowsOf(D, P)
  <2>1. CASE print = h
    BY <1>1, <2>1 DEF RowsOf
  <2>2. CASE print \in RowLost(h)
    <3>1. PICK r \in R :
            \/ print = [Recount(h, r.product, -1) EXCEPT !.rows = @ \ {r}]
            \/ print = [h EXCEPT !.rows = @ \ {r}, !.declared = @ - 1]
            \/ print = [Recount(h, r.product, 1) EXCEPT !.twice = {r}]
      <4>1. h.rows = R
        BY <1>1
      <4>2. PICK r \in h.rows :
              print \in {[Recount(h, r.product, -1) EXCEPT !.rows = @ \ {r}],
                         [h EXCEPT !.rows = @ \ {r}, !.declared = @ - 1],
                         [Recount(h, r.product, 1) EXCEPT !.twice = {r}]}
        BY <2>2 DEF RowLost
      <4> QED BY <4>1, <4>2
    <3>2. r.product \in {I, P}
      OBVIOUS
    <3>3. CASE print = [h EXCEPT !.rows = @ \ {r}, !.declared = @ - 1]
      <4>1. print.rows = R \ {r} /\ print.twice = {} /\ print.available = A
        BY <1>1, <3>3
      <4> QED BY <4>1 DEF RowsOf
    <3>4. CASE \E by \in {-1, 1}, s \in {"rows", "twice"} : \E t :
                 print = [Recount(h, r.product, by) EXCEPT ![s] = t]
      <4>0. PICK by \in {-1, 1}, s \in {"rows", "twice"} :
              \E t : print = [Recount(h, r.product, by) EXCEPT ![s] = t]
        BY <3>4
      <4>1. PICK t : print = [Recount(h, r.product, by) EXCEPT ![s] = t]
        BY <4>0
      <4>2. Recount(h, r.product, by).available = [A EXCEPT ![r.product] = @ + by]
        BY <1>1 DEF Recount
      <4>3. print.available = [A EXCEPT ![r.product] = @ + by]
        BY <1>1, <4>1, <4>2 DEF Recount
      <4> QED BY <3>2, <4>3
    <3> QED BY <3>1, <3>3, <3>4
  <2>3. CASE print \in RowAdded(h)
    <3>1. PICK r \in Sayable : print = [Recount(h, r.product, 1) EXCEPT !.rows = @ \union {r}]
      BY <2>3 DEF RowAdded
    <3>2. /\ print.available = [A EXCEPT ![r.product] = @ + 1] /\ print.twice = {}
          /\ print.rows = R \union {r}
      BY <1>1, <3>1 DEF Recount
    <3>3. CASE r.product \in {I, P}
      BY <3>2, <3>3
    <3>4. CASE r.product \notin {I, P}
      BY <1>2, <1>3, <3>2, <3>4 DEF RowsOf
    <3> QED BY <3>3, <3>4
  <2>4. CASE print \in CountWrong(h)
    <3>1. \/ \E q \in Products : print = [h EXCEPT !.available[q] = @ + 1, !.total = @ + 1]
          \/ print = [h EXCEPT !.declared = @ + 1]
      BY <2>4 DEF CountWrong
    <3>2. /\ print.rows = R /\ print.twice = {}
          /\ \/ print.available = A
             \/ \E q \in Products : print.available = [A EXCEPT ![q] = @ + 1]
      BY <1>1, <3>1
    <3>3. RowsOf(print.twice, P) = {} /\ RowsOf(print.rows, P) \subseteq RowsOf(D, P)
      BY <3>2 DEF RowsOf
    <3>4. \A q : q \notin {I, P} => [A EXCEPT ![q] = @ + 1][P] = A[P]
      BY <1>2, <1>3
    <3> QED BY <3>2, <3>3, <3>4
  <2> QED BY <2>1, <2>2, <2>3, <2>4 DEF Altered
<1>5. print.available[P] = print.available[I]
  BY DEF CompleteThresholds
<1>6. RowsOf(print.twice, P) = {} /\ print.available[P] = n /\ RowsOf(print.rows, P) \subseteq RowsOf(D, P)
  <2>1. ASSUME NEW q \in {I, P}, NEW by \in {-1, 1}, print.available = [A EXCEPT ![q] = @ + by]
        PROVE  FALSE
    BY <1>2, <1>3, <1>5, <2>1
  <2> QED BY <1>3, <1>4, <2>1
<1>7. Cardinality(RowsOf(print.rows, P)) = n
  <2> DEFINE x == RowsOf(print.rows, P)
  <2>1. Emitted(print, P) = print.available[P]
    BY DEF CompleteThresholds, Whole
  <2>2. Emitted(print, P) = Cardinality(x) + Cardinality({})
    BY <1>6 DEF Emitted
  <2>3. IsFiniteSet(x)
    BY <1>6, FS_Subset
  <2> HIDE DEF x
  <2>4. Cardinality(x) \in Nat /\ Cardinality({}) = 0
    BY <2>3, FS_CardinalityType, FS_EmptySet
  <2>5. Cardinality(x) = n
    BY <1>6, <2>1, <2>2, <2>4
  <2> QED BY <2>5 DEF x
<1> QED BY <1>6, <1>7, FS_Subset

\* The columns of truths of a proof session are those of the rows of the manifest.
LEMMA VectorsAreColumns ==
  ASSUME NEW c, IsCorpus(c), parent \in Parents, NEW s, s = ProofSession(c, parent.manifest),
         NEW x \in SubjectsOf(s, "literal_truths"), NEW y \in SubjectsOf(s, "literal_truths")
  PROVE  SameVector(s, x, y) <=> Equivalent(s, x, y)
<1> DEFINE M == parent.manifest
<1>1. PICK i \in DOMAIN M : x = IdOf[M[i]]
  BY ProofSubjects
<1>2. PICK j \in DOMAIN M : y = IdOf[M[j]]
  BY ProofSubjects
<1>3. s.example_domains = DOMAIN c
  BY EpisodeAssumption, ProofFacts DEF IsManifest
<1>4. \A e \in DOMAIN c :
        /\ Holds(s, "literal_truths", x, e) <=> RowFor(M, c[e])[i]
        /\ Fails(s, "literal_truths", x, e) <=> ~RowFor(M, c[e])[i]
        /\ Holds(s, "literal_truths", y, e) <=> RowFor(M, c[e])[j]
        /\ Fails(s, "literal_truths", y, e) <=> ~RowFor(M, c[e])[j]
  BY <1>1, <1>2, ProofTruths
<1>5. \A e \in DOMAIN c : Holds(s, "literal_truths", x, e) \in BOOLEAN /\ Holds(s, "literal_truths", y, e) \in BOOLEAN
  BY DEF Holds
<1> HIDE DEF M
<1>6. Equivalent(s, x, y) <=> \A e \in DOMAIN c : RowFor(M, c[e])[i] <=> RowFor(M, c[e])[j]
  BY <1>3, <1>4 DEF Equivalent, Complete, Implies
<1>7. SameVector(s, x, y) <=> \A e \in DOMAIN c :
        Holds(s, "literal_truths", x, e) <=> Holds(s, "literal_truths", y, e)
  BY <1>3, <1>5 DEF SameVector
<1> QED BY <1>4, <1>6, <1>7

\* The pairs of positions of an answer are those of its pairs of literals.
Couples(rows) == {{r.left, r.right} : r \in RowsOf(rows, "literal_redundancies")}
LEMMA RedundantByCouples ==
  ASSUME NEW a, NEW b, Couples(a) = Couples(b)
  PROVE  Redundant(a) = Redundant(b)
<1> DEFINE found(rows) == {{PositionOf(r.left), PositionOf(r.right)} :
                             r \in RowsOf(rows, "literal_redundancies")}
           placed(C) == {{PositionOf(z) : z \in P} : P \in C}
<1>1. \A x, y : {PositionOf(z) : z \in {x, y}} = {PositionOf(x), PositionOf(y)}
  OBVIOUS
<1>2. ASSUME NEW rows PROVE found(rows) = placed(Couples(rows))
  <2>1. \A r : {PositionOf(z) : z \in {r.left, r.right}} = {PositionOf(r.left), PositionOf(r.right)}
    BY <1>1
  <2> DEFINE R == RowsOf(rows, "literal_redundancies")
             pair(r) == {r.left, r.right}
             set(Z) == {PositionOf(z) : z \in Z}
  <2>2. Couples(rows) = {pair(r) : r \in R}
    BY DEF Couples
  <2>3. found(rows) = {set(pair(r)) : r \in R}
    BY <2>1
  <2> HIDE DEF pair, set, R
  <2>4. {set(Z) : Z \in {pair(r) : r \in R}} = {set(pair(r)) : r \in R}
    OBVIOUS
  <2>5. placed(Couples(rows)) = {set(Z) : Z \in Couples(rows)}
    BY DEF set
  <2> QED BY <2>2, <2>3, <2>4, <2>5
<1>3. found(a) = found(b)
  <2> HIDE DEF found, placed
  <2> QED BY <1>2
<1> QED BY <1>3 DEF Redundant

\* Of what a child prints about the pairs, the service that drops a literal takes
\* only what has the pairs that it finds itself, which are all the honest ones.
LEMMA ContractionPrintsServe ==
  ASSUME NEW c, IsCorpus(c), parent \in Parents, session = ProofSession(c, parent.manifest),
         NEW q, AsksForRedundancies(q), NEW D, D = Derived(session, q, {}),
         NEW print, CompletePairs(print)
  PROVE  Redundant(print.rows) = Redundant(D)
<1> DEFINE P == {x \in LiteralPairs(session) : x[1] < x[2] /\ Equivalent(session, x[1], x[2])}
           Q == {x \in LiteralPairs(session) : x[1] < x[2] /\ SameVector(session, x[1], x[2])}
<1>1. RowsOf(D, "literal_redundancies") = {PairRow("literal_redundancies", x[1], x[2]) : x \in P}
  BY RedundanciesDerived
<1>2. ASSUME NEW x \in LiteralPairs(session)
      PROVE  SameVector(session, x[1], x[2]) <=> Equivalent(session, x[1], x[2])
  <2>1. x[1] \in SubjectsOf(session, "literal_truths") /\ x[2] \in SubjectsOf(session, "literal_truths")
    BY DEF LiteralPairs
  <2> QED BY <2>1, VectorsAreColumns
<1>3. P = Q
  BY <1>2
<1>4. Couples(print.rows) = {{x[1], x[2]} : x \in Q}
  BY DEF CompletePairs, Couples
<1> HIDE DEF P, Q
<1>5. Couples(D) = {{x[1], x[2]} : x \in P}
  <2>1. \A x : PairRow("literal_redundancies", x[1], x[2]).left = x[1] /\
               PairRow("literal_redundancies", x[1], x[2]).right = x[2]
    BY DEF PairRow
  <2> QED BY <1>1, <2>1 DEF Couples
<1> QED BY <1>3, <1>4, <1>5, RedundantByCouples

\* What an honest collective says of a plan, and an answer that says as much.
Honestly(p) == Derived(SessionOf(p), QueryOf[p.kind], QueryOf[p.kind].fields)
SaysAll(p, rows) ==
  IF Grows(p) THEN Proposed(rows) = Proposed(Honestly(p)) ELSE Redundant(rows) = Redundant(Honestly(p))

LEMMA HonestlyAsked ==
  ASSUME NEW p, AsAsked(p)
  PROVE  Honestly(p) = Derived(SessionOf(p), query, Selected)
<1>1. Selected = query.fields
  BY AskedFields
<1> QED BY <1>1 DEF Honestly, AsAsked

\* A print that the controller makes use of, the honest one or one with a
\* misprint, has every proposal of the session, or every redundancy: a line that
\* is lost or changed leaves counts that do not agree
\* (_run_complete_threshold_collective, invent_literal_contraction_for_corpus).
THEOREM ServedSaysAll ==
  ASSUME parent \in Parents, NEW p \in Plans, AsAsked(p), session = SessionOf(p),
         NEW D, D = Derived(session, query, Selected),
         NEW h \in Honest(D), NEW print, print = h \/ print \in Altered(h), Serves(print)
  PROVE  SaysAll(p, print.rows)
<1>1. Honestly(p) = D
  BY HonestlyAsked
<1>2. CASE Grows(p)
  <2>1. AsksForThresholds(query) /\ Selected = {Field}
    BY <1>2, AskedFields DEF AsksForThresholds
  <2>2. CompleteThresholds(print)
    BY <2>1 DEF AsksForThresholds, Serves
  <2>3. Invented(p.first) /\ session = InventionSession(p.first)
    BY <1>2, EpisodeAssumption DEF Invented, SessionOf
  <2> DEFINE F == Flips(session, Field)
             n == Cardinality(F)
  <2>4. /\ \A r \in D : r.product \in {"threshold_insights", "threshold_proposals"}
        /\ \A q \in {"threshold_insights", "threshold_proposals"} :
             RowsOf(D, q) = {ThresholdRow(q, Field, at) : at \in F}
        /\ IsFiniteSet(F)
    BY <2>1, <2>3, InventedRows, ZenonT(30)
  <2> HIDE DEF F
  <2>5. n \in Nat
    BY <2>4, FS_CardinalityType
  <2>6. ASSUME NEW q \in {"threshold_insights", "threshold_proposals"}
        PROVE  IsFiniteSet(RowsOf(D, q)) /\ Cardinality(RowsOf(D, q)) = n
    <3>1. PICK rows : rows = RowsOf(D, q)
      OBVIOUS
    <3>2. rows = {ThresholdRow(q, Field, at) : at \in F}
      BY <2>4, <3>1
    <3> QED BY <2>4, <3>1, <3>2, RowsOfFlips
  <2> HIDE DEF n
  <2>7. RowsOf(print.rows, "threshold_proposals") = RowsOf(D, "threshold_proposals")
    BY <2>2, <2>4, <2>5, <2>6, GrowthPrintsServe
  <2> QED BY <1>1, <1>2, <2>7 DEF SaysAll, Proposed
<1>3. CASE ~Grows(p)
  <2>1. AsksForRedundancies(query) /\ Selected = {}
    BY <1>3, AskedFields DEF AsksForRedundancies
  <2>2. CompletePairs(print)
    BY <2>1 DEF AsksForRedundancies, Serves
  <2>3. IsCorpus(p.first) /\ session = ProofSession(p.first, parent.manifest)
    BY <1>3, EpisodeAssumption DEF SessionOf
  <2>4. Redundant(print.rows) = Redundant(D)
    BY <2>1, <2>2, <2>3, ContractionPrintsServe
  <2> QED BY <1>1, <1>3, <2>4 DEF SaysAll
<1> QED BY <1>2, <1>3

\* A step of the collective leaves an answer that says all there is.
LEMMA CollectiveSaysAll ==
  ASSUME parent \in Parents, NEW p \in Plans, AsAsked(p), session = SessionOf(p), CollectiveStep,
         verdict = "answered" => SaysAll(p, answer.rows), verdict' = "answered"
  PROVE  SaysAll(p, answer'.rows)
<1>1. CASE Answered
  <2>1. PICK D : D = Derived(session, query, Selected)
    OBVIOUS
  <2>2. PICK h, print : h \in Honest(D) /\ (print = h \/ print \in Altered(h)) /\ Read(print)
    BY <1>1, <2>1 DEF Answered
  <2>3. Judged(print) = "answered" /\ answer'.rows = print.rows
    BY <2>2 DEF Read, EndRun
  <2>4. Serves(print)
    BY <2>3 DEF Judged
  <2>5. SaysAll(p, print.rows)
    BY <2>1, <2>2, <2>4, ServedSaysAll
  <2> QED BY <2>3, <2>5
<1>2. CASE ~Answered
  <2>1. /\ answer' = answer
        /\ verdict' \in {verdict, "refused", "timeout", "protocol", "interrupted", "execution"}
    BY <1>2 DEF CollectiveStep, Ask, CallStep, CallFailed, ExitFailed, Garbled, EndRun
  <2> QED BY <2>1
<1> QED BY <1>1, <1>2
-----------------------------------------------------------------------------
\* What is built from an answer that says all there is, is built from an honest one.
LEMMA GrowthsByProposals ==
  ASSUME NEW p, NEW a, NEW b, Proposed(a) = Proposed(b)
  PROVE  /\ GrowthsOf(p, a) = GrowthsOf(p, b)
         /\ Candidates(p, a) = Candidates(p, b)
<1>1. Candidates(p, a) = Candidates(p, b)
  BY DEF Candidates
<1>2. Chosen(p, a) = Chosen(p, b) /\ CandidateSet(p, a) = CandidateSet(p, b)
  BY <1>1 DEF Chosen, CandidateSet
<1> QED BY <1>1, <1>2 DEF GrowthsOf

LEMMA ContractionsByPairs ==
  ASSUME NEW p, NEW a, NEW b, Redundant(a) = Redundant(b)
  PROVE  ContractionsOf(p, a) = ContractionsOf(p, b)
<1>1. Dropped(a) = Dropped(b) /\ RedundancySet(p, a) = RedundancySet(p, b)
  BY DEF Dropped, RedundancySet
<1> QED BY <1>1 DEF ContractionsOf

\* The places of the proposals are whole.
LEMMA HonestProposals ==
  ASSUME NEW p \in Plans, AsAsked(p), Grows(p)
  PROVE  Proposed(Honestly(p)) \subseteq Int
<1>1. Proposed(Honestly(p)) = Flips(SessionOf(p), Field)
  BY HonestlyAsked, ProposedAreFlips
<1>2. Invented(p.first) /\ SessionOf(p) = InventionSession(p.first)
  BY EpisodeAssumption DEF Invented, SessionOf
<1>3. PICK s, D : s = SessionOf(p) /\ D = Derived(s, query, {Field})
  OBVIOUS
<1>4. AsksForThresholds(query)
  BY AskedFields
<1> QED BY <1>1, <1>2, <1>3, <1>4, InventedRows
-----------------------------------------------------------------------------
(***************************************************************************)
(* What is built from such an answer, the replay derives again.            *)
(***************************************************************************)

\* What is grown is of a threshold that is proposed; what is contracted, of a pair.
LEMMA GrowthIsOfAProposal ==
  ASSUME NEW p \in Plans, NEW rows, NEW b \in GrowthsOf(p, rows)
  PROVE  /\ \E at \in Proposed(rows) : b.middle = Extended(at) /\ b.child = Grown(p, at)
         /\ b = Built(b.middle, b.child, b.evidence, b.selection)
         /\ b.evidence = CandidateSet(p, rows) /\ Candidates(p, rows) # {}
<1>1. PICK s \in Chosen(p, rows) :
        b = Built(s.selected.extended, s.selected.child, CandidateSet(p, rows), s)
  BY DEF GrowthsOf
<1>2. PICK at \in Candidates(p, rows) : s.selected = OutcomeOf(p, at)
  BY SelectedIsBest
<1>3. s.selected.extended = Extended(at) /\ s.selected.child = Grown(p, at)
  BY <1>2 DEF OutcomeOf, Outcome
<1>4. at \in Proposed(rows)
  BY <1>2 DEF Candidates
<1>5. /\ b.middle = s.selected.extended /\ b.child = s.selected.child
      /\ b.evidence = CandidateSet(p, rows) /\ b = Built(b.middle, b.child, b.evidence, b.selection)
  BY <1>1 DEF Built
<1> QED BY <1>2, <1>3, <1>4, <1>5

LEMMA ContractionIsOfAPair ==
  ASSUME NEW p, NEW rows, NEW b \in ContractionsOf(p, rows)
  PROVE  /\ \E k, r \in DOMAIN parent.manifest :
              k < r /\ b.middle = Contracted(k, r) /\ b.child = Contracted(k, r)
         /\ b = Built(b.middle, b.child, b.evidence, b.selection)
         /\ b.evidence = RedundancySet(p, rows) /\ b.selection = NoSelection /\ Dropped(rows) # {}
<1>1. PICK d \in Dropped(rows) :
        b = Built(Contracted(d[1], d[2]), Contracted(d[1], d[2]), RedundancySet(p, rows), NoSelection)
  BY DEF ContractionsOf
<1>2. d \in Redundant(rows)
  BY DEF Dropped, First
<1>3. d[1] \in DOMAIN parent.manifest /\ d[2] \in DOMAIN parent.manifest /\ d[1] < d[2]
  BY <1>2 DEF Redundant
<1>4. /\ b.middle = Contracted(d[1], d[2]) /\ b.child = Contracted(d[1], d[2])
      /\ b.evidence = RedundancySet(p, rows) /\ b.selection = NoSelection
      /\ b = Built(b.middle, b.child, b.evidence, b.selection)
  BY <1>1 DEF Built
<1> QED BY <1>1, <1>3, <1>4

\* A lineage that a replay derives again from its own evidence.
Derivable(l) ==
  /\ SpendsItsCorpora(l) /\ Deployable(ChildOfGraph(l))
  /\ IF Grows(l.plan)
     THEN GrowthGraph(l) /\ Again(l) \in GrowthsOf(l.plan, Honestly(l.plan))
     ELSE ContractionGraph(l) /\ Again(l) \in ContractionsOf(l.plan, Honestly(l.plan))

\* The parts of a lineage that is begun.
LEMMA BegunSays ==
  ASSUME NEW b, NEW l, l = Begun(b), b = Built(b.middle, b.child, b.evidence, b.selection)
  PROVE  /\ LineageShape(l) /\ l.plan = driver.plan /\ l.usage = driver.usage
         /\ l.behavior = b.child /\ ~l.accepted
         /\ l.sequence = driver.sequence /\ l.previous = driver.previous
         /\ l.evidence = b.evidence /\ l.selection = b.selection /\ l.bundle = Bundle(Trained)
         /\ OldOf(l) = Trained /\ MiddleOfGraph(l) = MiddleOf(l.plan, b.middle)
         /\ ChildOfGraph(l) = ChildOf(l.plan, b.child)
         /\ Again(l) = b
<1>1. /\ LineageShape(l) /\ l.plan = driver.plan /\ l.usage = driver.usage
      /\ l.behavior = b.child /\ ~l.accepted
      /\ l.sequence = driver.sequence /\ l.previous = driver.previous
      /\ l.evidence = b.evidence /\ l.selection = b.selection /\ l.bundle = Bundle(Trained)
      /\ l.graph = <<Trained, MiddleOf(driver.plan, b.middle), ChildOf(driver.plan, b.child)>>
  BY DEF Begun, LineageShape
<1>2. /\ OldOf(l) = Trained /\ MiddleOfGraph(l) = MiddleOf(l.plan, b.middle)
      /\ ChildOfGraph(l) = ChildOf(l.plan, b.child)
  BY <1>1 DEF OldOf, MiddleOfGraph, ChildOfGraph
<1>3. MiddleOfGraph(l).behavior = b.middle
  BY <1>2 DEF MiddleOf, Generation
<1>4. Again(l) = b
  BY <1>1, <1>3 DEF Again
<1> QED BY <1>1, <1>2, <1>4

\* What is begun from an answer that says all there is may be derived again.
LEMMA BegunIsDerivable ==
  ASSUME parent \in Parents, PlanIsFresh, AsAsked(driver.plan),
         driver.usage = Life!Usage("candidate", Parent, EpisodeIds(driver.plan)),
         SaysAll(driver.plan, answer.rows),
         NEW b, b \in IF Grows(driver.plan) THEN GrowthsOf(driver.plan, answer.rows)
                                            ELSE ContractionsOf(driver.plan, answer.rows),
         NEW l, l = Begun(b)
  PROVE  /\ Derivable(l) /\ Proved(driver.plan, answer.rows) = {l.evidence}
         /\ b = Built(b.middle, b.child, b.evidence, b.selection)
<1>1. PICK p, rows : p = driver.plan /\ rows = answer.rows
  OBVIOUS
<1>2. p \in Plans /\ AsAsked(p) /\ SaysAll(p, rows)
  BY <1>1 DEF PlanIsFresh
<1>3. b = Built(b.middle, b.child, b.evidence, b.selection)
  BY <1>1, <1>2, GrowthIsOfAProposal, ContractionIsOfAPair
<1>4. /\ l.plan = p /\ l.usage = driver.usage /\ l.behavior = b.child /\ l.evidence = b.evidence
      /\ l.bundle = Bundle(Trained) /\ OldOf(l) = Trained /\ MiddleOfGraph(l) = MiddleOf(p, b.middle)
      /\ ChildOfGraph(l) = ChildOf(p, b.child) /\ Again(l) = b
  BY <1>1, <1>3, BegunSays
<1>5. /\ ChildOf(p, b.child).behavior = b.child
      /\ ChildOf(p, b.child).kind = IF Grows(p) THEN "adapted_child" ELSE "contracted_child"
      /\ ChildOf(p, b.child).origin = <<p.first, p.second, p.holdout>>
      /\ MiddleOf(p, b.middle).behavior = b.middle
      /\ Grows(p) => /\ MiddleOf(p, b.middle).kind = "extended_parent"
                     /\ MiddleOf(p, b.middle).origin = <<p.first>>
      /\ ~Grows(p) => /\ MiddleOf(p, b.middle).kind = "contracted_parent"
                      /\ MiddleOf(p, b.middle).origin = <<p.first, p.second>>
  BY DEF ChildOf, MiddleOf, Generation
<1>6. SpendsItsCorpora(l)
  <2>1. Resolves(Bundle(Trained), Trained)
    BY TrainedIsDeployable
  <2>2. Trained.kind = "trained_parent"
    BY DEF Trained, Generation
  <2> QED BY <1>1, <1>4, <1>5, <2>1, <2>2 DEF SpendsItsCorpora
<1>7. CASE Grows(p)
  <2>1. PICK at \in Proposed(rows) : b.middle = Extended(at) /\ b.child = Grown(p, at)
    BY <1>1, <1>2, <1>7, GrowthIsOfAProposal
  <2>2. at \in Int
    BY <1>2, <1>7, HonestProposals DEF SaysAll
  <2>3. ExtendsExactly(ParentBehavior, b.middle)
    BY <2>1, <2>2, ExtendedIsWell DEF ExtendedWell
  <2>4. WellFormed(b.child) /\ Readable(b.child.manifest) /\ b.child.manifest = b.middle.manifest
    BY <1>2, <2>1, <2>2, GrownIsWell
  <2>5. Deployable(ChildOfGraph(l))
    BY <1>2, <1>4, <2>4, ChildIsDeployable
  <2>6. GrowthGraph(l)
    <3>1. OldOf(l).behavior = ParentBehavior
      BY <1>4 DEF Trained, Generation
    <3> QED BY <1>4, <1>5, <1>7, <2>3, <2>4, <3>1 DEF GrowthGraph
  <2>7. Again(l) \in GrowthsOf(p, Honestly(p))
    BY <1>1, <1>2, <1>4, <1>7, GrowthsByProposals DEF SaysAll
  <2>8. Proved(p, rows) = {b.evidence}
    <3>1. b.evidence = CandidateSet(p, rows) /\ Candidates(p, rows) # {}
      BY <1>1, <1>2, <1>7, GrowthIsOfAProposal
    <3> QED BY <1>7, <3>1 DEF Proved
  <2>9. Derivable(l)
    BY <1>4, <1>6, <1>7, <2>5, <2>6, <2>7 DEF Derivable
  <2> QED BY <1>1, <1>3, <1>4, <2>8, <2>9
<1>8. CASE ~Grows(p)
  <2>1. PICK k, r \in DOMAIN parent.manifest :
          k < r /\ b.middle = Contracted(k, r) /\ b.child = Contracted(k, r)
    BY <1>1, <1>8, ContractionIsOfAPair
  <2>2. WellFormed(b.child) /\ Readable(b.child.manifest)
    BY <2>1, ContractedIsWell
  <2>3. Deployable(ChildOfGraph(l))
    BY <1>2, <1>4, <2>2, ChildIsDeployable
  <2>4. ContractionGraph(l)
    BY <1>4, <1>5, <1>8, <2>1 DEF ContractionGraph
  <2>5. Again(l) \in ContractionsOf(p, Honestly(p))
    BY <1>1, <1>2, <1>4, <1>8, ContractionsByPairs DEF SaysAll
  <2>6. Proved(p, rows) = {b.evidence}
    <3>1. b.evidence = RedundancySet(p, rows) /\ Dropped(rows) # {}
      BY <1>1, <1>8, ContractionIsOfAPair
    <3> QED BY <1>8, <3>1 DEF Proved
  <2>7. Derivable(l)
    BY <1>4, <1>6, <1>8, <2>3, <2>4, <2>5 DEF Derivable
  <2> QED BY <1>1, <1>3, <1>4, <2>6, <2>7
<1> QED BY <1>7, <1>8

\* A lineage that may be derived again is rebuilt, once it has been audited.
LEMMA DerivableRebuilds ==
  ASSUME NEW l, AsAsked(l.plan), Derivable(l), Reaudits(l)
  PROVE  Rebuilds(l)
<1>1. Rederived(l) = Honestly(l.plan)
  <2>1. Honestly(l.plan) = Derived(SessionOf(l.plan), query, Selected)
    BY HonestlyAsked
  <2>2. query = QueryOf[l.plan.kind]
    BY DEF AsAsked
  <2> QED BY <2>1, <2>2 DEF Rederived
<1>2. CASE Grows(l.plan)
  BY <1>1, <1>2 DEF Derivable, Rebuilds, RebuildsGrowth, Regrows
<1>3. CASE ~Grows(l.plan)
  BY <1>1, <1>3 DEF Derivable, Rebuilds, RebuildsContraction, Recontracts
<1> QED BY <1>2, <1>3

\* The audit of a lineage that may be deployed is one that its replay repeats.
LEMMA AuditedReaudits ==
  ASSUME NEW old, LineageShape(old), old.plan \in Plans, OldOf(old) = Trained, Derivable(old),
         NEW l, l = Audited(old), Agree(l.conformance.vectors), l.accepted
  PROVE  Reaudits(l)
<1>1. PICK v, audit : /\ v = Vectors(ChildOfGraph(old), old.plan.holdout)
                      /\ audit = Counts(ParentBehavior, old.behavior, old.plan.holdout)
  OBVIOUS
<1>2. l = [old EXCEPT !.conformance = Conformance(ChildOfGraph(old), old.plan.holdout, v),
             !.audit = audit, !.accepted = Accepts(old.plan, audit, v, old.plan.minimum)]
  BY <1>1 DEF Audited
<1>3. /\ l.plan = old.plan /\ l.behavior = old.behavior /\ l.audit = audit /\ l.graph = old.graph
      /\ l.accepted = Accepts(old.plan, audit, v, old.plan.minimum)
      /\ l.conformance = Conformance(ChildOfGraph(old), old.plan.holdout, v)
  BY <1>2 DEF LineageShape
<1>4. ChildOfGraph(l) = ChildOfGraph(old) /\ OldOf(l) = Trained
  BY <1>3 DEF ChildOfGraph, OldOf
<1>5. l.conformance.vectors = v
  BY <1>3 DEF Conformance
<1>6. Attested(ChildOfGraph(l), l.plan.holdout, l.conformance)
  BY <1>1, <1>3, <1>4 DEF Attested, Derivable
<1>7. l.audit = Counts(OldOf(l).behavior, l.behavior, l.plan.holdout)
  <2>1. Trained.behavior = ParentBehavior
    BY DEF Trained, Generation
  <2> QED BY <1>1, <1>3, <1>4, <2>1
<1>8. l.accepted = Accepts(l.plan, l.audit, l.conformance.vectors, l.audit.observations)
  <2>1. audit.observations \in Nat
    <3>1. IsCorpus(old.plan.holdout)
      BY EpisodeAssumption
    <3>2. Len(old.plan.holdout) \in Nat
      BY <3>1, CorpusTypes
    <3>3. audit.observations = Len(old.plan.holdout)
      BY <1>1 DEF Counts
    <3> QED BY <3>2, <3>3
  <2>2. Accepts(old.plan, audit, v, old.plan.minimum)
    BY <1>3
  <2>3. audit.observations >= audit.observations
    BY <2>1
  <2>4. Accepts(old.plan, audit, v, audit.observations)
    BY <2>2, <2>3 DEF Accepts
  <2>5. Accepts(old.plan, audit, v, audit.observations) = Accepts(old.plan, audit, v, old.plan.minimum)
    BY <2>2, <2>4 DEF Accepts
  <2> QED BY <1>3, <1>5, <2>5
<1> QED BY <1>6, <1>7, <1>8 DEF Reaudits
-----------------------------------------------------------------------------
(***************************************************************************)
(* An episode that nothing happens to stays on course.                     *)
(***************************************************************************)

\* The caller's places before it has a child, and while its evidence is reserved.
Unborn == {"publish", "construct", "register", "reserve", "consult", "collect", "build"}
Making == {"consult", "collect", "build", "audit", "record"}

\* The reservation, and the place in the sequence it is made at.
ReservedNow ==
  /\ driver.usage = Life!Usage("candidate", Parent, EpisodeIds(driver.plan))
  /\ Loads(Spent(driver.usage)) /\ Loads(Spent(TrainingUsage))
  /\ life.active = Parent /\ Life!NothingInProgress(life) /\ life.activated = NoLineage
  /\ life.pendingCandidate = driver.usage
  /\ driver.sequence = life.count + 1 /\ driver.previous = life.last

\* The lineage in hand: derivable, of this reservation, and its parts published.
Made(l) ==
  /\ Derivable(l)
  /\ l.usage = driver.usage /\ l.sequence = driver.sequence /\ l.previous = driver.previous
  /\ Loads(Evidenced({l.evidence})) /\ Loads(Alternatives(l.selection)) /\ Loads(Generations(l))

\* What the log must say for the next event of a lineage to be valid.
Awaited(l) == life.active = Parent /\ l.behavior \notin life.behaviors /\ Life!InSequence(life, l)

\* An episode nothing has happened to.
OnCourse ==
  /\ driver.at \in Unborn => driver.lineage = NoLineage
  /\ driver.at = "reserve" => Loads(Spent(TrainingUsage))
  /\ driver.at \in Making => ReservedNow
  /\ driver.at = "collect" =>
       /\ session = SessionOf(driver.plan)
       /\ verdict = "answered" => SaysAll(driver.plan, answer.rows)
  /\ driver.at = "build" => SaysAll(driver.plan, answer.rows)
  /\ driver.at \in {"audit", "record"} => Made(driver.lineage)
  /\ driver.at = "audit" => ~driver.lineage.accepted
  /\ driver.at = "record" =>
       /\ Loads(Examined(driver.lineage)) /\ Loads(Lineage(driver.lineage))
       /\ driver.lineage.accepted => Reaudits(driver.lineage)
  /\ driver.at = "decide" => life.candidate = driver.lineage /\ Awaited(driver.lineage)
  /\ driver.at = "activate" =>
       /\ life.approved = driver.lineage /\ driver.lineage.accepted
       /\ Awaited(driver.lineage)
  /\ driver.at = "recover" /\ driver.lineage # NoLineage =>
       ~driver.lineage.accepted \/ driver.lineage.behavior \in life.behaviors

SmoothInv == mishaps \in Nat /\ (mishaps = 0 => OnCourse)

\* What stays, as long as the parent, the reservation and the log do.
LEMMA MakingStays ==
  ASSUME parent' = parent, objects \subseteq objects'
  PROVE  /\ \A p, rows : SaysAll(p, rows)' <=> SaysAll(p, rows)
         /\ \A l : Derivable(l)' <=> Derivable(l)
         /\ TrainingUsage' = TrainingUsage
         /\ \A set : Loads(set) => Loads(set)'
<1>1. ASSUME NEW p, NEW rows PROVE SaysAll(p, rows)' <=> SaysAll(p, rows)
  <2>1. Honestly(p)' = Honestly(p)
    BY DerivationsStay DEF Honestly
  <2> QED BY <2>1, DerivationsStay DEF SaysAll
<1>2. ASSUME NEW l PROVE Derivable(l)' <=> Derivable(l)
  <2>1. Honestly(l.plan)' = Honestly(l.plan)
    BY DerivationsStay DEF Honestly
  <2> QED BY <2>1, DerivationsStay DEF Derivable
<1>3. ASSUME NEW set PROVE Loads(set) => Loads(set)'
  BY DEF Loads
<1> QED BY <1>1, <1>2, <1>3 DEF TrainingUsage

LEMMA ReservedStays ==
  ASSUME ReservedNow, parent' = parent, objects \subseteq objects', life' = life,
         driver'.usage = driver.usage, driver'.plan = driver.plan,
         driver'.sequence = driver.sequence, driver'.previous = driver.previous
  PROVE  ReservedNow'
<1>1. Loads(Spent(driver.usage))' /\ Loads(Spent(TrainingUsage))'
  <2>1. PICK u, v : u = Spent(driver.usage) /\ v = Spent(TrainingUsage)
    OBVIOUS
  <2>2. Loads(u)' /\ Loads(v)'
    BY <2>1, MakingStays DEF ReservedNow
  <2>3. Spent(driver.usage)' = u /\ Spent(TrainingUsage)' = v
    BY <2>1, MakingStays DEF Spent
  <2> QED BY <2>2, <2>3
<1> QED BY <1>1 DEF ReservedNow

LEMMA MadeStays ==
  ASSUME NEW l, Made(l), parent' = parent, objects \subseteq objects', driver'.usage = driver.usage,
         driver'.sequence = driver.sequence, driver'.previous = driver.previous
  PROVE  Made(l)'
<1>1. Derivable(l)'
  BY MakingStays DEF Made
<1>2. Loads(Evidenced({l.evidence}))' /\ Loads(Alternatives(l.selection))' /\ Loads(Generations(l))'
  BY DEF Made, Loads
<1> QED BY <1>1, <1>2 DEF Made

\* Events that leave the sequence of activations alone.
LEMMA SequenceKept ==
  ASSUME NEW s, LifeShape(s), NEW u, NEW l, NEW t,
         t \in {Life!After(s, Life!Reserved(u)), Life!After(s, Life!Abandoned(u)),
                Life!After(s, Life!Created(l)), Life!After(s, Life!Approved(l))}
  PROVE  t.count = s.count /\ t.last = s.last /\ t.behaviors = s.behaviors
<1>1. CASE t = Life!After(s, Life!Reserved(u))
  BY <1>1 DEF LifeShape, Life!After, Life!Reserved, Life!LifecycleEvent
<1>2. CASE t = Life!After(s, Life!Abandoned(u))
  BY <1>2 DEF LifeShape, Life!After, Life!Abandoned, Life!LifecycleEvent
<1>3. CASE t = Life!After(s, Life!Created(l))
  BY <1>3 DEF LifeShape, Life!After, Life!Created, Life!LifecycleEvent
<1>4. CASE t = Life!After(s, Life!Approved(l))
  BY <1>4 DEF LifeShape, Life!After, Life!Approved, Life!LifecycleEvent
<1> QED BY <1>1, <1>2, <1>3, <1>4
-----------------------------------------------------------------------------
SmoothPre == SettlePre /\ OnCourse

LEMMA SmoothPreSays ==
  ASSUME SmoothPre
  PROVE  /\ SettlePre /\ OnCourse /\ parent \in Parents /\ LifeIsEarned(life, objects)
         /\ LifeShape(life) /\ InOrder(life) /\ Orderly(life) /\ DriverShape /\ DriverInv
         /\ driver.at \in Underway => PlanIsFresh
BY SettlePreSays DEF SmoothPre, SettlePre, EpisodeInv, DriverInv

\* Where nothing more is said.
LEMMA QuietOnCourse ==
  ASSUME driver'.at \notin Unborn \union Making \union {"decide", "activate", "recover"}
  PROVE  OnCourse'
BY DEF OnCourse, Unborn, Making

LEMMA GivesUpOnCourse ==
  ASSUME DriverShape, Goes("recover"),
         \/ driver.lineage = NoLineage \/ ~driver.lineage.accepted
         \/ driver.lineage.behavior \in life'.behaviors
  PROVE  OnCourse'
<1>1. driver'.at = "recover" /\ driver'.lineage = driver.lineage
  BY GoesSays
<1> QED BY <1>1 DEF OnCourse, Unborn, Making

LEMMA BeginOnCourse ==
  ASSUME Begin
  PROVE  OnCourse'
<1>1. \E p \in Plans : BeginWith(p)
  BY DEF Begin, BeginSingle, BeginGrowth, BeginContraction
<1>2. driver'.at \in {"publish", "recover"} /\ driver'.lineage = NoLineage
  BY <1>1 DEF BeginWith, Idle
<1> QED BY <1>2 DEF OnCourse, Unborn, Making

LEMMA PreparationOnCourse ==
  ASSUME SmoothPre, PublishParent \/ Construct \/ Register
  PROVE  OnCourse'
<1>1. driver.lineage = NoLineage
  BY DEF PublishParent, Construct, Register, At, SmoothPre, OnCourse, Unborn
<1>2. /\ parent' = parent /\ objects \subseteq objects'
      /\ \/ \E x \in {"construct", "register"} : Goes(x)
         \/ Goes("recover")
         \/ Goes("reserve") /\ Spent(TrainingUsage) \subseteq objects'
  <2>1. CASE PublishParent
    BY <2>1 DEF PublishParent, Publishes, Elsewhere
  <2>2. CASE Construct
    BY <2>2 DEF Construct, Elsewhere, Loads
  <2>3. CASE Register
    BY <2>3 DEF Register, Publishes, Elsewhere
  <2> QED BY <2>1, <2>2, <2>3
<1>3. CASE \E x \in {"construct", "register"} : Goes(x)
  <2>1. driver'.at \in {"construct", "register"} /\ driver'.lineage = NoLineage
    BY <1>1, <1>3, GoesSays, SmoothPreSays
  <2> QED BY <2>1 DEF OnCourse, Unborn, Making
<1>4. CASE Goes("recover")
  BY <1>1, <1>4, GivesUpOnCourse, SmoothPreSays
<1>5. CASE Goes("reserve") /\ Spent(TrainingUsage) \subseteq objects'
  <2>1. driver'.at = "reserve" /\ driver'.lineage = NoLineage
    BY <1>1, <1>5, GoesSays, SmoothPreSays
  <2>2. TrainingUsage' = TrainingUsage
    BY <1>2 DEF TrainingUsage
  <2>3. Loads(Spent(TrainingUsage))'
    BY <1>5, <2>2 DEF Loads, Spent
  <2> QED BY <2>1, <2>3 DEF OnCourse, Unborn, Making
<1> QED BY <1>2, <1>3, <1>4, <1>5

LEMMA ReserveOnCourse ==
  ASSUME SmoothPre, Reserve
  PROVE  OnCourse'
<1>1. PICK u, freed : /\ u = Life!Usage("candidate", life.active, EpisodeIds(driver.plan))
                      /\ freed = Freed(life)
  OBVIOUS
<1>2. /\ driver.at = "reserve" /\ UNCHANGED parent
      /\ \/ /\ Life!Valid(freed, Life!Reserved(u)) /\ life' = Life!After(freed, Life!Reserved(u))
            /\ objects' = objects \union Spent(u)
            /\ driver' = [driver EXCEPT !.at = "consult", !.usage = u,
                              !.sequence = freed.count + 1, !.previous = freed.last]
         \/ life' = freed /\ Goes("recover")
  BY <1>1 DEF Reserve, Publishes, Elsewhere, At
<1>3. driver.lineage = NoLineage /\ Spent(TrainingUsage) \subseteq objects
  BY <1>2, SmoothPreSays DEF OnCourse, Unborn, Loads
<1>4. LifeIsEarned(freed, objects)
  BY <1>1, FreedIsEarned, SmoothPreSays
<1>5. CASE life' = freed /\ Goes("recover")
  BY <1>3, <1>5, GivesUpOnCourse, SmoothPreSays
<1>6. CASE /\ Life!Valid(freed, Life!Reserved(u)) /\ life' = Life!After(freed, Life!Reserved(u))
           /\ objects' = objects \union Spent(u)
           /\ driver' = [driver EXCEPT !.at = "consult", !.usage = u,
                             !.sequence = freed.count + 1, !.previous = freed.last]
  <2>1. u.purpose = "candidate" /\ u.subject = life.active /\ u.examples = EpisodeIds(driver.plan)
    BY <1>1 DEF Life!Usage
  <2>2. /\ freed.active = Parent /\ Life!NothingInProgress(freed) /\ freed.activated = NoLineage
        /\ freed.active = u.subject
    BY <1>6, <2>1 DEF Life!Valid, Life!ValidReserved, Life!Reserved, Life!LifecycleEvent
  <2>3. LifeShape(freed)
    BY <1>4 DEF LifeIsEarned
  <2>4. /\ SameBut(life', freed, {"pendingCandidate", "pendingLive"}) /\ life'.pendingCandidate = u
        /\ life'.count = freed.count /\ life'.last = freed.last
    <3>1. PICK t : t = life'
      OBVIOUS
    <3>2. t = Life!After(freed, Life!Reserved(u))
      BY <1>6, <3>1
    <3>3. SameBut(t, freed, {"pendingCandidate", "pendingLive"}) /\ t.pendingCandidate = u
      BY <2>1, <2>3, <3>2, AfterReserved
    <3>4. t.count = freed.count /\ t.last = freed.last
      BY <2>3, <3>2, SequenceKept
    <3> QED BY <3>1, <3>3, <3>4
  <2>5. u = Life!Usage("candidate", Parent, EpisodeIds(driver.plan))
    BY <1>1, <2>1, <2>2
  <2>6. /\ driver'.at = "consult" /\ driver'.usage = u /\ driver'.plan = driver.plan
        /\ driver'.sequence = freed.count + 1 /\ driver'.previous = freed.last
        /\ driver'.lineage = NoLineage
    BY <1>3, <1>6, SmoothPreSays DEF DriverShape
  <2>7. /\ life'.active = Parent /\ Life!NothingInProgress(life') /\ life'.activated = NoLineage
    BY <2>2, <2>4 DEF SameBut, Life!NothingInProgress
  <2>8. TrainingUsage' = TrainingUsage
    BY <1>2 DEF TrainingUsage
  <2>9. Loads(Spent(TrainingUsage))' /\ Loads(Spent(driver.usage))'
    BY <1>3, <1>6, <2>6, <2>8 DEF Loads, Spent
  <2>10. ReservedNow'
    BY <2>4, <2>5, <2>6, <2>7, <2>9 DEF ReservedNow
  <2> QED BY <2>6, <2>10 DEF OnCourse, Unborn, Making
<1> QED BY <1>2, <1>5, <1>6

\* The caller moves with its reservation.
LEMMA GoesReserved ==
  ASSUME SmoothPre, driver.at \in Making, NEW x, Goes(x), parent' = parent,
         objects \subseteq objects', life' = life
  PROVE  ReservedNow'
BY GoesSays, ReservedStays, SmoothPreSays DEF OnCourse

LEMMA ConsultOnCourse ==
  ASSUME SmoothPre, Consult
  PROVE  OnCourse'
<1>1. /\ driver.at = "consult" /\ Goes("collect") /\ UNCHANGED <<parent, life, objects>>
      /\ session' = SessionOf(driver.plan) /\ verdict' = "none"
  BY DEF Consult, At
<1>2. /\ driver'.at = "collect" /\ driver'.plan = driver.plan /\ driver'.lineage = NoLineage
  BY <1>1, GoesSays, SmoothPreSays DEF OnCourse, Unborn
<1>3. ReservedNow'
  BY <1>1, GoesReserved DEF Making
<1>4. session' = SessionOf(driver.plan)'
  BY <1>1, <1>2 DEF SessionOf
<1> QED BY <1>1, <1>2, <1>3, <1>4 DEF OnCourse, Unborn, Making

LEMMA CollectingOnCourse ==
  ASSUME SmoothPre, Collecting
  PROVE  OnCourse'
<1>1. PICK p : p = driver.plan
  OBVIOUS
<1>2. /\ driver.at = "collect" /\ CollectiveStep
      /\ session' = session /\ parent' = parent /\ life' = life /\ objects' = objects /\ driver' = driver
  BY DEF Collecting, At, ownVars
<1>3. /\ session = SessionOf(p) /\ p \in Plans /\ AsAsked(p) /\ driver.lineage = NoLineage /\ ReservedNow
      /\ verdict = "answered" => SaysAll(p, answer.rows)
  BY <1>1, <1>2, SmoothPreSays DEF OnCourse, Unborn, Making, DriverInv, Underway, PlanIsFresh, AsAsked
<1>4. ReservedNow'
  BY <1>2, <1>3, ReservedStays
<1>5. verdict' = "answered" => SaysAll(driver.plan, answer.rows)'
  <2>1. SUFFICES ASSUME verdict' = "answered" PROVE SaysAll(driver.plan, answer.rows)'
    OBVIOUS
  <2>2. PICK rows : rows = answer'.rows
    OBVIOUS
  <2>3. SaysAll(p, rows)
    BY <1>2, <1>3, <2>1, <2>2, CollectiveSaysAll, SmoothPreSays
  <2>4. SaysAll(p, rows)'
    BY <1>2, <2>3, MakingStays
  <2> QED BY <1>1, <1>2, <2>2, <2>4
<1>6. session' = SessionOf(driver.plan)'
  BY <1>1, <1>2, <1>3 DEF SessionOf
<1>7. driver'.at = "collect" /\ driver'.lineage = NoLineage
  BY <1>2, <1>3
<1> QED BY <1>4, <1>5, <1>6, <1>7 DEF OnCourse, Unborn, Making

LEMMA CollectedOnCourse ==
  ASSUME SmoothPre, Collected
  PROVE  OnCourse'
<1>1. /\ driver.at = "collect" /\ UNCHANGED <<parent, life, objects, answer>>
      /\ (verdict = "answered" /\ Goes("build")) \/ Goes("recover")
  BY DEF Collected, At, Elsewhere, collectiveVars
<1>2. driver.lineage = NoLineage
  BY <1>1, SmoothPreSays DEF OnCourse, Unborn
<1>3. CASE Goes("recover")
  BY <1>2, <1>3, GivesUpOnCourse, SmoothPreSays
<1>4. CASE verdict = "answered" /\ Goes("build")
  <2>1. PICK p, rows : p = driver.plan /\ rows = answer.rows
    OBVIOUS
  <2>2. SaysAll(p, rows)
    BY <1>1, <1>4, <2>1, SmoothPreSays DEF OnCourse
  <2>3. SaysAll(p, rows)'
    BY <1>1, <2>2, MakingStays
  <2>4. driver'.at = "build" /\ driver'.plan = p /\ driver'.lineage = NoLineage
    BY <1>2, <1>4, <2>1, GoesSays, SmoothPreSays
  <2>5. SaysAll(driver.plan, answer.rows)'
    BY <1>1, <2>1, <2>3, <2>4
  <2>6. ReservedNow'
    BY <1>1, <1>4, GoesReserved DEF Making
  <2> QED BY <2>4, <2>5, <2>6 DEF OnCourse, Unborn, Making
<1> QED BY <1>1, <1>3, <1>4

LEMMA BuildOnCourse ==
  ASSUME SmoothPre, Build
  PROVE  OnCourse'
<1>1. PICK built : /\ built = IF Grows(driver.plan) THEN GrowthsOf(driver.plan, answer.rows)
                                                    ELSE ContractionsOf(driver.plan, answer.rows)
                   /\ Building(built)
  BY DEF Build
<1>2. driver.at = "build" /\ UNCHANGED <<query, parent, life>>
  BY DEF Build, At, Elsewhere, collectiveVars
<1>3. /\ driver.lineage = NoLineage /\ ReservedNow /\ SaysAll(driver.plan, answer.rows)
      /\ PlanIsFresh /\ AsAsked(driver.plan)
  BY <1>2, SmoothPreSays DEF OnCourse, Unborn, Making, DriverInv, Underway, PlanIsFresh, AsAsked
<1>4. CASE Goes("recover")
  BY <1>3, <1>4, GivesUpOnCourse, SmoothPreSays
<1>5. CASE ~Goes("recover")
  <2>1. PICK b \in built :
          LET l == Begun(b) IN
            /\ driver' = [driver EXCEPT !.at = "audit", !.lineage = l]
            /\ Publishes(Evidenced(Proved(driver.plan, answer.rows)) \union Alternatives(l.selection)
                           \union Generations(l))
    BY <1>1, <1>5 DEF Building
  <2>2. PICK l : l = Begun(b)
    OBVIOUS
  <2>3. /\ driver' = [driver EXCEPT !.at = "audit", !.lineage = l]
        /\ objects' = objects \union (Evidenced(Proved(driver.plan, answer.rows))
                         \union Alternatives(l.selection) \union Generations(l))
    BY <2>1, <2>2 DEF Publishes
  <2>4. /\ Derivable(l) /\ Proved(driver.plan, answer.rows) = {l.evidence}
        /\ b = Built(b.middle, b.child, b.evidence, b.selection)
    BY <1>1, <1>3, <2>2, BegunIsDerivable, SmoothPreSays DEF ReservedNow
  <2>5. /\ l.usage = driver.usage /\ l.sequence = driver.sequence /\ l.previous = driver.previous
        /\ ~l.accepted
    BY <2>2, <2>4, BegunSays
  <2>6. /\ driver'.at = "audit" /\ driver'.lineage = l /\ driver'.plan = driver.plan
        /\ driver'.usage = driver.usage /\ driver'.sequence = driver.sequence
        /\ driver'.previous = driver.previous
    BY <2>3, SmoothPreSays DEF DriverShape
  <2>7. /\ Evidenced({l.evidence}) \subseteq objects' /\ Alternatives(l.selection) \subseteq objects'
        /\ Generations(l) \subseteq objects' /\ objects \subseteq objects'
    BY <2>3, <2>4
  <2>8. Derivable(l)'
    BY <1>2, <2>4, <2>7, MakingStays
  <2>9. Made(l)'
    BY <2>5, <2>6, <2>7, <2>8 DEF Made, Loads
  <2>10. ReservedNow'
    BY <1>2, <1>3, <2>6, <2>7, ReservedStays
  <2>11. Made(driver.lineage)'
    BY <2>6, <2>9
  <2> QED BY <2>5, <2>6, <2>10, <2>11 DEF OnCourse, Unborn, Making
<1> QED BY <1>4, <1>5

LEMMA AuditOnCourse ==
  ASSUME SmoothPre, Audit
  PROVE  OnCourse'
<1>1. PICK old, l : old = driver.lineage /\ l = Audited(old)
  OBVIOUS
<1>2. /\ driver.at = "audit" /\ UNCHANGED <<query, parent, life>>
      /\ \/ Goes("recover")
         \/ /\ Agree(l.conformance.vectors)
            /\ driver' = [driver EXCEPT !.at = "record", !.lineage = l]
            /\ objects' = objects \union (Examined(l) \union Lineage(l))
  BY <1>1 DEF Audit, At, Elsewhere, collectiveVars, Publishes
<1>3. /\ Made(old) /\ ~old.accepted /\ ReservedNow /\ PlanIsFresh /\ InHand(old)
  BY <1>1, <1>2, SmoothPreSays DEF OnCourse, Making, DriverInv, Underway
<1>4. CASE Goes("recover")
  BY <1>1, <1>3, <1>4, GivesUpOnCourse, SmoothPreSays
<1>5. CASE /\ Agree(l.conformance.vectors)
           /\ driver' = [driver EXCEPT !.at = "record", !.lineage = l]
           /\ objects' = objects \union (Examined(l) \union Lineage(l))
  <2>1. LineageShape(old) /\ OldOf(old) = Trained /\ old.plan \in Plans
    BY <1>3 DEF InHand, PlanIsFresh
  <2>2. l.accepted => Reaudits(l)
    BY <1>1, <1>3, <1>5, <2>1, AuditedReaudits DEF Made
  <2>3. /\ l.plan = old.plan /\ l.usage = old.usage /\ l.behavior = old.behavior /\ l.graph = old.graph
        /\ l.sequence = old.sequence /\ l.previous = old.previous /\ l.bundle = old.bundle
        /\ l.evidence = old.evidence /\ l.selection = old.selection
    <3>1. \E w, audit, accepted :
            l = [old EXCEPT !.conformance = w, !.audit = audit, !.accepted = accepted]
      BY <1>1 DEF Audited
    <3> QED BY <2>1, <3>1 DEF LineageShape
  <2>4. Derivable(l)
    <3>1. OldOf(l) = OldOf(old) /\ MiddleOfGraph(l) = MiddleOfGraph(old) /\ ChildOfGraph(l) = ChildOfGraph(old)
      BY <2>3 DEF OldOf, MiddleOfGraph, ChildOfGraph
    <3>2. Again(l) = Again(old)
      BY <2>3, <3>1 DEF Again
    <3>3. SpendsItsCorpora(l) /\ Deployable(ChildOfGraph(l))
      BY <1>3, <2>3, <3>1 DEF Made, Derivable, SpendsItsCorpora
    <3>4. Grows(l.plan) => GrowthGraph(l)
      BY <1>3, <2>3, <3>1 DEF Made, Derivable, GrowthGraph
    <3>5. ~Grows(l.plan) => ContractionGraph(l)
      BY <1>3, <2>3, <3>1 DEF Made, Derivable, ContractionGraph
    <3> QED BY <1>3, <2>3, <3>2, <3>3, <3>4, <3>5 DEF Made, Derivable
  <2>5. Made(l)
    <3>1. Generations(l) = Generations(old)
      BY <2>3 DEF Generations
    <3> QED BY <1>3, <2>3, <2>4, <3>1 DEF Made
  <2>6. /\ driver'.at = "record" /\ driver'.lineage = l /\ driver'.plan = driver.plan
        /\ driver'.usage = driver.usage /\ driver'.sequence = driver.sequence
        /\ driver'.previous = driver.previous
    BY <1>5, SmoothPreSays DEF DriverShape
  <2>7. Made(l)' /\ ReservedNow'
    BY <1>2, <1>3, <1>5, <2>5, <2>6, MadeStays, ReservedStays
  <2>8. Loads(Examined(l))' /\ Loads(Lineage(l))'
    BY <1>5 DEF Loads
  <2>9. l.accepted => Reaudits(l)'
    BY <2>2
  <2>10. /\ Made(driver.lineage)' /\ Loads(Examined(driver.lineage))' /\ Loads(Lineage(driver.lineage))'
         /\ driver'.lineage.accepted => Reaudits(driver.lineage)'
    BY <2>6, <2>7, <2>8, <2>9
  <2> QED BY <2>6, <2>7, <2>10 DEF OnCourse, Unborn, Making
<1> QED BY <1>2, <1>4, <1>5

\* What record_candidate loads and rebuilds is there, when the child is accepted.
LEMMA RecordOnCourse ==
  ASSUME SmoothPre, Record
  PROVE  OnCourse'
<1>1. PICK l : l = driver.lineage
  OBVIOUS
<1>2. /\ driver.at = "record" /\ UNCHANGED <<query, parent, objects>>
      /\ IF Loads(Needed(l)) /\ Rebuilds(l) /\ Life!Valid(life, Life!Created(l))
         THEN life' = Life!After(life, Life!Created(l)) /\ Goes("decide")
         ELSE life' = life /\ Goes("recover")
  BY <1>1 DEF Record, At, Elsewhere, collectiveVars, Appends
<1>3. /\ Made(l) /\ ReservedNow /\ PlanIsFresh /\ InHand(l) /\ AsAsked(driver.plan) /\ Loads(Old)
      /\ Loads(Examined(l)) /\ Loads(Lineage(l))
      /\ l.accepted => Reaudits(l)
  BY <1>1, <1>2, SmoothPreSays DEF OnCourse, Making, DriverInv, Underway, PlanIsFresh, AsAsked
<1>4. CASE /\ Life!Valid(life, Life!Created(l))
           /\ life' = Life!After(life, Life!Created(l)) /\ Goes("decide")
  <2>1. life.active = Parent /\ l.behavior \notin life.behaviors /\ Life!InSequence(life, l)
    BY <1>4 DEF Life!Valid, Life!ValidCreated, Life!Created, Life!LifecycleEvent
  <2>2. PICK t : t = life'
    OBVIOUS
  <2>3. t = Life!After(life, Life!Created(l)) /\ LifeShape(life)
    BY <1>4, <2>2, SmoothPreSays
  <2>4. SameBut(t, life, {"candidate", "pendingCandidate"}) /\ t.candidate = l
    BY <2>3, AfterCreated
  <2>5. t.count = life.count /\ t.last = life.last /\ t.behaviors = life.behaviors
    BY <2>3, SequenceKept
  <2>6. t.active = Parent /\ Life!InSequence(t, l)
    BY <2>1, <2>4, <2>5 DEF SameBut, Life!InSequence
  <2>7. driver'.at = "decide" /\ driver'.lineage = l
    BY <1>1, <1>4, GoesSays, SmoothPreSays
  <2>8. life'.candidate = l /\ Awaited(l)'
    BY <2>1, <2>2, <2>4, <2>5, <2>6 DEF Awaited
  <2>9. life'.candidate = driver'.lineage /\ Awaited(driver.lineage)'
    BY <2>7, <2>8
  <2> QED BY <2>7, <2>9 DEF OnCourse, Unborn, Making
<1>5. CASE /\ ~(Loads(Needed(l)) /\ Rebuilds(l) /\ Life!Valid(life, Life!Created(l)))
           /\ life' = life /\ Goes("recover")
  <2>1. ASSUME l.accepted PROVE l.behavior \in life.behaviors
    <3>1. Rebuilds(l)
      <4>1. AsAsked(l.plan)
        BY <1>3 DEF InHand
      <4> QED BY <1>3, <2>1, <4>1, DerivableRebuilds DEF Made
    <3>2. Loads(Needed(l))
      <4>1. Loads(Spent(l.usage)) /\ Loads(Spent(TrainingUsage))
        BY <1>3 DEF Made, ReservedNow
      <4> QED BY <1>3, <4>1 DEF Made, Needed, Loads
    <3>3. ~Life!Valid(life, Life!Created(l))
      BY <1>5, <3>1, <3>2
    <3>4. ~Life!ValidCreated(life, Life!Created(l))
      BY <3>3 DEF Life!Valid, Life!Created, Life!LifecycleEvent
    <3>5. Life!InSequence(life, l) /\ life.pendingCandidate = l.usage
      BY <1>3 DEF Made, ReservedNow, Life!InSequence
    <3>6. Life!Created(l).lineage = l
      BY DEF Life!Created, Life!LifecycleEvent
    <3> QED BY <1>3, <3>4, <3>5, <3>6 DEF Life!ValidCreated, ReservedNow
  <2> QED BY <1>1, <1>5, <2>1, GivesUpOnCourse, SmoothPreSays
<1> QED BY <1>2, <1>4, <1>5

LEMMA DecideOnCourse ==
  ASSUME SmoothPre, Decide
  PROVE  OnCourse'
<1>1. PICK l : l = driver.lineage
  OBVIOUS
<1>2. /\ driver.at = "decide"
      /\ LET e == IF l.accepted THEN Life!Approved(l) ELSE Life!Rejected(l) IN
           IF Life!Valid(life, e)
           THEN life' = Life!After(life, e) /\ Goes(IF l.accepted THEN "activate" ELSE "recover")
           ELSE life' = life /\ Goes("recover")
  BY <1>1 DEF Decide, At, Appends
<1>3. life.candidate = l /\ Awaited(l)
  BY <1>1, <1>2, SmoothPreSays DEF OnCourse
<1>4. CASE ~l.accepted
  <2>1. Goes("recover")
    BY <1>2, <1>4
  <2> QED BY <1>1, <1>4, <2>1, GivesUpOnCourse, SmoothPreSays
<1>5. CASE l.accepted
  <2>1. Life!Valid(life, Life!Approved(l))
    BY <1>3, <1>5 DEF Life!Valid, Life!ValidApproved, Life!Approved, Life!LifecycleEvent
  <2>2. PICK t : t = life'
    OBVIOUS
  <2>3. t = Life!After(life, Life!Approved(l)) /\ Goes("activate") /\ LifeShape(life)
    BY <1>2, <1>5, <2>1, <2>2, SmoothPreSays
  <2>4. SameBut(t, life, {"candidate", "approved"}) /\ t.approved = l
    BY <2>3, AfterApproved
  <2>5. t.count = life.count /\ t.last = life.last /\ t.behaviors = life.behaviors
    BY <2>3, SequenceKept
  <2>6. t.active = Parent /\ l.behavior \notin t.behaviors /\ Life!InSequence(t, l)
    BY <1>3, <2>4, <2>5 DEF SameBut, Awaited, Life!InSequence
  <2>7. driver'.at = "activate" /\ driver'.lineage = l
    BY <1>1, <2>3, GoesSays, SmoothPreSays
  <2>8. life'.approved = l /\ Awaited(l)'
    BY <2>2, <2>4, <2>6 DEF Awaited
  <2>9. life'.approved = driver'.lineage /\ Awaited(driver.lineage)' /\ driver'.lineage.accepted
    BY <1>5, <2>7, <2>8
  <2> QED BY <2>7, <2>9 DEF OnCourse, Unborn, Making
<1> QED BY <1>4, <1>5

LEMMA ActivateOnCourse ==
  ASSUME SmoothPre, Activate
  PROVE  OnCourse'
<1>1. PICK l : l = driver.lineage
  OBVIOUS
<1>2. /\ driver.at = "activate"
      /\ IF Life!Valid(life, Life!Activated(l)) THEN Goes("attest") \/ Ends("served") ELSE Goes("recover")
  BY <1>1 DEF Activate, At
<1>3. life.approved = l /\ l.accepted /\ Awaited(l)
  BY <1>1, <1>2, SmoothPreSays DEF OnCourse
<1>4. Life!Valid(life, Life!Activated(l))
  BY <1>3 DEF Awaited, Life!Valid, Life!ValidActivated, Life!Activated, Life!LifecycleEvent
<1>5. driver'.at \in {"attest", "idle"}
  BY <1>2, <1>4, GoesSays, EndsSays, SmoothPreSays
<1> QED BY <1>5, QuietOnCourse DEF Unborn, Making

\* The other steps end the episode, or are of one that has ended.
LEMMA EndingOnCourse ==
  ASSUME SmoothPre, Attest \/ Recover \/ Examine \/ Evaluate \/ Restore
  PROVE  OnCourse'
<1>1. \/ \E how \in {"served", "raised", "reopened", "refused"} : Ends(how)
      \/ Goes("restore")
      \/ \E u, c : driver' = [driver EXCEPT !.at = "evaluate", !.usage = u, !.live = c]
  BY DEF Attest, Recover, Examine, Evaluate, Restore
<1>2. driver'.at \in {"idle", "restore", "evaluate"}
  BY <1>1, GoesSays, EndsSays, SmoothPreSays DEF DriverShape
<1> QED BY <1>2, QuietOnCourse DEF Unborn, Making

LEMMA StutterOnCourse ==
  ASSUME OnCourse, UNCHANGED episodeVars
  PROVE  OnCourse'
<1>1. /\ parent' = parent /\ objects' = objects /\ life' = life /\ driver' = driver
      /\ session' = session /\ verdict' = verdict /\ answer' = answer
  BY DEF episodeVars, ownVars, collectiveVars
<1>2. PICK p, rows, l : p = driver.plan /\ rows = answer.rows /\ l = driver.lineage
  OBVIOUS
<1>3. SaysAll(driver.plan, answer.rows)' <=> SaysAll(driver.plan, answer.rows)
  <2>1. SaysAll(p, rows)' <=> SaysAll(p, rows)
    BY <1>1, MakingStays
  <2> QED BY <1>1, <1>2, <2>1
<1>4. ReservedNow => ReservedNow'
  BY <1>1, ReservedStays
<1>5. Made(driver.lineage) => Made(driver.lineage)'
  <2>1. Made(l) => Made(l)'
    BY <1>1, MadeStays
  <2> QED BY <1>1, <1>2, <2>1
<1>6. SessionOf(driver.plan)' = SessionOf(driver.plan)
  BY <1>1 DEF SessionOf
<1>7. Loads(Spent(TrainingUsage))' <=> Loads(Spent(TrainingUsage))
  BY <1>1 DEF TrainingUsage, Loads, Spent
<1>8. /\ Loads(Examined(driver.lineage))' <=> Loads(Examined(driver.lineage))
      /\ Loads(Lineage(driver.lineage))' <=> Loads(Lineage(driver.lineage))
      /\ Reaudits(driver.lineage)' <=> Reaudits(driver.lineage)
      /\ Awaited(driver.lineage)' <=> Awaited(driver.lineage)
  BY <1>1 DEF Loads, Examined, Lineage, Reaudits, Awaited
<1> QED BY <1>1, <1>3, <1>4, <1>5, <1>6, <1>7, <1>8 DEF OnCourse
-----------------------------------------------------------------------------
LEMMA EpisodeStartsOnCourse == EpisodeInit => SmoothInv
<1> SUFFICES ASSUME EpisodeInit PROVE SmoothInv
  OBVIOUS
<1>1. driver.at = "idle" /\ mishaps = 0
  BY DEF EpisodeInit, Idle
<1> QED BY <1>1 DEF SmoothInv, OnCourse, Unborn, Making

LEMMA EpisodeKeepsOnCourse == SettlePre /\ SmoothInv /\ [EpisodeNext]_episodeVars => SmoothInv'
<1> SUFFICES ASSUME SettlePre, SmoothInv, [EpisodeNext]_episodeVars PROVE SmoothInv'
  OBVIOUS
<1>1. CASE UNCHANGED episodeVars
  <2>1. mishaps' = mishaps
    BY <1>1 DEF episodeVars, ownVars
  <2> QED BY <1>1, <2>1, StutterOnCourse DEF SmoothInv
<1>2. CASE Crash \/ Fail \/ Meddle
  <2>1. mishaps' = mishaps + 1
    BY <1>2 DEF Crash, Fail, Meddle, Mishap
  <2>2. mishaps \in Nat
    BY DEF SmoothInv
  <2>3. mishaps' \in Nat /\ mishaps' # 0
    BY <2>1, <2>2
  <2> QED BY <2>3 DEF SmoothInv
<1>3. CASE EpisodeNext /\ ~(Crash \/ Fail \/ Meddle)
  <2>1. mishaps' = mishaps
    BY <1>3 DEF EpisodeNext, Begin, PublishParent, Construct, Register, Reserve, Consult, Collecting,
           Collected, Build, Audit, Record, Decide, Activate, Attest, Recover, Examine, Evaluate,
           Restore, Elsewhere, ownVars
  <2>2. ASSUME OnCourse PROVE OnCourse'
    <3>1. SmoothPre
      BY <2>2 DEF SmoothPre
    <3> QED BY <1>3, <3>1, BeginOnCourse, PreparationOnCourse, ReserveOnCourse, ConsultOnCourse,
               CollectingOnCourse, CollectedOnCourse, BuildOnCourse, AuditOnCourse, RecordOnCourse,
               DecideOnCourse, ActivateOnCourse, EndingOnCourse
            DEF EpisodeNext
  <2> QED BY <2>1, <2>2 DEF SmoothInv
<1> QED BY <1>1, <1>2, <1>3

LEMMA SmoothSettles == SettlePre /\ SmoothInv => EpisodesSettle
<1> SUFFICES ASSUME SettlePre, SmoothInv PROVE EpisodesSettle
  OBVIOUS
<1>1. SettleInv
  BY DEF SettlePre
<1>2. At("idle") /\ driver.outcome \in {"raised", "served", "reopened", "refused"} => Life!Terminal(life)
  BY <1>1 DEF SettleInv, Ended, At
<1>3. At("idle") /\ driver.outcome = "served" =>
        life.activated = driver.lineage /\ life.active = Life!Child(driver.lineage)
  BY <1>1 DEF SettleInv, Ended, Serving, At
<1>4. At("recover") /\ driver.lineage # NoLineage /\ mishaps = 0 =>
        ~driver.lineage.accepted \/ driver.lineage.behavior \in life.behaviors
  BY DEF SmoothInv, OnCourse, At
<1> QED BY <1>2, <1>3, <1>4 DEF EpisodesSettle

\* The invariant of an episode that nothing happens to: what it has built, its
\* replay derives again.
THEOREM SmoothInvariant == EpisodeSpec => [](SettlePre /\ SmoothInv)
<1>1. EpisodeInit => SettlePre /\ SmoothInv
  BY EpisodeStarts, EpisodeStartsSettled, EpisodeStartsOnCourse DEF SettlePre
<1>2. SettlePre /\ SmoothInv /\ [EpisodeNext]_episodeVars => (SettlePre /\ SmoothInv)'
  BY EpisodeKeeps, EpisodeKeepsSettled, EpisodeKeepsOnCourse DEF SettlePre
<1> QED BY <1>1, <1>2, PTL DEF EpisodeSpec

\* Whatever fails on the way, a call that has ended leaves nothing in progress,
\* and its result names the child that is active; and when nothing fails, an
\* episode that came to a child records it, and raises only over one that the
\* audit turned down or that has been active before: the replay of
\* ModelGenerationController._validate_threshold_lineage_graph never refuses
\* what extend and contract have built.
THEOREM EpisodesStaySettled == EpisodeSpec => []EpisodesSettle
BY SmoothInvariant, SmoothSettles, PTL
==============================================================================
