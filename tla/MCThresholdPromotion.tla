------------------------- MODULE MCThresholdPromotion -------------------------
(***************************************************************************)
(* The clients of the collective, one in each behavior.                    *)
(*                                                                         *)
(* The promotion of a threshold is asked about sessions of three kinds, as *)
(* the add_ methods build them: up to three labelled examples with an      *)
(* integer or a float and a text; two examples with the truths of three    *)
(* literals, or of two clauses and their literals; and a clause with       *)
(* scores for classes.                                                     *)
(*                                                                         *)
(* The episode has a parent that a threshold can mend, by one of the two   *)
(* it is proposed, and one with a literal too many.                        *)
(***************************************************************************)
EXTENDS ThresholdPromotion, GenerationEpisode, TLC

VARIABLE client

Integer(n)   == [kind |-> "int", num |-> 2 * n]
Float(n) == [kind |-> "float", num |-> n]      \* in halves
Text     == [kind |-> "text", num |-> 0]

MCExamples == 1..3
MCFields   == {"size", "name"}
MCNumbers  == {Integer(1), Integer(2), Integer(3), Float(4)}
MCValues   == MCNumbers \union {Text}
MCLiterals == 1..3
MCClauses  == 1..2
MCClasses  == {7, 8}
MCScores   == {-3, 1, 9}
MCWeights  == {-2, -1, 0, 1, 4, 5}
MCSums     == 4..12

\* The third observation of each session is of an example like the second.
Rank(p) == p[1].num * 4 + p[2] * 2 + (IF p[1].kind = "int" THEN 1 ELSE 0)
Measured ==
  {[EmptySession EXCEPT
      !.observations =
         [i \in 1..3 |-> Observation(i, "size", p[i][1])] \o << Observation(1, "name", Text) >>,
      !.example_labels = [i \in 1..3 |-> Label(i, p[i][2])],
      !.example_domains = 1..3] :
     p \in {p \in [1..3 -> MCNumbers \X Bits] : Rank(p[1]) <= Rank(p[2]) /\ Rank(p[2]) <= Rank(p[3])}}

TruthList(n, t) ==
  [i \in 1..(2 * n) |-> Truth(((i + 1) \div 2), ((i + 1) % 2) + 1, t[i])]

Literally ==
  {[EmptySession EXCEPT
      !.literal_truths = TruthList(3, t), !.example_domains = 1..2] : t \in [1..6 -> Bits]}
Clausal ==
  {[EmptySession EXCEPT
      !.clause_truths = TruthList(2, t), !.example_domains = 1..2,
      !.clause_literals = << Member(1, 1) >> \o more] :
     t \in [1..4 -> Bits],
     more \in {<< >>, << Member(2, 1) >>, << Member(2, 1), Member(2, 2) >>}}
Scored ==
  {[EmptySession EXCEPT
      !.class_supports = s,
      !.clause_class_scores = << Score(1, 7, m), Score(1, k, n) >>] :
     s \in {<< >>, << 7 >>, << 7, 8 >>}, k \in MCClasses, m \in MCScores, n \in MCScores}

MCSessions == Measured \union Literally \union Clausal \union Scored

Everything ==
  [all |-> TRUE, fields |-> {}, thresholds |-> TRUE, intervals |-> TRUE,
   deescalation |-> TRUE, escalation |-> TRUE, results |-> 2, consumer |-> "none"]
ForThresholds ==
  [Everything EXCEPT !.all = FALSE, !.fields = {"size"}, !.intervals = FALSE,
                     !.deescalation = FALSE, !.consumer = "thresholds"]
ForOneThreshold == [ForThresholds EXCEPT !.results = 1]
ForRedundancies ==
  [Everything EXCEPT !.all = FALSE, !.thresholds = FALSE, !.intervals = FALSE,
                     !.escalation = FALSE, !.results = 3, !.consumer = "redundancies"]
ForIntervals ==
  [Everything EXCEPT !.thresholds = FALSE, !.deescalation = FALSE, !.escalation = FALSE]
OfNames == [Everything EXCEPT !.all = FALSE, !.fields = {"name"}]
MCQueries == {Everything, ForThresholds, ForOneThreshold, ForRedundancies, ForIntervals, OfNames}

MCBudget ==
  [observations |-> 5, examples |-> 3, literals |-> 3, clauses |-> 2, classes |-> 2,
   facts |-> 11, pairs |-> 6]

MCCatalogs == {"sizes", "names"}
MCSchemas  == [c \in MCCatalogs |-> IF c = "sizes" THEN {"size"} ELSE {}]
MCAdditions == {"observations", "example_labels", "literal_truths", "clause_class_scores"}
-----------------------------------------------------------------------------
\* Behaviors of machines of two clauses.
Literal(at) == [field |-> "size", at |-> at]
MCIdOf ==
  [l \in {Literal(at) : at \in MCSums} |->
     CASE l.at = 6 -> 1 [] l.at = 10 -> 2 [] l.at = 8 -> 3 [] OTHER -> l.at]

Corpus(first, list) ==
  [i \in DOMAIN list |-> [id |-> first + i - 1, num |-> list[i][1], label |-> list[i][2]]]

MCTape == << 3, 0, 2, 1, 3 >>
Two(states) == [depth |-> 2, specificity |-> 2, margin |-> 2, rng |-> 2, states |-> states]
Coarse ==
  [machine  |-> Two(<< << TM!Pair(3, 1) >>, << TM!Pair(1, 3) >> >>),
   manifest |-> << Literal(8) >>,
   training |-> Corpus(1, << <<2, 0>>, <<4, 1>> >>)]
Fine ==
  [machine  |-> Two(<< << TM!Pair(1, 2), TM!Pair(4, 1), TM!Pair(2, 1) >>,
                       << TM!Pair(1, 1), TM!Pair(1, 3), TM!Pair(2, 2) >> >>),
   manifest |-> << Literal(8), Literal(6), Literal(10) >>,
   training |-> Corpus(1, << <<2, 0>>, <<4, 1>> >>)]
MCParents == {Coarse, Fine}

\* Three examples of each label pattern; the second plan's holdout has one
\* that a mended child spoils, and the fourth asks for more than its holdout.
Middle == << <<2, 0>>, <<4, 1>>, <<6, 0>> >>
Grow(first, invention, holdout, strict, minimum) ==
  [kind |-> "grow", first |-> Corpus(first, invention), second |-> Corpus(first + 3, Middle),
   holdout |-> Corpus(first + 6, holdout), epochs |-> 1,
   selection |-> [minimum |-> 1, strict |-> strict], minimum |-> minimum]
Single(first, invention, minimum) ==
  [Grow(first, invention, << <<6, 0>>, <<4, 1>> >>, TRUE, minimum) EXCEPT !.kind = "single"]
Shrink(first, proof, confirmation, holdout) ==
  [kind |-> "shrink", first |-> Corpus(first, proof), second |-> Corpus(first + 3, confirmation),
   holdout |-> Corpus(first + 6, holdout), epochs |-> 0,
   selection |-> [minimum |-> 1, strict |-> FALSE], minimum |-> 2]
MCPlans ==
  {Grow(11, Middle, << <<6, 0>>, <<4, 1>> >>, FALSE, 2),
   Grow(21, Middle, << <<6, 0>>, <<6, 0>>, <<5, 1>> >>, TRUE, 2),
   Single(11, << <<2, 0>>, <<4, 1>> >>, 2),
   Single(31, << <<2, 0>>, <<4, 1>> >>, 3),
   Single(2, Middle, 2),
   Shrink(41, << <<2, 0>>, <<4, 1>> >>, << <<6, 1>> >>, << <<2, 0>>, <<4, 1>> >>),
   Shrink(41, << <<2, 0>>, <<4, 1>> >>, << <<3, 1>> >>, << <<2, 0>>, <<4, 1>> >>),
   Shrink(51, << <<2, 0>>, <<6, 1>> >>, << <<6, 1>> >>, << <<3, 1>>, <<2, 0>> >>)}
MCQueryOf == [grow |-> ForThresholds, single |-> ForOneThreshold, shrink |-> ForRedundancies]

MCLive  == {Corpus(61, << <<5, 1>>, <<2, 0>> >>), Corpus(71, << <<3, 1>>, <<2, 0>> >>)}
MCDrift == [observations |-> 2, increase |-> 1, regressions |-> 1, rate |-> 50, each |-> 1]
-----------------------------------------------------------------------------
\* A session of numbers is not asked for relations, nor another for thresholds;
\* one with the integer 2, which the float 2.0 equals, is not asked for all; one
\* with the float is not asked for intervals alone, and one with different numbers
\* is not asked for names.
Concerning(s) ==
  LET size(i)   == s.observations[i].value
      without(n) == \A i \in 1..3 : size(i) # n
  IN IF s.observations = << >> THEN {Everything, ForRedundancies}
     ELSE {ForThresholds} \union
          (IF without(Integer(2)) THEN {Everything} ELSE {}) \union
          (IF without(Float(4)) THEN {ForIntervals} ELSE {}) \union
          (IF size(1) = size(3) THEN {OfNames} ELSE {})

MCInit ==
  \/ /\ client = "promotion" /\ Init
     /\ query \in Concerning(session)
     /\ parent = (CHOOSE p \in Parents : TRUE)
     /\ life = Life!Blank /\ objects = {} /\ driver = Idle /\ episodes = 0 /\ mishaps = 0
  \/ /\ client = "episode" /\ EpisodeInit
     /\ added = 0 /\ literals = [c \in Catalogs |-> {}]
     /\ reviewed = None /\ materialized = None /\ artifact = None

MCNext ==
  \/ client = "promotion" /\ Next /\ UNCHANGED <<client, ownVars>>
  \/ client = "episode" /\ EpisodeNext /\ UNCHANGED <<client, added, promotionVars>>

MCSpec == MCInit /\ [][MCNext]_<<vars, ownVars, client>>
================================================================================
