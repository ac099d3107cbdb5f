---------------------------- MODULE TsetlinMachine ----------------------------
(***************************************************************************)
(* The scalar binary Tsetlin machine, the reference of the numeric code,   *)
(* and the packed artifact that is exported from it.                       *)
(*                                                                         *)
(* A machine is a snapshot: for each clause and feature the states of two  *)
(* automata, of the feature and of its negation, in 1 .. 2 * depth, and    *)
(* the place of its random generator.  A row is a sequence of Booleans.    *)
(* Clauses are numbered from 1, so the odd ones vote for.                  *)
(*                                                                         *)
(* Bound: the generator goes round Tape; a draw is a number of Scale-ths.  *)
(***************************************************************************)
EXTENDS Integers, Sequences, FiniteSets

CONSTANTS Tape, Scale

TapeFits == Scale \in Nat \ {0} /\ Tape \in Seq(0 .. (Scale - 1)) /\ Tape # <<>>

Draw(rng) == Tape[(rng % Len(Tape)) + 1]
Drawn(rng, n) == (rng + n) % Len(Tape)

Pair(pos, neg) == [pos |-> pos, neg |-> neg]
Width(m) == Len(m.states[1])
ClausesOf(m) == DOMAIN m.states
FeaturesOf(m) == DOMAIN m.states[1]

\* TMSnapshot as restore() and _check_snapshot_states accept it.
Machines(clauses, features, depth, specificity, margin) ==
  [depth : {depth}, specificity : {specificity}, margin : {margin},
   states : [1 .. clauses -> [1 .. features -> [pos : 1 .. (2 * depth), neg : 1 .. (2 * depth)]]],
   rng : 0 .. (Len(Tape) - 1)]

\* The constructor: every automaton on one side of the boundary or the other.
NewMachine(clauses, features, depth, specificity, margin, seed) ==
  LET side(k) == depth + (2 * Draw(seed + k)) \div Scale IN
    [depth |-> depth, specificity |-> specificity, margin |-> margin,
     states |-> [c \in 1 .. clauses |-> [f \in 1 .. features |->
                   LET k == 2 * features * (c - 1) + 2 * (f - 1) IN Pair(side(k), side(k + 1))]],
     rng |-> Drawn(seed, 2 * features * clauses)]
-----------------------------------------------------------------------------
\* action_include and clause_output: an empty clause is false in prediction.
Includes(m, c, f)  == m.states[c][f].pos > m.depth
Excludes(m, c, f)  == m.states[c][f].neg > m.depth
EmptyClause(m, c)  == \A f \in FeaturesOf(m) : ~Includes(m, c, f) /\ ~Excludes(m, c, f)
Agrees(m, c, row)  ==
  \A f \in FeaturesOf(m) : (Includes(m, c, f) => row[f]) /\ (Excludes(m, c, f) => ~row[f])
ClauseOutput(m, c, row) == ~EmptyClause(m, c) /\ Agrees(m, c, row)

Polarity(c) == IF c % 2 = 1 THEN 1 ELSE -1

Clamp(margin, n) == IF n > margin THEN margin ELSE IF n < -margin THEN -margin ELSE n

\* The votes of the clauses that are on.
Tally(margin, on) ==
  Clamp(margin, Cardinality({c \in on : Polarity(c) = 1}) - Cardinality({c \in on : Polarity(c) = -1}))

Score(m, row)   == Tally(m.margin, {c \in ClausesOf(m) : ClauseOutput(m, c, row)})
Predict(m, row) == IF Score(m, row) > 0 THEN 1 ELSE 0
-----------------------------------------------------------------------------
\* Learning.  Each of these may be met by a draw u = d / Scale.
Raised(m, n)  == IF n < 2 * m.depth THEN n + 1 ELSE n
Lowered(m, n) == IF n > 1 THEN n - 1 ELSE n
Rewards(m, d)   == d * m.specificity <= (m.specificity - 1) * Scale
Penalizes(m, d) == d * m.specificity <= Scale

\* Type I: a draw for every literal, in order.
Reinforced(m, n, seen, d) ==
  IF seen THEN (IF Rewards(m, d) THEN Raised(m, n) ELSE n)
  ELSE IF Penalizes(m, d) THEN Lowered(m, n) ELSE n

TypeI(m, c, row, output) ==
  [f \in FeaturesOf(m) |->
     Pair(Reinforced(m, m.states[c][f].pos, output /\ row[f], Draw(m.rng + 2 * f - 2)),
          Reinforced(m, m.states[c][f].neg, output /\ ~row[f], Draw(m.rng + 2 * f - 1)))]

\* Type II: an excluded literal that is false is brought nearer; no draw.
Discouraged(m, n, seen) == IF ~seen /\ n <= m.depth THEN Raised(m, n) ELSE n
TypeII(m, c, row, output) ==
  IF output
  THEN [f \in FeaturesOf(m) |-> Pair(Discouraged(m, m.states[c][f].pos, row[f]),
                                     Discouraged(m, m.states[c][f].neg, ~row[f]))]
  ELSE m.states[c]

\* The feedback of one clause.  The score is that of the whole machine before
\* any of its clauses has learnt from the example.
Gate(m, c, target, score, d) ==
  2 * m.margin * d <= Scale * (m.margin + (1 - 2 * target) * Polarity(c) * score)

Feedback(m, c, row, target, score) ==
  LET gated  == [m EXCEPT !.rng = Drawn(@, 1)]
      output == Agrees(m, c, row)      \* an empty clause learns as a true one
  IN IF ~Gate(m, c, target, score, Draw(m.rng)) THEN gated
     ELSE IF (target = 1) = (Polarity(c) = 1)
     THEN [gated EXCEPT !.states[c] = TypeI(gated, c, row, output),
                        !.rng = Drawn(@, 2 * Width(m))]
     ELSE [gated EXCEPT !.states[c] = TypeII(gated, c, row, output)]

\* The clauses learn in order; then the examples, and the epochs.
Update(m, row, target) ==
  LET after[c \in 0 .. Len(m.states)] ==
        IF c = 0 THEN m ELSE Feedback(after[c - 1], c, row, target, Score(m, row))
  IN after[Len(m.states)]

\* rows: pairs of a row and its target.
FitOnce(m, rows) ==
  LET after[i \in 0 .. Len(rows)] ==
        IF i = 0 THEN m ELSE Update(after[i - 1], rows[i].row, rows[i].target)
  IN after[Len(rows)]
Fit(m, rows, epochs) ==
  LET after[i \in 0 .. epochs] == IF i = 0 THEN m ELSE FitOnce(after[i - 1], rows)
  IN after[epochs]
-----------------------------------------------------------------------------
\* extend_snapshot_features: the new automata exclude, at the boundary.
Extend(m) ==
  [m EXCEPT !.states = [c \in ClausesOf(m) |-> Append(m.states[c], Pair(m.depth, m.depth))]]

\* contract_snapshot_equivalent_feature: the survivor keeps the stronger.
Stronger(x, y) ==
  Pair(IF x.pos > y.pos THEN x.pos ELSE y.pos, IF x.neg > y.neg THEN x.neg ELSE y.neg)

Without(seq, r) == [i \in 1 .. (Len(seq) - 1) |-> IF i < r THEN seq[i] ELSE seq[i + 1]]

Contract(m, k, r) ==
  [m EXCEPT !.states = [c \in ClausesOf(m) |->
     Without([m.states[c] EXCEPT ![k] = Stronger(@, m.states[c][r])], r)]]
-----------------------------------------------------------------------------
\* export_packed_tm: the masks of included literals, and what evaluates them.
Export(m) ==
  [margin |-> m.margin,
   positive |-> [c \in ClausesOf(m) |-> {f \in FeaturesOf(m) : Includes(m, c, f)}],
   negative |-> [c \in ClausesOf(m) |-> {f \in FeaturesOf(m) : Excludes(m, c, f)}]]

\* _evaluate_masks, for one lane.
MaskOutput(a, c, row) ==
  /\ a.positive[c] \union a.negative[c] # {}
  /\ \A f \in a.positive[c] : row[f]
  /\ \A f \in a.negative[c] : ~row[f]
MaskScore(a, row) == Tally(a.margin, {c \in DOMAIN a.positive : MaskOutput(a, c, row)})
================================================================================
