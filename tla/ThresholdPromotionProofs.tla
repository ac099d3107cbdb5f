---------------------- MODULE ThresholdPromotionProofs -----------------------
(***************************************************************************)
(* What the collective answers is so, and all there is where it says so;   *)
(* and an artifact is earned: for every set of sessions, queries, budgets  *)
(* and catalogs, however many prints have a line or a count altered and    *)
(* facts are added between the steps.                                      *)
(*                                                                         *)
(* None of these is inductive.  An answer is true because a run that waits *)
(* for its child is of an admitted session, which alone makes the checks   *)
(* of its rows enough: CollectiveInv carries that.  An artifact takes over *)
(* what its clause says of its review, and the clause what the review      *)
(* found: PromotionInv carries both, and that catalogs only grow.  That    *)
(* what is proposed passes its review needs, of an honest child, where     *)
(* each proposal comes from: ProposalInv.                                  *)
(*                                                                         *)
(* That an answer is whole needs that it is about the session that was     *)
(* admitted: a fact makes a list longer, so that a session which has grown *)
(* is never that of the answer again (OldAnswer in WholeInv).  The rest is *)
(* about the derivation.  Where the numbers of a field are of one Python   *)
(* type, its terms are ordered as their numbers, and what the child        *)
(* derives is what the session bears out (DerivedIsBornOut): a flip of the *)
(* terms is a turn of the labels, an interval a maximal run of positives   *)
(* between two turns.  The oracles sort samples of one label each;         *)
(* neighbours among them at a turn are the same turn (TurnIsAdjacent,      *)
(* AdjacentIsTurn), and an oracle that ranks its candidates drops none,    *)
(* since there are no more of them than facts (AllAreForemost).            *)
(***************************************************************************)
EXTENDS ThresholdPromotion, FiniteSetTheorems, WellFoundedInduction, TLAPS

\* The image of a finite set is finite.
LEMMA ImageIsFinite ==
  ASSUME NEW S, IsFiniteSet(S), NEW f, DOMAIN f = S, f = [x \in S |-> f[x]]
  PROVE  IsFiniteSet({f[x] : x \in S})
<1> DEFINE T == {f[x] : x \in S}
<1>1. f \in [S -> T]
  OBVIOUS
<1>2. f \in Surjection(S, T)
  BY <1>1 DEF Surjection
<1> HIDE DEF T
<1>3. IsFiniteSet(T)
  BY <1>2, FS_Surjection
<1> QED BY <1>3 DEF T

\* A session has finitely many facts in a list.
LEMMA FactsAreFinite ==
  ASSUME NEW s \in SessionType, NEW list \in Lists
  PROVE  IsFiniteSet(FactsOf(s, list))
<1>1. s[list] = [i \in DOMAIN s[list] |-> s[list][i]]
      /\ DOMAIN s[list] = 1..Len(s[list]) /\ Len(s[list]) \in Nat
  BY DEF SessionType, Lists, EmptySession
<1>2. IsFiniteSet(1..Len(s[list]))
  BY <1>1, FS_Interval
<1> QED BY <1>1, <1>2, ImageIsFinite DEF FactsOf

\* The facts of a session are of the types of its lists.
LEMMA FactTypes ==
  ASSUME NEW s \in SessionType
  PROVE  /\ FactsOf(s, "observations") \subseteq [example : Examples, field : Fields, value : Values]
         /\ FactsOf(s, "example_labels") \subseteq [example : Examples, label : Bits]
         /\ FactsOf(s, "literal_truths") \subseteq [of : Literals, example : Examples, truth : Bits]
         /\ FactsOf(s, "clause_truths") \subseteq [of : Clauses, example : Examples, truth : Bits]
         /\ FactsOf(s, "clause_literals") \subseteq [clause : Clauses, literal : Literals]
         /\ FactsOf(s, "class_supports") \subseteq Classes
         /\ FactsOf(s, "clause_class_scores") \subseteq [clause : Clauses, class : Classes, score : Scores]
<1>1. ASSUME NEW T, NEW list, s[list] \in Seq(T) PROVE FactsOf(s, list) \subseteq T
  BY <1>1 DEF FactsOf
<1> QED BY <1>1 DEF SessionType

\* The labelled values of a field are finitely many observed ones.
LEMMA TermsAreFinite ==
  ASSUME NEW s \in SessionType, NEW f
  PROVE  IsFiniteSet(Terms(s, f)) /\ Terms(s, f) \subseteq Values
<1> DEFINE facts  == FactsOf(s, "observations")
           value  == [o \in facts |-> o.value]
           values == {value[o] : o \in facts}
<1>1. IsFiniteSet(facts)
  BY FactsAreFinite DEF Lists, EmptySession
<1>2. IsFiniteSet(values)
  BY <1>1, ImageIsFinite
<1>3. Terms(s, f) \subseteq values
  <2> SUFFICES ASSUME NEW v \in Terms(s, f) PROVE v \in values
    OBVIOUS
  <2>1. PICK e \in Labelled(s) : v \in ValuesOf(s, e, f)
    BY DEF Terms
  <2>2. Observation(e, f, v) \in facts
    BY <2>1 DEF ValuesOf
  <2> QED BY <2>2 DEF Observation
<1>4. Terms(s, f) \subseteq Values
  BY DEF Terms, ValuesOf
<1> HIDE DEF values
<1> QED BY <1>2, <1>3, <1>4, FS_Subset

\* A field has finitely many flips (adjacent_flip).
LEMMA FlipsAreFinite ==
  ASSUME NEW s \in SessionType, NEW f
  PROVE  IsFiniteSet(Flips(s, f))
<1> DEFINE terms == Terms(s, f)
           ends  == {p \in terms \X terms :
                       /\ Follows(terms, p[1], p[2])
                       /\ {StateOf(s, f, p[1]), StateOf(s, f, p[2])} = {{0}, {1}}}
           mid   == [p \in ends |-> Mid(p[1], p[2])]
<1>1. IsFiniteSet(terms \X terms)
  BY TermsAreFinite, FS_Product
<1>2. IsFiniteSet(ends)
  BY <1>1, FS_Subset
<1>3. Flips(s, f) = {mid[p] : p \in ends}
  BY DEF Flips
<1>4. DOMAIN mid = ends /\ mid = [p \in ends |-> mid[p]]
  OBVIOUS
<1> HIDE DEF ends, mid
<1> QED BY <1>2, <1>3, <1>4, ImageIsFinite

\* A field has finitely many positive intervals (positive_run).
LEMMA IntervalsAreFinite ==
  ASSUME NEW s \in SessionType, NEW f
  PROVE  IsFiniteSet(Intervals(s, f))
<1> DEFINE terms == Terms(s, f)
           runs  == Runs(s, f)
           interval == [r \in runs |-> [lo |-> Mid(r[1][1], r[1][2]), hi |-> Mid(r[2][1], r[2][2])]]
<1>1. IsFiniteSet((terms \X terms) \X (terms \X terms))
  BY TermsAreFinite, FS_Product
<1>2. runs \subseteq (terms \X terms) \X (terms \X terms)
  BY DEF Runs, Edges
<1>3. IsFiniteSet(runs)
  BY <1>1, <1>2, FS_Subset
<1>4. Intervals(s, f) = {interval[r] : r \in runs}
  BY DEF Intervals
<1>5. DOMAIN interval = runs /\ interval = [r \in runs |-> interval[r]]
  OBVIOUS
<1> HIDE DEF runs, interval
<1> QED BY <1>3, <1>4, <1>5, ImageIsFinite

\* Finitely many rows for each of finitely many fields are finitely many.
LEMMA RowsByFieldAreFinite ==
  ASSUME NEW fields, IsFiniteSet(fields), NEW rows, DOMAIN rows = fields,
         rows = [f \in fields |-> rows[f]], \A f \in fields : IsFiniteSet(rows[f])
  PROVE  IsFiniteSet(UNION {rows[f] : f \in fields})
<1> DEFINE T == {rows[f] : f \in fields}
<1>1. IsFiniteSet(T)
  BY ImageIsFinite
<1>2. \A r \in T : IsFiniteSet(r)
  OBVIOUS
<1> HIDE DEF T
<1>3. IsFiniteSet(UNION T)
  BY <1>1, <1>2, FS_UNION
<1> QED BY <1>3 DEF T

\* There are finitely many rows of a threshold product.
LEMMA ThresholdRowsAreFinite ==
  ASSUME NEW s \in SessionType, NEW product, NEW fields, IsFiniteSet(fields)
  PROVE  IsFiniteSet(ThresholdRows(s, product, fields))
<1> DEFINE row(f) == [at \in Flips(s, f) |-> ThresholdRow(product, f, at)]
           rows   == [f \in fields |-> {row(f)[at] : at \in Flips(s, f)}]
<1>1. ASSUME NEW f \in fields PROVE IsFiniteSet(rows[f])
  <2>1. IsFiniteSet(Flips(s, f))
    BY FlipsAreFinite
  <2>2. rows[f] = {row(f)[at] : at \in Flips(s, f)}
    OBVIOUS
  <2>3. DOMAIN row(f) = Flips(s, f) /\ row(f) = [at \in Flips(s, f) |-> row(f)[at]]
    OBVIOUS
  <2> HIDE DEF row, rows
  <2> QED BY <2>1, <2>2, <2>3, ImageIsFinite
<1>2. ThresholdRows(s, product, fields) = UNION {rows[f] : f \in fields}
  BY DEF ThresholdRows
<1> HIDE DEF rows
<1>3. rows = [f \in fields |-> rows[f]] /\ DOMAIN rows = fields
  BY DEF rows
<1> QED BY <1>1, <1>2, <1>3, RowsByFieldAreFinite

\* There are finitely many rows of intervals.
LEMMA IntervalRowsAreFinite ==
  ASSUME NEW s \in SessionType, NEW fields, IsFiniteSet(fields)
  PROVE  IsFiniteSet(IntervalRows(s, fields))
<1> DEFINE row(f) == [i \in Intervals(s, f) |-> IntervalRow(f, i.lo, i.hi)]
           rows   == [f \in fields |-> {row(f)[i] : i \in Intervals(s, f)}]
<1>1. ASSUME NEW f \in fields PROVE IsFiniteSet(rows[f])
  <2>1. IsFiniteSet(Intervals(s, f))
    BY IntervalsAreFinite
  <2>2. rows[f] = {row(f)[i] : i \in Intervals(s, f)}
    OBVIOUS
  <2>3. DOMAIN row(f) = Intervals(s, f) /\ row(f) = [i \in Intervals(s, f) |-> row(f)[i]]
    OBVIOUS
  <2> HIDE DEF row, rows
  <2> QED BY <2>1, <2>2, <2>3, ImageIsFinite
<1>2. IntervalRows(s, fields) = UNION {rows[f] : f \in fields}
  BY DEF IntervalRows
<1> HIDE DEF rows
<1>3. rows = [f \in fields |-> rows[f]] /\ DOMAIN rows = fields
  BY DEF rows
<1> QED BY <1>1, <1>2, <1>3, RowsByFieldAreFinite

\* Finitely many literals, or clauses, have truths.
LEMMA SubjectsAreFinite ==
  ASSUME NEW s \in SessionType, NEW list \in {"literal_truths", "clause_truths"}
  PROVE  IsFiniteSet(SubjectsOf(s, list))
<1> DEFINE facts == FactsOf(s, list)
           of    == [t \in facts |-> t.of]
<1>1. IsFiniteSet(facts)
  BY FactsAreFinite DEF Lists, EmptySession
<1>2. SubjectsOf(s, list) = {of[t] : t \in facts}
  BY DEF SubjectsOf
<1>3. DOMAIN of = facts /\ of = [t \in facts |-> of[t]]
  OBVIOUS
<1> HIDE DEF facts, of
<1> QED BY <1>1, <1>2, <1>3, ImageIsFinite

\* There are finitely many rows of pairs of a finite set.
LEMMA PairRowsAreFinite ==
  ASSUME NEW product, NEW S, IsFiniteSet(S), NEW P, P \subseteq S \X S
  PROVE  IsFiniteSet({PairRow(product, p[1], p[2]) : p \in P})
<1> DEFINE row == [p \in P |-> PairRow(product, p[1], p[2])]
<1>1. IsFiniteSet(P)
  BY FS_Product, FS_Subset
<1>2. {PairRow(product, p[1], p[2]) : p \in P} = {row[p] : p \in P}
  OBVIOUS
<1>3. DOMAIN row = P /\ row = [p \in P |-> row[p]]
  OBVIOUS
<1> HIDE DEF row
<1>4. IsFiniteSet({row[p] : p \in P})
  BY <1>1, <1>3, ImageIsFinite
<1> QED BY <1>2, <1>4, Zenon

\* There are finitely many rows of weights.
LEMMA WeightRowsAreFinite ==
  ASSUME NEW s \in SessionType
  PROVE  IsFiniteSet(WeightRows(s))
<1> DEFINE facts  == FactsOf(s, "clause_class_scores")
           scored == {t \in facts : t.class \in Supported(s) /\ Weight(t.score) # 0}
           row    == [t \in scored |-> WeightRow(t.clause, t.class, Weight(t.score))]
<1>1. IsFiniteSet(scored)
  BY FactsAreFinite, FS_Subset DEF Lists, EmptySession
<1>2. WeightRows(s) = {row[t] : t \in scored}
  BY DEF WeightRows
<1>3. DOMAIN row = scored /\ row = [t \in scored |-> row[t]]
  OBVIOUS
<1> HIDE DEF scored, row
<1> QED BY <1>1, <1>2, <1>3, ImageIsFinite

\* The collective derives finitely many rows, each of one of its products.
LEMMA DerivedIsFinite ==
  ASSUME NEW s \in SessionType, NEW q, NEW fields, IsFiniteSet(fields)
  PROVE  IsFiniteSet(Derived(s, q, fields))
<1> DEFINE lits == SubjectsOf(s, "literal_truths")
           equivalent == {p \in LiteralPairs(s) : p[1] < p[2] /\ Equivalent(s, p[1], p[2])}
           subsumed == {p \in LiteralPairs(s) : LiteralSubsumes(s, p[1], p[2])}
           clauses == {p \in Described(s) \X Described(s) : ClauseSubsumes(s, p[1], p[2])}
<1>1. IsFiniteSet({PairRow("literal_redundancies", p[1], p[2]) : p \in equivalent})
  <2>1. equivalent \subseteq lits \X lits
    BY DEF LiteralPairs
  <2> HIDE DEF equivalent
  <2> QED BY <2>1, SubjectsAreFinite, PairRowsAreFinite
<1>2. IsFiniteSet({PairRow("literal_subsumptions", p[1], p[2]) : p \in subsumed})
  <2>1. subsumed \subseteq lits \X lits
    BY DEF LiteralPairs
  <2> HIDE DEF subsumed
  <2> QED BY <2>1, SubjectsAreFinite, PairRowsAreFinite
<1>3. IsFiniteSet({PairRow("clause_subsumptions", p[1], p[2]) : p \in clauses})
  <2>1. clauses \subseteq Described(s) \X Described(s)
    OBVIOUS
  <2>2. IsFiniteSet(Described(s))
    BY SubjectsAreFinite, FS_Subset DEF Described
  <2> HIDE DEF clauses
  <2> QED BY <2>1, <2>2, PairRowsAreFinite
<1>4. IsFiniteSet({})
  BY FS_EmptySet
<1>5. /\ IsFiniteSet(ThresholdRows(s, "threshold_insights", fields))
      /\ IsFiniteSet(ThresholdRows(s, "threshold_proposals", fields))
      /\ IsFiniteSet(IntervalRows(s, fields)) /\ IsFiniteSet(WeightRows(s))
  BY ThresholdRowsAreFinite, IntervalRowsAreFinite, WeightRowsAreFinite
<1> DEFINE A == IF q.thresholds THEN ThresholdRows(s, "threshold_insights", fields) ELSE {}
           B == IF q.intervals THEN IntervalRows(s, fields) ELSE {}
           C == IF q.deescalation
                THEN {PairRow("literal_redundancies", p[1], p[2]) : p \in equivalent} \union
                     {PairRow("literal_subsumptions", p[1], p[2]) : p \in subsumed} \union
                     {PairRow("clause_subsumptions", p[1], p[2]) : p \in clauses}
                ELSE {}
           D == IF q.escalation
                THEN ThresholdRows(s, "threshold_proposals", fields) \union WeightRows(s)
                ELSE {}
<1>6. IsFiniteSet(A) /\ IsFiniteSet(B) /\ IsFiniteSet(D)
  BY <1>4, <1>5, FS_Union
<1>7. IsFiniteSet(C)
  <2> HIDE DEF equivalent, subsumed, clauses
  <2> QED BY <1>1, <1>2, <1>3, <1>4, FS_Union
<1>8. Derived(s, q, fields) = A \union B \union C \union D
  BY DEF Derived
<1> HIDE DEF A, B, C, D
<1> QED BY <1>6, <1>7, <1>8, FS_Union

\* Each row that is derived is of one of the products.
LEMMA DerivedHasProducts ==
  ASSUME NEW s, NEW q, NEW fields, NEW r \in Derived(s, q, fields)
  PROVE  r.product \in Products
BY DEF Derived, Products, ThresholdRows, IntervalRows, WeightRows, ThresholdRow, IntervalRow,
       PairRow, WeightRow

\* Two ways to the labelled numbers of a field: an example at a time, and a
\* number at a time.
LEMMA PairsAreNumbered ==
  ASSUME NEW s, NEW f
  PROVE  /\ \A p \in Pairs(s, f) : p = <<p[1], p[2]>> /\ p[2] \in Bits /\ p[1] \in NumberedAt(s, f, p[2])
         /\ \A y \in Bits : \A n \in NumberedAt(s, f, y) : <<n, y>> \in Pairs(s, f) /\ n \in Int
<1>1. ASSUME NEW p \in Pairs(s, f)
      PROVE  p = <<p[1], p[2]>> /\ p[2] \in Bits /\ p[1] \in NumberedAt(s, f, p[2])
  <2>1. PICK e \in Labelled(s) :
          p \in {v.num : v \in {v \in ValuesOf(s, e, f) : Numeric(v)}} \X LabelsOf(s, e)
    BY <1>1 DEF Pairs
  <2>2. PICK v \in ValuesOf(s, e, f) : Numeric(v) /\ p[1] = v.num
    BY <2>1
  <2>3. p = <<p[1], p[2]>> /\ p[2] \in LabelsOf(s, e) /\ e \in Examples
    BY <2>1 DEF Labelled
  <2> QED BY <2>2, <2>3 DEF NumberedAt, LabelsOf, ValuesOf
<1>2. ASSUME NEW y \in Bits, NEW n \in NumberedAt(s, f, y)
      PROVE  <<n, y>> \in Pairs(s, f) /\ n \in Int
  <2>1. PICK v \in Values : Numeric(v) /\ n = v.num
                         /\ \E e \in Examples : v \in ValuesOf(s, e, f) /\ y \in LabelsOf(s, e)
    BY <1>2 DEF NumberedAt
  <2>2. PICK e \in Examples : v \in ValuesOf(s, e, f) /\ y \in LabelsOf(s, e)
    BY <2>1
  <2>3. e \in Labelled(s)
    BY <2>2 DEF Labelled
  <2>4. n \in {u.num : u \in {u \in ValuesOf(s, e, f) : Numeric(u)}}
    BY <2>1, <2>2
  <2>5. <<n, y>> \in Pairs(s, f)
    BY <2>2, <2>3, <2>4 DEF Pairs
  <2> QED BY <2>1, <2>5, ValuesAssumption
<1> QED BY <1>1, <1>2

\* _validate_input_products looks for two neighbours among the pairs; they are
\* neighbours among the numbers.
LEMMA SeparatesIsDivides ==
  ASSUME NEW s, NEW f, NEW at, Separates(s, f, at)
  PROVE  Divides(s, f, at)
<1> DEFINE at0 == NumberedAt(s, f, 0)
           at1 == NumberedAt(s, f, 1)
<1>1. PICK p \in Pairs(s, f), q \in Pairs(s, f) :
        /\ p[2] # q[2]
        /\ 2 * p[1] < at /\ at < 2 * q[1]
        /\ ~\E r \in Pairs(s, f) : Less(p, r) /\ Less(r, q)
  BY DEF Separates
<1>2. /\ p[2] \in {0, 1} /\ q[2] \in {0, 1}
      /\ p[1] \in NumberedAt(s, f, p[2]) /\ q[1] \in NumberedAt(s, f, q[2])
  BY PairsAreNumbered DEF Bits
<1>3. (p[1] \in at0 /\ q[1] \in at1) \/ (p[1] \in at1 /\ q[1] \in at0)
  BY <1>1, <1>2
<1>4. ASSUME NEW k \in at0 \union at1, p[1] < k, k < q[1] PROVE FALSE
  <2>1. PICK y \in Bits : <<k, y>> \in Pairs(s, f)
    BY PairsAreNumbered DEF Bits
  <2>2. Less(p, <<k, y>>) /\ Less(<<k, y>>, q)
    BY <1>4 DEF Less
  <2> QED BY <1>1, <2>1, <2>2
<1> QED BY <1>1, <1>3, <1>4 DEF Divides

\* _validate_interval: what it accepts is a positive interval.
LEMMA IntervalIsSo ==
  ASSUME NEW s, NEW r, r.product = "interval_insights", ValidInterval(s, r)
  PROVE  IsSo(s, r)
<1> DEFINE inside(n) == r.lo <= 2 * n /\ 2 * n < r.hi
<1>1. Divides(s, r.field, r.lo) /\ Divides(s, r.field, r.hi)
  BY SeparatesIsDivides DEF ValidInterval
<1>2. \E n \in NumberedAt(s, r.field, 1) : inside(n)
  BY PairsAreNumbered DEF ValidInterval, Within
<1>3. ASSUME NEW n \in NumberedAt(s, r.field, 0), inside(n) PROVE FALSE
  <2>1. <<n, 0>> \in Pairs(s, r.field)
    BY PairsAreNumbered DEF Bits
  <2> QED BY <1>3, <2>1 DEF ValidInterval, Within
<1> QED BY <1>1, <1>2, <1>3 DEF IsSo

\* Where each subject has one truth for each example, a truth that does not
\* hold fails.
LEMMA OneTruth ==
  ASSUME session \in SessionType, NEW list \in {"literal_truths", "clause_truths"},
         OneTruthEach(list), NEW x \in SubjectsOf(session, list)
  PROVE  /\ Complete(session, list, x)
         /\ \A e \in session.example_domains :
              ~(Holds(session, list, x, e) /\ Fails(session, list, x, e))
<1> DEFINE facts == FactsOf(session, list)
<1>1. ASSUME NEW e \in session.example_domains
      PROVE  /\ Holds(session, list, x, e) \/ Fails(session, list, x, e)
             /\ ~(Holds(session, list, x, e) /\ Fails(session, list, x, e))
  <2>1. PICK i \in DOMAIN session[list] :
          /\ session[list][i].of = x /\ session[list][i].example = e
          /\ \A j \in DOMAIN session[list] :
               session[list][j].of = x /\ session[list][j].example = e => i = j
    BY DEF OneTruthEach
  <2>2. session[list][i] \in facts
    BY DEF FactsOf
  <2>3. session[list][i] \in [of : Literals \union Clauses, example : Examples, truth : Bits]
    BY <2>2, FactTypes
  <2>4. PICK y \in Bits : session[list][i] = Truth(x, e, y)
    BY <2>1, <2>3 DEF Truth
  <2>5. ASSUME NEW z, Truth(x, e, z) \in facts PROVE z = y
    <3>1. PICK j \in DOMAIN session[list] : session[list][j] = Truth(x, e, z)
      BY <2>5 DEF FactsOf
    <3>2. i = j
      BY <2>1, <3>1 DEF Truth
    <3>3. Truth(x, e, z).truth = Truth(x, e, y).truth
      BY <2>4, <3>1, <3>2
    <3> QED BY <3>3 DEF Truth
  <2> QED BY <2>2, <2>4, <2>5 DEF Holds, Fails, Bits
<1> QED BY <1>1 DEF Complete

\* Where each literal has one truth for each example, Python's comparison of truth
\* vectors and Prolog's two implications agree.
LEMMA SameVectorIsEquivalent ==
  ASSUME session \in SessionType, OneTruthEach("literal_truths"),
         NEW x \in SubjectsOf(session, "literal_truths"),
         NEW y \in SubjectsOf(session, "literal_truths")
  PROVE  SameVector(session, x, y) <=> Equivalent(session, x, y)
<1>1. /\ Complete(session, "literal_truths", x) /\ Complete(session, "literal_truths", y)
      /\ \A z \in {x, y} : \A e \in session.example_domains :
           ~(Holds(session, "literal_truths", z, e) /\ Fails(session, "literal_truths", z, e))
  BY OneTruth
<1> DEFINE H(z, e) == Holds(session, "literal_truths", z, e)
           F(z, e) == Fails(session, "literal_truths", z, e)
<1>2. \A z \in {x, y} : \A e \in session.example_domains : F(z, e) <=> ~H(z, e)
  BY <1>1 DEF Complete
<1>3. Equivalent(session, x, y) <=>
        \A e \in session.example_domains : ~(H(x, e) /\ F(y, e)) /\ ~(H(y, e) /\ F(x, e))
  BY <1>1, Zenon DEF Equivalent, Implies
<1>4. SameVector(session, x, y) <=> \A e \in session.example_domains : H(x, e) <=> H(y, e)
  BY DEF SameVector, Holds
<1> HIDE DEF H, F
<1> QED BY <1>2, <1>3, <1>4

\* What is checked of a row is enough for what it says (the four passes of
\* PTACollectiveService.run).
LEMMA ValidRowIsSo ==
  ASSUME session \in SessionType, NEW r, r.product \in Products,
         r.product \in {"literal_redundancies", "literal_subsumptions", "clause_subsumptions"} =>
           OneTruthEach("literal_truths") /\ OneTruthEach("clause_truths"),
         ValidRow(session, r)
  PROVE  IsSo(session, r)
<1>1. CASE r.product \in {"threshold_insights", "threshold_proposals"}
  <2>1. Separates(session, r.field, r.at)
    BY <1>1 DEF ValidRow
  <2> QED BY <1>1, <2>1, SeparatesIsDivides DEF IsSo
<1>2. CASE r.product = "interval_insights"
  <2>1. ValidInterval(session, r)
    BY <1>2 DEF ValidRow
  <2> QED BY <1>2, <2>1, IntervalIsSo
<1>3. CASE r.product = "literal_redundancies"
  <2>1. r.left # r.right /\ KnownIn(session, "literal_truths", {r.left, r.right})
        /\ SameVector(session, r.left, r.right)
    BY <1>3 DEF ValidRow
  <2>2. Equivalent(session, r.left, r.right)
    BY <1>3, <2>1, SameVectorIsEquivalent DEF KnownIn
  <2> QED BY <1>3, <2>1, <2>2 DEF IsSo
<1>4. CASE r.product = "literal_subsumptions"
  <2>1. r.left # r.right /\ KnownIn(session, "literal_truths", {r.left, r.right})
        /\ ~SameVector(session, r.left, r.right)
        /\ Implies(session, "literal_truths", r.left, r.right)
    BY <1>4 DEF ValidRow
  <2>2. /\ ~Equivalent(session, r.left, r.right)
        /\ Complete(session, "literal_truths", r.left) /\ Complete(session, "literal_truths", r.right)
    BY <1>4, <2>1, SameVectorIsEquivalent, OneTruth DEF KnownIn
  <2> QED BY <1>4, <2>1, <2>2 DEF IsSo, LiteralSubsumes
<1>5. CASE r.product = "clause_subsumptions"
  <2>1. /\ r.left # r.right /\ KnownIn(session, "clause_truths", {r.left, r.right})
        /\ LiteralsOf(session, r.left) \subseteq LiteralsOf(session, r.right)
        /\ LiteralsOf(session, r.left) # LiteralsOf(session, r.right)
        /\ Implies(session, "clause_truths", r.right, r.left)
    BY <1>5 DEF ValidRow
  <2>2. Complete(session, "clause_truths", r.left) /\ Complete(session, "clause_truths", r.right)
    BY <1>5, <2>1, OneTruth DEF KnownIn
  <2> QED BY <1>5, <2>1, <2>2 DEF IsSo, ClauseSubsumes
<1>6. CASE r.product = "weight_proposals"
  <2>1. PICK score \in Scores :
          /\ {t.score : t \in {t \in FactsOf(session, "clause_class_scores") :
                t.clause = r.clause /\ t.class = r.class}} = {score}
          /\ Weight(score) = r.weight
    BY <1>6 DEF ValidRow
  <2>2. r.class \in Supported(session)
    BY <1>6 DEF ValidRow
  <2>3. PICK t \in FactsOf(session, "clause_class_scores") :
          t.clause = r.clause /\ t.class = r.class /\ t.score = score
    BY <2>1
  <2> QED BY <1>6, <2>1, <2>2, <2>3 DEF IsSo
<1> QED BY <1>1, <1>2, <1>3, <1>4, <1>5, <1>6 DEF Products
-----------------------------------------------------------------------------
\* A print that can be counted: finitely many rows, of the seven products.
Countable(print) ==
  /\ IsFiniteSet(print.rows) /\ IsFiniteSet(print.twice)
  /\ \A r \in print.rows : r.product \in Products

\* The fields of an admitted query are finitely many.
LEMMA SelectedIsFinite ==
  ASSUME session \in SessionType, FieldsServe
  PROVE  IsFiniteSet(Selected)
<1> DEFINE facts == FactsOf(session, "observations")
           field == [o \in facts |-> o.field]
<1>1. IsFiniteSet(facts)
  BY FactsAreFinite DEF Lists, EmptySession
<1>2. Observed(session) = {field[o] : o \in facts}
  BY DEF Observed
<1>3. DOMAIN field = facts /\ field = [o \in facts |-> field[o]]
  OBVIOUS
<1>4. IsFiniteSet(Observed(session))
  <2> HIDE DEF facts, field
  <2> QED BY <1>1, <1>2, <1>3, ImageIsFinite
<1> QED BY <1>4, FS_Subset DEF FieldsServe

\* What an honest child prints can be counted.
LEMMA HonestIsCountable ==
  ASSUME session \in SessionType, FieldsServe,
         NEW print \in Honest(Derived(session, query, Selected))
  PROVE  Countable(print) /\ print.rows \subseteq Derived(session, query, Selected)
<1> DEFINE derived == Derived(session, query, Selected)
<1>1. IsFiniteSet(derived) /\ \A r \in derived : r.product \in Products
  BY SelectedIsFinite, DerivedIsFinite, DerivedHasProducts
<1>2. print.rows \in SUBSET derived /\ print.twice = {}
  BY DEF Honest
<1> HIDE DEF derived
<1>3. IsFiniteSet(print.rows)
  BY <1>1, <1>2, FS_Subset
<1> QED BY <1>1, <1>2, <1>3, FS_EmptySet DEF Countable, derived

\* What one misprint makes of a print can still be counted.
LEMMA AlteredIsCountable ==
  ASSUME NEW print, Countable(print), print.twice = {},
         print \in [rows : SUBSET print.rows, twice : {{}}, declared : {print.declared},
                    available : {print.available}, total : {print.total}],
         NEW other \in Altered(print)
  PROVE  Countable(other)
<1>1. \/ \E r \in print.rows : other.rows = print.rows \ {r} /\ other.twice = {}
      \/ \E r \in print.rows : other.rows = print.rows /\ other.twice = {r}
      \/ \E r \in Sayable : other.rows = print.rows \union {r} /\ other.twice = {}
      \/ other.rows = print.rows /\ other.twice = {}
  <2>1. CASE other \in RowLost(print)
    <3>1. PICK r \in print.rows :
            \/ other = [Recount(print, r.product, -1) EXCEPT !.rows = @ \ {r}]
            \/ other = [print EXCEPT !.rows = @ \ {r}, !.declared = @ - 1]
            \/ other = [Recount(print, r.product, 1) EXCEPT !.twice = {r}]
      BY <2>1 DEF RowLost
    <3> QED BY <3>1 DEF Recount
  <2>2. CASE other \in RowAdded(print)
    BY <2>2 DEF RowAdded, Recount
  <2>3. CASE other \in CountWrong(print)
    BY <2>3 DEF CountWrong
  <2> QED BY <2>1, <2>2, <2>3 DEF Altered
<1>2. \A r \in Sayable : r.product \in Products
  BY DEF Sayable, Products, ThresholdRow, IntervalRow, PairRow, WeightRow
<1>3. IsFiniteSet({}) /\ \A r : IsFiniteSet({r})
  BY FS_EmptySet, FS_Singleton
<1>4. \A r : IsFiniteSet(print.rows \ {r}) /\ IsFiniteSet(print.rows \union {r})
  BY FS_RemoveElement, FS_AddElement DEF Countable
<1> QED BY <1>1, <1>2, <1>3, <1>4 DEF Countable

\* A row of a product that was not asked for is refused.
LEMMA RequestedRows ==
  ASSUME NEW print, Countable(print), Decoded(print), Requested(print), NEW r \in print.rows,
         r.product \in {"literal_redundancies", "literal_subsumptions", "clause_subsumptions"}
  PROVE  query.deescalation
<1> DEFINE p == r.product
           rows == RowsOf(print.rows, p)
           twice == RowsOf(print.twice, p)
<1>1. IsFiniteSet(rows) /\ IsFiniteSet(twice) /\ rows # {}
  BY FS_Subset DEF Countable, RowsOf
<1>2. Cardinality(rows) \in Nat /\ Cardinality(rows) # 0 /\ Cardinality(twice) \in Nat
  <2> HIDE DEF rows, twice
  <2> QED BY <1>1, FS_CardinalityType, FS_EmptySet
<1>3. p \in Products /\ Emitted(print, p) <= print.available[p]
  BY DEF Decoded, Products
<1>4. Emitted(print, p) = Cardinality(rows) + Cardinality(twice)
  BY DEF Emitted
<1> HIDE DEF rows, twice
<1>5. print.available[p] # 0
  BY <1>2, <1>3, <1>4
<1> QED BY <1>5 DEF Requested

\* Every row of a print that is decoded, requested and believed is so.
LEMMA AnsweredRowIsSo ==
  ASSUME session \in SessionType, Admitted, NEW print, Countable(print),
         Judged(print) = "answered", NEW r \in print.rows
  PROVE  IsSo(session, r)
<1>1. Decoded(print) /\ Requested(print) /\ ValidRow(session, r)
  BY DEF Judged
<1>2. r.product \in Products
  BY DEF Countable
<1>3. r.product \in {"literal_redundancies", "literal_subsumptions", "clause_subsumptions"} =>
        OneTruthEach("literal_truths") /\ OneTruthEach("clause_truths")
  BY <1>1, RequestedRows DEF Admitted
<1> QED BY <1>1, <1>2, <1>3, ValidRowIsSo
-----------------------------------------------------------------------------
\* A run in progress is of an admitted session, and the session of an accepted
\* answer bears out its rows.
RunIsAdmitted ==
  /\ phase \in {"idle", "call"} => verdict = "none"
  /\ phase = "call" => Admitted
AnswerIsSo == answer.about \in SessionType /\ \A r \in answer.rows : IsSo(answer.about, r)
CollectiveInv == session \in SessionType /\ RunIsAdmitted /\ AnswerIsSo

\* Nothing is answered yet.
LEMMA CollectiveInitInv == Init => CollectiveInv
<1> SUFFICES ASSUME Init PROVE CollectiveInv
  OBVIOUS
<1>1. session \in SessionType
  BY PromotionAssumption DEF Init
<1>2. EmptySession \in SessionType
  BY DEF EmptySession, SessionType
<1> QED BY <1>1, <1>2 DEF Init, CollectiveInit, NoAnswer, CollectiveInv, RunIsAdmitted, AnswerIsSo

\* Admitted is of the session and the query.
LEMMA AdmittedStays ==
  ASSUME Admitted, UNCHANGED <<session, query>> PROVE Admitted'
<1>1. WithinBudget'
  BY DEF Admitted, WithinBudget, ExampleIds, LiteralIds, ClauseIds, ClassIds, FactCount
<1>2. \A list : (OneTruthEach(list) => OneTruthEach(list)') /\ (PairsFit(list) => PairsFit(list)')
  BY DEF OneTruthEach, PairsFit
<1>3. Selected' = Selected
  BY DEF Selected, NumericField
<1>4. FieldsServe'
  BY <1>3 DEF Admitted, FieldsServe, NumericField, OneLabelEach, OneNumberEach
<1> QED BY <1>1, <1>2, <1>4 DEF Admitted

\* An answer that stays is still so, of the session that it is about.
LEMMA AnswerIsSoStays ==
  ASSUME AnswerIsSo, UNCHANGED answer PROVE AnswerIsSo'
BY DEF AnswerIsSo

\* A print is read (PTACollectiveService.run after the child).
LEMMA ReadKeepsInv ==
  ASSUME CollectiveInv, phase = "call", UNCHANGED session,
         NEW print, Countable(print), Read(print)
  PROVE  CollectiveInv'
<1>1. phase' = "ended" /\ verdict' = Judged(print)
  BY DEF Read, EndRun
<1>2. RunIsAdmitted'
  BY <1>1 DEF RunIsAdmitted
<1>3. AnswerIsSo'
  <2>1. CASE verdict' = "answered"
    <3>1. answer' = [rows |-> print.rows, available |-> print.available, about |-> session]
      BY <2>1 DEF Read
    <3>2. \A r \in print.rows : IsSo(session, r)
      BY <1>1, <2>1, AnsweredRowIsSo DEF CollectiveInv, RunIsAdmitted
    <3> QED BY <3>1, <3>2 DEF AnswerIsSo, CollectiveInv
  <2>2. CASE verdict' # "answered"
    <3>1. UNCHANGED answer
      BY <2>2 DEF Read
    <3> QED BY <3>1, AnswerIsSoStays DEF CollectiveInv
  <2> QED BY <2>1, <2>2
<1> QED BY <1>2, <1>3 DEF CollectiveInv

\* The child ends with an honest or a misprinted answer.
LEMMA AnsweredKeepsInv ==
  ASSUME CollectiveInv, Answered, UNCHANGED session
  PROVE  CollectiveInv'
<1>1. phase = "call" /\ session \in SessionType /\ FieldsServe
  BY DEF Answered, Returned, CollectiveInv, RunIsAdmitted, Admitted
<1>2. PICK honest \in Honest(Derived(session, query, Selected)) :
        Read(honest) \/ \E print \in Altered(honest) : Read(print)
  BY DEF Answered
<1>3. Countable(honest)
  BY <1>1, <1>2, HonestIsCountable
<1>4. honest.twice = {} /\
      honest \in [rows : SUBSET honest.rows, twice : {{}}, declared : {honest.declared},
                  available : {honest.available}, total : {honest.total}]
  BY <1>2 DEF Honest
<1>5. \A print \in Altered(honest) : Countable(print)
  BY <1>3, <1>4, AlteredIsCountable
<1> QED BY <1>1, <1>2, <1>3, <1>5, ReadKeepsInv

\* A step of a run of the collective.
LEMMA CollectKeepsInv ==
  ASSUME CollectiveInv, CollectiveStep, UNCHANGED session
  PROVE  CollectiveInv'
<1>1. CASE Ask
  <2>1. UNCHANGED <<query, answer>>
    BY <1>1 DEF Ask
  <2>2. CASE EndRun("refused")
    <3>1. RunIsAdmitted'
      BY <2>2 DEF EndRun, RunIsAdmitted
    <3> QED BY <2>1, <3>1, AnswerIsSoStays DEF CollectiveInv
  <2>3. CASE Admitted /\ phase' = "call" /\ UNCHANGED verdict
    <3>1. Admitted'
      BY <2>1, <2>3, AdmittedStays
    <3>2. verdict' = "none"
      BY <1>1, <2>3 DEF Ask, CollectiveInv, RunIsAdmitted
    <3>3. RunIsAdmitted'
      BY <3>1, <3>2 DEF RunIsAdmitted
    <3> QED BY <2>1, <3>3, AnswerIsSoStays DEF CollectiveInv
  <2> QED BY <1>1, <2>2, <2>3 DEF Ask
<1>2. CASE CallStep
  <2>1. UNCHANGED <<query, phase, verdict, answer>>
    BY <1>2 DEF CallStep
  <2>2. Admitted => Admitted'
    BY <2>1, AdmittedStays
  <2>3. RunIsAdmitted'
    BY <2>1, <2>2 DEF CollectiveInv, RunIsAdmitted
  <2> QED BY <2>1, <2>3, AnswerIsSoStays DEF CollectiveInv
<1>3. CASE CallFailed \/ ExitFailed \/ Garbled
  <2>1. phase' = "ended" /\ UNCHANGED answer
    BY <1>3 DEF CallFailed, ExitFailed, Garbled, EndRun
  <2>2. RunIsAdmitted'
    BY <2>1 DEF RunIsAdmitted
  <2> QED BY <2>1, <2>2, AnswerIsSoStays DEF CollectiveInv
<1> QED BY <1>1, <1>2, <1>3, AnsweredKeepsInv DEF CollectiveStep

\* A fact is added, never while the child runs.
LEMMA LearnKeepsInv ==
  ASSUME CollectiveInv, Learn
  PROVE  CollectiveInv'
<1>1. session' \in SessionType
  <2>0. session \in SessionType
    BY DEF CollectiveInv
  <2>1. CASE AddObservation
    <3>1. PICK e \in Examples, f \in Fields, v \in Values :
            session' = [session EXCEPT !["observations"] = Append(@, Observation(e, f, v))]
      BY <2>1 DEF AddObservation, Add
    <3>2. Observation(e, f, v) \in [example : Examples, field : Fields, value : Values]
      BY DEF Observation
    <3>3. Append(session.observations, Observation(e, f, v)) \in Seq([example : Examples, field : Fields, value : Values])
      BY <2>0, <3>2 DEF SessionType
    <3> QED BY <2>0, <3>1, <3>3 DEF SessionType
  <2>2. CASE AddExampleLabel
    <3>1. PICK e \in Examples, y \in Bits :
            session' = [session EXCEPT !["example_labels"] = Append(@, Label(e, y)),
                                       !.example_domains = @ \union {Label(e, y).example}]
      BY <2>2 DEF AddExampleLabel, AddAbout
    <3>2. Label(e, y) \in [example : Examples, label : Bits]
      BY DEF Label
    <3>3. Append(session.example_labels, Label(e, y)) \in Seq([example : Examples, label : Bits])
      BY <2>0, <3>2 DEF SessionType
    <3>4. session.example_domains \union {Label(e, y).example} \in SUBSET Examples
      BY <2>0, <3>2 DEF SessionType
    <3> QED BY <2>0, <3>1, <3>3, <3>4 DEF SessionType
  <2>3. CASE AddLiteralTruth
    <3>1. PICK l \in Literals, e \in Examples, t \in Bits :
            session' = [session EXCEPT !["literal_truths"] = Append(@, Truth(l, e, t)),
                                       !.example_domains = @ \union {Truth(l, e, t).example}]
      BY <2>3 DEF AddLiteralTruth, AddAbout
    <3>2. Truth(l, e, t) \in [of : Literals, example : Examples, truth : Bits]
      BY DEF Truth
    <3>3. Append(session.literal_truths, Truth(l, e, t)) \in Seq([of : Literals, example : Examples, truth : Bits])
      BY <2>0, <3>2 DEF SessionType
    <3>4. session.example_domains \union {Truth(l, e, t).example} \in SUBSET Examples
      BY <2>0, <3>2 DEF SessionType
    <3> QED BY <2>0, <3>1, <3>3, <3>4 DEF SessionType
  <2>4. CASE AddClauseTruth
    <3>1. PICK c \in Clauses, e \in Examples, t \in Bits :
            session' = [session EXCEPT !["clause_truths"] = Append(@, Truth(c, e, t)),
                                       !.example_domains = @ \union {Truth(c, e, t).example}]
      BY <2>4 DEF AddClauseTruth, AddAbout
    <3>2. Truth(c, e, t) \in [of : Clauses, example : Examples, truth : Bits]
      BY DEF Truth
    <3>3. Append(session.clause_truths, Truth(c, e, t)) \in Seq([of : Clauses, example : Examples, truth : Bits])
      BY <2>0, <3>2 DEF SessionType
    <3>4. session.example_domains \union {Truth(c, e, t).example} \in SUBSET Examples
      BY <2>0, <3>2 DEF SessionType
    <3> QED BY <2>0, <3>1, <3>3, <3>4 DEF SessionType
  <2>5. CASE AddClauseLiteral
    <3>1. PICK c \in Clauses, l \in Literals :
            session' = [session EXCEPT !["clause_literals"] = Append(@, Member(c, l))]
      BY <2>5 DEF AddClauseLiteral, Add
    <3>2. Member(c, l) \in [clause : Clauses, literal : Literals]
      BY DEF Member
    <3>3. Append(session.clause_literals, Member(c, l)) \in Seq([clause : Clauses, literal : Literals])
      BY <2>0, <3>2 DEF SessionType
    <3> QED BY <2>0, <3>1, <3>3 DEF SessionType
  <2>6. CASE AddClassSupport
    <3>1. PICK k \in Classes :
            session' = [session EXCEPT !["class_supports"] = Append(@, k)]
      BY <2>6 DEF AddClassSupport, Add
    <3>2. k \in Classes
      BY <3>1
    <3>3. Append(session.class_supports, k) \in Seq(Classes)
      BY <2>0, <3>2 DEF SessionType
    <3> QED BY <2>0, <3>1, <3>3 DEF SessionType
  <2>7. CASE AddClauseClassScore
    <3>1. PICK c \in Clauses, k \in Classes, n \in Scores :
            session' = [session EXCEPT !["clause_class_scores"] = Append(@, Score(c, k, n))]
      BY <2>7 DEF AddClauseClassScore, Add
    <3>2. Score(c, k, n) \in [clause : Clauses, class : Classes, score : Scores]
      BY DEF Score
    <3>3. Append(session.clause_class_scores, Score(c, k, n)) \in Seq([clause : Clauses, class : Classes, score : Scores])
      BY <2>0, <3>2 DEF SessionType
    <3> QED BY <2>0, <3>1, <3>3 DEF SessionType
  <2> QED BY <2>1, <2>2, <2>3, <2>4, <2>5, <2>6, <2>7 DEF Learn, AddFact
<1>2. UNCHANGED <<phase, verdict, answer>> /\ phase # "call"
  BY DEF Learn, collectiveVars, CollectiveInv, RunIsAdmitted
<1>3. RunIsAdmitted'
  BY <1>2 DEF CollectiveInv, RunIsAdmitted
<1> QED BY <1>1, <1>2, <1>3, AnswerIsSoStays DEF CollectiveInv

(***************************************************************************)
(* A run in progress is of a session held to its bounds, and the answer    *)
(* last accepted says what is so of the session it is about.               *)
(***************************************************************************)
THEOREM CollectiveInvariant == Spec => []CollectiveInv
<1>1. CollectiveInv /\ [Next]_vars => CollectiveInv'
  <2> SUFFICES ASSUME CollectiveInv, [Next]_vars PROVE CollectiveInv'
    OBVIOUS
  <2>1. CASE Collect
    BY <2>1, CollectKeepsInv DEF Collect
  <2>2. CASE Learn
    BY <2>2, LearnKeepsInv
  <2>3. CASE UNCHANGED <<session, collectiveVars>>
    <3>1. UNCHANGED <<session, query, phase, verdict, answer>>
      BY <2>3 DEF collectiveVars
    <3>2. Admitted => Admitted'
      BY <3>1, AdmittedStays
    <3>3. RunIsAdmitted'
      BY <3>1, <3>2 DEF CollectiveInv, RunIsAdmitted
    <3> QED BY <3>1, <3>3, AnswerIsSoStays DEF CollectiveInv
  <2>4. Promote => UNCHANGED <<session, collectiveVars>>
    BY DEF Promote, Review, Materialize, Compile
  <2> QED BY <2>1, <2>2, <2>3, <2>4 DEF Next, vars
<1> QED BY <1>1, CollectiveInitInv, PTL DEF Spec

(***************************************************************************)
(* Whatever the child prints, an honest print with one line or one count   *)
(* altered included, every threshold, interval, relation and weight of an  *)
(* accepted answer is right for the session it is about (the passes of     *)
(* PTACollectiveService.run).                                              *)
(***************************************************************************)
THEOREM AnswersStayTrue == Spec => []AnswersAreTrue
<1>1. CollectiveInv => AnswersAreTrue
  BY DEF CollectiveInv, AnswerIsSo, AnswersAreTrue
<1> QED BY <1>1, CollectiveInvariant, PTL
-----------------------------------------------------------------------------
\* A nonempty set of naturals has a least element.
LEMMA LeastNumber ==
  ASSUME NEW T, T \subseteq Nat, T # {}
  PROVE  \E n \in T : \A m \in T : n <= m
<1> DEFINE R == {p \in Nat \X Nat : p[1] < p[2]}
<1>1. IsWellFoundedOn(R, Nat)
  BY NatLessThanWellFounded DEF OpToRel
<1>2. PICK n \in T : \A m \in T : ~(<<m, n>> \in R)
  <2> HIDE DEF R
  <2> QED BY <1>1, WFMin
<1>3. \A m \in T : ~(m < n)
  BY <1>2
<1> QED BY <1>3

\* The last value of an example that is observed is one of its values.
LEMMA LastValueIsOne ==
  ASSUME NEW s \in SessionType, NEW e, NEW f, ValuesOf(s, e, f) # {}
  PROVE  LastValue(s, e, f) \in ValuesOf(s, e, f)
<1> DEFINE is(i) == s.observations[i].example = e /\ s.observations[i].field = f
           len == Len(s.observations)
           T == {len - i : i \in {i \in 1..len : is(i)}}
           last == CHOOSE i \in DOMAIN s.observations :
                     is(i) /\ \A j \in DOMAIN s.observations : is(j) => j <= i
<1>1. /\ len \in Nat /\ DOMAIN s.observations = 1..len
      /\ \A i \in 1..len : s.observations[i] \in [example : Examples, field : Fields, value : Values]
  <2>1. s.observations \in Seq([example : Examples, field : Fields, value : Values])
    BY DEF SessionType
  <2>2. len \in Nat /\ DOMAIN s.observations = 1..len
    BY <2>1
  <2>3. ASSUME NEW i \in 1..len
        PROVE  s.observations[i] \in [example : Examples, field : Fields, value : Values]
    <3>1. s.observations[i] \in FactsOf(s, "observations")
      BY <2>2 DEF FactsOf
    <3> QED BY <3>1, FactTypes
  <2> QED BY <2>2, <2>3
<1>2. PICK i \in 1..len : is(i)
  <2>1. PICK v \in ValuesOf(s, e, f) : TRUE
    OBVIOUS
  <2>2. PICK i \in DOMAIN s.observations : s.observations[i] = Observation(e, f, v)
    BY <2>1 DEF ValuesOf, FactsOf
  <2> QED BY <1>1, <2>2 DEF Observation
<1>3. PICK n \in T : \A m \in T : n <= m
  <2>1. \A j \in 1..len : len - j \in Nat
    BY <1>1
  <2>2. T \subseteq Nat
    BY <2>1
  <2>3. len - i \in T
    BY <1>2
  <2> HIDE DEF T
  <2> QED BY <2>2, <2>3, LeastNumber
<1>4. PICK k \in 1..len : is(k) /\ n = len - k
  BY <1>3
<1>5. \A j \in 1..len : is(j) => j <= k
  <2> SUFFICES ASSUME NEW j \in 1..len, is(j) PROVE j <= k
    OBVIOUS
  <2>1. len - j \in T
    OBVIOUS
  <2>2. len - k <= len - j
    BY <1>3, <1>4, <2>1
  <2> QED BY <1>1, <2>2
<1>6. last \in DOMAIN s.observations /\ is(last)
  BY <1>1, <1>4, <1>5
<1>7. LastValue(s, e, f) = s.observations[last].value
  BY DEF LastValue
<1> HIDE DEF last
<1>8. s.observations[last] \in [example : Examples, field : Fields, value : Values]
  BY <1>1, <1>6
<1>9. s.observations[last] = Observation(e, f, s.observations[last].value)
  BY <1>6, <1>8 DEF Observation
<1> QED BY <1>6, <1>7, <1>8, <1>9 DEF ValuesOf, FactsOf

\* What the collective holds a session to before it asks about a field.
ServesField(s, f) ==
  /\ Valid(s)
  /\ \A o \in FactsOf(s, "observations") : o.field = f => Numeric(o.value)
  /\ \A e \in Examples : \A v, w \in ValuesOf(s, e, f) : v.num = w.num
  /\ \A e \in Examples : Cardinality(LabelsOf(s, e)) <= 1

\* A fact of the review is a labelled value of the collective.
LEMMA FactIsATerm ==
  ASSUME NEW s \in SessionType, NEW f, NEW z \in LabelledFacts(s, f)
  PROVE  z.value \in Terms(s, f) /\ z.label \in StateOf(s, f, z.value)
<1>1. PICK e \in Examples : /\ ValuesOf(s, e, f) # {}
                            /\ \E y \in LabelsOf(s, e) :
                                 z = [example |-> e, label |-> y, value |-> LastValue(s, e, f)]
  BY DEF LabelledFacts
<1>2. z.value \in ValuesOf(s, e, f) /\ z.label \in LabelsOf(s, e)
  BY <1>1, LastValueIsOne
<1>3. e \in Labelled(s)
  BY <1>2 DEF Labelled
<1> QED BY <1>2, <1>3 DEF Terms, StateOf

\* A labelled value of the collective has its number in a fact of the review.
LEMMA TermHasAFact ==
  ASSUME NEW s \in SessionType, NEW f, ServesField(s, f), NEW v, NEW a \in StateOf(s, f, v)
  PROVE  \E x \in LabelledFacts(s, f) : x.value.num = v.num /\ x.label = a
<1>1. PICK e \in Labelled(s) : v \in ValuesOf(s, e, f) /\ a \in LabelsOf(s, e)
  BY DEF StateOf
<1> DEFINE x == [example |-> e, label |-> a, value |-> LastValue(s, e, f)]
<1>2. e \in Examples
  BY DEF Labelled
<1>3. x \in LabelledFacts(s, f)
  BY <1>1, <1>2 DEF LabelledFacts
<1>4. LastValue(s, e, f).num = v.num
  BY <1>1, <1>2, LastValueIsOne DEF ServesField
<1> QED BY <1>3, <1>4

\* Where the numbers of a field are of one Python type, two values are of one type.
LEMMA OneKind ==
  ASSUME NEW s \in SessionType, NEW f, PlainNumbers(s, {f}),
         NEW v \in Terms(s, f), NEW w \in Terms(s, f)
  PROVE  v.kind = w.kind
<1> DEFINE terms == Terms(s, f)
           kind  == [u \in terms |-> u.kind]
           kinds == {u.kind : u \in terms}
<1>1. IsFiniteSet(kinds) /\ Cardinality(kinds) <= 1
  <2>1. IsFiniteSet(terms)
    BY TermsAreFinite
  <2>2. IsFiniteSet({kind[u] : u \in terms})
    <3>1. DOMAIN kind = terms /\ kind = [u \in terms |-> kind[u]]
      OBVIOUS
    <3> HIDE DEF terms, kind
    <3> QED BY <2>1, <3>1, ImageIsFinite
  <2>3. kinds = {kind[u] : u \in terms}
    OBVIOUS
  <2> QED BY <2>2, <2>3 DEF PlainNumbers
<1>2. v.kind \in kinds /\ w.kind \in kinds
  OBVIOUS
<1> HIDE DEF kinds
<1>3. SUFFICES ASSUME v.kind # w.kind PROVE FALSE
  OBVIOUS
<1>4. IsFiniteSet({v.kind}) /\ Cardinality({v.kind}) = 1
  BY FS_Singleton
<1>5. Cardinality({v.kind} \union {w.kind}) = 2 /\ IsFiniteSet({v.kind} \union {w.kind})
  <2>1. w.kind \notin {v.kind}
    BY <1>3
  <2> QED BY <1>4, <2>1, FS_AddElement
<1>6. {v.kind} \union {w.kind} \subseteq kinds
  BY <1>2
<1>7. Cardinality({v.kind} \union {w.kind}) <= Cardinality(kinds)
  BY <1>1, <1>6, FS_Subset
<1>8. Cardinality(kinds) \in Nat
  BY <1>1, FS_CardinalityType
<1> QED BY <1>1, <1>5, <1>7, <1>8

\* A flip in the order of the terms is one in the order of the numbers, with pure
\* facts on both sides (adjacent_flip against _boundary_evidence).
LEMMA FlipHasEvidence ==
  ASSUME NEW s \in SessionType, NEW f, ServesField(s, f), PlainNumbers(s, {f}),
         NEW at \in Flips(s, f)
  PROVE  Evidence(s, f, at) # {}
<1> DEFINE terms == Terms(s, f)
           facts == LabelledFacts(s, f)
<1>1. PICK v \in terms, w \in terms :
        /\ at = Mid(v, w) /\ Follows(terms, v, w)
        /\ {StateOf(s, f, v), StateOf(s, f, w)} = {{0}, {1}}
  BY DEF Flips
<1>2. PICK a \in Bits, b \in Bits : a # b /\ StateOf(s, f, v) = {a} /\ StateOf(s, f, w) = {b}
  <2>1. \A X, Y : {X, Y} = {{0}, {1}} => (X = {0} /\ Y = {1}) \/ (X = {1} /\ Y = {0})
    <3> SUFFICES ASSUME NEW X, NEW Y, {X, Y} = {{0}, {1}}
                 PROVE  (X = {0} /\ Y = {1}) \/ (X = {1} /\ Y = {0})
      OBVIOUS
    <3>1. X \in {{0}, {1}} /\ Y \in {{0}, {1}} /\ {0} \in {X, Y} /\ {1} \in {X, Y}
      OBVIOUS
    <3>2. {0} # {1}
      OBVIOUS
    <3> QED BY <3>1, <3>2
  <2>2. \/ StateOf(s, f, v) = {0} /\ StateOf(s, f, w) = {1}
        \/ StateOf(s, f, v) = {1} /\ StateOf(s, f, w) = {0}
    BY <1>1, <2>1, Zenon
  <2> QED BY <2>2 DEF Bits
<1>3. terms \subseteq [kind : {"int", "float", "text"}, num : Int]
  BY TermsAreFinite, ValuesAssumption
<1>4. \A t, u \in terms : Before(t, u) <=> t.num < u.num
  <2>1. \A t, u \in terms : t.kind = u.kind
    BY OneKind
  <2> HIDE DEF terms
  <2> QED BY <2>1 DEF Before
<1>5. v.num < w.num /\ ~\E u \in terms : v.num < u.num /\ u.num < w.num
  BY <1>1, <1>4 DEF Follows
<1>6. PICK x \in facts : x.value.num = v.num /\ x.label = a
  BY <1>2, TermHasAFact
<1>7. PICK y \in facts : y.value.num = w.num /\ y.label = b
  BY <1>2, TermHasAFact
<1>8. ASSUME NEW t \in terms, NEW u \in terms, t.num = u.num PROVE t = u
  <2>1. t.kind = u.kind
    BY OneKind
  <2> QED BY <1>3, <1>8, <2>1
<1>9. \A z \in facts : z.value \in terms /\ z.label \in StateOf(s, f, z.value)
  BY FactIsATerm
<1> HIDE DEF terms, facts
<1>10. PureAmong(facts, x) /\ PureAmong(facts, y)
  <2>1. \A z \in facts : z.value.num = v.num => z.label = a
    BY <1>1, <1>2, <1>8, <1>9
  <2>2. \A z \in facts : z.value.num = w.num => z.label = b
    BY <1>1, <1>2, <1>8, <1>9
  <2> QED BY <1>6, <1>7, <2>1, <2>2 DEF PureAmong
<1>11. 2 * x.value.num < at /\ at < 2 * y.value.num
  <2>1. v.num \in Int /\ w.num \in Int
    BY <1>3
  <2> QED BY <1>1, <1>5, <1>6, <1>7, <2>1 DEF Mid
<1>12. Boundary(facts, x, y, at)
  BY <1>2, <1>5, <1>6, <1>7, <1>9, <1>10, <1>11 DEF Boundary
<1>13. \E p \in facts \X facts : Boundary(facts, p[1], p[2], at)
  <2>1. <<x, y>> \in facts \X facts /\ Boundary(facts, <<x, y>>[1], <<x, y>>[2], at)
    BY <1>12
  <2> QED BY <2>1
<1> QED BY <1>13 DEF Evidence, facts

\* A session that serves a field, with one type of number, bears out each of
\* its flips in a review.
LEMMA FlipIsReviewed ==
  ASSUME NEW s \in SessionType, NEW f, NEW c, f \in Schemas[c],
         ServesField(s, f), PlainNumbers(s, {f}), NEW at \in Flips(s, f)
  PROVE  Reviews(s, f, at, c) # {}
<1>1. OneNumber(s, f)
  <2> SUFFICES ASSUME NEW e \in Examples, NEW v \in ValuesOf(s, e, f) PROVE Numeric(v)
    BY DEF OneNumber, ServesField
  <2>1. Observation(e, f, v) \in FactsOf(s, "observations")
    BY DEF ValuesOf
  <2>2. Observation(e, f, v).field = f /\ Observation(e, f, v).value = v
    BY DEF Observation
  <2> QED BY <2>1, <2>2 DEF ServesField
<1>2. PICK r : r \in Evidence(s, f, at)
  BY FlipHasEvidence
<1>3. r \in ReviewsFor(s, f, at, Schemas[c])
  BY <1>1, <1>2 DEF ReviewsFor, ServesField
<1> QED BY <1>3 DEF Reviews
-----------------------------------------------------------------------------
\* While the child prints what it derives, each proposal is of a flip of the
\* session that the answer is about, and that session serves its field.
Proposable(s, r) == ServesField(s, r.field) /\ r.at \in Flips(s, r.field)
ProposalsAreFlips ==
  misprints = 0 => \A r \in Proposals : Proposable(answer.about, r)
ProposalInv == misprints \in Nat /\ ProposalsAreFlips

\* What is derived for an admitted query is of fields that the session serves.
LEMMA AdmittedServes ==
  ASSUME Admitted, NEW r \in Derived(session, query, Selected),
         r.product = "threshold_proposals"
  PROVE  Proposable(session, r)
<1>1. PICK f \in Selected : \E at \in Flips(session, f) : r = ThresholdRow("threshold_proposals", f, at)
  BY DEF Derived, ThresholdRows, IntervalRows, WeightRows, ThresholdRow, IntervalRow, PairRow, WeightRow
<1>2. r.field = f /\ r.at \in Flips(session, f)
  BY <1>1 DEF ThresholdRow
<1>3. ServesField(session, f)
  BY DEF Admitted, WithinBudget, FieldsServe, NumericField, OneNumberEach, OneLabelEach, ServesField
<1> QED BY <1>2, <1>3 DEF Proposable

\* Nothing is proposed yet.
LEMMA ProposalInit == Init => ProposalInv
BY DEF Init, CollectiveInit, NoAnswer, ProposalInv, ProposalsAreFlips, Proposals, RowsOf

\* Proposals are of the answer and its session only.
LEMMA ProposalsStay ==
  ASSUME ProposalInv, UNCHANGED <<misprints, answer>> PROVE ProposalInv'
BY DEF ProposalInv, ProposalsAreFlips, Proposals, RowsOf

\* An honest child proposes flips of the session it was given.
LEMMA AnsweredKeepsProposals ==
  ASSUME CollectiveInv, ProposalInv, Answered PROVE ProposalInv'
<1>1. PICK honest \in Honest(Derived(session, query, Selected)) :
        \/ Read(honest) /\ UNCHANGED misprints
        \/ misprints' = misprints + 1
  BY DEF Answered
<1>2. CASE misprints' = misprints + 1
  <2>1. misprints' \in Nat /\ misprints' # 0
    BY <1>2 DEF ProposalInv
  <2> QED BY <2>1 DEF ProposalInv, ProposalsAreFlips
<1>3. CASE Read(honest) /\ UNCHANGED misprints
  <2>1. CASE UNCHANGED answer
    BY <1>3, <2>1, ProposalsStay
  <2>2. CASE answer' = [rows |-> honest.rows, available |-> honest.available, about |-> session]
    <3>1. Admitted
      BY DEF Answered, Returned, CollectiveInv, RunIsAdmitted
    <3>2. honest.rows \subseteq Derived(session, query, Selected)
      BY <1>1 DEF Honest
    <3>3. \A r \in Proposals' : Proposable(session, r)
      BY <2>2, <3>1, <3>2, AdmittedServes DEF Proposals, RowsOf
    <3> QED BY <1>3, <2>2, <3>3 DEF ProposalInv, ProposalsAreFlips
  <2> QED BY <1>3, <2>1, <2>2 DEF Read
<1> QED BY <1>1, <1>2, <1>3

\* Every step keeps the proposals to flips.
LEMMA StepKeepsProposals ==
  ASSUME CollectiveInv, ProposalInv, [Next]_vars PROVE ProposalInv'
<1>1. CASE Answered
  BY <1>1, AnsweredKeepsProposals
<1>2. CASE UNCHANGED <<misprints, answer>>
  BY <1>2, ProposalsStay
<1>3. CollectiveStep => Answered \/ UNCHANGED <<misprints, answer>>
  BY DEF CollectiveStep, Ask, CallStep, CallFailed, ExitFailed, Garbled
<1>4. Promote \/ Learn \/ UNCHANGED vars => UNCHANGED <<misprints, answer>>
  BY DEF Promote, Review, Materialize, Compile, Learn, vars, collectiveVars
<1> QED BY <1>1, <1>2, <1>3, <1>4 DEF Next, Collect

(***************************************************************************)
(* Of an honest child every proposal is a flip of a session that serves    *)
(* its field.                                                              *)
(***************************************************************************)
THEOREM ProposalInvariant == Spec => []ProposalInv
<1>1. CollectiveInv /\ ProposalInv /\ [Next]_vars => ProposalInv'
  BY StepKeepsProposals
<1> QED BY <1>1, ProposalInit, CollectiveInvariant, PTL DEF Spec

(***************************************************************************)
(* What an honest child proposes for numbers of one Python type passes the *)
(* review of every catalog with that field, while the session is the one   *)
(* that it was asked about (_boundary_evidence).                           *)
(***************************************************************************)
THEOREM ProposalsStayReviewable == Spec => []ProposalsPassReview
<1>1. CollectiveInv /\ ProposalInv => ProposalsPassReview
  <2> SUFFICES ASSUME CollectiveInv, ProposalInv, misprints = 0, answer.about = session,
                      NEW r \in Proposals, NEW c \in Catalogs, r.field \in Schemas[c],
                      PlainNumbers(session, {r.field})
               PROVE  Reviews(session, r.field, r.at, c) # {}
    BY DEF ProposalsPassReview
  <2>1. ServesField(session, r.field) /\ r.at \in Flips(session, r.field)
    BY DEF ProposalInv, ProposalsAreFlips, Proposable
  <2>2. session \in SessionType
    BY DEF CollectiveInv
  <2> QED BY <2>1, <2>2, FlipIsReviewed
<1> QED BY <1>1, ProposalInvariant, CollectiveInvariant, PTL
-----------------------------------------------------------------------------
(***************************************************************************)
(* A product that is whole has all that the session bears out.             *)
(***************************************************************************)

\* The labelled values of a served field of one Python type are as their numbers:
\* in the same order, and with the same labels.
Plain(s, f) == s \in SessionType /\ ServesField(s, f) /\ PlainNumbers(s, {f})
NumbersOf(s, f) == NumberedAt(s, f, 0) \union NumberedAt(s, f, 1)

LEMMA NumberIsATerm ==
  ASSUME NEW s, NEW f, NEW y, NEW n \in NumberedAt(s, f, y)
  PROVE  \E v \in Terms(s, f) : v.num = n /\ (y \in Bits => y \in StateOf(s, f, v))
<1>1. PICK v \in Values, e \in Examples :
        n = v.num /\ v \in ValuesOf(s, e, f) /\ y \in LabelsOf(s, e)
  BY DEF NumberedAt
<1>2. e \in Labelled(s)
  BY <1>1 DEF Labelled
<1>3. v \in Terms(s, f) /\ y \in StateOf(s, f, v)
  BY <1>1, <1>2 DEF Terms, StateOf
<1> QED BY <1>1, <1>3

LEMMA TermsAreNumbers ==
  ASSUME NEW s, NEW f, Plain(s, f)
  PROVE  /\ \A v \in Terms(s, f) : v.num \in Int /\ v.num \in NumbersOf(s, f)
         /\ \A v, w \in Terms(s, f) : Before(v, w) <=> v.num < w.num
         /\ \A v, w \in Terms(s, f) : v.num = w.num => v = w
         /\ \A v \in Terms(s, f) : StateOf(s, f, v) = {y \in Bits : v.num \in NumberedAt(s, f, y)}
         /\ NumbersOf(s, f) \subseteq Int
         /\ \A n \in NumbersOf(s, f) : \E v \in Terms(s, f) : v.num = n
<1>1. s \in SessionType /\ ServesField(s, f) /\ PlainNumbers(s, {f})
  BY DEF Plain
<1>2. Terms(s, f) \subseteq [kind : {"int", "float", "text"}, num : Int]
  BY <1>1, TermsAreFinite, ValuesAssumption
<1>3. \A v, w \in Terms(s, f) : v.kind = w.kind
  BY <1>1, OneKind
<1>4. \A v, w \in Terms(s, f) : v.num = w.num => v = w
  <2> SUFFICES ASSUME NEW v \in Terms(s, f), NEW w \in Terms(s, f), v.num = w.num PROVE v = w
    OBVIOUS
  <2>1. v.kind = w.kind
    BY <1>3
  <2>2. v \in [kind : {"int", "float", "text"}, num : Int] /\ w \in [kind : {"int", "float", "text"}, num : Int]
    BY <1>2
  <2> QED BY <2>1, <2>2
<1>5. \A v, w \in Terms(s, f) : Before(v, w) <=> v.num < w.num
  <2> SUFFICES ASSUME NEW v \in Terms(s, f), NEW w \in Terms(s, f)
               PROVE  Before(v, w) <=> v.num < w.num
    OBVIOUS
  <2>1. v.kind = w.kind
    BY <1>3
  <2> QED BY <2>1 DEF Before
<1>6. ASSUME NEW v \in Terms(s, f), NEW y \in Bits
      PROVE  y \in StateOf(s, f, v) <=> v.num \in NumberedAt(s, f, y)
  <2>1. ASSUME y \in StateOf(s, f, v) PROVE v.num \in NumberedAt(s, f, y)
    <3>1. PICK e \in Labelled(s) : v \in ValuesOf(s, e, f) /\ y \in LabelsOf(s, e)
      BY <2>1 DEF StateOf
    <3>2. e \in Examples /\ v \in Values
      BY <3>1 DEF Labelled, ValuesOf
    <3>3. Observation(e, f, v) \in FactsOf(s, "observations")
      BY <3>1 DEF ValuesOf
    <3>4. Numeric(v)
      <4>1. Observation(e, f, v).field = f /\ Observation(e, f, v).value = v
        BY DEF Observation
      <4> QED BY <1>1, <3>3, <4>1 DEF ServesField
    <3> QED BY <3>1, <3>2, <3>4 DEF NumberedAt
  <2>2. ASSUME v.num \in NumberedAt(s, f, y) PROVE y \in StateOf(s, f, v)
    <3>1. PICK w \in Terms(s, f) : w.num = v.num /\ y \in StateOf(s, f, w)
      BY <2>2, NumberIsATerm
    <3> QED BY <1>4, <3>1
  <2> QED BY <2>1, <2>2
<1>7. \A v : StateOf(s, f, v) \subseteq Bits
  BY DEF StateOf, LabelsOf
<1>8. \A v \in Terms(s, f) : StateOf(s, f, v) # {}
  <2> SUFFICES ASSUME NEW v \in Terms(s, f) PROVE StateOf(s, f, v) # {}
    OBVIOUS
  <2>1. PICK e \in Labelled(s) : v \in ValuesOf(s, e, f)
    BY DEF Terms
  <2>2. PICK y : y \in LabelsOf(s, e)
    BY DEF Labelled
  <2>3. y \in StateOf(s, f, v)
    BY <2>1, <2>2 DEF StateOf
  <2> QED BY <2>3
<1>9. \A v \in Terms(s, f) : v.num \in NumbersOf(s, f)
  <2> SUFFICES ASSUME NEW v \in Terms(s, f) PROVE v.num \in NumbersOf(s, f)
    OBVIOUS
  <2>1. PICK y \in Bits : y \in StateOf(s, f, v)
    BY <1>7, <1>8
  <2> QED BY <1>6, <2>1 DEF NumbersOf, Bits
<1>10. \A n \in NumbersOf(s, f) : \E v \in Terms(s, f) : v.num = n
  BY NumberIsATerm DEF NumbersOf
<1>11. NumbersOf(s, f) \subseteq Int
  BY <1>2, <1>10
<1> QED BY <1>2, <1>4, <1>5, <1>6, <1>7, <1>9, <1>10, <1>11

\* A set of labels that is one of two.
LEMMA TwoLabels ==
  ASSUME NEW X, NEW Y, {X, Y} = {{0}, {1}}
  PROVE  (X = {0} /\ Y = {1}) \/ (X = {1} /\ Y = {0})
<1>1. X \in {{0}, {1}} /\ Y \in {{0}, {1}} /\ {0} \in {X, Y} /\ {1} \in {X, Y}
  OBVIOUS
<1>2. {0} # {1}
  OBVIOUS
<1> QED BY <1>1, <1>2

\* The numbers next to each other with one label each, first y then z.
Next2(s, f, n, m) == n < m /\ ~\E k \in NumbersOf(s, f) : n < k /\ k < m
Only(s, f, n, y)  == \A z \in Bits : n \in NumberedAt(s, f, z) <=> z = y
Turn(s, f, n, m, y) ==
  n \in Int /\ m \in Int /\ y \in Bits /\ Only(s, f, n, y) /\ Only(s, f, m, 1 - y) /\ Next2(s, f, n, m)

LEMMA TurnsOfTerms ==
  ASSUME NEW s, NEW f, Plain(s, f), NEW v \in Terms(s, f), NEW w \in Terms(s, f), NEW y \in Bits
  PROVE  Turn(s, f, v.num, w.num, y) <=>
           StateOf(s, f, v) = {y} /\ StateOf(s, f, w) = {1 - y} /\ Follows(Terms(s, f), v, w)
<1>1. 1 - y \in Bits /\ v.num \in Int /\ w.num \in Int
  BY TermsAreNumbers DEF Bits
<1>2. ASSUME NEW u \in Terms(s, f), NEW z \in Bits
      PROVE  StateOf(s, f, u) = {z} <=> Only(s, f, u.num, z)
  BY TermsAreNumbers DEF Only
<1>3. Follows(Terms(s, f), v, w) <=> Next2(s, f, v.num, w.num)
  BY TermsAreNumbers DEF Follows, Next2
<1> QED BY <1>1, <1>2, <1>3 DEF Turn

LEMMA TurnTerms ==
  ASSUME NEW s, NEW f, Plain(s, f), NEW n, NEW m, NEW y, Turn(s, f, n, m, y)
  PROVE  \E v, w \in Terms(s, f) : v.num = n /\ w.num = m
<1>1. n \in NumbersOf(s, f) /\ m \in NumbersOf(s, f)
  BY DEF Turn, Only, Bits, NumbersOf
<1> QED BY <1>1, TermsAreNumbers

\* The boundaries that are derived, and those that are born out, are at the turns.
LEMMA FlipsAreTurns ==
  ASSUME NEW s, NEW f, Plain(s, f), NEW at
  PROVE  at \in Flips(s, f) <=> \E n, m, y : Turn(s, f, n, m, y) /\ at = n + m
<1> DEFINE terms == Terms(s, f)
<1>1. ASSUME at \in Flips(s, f) PROVE \E n, m, y : Turn(s, f, n, m, y) /\ at = n + m
  <2>1. PICK p \in terms \X terms :
          /\ at = Mid(p[1], p[2]) /\ Follows(terms, p[1], p[2])
          /\ {StateOf(s, f, p[1]), StateOf(s, f, p[2])} = {{0}, {1}}
    BY <1>1 DEF Flips
  <2>2. PICK y \in Bits : StateOf(s, f, p[1]) = {y} /\ StateOf(s, f, p[2]) = {1 - y}
    <3>1. \/ StateOf(s, f, p[1]) = {0} /\ StateOf(s, f, p[2]) = {1}
          \/ StateOf(s, f, p[1]) = {1} /\ StateOf(s, f, p[2]) = {0}
      BY <2>1, TwoLabels
    <3>2. 1 - 0 = 1 /\ 1 - 1 = 0 /\ 0 \in Bits /\ 1 \in Bits
      BY DEF Bits
    <3> QED BY <3>1, <3>2
  <2>3. p[1] \in terms /\ p[2] \in terms
    OBVIOUS
  <2>4. Turn(s, f, p[1].num, p[2].num, y)
    BY <2>1, <2>2, <2>3, TurnsOfTerms
  <2> QED BY <2>1, <2>4 DEF Mid
<1>2. ASSUME NEW n, NEW m, NEW y, Turn(s, f, n, m, y), at = n + m PROVE at \in Flips(s, f)
  <2>1. PICK v, w \in terms : v.num = n /\ w.num = m
    BY <1>2, TurnTerms
  <2>2. y \in Bits
    BY <1>2 DEF Turn
  <2>3. StateOf(s, f, v) = {y} /\ StateOf(s, f, w) = {1 - y} /\ Follows(terms, v, w)
    BY <1>2, <2>1, <2>2, TurnsOfTerms
  <2>4. {StateOf(s, f, v), StateOf(s, f, w)} = {{0}, {1}}
    BY <2>2, <2>3 DEF Bits
  <2>5. at = Mid(v, w)
    BY <1>2, <2>1 DEF Mid
  <2> HIDE DEF terms
  <2>6. <<v, w>> \in terms \X terms /\ <<v, w>>[1] = v /\ <<v, w>>[2] = w
    OBVIOUS
  <2> QED BY <2>3, <2>4, <2>5, <2>6 DEF Flips, terms
<1> QED BY <1>1, <1>2

LEMMA BoundsAreTurns ==
  ASSUME NEW s, NEW f, Plain(s, f), NEW at
  PROVE  at \in Bounds(s, f) <=> \E n, m, y : Turn(s, f, n, m, y) /\ at = n + m
<1> DEFINE at0 == NumberedAt(s, f, 0)
           at1 == NumberedAt(s, f, 1)
           ends == ((at0 \ at1) \X (at1 \ at0)) \union ((at1 \ at0) \X (at0 \ at1))
<1>0. /\ \A n : n \in at0 \ at1 <=> Only(s, f, n, 0)
      /\ \A n : n \in at1 \ at0 <=> Only(s, f, n, 1)
  BY DEF Only, Bits
<1>1. ASSUME at \in Bounds(s, f) PROVE \E n, m, y : Turn(s, f, n, m, y) /\ at = n + m
  <2>1. PICK p \in ends : at = p[1] + p[2] /\ p[1] < p[2] /\
                          ~\E k \in at0 \union at1 : p[1] < k /\ k < p[2]
    BY <1>1 DEF Bounds
  <2>2. p[1] \in NumbersOf(s, f) /\ p[2] \in NumbersOf(s, f)
    BY DEF NumbersOf
  <2>3. p[1] \in Int /\ p[2] \in Int
    BY <2>2, TermsAreNumbers
  <2>4. Next2(s, f, p[1], p[2])
    BY <2>1 DEF Next2, NumbersOf
  <2>5. \E y \in Bits : Only(s, f, p[1], y) /\ Only(s, f, p[2], 1 - y)
    <3>1. 1 - 0 = 1 /\ 1 - 1 = 0 /\ 0 \in Bits /\ 1 \in Bits
      BY DEF Bits
    <3>2. \/ p[1] \in at0 \ at1 /\ p[2] \in at1 \ at0
          \/ p[1] \in at1 \ at0 /\ p[2] \in at0 \ at1
      OBVIOUS
    <3> HIDE DEF at0, at1, ends
    <3> QED BY <1>0, <3>1, <3>2
  <2> QED BY <2>1, <2>3, <2>4, <2>5 DEF Turn
<1>2. ASSUME NEW n, NEW m, NEW y, Turn(s, f, n, m, y), at = n + m PROVE at \in Bounds(s, f)
  <2>1. y \in Bits /\ Only(s, f, n, y) /\ Only(s, f, m, 1 - y) /\ Next2(s, f, n, m)
    BY <1>2 DEF Turn
  <2>2. <<n, m>> \in ends
    <3>1. CASE y = 0
      <4>1. n \in at0 \ at1 /\ m \in at1 \ at0
        BY <1>0, <2>1, <3>1
      <4> QED BY <4>1
    <3>2. CASE y = 1
      <4>1. n \in at1 \ at0 /\ m \in at0 \ at1
        BY <1>0, <2>1, <3>2
      <4> QED BY <4>1
    <3> QED BY <2>1, <3>1, <3>2 DEF Bits
  <2>3. n < m /\ ~\E k \in at0 \union at1 : n < k /\ k < m
    BY <2>1 DEF Next2, NumbersOf
  <2> HIDE DEF ends
  <2>4. <<n, m>>[1] = n /\ <<n, m>>[2] = m
    OBVIOUS
  <2> QED BY <1>2, <2>2, <2>3, <2>4 DEF Bounds, ends
<1> QED BY <1>1, <1>2

LEMMA FlipsAreBounds ==
  ASSUME NEW s, NEW f, Plain(s, f)
  PROVE  Flips(s, f) = Bounds(s, f)
<1>1. \A at : at \in Flips(s, f) <=> at \in Bounds(s, f)
  BY FlipsAreTurns, BoundsAreTurns
<1> QED BY <1>1

-----------------------------------------------------------------------------
\* A boundary is where _validate_input_products looks for it.
LEMMA BoundSeparates ==
  ASSUME NEW s, NEW f, Plain(s, f), NEW at \in Bounds(s, f)
  PROVE  at \in Int /\ Separates(s, f, at)
<1>1. PICK n, m, y : Turn(s, f, n, m, y) /\ at = n + m
  BY BoundsAreTurns
<1>2. /\ n \in Int /\ m \in Int /\ y \in Bits /\ 1 - y \in Bits
      /\ Only(s, f, n, y) /\ Only(s, f, m, 1 - y) /\ Next2(s, f, n, m)
  BY <1>1 DEF Turn, Bits
<1>3. <<n, y>> \in Pairs(s, f) /\ <<m, 1 - y>> \in Pairs(s, f)
  BY <1>2, PairsAreNumbered DEF Only
<1>4. ASSUME NEW r \in Pairs(s, f), Less(<<n, y>>, r), Less(r, <<m, 1 - y>>) PROVE FALSE
  <2>1. r[2] \in Bits /\ r[1] \in NumberedAt(s, f, r[2])
    BY PairsAreNumbered
  <2>2. r[1] \in NumbersOf(s, f)
    BY <2>1 DEF NumbersOf, Bits
  <2>3. r[1] \in Int /\ r[2] \in Int /\ y \in Int
    BY <1>2, <2>1, <2>2, TermsAreNumbers DEF Bits
  <2>4. (n < r[1] \/ (n = r[1] /\ y < r[2])) /\ (r[1] < m \/ (r[1] = m /\ r[2] < 1 - y))
    BY <1>4 DEF Less
  <2>5. r[1] = n => r[2] = y
    BY <1>2, <2>1 DEF Only
  <2>6. r[1] = m => r[2] = 1 - y
    BY <1>2, <2>1 DEF Only
  <2>7. ~(n < r[1] /\ r[1] < m)
    BY <1>2, <2>2 DEF Next2
  <2> QED BY <1>2, <2>3, <2>4, <2>5, <2>6, <2>7
<1>5. 2 * n < at /\ at < 2 * m /\ at \in Int
  BY <1>1, <1>2 DEF Next2
<1>6. y # 1 - y
  BY <1>2 DEF Bits
<1>7. \E p, q \in Pairs(s, f) :
        /\ p[2] # q[2] /\ 2 * p[1] < at /\ at < 2 * q[1]
        /\ ~\E r \in Pairs(s, f) : Less(p, r) /\ Less(r, q)
  <2> DEFINE p == <<n, y>>
             q == <<m, 1 - y>>
  <2>1. p[1] = n /\ p[2] = y /\ q[1] = m /\ q[2] = 1 - y
    OBVIOUS
  <2> HIDE DEF p, q
  <2> QED BY <1>3, <1>4, <1>5, <1>6, <2>1 DEF p, q
<1> QED BY <1>5, <1>7 DEF Separates

\* An interval between two boundaries with positive numbers only.
PositiveIn(s, f, lo, hi) ==
  /\ lo \in Bounds(s, f) /\ hi \in Bounds(s, f)
  /\ \E n \in NumberedAt(s, f, 1) : lo <= 2 * n /\ 2 * n < hi
  /\ \A n \in NumberedAt(s, f, 0) : ~(lo <= 2 * n /\ 2 * n < hi)

LEMMA PositiveIsSo ==
  ASSUME NEW s, NEW f, Plain(s, f), NEW lo, NEW hi
  PROVE  PositiveIn(s, f, lo, hi) <=>
           lo \in Bounds(s, f) /\ hi \in Bounds(s, f) /\ IsSo(s, IntervalRow(f, lo, hi))
<1> DEFINE r == IntervalRow(f, lo, hi)
<1>1. r.product = "interval_insights" /\ r.field = f /\ r.lo = lo /\ r.hi = hi
  BY DEF IntervalRow
<1>2. \A at \in Bounds(s, f) : Divides(s, f, at)
  BY BoundSeparates, SeparatesIsDivides
<1> HIDE DEF r
<1>3. IsSo(s, r) <=> /\ Divides(s, f, lo) /\ Divides(s, f, hi)
                     /\ \E n \in NumberedAt(s, f, 1) : lo <= 2 * n /\ 2 * n < hi
                     /\ \A n \in NumberedAt(s, f, 0) : ~(lo <= 2 * n /\ 2 * n < hi)
  BY <1>1 DEF IsSo
<1> QED BY <1>2, <1>3 DEF PositiveIn, r

LEMMA PositiveIsValid ==
  ASSUME NEW s, NEW f, Plain(s, f), NEW lo, NEW hi, PositiveIn(s, f, lo, hi)
  PROVE  ValidInterval(s, IntervalRow(f, lo, hi))
<1> DEFINE r == IntervalRow(f, lo, hi)
<1>1. r.field = f /\ r.lo = lo /\ r.hi = hi
  BY DEF IntervalRow
<1>2. PICK n \in NumberedAt(s, f, 1) : lo <= 2 * n /\ 2 * n < hi
  BY DEF PositiveIn
<1>3. lo \in Int /\ hi \in Int /\ Separates(s, f, lo) /\ Separates(s, f, hi)
  BY BoundSeparates DEF PositiveIn
<1>4. <<n, 1>> \in Pairs(s, f) /\ n \in Int
  BY PairsAreNumbered DEF Bits
<1> HIDE DEF r
<1>5. lo < hi
  BY <1>2, <1>3, <1>4
<1>6. \E p \in Pairs(s, f) : p[2] = 1 /\ Within(r, p)
  <2> DEFINE p == <<n, 1>>
  <2>1. p[1] = n /\ p[2] = 1
    OBVIOUS
  <2> HIDE DEF p
  <2> QED BY <1>1, <1>2, <1>4, <2>1 DEF Within, p
<1>7. ASSUME NEW p \in Pairs(s, f), p[2] = 0, Within(r, p) PROVE FALSE
  <2>1. p[1] \in NumberedAt(s, f, 0)
    BY <1>7, PairsAreNumbered
  <2> QED BY <1>1, <1>7, <2>1 DEF Within, PositiveIn
<1> QED BY <1>1, <1>3, <1>5, <1>6, <1>7 DEF ValidInterval, r

\* The intervals of the collective are between a turn to positive numbers and one
\* from them, and are all of these.
LEMMA IntervalIsPositive ==
  ASSUME NEW s, NEW f, Plain(s, f), NEW i \in Intervals(s, f)
  PROVE  i = [lo |-> i.lo, hi |-> i.hi] /\ PositiveIn(s, f, i.lo, i.hi)
<1> DEFINE terms == Terms(s, f)
<1>1. PICK r \in Runs(s, f) : i = [lo |-> Mid(r[1][1], r[1][2]), hi |-> Mid(r[2][1], r[2][2])]
  BY DEF Intervals
<1>2. PICK a, b, c, d \in terms :
        /\ i = [lo |-> Mid(a, b), hi |-> Mid(c, d)]
        /\ StateOf(s, f, a) = {0} /\ StateOf(s, f, b) = {1} /\ Follows(terms, a, b)
        /\ StateOf(s, f, c) = {1} /\ StateOf(s, f, d) = {0} /\ Follows(terms, c, d)
        /\ ~Before(c, b)
        /\ \A v \in terms : ~Before(v, b) /\ ~Before(c, v) => StateOf(s, f, v) = {1}
  <2>1. r[1] \in Edges(s, f, 0, 1) /\ r[2] \in Edges(s, f, 1, 0)
        /\ ~Before(r[2][1], r[1][2])
        /\ \A v \in terms : ~Before(v, r[1][2]) /\ ~Before(r[2][1], v) => StateOf(s, f, v) = {1}
    BY DEF Runs
  <2>2. /\ r[1] \in terms \X terms /\ StateOf(s, f, r[1][1]) = {0} /\ StateOf(s, f, r[1][2]) = {1}
        /\ Follows(terms, r[1][1], r[1][2])
    BY <2>1 DEF Edges
  <2>3. /\ r[2] \in terms \X terms /\ StateOf(s, f, r[2][1]) = {1} /\ StateOf(s, f, r[2][2]) = {0}
        /\ Follows(terms, r[2][1], r[2][2])
    BY <2>1 DEF Edges
  <2>4. r[1][1] \in terms /\ r[1][2] \in terms /\ r[2][1] \in terms /\ r[2][2] \in terms
    BY <2>2, <2>3
  <2> HIDE DEF terms
  <2> QED BY <1>1, <2>1, <2>2, <2>3, <2>4
<1>3. 0 \in Bits /\ 1 \in Bits /\ 1 - 0 = 1 /\ 1 - 1 = 0
  BY DEF Bits
<1>4. Turn(s, f, a.num, b.num, 0) /\ Turn(s, f, c.num, d.num, 1)
  BY <1>2, <1>3, TurnsOfTerms
<1>5. i.lo = a.num + b.num /\ i.hi = c.num + d.num
  BY <1>2 DEF Mid
<1>6. i.lo \in Bounds(s, f) /\ i.hi \in Bounds(s, f)
  BY <1>4, <1>5, BoundsAreTurns
<1>7. /\ a.num \in Int /\ b.num \in Int /\ c.num \in Int /\ d.num \in Int
      /\ a.num < b.num /\ c.num < d.num /\ b.num <= c.num
  <2>1. a.num < b.num /\ c.num < d.num
    BY <1>4 DEF Turn, Next2
  <2>2. ~(c.num < b.num)
    BY <1>2, TermsAreNumbers
  <2> QED BY <1>2, <2>1, <2>2, TermsAreNumbers
<1>8. b.num \in NumberedAt(s, f, 1) /\ i.lo <= 2 * b.num /\ 2 * b.num < i.hi
  <2>1. b.num \in NumberedAt(s, f, 1)
    BY <1>3, <1>4 DEF Turn, Only
  <2> QED BY <1>5, <1>7, <2>1
<1>9. ASSUME NEW n \in NumberedAt(s, f, 0), i.lo <= 2 * n, 2 * n < i.hi PROVE FALSE
  <2>1. PICK v \in terms : v.num = n /\ 0 \in StateOf(s, f, v)
    BY <1>3, NumberIsATerm
  <2>2. n \in Int
    BY <2>1, TermsAreNumbers
  <2>3. a.num < n /\ n < d.num
    BY <1>5, <1>7, <1>9, <2>2
  <2>4. ~(n < b.num) /\ ~(c.num < n)
    <3>1. n \in NumbersOf(s, f)
      BY DEF NumbersOf
    <3> QED BY <1>4, <2>3, <3>1 DEF Turn, Next2
  <2>5. ~Before(v, b) /\ ~Before(c, v)
    BY <1>2, <2>1, <2>4, TermsAreNumbers
  <2>6. StateOf(s, f, v) = {1}
    BY <1>2, <2>5
  <2> QED BY <2>1, <2>6
<1> QED BY <1>2, <1>6, <1>8, <1>9 DEF PositiveIn

LEMMA PositiveIsAnInterval ==
  ASSUME NEW s, NEW f, Plain(s, f), NEW lo, NEW hi, PositiveIn(s, f, lo, hi)
  PROVE  [lo |-> lo, hi |-> hi] \in Intervals(s, f)
<1> DEFINE terms == Terms(s, f)
<1>1. PICK na, nb, y : Turn(s, f, na, nb, y) /\ lo = na + nb
  BY BoundsAreTurns DEF PositiveIn
<1>2. PICK nc, nd, z : Turn(s, f, nc, nd, z) /\ hi = nc + nd
  BY BoundsAreTurns DEF PositiveIn
<1>3. PICK n \in NumberedAt(s, f, 1) : lo <= 2 * n /\ 2 * n < hi
  BY DEF PositiveIn
<1>4. /\ na \in Int /\ nb \in Int /\ nc \in Int /\ nd \in Int /\ na < nb /\ nc < nd
      /\ n \in Int /\ n \in NumbersOf(s, f) /\ nb \in NumbersOf(s, f) /\ nc \in NumbersOf(s, f)
  <2>1. n \in NumbersOf(s, f) /\ nb \in NumbersOf(s, f) /\ nc \in NumbersOf(s, f)
    BY <1>1, <1>2 DEF NumbersOf, Turn, Only, Bits
  <2> QED BY <1>1, <1>2, <2>1, TermsAreNumbers DEF Turn, Next2
<1>5. nb <= n /\ n <= nc
  <2>1. na < n /\ n < nd
    BY <1>1, <1>2, <1>3, <1>4
  <2>2. ~(na < n /\ n < nb) /\ ~(nc < n /\ n < nd)
    BY <1>1, <1>2, <1>4 DEF Turn, Next2
  <2> QED BY <1>4, <2>1, <2>2
<1>6. \A k \in NumbersOf(s, f) : nb <= k /\ k <= nc => Only(s, f, k, 1)
  <2> SUFFICES ASSUME NEW k \in NumbersOf(s, f), nb <= k, k <= nc PROVE Only(s, f, k, 1)
    OBVIOUS
  <2>1. k \in Int
    BY TermsAreNumbers
  <2>2. lo <= 2 * k /\ 2 * k < hi
    BY <1>1, <1>2, <1>4, <2>1
  <2>3. k \notin NumberedAt(s, f, 0)
    BY <2>2 DEF PositiveIn
  <2>4. k \in NumberedAt(s, f, 1)
    BY <2>3 DEF NumbersOf
  <2> QED BY <2>3, <2>4 DEF Only, Bits
<1>7. y = 0 /\ z = 1
  <2>1. Only(s, f, nb, 1) /\ Only(s, f, nc, 1)
    BY <1>4, <1>5, <1>6
  <2>2. y \in Bits /\ Only(s, f, nb, 1 - y) /\ z \in Bits /\ Only(s, f, nc, z)
    BY <1>1, <1>2 DEF Turn
  <2>3. 1 - y = 1 /\ z = 1
    BY <2>1, <2>2 DEF Only, Bits
  <2> QED BY <2>2, <2>3 DEF Bits
<1>8. PICK a, b \in terms : a.num = na /\ b.num = nb
  BY <1>1, TurnTerms
<1>9. PICK c, d \in terms : c.num = nc /\ d.num = nd
  BY <1>2, TurnTerms
<1>10. 0 \in Bits /\ 1 \in Bits /\ 1 - 0 = 1 /\ 1 - 1 = 0
  BY DEF Bits
<1>11. /\ StateOf(s, f, a) = {0} /\ StateOf(s, f, b) = {1} /\ Follows(terms, a, b)
       /\ StateOf(s, f, c) = {1} /\ StateOf(s, f, d) = {0} /\ Follows(terms, c, d)
  BY <1>1, <1>2, <1>7, <1>8, <1>9, <1>10, TurnsOfTerms
<1>12. ~Before(c, b)
  BY <1>4, <1>5, <1>8, <1>9, TermsAreNumbers
<1>13. \A v \in terms : ~Before(v, b) /\ ~Before(c, v) => StateOf(s, f, v) = {1}
  <2> SUFFICES ASSUME NEW v \in terms, ~Before(v, b), ~Before(c, v) PROVE StateOf(s, f, v) = {1}
    OBVIOUS
  <2>1. v.num \in Int /\ v.num \in NumbersOf(s, f) /\ ~(v.num < nb) /\ ~(nc < v.num)
    BY <1>8, <1>9, TermsAreNumbers
  <2>2. Only(s, f, v.num, 1)
    BY <1>4, <1>6, <2>1
  <2> QED BY <1>10, <2>2, TermsAreNumbers DEF Only
<1> DEFINE r == <<<<a, b>>, <<c, d>>>>
<1>14. r[1][1] = a /\ r[1][2] = b /\ r[2][1] = c /\ r[2][2] = d /\ r[1] = <<a, b>> /\ r[2] = <<c, d>>
  OBVIOUS
<1>15. r \in Edges(s, f, 0, 1) \X Edges(s, f, 1, 0)
  <2>1. <<a, b>> \in Edges(s, f, 0, 1) /\ <<c, d>> \in Edges(s, f, 1, 0)
    <3>1. \A u, v : <<u, v>>[1] = u /\ <<u, v>>[2] = v
      OBVIOUS
    <3>2. <<a, b>> \in terms \X terms /\ <<c, d>> \in terms \X terms
      OBVIOUS
    <3> HIDE DEF terms
    <3> QED BY <1>11, <3>1, <3>2 DEF Edges, terms
  <2> QED BY <2>1
<1> HIDE DEF r
<1>16. r \in Runs(s, f)
  BY <1>12, <1>13, <1>14, <1>15 DEF Runs
<1>17. lo = Mid(a, b) /\ hi = Mid(c, d)
  BY <1>1, <1>2, <1>8, <1>9 DEF Mid
<1> QED BY <1>14, <1>16, <1>17 DEF Intervals

-----------------------------------------------------------------------------
\* What is derived of each product.
DerivedRows(s, p, fields) ==
  CASE p \in {"threshold_insights", "threshold_proposals"} -> ThresholdRows(s, p, fields)
    [] p = "interval_insights" -> IntervalRows(s, fields)
    [] p = "literal_redundancies" ->
         {PairRow(p, x[1], x[2]) : x \in {x \in LiteralPairs(s) : x[1] < x[2] /\ Equivalent(s, x[1], x[2])}}
    [] p = "literal_subsumptions" ->
         {PairRow(p, x[1], x[2]) : x \in {x \in LiteralPairs(s) : LiteralSubsumes(s, x[1], x[2])}}
    [] p = "clause_subsumptions" ->
         {PairRow(p, x[1], x[2]) : x \in {x \in Described(s) \X Described(s) : ClauseSubsumes(s, x[1], x[2])}}
    [] p = "weight_proposals" -> WeightRows(s)

LEMMA DerivedRowsAreOfIt ==
  ASSUME NEW s, NEW p \in Products, NEW fields, NEW r \in DerivedRows(s, p, fields)
  PROVE  r.product = p
BY DEF DerivedRows, Products, ThresholdRows, IntervalRows, WeightRows, ThresholdRow, IntervalRow,
       PairRow, WeightRow

LEMMA DerivedByProduct ==
  ASSUME NEW p \in Products
  PROVE  RowsOf(Derived(session, query, Selected), p) =
           IF AskedFor(p) THEN DerivedRows(session, p, Selected) ELSE {}
<1> DEFINE D == Derived(session, query, Selected)
           R(q) == DerivedRows(session, q, Selected)
           A(q) == IF AskedFor(q) THEN R(q) ELSE {}
<1>1. \A q \in Products : \A r \in A(q) : r.product = q
  BY DerivedRowsAreOfIt
<1>2. /\ R("threshold_insights") = ThresholdRows(session, "threshold_insights", Selected)
      /\ R("interval_insights") = IntervalRows(session, Selected)
      /\ R("literal_redundancies") =
           {PairRow("literal_redundancies", x[1], x[2]) :
              x \in {x \in LiteralPairs(session) : x[1] < x[2] /\ Equivalent(session, x[1], x[2])}}
      /\ R("literal_subsumptions") =
           {PairRow("literal_subsumptions", x[1], x[2]) :
              x \in {x \in LiteralPairs(session) : LiteralSubsumes(session, x[1], x[2])}}
      /\ R("clause_subsumptions") =
           {PairRow("clause_subsumptions", x[1], x[2]) :
              x \in {x \in Described(session) \X Described(session) : ClauseSubsumes(session, x[1], x[2])}}
      /\ R("threshold_proposals") = ThresholdRows(session, "threshold_proposals", Selected)
      /\ R("weight_proposals") = WeightRows(session)
  BY DEF DerivedRows
<1> HIDE DEF R
<1>3. D = (IF query.thresholds THEN R("threshold_insights") ELSE {}) \union
          (IF query.intervals THEN R("interval_insights") ELSE {}) \union
          (IF query.deescalation
           THEN R("literal_redundancies") \union R("literal_subsumptions") \union R("clause_subsumptions")
           ELSE {}) \union
          (IF query.escalation THEN R("threshold_proposals") \union R("weight_proposals") ELSE {})
  BY <1>2 DEF Derived
<1>4. /\ AskedFor("threshold_insights") = query.thresholds
      /\ AskedFor("interval_insights") = query.intervals
      /\ AskedFor("literal_redundancies") = query.deescalation
      /\ AskedFor("literal_subsumptions") = query.deescalation
      /\ AskedFor("clause_subsumptions") = query.deescalation
      /\ AskedFor("threshold_proposals") = query.escalation
      /\ AskedFor("weight_proposals") = query.escalation
  BY DEF AskedFor
<1>5. D = UNION {A(q) : q \in Products}
  <2>1. \A r : r \in D <=>
          \/ r \in A("threshold_insights") \/ r \in A("interval_insights")
          \/ r \in A("literal_redundancies") \/ r \in A("literal_subsumptions")
          \/ r \in A("clause_subsumptions") \/ r \in A("threshold_proposals")
          \/ r \in A("weight_proposals")
    BY <1>3, <1>4
  <2> HIDE DEF A, D
  <2>2. \A r : r \in UNION {A(q) : q \in Products} <=> \E q \in Products : r \in A(q)
    OBVIOUS
  <2> QED BY <2>1, <2>2 DEF Products
<1> HIDE DEF A, D
<1>6. RowsOf(D, p) = A(p)
  BY <1>1, <1>5 DEF RowsOf
<1> QED BY <1>6 DEF A, D, R

\* A field that is selected, with numbers of one type, is plain.
LEMMA SelectedIsPlain ==
  ASSUME session \in SessionType, Admitted, PlainNumbers(session, Selected), NEW f \in Selected
  PROVE  Plain(session, f)
<1>1. ServesField(session, f)
  BY DEF Admitted, WithinBudget, FieldsServe, NumericField, OneNumberEach, OneLabelEach, ServesField
<1>2. PlainNumbers(session, {f})
  BY DEF PlainNumbers
<1> QED BY <1>1, <1>2 DEF Plain

\* What is derived of a product is what the session bears out.
LEMMA DerivedIsBornOut ==
  ASSUME session \in SessionType, Admitted, NEW p \in Products,
         p \in {"threshold_insights", "threshold_proposals", "interval_insights"} =>
           PlainNumbers(session, Selected)
  PROVE  DerivedRows(session, p, Selected) = BornOut(session, p)
<1>1. CASE p \in {"threshold_insights", "threshold_proposals"}
  <2>1. \A f \in Selected : Flips(session, f) = Bounds(session, f)
    BY <1>1, SelectedIsPlain, FlipsAreBounds
  <2>2. BornOut(session, p) = UNION {{ThresholdRow(p, f, at) : at \in Bounds(session, f)} : f \in Selected}
    BY <1>1 DEF BornOut
  <2>3. DerivedRows(session, p, Selected) =
          UNION {{ThresholdRow(p, f, at) : at \in Flips(session, f)} : f \in Selected}
    BY <1>1 DEF DerivedRows, ThresholdRows
  <2> QED BY <2>1, <2>2, <2>3
<1>2. CASE p = "interval_insights"
  <2>1. BornOut(session, p) =
          UNION {{r \in {IntervalRow(f, lo, hi) : lo \in Bounds(session, f), hi \in Bounds(session, f)} :
                    IsSo(session, r)} : f \in Selected}
    BY <1>2 DEF BornOut
  <2>2. DerivedRows(session, p, Selected) =
          UNION {{IntervalRow(f, i.lo, i.hi) : i \in Intervals(session, f)} : f \in Selected}
    BY <1>2 DEF DerivedRows, IntervalRows
  <2>3. ASSUME NEW f \in Selected
        PROVE  {IntervalRow(f, i.lo, i.hi) : i \in Intervals(session, f)} =
                 {r \in {IntervalRow(f, lo, hi) : lo \in Bounds(session, f), hi \in Bounds(session, f)} :
                    IsSo(session, r)}
    <3>1. Plain(session, f)
      BY <1>2, SelectedIsPlain
    <3>2. ASSUME NEW i \in Intervals(session, f)
          PROVE  i.lo \in Bounds(session, f) /\ i.hi \in Bounds(session, f)
                 /\ IsSo(session, IntervalRow(f, i.lo, i.hi))
      BY <3>1, IntervalIsPositive, PositiveIsSo
    <3>3. ASSUME NEW lo \in Bounds(session, f), NEW hi \in Bounds(session, f),
                 IsSo(session, IntervalRow(f, lo, hi))
          PROVE  \E i \in Intervals(session, f) : i.lo = lo /\ i.hi = hi
      <4>1. [lo |-> lo, hi |-> hi] \in Intervals(session, f)
        BY <3>1, <3>3, PositiveIsSo, PositiveIsAnInterval
      <4> QED BY <4>1
    <3> QED BY <3>2, <3>3
  <2> QED BY <2>1, <2>2, <2>3
<1> DEFINE lits == SubjectsOf(session, "literal_truths")
<1>3. lits \subseteq Literals /\ Literals \subseteq Int
  BY FactTypes, NumbersAssumption DEF SubjectsOf
<1>4. CASE p = "literal_redundancies"
  <2>1. DerivedRows(session, p, Selected) =
          {PairRow(p, x[1], x[2]) : x \in {x \in lits \X lits : x[1] < x[2] /\ Equivalent(session, x[1], x[2])}}
    BY <1>4 DEF DerivedRows, LiteralPairs
  <2>2. BornOut(session, p) =
          {r \in {PairRow(p, x, y) : x \in Literals, y \in Literals} :
             r.left < r.right /\ {r.left, r.right} \subseteq lits /\ IsSo(session, r)}
    BY <1>4 DEF BornOut, KnownIn
  <2>3. \A x, y : PairRow(p, x, y).left = x /\ PairRow(p, x, y).right = y
                  /\ (IsSo(session, PairRow(p, x, y)) <=> x # y /\ Equivalent(session, x, y))
    BY <1>4 DEF PairRow, IsSo
  <2>4. \A x \in Int : \A y \in Int : x < y => x # y
    OBVIOUS
  <2> HIDE DEF lits
  <2>5. \A x \in lits, y \in lits : <<x, y>> \in lits \X lits /\ <<x, y>>[1] = x /\ <<x, y>>[2] = y
    OBVIOUS
  <2>6. ASSUME NEW r \in DerivedRows(session, p, Selected) PROVE r \in BornOut(session, p)
    <3>1. PICK x \in lits \X lits : x[1] < x[2] /\ Equivalent(session, x[1], x[2]) /\ r = PairRow(p, x[1], x[2])
      BY <2>1, <2>6
    <3>2. x[1] \in lits /\ x[2] \in lits /\ x[1] \in Literals /\ x[2] \in Literals /\ x[1] # x[2]
      BY <1>3, <2>4, <3>1
    <3> QED BY <2>2, <2>3, <3>1, <3>2
  <2>7. ASSUME NEW r \in BornOut(session, p) PROVE r \in DerivedRows(session, p, Selected)
    <3>1. PICK x \in Literals, y \in Literals : r = PairRow(p, x, y)
      BY <2>2, <2>7
    <3>2. x < y /\ x \in lits /\ y \in lits /\ Equivalent(session, x, y)
      BY <2>2, <2>3, <2>7, <3>1
    <3> QED BY <2>1, <2>5, <3>1, <3>2
  <2> QED BY <2>6, <2>7
<1>5. CASE p = "literal_subsumptions"
  <2>1. DerivedRows(session, p, Selected) =
          {PairRow(p, x[1], x[2]) : x \in {x \in lits \X lits : LiteralSubsumes(session, x[1], x[2])}}
    BY <1>5 DEF DerivedRows, LiteralPairs
  <2>2. BornOut(session, p) =
          {r \in {PairRow(p, x, y) : x \in Literals, y \in Literals} :
             {r.left, r.right} \subseteq lits /\ IsSo(session, r)}
    BY <1>5 DEF BornOut, KnownIn
  <2>3. \A x, y : PairRow(p, x, y).left = x /\ PairRow(p, x, y).right = y
                  /\ (IsSo(session, PairRow(p, x, y)) <=> LiteralSubsumes(session, x, y))
    BY <1>5 DEF PairRow, IsSo
  <2> HIDE DEF lits
  <2>5. \A x \in lits, y \in lits : <<x, y>> \in lits \X lits /\ <<x, y>>[1] = x /\ <<x, y>>[2] = y
    OBVIOUS
  <2>6. ASSUME NEW r \in DerivedRows(session, p, Selected) PROVE r \in BornOut(session, p)
    <3>1. PICK x \in lits \X lits : LiteralSubsumes(session, x[1], x[2]) /\ r = PairRow(p, x[1], x[2])
      BY <2>1, <2>6
    <3>2. x[1] \in lits /\ x[2] \in lits /\ x[1] \in Literals /\ x[2] \in Literals
      BY <1>3, <3>1
    <3> QED BY <2>2, <2>3, <3>1, <3>2
  <2>7. ASSUME NEW r \in BornOut(session, p) PROVE r \in DerivedRows(session, p, Selected)
    <3>1. PICK x \in Literals, y \in Literals : r = PairRow(p, x, y)
      BY <2>2, <2>7
    <3>2. x \in lits /\ y \in lits /\ LiteralSubsumes(session, x, y)
      BY <2>2, <2>3, <2>7, <3>1
    <3> QED BY <2>1, <2>5, <3>1, <3>2
  <2> QED BY <2>6, <2>7
<1>6. CASE p = "clause_subsumptions"
  <2> DEFINE S == Described(session)
  <2>1. DerivedRows(session, p, Selected) =
          {PairRow(p, x[1], x[2]) : x \in {x \in S \X S : ClauseSubsumes(session, x[1], x[2])}}
    BY <1>6 DEF DerivedRows
  <2>2. BornOut(session, p) =
          {r \in {PairRow(p, c, d) : c \in Clauses, d \in Clauses} :
             /\ {r.left, r.right} \subseteq SubjectsOf(session, "clause_truths")
             /\ LiteralsOf(session, r.left) # {} /\ IsSo(session, r)}
    BY <1>6 DEF BornOut, KnownIn
  <2>3. \A c, d : PairRow(p, c, d).left = c /\ PairRow(p, c, d).right = d
                  /\ (IsSo(session, PairRow(p, c, d)) <=> ClauseSubsumes(session, c, d))
    BY <1>6 DEF PairRow, IsSo
  <2>4. \A c : c \in S <=> c \in SubjectsOf(session, "clause_truths") /\ LiteralsOf(session, c) # {}
    BY DEF Described
  <2>5. SubjectsOf(session, "clause_truths") \subseteq Clauses
    BY FactTypes DEF SubjectsOf
  <2> HIDE DEF S
  <2>6. \A x \in S, y \in S : <<x, y>> \in S \X S /\ <<x, y>>[1] = x /\ <<x, y>>[2] = y
    OBVIOUS
  <2>7. ASSUME NEW r \in DerivedRows(session, p, Selected) PROVE r \in BornOut(session, p)
    <3>1. PICK x \in S \X S : ClauseSubsumes(session, x[1], x[2]) /\ r = PairRow(p, x[1], x[2])
      BY <2>1, <2>7
    <3>2. x[1] \in S /\ x[2] \in S
      BY <3>1
    <3> QED BY <2>2, <2>3, <2>4, <2>5, <3>1, <3>2
  <2>8. ASSUME NEW r \in BornOut(session, p) PROVE r \in DerivedRows(session, p, Selected)
    <3>1. PICK c \in Clauses, d \in Clauses : r = PairRow(p, c, d)
      BY <2>2, <2>8
    <3>2. ClauseSubsumes(session, c, d) /\ c \in S /\ d \in SubjectsOf(session, "clause_truths")
      BY <2>2, <2>3, <2>4, <2>8, <3>1
    <3>3. LiteralsOf(session, d) # {}
      BY <2>4, <3>2 DEF ClauseSubsumes
    <3> QED BY <2>1, <2>4, <2>6, <3>1, <3>2, <3>3
  <2> QED BY <2>7, <2>8
<1>7. CASE p = "weight_proposals"
  <2> DEFINE facts == FactsOf(session, "clause_class_scores")
  <2>1. DerivedRows(session, p, Selected) =
          {WeightRow(t.clause, t.class, Weight(t.score)) :
             t \in {t \in facts : t.class \in Supported(session) /\ Weight(t.score) # 0}}
    BY <1>7 DEF DerivedRows, WeightRows
  <2>2. BornOut(session, p) =
          {r \in {WeightRow(c, k, Weight(n)) : c \in Clauses, k \in Classes, n \in Scores} :
             r.weight # 0 /\ IsSo(session, r)}
    BY <1>7 DEF BornOut
  <2>3. \A c, k, w : /\ WeightRow(c, k, w).weight = w
                     /\ IsSo(session, WeightRow(c, k, w)) <=>
                          k \in Supported(session) /\
                          \E t \in facts : t.clause = c /\ t.class = k /\ Weight(t.score) = w
    BY DEF WeightRow, IsSo
  <2>4. \A t \in facts : t.clause \in Clauses /\ t.class \in Classes /\ t.score \in Scores
    BY FactTypes
  <2> HIDE DEF facts
  <2>5. ASSUME NEW r \in DerivedRows(session, p, Selected) PROVE r \in BornOut(session, p)
    <3>1. PICK t \in facts : /\ t.class \in Supported(session) /\ Weight(t.score) # 0
                             /\ r = WeightRow(t.clause, t.class, Weight(t.score))
      BY <2>1, <2>5
    <3> QED BY <2>2, <2>3, <2>4, <3>1
  <2>6. ASSUME NEW r \in BornOut(session, p) PROVE r \in DerivedRows(session, p, Selected)
    <3>1. PICK c \in Clauses, k \in Classes, n \in Scores : r = WeightRow(c, k, Weight(n))
      BY <2>2, <2>6
    <3>2. Weight(n) # 0 /\ k \in Supported(session) /\
          \E t \in facts : t.clause = c /\ t.class = k /\ Weight(t.score) = Weight(n)
      BY <2>2, <2>3, <2>6, <3>1
    <3> QED BY <2>1, <3>1, <3>2
  <2> QED BY <2>5, <2>6
<1> QED BY <1>1, <1>2, <1>4, <1>5, <1>6, <1>7 DEF Products

-----------------------------------------------------------------------------
\* Each row that is derived of a plain session passes the check of its product.
LEMMA DerivedIsValid ==
  ASSUME session \in SessionType, Admitted, PlainNumbers(session, Selected), PlainScores(session),
         NEW r \in Derived(session, query, Selected)
  PROVE  ValidRow(session, r)
<1> DEFINE p == r.product
<1>1. p \in Products /\ r \in RowsOf(Derived(session, query, Selected), p)
  BY DerivedHasProducts DEF RowsOf
<1>2. r \in DerivedRows(session, p, Selected) /\ AskedFor(p)
  BY <1>1, DerivedByProduct
<1>3. r \in BornOut(session, p)
  BY <1>1, <1>2, DerivedIsBornOut
<1>4. CASE p \in {"threshold_insights", "threshold_proposals"}
  <2>1. PICK f \in Selected : \E at \in Bounds(session, f) : r = ThresholdRow(p, f, at)
    BY <1>3, <1>4 DEF BornOut
  <2>2. r.field = f /\ r.at \in Bounds(session, f)
    BY <2>1 DEF ThresholdRow
  <2>3. Separates(session, r.field, r.at)
    BY <2>2, SelectedIsPlain, BoundSeparates
  <2> QED BY <1>4, <2>3 DEF ValidRow
<1>5. CASE p = "interval_insights"
  <2>1. PICK f \in Selected : r \in {r1 \in {IntervalRow(f, lo, hi) :
            lo \in Bounds(session, f), hi \in Bounds(session, f)} : IsSo(session, r1)}
    BY <1>3, <1>5 DEF BornOut
  <2>2. PICK lo \in Bounds(session, f), hi \in Bounds(session, f) : r = IntervalRow(f, lo, hi)
    BY <2>1
  <2>3. PositiveIn(session, f, lo, hi)
    BY <2>1, <2>2, SelectedIsPlain, PositiveIsSo
  <2>4. ValidInterval(session, r)
    BY <2>2, <2>3, SelectedIsPlain, PositiveIsValid
  <2> QED BY <1>5, <2>4 DEF ValidRow
<1>6. ASSUME p \in {"literal_redundancies", "literal_subsumptions"}
      PROVE  /\ r.left # r.right /\ KnownIn(session, "literal_truths", {r.left, r.right})
             /\ OneTruthEach("literal_truths") /\ IsSo(session, r)
  <2>1. r.left # r.right /\ IsSo(session, r) /\ KnownIn(session, "literal_truths", {r.left, r.right})
    <3>1. r \in {r1 \in {PairRow(p, x, y) : x \in Literals, y \in Literals} :
                   /\ p = "literal_redundancies" => r1.left < r1.right
                   /\ KnownIn(session, "literal_truths", {r1.left, r1.right}) /\ IsSo(session, r1)}
      BY <1>3, <1>6 DEF BornOut
    <3>2. IsSo(session, r) => r.left # r.right
      BY <1>6 DEF IsSo, LiteralSubsumes
    <3> QED BY <3>1, <3>2
  <2>2. query.deescalation
    BY <1>2, <1>6 DEF AskedFor
  <2> QED BY <2>1, <2>2 DEF Admitted
<1>7. CASE p = "literal_redundancies"
  <2>1. Equivalent(session, r.left, r.right)
    BY <1>6, <1>7 DEF IsSo
  <2>2. SameVector(session, r.left, r.right)
    BY <1>6, <1>7, <2>1, SameVectorIsEquivalent DEF KnownIn
  <2> QED BY <1>6, <1>7, <2>2 DEF ValidRow
<1>8. CASE p = "literal_subsumptions"
  <2>1. LiteralSubsumes(session, r.left, r.right)
    BY <1>6, <1>8 DEF IsSo
  <2>2. ~SameVector(session, r.left, r.right) /\ Implies(session, "literal_truths", r.left, r.right)
    BY <1>6, <1>8, <2>1, SameVectorIsEquivalent DEF KnownIn, LiteralSubsumes
  <2> QED BY <1>6, <1>8, <2>2 DEF ValidRow
<1>9. CASE p = "clause_subsumptions"
  <2>1. r \in {r1 \in {PairRow(p, c, d) : c \in Clauses, d \in Clauses} :
                 /\ KnownIn(session, "clause_truths", {r1.left, r1.right})
                 /\ LiteralsOf(session, r1.left) # {} /\ IsSo(session, r1)}
    BY <1>3, <1>9 DEF BornOut
  <2>2. ClauseSubsumes(session, r.left, r.right)
    <3>1. IsSo(session, r)
      BY <2>1
    <3> QED BY <1>9, <3>1 DEF IsSo
  <2>3. r.left # r.right
    BY <2>2 DEF ClauseSubsumes
  <2> QED BY <1>9, <2>1, <2>2, <2>3 DEF ValidRow, ClauseSubsumes
<1>10. CASE p = "weight_proposals"
  <2> DEFINE facts == FactsOf(session, "clause_class_scores")
             same  == {t \in facts : t.clause = r.clause /\ t.class = r.class}
  <2>1. r.weight # 0 /\ IsSo(session, r)
    <3>1. r \in {r1 \in {WeightRow(c, k, Weight(n)) : c \in Clauses, k \in Classes, n \in Scores} :
                   r1.weight # 0 /\ IsSo(session, r1)}
      BY <1>3, <1>10 DEF BornOut
    <3> QED BY <3>1
  <2>2. r.class \in Supported(session) /\ \E t \in same : Weight(t.score) = r.weight
    BY <1>10, <2>1 DEF IsSo
  <2>3. PICK t \in same : Weight(t.score) = r.weight
    BY <2>2
  <2>4. \A u \in same : u.score = t.score
    BY DEF PlainScores
  <2>5. t.score \in Scores
    BY FactTypes
  <2>6. {u.score : u \in same} = {t.score}
    BY <2>4
  <2> QED BY <1>10, <2>1, <2>2, <2>3, <2>5, <2>6 DEF ValidRow
<1> QED BY <1>1, <1>4, <1>5, <1>7, <1>8, <1>9, <1>10 DEF Products

\* What an honest print is of a product.
LEMMA HonestProduct ==
  ASSUME session \in SessionType, Admitted, NEW h \in Honest(Derived(session, query, Selected)),
         NEW p \in Products, NEW X, X = RowsOf(Derived(session, query, Selected), p)
  PROVE  /\ IsFiniteSet(X) /\ Cardinality(X) \in Nat
         /\ RowsOf(h.rows, p) \subseteq X /\ h.available[p] = Cardinality(X)
         /\ Cardinality(RowsOf(h.rows, p)) =
              (IF Cardinality(X) < query.results THEN Cardinality(X) ELSE query.results)
<1> DEFINE D == Derived(session, query, Selected)
<1>1. IsFiniteSet(D)
  BY SelectedIsFinite, DerivedIsFinite DEF Admitted
<1> HIDE DEF D
<1>2. IsFiniteSet(X)
  BY <1>1, FS_Subset DEF RowsOf, D
<1>3. PICK rows \in SUBSET D :
        /\ h.rows = rows /\ h.available = [q \in Products |-> Cardinality(RowsOf(D, q))]
        /\ \A q \in Products :
             Cardinality(RowsOf(rows, q)) =
               (IF Cardinality(RowsOf(D, q)) < query.results
                THEN Cardinality(RowsOf(D, q)) ELSE query.results)
  BY DEF Honest, D
<1>4. RowsOf(h.rows, p) \subseteq X
  BY <1>3 DEF RowsOf, D
<1>5. X = RowsOf(D, p)
  BY DEF D
<1>6. h.available[p] = Cardinality(X)
  BY <1>3, <1>5
<1>7. Cardinality(RowsOf(h.rows, p)) =
        (IF Cardinality(X) < query.results THEN Cardinality(X) ELSE query.results)
  BY <1>3, <1>5
<1> QED BY <1>2, <1>4, <1>6, <1>7, FS_CardinalityType

\* An honest child is believed, of a plain session.
LEMMA HonestIsBelieved ==
  ASSUME session \in SessionType, Admitted, PlainNumbers(session, Selected), PlainScores(session),
         NEW h \in Honest(Derived(session, query, Selected))
  PROVE  Judged(h) # "disbelieved"
<1>1. \A r \in h.rows : ValidRow(session, r)
  BY DerivedIsValid DEF Honest
<1>2. ASSUME NEW p \in Products, ~AskedFor(p) PROVE h.available[p] = 0
  <2>1. RowsOf(Derived(session, query, Selected), p) = {}
    BY <1>2, DerivedByProduct
  <2>2. h.available[p] = Cardinality({})
    BY <2>1, HonestProduct
  <2> QED BY <2>2, FS_EmptySet
<1>3. Requested(h)
  BY <1>2 DEF Requested, AskedFor, Products
<1> QED BY <1>1, <1>3 DEF Judged

\* Of what an honest child says is whole, nothing is missing.
LEMMA HonestIsWhole ==
  ASSUME session \in SessionType, Admitted, PlainNumbers(session, Selected), query.results \in Nat,
         NEW h \in Honest(Derived(session, query, Selected)), NEW p \in Products, AskedFor(p),
         Cardinality(RowsOf(h.rows, p)) = h.available[p]
  PROVE  /\ RowsOf(h.rows, p) = BornOut(session, p)
         /\ IsFiniteSet(RowsOf(h.rows, p)) /\ Cardinality(RowsOf(h.rows, p)) <= query.results
<1> DEFINE X == RowsOf(Derived(session, query, Selected), p)
           R == RowsOf(h.rows, p)
<1>1. X = BornOut(session, p)
  BY DerivedByProduct, DerivedIsBornOut
<1>2. /\ IsFiniteSet(X) /\ Cardinality(X) \in Nat /\ R \subseteq X /\ h.available[p] = Cardinality(X)
      /\ Cardinality(R) = (IF Cardinality(X) < query.results THEN Cardinality(X) ELSE query.results)
  BY HonestProduct
<1> HIDE DEF X
<1>3. Cardinality(R) = Cardinality(X) /\ Cardinality(R) <= query.results
  BY <1>2
<1> HIDE DEF R
<1>4. R = X
  BY <1>2, <1>3, FS_Subset
<1> QED BY <1>1, <1>2, <1>3, <1>4 DEF R

-----------------------------------------------------------------------------
\* What one misprint makes of a product: a row is added to it, and counted, or it
\* has no row that the honest print has not.
LEMMA AlteredProduct ==
  ASSUME NEW h, h.twice = {},
         h \in [rows : {h.rows}, twice : {{}}, declared : {h.declared},
                available : {h.available}, total : {h.total}],
         DOMAIN h.available = Products,
         NEW print \in Altered(h), NEW p \in Products
  PROVE  \/ RowsOf(print.rows, p) \subseteq RowsOf(h.rows, p)
         \/ \E r \in Sayable \ h.rows :
              /\ r.product = p /\ RowsOf(print.rows, p) = RowsOf(h.rows, p) \union {r}
              /\ print.available[p] = h.available[p] + 1
<1>1. CASE print \in RowLost(h)
  <2>1. PICK r \in h.rows :
          \/ print = [Recount(h, r.product, -1) EXCEPT !.rows = @ \ {r}]
          \/ print = [h EXCEPT !.rows = @ \ {r}, !.declared = @ - 1]
          \/ print = [Recount(h, r.product, 1) EXCEPT !.twice = {r}]
    BY <1>1 DEF RowLost
  <2>2. print.rows \subseteq h.rows
    BY <2>1 DEF Recount
  <2> QED BY <2>2 DEF RowsOf
<1>2. CASE print \in RowAdded(h)
  <2>1. PICK r \in Sayable \ h.rows : print = [Recount(h, r.product, 1) EXCEPT !.rows = @ \union {r}]
    BY <1>2 DEF RowAdded
  <2>2. print.rows = h.rows \union {r} /\ print.available = [h.available EXCEPT ![r.product] = @ + 1]
    BY <2>1 DEF Recount
  <2>3. CASE r.product = p
    <3>1. RowsOf(print.rows, p) = RowsOf(h.rows, p) \union {r}
      BY <2>2, <2>3 DEF RowsOf
    <3>2. print.available[p] = h.available[p] + 1
      BY <2>2, <2>3
    <3> QED BY <2>3, <3>1, <3>2
  <2>4. CASE r.product # p
    BY <2>2, <2>4 DEF RowsOf
  <2> QED BY <2>3, <2>4
<1>3. CASE print \in CountWrong(h)
  <2>1. print.rows = h.rows
    BY <1>3 DEF CountWrong
  <2> QED BY <2>1 DEF RowsOf
<1> QED BY <1>1, <1>2, <1>3 DEF Altered

\* The service that contracts literals gets every equivalent pair, from an
\* honest print and from one of which one line or count was altered.
LEMMA ContractionIsWhole ==
  ASSUME session \in SessionType, Admitted, NEW h \in Honest(Derived(session, query, Selected)),
         NEW print, print = h \/ print \in Altered(h), Countable(print),
         Judged(print) = "answered", query.consumer = "redundancies"
  PROVE  RowsOf(print.rows, "literal_redundancies") = BornOut(session, "literal_redundancies")
<1> DEFINE p == "literal_redundancies"
           X == RowsOf(Derived(session, query, Selected), p)
           R == RowsOf(print.rows, p)
           H == RowsOf(h.rows, p)
           lits == SubjectsOf(session, "literal_truths")
           P == {x \in LiteralPairs(session) : x[1] < x[2] /\ Equivalent(session, x[1], x[2])}
           Q == {x \in LiteralPairs(session) : x[1] < x[2] /\ SameVector(session, x[1], x[2])}
           row(x, y) == PairRow(p, x, y)
<1>1. Decoded(print) /\ Requested(print) /\ CompletePairs(print)
  BY DEF Judged, Serves
<1>2. p \in Products
  BY DEF Products
<1>3. /\ Whole(print, p) /\ R # {} /\ RowsOf(print.twice, p) = {}
      /\ \A r, t \in R : r.left = t.right => r.right # t.left
      /\ {{r.left, r.right} : r \in R} = {{x[1], x[2]} : x \in Q}
  BY <1>1 DEF CompletePairs
<1>4. query.deescalation
  <2>1. PICK r \in print.rows : r.product = p
    BY <1>3 DEF RowsOf
  <2> QED BY <1>1, <2>1, RequestedRows
<1>5. P = Q
  <2>1. OneTruthEach("literal_truths")
    BY <1>4 DEF Admitted
  <2>2. ASSUME NEW x \in LiteralPairs(session)
        PROVE  SameVector(session, x[1], x[2]) <=> Equivalent(session, x[1], x[2])
    <3>1. x[1] \in lits /\ x[2] \in lits
      BY DEF LiteralPairs
    <3> QED BY <2>1, <3>1, SameVectorIsEquivalent
  <2> QED BY <2>2
<1>6. X = {row(x[1], x[2]) : x \in P}
  BY <1>2, <1>4, DerivedByProduct DEF AskedFor, DerivedRows
<1>7. X = BornOut(session, p)
  BY <1>2, <1>4, DerivedByProduct, DerivedIsBornOut DEF AskedFor
<1>8. /\ IsFiniteSet(X) /\ Cardinality(X) \in Nat /\ H \subseteq X /\ h.available[p] = Cardinality(X)
  BY <1>2, HonestProduct
<1>9. \A x \in P : x[1] \in Int /\ x[2] \in Int /\ x[1] < x[2]
  <2>1. lits \subseteq Int
    BY FactTypes, NumbersAssumption DEF SubjectsOf
  <2> QED BY <2>1 DEF LiteralPairs
<1>10. \A x, y : row(x, y).left = x /\ row(x, y).right = y
  BY DEF PairRow
<1>11. {{r.left, r.right} : r \in R} = {{x[1], x[2]} : x \in P}
  BY <1>3, <1>5
<1> HIDE DEF P, Q, X, lits
<1>12. CASE R \subseteq X
  <2>1. ASSUME NEW x \in P PROVE row(x[1], x[2]) \in R
    <3>1. PICK r \in R : {r.left, r.right} = {x[1], x[2]}
      BY <1>11
    <3>2. PICK y \in P : r = row(y[1], y[2])
      BY <1>6, <1>12
    <3>3. {y[1], y[2]} = {x[1], x[2]}
      BY <1>10, <3>1, <3>2
    <3>4. y[1] = x[1] /\ y[2] = x[2]
      BY <1>9, <3>3
    <3> QED BY <3>2, <3>4
  <2>2. X \subseteq R
    BY <1>6, <2>1
  <2> QED BY <1>7, <1>12, <2>2
<1>13. ASSUME NEW r \in Sayable \ h.rows, r.product = p, R = H \union {r},
              print.available[p] = h.available[p] + 1
       PROVE  FALSE
  <2>1. IsFiniteSet(H) /\ Cardinality(H) \in Nat
    BY <1>8, FS_Subset, FS_CardinalityType
  <2>2. r \notin H
    BY <1>13 DEF RowsOf
  <2>3. Cardinality(R) = Cardinality(H) + 1
    <3> HIDE DEF H, R
    <3> QED BY <1>13, <2>1, <2>2, FS_AddElement
  <2>4. Cardinality(R) = Cardinality(X) + 1
    <3>1. Emitted(print, p) = print.available[p] /\ Emitted(print, p) = Cardinality(R) + Cardinality({})
      BY <1>3 DEF Whole, Emitted
    <3>2. Cardinality({}) = 0
      BY FS_EmptySet
    <3> HIDE DEF R
    <3> QED BY <1>8, <1>13, <2>1, <2>3, <3>1, <3>2
  <2>5. H = X
    <3> HIDE DEF H, R
    <3>1. Cardinality(H) = Cardinality(X)
      BY <1>8, <2>1, <2>3, <2>4
    <3> QED BY <1>8, <3>1, FS_Subset
  <2>6. PICK x, y : r = row(x, y)
    BY <1>13 DEF Sayable, ThresholdRow, IntervalRow, PairRow, WeightRow
  <2> HIDE DEF H, R
  <2>7. PICK z \in P : {x, y} = {z[1], z[2]}
    <3>1. r \in R /\ r.left = x /\ r.right = y
      BY <1>10, <1>13, <2>6
    <3>2. {r.left, r.right} \in {{z[1], z[2]} : z \in P}
      BY <1>11, <3>1
    <3> QED BY <3>1, <3>2
  <2>8. row(z[1], z[2]) \in X
    BY <1>6
  <2>9. r # row(z[1], z[2])
    BY <2>2, <2>5, <2>8
  <2>10. x = z[2] /\ y = z[1]
    <3>1. ~(x = z[1] /\ y = z[2])
      BY <2>6, <2>9
    <3> QED BY <2>7, <3>1
  <2>11. row(z[1], z[2]) \in R /\ r \in R
    BY <1>13, <2>5, <2>8
  <2> QED BY <1>3, <1>10, <2>6, <2>10, <2>11 DEF R
<1>14. R \subseteq X \/ \E r \in Sayable \ h.rows :
         r.product = p /\ R = H \union {r} /\ print.available[p] = h.available[p] + 1
  <2>1. CASE print = h
    BY <1>8, <2>1
  <2>2. CASE print \in Altered(h)
    <3>1. h.twice = {} /\ DOMAIN h.available = Products
          /\ h \in [rows : {h.rows}, twice : {{}}, declared : {h.declared},
                    available : {h.available}, total : {h.total}]
      BY DEF Honest
    <3>2. R \subseteq H \/ \E r \in Sayable \ h.rows :
            r.product = p /\ R = H \union {r} /\ print.available[p] = h.available[p] + 1
      BY <1>2, <2>2, <3>1, AlteredProduct
    <3> QED BY <1>8, <3>2
  <2> QED BY <2>1, <2>2
<1> QED BY <1>12, <1>13, <1>14

-----------------------------------------------------------------------------
\* A finite set that is ordered has a last element, and one next to each that is
\* not an end.
Orders(R, S) ==
  /\ \A x \in S : <<x, x>> \notin R
  /\ \A x, y, z \in S : <<x, y>> \in R /\ <<y, z>> \in R => <<x, z>> \in R
  /\ \A x, y \in S : x = y \/ <<x, y>> \in R \/ <<y, x>> \in R

LEMMA LastOfFinite ==
  ASSUME NEW S, IsFiniteSet(S), S # {}, NEW R, Orders(R, S)
  PROVE  \E x \in S : \A y \in S : y = x \/ <<y, x>> \in R
<1> DEFINE HasLast(T) == \E x \in T : \A y \in T : y = x \/ <<y, x>> \in R
           Bad == {T \in SUBSET S : T # {} /\ ~HasLast(T)}
<1>1. SUFFICES ASSUME ~HasLast(S) PROVE FALSE
  OBVIOUS
<1>2. S \in Bad
  BY <1>1
<1>3. Bad \subseteq FiniteSubsetsOf(S)
  BY FS_FiniteSubsetsOfFinite
<1>4. PICK T \in Bad : \A U \in Bad : ~(<<U, T>> \in StrictSubsetOrdering(S))
  <2>1. IsWellFoundedOn(StrictSubsetOrdering(S), FiniteSubsetsOf(S))
    BY FS_StrictSubsetOrderingWellFounded
  <2> HIDE DEF Bad
  <2> QED BY <1>2, <1>3, <2>1, WFMin
<1>5. PICK z : z \in T
  OBVIOUS
<1>6. T \subseteq S
  OBVIOUS
<1>7. <<T \ {z}, T>> \in StrictSubsetOrdering(S)
  <2> DEFINE U == T \ {z}
  <2>1. U \in SUBSET S /\ T \in SUBSET S /\ U \subseteq T /\ U # T
    BY <1>5, <1>6
  <2> HIDE DEF U
  <2>2. <<U, T>>[1] = U /\ <<U, T>>[2] = T /\ <<U, T>> \in (SUBSET S) \X (SUBSET S)
    BY <2>1
  <2> QED BY <2>1, <2>2 DEF StrictSubsetOrdering, U
<1>8. T \ {z} \notin Bad
  BY <1>4, <1>7
<1>9. CASE T \ {z} = {}
  BY <1>5, <1>9
<1>10. CASE T \ {z} # {}
  <2>1. PICK x \in T \ {z} : \A y \in T \ {z} : y = x \/ <<y, x>> \in R
    BY <1>6, <1>8, <1>10
  <2>2. CASE <<z, x>> \in R
    BY <2>1, <2>2
  <2>3. CASE <<x, z>> \in R
    <3>1. \A y \in T : y = z \/ <<y, z>> \in R
      BY <1>5, <1>6, <2>1, <2>3 DEF Orders
    <3> QED BY <1>5, <3>1
  <2> QED BY <1>5, <1>6, <2>1, <2>2, <2>3 DEF Orders
<1> QED BY <1>9, <1>10

\* The samples of a served field.
IsSample(p) ==
  p.num \in Int /\ p.label \in Bits /\ p.given \in Nat \X Nat

LEMMA SamplesAre ==
  ASSUME NEW s \in SessionType, NEW f, ServesField(s, f)
  PROVE  /\ IsFiniteSet(Samples(s, f))
         /\ \A p \in Samples(s, f) :
              /\ IsSample(p) /\ p.num \in NumberedAt(s, f, p.label)
              /\ p.given[1] \in DOMAIN s.observations /\ p.num = s.observations[p.given[1]].value.num
         /\ \A p, q \in Samples(s, f) : p.given = q.given => p = q
         /\ \A y \in Bits : \A n \in NumberedAt(s, f, y) :
              \E p \in Samples(s, f) : p.num = n /\ p.label = y
<1> DEFINE I == DOMAIN s.observations
           J == DOMAIN s.example_labels
           G == {p \in I \X J : /\ s.observations[p[1]].field = f
                                /\ s.observations[p[1]].example = s.example_labels[p[2]].example}
           sample == [p \in G |-> [num |-> s.observations[p[1]].value.num,
                                   label |-> s.example_labels[p[2]].label, given |-> p]]
<1>1. /\ s.observations \in Seq([example : Examples, field : Fields, value : Values])
      /\ s.example_labels \in Seq([example : Examples, label : Bits])
  BY DEF SessionType
<1>2. /\ \A i \in I : s.observations[i] \in [example : Examples, field : Fields, value : Values]
      /\ \A j \in J : s.example_labels[j] \in [example : Examples, label : Bits]
      /\ I = 1..Len(s.observations) /\ J = 1..Len(s.example_labels)
      /\ Len(s.observations) \in Nat /\ Len(s.example_labels) \in Nat
  <2>1. ASSUME NEW T, NEW q \in Seq(T)
        PROVE  DOMAIN q = 1..Len(q) /\ Len(q) \in Nat /\ \A i \in DOMAIN q : q[i] \in T
    OBVIOUS
  <2> QED BY <1>1, <2>1
<1>3. Samples(s, f) = {sample[p] : p \in G}
  BY DEF Samples
<1>4. DOMAIN sample = G /\ sample = [p \in G |-> sample[p]]
  OBVIOUS
<1>5. IsFiniteSet(G)
  <2>1. IsFiniteSet(I) /\ IsFiniteSet(J)
    <3>1. \A k \in Nat : IsFiniteSet(1..k)
      BY FS_Interval
    <3> QED BY <1>2, <3>1
  <2> HIDE DEF I, J
  <2>2. IsFiniteSet(I \X J)
    BY <2>1, FS_Product
  <2> QED BY <2>2, FS_Subset
<1>6. IsFiniteSet(Samples(s, f))
  <2> HIDE DEF G, sample
  <2> QED BY <1>3, <1>4, <1>5, ImageIsFinite
<1>7. ASSUME NEW g \in G
      PROVE  /\ sample[g].given = g /\ IsSample(sample[g])
             /\ sample[g].num = s.observations[g[1]].value.num
             /\ sample[g].num \in NumberedAt(s, f, sample[g].label)
  <2> DEFINE o == s.observations[g[1]]
             l == s.example_labels[g[2]]
  <2>1. g[1] \in I /\ g[2] \in J /\ g \in Nat \X Nat
    BY <1>2
  <2>2. o \in [example : Examples, field : Fields, value : Values] /\ o.field = f
        /\ l \in [example : Examples, label : Bits] /\ o.example = l.example
    BY <1>2, <2>1
  <2>3. sample[g] = [num |-> o.value.num, label |-> l.label, given |-> g]
    OBVIOUS
  <2>4. o \in FactsOf(s, "observations") /\ l \in FactsOf(s, "example_labels")
    BY <2>1 DEF FactsOf
  <2>5. o = Observation(o.example, f, o.value) /\ l = Label(o.example, l.label)
    BY <2>2 DEF Observation, Label
  <2>6. o.value \in ValuesOf(s, o.example, f) /\ l.label \in LabelsOf(s, o.example)
    BY <2>2, <2>4, <2>5 DEF ValuesOf, LabelsOf
  <2>7. Numeric(o.value)
    BY <2>2, <2>4 DEF ServesField
  <2>8. o.value.num \in Int
    BY <2>2, ValuesAssumption
  <2>9. o.value.num \in NumberedAt(s, f, l.label)
    BY <2>2, <2>6, <2>7 DEF NumberedAt
  <2> HIDE DEF o, l, sample
  <2> QED BY <2>1, <2>2, <2>3, <2>8, <2>9 DEF IsSample, o
<1>8. ASSUME NEW y \in Bits, NEW n \in NumberedAt(s, f, y)
      PROVE  \E p \in Samples(s, f) : p.num = n /\ p.label = y
  <2>1. PICK v \in Values, e \in Examples :
          n = v.num /\ v \in ValuesOf(s, e, f) /\ y \in LabelsOf(s, e)
    BY DEF NumberedAt
  <2>2. PICK i \in I : s.observations[i] = Observation(e, f, v)
    BY <2>1 DEF ValuesOf, FactsOf
  <2>3. PICK j \in J : s.example_labels[j] = Label(e, y)
    BY <2>1 DEF LabelsOf, FactsOf
  <2>4. /\ s.observations[i].field = f /\ s.observations[i].example = e /\ s.observations[i].value = v
        /\ s.example_labels[j].example = e /\ s.example_labels[j].label = y
    BY <2>2, <2>3 DEF Observation, Label
  <2>5. <<i, j>> \in G /\ <<i, j>>[1] = i /\ <<i, j>>[2] = j
    BY <2>4
  <2>6. sample[<<i, j>>].num = n /\ sample[<<i, j>>].label = y
    BY <2>1, <2>4, <2>5
  <2> QED BY <1>3, <2>5, <2>6
<1>9. \A p \in Samples(s, f) : \E g \in G : p = sample[g] /\ p.given = g /\ g[1] \in I
  <2>1. \A g \in G : g[1] \in I
    OBVIOUS
  <2> HIDE DEF G, sample, I
  <2> QED BY <1>3, <1>7, <2>1
<1>10. \A p, q \in Samples(s, f) : p.given = q.given => p = q
  <2> HIDE DEF G, sample, I
  <2> QED BY <1>9
<1>11. \A p \in Samples(s, f) :
         /\ IsSample(p) /\ p.num \in NumberedAt(s, f, p.label)
         /\ p.given[1] \in I /\ p.num = s.observations[p.given[1]].value.num
  <2> HIDE DEF G, sample, I
  <2> QED BY <1>7, <1>9
<1> QED BY <1>6, <1>8, <1>10, <1>11

\* Samples are ordered by their number, and as they were given.
Order(S) == {x \in S \X S : Precedes(x[1], x[2])}

LEMMA SamplesAreOrdered ==
  ASSUME NEW S, \A p \in S : IsSample(p), \A p, q \in S : p.given = q.given => p = q
  PROVE  /\ \A p \in S : ~Precedes(p, p)
         /\ \A p, q, r \in S : Precedes(p, q) /\ Precedes(q, r) => Precedes(p, r)
         /\ \A p, q \in S : p = q \/ Precedes(p, q) \/ Precedes(q, p)
<1>1. \A p \in S : p.num \in Int /\ p.given[1] \in Int /\ p.given[2] \in Int
                   /\ p.given = <<p.given[1], p.given[2]>>
  BY DEF IsSample
<1>2. \A p \in S : ~Precedes(p, p)
  BY <1>1 DEF Precedes
<1>3. \A p, q, r \in S : Precedes(p, q) /\ Precedes(q, r) => Precedes(p, r)
  BY <1>1 DEF Precedes
<1>4. ASSUME NEW p \in S, NEW q \in S, ~Precedes(p, q), ~Precedes(q, p) PROVE p = q
  <2>1. p.given[1] = q.given[1] /\ p.given[2] = q.given[2]
    BY <1>1, <1>4 DEF Precedes
  <2>2. p.given = q.given
    BY <1>1, <2>1
  <2> QED BY <2>2
<1> QED BY <1>2, <1>3, <1>4

LEMMA NeighboursExist ==
  ASSUME NEW S, IsFiniteSet(S), \A p \in S : IsSample(p), \A p, q \in S : p.given = q.given => p = q
  PROVE  /\ \A T \in SUBSET S : T # {} =>
              \E p \in T : \A q \in T : q = p \/ Precedes(q, p)
         /\ \A p, r \in S : Precedes(r, p) => \E q \in S : Adjacent(S, q, p)
         /\ \A p, r \in S : Precedes(p, r) => \E q \in S : Adjacent(S, p, q)
<1>0. /\ \A p \in S : ~Precedes(p, p)
      /\ \A p, q, r \in S : Precedes(p, q) /\ Precedes(q, r) => Precedes(p, r)
      /\ \A p, q \in S : p = q \/ Precedes(p, q) \/ Precedes(q, p)
  BY SamplesAreOrdered
<1> DEFINE R == Order(S)
           V == {x \in S \X S : Precedes(x[2], x[1])}
<1>1. \A p, q \in S : (<<p, q>> \in R <=> Precedes(p, q)) /\ (<<p, q>> \in V <=> Precedes(q, p))
  <2>1. \A p, q \in S : <<p, q>> \in S \X S /\ <<p, q>>[1] = p /\ <<p, q>>[2] = q
    OBVIOUS
  <2> QED BY <2>1 DEF Order
<1> HIDE DEF R, V
<1>2. \A T \in SUBSET S : Orders(R, T) /\ Orders(V, T) /\ IsFiniteSet(T)
  <2> SUFFICES ASSUME NEW T \in SUBSET S PROVE Orders(R, T) /\ Orders(V, T) /\ IsFiniteSet(T)
    OBVIOUS
  <2>1. \A x \in T : x \in S
    OBVIOUS
  <2>2. Orders(R, T)
    BY <1>0, <1>1, <2>1 DEF Orders
  <2>3. Orders(V, T)
    BY <1>0, <1>1, <2>1 DEF Orders
  <2> QED BY <2>2, <2>3, FS_Subset
<1>3. ASSUME NEW T \in SUBSET S, T # {} PROVE \E p \in T : \A q \in T : q = p \/ Precedes(q, p)
  <2>1. PICK p \in T : \A q \in T : q = p \/ <<q, p>> \in R
    BY <1>2, <1>3, LastOfFinite
  <2> QED BY <1>1, <2>1
<1>4. ASSUME NEW T \in SUBSET S, T # {} PROVE \E p \in T : \A q \in T : q = p \/ Precedes(p, q)
  <2>1. PICK p \in T : \A q \in T : q = p \/ <<q, p>> \in V
    BY <1>2, <1>4, LastOfFinite
  <2> QED BY <1>1, <2>1
<1>5. ASSUME NEW p \in S, NEW r \in S, Precedes(r, p) PROVE \E q \in S : Adjacent(S, q, p)
  <2> DEFINE T == {t \in S : Precedes(t, p)}
  <2>1. T \in SUBSET S /\ T # {}
    BY <1>5
  <2> HIDE DEF T
  <2>2. PICK q \in T : \A t \in T : t = q \/ Precedes(t, q)
    BY <1>3, <2>1
  <2>3. q \in S /\ Precedes(q, p)
    BY DEF T
  <2>4. ASSUME NEW t \in S, Precedes(q, t), Precedes(t, p) PROVE FALSE
    <3>1. t = q \/ Precedes(t, q)
      BY <2>2, <2>4 DEF T
    <3> QED BY <1>0, <2>3, <2>4, <3>1
  <2> QED BY <2>3, <2>4 DEF Adjacent
<1>6. ASSUME NEW p \in S, NEW r \in S, Precedes(p, r) PROVE \E q \in S : Adjacent(S, p, q)
  <2> DEFINE T == {t \in S : Precedes(p, t)}
  <2>1. T \in SUBSET S /\ T # {}
    BY <1>6
  <2> HIDE DEF T
  <2>2. PICK q \in T : \A t \in T : t = q \/ Precedes(q, t)
    BY <1>4, <2>1
  <2>3. q \in S /\ Precedes(p, q)
    BY DEF T
  <2>4. ASSUME NEW t \in S, Precedes(p, t), Precedes(t, q) PROVE FALSE
    <3>1. t = q \/ Precedes(q, t)
      BY <2>2, <2>4 DEF T
    <3> QED BY <1>0, <2>3, <2>4, <3>1
  <2> QED BY <2>3, <2>4 DEF Adjacent
<1> QED BY <1>3, <1>5, <1>6

-----------------------------------------------------------------------------
\* Where there are no more candidates than room, each is foremost.
LEMMA AllAreForemost ==
  ASSUME NEW C, IsFiniteSet(C), NEW k \in Nat, Cardinality(C) <= k,
         \A c \in C : c.strength \in Int /\ c.tie \in Int
  PROVE  Foremost(C, k) = C
<1> SUFFICES ASSUME NEW c \in C
             PROVE  Cardinality({d \in C : d.strength > c.strength
                                   \/ (d.strength = c.strength /\ d.tie < c.tie)}) < k
  BY DEF Foremost
<1> DEFINE B == {d \in C : d.strength > c.strength \/ (d.strength = c.strength /\ d.tie < c.tie)}
<1>1. c \notin B
  OBVIOUS
<1>2. B \in SUBSET (C \ {c})
  BY <1>1
<1> HIDE DEF B
<1>3. IsFiniteSet(C \ {c}) /\ Cardinality(C \ {c}) = Cardinality(C) - 1
  BY FS_RemoveElement
<1>4. IsFiniteSet(B) /\ Cardinality(B) <= Cardinality(C \ {c})
  BY <1>2, <1>3, FS_Subset
<1>5. Cardinality(B) \in Nat /\ Cardinality(C) \in Nat
  BY <1>4, FS_CardinalityType
<1>6. Cardinality(B) < k
  BY <1>3, <1>4, <1>5
<1> QED BY <1>6 DEF B

\* The image of a finite set has no more elements.
LEMMA ImageIsSmaller ==
  ASSUME NEW S, IsFiniteSet(S), NEW f, DOMAIN f = S, f = [x \in S |-> f[x]],
         NEW T, T = {f[x] : x \in S}
  PROVE  IsFiniteSet(T) /\ Cardinality(T) <= Cardinality(S)
<1>1. f \in [S -> T]
  OBVIOUS
<1>2. f \in Surjection(S, T)
  BY <1>1 DEF Surjection
<1> QED BY <1>2, FS_Surjection

\* The two samples at a turn.
LEMMA TurnIsAdjacent ==
  ASSUME NEW s, NEW f, Plain(s, f), NEW n, NEW m, NEW y, Turn(s, f, n, m, y),
         NEW S, S = Samples(s, f)
  PROVE  \E p, q \in S : /\ Adjacent(S, p, q) /\ p.num = n /\ q.num = m
                         /\ p.label = y /\ q.label = 1 - y
<1>1. s \in SessionType /\ ServesField(s, f)
  BY DEF Plain
<1>2. /\ IsFiniteSet(S) /\ \A p \in S : IsSample(p) /\ p.num \in NumberedAt(s, f, p.label)
      /\ \A p, q \in S : p.given = q.given => p = q
      /\ \A z \in Bits : \A k \in NumberedAt(s, f, z) : \E p \in S : p.num = k /\ p.label = z
  BY <1>1, SamplesAre
<1>3. /\ n \in Int /\ m \in Int /\ y \in Bits /\ 1 - y \in Bits
      /\ Only(s, f, n, y) /\ Only(s, f, m, 1 - y) /\ n < m
      /\ ~\E k \in NumbersOf(s, f) : n < k /\ k < m
  BY DEF Turn, Next2, Bits
<1> DEFINE T == {t \in S : t.num = n}
<1>4. T \in SUBSET S /\ T # {}
  BY <1>2, <1>3 DEF Only
<1>5. PICK p \in T : \A t \in T : t = p \/ Precedes(t, p)
  <2> HIDE DEF T
  <2> QED BY <1>2, <1>4, NeighboursExist
<1>6. PICK r \in S : r.num = m
  BY <1>2, <1>3 DEF Only
<1>7. p \in S /\ p.num = n /\ Precedes(p, r)
  BY <1>3, <1>6 DEF Precedes
<1>8. PICK q \in S : Adjacent(S, p, q)
  BY <1>2, <1>6, <1>7, NeighboursExist
<1>9. \A t \in S : t.num \in NumbersOf(s, f) /\ t.num \in Int
  BY <1>2 DEF NumbersOf, Bits, IsSample
<1>10. q.num > n
  <2>1. Precedes(p, q)
    BY <1>8 DEF Adjacent
  <2>2. q.num # n
    <3> SUFFICES ASSUME q.num = n PROVE FALSE
      OBVIOUS
    <3>1. q = p \/ Precedes(q, p)
      BY <1>5
    <3> QED BY <1>2, <1>7, <2>1, <3>1, SamplesAreOrdered
  <2>3. p.num <= q.num
    BY <1>7, <1>9, <2>1 DEF Precedes
  <2> QED BY <1>3, <1>7, <1>9, <2>2, <2>3
<1>11. q.num <= m
  <2> SUFFICES ASSUME q.num > m PROVE FALSE
    BY <1>3, <1>9
  <2>1. Precedes(r, q)
    BY <1>6 DEF Precedes
  <2> QED BY <1>7, <1>8, <2>1 DEF Adjacent
<1>12. q.num = m
  BY <1>3, <1>9, <1>10, <1>11
<1>13. p.label = y /\ q.label = 1 - y
  BY <1>2, <1>3, <1>7, <1>12 DEF Only, IsSample
<1> QED BY <1>7, <1>8, <1>12, <1>13

\* Where no number has both labels, neighbours of opposite labels are at a turn.
LEMMA AdjacentIsTurn ==
  ASSUME NEW s, NEW f, Plain(s, f), ~Mixed(s, f), NEW S, S = Samples(s, f),
         NEW p \in S, NEW q \in S, Adjacent(S, p, q), p.label # q.label
  PROVE  Turn(s, f, p.num, q.num, p.label)
<1>1. s \in SessionType /\ ServesField(s, f)
  BY DEF Plain
<1>2. /\ IsFiniteSet(S) /\ \A t \in S : IsSample(t) /\ t.num \in NumberedAt(s, f, t.label)
      /\ \A z \in Bits : \A k \in NumberedAt(s, f, z) : \E t \in S : t.num = k /\ t.label = z
  BY <1>1, SamplesAre
<1>3. p.label \in Bits /\ q.label \in Bits /\ q.label = 1 - p.label /\ p.num \in Int /\ q.num \in Int
  BY <1>2 DEF IsSample, Bits
<1>4. \A t \in S : Only(s, f, t.num, t.label)
  BY <1>2 DEF Mixed, Only, IsSample, Bits
<1>5. p.num # q.num
  <2> SUFFICES ASSUME p.num = q.num PROVE FALSE
    OBVIOUS
  <2> QED BY <1>3, <1>4 DEF Only
<1>6. p.num < q.num
  BY <1>3, <1>5 DEF Adjacent, Precedes
<1>7. ASSUME NEW k \in NumbersOf(s, f), p.num < k, k < q.num PROVE FALSE
  <2>1. PICK t \in S : t.num = k
    BY <1>2 DEF NumbersOf, Bits
  <2> QED BY <1>7, <2>1 DEF Adjacent, Precedes
<1>8. Only(s, f, p.num, p.label) /\ Only(s, f, q.num, 1 - p.label)
  BY <1>3, <1>4
<1>9. Next2(s, f, p.num, q.num)
  BY <1>6, <1>7 DEF Next2
<1> QED BY <1>3, <1>8, <1>9 DEF Turn

\* The boundaries that the oracle has candidates for, no more than observations.
Boundaries(S) ==
  {Mid(p[1], p[2]) : p \in {p \in S \X S :
     p[1].num # p[2].num /\ p[1].label # p[2].label /\ Adjacent(S, p[1], p[2])}}

LEMMA BoundariesAre ==
  ASSUME NEW s, NEW f, Plain(s, f), NEW S, S = Samples(s, f)
  PROVE  /\ Bounds(s, f) \subseteq Boundaries(S)
         /\ ~Mixed(s, f) => Boundaries(S) = Bounds(s, f)
         /\ Boundaries(S) \subseteq Int
<1>1. ASSUME NEW at \in Bounds(s, f) PROVE at \in Boundaries(S)
  <2>1. PICK n, m, y : Turn(s, f, n, m, y) /\ at = n + m
    BY BoundsAreTurns
  <2>2. PICK p, q \in S : /\ Adjacent(S, p, q) /\ p.num = n /\ q.num = m
                          /\ p.label = y /\ q.label = 1 - y
    BY <2>1, TurnIsAdjacent
  <2>3. n # m /\ y # 1 - y
    BY <2>1 DEF Turn, Next2, Bits
  <2>4. at = Mid(p, q)
    BY <2>1, <2>2 DEF Mid
  <2>5. <<p, q>> \in S \X S /\ <<p, q>>[1] = p /\ <<p, q>>[2] = q
    OBVIOUS
  <2> QED BY <2>2, <2>3, <2>4, <2>5 DEF Boundaries
<1>2. ASSUME ~Mixed(s, f), NEW at \in Boundaries(S) PROVE at \in Bounds(s, f)
  <2>1. PICK p \in S \X S :
          at = Mid(p[1], p[2]) /\ p[1].label # p[2].label /\ Adjacent(S, p[1], p[2])
    BY DEF Boundaries
  <2>2. Turn(s, f, p[1].num, p[2].num, p[1].label)
    BY <1>2, <2>1, AdjacentIsTurn
  <2> QED BY <2>1, <2>2, BoundsAreTurns DEF Mid
<1>3. Boundaries(S) \subseteq Int
  <2>1. \A p \in S : p.num \in Int
    BY SamplesAre DEF Plain, IsSample
  <2> QED BY <2>1 DEF Boundaries, Mid
<1> QED BY <1>1, <1>2, <1>3

LEMMA BoundariesAreFew ==
  ASSUME NEW s, NEW f, Plain(s, f), NEW S, S = Samples(s, f)
  PROVE  IsFiniteSet(Boundaries(S)) /\ Cardinality(Boundaries(S)) <= Len(s.observations)
<1> DEFINE n == Len(s.observations)
           at(p) == Mid(p[1], p[2])
           ends == {p \in S \X S :
                      p[1].num # p[2].num /\ p[1].label # p[2].label /\ Adjacent(S, p[1], p[2])}
           from == [a \in Boundaries(S) |-> (CHOOSE p \in ends : a = at(p))[1].given[1]]
<1>1. s \in SessionType /\ ServesField(s, f)
  BY DEF Plain
<1>2. /\ \A p \in S : IsSample(p)
      /\ \A p, q \in S : p.given = q.given => p = q
      /\ \A p \in S : p.given[1] \in DOMAIN s.observations /\ p.num = s.observations[p.given[1]].value.num
  BY <1>1, SamplesAre
<1>3. n \in Nat /\ DOMAIN s.observations = 1..n
  <2>1. s.observations \in Seq([example : Examples, field : Fields, value : Values])
    BY <1>1 DEF SessionType
  <2> QED BY <2>1
<1>4. /\ \A p \in S : ~Precedes(p, p)
      /\ \A p, q, r \in S : Precedes(p, q) /\ Precedes(q, r) => Precedes(p, r)
      /\ \A p, q \in S : p = q \/ Precedes(p, q) \/ Precedes(q, p)
  BY <1>2, SamplesAreOrdered
<1>5. \A a \in Boundaries(S) : \E p \in ends : a = at(p)
  BY DEF Boundaries
<1>6. ASSUME NEW p \in ends, NEW q \in ends, p[1].given[1] = q[1].given[1] PROVE at(p) = at(q)
  <2>1. /\ p[1] \in S /\ p[2] \in S /\ q[1] \in S /\ q[2] \in S
        /\ p[1].num # p[2].num /\ Adjacent(S, p[1], p[2])
        /\ q[1].num # q[2].num /\ Adjacent(S, q[1], q[2])
    OBVIOUS
  <2>2. p[1].num = q[1].num
    BY <1>2, <1>6, <2>1
  <2>3. p[1].num < p[2].num /\ q[1].num < q[2].num
    BY <2>1 DEF Adjacent, Precedes
  <2>4. Precedes(p[1], p[2]) /\ Precedes(q[1], q[2]) /\ Precedes(p[1], q[2]) /\ Precedes(q[1], p[2])
    BY <2>1, <2>2, <2>3 DEF Adjacent, Precedes
  <2>5. p[1] = q[1]
    BY <1>4, <2>1, <2>4 DEF Adjacent
  <2>6. p[2] = q[2]
    BY <1>4, <2>1, <2>5 DEF Adjacent
  <2> QED BY <2>5, <2>6
<1>7. from \in Injection(Boundaries(S), 1..n)
  <2>1. \A a \in Boundaries(S) :
          LET p == CHOOSE p \in ends : a = at(p) IN p \in ends /\ a = at(p) /\ from[a] = p[1].given[1]
    <3> HIDE DEF at, ends
    <3> QED BY <1>5
  <2>2. \A p \in ends : p[1].given[1] \in 1..n
    BY <1>2, <1>3
  <2> HIDE DEF from, at, ends
  <2>3. \A a \in Boundaries(S) : from[a] \in 1..n
    BY <2>1, <2>2
  <2>4. \A a, b \in Boundaries(S) : from[a] = from[b] => a = b
    BY <1>6, <2>1
  <2>5. from \in [Boundaries(S) -> 1..n]
    BY <2>3 DEF from
  <2> QED BY <2>4, <2>5 DEF Injection, IsInjective
<1>8. IsFiniteSet(1..n) /\ Cardinality(1..n) = n
  BY <1>3, FS_Interval
<1> HIDE DEF from, at, ends
<1> QED BY <1>7, <1>8, FS_Injection

\* With room for all its candidates, the oracle proposes them all.
LEMMA AllAreProposed ==
  ASSUME NEW s, NEW f, Plain(s, f), NEW S, S = Samples(s, f), NEW k \in Nat,
         Cardinality(Boundaries(S)) <= k
  PROVE  ProposedThresholds(s, f, k) = Boundaries(S)
<1> DEFINE B == Boundaries(S)
           cand == [a \in B |-> [at |-> a, strength |-> Strength(S, a), tie |-> a]]
           C == {cand[a] : a \in B}
<1>1. NumericCandidates(s, f) = C
  BY DEF NumericCandidates, Boundaries
<1>2. IsFiniteSet(B)
  BY BoundariesAreFew
<1>3. IsFiniteSet(C) /\ Cardinality(C) <= Cardinality(B)
  <2>1. DOMAIN cand = B /\ cand = [a \in B |-> cand[a]]
    OBVIOUS
  <2> HIDE DEF B, cand
  <2> QED BY <1>2, <2>1, ImageIsSmaller
<1>4. Cardinality(C) <= k
  <2>1. Cardinality(C) \in Nat /\ Cardinality(B) \in Nat
    <3> HIDE DEF C, B
    <3> QED BY <1>2, <1>3, FS_CardinalityType
  <2> HIDE DEF C
  <2> QED BY <1>3, <2>1
<1>5. \A a \in B : a \in Int /\ Strength(S, a) \in Int
  <2> SUFFICES ASSUME NEW a \in B PROVE a \in Int /\ Strength(S, a) \in Int
    OBVIOUS
  <2>1. IsFiniteSet(S)
    BY SamplesAre DEF Plain
  <2>2. IsFiniteSet({p \in S : IF p.label = 1 THEN 2 * p.num >= a ELSE 2 * p.num < a})
    BY <2>1, FS_Subset
  <2> QED BY <2>2, BoundariesAre, FS_CardinalityType DEF Strength
<1>6. \A c \in C : c.strength \in Int /\ c.tie \in Int
  BY <1>5
<1>7. Foremost(C, k) = C
  <2> HIDE DEF C
  <2> QED BY <1>3, <1>4, <1>6, AllAreForemost
<1>8. {c.at : c \in C} = B
  <2>1. \A a \in B : cand[a].at = a
    OBVIOUS
  <2> HIDE DEF cand, B
  <2> QED BY <2>1
<1> QED BY <1>1, <1>7, <1>8 DEF ProposedThresholds

-----------------------------------------------------------------------------
\* What is known of the samples of a field where no number has both labels.
LEMMA PureSamples ==
  ASSUME NEW s, NEW f, Plain(s, f), ~Mixed(s, f), NEW S, S = Samples(s, f)
  PROVE  /\ \A p \in S : /\ p.num \in Int /\ p.num \in NumbersOf(s, f) /\ p.label \in Bits
                         /\ Only(s, f, p.num, p.label)
         /\ \A p, q \in S : p.num = q.num => p.label = q.label
         /\ \A k \in NumbersOf(s, f) : \E p \in S : p.num = k
<1>1. /\ \A p \in S : IsSample(p) /\ p.num \in NumberedAt(s, f, p.label)
      /\ \A z \in Bits : \A k \in NumberedAt(s, f, z) : \E p \in S : p.num = k /\ p.label = z
  BY SamplesAre DEF Plain
<1>2. \A p \in S : Only(s, f, p.num, p.label) /\ p.label \in Bits
  BY <1>1 DEF Mixed, Only, IsSample, Bits
<1>3. \A p \in S : p.num \in Int /\ p.num \in NumbersOf(s, f)
  BY <1>1 DEF IsSample, NumbersOf, Bits
<1>4. \A p, q \in S : p.num = q.num => p.label = q.label
  BY <1>2 DEF Only
<1>5. \A k \in NumbersOf(s, f) : \E p \in S : p.num = k
  BY <1>1 DEF NumbersOf, Bits
<1> QED BY <1>2, <1>3, <1>4, <1>5

\* The order of the samples, and who is next to whom.
LEMMA Neighbours ==
  ASSUME NEW s, NEW f, Plain(s, f), NEW S, S = Samples(s, f)
  PROVE  /\ IsFiniteSet(S)
         /\ \A p \in S : ~Precedes(p, p)
         /\ \A p, q, r \in S : Precedes(p, q) /\ Precedes(q, r) => Precedes(p, r)
         /\ \A p, q \in S : p = q \/ Precedes(p, q) \/ Precedes(q, p)
         /\ \A p, q, r \in S : Adjacent(S, q, p) /\ Adjacent(S, r, p) => q = r
         /\ \A p, q, r \in S : Adjacent(S, p, q) /\ Adjacent(S, p, r) => q = r
         /\ \A p, r \in S : Precedes(r, p) => \E q \in S : Adjacent(S, q, p)
         /\ \A p, r \in S : Precedes(p, r) => \E q \in S : Adjacent(S, p, q)
         /\ \A p, q \in S : Precedes(p, q) => p.num <= q.num
         /\ \A p, q \in S : p.num < q.num => Precedes(p, q)
<1>1. /\ IsFiniteSet(S) /\ \A p \in S : IsSample(p)
      /\ \A p, q \in S : p.given = q.given => p = q
  BY SamplesAre DEF Plain
<1>2. /\ \A p \in S : ~Precedes(p, p)
      /\ \A p, q, r \in S : Precedes(p, q) /\ Precedes(q, r) => Precedes(p, r)
      /\ \A p, q \in S : p = q \/ Precedes(p, q) \/ Precedes(q, p)
  BY <1>1, SamplesAreOrdered
<1>3. /\ \A p, r \in S : Precedes(r, p) => \E q \in S : Adjacent(S, q, p)
      /\ \A p, r \in S : Precedes(p, r) => \E q \in S : Adjacent(S, p, q)
  BY <1>1, NeighboursExist
<1>4. /\ \A p, q, r \in S : Adjacent(S, q, p) /\ Adjacent(S, r, p) => q = r
      /\ \A p, q, r \in S : Adjacent(S, p, q) /\ Adjacent(S, p, r) => q = r
  BY <1>2 DEF Adjacent
<1>5. /\ \A p, q \in S : Precedes(p, q) => p.num <= q.num
      /\ \A p, q \in S : p.num < q.num => Precedes(p, q)
  BY <1>1 DEF Precedes, IsSample
<1> QED BY <1>1, <1>2, <1>3, <1>4, <1>5

\* What a run of positives is.
LEMMA RunIs ==
  ASSUME NEW S, NEW p \in S, NEW q \in S
  PROVE  <<p, q>> \in PositiveRuns(S) <=>
           /\ p.label = 1 /\ q.label = 1 /\ ~Precedes(q, p)
           /\ \A r \in S :
                IF Adjacent(S, r, p) \/ Adjacent(S, q, r) THEN r.label = 0
                ELSE ~Precedes(r, p) /\ ~Precedes(q, r) => r.label = 1
<1>1. <<p, q>> \in S \X S /\ <<p, q>>[1] = p /\ <<p, q>>[2] = q
  OBVIOUS
<1> QED BY <1>1 DEF PositiveRuns

\* Where a run is bounded.
LowerEnd(S, p) ==
  IF \E r \in S : Precedes(r, p) THEN Mid(CHOOSE r \in S : Adjacent(S, r, p), p) ELSE Mid(p, p)
UpperEnd(S, p) ==
  IF \E r \in S : Precedes(p, r) THEN Mid(p, CHOOSE r \in S : Adjacent(S, p, r)) ELSE Mid(p, p)
RunLength(S, p) == Cardinality({r \in S : ~Precedes(r, p[1]) /\ ~Precedes(p[2], r)})
RunCandidate(S, p) ==
  [lo |-> LowerEnd(S, p[1]), hi |-> UpperEnd(S, p[2]), strength |-> RunLength(S, p),
   tie |-> LowerEnd(S, p[1])]

LEMMA EndsOfRuns ==
  ASSUME NEW s, NEW f, Plain(s, f), NEW S, S = Samples(s, f), NEW p \in S
  PROVE  /\ \A r \in S : Adjacent(S, r, p) => LowerEnd(S, p) = Mid(r, p)
         /\ \A r \in S : Adjacent(S, p, r) => UpperEnd(S, p) = Mid(p, r)
         /\ (~\E r \in S : Precedes(r, p)) => LowerEnd(S, p) = Mid(p, p)
         /\ (~\E r \in S : Precedes(p, r)) => UpperEnd(S, p) = Mid(p, p)
         /\ LowerEnd(S, p) \in Int
<1>1. ASSUME NEW r \in S, Adjacent(S, r, p) PROVE LowerEnd(S, p) = Mid(r, p)
  <2>1. Precedes(r, p)
    BY <1>1 DEF Adjacent
  <2>2. (CHOOSE t \in S : Adjacent(S, t, p)) = r
    <3>1. \A t \in S : Adjacent(S, t, p) => t = r
      BY <1>1, Neighbours
    <3> QED BY <1>1, <3>1
  <2> QED BY <2>1, <2>2 DEF LowerEnd
<1>2. ASSUME NEW r \in S, Adjacent(S, p, r) PROVE UpperEnd(S, p) = Mid(p, r)
  <2>1. Precedes(p, r)
    BY <1>2 DEF Adjacent
  <2>2. (CHOOSE t \in S : Adjacent(S, p, t)) = r
    <3>1. \A t \in S : Adjacent(S, p, t) => t = r
      BY <1>2, Neighbours
    <3> QED BY <1>2, <3>1
  <2> QED BY <2>1, <2>2 DEF UpperEnd
<1>3. /\ (~\E r \in S : Precedes(r, p)) => LowerEnd(S, p) = Mid(p, p)
      /\ (~\E r \in S : Precedes(p, r)) => UpperEnd(S, p) = Mid(p, p)
  BY DEF LowerEnd, UpperEnd
<1>4. LowerEnd(S, p) \in Int
  <2>1. \A q \in S : q.num \in Int
    BY SamplesAre DEF Plain, IsSample
  <2>2. \A q, r \in S : Mid(q, r) \in Int
    BY <2>1 DEF Mid
  <2>3. CASE \E r \in S : Precedes(r, p)
    <3>1. PICK r \in S : Adjacent(S, r, p)
      BY <2>3, Neighbours
    <3> QED BY <1>1, <2>2, <3>1
  <2>4. CASE ~\E r \in S : Precedes(r, p)
    BY <1>3, <2>2, <2>4
  <2> QED BY <2>3, <2>4
<1> QED BY <1>1, <1>2, <1>3, <1>4

\* A positive interval between negatives is the one around a run.
LEMMA PositiveIsARun ==
  ASSUME NEW s, NEW f, Plain(s, f), ~Mixed(s, f), NEW S, S = Samples(s, f),
         NEW lo, NEW hi, PositiveIn(s, f, lo, hi)
  PROVE  /\ Cardinality(S) >= 3
         /\ \E p, q \in S : /\ <<p, q>> \in PositiveRuns(S)
                            /\ LowerEnd(S, p) = lo /\ UpperEnd(S, q) = hi
         /\ \E n, m \in NumberedAt(s, f, 0) : 2 * n < lo /\ hi < 2 * m
<1>1. PICK na, nb, y : Turn(s, f, na, nb, y) /\ lo = na + nb
  BY BoundsAreTurns DEF PositiveIn
<1>2. PICK nc, nd, z : Turn(s, f, nc, nd, z) /\ hi = nc + nd
  BY BoundsAreTurns DEF PositiveIn
<1>3. PICK n \in NumberedAt(s, f, 1) : lo <= 2 * n /\ 2 * n < hi
  BY DEF PositiveIn
<1>4. /\ na \in Int /\ nb \in Int /\ nc \in Int /\ nd \in Int /\ na < nb /\ nc < nd
      /\ n \in Int /\ n \in NumbersOf(s, f) /\ nb \in NumbersOf(s, f) /\ nc \in NumbersOf(s, f)
  <2>1. n \in NumbersOf(s, f) /\ nb \in NumbersOf(s, f) /\ nc \in NumbersOf(s, f)
    BY <1>1, <1>2 DEF NumbersOf, Turn, Only, Bits
  <2> QED BY <1>1, <1>2, <2>1, TermsAreNumbers DEF Turn, Next2
<1>5. nb <= n /\ n <= nc
  <2>1. na < n /\ n < nd
    BY <1>1, <1>2, <1>3, <1>4
  <2>2. ~(na < n /\ n < nb) /\ ~(nc < n /\ n < nd)
    BY <1>1, <1>2, <1>4 DEF Turn, Next2
  <2> QED BY <1>4, <2>1, <2>2
<1>6. \A k \in NumbersOf(s, f) : nb <= k /\ k <= nc => Only(s, f, k, 1)
  <2> SUFFICES ASSUME NEW k \in NumbersOf(s, f), nb <= k, k <= nc PROVE Only(s, f, k, 1)
    OBVIOUS
  <2>1. k \in Int
    BY TermsAreNumbers
  <2>2. lo <= 2 * k /\ 2 * k < hi
    BY <1>1, <1>2, <1>4, <2>1
  <2>3. k \notin NumberedAt(s, f, 0)
    BY <2>2 DEF PositiveIn
  <2>4. k \in NumberedAt(s, f, 1)
    BY <2>3 DEF NumbersOf
  <2> QED BY <2>3, <2>4 DEF Only, Bits
<1>7. y = 0 /\ z = 1
  <2>1. Only(s, f, nb, 1) /\ Only(s, f, nc, 1)
    BY <1>4, <1>5, <1>6
  <2>2. y \in Bits /\ Only(s, f, nb, 1 - y) /\ z \in Bits /\ Only(s, f, nc, z)
    BY <1>1, <1>2 DEF Turn
  <2>3. 1 - y = 1 /\ z = 1
    BY <2>1, <2>2 DEF Only, Bits
  <2> QED BY <2>2, <2>3 DEF Bits
<1>8. PICK a, b \in S : Adjacent(S, a, b) /\ a.num = na /\ b.num = nb /\ a.label = 0 /\ b.label = 1
  <2>1. 1 - 0 = 1
    OBVIOUS
  <2> QED BY <1>1, <1>7, <2>1, TurnIsAdjacent
<1>9. PICK c, d \in S : Adjacent(S, c, d) /\ c.num = nc /\ d.num = nd /\ c.label = 1 /\ d.label = 0
  <2>1. 1 - 1 = 0
    OBVIOUS
  <2> QED BY <1>2, <1>7, <2>1, TurnIsAdjacent
<1>10. ~Precedes(c, b)
  <2> SUFFICES ASSUME Precedes(c, b) PROVE FALSE
    OBVIOUS
  <2>1. na < nc
    BY <1>4, <1>5
  <2>2. Precedes(a, c)
    BY <1>8, <1>9, <2>1, Neighbours
  <2> QED BY <1>8, <2>2 DEF Adjacent
<1>11. ASSUME NEW r \in S
       PROVE  IF Adjacent(S, r, b) \/ Adjacent(S, c, r) THEN r.label = 0
              ELSE ~Precedes(r, b) /\ ~Precedes(c, r) => r.label = 1
  <2>1. CASE Adjacent(S, r, b) \/ Adjacent(S, c, r)
    <3>1. r = a \/ r = d
      BY <1>8, <1>9, <2>1, Neighbours
    <3> QED BY <1>8, <1>9, <2>1, <3>1
  <2>2. ASSUME ~Precedes(r, b), ~Precedes(c, r) PROVE r.label = 1
    <3>1. r.num \in NumbersOf(s, f) /\ r.num \in Int /\ Only(s, f, r.num, r.label) /\ r.label \in Bits
      BY PureSamples
    <3>2. nb <= r.num /\ r.num <= nc
      BY <1>4, <1>8, <1>9, <2>2, <3>1, Neighbours
    <3>3. Only(s, f, r.num, 1)
      BY <1>6, <3>1, <3>2
    <3> QED BY <3>1, <3>3 DEF Only
  <2> QED BY <2>1, <2>2
<1>12. <<b, c>> \in PositiveRuns(S)
  BY <1>8, <1>9, <1>10, <1>11, RunIs
<1>13. LowerEnd(S, b) = lo /\ UpperEnd(S, c) = hi
  BY <1>1, <1>2, <1>8, <1>9, EndsOfRuns DEF Mid
<1>14. \E k, m \in NumberedAt(s, f, 0) : 2 * k < lo /\ hi < 2 * m
  <2>1. na \in NumberedAt(s, f, 0) /\ nd \in NumberedAt(s, f, 0)
    BY <1>1, <1>2, <1>7 DEF Turn, Only, Bits
  <2>2. 2 * na < lo /\ hi < 2 * nd
    BY <1>1, <1>2, <1>4
  <2> QED BY <2>1, <2>2
<1>15. Cardinality(S) >= 3
  <2>1. a # b /\ a # d /\ b # d
    BY <1>4, <1>5, <1>8, <1>9
  <2>2. IsFiniteSet({a}) /\ Cardinality({a}) = 1
    BY FS_Singleton
  <2>3. IsFiniteSet({a} \union {b}) /\ Cardinality({a} \union {b}) = 2
    <3>1. b \notin {a}
      BY <2>1
    <3> QED BY <2>2, <3>1, FS_AddElement
  <2>4. Cardinality(({a} \union {b}) \union {d}) = 3
    <3>1. d \notin {a} \union {b}
      BY <2>1
    <3>2. Cardinality(({a} \union {b}) \union {d}) = Cardinality({a} \union {b}) + 1
      BY <2>3, <3>1, FS_AddElement
    <3> QED BY <2>3, <3>2
  <2>5. ({a} \union {b}) \union {d} \in SUBSET S /\ IsFiniteSet(S)
    BY Neighbours
  <2>6. Cardinality(S) \in Nat /\ 3 <= Cardinality(S)
    BY <2>4, <2>5, FS_Subset, FS_CardinalityType
  <2> QED BY <2>6
<1> QED BY <1>12, <1>13, <1>14, <1>15

\* A run between negatives is in a positive interval.
LEMMA RunIsPositive ==
  ASSUME NEW s, NEW f, Plain(s, f), ~Mixed(s, f), NEW S, S = Samples(s, f),
         NEW p \in S, NEW q \in S, <<p, q>> \in PositiveRuns(S),
         NEW k \in NumberedAt(s, f, 0), NEW m \in NumberedAt(s, f, 0),
         2 * k < LowerEnd(S, p), UpperEnd(S, q) < 2 * m
  PROVE  PositiveIn(s, f, LowerEnd(S, p), UpperEnd(S, q))
<1> DEFINE lo == LowerEnd(S, p)
           hi == UpperEnd(S, q)
<1>1. /\ p.label = 1 /\ q.label = 1 /\ ~Precedes(q, p)
      /\ \A r \in S :
           IF Adjacent(S, r, p) \/ Adjacent(S, q, r) THEN r.label = 0
           ELSE ~Precedes(r, p) /\ ~Precedes(q, r) => r.label = 1
  BY RunIs
<1>2. PICK u \in S : u.num = k
  BY PureSamples DEF NumbersOf
<1>3. PICK v \in S : v.num = m
  BY PureSamples DEF NumbersOf
<1>4. p.num \in Int /\ q.num \in Int /\ k \in Int /\ m \in Int
  BY <1>2, <1>3, PureSamples
<1>5. PICK a \in S : Adjacent(S, a, p)
  <2>1. \E r \in S : Precedes(r, p)
    <3> SUFFICES ASSUME ~\E r \in S : Precedes(r, p) PROVE FALSE
      OBVIOUS
    <3>1. lo = p.num + p.num
      BY EndsOfRuns DEF Mid
    <3>2. u.num < p.num
      BY <1>2, <1>4, <3>1
    <3> QED BY <3>2, Neighbours
  <2> QED BY <2>1, Neighbours
<1>6. PICK d \in S : Adjacent(S, q, d)
  <2>1. \E r \in S : Precedes(q, r)
    <3> SUFFICES ASSUME ~\E r \in S : Precedes(q, r) PROVE FALSE
      OBVIOUS
    <3>1. hi = q.num + q.num
      BY EndsOfRuns DEF Mid
    <3>2. q.num < v.num
      BY <1>3, <1>4, <3>1
    <3> QED BY <3>2, Neighbours
  <2> QED BY <2>1, Neighbours
<1>7. a.label = 0 /\ d.label = 0
  BY <1>1, <1>5, <1>6
<1>8. Turn(s, f, a.num, p.num, 0) /\ Turn(s, f, q.num, d.num, 1)
  <2>1. a.label # p.label /\ q.label # d.label
    BY <1>1, <1>7
  <2> QED BY <1>1, <1>5, <1>6, <1>7, <2>1, AdjacentIsTurn
<1>9. lo = a.num + p.num /\ hi = q.num + d.num
  BY <1>5, <1>6, EndsOfRuns DEF Mid
<1>10. /\ a.num \in Int /\ d.num \in Int /\ a.num < p.num /\ q.num < d.num /\ p.num <= q.num
  <2>1. ~(q.num < p.num)
    BY <1>1, Neighbours
  <2> QED BY <1>4, <1>8, <2>1 DEF Turn, Next2
<1>11. lo \in Bounds(s, f) /\ hi \in Bounds(s, f)
  BY <1>8, <1>9, BoundsAreTurns
<1>12. p.num \in NumberedAt(s, f, 1) /\ lo <= 2 * p.num /\ 2 * p.num < hi
  <2>1. p.num \in NumberedAt(s, f, 1)
    BY <1>1, PureSamples DEF Only, Bits
  <2> QED BY <1>4, <1>9, <1>10, <2>1
<1>13. ASSUME NEW n \in NumberedAt(s, f, 0), lo <= 2 * n, 2 * n < hi PROVE FALSE
  <2>1. PICK t \in S : t.num = n
    BY PureSamples DEF NumbersOf
  <2>2. n \in Int /\ t.label = 0
    BY <2>1, PureSamples DEF Only, Bits
  <2>3. a.num < n /\ n < d.num
    BY <1>4, <1>9, <1>10, <1>13, <2>2
  <2>4. ~(n < p.num) /\ ~(q.num < n)
    <3>1. n \in NumbersOf(s, f)
      BY DEF NumbersOf
    <3> QED BY <1>8, <2>3, <3>1 DEF Turn, Next2
  <2>5. n # p.num /\ n # q.num
    BY <1>1, <2>1, <2>2, PureSamples
  <2>6. Precedes(p, t) /\ Precedes(t, q)
    <3>1. p.num < t.num /\ t.num < q.num
      BY <1>4, <2>1, <2>2, <2>4, <2>5
    <3> QED BY <3>1, Neighbours
  <2>7. ~Precedes(t, p) /\ ~Precedes(q, t)
    BY <2>6, Neighbours
  <2>8. t.label = 1
    BY <1>1, <2>2, <2>7 DEF Adjacent
  <2> QED BY <2>2, <2>8
<1> QED BY <1>11, <1>12, <1>13 DEF PositiveIn

-----------------------------------------------------------------------------
\* A maximal run is found from its first number.
LEMMA RunsAreApart ==
  ASSUME NEW s, NEW f, Plain(s, f), ~Mixed(s, f), NEW S, S = Samples(s, f),
         NEW p \in PositiveRuns(S), NEW q \in PositiveRuns(S), p[1].num = q[1].num
  PROVE  p = q
<1> DEFINE RunOf(a, b) ==
             /\ a \in S /\ b \in S /\ a.label = 1 /\ b.label = 1 /\ ~Precedes(b, a)
             /\ \A r \in S :
                  IF Adjacent(S, r, a) \/ Adjacent(S, b, r) THEN r.label = 0
                  ELSE ~Precedes(r, a) /\ ~Precedes(b, r) => r.label = 1
<1>1. RunOf(p[1], p[2]) /\ RunOf(q[1], q[2]) /\ p = <<p[1], p[2]>> /\ q = <<q[1], q[2]>>
  BY DEF PositiveRuns
<1>2. ASSUME NEW a \in S, NEW b \in S, NEW c \in S, NEW d \in S,
             RunOf(a, b), RunOf(c, d), a.num = c.num, Precedes(a, c)
      PROVE  FALSE
  <2>1. PICK r \in S : Adjacent(S, r, c)
    BY <1>2, Neighbours
  <2>2. r.label = 0 /\ c.label = 1
    BY <1>2, <2>1
  <2>3. ~Precedes(r, a)
    BY <1>2, <2>1 DEF Adjacent
  <2>4. Precedes(r, c) /\ a.num \in Int /\ r.num \in Int
    BY <2>1, PureSamples DEF Adjacent
  <2>5. r.num <= c.num /\ ~(r.num < a.num)
    BY <2>3, <2>4, Neighbours
  <2>6. r.num = c.num
    BY <1>2, <2>4, <2>5
  <2> QED BY <2>2, <2>6, PureSamples
<1>3. ASSUME NEW a \in S, NEW b \in S, NEW d \in S, RunOf(a, b), RunOf(a, d), Precedes(b, d)
      PROVE  FALSE
  <2>1. PICK r \in S : Adjacent(S, b, r)
    BY <1>3, Neighbours
  <2>2. r.label = 0
    BY <1>3, <2>1
  <2>3. ~Precedes(d, r) /\ Precedes(b, r)
    BY <1>3, <2>1 DEF Adjacent
  <2>4. ~Precedes(r, a)
    BY <1>3, <2>3, Neighbours
  <2>5. ~Adjacent(S, r, a) /\ ~Adjacent(S, d, r)
    BY <2>3, <2>4 DEF Adjacent
  <2>6. r.label = 1
    BY <1>3, <2>3, <2>4, <2>5
  <2> QED BY <2>2, <2>6
<1>4. p[1] \in S /\ p[2] \in S /\ q[1] \in S /\ q[2] \in S
  BY <1>1
<1>5. p[1] = q[1]
  <2>1. p[1] = q[1] \/ Precedes(p[1], q[1]) \/ Precedes(q[1], p[1])
    BY <1>4, Neighbours
  <2> HIDE DEF RunOf
  <2> QED BY <1>1, <1>2, <1>4, <2>1
<1>6. p[2] = q[2]
  <2>1. p[2] = q[2] \/ Precedes(p[2], q[2]) \/ Precedes(q[2], p[2])
    BY <1>4, Neighbours
  <2> HIDE DEF RunOf
  <2> QED BY <1>1, <1>3, <1>4, <1>5, <2>1
<1> QED BY <1>1, <1>5, <1>6

LEMMA RunsAreFew ==
  ASSUME NEW s, NEW f, Plain(s, f), ~Mixed(s, f), NEW S, S = Samples(s, f)
  PROVE  IsFiniteSet(PositiveRuns(S)) /\ Cardinality(PositiveRuns(S)) <= Len(s.observations)
<1> DEFINE n == Len(s.observations)
           R == PositiveRuns(S)
           from == [p \in R |-> p[1].given[1]]
<1>1. s \in SessionType /\ ServesField(s, f)
  BY DEF Plain
<1>2. \A p \in S : p.given[1] \in DOMAIN s.observations /\ p.num = s.observations[p.given[1]].value.num
  BY <1>1, SamplesAre
<1>3. n \in Nat /\ DOMAIN s.observations = 1..n
  <2>1. s.observations \in Seq([example : Examples, field : Fields, value : Values])
    BY <1>1 DEF SessionType
  <2> QED BY <2>1
<1>4. \A p \in R : p[1] \in S
  BY DEF PositiveRuns
<1> HIDE DEF R
<1>5. \A p \in R : from[p] \in 1..n
  BY <1>2, <1>3, <1>4
<1>6. \A p, q \in R : from[p] = from[q] => p = q
  <2> SUFFICES ASSUME NEW p \in R, NEW q \in R, from[p] = from[q] PROVE p = q
    OBVIOUS
  <2>1. p[1].num = q[1].num
    BY <1>2, <1>4
  <2> QED BY <2>1, RunsAreApart DEF R
<1>7. from \in Injection(R, 1..n)
  <2>1. from \in [R -> 1..n]
    BY <1>5
  <2> HIDE DEF from
  <2> QED BY <1>6, <2>1 DEF Injection, IsInjective
<1>8. IsFiniteSet(1..n) /\ Cardinality(1..n) = n
  BY <1>3, FS_Interval
<1> QED BY <1>7, <1>8, FS_Injection DEF R

\* With room for the runs of a field, the oracle proposes each of them.
LEMMA RunsAreProposed ==
  ASSUME NEW s, NEW f, Plain(s, f), ~Mixed(s, f), NEW S, S = Samples(s, f),
         NEW k \in Nat, Len(s.observations) <= k
  PROVE  ProposedIntervals(s, f, k) =
           IF Cardinality(S) < 3 THEN {}
           ELSE {[lo |-> LowerEnd(S, p[1]), hi |-> UpperEnd(S, p[2])] : p \in PositiveRuns(S)}
<1> DEFINE R == PositiveRuns(S)
           cand == [p \in R |-> RunCandidate(S, p)]
           C == {cand[p] : p \in R}
<1>1. IntervalCandidates(s, f) = IF Cardinality(S) < 3 THEN {} ELSE C
  <2>1. C = {RunCandidate(S, p) : p \in PositiveRuns(S)}
    OBVIOUS
  <2> HIDE DEF C
  <2> QED BY <2>1 DEF IntervalCandidates, RunCandidate, LowerEnd, UpperEnd, RunLength
<1>2. CASE Cardinality(S) < 3
  <2>1. Foremost({}, k) = {}
    BY DEF Foremost
  <2> QED BY <1>1, <1>2, <2>1 DEF ProposedIntervals
<1>3. CASE ~(Cardinality(S) < 3)
  <2>1. IsFiniteSet(R) /\ Cardinality(R) <= Len(s.observations)
    BY RunsAreFew
  <2>2. IsFiniteSet(C) /\ Cardinality(C) <= Cardinality(R)
    <3>1. DOMAIN cand = R /\ cand = [p \in R |-> cand[p]]
      OBVIOUS
    <3> HIDE DEF R, cand
    <3> QED BY <2>1, <3>1, ImageIsSmaller
  <2>3. Len(s.observations) \in Nat
    <3>1. s.observations \in Seq([example : Examples, field : Fields, value : Values])
      BY DEF Plain, SessionType
    <3> QED BY <3>1
  <2>4. Cardinality(C) <= k
    <3>1. Cardinality(C) \in Nat /\ Cardinality(R) \in Nat
      <4> HIDE DEF C, R
      <4> QED BY <2>1, <2>2, FS_CardinalityType
    <3> HIDE DEF C, R
    <3> QED BY <2>1, <2>2, <2>3, <3>1
  <2>5. \A p \in R : LowerEnd(S, p[1]) \in Int /\ RunLength(S, p) \in Int
    <3> SUFFICES ASSUME NEW p \in R PROVE LowerEnd(S, p[1]) \in Int /\ RunLength(S, p) \in Int
      OBVIOUS
    <3>1. p[1] \in S
      BY DEF PositiveRuns
    <3>2. IsFiniteSet({r \in S : ~Precedes(r, p[1]) /\ ~Precedes(p[2], r)})
      BY Neighbours, FS_Subset
    <3> QED BY <3>1, <3>2, EndsOfRuns, FS_CardinalityType DEF RunLength
  <2>6. \A c \in C : c.strength \in Int /\ c.tie \in Int
    <3> HIDE DEF R
    <3> QED BY <2>5 DEF RunCandidate
  <2>7. Foremost(C, k) = C
    <3> HIDE DEF C
    <3> QED BY <2>2, <2>4, <2>6, AllAreForemost
  <2>8. {[lo |-> c.lo, hi |-> c.hi] : c \in C} =
          {[lo |-> LowerEnd(S, p[1]), hi |-> UpperEnd(S, p[2])] : p \in R}
    <3>1. \A p \in R : cand[p].lo = LowerEnd(S, p[1]) /\ cand[p].hi = UpperEnd(S, p[2])
      BY DEF RunCandidate
    <3> HIDE DEF cand, R
    <3> QED BY <3>1
  <2> QED BY <1>1, <1>3, <2>7, <2>8 DEF ProposedIntervals
<1> QED BY <1>2, <1>3

\* Those of them between negatives are the positive intervals.
LEMMA OracleHasThePositive ==
  ASSUME NEW s, NEW f, Plain(s, f), ~Mixed(s, f), Len(s.observations) <= MaxFacts
  PROVE  /\ \A i \in BetweenNegatives(s, f) : i = [lo |-> i.lo, hi |-> i.hi] /\ PositiveIn(s, f, i.lo, i.hi)
         /\ \A lo, hi : PositiveIn(s, f, lo, hi) => [lo |-> lo, hi |-> hi] \in BetweenNegatives(s, f)
<1> DEFINE S == Samples(s, f)
           found(p) == [lo |-> LowerEnd(S, p[1]), hi |-> UpperEnd(S, p[2])]
<1> HIDE DEF S
<1>1. ProposedIntervals(s, f, MaxFacts) =
        IF Cardinality(S) < 3 THEN {} ELSE {found(p) : p \in PositiveRuns(S)}
  BY RunsAreProposed, NumbersAssumption DEF S
<1>2. ASSUME NEW i \in BetweenNegatives(s, f)
      PROVE  i = [lo |-> i.lo, hi |-> i.hi] /\ PositiveIn(s, f, i.lo, i.hi)
  <2>1. i \in ProposedIntervals(s, f, MaxFacts)
        /\ \E n, m \in NumberedAt(s, f, 0) : 2 * n < i.lo /\ i.hi < 2 * m
    BY <1>2 DEF BetweenNegatives
  <2>2. PICK p \in PositiveRuns(S) : i = found(p)
    BY <1>1, <2>1
  <2>3. p[1] \in S /\ p[2] \in S /\ p = <<p[1], p[2]>>
    BY DEF PositiveRuns
  <2>4. i.lo = LowerEnd(S, p[1]) /\ i.hi = UpperEnd(S, p[2])
    BY <2>2
  <2>5. PositiveIn(s, f, LowerEnd(S, p[1]), UpperEnd(S, p[2]))
    BY <2>1, <2>2, <2>3, <2>4, RunIsPositive DEF S
  <2> QED BY <2>2, <2>4, <2>5
<1>3. ASSUME NEW lo, NEW hi, PositiveIn(s, f, lo, hi)
      PROVE  [lo |-> lo, hi |-> hi] \in BetweenNegatives(s, f)
  <2>1. /\ Cardinality(S) >= 3
        /\ \E n, m \in NumberedAt(s, f, 0) : 2 * n < lo /\ hi < 2 * m
    BY <1>3, PositiveIsARun DEF S
  <2>2. PICK p \in S, q \in S : <<p, q>> \in PositiveRuns(S) /\ LowerEnd(S, p) = lo /\ UpperEnd(S, q) = hi
    BY <1>3, PositiveIsARun DEF S
  <2>3. found(<<p, q>>) = [lo |-> lo, hi |-> hi]
    BY <2>2
  <2>4. ~(Cardinality(S) < 3)
    <3>1. Cardinality(S) \in Nat
      BY Neighbours, FS_CardinalityType DEF S
    <3> QED BY <2>1, <3>1
  <2>5. [lo |-> lo, hi |-> hi] \in ProposedIntervals(s, f, MaxFacts)
    BY <1>1, <2>2, <2>3, <2>4
  <2> QED BY <2>1, <2>5 DEF BetweenNegatives
<1> QED BY <1>2, <1>3

-----------------------------------------------------------------------------
\* A session that is valid has lists of no more facts than the bound.
LEMMA ListsAreFew ==
  ASSUME session \in SessionType, Admitted
  PROVE  /\ Len(session.observations) \in Nat /\ Len(session.observations) <= MaxFacts
         /\ Len(session.clause_class_scores) \in Nat /\ Len(session.clause_class_scores) <= MaxFacts
<1>1. session.observations \in Seq([example : Examples, field : Fields, value : Values])
      /\ session.clause_class_scores \in Seq([clause : Clauses, class : Classes, score : Scores])
  BY DEF SessionType
<1>2. \A list \in Lists : Len(session[list]) <= MaxFacts
  BY DEF Admitted, WithinBudget, Valid
<1>3. "observations" \in Lists /\ "clause_class_scores" \in Lists
  BY DEF Lists, EmptySession
<1> QED BY <1>1, <1>2, <1>3

\* Thresholds that are all there are those that the oracle proposes.
LEMMA ThresholdsAgree ==
  ASSUME session \in SessionType, Admitted, PlainNumbers(session, Selected), query.results \in Nat,
         NEW R, R = RowsOf(answer.rows, "threshold_insights"),
         R = BornOut(session, "threshold_insights"),
         IsFiniteSet(R), Cardinality(R) <= query.results
  PROVE  OracleAgrees(session, "threshold_insights")
<1> SUFFICES ASSUME NEW f \in Selected
             PROVE  LET found == {r.at : r \in {r \in R : r.field = f}} IN
                      IF Mixed(session, f)
                      THEN found \subseteq ProposedThresholds(session, f, MaxFacts)
                      ELSE found = ProposedThresholds(session, f, query.results)
  BY DEF OracleAgrees
<1> DEFINE ofIt == {r \in R : r.field = f}
           B == Bounds(session, f)
           S == Samples(session, f)
<1>1. Plain(session, f)
  BY SelectedIsPlain
<1>2. {r.at : r \in ofIt} = B
  <2>1. R = UNION {{ThresholdRow("threshold_insights", g, at) : at \in Bounds(session, g)} : g \in Selected}
    BY DEF BornOut
  <2>2. \A g, at : ThresholdRow("threshold_insights", g, at).field = g
                   /\ ThresholdRow("threshold_insights", g, at).at = at
    BY DEF ThresholdRow
  <2>3. ASSUME NEW r \in ofIt PROVE r.at \in B
    <3>1. PICK g \in Selected : \E at \in Bounds(session, g) : r = ThresholdRow("threshold_insights", g, at)
      BY <2>1
    <3> QED BY <2>2, <3>1
  <2>4. ASSUME NEW at \in B PROVE \E r \in ofIt : r.at = at
    <3>1. ThresholdRow("threshold_insights", f, at) \in R
      BY <2>1
    <3> QED BY <2>2, <3>1
  <2> QED BY <2>3, <2>4
<1>3. CASE Mixed(session, f)
  <2>1. IsFiniteSet(Boundaries(S)) /\ Cardinality(Boundaries(S)) <= Len(session.observations)
    BY <1>1, BoundariesAreFew
  <2>2. Cardinality(Boundaries(S)) <= MaxFacts
    <3>1. Cardinality(Boundaries(S)) \in Nat
      BY <2>1, FS_CardinalityType
    <3> QED BY <2>1, <3>1, ListsAreFew, NumbersAssumption
  <2>3. ProposedThresholds(session, f, MaxFacts) = Boundaries(S)
    BY <1>1, <2>2, AllAreProposed, NumbersAssumption
  <2>4. B \subseteq Boundaries(S)
    BY <1>1, BoundariesAre
  <2> QED BY <1>2, <1>3, <2>3, <2>4
<1>4. CASE ~Mixed(session, f)
  <2>1. Boundaries(S) = B
    BY <1>1, <1>4, BoundariesAre
  <2>2. IsFiniteSet(ofIt) /\ Cardinality(ofIt) <= Cardinality(R)
    BY FS_Subset
  <2>3. Cardinality(B) <= Cardinality(ofIt) /\ IsFiniteSet(B)
    <3> DEFINE at == [r \in ofIt |-> r.at]
    <3>1. DOMAIN at = ofIt /\ at = [r \in ofIt |-> at[r]] /\ B = {at[r] : r \in ofIt}
      BY <1>2
    <3> HIDE DEF at, ofIt, B
    <3> QED BY <2>2, <3>1, ImageIsSmaller
  <2>4. Cardinality(B) <= query.results
    <3>1. Cardinality(B) \in Nat /\ Cardinality(ofIt) \in Nat /\ Cardinality(R) \in Nat
      BY <2>2, <2>3, FS_CardinalityType
    <3> HIDE DEF B, ofIt
    <3> QED BY <2>2, <2>3, <3>1
  <2>5. ProposedThresholds(session, f, query.results) = B
    BY <1>1, <2>1, <2>4, AllAreProposed
  <2> QED BY <1>2, <1>4, <2>5
<1> QED BY <1>3, <1>4

\* Intervals that are all there are those that the oracle proposes between negatives.
LEMMA IntervalsAgree ==
  ASSUME session \in SessionType, Admitted, PlainNumbers(session, Selected),
         NEW R, R = RowsOf(answer.rows, "interval_insights"), R = BornOut(session, "interval_insights")
  PROVE  OracleAgrees(session, "interval_insights")
<1> SUFFICES ASSUME NEW f \in Selected, ~Mixed(session, f)
             PROVE  {[lo |-> r.lo, hi |-> r.hi] : r \in {r \in R : r.field = f}} = BetweenNegatives(session, f)
  BY DEF OracleAgrees
<1>1. Plain(session, f)
  BY SelectedIsPlain
<1>2. /\ \A i \in BetweenNegatives(session, f) :
           i = [lo |-> i.lo, hi |-> i.hi] /\ PositiveIn(session, f, i.lo, i.hi)
      /\ \A lo, hi : PositiveIn(session, f, lo, hi) => [lo |-> lo, hi |-> hi] \in BetweenNegatives(session, f)
  BY <1>1, ListsAreFew, OracleHasThePositive
<1>3. R = UNION {{r \in {IntervalRow(g, lo, hi) : lo \in Bounds(session, g), hi \in Bounds(session, g)} :
                    IsSo(session, r)} : g \in Selected}
  BY DEF BornOut
<1>4. \A g, lo, hi : LET r == IntervalRow(g, lo, hi) IN r.field = g /\ r.lo = lo /\ r.hi = hi
  BY DEF IntervalRow
<1>5. ASSUME NEW r \in R, r.field = f PROVE [lo |-> r.lo, hi |-> r.hi] \in BetweenNegatives(session, f)
  <2>1. PICK g \in Selected :
          r \in {t \in {IntervalRow(g, lo, hi) : lo \in Bounds(session, g), hi \in Bounds(session, g)} :
                   IsSo(session, t)}
    BY <1>3
  <2>2. PICK lo \in Bounds(session, g), hi \in Bounds(session, g) : r = IntervalRow(g, lo, hi)
    BY <2>1
  <2>3. g = f /\ r.lo = lo /\ r.hi = hi
    BY <1>4, <1>5, <2>2
  <2>4. PositiveIn(session, f, lo, hi)
    BY <1>1, <2>1, <2>2, <2>3, PositiveIsSo
  <2> QED BY <1>2, <2>3, <2>4
<1>6. ASSUME NEW i \in BetweenNegatives(session, f)
      PROVE  \E r \in R : r.field = f /\ i = [lo |-> r.lo, hi |-> r.hi]
  <2>1. PositiveIn(session, f, i.lo, i.hi) /\ i = [lo |-> i.lo, hi |-> i.hi]
    BY <1>2
  <2>2. i.lo \in Bounds(session, f) /\ i.hi \in Bounds(session, f)
    BY <2>1 DEF PositiveIn
  <2>3. IsSo(session, IntervalRow(f, i.lo, i.hi))
    BY <1>1, <2>1, <2>2, PositiveIsSo
  <2>4. IntervalRow(f, i.lo, i.hi) \in R
    BY <1>3, <2>2, <2>3
  <2> QED BY <1>4, <2>1, <2>4
<1> QED BY <1>5, <1>6

-----------------------------------------------------------------------------
\* A column of truths is what a literal holds of each example.
LEMMA ColumnsAre ==
  ASSUME session \in SessionType, OneTruthEach("literal_truths"),
         NEW x \in SubjectsOf(session, "literal_truths"),
         NEW y \in SubjectsOf(session, "literal_truths")
  PROVE  /\ Column(session, x) = Column(session, y) <=> Equivalent(session, x, y)
         /\ (\A e \in session.example_domains : Column(session, x)[e] => Column(session, y)[e]) <=>
              Implies(session, "literal_truths", x, y)
         /\ Complete(session, "literal_truths", x) /\ Complete(session, "literal_truths", y)
<1> DEFINE H(z, e) == Holds(session, "literal_truths", z, e)
           F(z, e) == Fails(session, "literal_truths", z, e)
           D == session.example_domains
<1>1. /\ Complete(session, "literal_truths", x) /\ Complete(session, "literal_truths", y)
      /\ \A z \in {x, y} : \A e \in D : ~(H(z, e) /\ F(z, e))
  BY OneTruth
<1>2. \A e \in D : F(y, e) <=> ~H(y, e)
  BY <1>1 DEF Complete
<1>3. \A e \in D : (Column(session, x)[e] <=> H(x, e)) /\ (Column(session, y)[e] <=> H(y, e))
  BY DEF Column
<1>4. Column(session, x) = Column(session, y) <=> SameVector(session, x, y)
  <2>1. ASSUME Column(session, x) = Column(session, y) PROVE SameVector(session, x, y)
    <3> SUFFICES ASSUME NEW e \in D PROVE H(x, e) = H(y, e)
      BY DEF SameVector
    <3>1. Column(session, x)[e] = H(x, e) /\ Column(session, y)[e] = H(y, e)
      BY DEF Column
    <3> QED BY <2>1, <3>1
  <2>2. ASSUME SameVector(session, x, y) PROVE Column(session, x) = Column(session, y)
    BY <2>2 DEF SameVector, Column
  <2> QED BY <2>1, <2>2
<1>5. Implies(session, "literal_truths", x, y) <=> \A e \in D : ~(H(x, e) /\ F(y, e))
  BY Zenon DEF Implies
<1>6. (\A e \in D : Column(session, x)[e] => Column(session, y)[e]) <=> \A e \in D : H(x, e) => H(y, e)
  <2> HIDE DEF H
  <2> QED BY <1>3
<1>7. (\A e \in D : Column(session, x)[e] => Column(session, y)[e]) <=>
        Implies(session, "literal_truths", x, y)
  <2> HIDE DEF H, F
  <2> QED BY <1>2, <1>5, <1>6
<1> QED BY <1>1, <1>4, <1>7, SameVectorIsEquivalent

\* The pairs of literals that are all there are those of the oracle.
LEMMA LiteralsAgree ==
  ASSUME session \in SessionType, Admitted, query.deescalation,
         NEW p \in {"literal_redundancies", "literal_subsumptions"},
         RowsOf(answer.rows, p) = BornOut(session, p)
  PROVE  OracleAgrees(session, p)
<1> DEFINE lits == SubjectsOf(session, "literal_truths")
<1>1. OneTruthEach("literal_truths")
  BY DEF Admitted
<1>2. RowsOf(answer.rows, p) = DerivedRows(session, p, Selected)
  BY DerivedIsBornOut DEF Products
<1>3. \A x, y : PairRow(p, x, y).left = x /\ PairRow(p, x, y).right = y
  BY DEF PairRow
<1>4. LiteralPairs(session) = lits \X lits
  BY DEF LiteralPairs
<1>5. \A x \in LiteralPairs(session) : x[1] \in lits /\ x[2] \in lits /\ x = <<x[1], x[2]>>
  BY <1>4
<1>6. \A x \in LiteralPairs(session) :
        /\ Column(session, x[1]) = Column(session, x[2]) <=> Equivalent(session, x[1], x[2])
        /\ (\A e \in session.example_domains : Column(session, x[1])[e] => Column(session, x[2])[e]) <=>
             Implies(session, "literal_truths", x[1], x[2])
        /\ Complete(session, "literal_truths", x[1]) /\ Complete(session, "literal_truths", x[2])
  BY <1>1, <1>5, ColumnsAre
<1>7. CASE p = "literal_redundancies"
  <2> DEFINE P == {x \in LiteralPairs(session) : x[1] < x[2] /\ Equivalent(session, x[1], x[2])}
  <2>1. RowsOf(answer.rows, p) = {PairRow(p, x[1], x[2]) : x \in P}
    BY <1>2, <1>7 DEF DerivedRows
  <2>2. \A x \in P : x = <<x[1], x[2]>>
    BY <1>5
  <2> HIDE DEF P
  <2>3. PairsIn(p) = P
    BY <1>3, <2>1, <2>2 DEF PairsIn
  <2>4. P = RedundantLiterals(session)
    BY <1>6 DEF P, RedundantLiterals
  <2> QED BY <1>7, <2>3, <2>4 DEF OracleAgrees
<1>8. CASE p = "literal_subsumptions"
  <2> DEFINE P == {x \in LiteralPairs(session) : LiteralSubsumes(session, x[1], x[2])}
  <2>1. RowsOf(answer.rows, p) = {PairRow(p, x[1], x[2]) : x \in P}
    BY <1>2, <1>8 DEF DerivedRows
  <2>2. \A x \in P : x = <<x[1], x[2]>>
    BY <1>5
  <2> HIDE DEF P
  <2>3. PairsIn(p) = P
    BY <1>3, <2>1, <2>2 DEF PairsIn
  <2>4. P = SubsumedLiterals(session)
    BY <1>6 DEF P, SubsumedLiterals, LiteralSubsumes
  <2> QED BY <1>8, <2>3, <2>4 DEF OracleAgrees
<1> QED BY <1>7, <1>8

\* The pairs of clauses that are all there are among those of the oracle.
LEMMA ClausesAgree ==
  ASSUME session \in SessionType, Admitted,
         NEW p, p = "clause_subsumptions", RowsOf(answer.rows, p) = BornOut(session, p)
  PROVE  OracleAgrees(session, p)
<1>1. RowsOf(answer.rows, p) = DerivedRows(session, p, Selected)
  BY DerivedIsBornOut DEF Products
<1> DEFINE S == Described(session)
<1>2. RowsOf(answer.rows, p) =
        {PairRow(p, x[1], x[2]) : x \in {x \in S \X S : ClauseSubsumes(session, x[1], x[2])}}
  BY <1>1 DEF DerivedRows
<1>3. \A x, y : PairRow(p, x, y).left = x /\ PairRow(p, x, y).right = y
  BY DEF PairRow
<1> DEFINE clauses == {m.clause : m \in FactsOf(session, "clause_literals")}
<1>4. \A c \in S : c \in clauses
  BY DEF Described, LiteralsOf
<1>5. SubsumedClauses(session) =
        {x \in clauses \X clauses : /\ LiteralsOf(session, x[1]) \subseteq LiteralsOf(session, x[2])
                                    /\ LiteralsOf(session, x[1]) # LiteralsOf(session, x[2])}
  BY DEF SubsumedClauses
<1> HIDE DEF S, clauses
<1>6. \A x \in S \X S : ClauseSubsumes(session, x[1], x[2]) => <<x[1], x[2]>> \in SubsumedClauses(session)
  BY <1>4, <1>5 DEF ClauseSubsumes
<1>7. PairsIn(p) \subseteq SubsumedClauses(session)
  BY <1>2, <1>3, <1>6 DEF PairsIn
<1> QED BY <1>7 DEF OracleAgrees
-----------------------------------------------------------------------------
\* What truncation leaves of a score is of the sign of what rounding makes of it, and
\* at most one nearer to zero.
LEMMA WeightsAreNear ==
  ASSUME NEW n \in Int
  PROVE  /\ Weight(n) \in Int /\ Allocated(n) \in Int
         /\ Weight(n) # 0 => Nearer(Weight(n), Allocated(n))
         /\ Allocated(n) \notin -1..1 => Weight(n) # 0
<1>1. PICK k \in Int : n = 2 * k \/ n = 2 * k + 1
  <2>1. n \div 2 \in Int /\ (n = 2 * (n \div 2) \/ n = 2 * (n \div 2) + 1)
    OBVIOUS
  <2> QED BY <2>1
<1>2. n \div 2 = k
  BY <1>1
<1>3. n % 2 = 0 <=> n = 2 * k
  BY <1>1
<1>4. (-n) \div 2 = IF n = 2 * k THEN -k ELSE -k - 1
  BY <1>1
<1>5. Weight(n) = IF n >= 0 THEN k ELSE IF n = 2 * k THEN k ELSE k + 1
  BY <1>1, <1>2, <1>4 DEF Weight
<1>6. PICK e \in Int : /\ e \in {k, k + 1} /\ (n = 2 * k => e = k)
                       /\ Allocated(n) = IF e # 0 THEN e ELSE IF n > 0 THEN 1 ELSE -1
  <2> DEFINE e == IF n % 2 = 0 \/ k % 2 = 0 THEN k ELSE k + 1
  <2>1. Allocated(n) = IF e # 0 THEN e ELSE IF n > 0 THEN 1 ELSE -1
    BY <1>2 DEF Allocated
  <2>2. e \in Int /\ e \in {k, k + 1} /\ (n = 2 * k => e = k)
    BY <1>3
  <2> HIDE DEF e
  <2> QED BY <2>1, <2>2
<1>7. Weight(n) \in Int /\ Allocated(n) \in Int
  BY <1>1, <1>5, <1>6
<1>8. ASSUME Weight(n) # 0 PROVE Nearer(Weight(n), Allocated(n))
  BY <1>1, <1>5, <1>6, <1>8 DEF Nearer
<1>9. ASSUME Weight(n) = 0 PROVE Allocated(n) \in -1..1
  BY <1>1, <1>5, <1>6, <1>9
<1> QED BY <1>7, <1>8, <1>9

\* The first of a score in its list.
LEMMA FirstOfEach ==
  ASSUME NEW q, NEW n \in Nat, DOMAIN q = 1..n, NEW i \in 1..n
  PROVE  \E k \in 1..n : q[k] = q[i] /\ \A j \in 1..(k - 1) : q[j] # q[k]
<1> DEFINE T == {k \in 1..n : q[k] = q[i]}
<1>1. PICK k \in T : \A j \in T : k <= j
  <2>1. T \subseteq Nat /\ T # {}
    OBVIOUS
  <2> HIDE DEF T
  <2> QED BY <2>1, LeastNumber
<1>2. \A j \in 1..(k - 1) : j \in 1..n /\ ~(k <= j)
  OBVIOUS
<1>3. \A j \in 1..(k - 1) : q[j] # q[k]
  BY <1>1, <1>2
<1> QED BY <1>1, <1>3

\* With room for its scores, the oracle allocates a weight to each that is of a class.
LEMMA ScoresAreAllocated ==
  ASSUME session \in SessionType, Admitted
  PROVE  AllocatedWeights(session, MaxFacts) =
           {WeightRow(t.clause, t.class, Allocated(t.score)) :
              t \in {t \in FactsOf(session, "clause_class_scores") : t.class \in Supported(session)}}
<1> DEFINE q == session.clause_class_scores
           n == Len(q)
           first(k) == {i \in DOMAIN q : q[i].class = k /\ \A j \in 1..(i - 1) : q[j] # q[i]}
           C(k) == ClassCandidates(session, k)
<1>1. n \in Nat /\ n <= MaxFacts /\ DOMAIN q = 1..n
  <2>1. q \in Seq([clause : Clauses, class : Classes, score : Scores])
    BY DEF SessionType
  <2> QED BY <2>1, ListsAreFew
<1>2. \A i \in 1..n : q[i] \in FactsOf(session, "clause_class_scores") /\ q[i].score \in Int
  <2>1. \A i \in 1..n : q[i] \in FactsOf(session, "clause_class_scores")
    BY <1>1 DEF FactsOf
  <2>2. \A t \in FactsOf(session, "clause_class_scores") : t.score \in Int
    BY FactTypes, NumbersAssumption
  <2> QED BY <2>1, <2>2
<1>3. ASSUME NEW k PROVE Foremost(C(k), MaxFacts) = C(k)
  <2> DEFINE cand == [i \in first(k) |-> [clause |-> q[i].clause, strength |-> q[i].score, tie |-> i]]
  <2>1. C(k) = {cand[i] : i \in first(k)}
    BY DEF ClassCandidates
  <2>2. IsFiniteSet(first(k)) /\ Cardinality(first(k)) <= n
    <3>1. IsFiniteSet(1..n) /\ Cardinality(1..n) = n
      BY <1>1, FS_Interval
    <3>2. first(k) \in SUBSET (1..n)
      BY <1>1
    <3> HIDE DEF first
    <3> QED BY <3>1, <3>2, FS_Subset
  <2>3. IsFiniteSet(C(k)) /\ Cardinality(C(k)) <= Cardinality(first(k))
    <3>1. DOMAIN cand = first(k) /\ cand = [i \in first(k) |-> cand[i]]
      OBVIOUS
    <3> HIDE DEF first, cand, C
    <3> QED BY <2>1, <2>2, <3>1, ImageIsSmaller
  <2>4. Cardinality(C(k)) <= MaxFacts
    <3>1. Cardinality(C(k)) \in Nat /\ Cardinality(first(k)) \in Nat
      <4> HIDE DEF C, first
      <4> QED BY <2>2, <2>3, FS_CardinalityType
    <3> HIDE DEF C, first
    <3> QED BY <1>1, <2>2, <2>3, <3>1, NumbersAssumption
  <2>5. \A c \in C(k) : c.strength \in Int /\ c.tie \in Int
    <3>1. \A i \in first(k) : i \in Int /\ q[i].score \in Int
      BY <1>1, <1>2
    <3> HIDE DEF first, C
    <3> QED BY <2>1, <3>1
  <2> HIDE DEF C
  <2> QED BY <2>3, <2>4, <2>5, AllAreForemost, NumbersAssumption
<1> DEFINE A == AllocatedWeights(session, MaxFacts)
           facts == FactsOf(session, "clause_class_scores")
           row(t) == WeightRow(t.clause, t.class, Allocated(t.score))
<1>4. A = UNION {{WeightRow(c.clause, k, Allocated(c.strength)) : c \in C(k)} : k \in Supported(session)}
  BY <1>3 DEF AllocatedWeights
<1>5. ASSUME NEW v \in A PROVE \E t \in facts : t.class \in Supported(session) /\ v = row(t)
  <2>1. PICK k \in Supported(session) : \E c \in C(k) : v = WeightRow(c.clause, k, Allocated(c.strength))
    <3> HIDE DEF C, A
    <3> QED BY <1>4
  <2>2. PICK i \in first(k) :
          v = WeightRow(q[i].clause, k, Allocated(q[i].score))
    BY <2>1 DEF ClassCandidates
  <2>3. q[i] \in facts /\ q[i].class = k
    BY <1>1, <1>2
  <2> QED BY <2>2, <2>3
<1>6. ASSUME NEW t \in facts, t.class \in Supported(session) PROVE row(t) \in A
  <2>1. PICK i \in 1..n : t = q[i]
    BY <1>1 DEF FactsOf
  <2>2. PICK k \in 1..n : q[k] = q[i] /\ \A j \in 1..(k - 1) : q[j] # q[k]
    <3>1. \A i1 \in 1..n : \E k \in 1..n : q[k] = q[i1] /\ \A j \in 1..(k - 1) : q[j] # q[k]
      <4> HIDE DEF n, q
      <4> QED BY <1>1, FirstOfEach, Zenon
    <3> QED BY <3>1
  <2>3. k \in first(t.class)
    BY <1>1, <2>1, <2>2
  <2>4. [clause |-> q[k].clause, strength |-> q[k].score, tie |-> k] \in C(t.class)
    BY <2>3 DEF ClassCandidates
  <2>5. row(t) \in {WeightRow(c.clause, t.class, Allocated(c.strength)) : c \in C(t.class)}
    <3> HIDE DEF C
    <3> QED BY <2>1, <2>2, <2>4
  <2> HIDE DEF C, A
  <2> QED BY <1>4, <1>6, <2>5
<1>7. A = {row(t) : t \in {t \in facts : t.class \in Supported(session)}}
  <2> HIDE DEF A, facts
  <2> QED BY <1>5, <1>6
<1> QED BY <1>7

\* The weights that are all there are near those of the oracle.
LEMMA WeightsAgree ==
  ASSUME session \in SessionType, Admitted,
         NEW p, p = "weight_proposals", RowsOf(answer.rows, p) = BornOut(session, p)
  PROVE  OracleAgrees(session, p)
<1> DEFINE facts == FactsOf(session, "clause_class_scores")
           supported == Supported(session)
           R == RowsOf(answer.rows, p)
           A == AllocatedWeights(session, MaxFacts)
           same(r, v) == r.clause = v.clause /\ r.class = v.class
<1>1. R = {WeightRow(t.clause, t.class, Weight(t.score)) :
             t \in {t \in facts : t.class \in supported /\ Weight(t.score) # 0}}
  BY DerivedIsBornOut DEF Products, DerivedRows, WeightRows
<1>2. A = {WeightRow(t.clause, t.class, Allocated(t.score)) : t \in {t \in facts : t.class \in supported}}
  BY ScoresAreAllocated
<1>3. \A c, k, w : LET r == WeightRow(c, k, w) IN r.clause = c /\ r.class = k /\ r.weight = w
  BY DEF WeightRow
<1>4. \A t \in facts : t.score \in Int
  BY FactTypes, NumbersAssumption
<1> HIDE DEF R, A, facts, supported
<1>5. \A r \in R : \E v \in A : same(r, v) /\ Nearer(r.weight, v.weight)
  <2> SUFFICES ASSUME NEW r \in R PROVE \E v \in A : same(r, v) /\ Nearer(r.weight, v.weight)
    OBVIOUS
  <2>1. PICK t \in facts : /\ t.class \in supported /\ Weight(t.score) # 0
                           /\ r = WeightRow(t.clause, t.class, Weight(t.score))
    BY <1>1
  <2>2. WeightRow(t.clause, t.class, Allocated(t.score)) \in A
    BY <1>2, <2>1
  <2>3. Nearer(Weight(t.score), Allocated(t.score))
    BY <1>4, <2>1, WeightsAreNear
  <2> QED BY <1>3, <2>1, <2>2, <2>3
<1>6. \A v \in A : v.weight \notin -1..1 => \E r \in R : same(r, v)
  <2> SUFFICES ASSUME NEW v \in A, v.weight \notin -1..1 PROVE \E r \in R : same(r, v)
    OBVIOUS
  <2>1. PICK t \in facts : t.class \in supported /\ v = WeightRow(t.clause, t.class, Allocated(t.score))
    BY <1>2
  <2>2. Weight(t.score) # 0
    BY <1>3, <1>4, <2>1, WeightsAreNear
  <2>3. WeightRow(t.clause, t.class, Weight(t.score)) \in R
    BY <1>1, <2>1, <2>2
  <2> QED BY <1>3, <2>1, <2>3
<1> QED BY <1>5, <1>6 DEF OracleAgrees, R, A

-----------------------------------------------------------------------------
\* Each list of a session has a length.
LEMMA ListsHaveLengths ==
  ASSUME NEW s \in SessionType, NEW list \in Lists
  PROVE  Len(s[list]) \in Nat
<1>1. list \in {"observations", "example_labels", "literal_truths", "clause_truths",
                "clause_literals", "class_supports", "clause_class_scores"}
  BY DEF Lists, EmptySession
<1>2. /\ s.observations \in Seq([example : Examples, field : Fields, value : Values])
      /\ s.example_labels \in Seq([example : Examples, label : Bits])
      /\ s.literal_truths \in Seq([of : Literals, example : Examples, truth : Bits])
      /\ s.clause_truths \in Seq([of : Clauses, example : Examples, truth : Bits])
      /\ s.clause_literals \in Seq([clause : Clauses, literal : Literals])
      /\ s.class_supports \in Seq(Classes)
      /\ s.clause_class_scores \in Seq([clause : Clauses, class : Classes, score : Scores])
  BY DEF SessionType
<1> QED BY <1>1, <1>2

\* A fact makes one list longer and none shorter.
LEMMA FactsAreAppended ==
  ASSUME session \in SessionType, AddFact
  PROVE  \E list \in Lists :
           /\ Len(session'[list]) = Len(session[list]) + 1
           /\ \A other \in Lists \ {list} : session'[other] = session[other]
<1>1. \A list \in Lists : list # "example_domains" /\ list \in DOMAIN session
  BY DEF Lists, EmptySession, SessionType
<1>2. ASSUME NEW list \in Lists, NEW T, session[list] \in Seq(T), NEW fact \in T, NEW d,
             \/ session' = [session EXCEPT ![list] = Append(@, fact)]
             \/ session' = [session EXCEPT ![list] = Append(@, fact), !.example_domains = d]
      PROVE  \E l \in Lists : /\ Len(session'[l]) = Len(session[l]) + 1
                              /\ \A other \in Lists \ {l} : session'[other] = session[other]
  <2>1. session'[list] = Append(session[list], fact)
    BY <1>1, <1>2
  <2>2. Len(session'[list]) = Len(session[list]) + 1
    <3> DEFINE q == session[list]
    <3>1. q \in Seq(T) /\ fact \in T
      BY <1>2
    <3> HIDE DEF q
    <3>2. Len(Append(q, fact)) = Len(q) + 1
      BY <3>1
    <3> QED BY <2>1, <3>2 DEF q
  <2>3. \A other \in Lists \ {list} : session'[other] = session[other]
    BY <1>1, <1>2
  <2> QED BY <2>2, <2>3
<1>3. /\ session.observations \in Seq([example : Examples, field : Fields, value : Values])
      /\ session.example_labels \in Seq([example : Examples, label : Bits])
      /\ session.literal_truths \in Seq([of : Literals, example : Examples, truth : Bits])
      /\ session.clause_truths \in Seq([of : Clauses, example : Examples, truth : Bits])
      /\ session.clause_literals \in Seq([clause : Clauses, literal : Literals])
      /\ session.class_supports \in Seq(Classes)
      /\ session.clause_class_scores \in Seq([clause : Clauses, class : Classes, score : Scores])
  BY DEF SessionType
<1>4. {"observations", "example_labels", "literal_truths", "clause_truths",
       "clause_literals", "class_supports", "clause_class_scores"} \subseteq Lists
  BY DEF Lists, EmptySession
<1>5. CASE AddObservation
  <2>1. PICK e \in Examples, f \in Fields, v \in Values : Add("observations", Observation(e, f, v))
    BY <1>5 DEF AddObservation
  <2>2. Observation(e, f, v) \in [example : Examples, field : Fields, value : Values]
    BY DEF Observation
  <2>3. session' = [session EXCEPT !["observations"] = Append(@, Observation(e, f, v))]
    BY <2>1 DEF Add
  <2> QED BY <1>2, <1>3, <1>4, <2>2, <2>3
<1>6. CASE AddExampleLabel
  <2>1. PICK e \in Examples, y \in Bits : AddAbout("example_labels", Label(e, y))
    BY <1>6 DEF AddExampleLabel
  <2>2. Label(e, y) \in [example : Examples, label : Bits]
    BY DEF Label
  <2>3. session' = [session EXCEPT !["example_labels"] = Append(@, Label(e, y)),
                                   !.example_domains = @ \union {Label(e, y).example}]
    BY <2>1 DEF AddAbout
  <2> QED BY <1>2, <1>3, <1>4, <2>2, <2>3
<1>7. CASE AddLiteralTruth
  <2>1. PICK l \in Literals, e \in Examples, t \in Bits : AddAbout("literal_truths", Truth(l, e, t))
    BY <1>7 DEF AddLiteralTruth
  <2>2. Truth(l, e, t) \in [of : Literals, example : Examples, truth : Bits]
    BY DEF Truth
  <2>3. session' = [session EXCEPT !["literal_truths"] = Append(@, Truth(l, e, t)),
                                   !.example_domains = @ \union {Truth(l, e, t).example}]
    BY <2>1 DEF AddAbout
  <2> QED BY <1>2, <1>3, <1>4, <2>2, <2>3
<1>8. CASE AddClauseTruth
  <2>1. PICK c \in Clauses, e \in Examples, t \in Bits : AddAbout("clause_truths", Truth(c, e, t))
    BY <1>8 DEF AddClauseTruth
  <2>2. Truth(c, e, t) \in [of : Clauses, example : Examples, truth : Bits]
    BY DEF Truth
  <2>3. session' = [session EXCEPT !["clause_truths"] = Append(@, Truth(c, e, t)),
                                   !.example_domains = @ \union {Truth(c, e, t).example}]
    BY <2>1 DEF AddAbout
  <2> QED BY <1>2, <1>3, <1>4, <2>2, <2>3
<1>9. CASE AddClauseLiteral
  <2>1. PICK c \in Clauses, l \in Literals : Add("clause_literals", Member(c, l))
    BY <1>9 DEF AddClauseLiteral
  <2>2. Member(c, l) \in [clause : Clauses, literal : Literals]
    BY DEF Member
  <2>3. session' = [session EXCEPT !["clause_literals"] = Append(@, Member(c, l))]
    BY <2>1 DEF Add
  <2> QED BY <1>2, <1>3, <1>4, <2>2, <2>3
<1>10. CASE AddClassSupport
  <2>1. PICK k \in Classes : Add("class_supports", k)
    BY <1>10 DEF AddClassSupport
  <2>2. session' = [session EXCEPT !["class_supports"] = Append(@, k)]
    BY <2>1 DEF Add
  <2> QED BY <1>2, <1>3, <1>4, <2>2
<1>11. CASE AddClauseClassScore
  <2>1. PICK c \in Clauses, k \in Classes, n \in Scores : Add("clause_class_scores", Score(c, k, n))
    BY <1>11 DEF AddClauseClassScore
  <2>2. Score(c, k, n) \in [clause : Clauses, class : Classes, score : Scores]
    BY DEF Score
  <2>3. session' = [session EXCEPT !["clause_class_scores"] = Append(@, Score(c, k, n))]
    BY <2>1 DEF Add
  <2> QED BY <1>2, <1>3, <1>4, <2>2, <2>3
<1> QED BY <1>5, <1>6, <1>7, <1>8, <1>9, <1>10, <1>11 DEF AddFact
-----------------------------------------------------------------------------
\* A session never has fewer facts than the answer that was accepted of it, so that a
\* fresh answer is of the very session that was admitted.
OldAnswer ==
  verdict = "answered" => \A list \in Lists : Len(answer.about[list]) <= Len(session[list])
Disbelief ==
  verdict = "disbelieved" /\ misprints = 0 =>
    ~PlainNumbers(session, Selected) \/ ~PlainScores(session)
HasAll(p) ==
  /\ IsWhole(p) /\ IsFiniteSet(RowsOf(answer.rows, p))
  /\ Cardinality(RowsOf(answer.rows, p)) <= query.results
FreshAnswer ==
  Fresh =>
    /\ Admitted
    /\ misprints = 0 /\ PlainNumbers(session, Selected) =>
         \A p \in Products : AskedFor(p) /\ SaysWhole(p) => HasAll(p)
    /\ query.consumer = "redundancies" => IsWhole("literal_redundancies")
WholeInv == query \in Queries /\ OldAnswer /\ Disbelief /\ FreshAnswer

\* Nothing is answered yet.
LEMMA WholeInit == Init => WholeInv
BY DEF Init, CollectiveInit, WholeInv, OldAnswer, Disbelief, FreshAnswer, Fresh

\* What is known of an answer is of the session, the query and how it was judged.
LEMMA WholeStays ==
  ASSUME WholeInv, UNCHANGED <<session, query, answer, verdict, misprints>> PROVE WholeInv'
<1>1. Selected' = Selected
  BY DEF Selected, NumericField
<1>2. OldAnswer' /\ Disbelief'
  BY <1>1 DEF WholeInv, OldAnswer, Disbelief
<1>3. Fresh' = Fresh /\ (Admitted => Admitted')
  BY AdmittedStays DEF Fresh
<1>4. ASSUME NEW p PROVE AskedFor(p)' = AskedFor(p) /\ SaysWhole(p)' = SaysWhole(p) /\ HasAll(p)' = HasAll(p)
  BY <1>1 DEF AskedFor, SaysWhole, HasAll, IsWhole, BornOut
<1>5. IsWhole("literal_redundancies")' = IsWhole("literal_redundancies")
  BY <1>1 DEF IsWhole, BornOut
<1>6. PlainNumbers(session, Selected)' = PlainNumbers(session, Selected)
  BY <1>1
<1>7. FreshAnswer'
  <2> SUFFICES ASSUME Fresh' PROVE FreshAnswer'
    BY DEF FreshAnswer
  <2>1. /\ Admitted
        /\ misprints = 0 /\ PlainNumbers(session, Selected) =>
             \A p \in Products : AskedFor(p) /\ SaysWhole(p) => HasAll(p)
        /\ query.consumer = "redundancies" => IsWhole("literal_redundancies")
    BY <1>3 DEF WholeInv, FreshAnswer
  <2>2. Admitted'
    BY <1>3, <2>1
  <2>3. (misprints = 0 /\ PlainNumbers(session, Selected) =>
           \A p \in Products : AskedFor(p) /\ SaysWhole(p) => HasAll(p))'
    BY <1>4, <1>6, <2>1
  <2>4. (query.consumer = "redundancies" => IsWhole("literal_redundancies"))'
    BY <1>5, <2>1
  <2> QED BY <2>2, <2>3, <2>4 DEF FreshAnswer
<1> QED BY <1>2, <1>7 DEF WholeInv

-----------------------------------------------------------------------------
\* A run that ends without a print, or goes on, answers nothing.
LEMMA UnjudgedIsWhole ==
  ASSUME WholeInv, UNCHANGED query, verdict' \notin {"answered", "disbelieved"} PROVE WholeInv'
BY DEF WholeInv, OldAnswer, Disbelief, FreshAnswer, Fresh

\* An honest print that is believed is whole where it says so; the pairs to
\* contract are also in a print of which one line or count was altered.
LEMMA ReadIsWhole ==
  ASSUME CollectiveInv, WholeInv, misprints \in Nat, phase = "call", UNCHANGED <<session, query>>,
         NEW h \in Honest(Derived(session, query, Selected)), NEW print, Countable(print),
         \/ print = h /\ UNCHANGED misprints
         \/ print \in Altered(h) /\ misprints' = misprints + 1,
         verdict' = Judged(print),
         verdict' = "answered" =>
           answer' = [rows |-> print.rows, available |-> print.available, about |-> session]
  PROVE  WholeInv'
<1>1. session \in SessionType /\ Admitted /\ query.results \in Nat
  BY QueriesAssumption DEF CollectiveInv, RunIsAdmitted, WholeInv
<1>2. misprints' = 0 => print = h
  OBVIOUS
<1>3. Selected' = Selected
  BY DEF Selected, NumericField
<1>4. OldAnswer'
  <2> SUFFICES ASSUME verdict' = "answered", NEW list \in Lists
               PROVE  Len(answer'.about[list]) <= Len(session'[list])
    BY DEF OldAnswer
  <2>1. Len(session[list]) \in Nat
    BY <1>1, ListsHaveLengths
  <2> QED BY <2>1
<1>5. Disbelief'
  <2> SUFFICES ASSUME verdict' = "disbelieved", misprints' = 0,
                      PlainNumbers(session, Selected), PlainScores(session)
               PROVE  FALSE
    BY <1>3 DEF Disbelief
  <2> QED BY <1>1, <1>2, HonestIsBelieved
<1>6. ASSUME Fresh' PROVE FreshAnswer'
  <2>1. /\ Judged(print) = "answered"
        /\ answer'.rows = print.rows /\ answer'.available = print.available /\ answer'.about = session
    BY <1>6 DEF Fresh
  <2>2. Admitted'
    BY <1>1, AdmittedStays
  <2>3. \A p : BornOut(answer.about, p)' = BornOut(session, p)
    BY <1>3, <2>1 DEF BornOut
  <2>4. \A p : RowsOf(answer.rows, p)' = RowsOf(print.rows, p)
    BY <2>1 DEF RowsOf
  <2>5. ASSUME misprints' = 0, PlainNumbers(session, Selected),
               NEW p \in Products, AskedFor(p)', SaysWhole(p)'
        PROVE  HasAll(p)'
    <3>1. print = h
      BY <1>2, <2>5
    <3>2. AskedFor(p)
      BY <2>5 DEF AskedFor
    <3>3. Cardinality(RowsOf(h.rows, p)) = h.available[p]
      BY <2>1, <2>4, <2>5, <3>1 DEF SaysWhole
    <3>4. /\ RowsOf(h.rows, p) = BornOut(session, p)
          /\ IsFiniteSet(RowsOf(h.rows, p)) /\ Cardinality(RowsOf(h.rows, p)) <= query.results
      BY <1>1, <2>5, <3>2, <3>3, HonestIsWhole
    <3> QED BY <2>3, <2>4, <3>1, <3>4 DEF HasAll, IsWhole
  <2>6. ASSUME query.consumer = "redundancies" PROVE IsWhole("literal_redundancies")'
    <3>1. RowsOf(print.rows, "literal_redundancies") = BornOut(session, "literal_redundancies")
      BY <1>1, <2>1, <2>6, ContractionIsWhole
    <3> QED BY <2>3, <2>4, <3>1 DEF IsWhole
  <2>7. PlainNumbers(session, Selected)' = PlainNumbers(session, Selected)
    BY <1>3
  <2> QED BY <2>2, <2>5, <2>6, <2>7 DEF FreshAnswer
<1>7. FreshAnswer'
  BY <1>6 DEF FreshAnswer
<1> QED BY <1>4, <1>5, <1>7 DEF WholeInv

\* The child ends with a print.
LEMMA AnsweredIsWhole ==
  ASSUME CollectiveInv, WholeInv, misprints \in Nat, Answered, UNCHANGED session PROVE WholeInv'
<1>1. phase = "call" /\ session \in SessionType /\ FieldsServe
  BY DEF Answered, Returned, CollectiveInv, RunIsAdmitted, Admitted
<1>2. PICK h \in Honest(Derived(session, query, Selected)) :
        \/ Read(h) /\ UNCHANGED misprints
        \/ misprints' = misprints + 1 /\ \E print \in Altered(h) : Read(print)
  BY DEF Answered
<1>3. PICK print : /\ Read(print)
                   /\ \/ print = h /\ UNCHANGED misprints
                      \/ print \in Altered(h) /\ misprints' = misprints + 1
  <2>1. CASE Read(h) /\ UNCHANGED misprints
    BY <2>1
  <2>2. CASE misprints' = misprints + 1 /\ \E print \in Altered(h) : Read(print)
    BY <2>2
  <2> QED BY <1>2, <2>1, <2>2
<1>4. Countable(h)
  BY <1>1, HonestIsCountable
<1>5. h.twice = {} /\
      h \in [rows : SUBSET h.rows, twice : {{}}, declared : {h.declared},
             available : {h.available}, total : {h.total}]
  BY DEF Honest
<1>6. Countable(print)
  BY <1>3, <1>4, <1>5, AlteredIsCountable
<1>7. UNCHANGED query /\ verdict' = Judged(print) /\
      (verdict' = "answered" =>
         answer' = [rows |-> print.rows, available |-> print.available, about |-> session])
  BY <1>3 DEF Read, EndRun
<1> QED BY <1>1, <1>3, <1>6, <1>7, ReadIsWhole

\* A fact that is added makes the answer old.
LEMMA LearnIsWhole ==
  ASSUME CollectiveInv, WholeInv, Learn PROVE WholeInv'
<1>1. UNCHANGED <<query, verdict, answer, misprints>> /\ AddFact /\ session \in SessionType
  BY DEF Learn, collectiveVars, CollectiveInv
<1>2. CASE verdict = "none"
  BY <1>1, <1>2, UnjudgedIsWhole
<1>3. CASE verdict = "answered"
  <2>1. PICK list \in Lists : /\ Len(session'[list]) = Len(session[list]) + 1
                              /\ \A other \in Lists \ {list} : session'[other] = session[other]
    BY <1>1, FactsAreAppended
  <2>2. answer.about \in SessionType
    BY DEF CollectiveInv, AnswerIsSo
  <2>3. \A l \in Lists : /\ Len(answer.about[l]) \in Nat /\ Len(session[l]) \in Nat
                         /\ Len(answer.about[l]) <= Len(session[l])
    BY <1>1, <1>3, <2>2, ListsHaveLengths DEF WholeInv, OldAnswer
  <2>4. \A l \in Lists : Len(answer.about[l]) <= Len(session'[l])
    BY <2>1, <2>3
  <2>5. OldAnswer'
    BY <1>1, <2>4 DEF OldAnswer
  <2>6. answer.about # session'
    <3>1. Len(answer.about[list]) # Len(session'[list])
      BY <2>1, <2>3
    <3> QED BY <3>1
  <2>7. ~Fresh'
    BY <1>1, <2>6 DEF Fresh
  <2> QED BY <1>1, <1>3, <2>5, <2>7 DEF WholeInv, Disbelief, FreshAnswer
<1> QED BY <1>2, <1>3 DEF Learn, CollectiveInv, RunIsAdmitted

LEMMA StepIsWhole ==
  ASSUME CollectiveInv, ProposalInv, WholeInv, [Next]_vars PROVE WholeInv'
<1>1. CASE Collect
  <2>1. CollectiveStep /\ UNCHANGED session
    BY <1>1 DEF Collect
  <2>2. CASE Ask
    <3>1. CASE verdict' = "refused"
      BY <2>2, <3>1, UnjudgedIsWhole DEF Ask
    <3>2. CASE UNCHANGED verdict
      BY <2>1, <2>2, <3>2, WholeStays DEF Ask
    <3> QED BY <2>2, <3>1, <3>2 DEF Ask, EndRun
  <2>3. CASE CallStep
    BY <2>1, <2>3, WholeStays DEF CallStep
  <2>4. CASE CallFailed \/ ExitFailed \/ Garbled
    <3>1. verdict' \in {"timeout", "protocol", "interrupted", "execution"} /\ UNCHANGED query
      BY <2>4 DEF CallFailed, ExitFailed, Garbled, EndRun
    <3> QED BY <3>1, UnjudgedIsWhole
  <2>5. CASE Answered
    BY <2>1, <2>5, AnsweredIsWhole DEF ProposalInv
  <2> QED BY <2>1, <2>2, <2>3, <2>4, <2>5 DEF CollectiveStep
<1>2. CASE Learn
  BY <1>2, LearnIsWhole
<1>3. CASE Promote \/ UNCHANGED vars
  <2>1. UNCHANGED <<session, query, answer, verdict, misprints>>
    BY <1>3 DEF Promote, Review, Materialize, Compile, vars, collectiveVars
  <2> QED BY <2>1, WholeStays
<1> QED BY <1>1, <1>2, <1>3 DEF Next

\* What is whole agrees with the oracle of its product.
LEMMA WholeAgrees ==
  ASSUME session \in SessionType, Admitted, PlainNumbers(session, Selected), query.results \in Nat,
         answer.about = session, NEW p \in Products, AskedFor(p), HasAll(p)
  PROVE  OracleAgrees(session, p)
<1>1. RowsOf(answer.rows, p) = BornOut(session, p)
  BY DEF HasAll, IsWhole
<1>2. CASE p = "threshold_insights"
  BY <1>1, <1>2, ThresholdsAgree DEF HasAll
<1>3. CASE p = "interval_insights"
  BY <1>1, <1>3, IntervalsAgree
<1>4. CASE p \in {"literal_redundancies", "literal_subsumptions"}
  <2>1. query.deescalation
    BY <1>4 DEF AskedFor
  <2> QED BY <1>1, <1>4, <2>1, LiteralsAgree
<1>5. CASE p = "clause_subsumptions"
  BY <1>1, <1>5, ClausesAgree
<1>6. CASE p = "weight_proposals"
  BY <1>1, <1>6, WeightsAgree
<1>7. CASE p = "threshold_proposals"
  BY <1>7 DEF OracleAgrees
<1> QED BY <1>2, <1>3, <1>4, <1>5, <1>6, <1>7 DEF Products

(***************************************************************************)
(* While the child prints what it derives, an answer that says it is whole *)
(* has all that the session bears out and agrees with the reference        *)
(* oracles, and it is disbelieved only where numbers are of two Python     *)
(* types or a clause has two scores for a class; and the service that      *)
(* contracts literals gets every equivalent pair, also from a print of     *)
(* which one line or count was altered                                     *)
(* (collective.py, pta_input.pl, input.py, deescalation.py, escalation.py, *)
(* model_generation.py:2957-3139).                                         *)
(***************************************************************************)
THEOREM AnswersStayWhole == Spec => []AnswersAreWhole
<1>1. CollectiveInv /\ ProposalInv /\ WholeInv /\ [Next]_vars => WholeInv'
  BY StepIsWhole
<1>2. CollectiveInv /\ WholeInv => AnswersAreWhole
  <2> SUFFICES ASSUME CollectiveInv, WholeInv PROVE AnswersAreWhole
    OBVIOUS
  <2>1. session \in SessionType /\ query.results \in Nat
    BY QueriesAssumption DEF CollectiveInv, WholeInv
  <2>2. verdict = "disbelieved" /\ misprints = 0 =>
          ~PlainNumbers(session, Selected) \/ ~PlainScores(session)
    BY DEF WholeInv, Disbelief
  <2>3. ASSUME Fresh, misprints = 0, PlainNumbers(session, Selected),
               NEW p \in Products, AskedFor(p), SaysWhole(p)
        PROVE  IsWhole(p) /\ OracleAgrees(session, p)
    <3>1. HasAll(p) /\ Admitted
      BY <2>3 DEF WholeInv, FreshAnswer
    <3>2. OracleAgrees(session, p)
      BY <2>1, <2>3, <3>1, WholeAgrees DEF Fresh
    <3> QED BY <3>1, <3>2 DEF HasAll
  <2>4. Fresh /\ query.consumer = "redundancies" => IsWhole("literal_redundancies")
    BY DEF WholeInv, FreshAnswer
  <2> QED BY <2>2, <2>3, <2>4 DEF AnswersAreWhole
<1> QED BY <1>1, <1>2, WholeInit, CollectiveInvariant, ProposalInvariant, PTL DEF Spec
-----------------------------------------------------------------------------
\* A review is of a pure flip of the facts it names.
Sound(r) == \E x, y \in r.facts : Boundary(r.facts, x, y, r.at)

CatalogsAreMaps == DOMAIN literals = Catalogs /\ literals = [c \in Catalogs |-> literals[c]]
ReviewIsSound == reviewed # None => Sound(reviewed)
ClauseIsSound ==
  materialized # None =>
    /\ Sound(materialized.review)
    /\ materialized.seen = materialized.review.facts
ArtifactIsEarned == artifact # None => artifact.catalog \in Catalogs /\ Earned(artifact)

PromotionInv == CatalogsAreMaps /\ ReviewIsSound /\ ClauseIsSound /\ ArtifactIsEarned

\* A review that can be made names the facts of the session, and a pure flip
\* of them (_boundary_evidence).
LEMMA ReviewNamesFacts ==
  ASSUME NEW s, NEW f, NEW at, NEW c, NEW r \in Reviews(s, f, at, c)
  PROVE  /\ r.field = f /\ r.at = at
         /\ r.facts = LabelledFacts(s, f)
         /\ Sound(r)
<1> DEFINE facts == LabelledFacts(s, f)
<1>1. PICK p \in facts \X facts :
        /\ Boundary(facts, p[1], p[2], at)
        /\ r = [is |-> "review", field |-> f, at |-> at, facts |-> facts,
                below |-> p[1].value.num, label |-> p[1].label, above |-> p[2].value.num]
  BY DEF Reviews, ReviewsFor, Evidence
<1>2. r.field = f /\ r.at = at /\ r.facts = facts
  BY <1>1
<1>3. p[1] \in facts /\ p[2] \in facts
  BY <1>1
<1>4. Sound(r)
  BY <1>1, <1>2, <1>3 DEF Sound
<1> QED BY <1>2, <1>4

\* Nothing is reviewed, registered or compiled at first.
THEOREM PromotionInit == Init => PromotionInv
BY DEF Init, PromotionInv, CatalogsAreMaps, ReviewIsSound, ClauseIsSound, ArtifactIsEarned

\* A review is of what the session says now (review_threshold_proposal).
LEMMA ReviewKeepsInv == PromotionInv /\ Review => PromotionInv'
<1> SUFFICES ASSUME PromotionInv, Review PROVE PromotionInv'
  OBVIOUS
<1>1. PICK r \in Proposals, c \in Catalogs :
        /\ reviewed' \in Reviews(session, r.field, r.at, c)
        /\ UNCHANGED <<literals, materialized, artifact>>
  BY DEF Review
<1>2. Sound(reviewed')
  BY <1>1, ReviewNamesFacts
<1>3. ReviewIsSound'
  BY <1>2 DEF ReviewIsSound, Sound, Boundary, PureAmong
<1> QED BY <1>1, <1>3 DEF PromotionInv, CatalogsAreMaps, ClauseIsSound, ArtifactIsEarned,
                          Sound, Earned, Registered, Boundary, PureAmong

\* A literal is registered after the same review was made again.
LEMMA MaterializeKeepsInv == PromotionInv /\ Materialize => PromotionInv'
<1> SUFFICES ASSUME PromotionInv, Materialize PROVE PromotionInv'
  OBVIOUS
<1>1. PICK c \in Catalogs :
        /\ reviewed # None /\ StillHolds(reviewed, c)
        /\ literals' = [literals EXCEPT ![c] = @ \union {LiteralOf(reviewed)}]
        /\ \/ materialized' = [is |-> "clause", review |-> reviewed,
                               seen |-> LabelledFacts(session, reviewed.field)]
           \/ materialized' = materialized
        /\ UNCHANGED <<reviewed, artifact>>
  BY DEF Materialize
<1>2. reviewed.facts = LabelledFacts(session, reviewed.field) /\ Sound(reviewed)
  BY <1>1, ReviewNamesFacts DEF StillHolds
<1>3. CatalogsAreMaps' /\ \A d \in Catalogs : literals[d] \subseteq literals'[d]
  BY <1>1 DEF PromotionInv, CatalogsAreMaps
<1>4. ReviewIsSound'
  BY <1>1 DEF PromotionInv, ReviewIsSound, Sound, Boundary, PureAmong
<1>5. ClauseIsSound'
  <2>1. CASE materialized' = materialized
    BY <2>1 DEF PromotionInv, ClauseIsSound, Sound, Boundary, PureAmong
  <2>2. CASE materialized' # materialized
    BY <1>1, <1>2, <2>2 DEF ClauseIsSound, Sound, Boundary, PureAmong
  <2> QED BY <2>1, <2>2
<1>6. ArtifactIsEarned'
  BY <1>1, <1>3 DEF PromotionInv, ArtifactIsEarned, Earned, Registered, LiteralOf,
                    Boundary, PureAmong
<1> QED BY <1>3, <1>4, <1>5, <1>6 DEF PromotionInv

\* An artifact is compiled of a registered literal, after the review once more.
LEMMA CompileKeepsInv == PromotionInv /\ Compile => PromotionInv'
<1> SUFFICES ASSUME PromotionInv, Compile PROVE PromotionInv'
  OBVIOUS
<1>1. PICK c \in Catalogs :
        /\ materialized # None
        /\ StillHolds(materialized.review, c)
        /\ Registered(materialized.review, c)
        /\ artifact' = [is |-> "artifact", clause |-> materialized, catalog |-> c,
                        seen |-> LabelledFacts(session, materialized.review.field)]
        /\ UNCHANGED <<literals, reviewed, materialized>>
  BY DEF Compile
<1> DEFINE r == materialized.review
<1>2. r.facts = LabelledFacts(session, r.field)
  BY <1>1, ReviewNamesFacts DEF StillHolds
<1>3. Sound(r) /\ materialized.seen = r.facts
  BY <1>1 DEF PromotionInv, ClauseIsSound
<1>4. /\ artifact'.catalog = c /\ artifact'.clause = materialized
      /\ artifact'.seen = r.facts
  BY <1>1, <1>2
<1>5. \E x, y \in r.facts : Boundary(r.facts, x, y, r.at)
  BY <1>3 DEF Sound
<1>6. ArtifactIsEarned'
  <2>1. artifact'.clause.review = r /\ artifact'.clause.seen = r.facts
    BY <1>3, <1>4
  <2>2. LiteralOf(r) \in literals'[artifact'.catalog]
    BY <1>1, <1>4 DEF Registered
  <2> QED BY <1>1, <1>4, <1>5, <2>1, <2>2
          DEF ArtifactIsEarned, Earned, Registered, LiteralOf, Boundary, PureAmong
<1> QED BY <1>1, <1>6 DEF PromotionInv, CatalogsAreMaps, ReviewIsSound, ClauseIsSound,
                          Sound, Boundary, PureAmong

\* Facts and answers of the collective disturb nothing that was promoted.
LEMMA OthersKeepInv ==
  PromotionInv /\ UNCHANGED promotionVars => PromotionInv'
BY DEF PromotionInv, promotionVars, CatalogsAreMaps, ReviewIsSound, ClauseIsSound,
       ArtifactIsEarned, Sound, Earned, Registered, LiteralOf, Boundary, PureAmong

\* Every step keeps the invariant of the promotion.
LEMMA StepKeepsInv == PromotionInv /\ [Next]_vars => PromotionInv'
<1> SUFFICES ASSUME PromotionInv, [Next]_vars PROVE PromotionInv'
  OBVIOUS
<1>1. CASE Review
  BY <1>1, ReviewKeepsInv
<1>2. CASE Materialize
  BY <1>2, MaterializeKeepsInv
<1>3. CASE Compile
  BY <1>3, CompileKeepsInv
<1>4. CASE UNCHANGED promotionVars
  BY <1>4, OthersKeepInv
<1> QED BY <1>1, <1>2, <1>3, <1>4 DEF Next, Promote, Collect, Learn, vars

(***************************************************************************)
(* The promotion keeps its invariant.                                      *)
(***************************************************************************)
THEOREM PromotionInvariant == Spec => []PromotionInv
BY PromotionInit, StepKeepsInv, PTL DEF Spec

(***************************************************************************)
(* Whatever facts are added between review, registration and compilation,  *)
(* an artifact is of a pure flip of the facts that were reviewed, which    *)
(* were the session's at each of the three steps                           *)
(* (compile_threshold_artifact).                                           *)
(***************************************************************************)
THEOREM ArtifactsStayEarned == Spec => []ArtifactsAreEarned
<1>1. PromotionInv => ArtifactsAreEarned
  BY DEF PromotionInv, ArtifactIsEarned, ArtifactsAreEarned
<1> QED BY <1>1, PromotionInvariant, PTL

(***************************************************************************)
(* Both halves of the promotion: its artifacts are earned, and what the    *)
(* collective proposes can be promoted.                                    *)
(***************************************************************************)
THEOREM PromotionStaysEarned == Spec => []PromotionIsEarned
<1>1. ArtifactsAreEarned /\ ProposalsPassReview => PromotionIsEarned
  BY DEF PromotionIsEarned
<1> QED BY <1>1, ArtifactsStayEarned, ProposalsStayReviewable, PTL
==============================================================================
