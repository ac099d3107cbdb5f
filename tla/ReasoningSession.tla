--------------------------- MODULE ReasoningSession ---------------------------
(***************************************************************************)
(* PTAReasoningSession: the facts that the three PTAs share.  A session is *)
(* made of lists, to which facts are added one at a time, and of the set   *)
(* of examples that truth values are about.                                *)
(*                                                                         *)
(* Only the relations that the collective's queries read are here; the     *)
(* others (supports, relations, conflicts, counterexamples, insights and   *)
(* proposals) are counted against budgets and serialized, and nothing is   *)
(* derived from them.  A number keeps its Python type, int or float, which *)
(* GNU Prolog tells apart; its magnitude is exact in both.                 *)
(*                                                                         *)
(* Bound: MaxFacts facts in a relation, its budget.                        *)
(***************************************************************************)
EXTENDS Integers, Sequences, FiniteSets

CONSTANTS
  Examples, Fields,
  Values,              \* observed: [kind |-> "int", "float" or "text", num |-> n]
  Literals, Clauses, Classes,
  Scores,              \* in eighths
  MaxFacts

ASSUME ValuesAssumption ==
  Values \subseteq [kind : {"int", "float", "text"}, num : Int]
ASSUME NumbersAssumption ==
  Literals \subseteq Int /\ Scores \subseteq Int /\ MaxFacts \in Nat

VARIABLE session

EmptySession ==
  [observations |-> <<>>, example_labels |-> <<>>, example_domains |-> {},
   literal_truths |-> <<>>, clause_truths |-> <<>>, clause_literals |-> <<>>,
   class_supports |-> <<>>, clause_class_scores |-> <<>>]

Lists == DOMAIN EmptySession \ {"example_domains"}

Bits == {0, 1}

SessionType ==
  [observations        : Seq([example : Examples, field : Fields, value : Values]),
   example_labels      : Seq([example : Examples, label : Bits]),
   example_domains     : SUBSET Examples,
   literal_truths      : Seq([of : Literals, example : Examples, truth : Bits]),
   clause_truths       : Seq([of : Clauses, example : Examples, truth : Bits]),
   clause_literals     : Seq([clause : Clauses, literal : Literals]),
   class_supports      : Seq(Classes),
   clause_class_scores : Seq([clause : Clauses, class : Classes, score : Scores])]

\* _require_room, for a list and for the examples.
Room(list)  == Len(session[list]) < MaxFacts
RoomFor(e)  == e \in session.example_domains \/ Cardinality(session.example_domains) < MaxFacts

Add(list, fact) == Room(list) /\ session' = [session EXCEPT ![list] = Append(@, fact)]

\* A fact that brings its example into the domain.
AddAbout(list, fact) ==
  /\ Room(list) /\ RoomFor(fact.example)
  /\ session' = [session EXCEPT ![list] = Append(@, fact),
                                !.example_domains = @ \union {fact.example}]

Observation(e, f, v) == [example |-> e, field |-> f, value |-> v]
Label(e, y)          == [example |-> e, label |-> y]
Truth(x, e, t)       == [of |-> x, example |-> e, truth |-> t]
Member(c, l)         == [clause |-> c, literal |-> l]
Score(c, k, n)       == [clause |-> c, class |-> k, score |-> n]

AddObservation ==
  \E e \in Examples, f \in Fields, v \in Values : Add("observations", Observation(e, f, v))
AddExampleLabel ==
  \E e \in Examples, y \in Bits : AddAbout("example_labels", Label(e, y))
AddLiteralTruth ==
  \E l \in Literals, e \in Examples, t \in Bits : AddAbout("literal_truths", Truth(l, e, t))
AddClauseTruth ==
  \E c \in Clauses, e \in Examples, t \in Bits : AddAbout("clause_truths", Truth(c, e, t))
AddClauseLiteral ==
  \E c \in Clauses, l \in Literals : Add("clause_literals", Member(c, l))
AddClassSupport ==
  \E k \in Classes : Add("class_supports", k)
AddClauseClassScore ==
  \E c \in Clauses, k \in Classes, n \in Scores : Add("clause_class_scores", Score(c, k, n))

AddFact ==
  \/ AddObservation \/ AddExampleLabel \/ AddLiteralTruth \/ AddClauseTruth
  \/ AddClauseLiteral \/ AddClassSupport \/ AddClauseClassScore
-----------------------------------------------------------------------------
FactsOf(s, list) == {s[list][i] : i \in DOMAIN s[list]}

\* validate(): lists that were filled directly are held to the same bounds.
Valid(s) ==
  /\ \A list \in Lists : Len(s[list]) <= MaxFacts
  /\ Cardinality(s.example_domains) <= MaxFacts
  /\ {t.example : t \in FactsOf(s, "literal_truths") \union FactsOf(s, "clause_truths")}
       \subseteq s.example_domains

LabelsOf(s, e)    == {y \in Bits : Label(e, y) \in FactsOf(s, "example_labels")}
ValuesOf(s, e, f) == {v \in Values : Observation(e, f, v) \in FactsOf(s, "observations")}
Labelled(s)       == {e \in Examples : LabelsOf(s, e) # {}}
Observed(s)       == {o.field : o \in FactsOf(s, "observations")}

Numeric(v) == v.kind \in {"int", "float"}
================================================================================
