----------------------------- MODULE DecisionTrees -----------------------------
(***************************************************************************)
(* Read-once Boolean decision trees, as BooleanDecisionTree keeps them and *)
(* as the Prolog search enumerates them, and the fixed Logic program that  *)
(* _DecisionLogicBuilder makes of one.  The builder interns its nodes, so  *)
(* two nodes are the same exactly when they are equal: a node is its own   *)
(* expression here, and the operands of a gate are a set.                  *)
(***************************************************************************)
EXTENDS Naturals, FiniteSets

CONSTANTS
  Slots,          \* the Boolean features
  MaxDepth,       \* the deepest tree, a parent's included
  LogicCapacity   \* instructions of a fixed Logic program: 32

ASSUME SlotsAssumption == IsFiniteSet(Slots)

Leaf(v)          == [value |-> v]
Node(f, no, yes) == [feature |-> f, no |-> no, yes |-> yes]
IsLeaf(t)        == "value" \in DOMAIN t
Leaves           == {Leaf(v) : v \in BOOLEAN}

\* The trees of at most d levels in which no path meets a feature twice.
ReadOnce[d \in 0..MaxDepth, F \in SUBSET Slots] ==
  IF d = 0 THEN Leaves
  ELSE Leaves \union UNION {{Node(f, no, yes) : no, yes \in ReadOnce[d - 1, F \ {f}]} : f \in F}

\* Those the Prolog search goes through: a node's branches differ as terms.
Searched[d \in 0..MaxDepth, F \in SUBSET Slots] ==
  IF d = 0 THEN Leaves
  ELSE Leaves \union UNION {{t \in {Node(f, no, yes) : no, yes \in Searched[d - 1, F \ {f}]}
                               : t.no # t.yes} : f \in F}

TreesTo    == [d \in 0..MaxDepth |-> ReadOnce[d, Slots]]
SearchedTo == [d \in 0..MaxDepth |-> Searched[d, Slots]]
Trees      == TreesTo[MaxDepth]

\* evaluate(): the rows on which a tree is true.
Evaluate[t \in Trees] ==
  IF IsLeaf(t) THEN IF t.value THEN SUBSET Slots ELSE {}
  ELSE {row \in SUBSET Slots : row \in Evaluate[IF t.feature \in row THEN t.yes ELSE t.no]}
TrueRows == [t \in Trees |-> Evaluate[t]]

Predicts(t, row) == row \in TrueRows[t]
-----------------------------------------------------------------------------
\* The Logic builder.

Constant(v)   == [op |-> "constant", bit |-> v]
Input(f)      == [op |-> "input", slot |-> f]
Gate(op, S)   == [op |-> op, operands |-> S]
IsConstant(e) == e.op = "constant"

Negate(e) ==
  CASE e.op = "constant" -> Constant(~e.bit)
    [] e.op = "not"      -> CHOOSE x \in e.operands : TRUE
    [] OTHER             -> Gate("not", {e})

\* all and any: `neutral` is dropped, the other constant decides.
Join(op, neutral, S) ==
  LET kept == {e \in S : ~IsConstant(e)}
  IN IF Constant(~neutral) \in S THEN Constant(~neutral)
     ELSE IF kept = {} THEN Constant(neutral)
     ELSE IF Cardinality(kept) = 1 THEN CHOOSE e \in kept : TRUE
     ELSE Gate(op, kept)
All(S) == Join("and", TRUE, S)
Any(S) == Join("or", FALSE, S)

Conditional(c, no, yes) ==
  CASE no = yes                                        -> yes
    [] no = Constant(FALSE) /\ yes = Constant(TRUE)    -> c
    [] no = Constant(TRUE) /\ yes = Constant(FALSE)    -> Negate(c)
    [] OTHER -> Any({All({Negate(c), no}), All({c, yes})})

AddTree[t \in Trees] ==
  IF IsLeaf(t) THEN Constant(t.value)
  ELSE Conditional(Input(t.feature), AddTree[t.no], AddTree[t.yes])

Lowered == [t \in Trees |-> AddTree[t]]

\* parity of the parent and the guard: nothing is folded, and a node that both
\* have become is its operand twice, which is once in a set.
Parity(a, b) == Gate("xor", {a, b})

Operands(e) == IF e.op \in {"constant", "input"} THEN {} ELSE e.operands

\* The nodes that compile() visits from the root: three levels for each level
\* of a tree, and the parity.
Nodes(e) ==
  LET within[k \in 0..(3 * MaxDepth + 2)] ==
        IF k = 0 THEN {e} ELSE UNION {{x} \union Operands(x) : x \in within[k - 1]}
  IN within[3 * MaxDepth + 2]

FitsKernel(e) == Cardinality(Nodes(e)) <= LogicCapacity

\* An operand mask is the sum of the operands' bits: an operand that is there
\* twice carries into the bit of the instruction itself, a forward reference.
Compiles(e) ==
  /\ FitsKernel(e)
  /\ \A x \in Nodes(e) : x.op = "xor" => Cardinality(x.operands) = 2

\* The value of a program for the row whose slots are true.
Computes(e, row) ==
  LET value[x \in Nodes(e)] ==
        CASE x.op = "constant" -> x.bit
          [] x.op = "input"    -> x.slot \in row
          [] x.op = "not"      -> \A y \in x.operands : ~value[y]
          [] x.op = "and"      -> \A y \in x.operands : value[y]
          [] x.op = "or"       -> \E y \in x.operands : value[y]
          [] x.op = "xor"      -> Cardinality({y \in x.operands : value[y]}) = 1
  IN value[e]
================================================================================
