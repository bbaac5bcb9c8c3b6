-------------------------------- MODULE Negation --------------------------------
(***************************************************************************)
(* ExpressionNegationHelper and the table ExpressionOperatorNegations      *)
(* (src/expression.hpp), as CollateExpr::Run and ControlFlowAnalysis use   *)
(* them: the condition of a conditional jump is negated in place, and      *)
(* joined to another one with || or &&, as often as the graph makes them.  *)
(*                                                                         *)
(* An expression is a tree of records.  Calls, which the helper does not   *)
(* enter, are leaves.  env gives the values of the leaves when the         *)
(* decompiled code runs.                                                   *)
(***************************************************************************)
EXTENDS Integers, Sequences, FiniteSets

CONSTANTS
  Values,      (* values of a leaf                                        *)
  MaxTests,    (* bound on the comparisons in a condition                 *)
  Nested       (* whether a comparison may be compared in its turn        *)

ASSUME ValuesAssumption == Values \subseteq Int
ASSUME MaxTestsAssumption == MaxTests \in Nat \ {0}
ASSUME NestedAssumption == Nested \in BOOLEAN

VARIABLES
  expr,      (* Operand(0) of the ConditionalJump                         *)
  jumps,     (* history: the envs in which the jump is to be taken, and   *)
             (* for each env the comparisons to be evaluated, in order    *)
  folds,     (* conditions folded into it                                 *)
  negated    (* the last step negated the condition and did nothing else  *)

vars == <<expr, jumps, folds, negated>>

-----------------------------------------------------------------------------
Binary(x, op, y) == [op |-> op, first |-> x, second |-> y]

Leaf(name) == [op |-> name]

Minus(x) == [op |-> "neg", first |-> x]

Ternary(c, x, y) == [op |-> "?:", test |-> c, first |-> x, second |-> y]

Names == {"a", "b"}
Env   == [Names -> Values]

Comparisons == {"==", "!=", "<", "<=", ">", ">="}
Junctions   == {"&&", "||"}
Operations  == {"+", "-", "*", "&", "xor"}    (* not in the table *)

BinaryOperators == Comparisons \cup Junctions \cup Operations

IsBinary(e) == e.op \in BinaryOperators

(* The table; what is not in it negates to itself. *)
NegateOperation(op) ==
  CASE op = "||" -> "&&"
    [] op = "&&" -> "||"
    [] op = "==" -> "!="
    [] op = "!=" -> "=="
    [] op = ">=" -> "<"
    [] op = "<=" -> ">"
    [] op = ">"  -> "<="
    [] op = "<"  -> ">="
    [] OTHER     -> op

-----------------------------------------------------------------------------
(* Trees by their depth. *)
Leaves == {Leaf(x) : x \in Names \cup {"0"}}

Over(T) ==
  Leaves \cup [op : BinaryOperators, first : T, second : T]
    \cup [op : {"neg"}, first : T] \cup [op : {"?:"}, test : T, first : T, second : T]

(* The deepest condition: an operand moved into it and MaxTests - 1 folds. *)
Depth == MaxTests + 2

Trees[d \in 0 .. Depth] == IF d = 0 THEN Leaves ELSE Over(Trees[d - 1])

Expressions == Trees[Depth]

(* Slip: the second operand is not visited. *)
VisitedFirst[e \in Expressions] ==
  IF IsBinary(e) THEN Binary(VisitedFirst[e.first], NegateOperation(e.op), e.second) ELSE e

NegateFirst(e) == VisitedFirst[e]

(* The visitor: this operator, then both operands whatever they are, but   *)
(* nothing below a unary operator or a ternary.                            *)
Visited[e \in Expressions] ==
  IF IsBinary(e)
  THEN Binary(Visited[e.first], NegateOperation(e.op), Visited[e.second])
  ELSE e

Negate(e) == Visited[e]

-----------------------------------------------------------------------------
(***************************************************************************)
(* What the generated C code does with an expression.                      *)
(***************************************************************************)
Bool(b) == IF b THEN 1 ELSE 0

(* Of -1, 0 and 1. *)
BitAnd(x, y) == IF x = -1 THEN y ELSE IF y = -1 THEN x ELSE x * y

Result(op, x, y) ==
  CASE op = "||" -> Bool(x # 0 \/ y # 0)
    [] op = "&&" -> Bool(x # 0 /\ y # 0)
    [] op = "==" -> Bool(x = y)
    [] op = "!=" -> Bool(x # y)
    [] op = "<"  -> Bool(x < y)
    [] op = "<=" -> Bool(x <= y)
    [] op = ">"  -> Bool(x > y)
    [] op = ">=" -> Bool(x >= y)
    [] op = "+"  -> x + y
    [] op = "-"  -> x - y
    [] op = "*"  -> x * y
    [] op = "&"  -> BitAnd(x, y)
    [] op = "xor" -> x + y - 2 * BitAnd(x, y)

Evaluated[e \in Expressions] ==
  [env \in Env |->
     IF IsBinary(e) THEN Result(e.op, Evaluated[e.first][env], Evaluated[e.second][env])
     ELSE CASE e.op = "neg" -> - Evaluated[e.first][env]
            [] e.op = "?:"  -> IF Evaluated[e.test][env] # 0
                               THEN Evaluated[e.first][env] ELSE Evaluated[e.second][env]
            [] e.op = "0"   -> 0
            [] OTHER        -> env[e.op]]

Value(e, env) == Evaluated[e][env]

(* The comparisons evaluated, by what they compare. *)
Tested[e \in Expressions] ==
  [env \in Env |->
     IF e.op \notin Junctions THEN <<{e.first, e.second}>>
     ELSE IF Value(e.first, env) # 0 <=> e.op = "||" THEN Tested[e.first][env]
     ELSE Tested[e.first][env] \o Tested[e.second][env]]

Tests(e, env) == Tested[e][env]

Jumps(e) == [taken |-> {env \in Env : Value(e, env) # 0},
             tests |-> [env \in Env |-> Tests(e, env)]]

-----------------------------------------------------------------------------
(* What the front ends make: a comparison of leaves or of an arithmetic    *)
(* result with zero; and, once DataFlowAnalysis has moved the setcc of     *)
(* OnSet or TryXorCmpSetz to the jump that tests it, of a comparison.      *)
Simple ==
  {Binary(Leaf("a"), op, y) : op \in Comparisons, y \in {Leaf("b"), Leaf("0")}}
    \cup {Binary(Binary(Leaf("a"), "+", Leaf("b")), op, Leaf("0")) : op \in {"==", "!="}}

SetCondition ==
  {Binary(c, op, Leaf("0")) : c \in {Binary(Leaf("a"), o, Leaf("b")) : o \in Comparisons},
                              op \in {"==", "!="}}

(* ... and of what DataFlowAnalysis has moved to the jump.                 *)
Moved ==
  LET a == Leaf("a")  b == Leaf("b") IN
  {Binary(x, op, Leaf("0")) : op \in {"!=", "<"},
     x \in {Binary(a, "&", b), Binary(a, "xor", b), Binary(Binary(a, "-", b), "-", a),
            Binary(a, "-", Binary(b, "-", a)), Binary(a, "*", Binary(b, "+", a)),
            Minus(Binary(a, "-", b)), Ternary(Binary(a, "<", Leaf("0")), b, a)}}

Conditions == Simple \cup IF Nested THEN SetCondition ELSE {}

Init ==
  /\ expr \in Conditions \cup Moved
  /\ jumps = Jumps(expr)
  /\ folds = 0
  /\ negated = FALSE

Opposite(j) == [taken |-> Env \ j.taken, tests |-> j.tests]

(* The junction of j and k in C, which leaves k out when j has decided. *)
Junction(op, j, k) ==
  [taken |-> IF op = "||" THEN j.taken \cup k.taken ELSE j.taken \cap k.taken,
   tests |-> [env \in Env |->
                IF env \in j.taken <=> op = "||" THEN j.tests[env]
                ELSE j.tests[env] \o k.tests[env]]]

(* StructureWhileLoop, StructureDoWhileLoop, StructureIf. *)
NegateJump ==
  /\ expr' = Negate(expr)
  /\ jumps' = Opposite(jumps)
  /\ negated' = TRUE
  /\ UNCHANGED folds

(* CollateExpr::Run: expr1 || expr2 and expr1 && expr2. *)
Collate ==
  /\ folds < MaxTests - 1
  /\ \E op \in Junctions, c \in Conditions :
       /\ expr' = Binary(expr, op, c)
       /\ jumps' = Junction(op, jumps, Jumps(c))
  /\ folds' = folds + 1
  /\ negated' = FALSE

(* ... and with expr1 negated first. *)
CollateNegated ==
  /\ folds < MaxTests - 1
  /\ \E op \in Junctions, c \in Conditions :
       /\ expr' = Binary(Negate(expr), op, c)
       /\ jumps' = Junction(op, Opposite(jumps), Jumps(c))
  /\ folds' = folds + 1
  /\ negated' = FALSE

Next == NegateJump \/ Collate \/ CollateNegated

Spec == Init /\ [][Next]_vars

-----------------------------------------------------------------------------
(* After any sequence of negations and junctions the generated condition   *)
(* holds exactly when the jump is to be taken, and evaluates exactly the   *)
(* comparisons of the original code, in their order: what has a side       *)
(* effect or may fault is behind the same tests.                           *)
ConditionIsFaithful == Jumps(expr) = jumps

(* src/controlflow.cpp: "negate expression if the jump exits the loop".    *)
NegationIsOpposite ==
  [][negated' => \A env \in Env : (Value(expr', env) # 0) # (Value(expr, env) # 0)]_vars
=============================================================================
