--------------------------------- MODULE Printing ---------------------------------
(***************************************************************************)
(* GenerateCode of the expressions (src/expression.hpp): which operands    *)
(* get parentheses.  The text of a condition is the sequence of its        *)
(* tokens; what it means is what the grammar of C makes of them.           *)
(***************************************************************************)
EXTENDS Negation

(* BinaryOpPrecedences, from the lowest. *)
Precedences ==
  << {"||"}, {"&&"}, {"|"}, {"^"}, {"&"}, {"==", "!="}, {">=", "<=", ">", "<"},
     {"<<", ">>"}, {"+", "-"}, {"*", "/", "%"} >>

Known(op) == \E k \in DOMAIN Precedences : op \in Precedences[k]

BinaryPrecedence(op) ==
  IF Known(op) THEN CHOOSE k \in DOMAIN Precedences : op \in Precedences[k] ELSE 0

(* Slip: a ternary counts as an atom.                                      *)
PrecedenceOfAtom(e) ==
  CASE IsBinary(e)    -> BinaryPrecedence(e.op)
    [] e.op = "neg"   -> Len(Precedences) + 1
    [] OTHER          -> Len(Precedences) + 2

Precedence(e) ==
  CASE IsBinary(e)    -> BinaryPrecedence(e.op)
    [] e.op = "?:"    -> 0
    [] e.op = "neg"   -> Len(Precedences) + 1
    [] OTHER          -> Len(Precedences) + 2

RECURSIVE GenerateCode(_)
GenerateCode(e) ==
  LET operand(x) == IF Precedence(x) < Precedence(e)
                    THEN <<"(">> \o GenerateCode(x) \o <<")">> ELSE GenerateCode(x)
  IN  CASE IsBinary(e)    -> operand(e.first) \o <<e.op>> \o operand(e.second)
        [] e.op = "neg"   -> <<"-">> \o operand(e.first)
        [] e.op = "?:"    -> GenerateCode(e.test) \o <<"?">> \o GenerateCode(e.first)
                               \o <<":">> \o GenerateCode(e.second)
        [] OTHER          -> <<e.op>>

-----------------------------------------------------------------------------
(***************************************************************************)
(* How C reads it: an expression of level k is one of level k + 1, or      *)
(* several that operators of that level join, from left to right.          *)
(***************************************************************************)
JoinedBy ==
  << {"||"}, {"&&"}, {"|"}, {"^"}, {"&"}, {"==", "!="}, {"<", ">", "<=", ">="},
     {"<<", ">>"}, {"+", "-"}, {"*", "/", "%"} >>

Starts(s, T) == s # <<>> /\ Head(s) \in T

RECURSIVE Read(_, _), ReadMore(_, _)
Read(k, s) ==
  IF k = 0 THEN
    LET c == Read(1, s)
        x == Read(0, Tail(c.rest))
        y == Read(0, Tail(x.rest))
    IN  IF Starts(c.rest, {"?"}) THEN [tree |-> Ternary(c.tree, x.tree, y.tree), rest |-> y.rest] ELSE c
  ELSE IF k <= Len(JoinedBy) THEN ReadMore(k, Read(k + 1, s))
  ELSE IF Starts(s, {"-"}) THEN
    LET x == Read(k, Tail(s)) IN [tree |-> Minus(x.tree), rest |-> x.rest]
  ELSE IF Starts(s, {"("}) THEN
    LET x == Read(0, Tail(s)) IN [tree |-> x.tree, rest |-> Tail(x.rest)]
  ELSE [tree |-> Leaf(Head(s)), rest |-> Tail(s)]

ReadMore(k, left) ==
  IF ~Starts(left.rest, JoinedBy[k]) THEN left
  ELSE LET right == Read(k + 1, Tail(left.rest)) IN
       ReadMore(k, [tree |-> Binary(left.tree, Head(left.rest), right.tree), rest |-> right.rest])

(* A second operand of the same precedence gets no parentheses, and the    *)
(* front ends make an operator that C does not have.                       *)
RECURSIVE Careless(_)
Careless(e) ==
  \/ IsBinary(e) /\ (~Known(e.op) \/ Precedence(e.second) = Precedence(e))
  \/ \E part \in DOMAIN e \ {"op"} : Careless(e[part])

-----------------------------------------------------------------------------
(* Whatever was moved into a condition, folded and negated: the text that  *)
(* is printed for it in the end is one expression of C, which makes the    *)
(* tests and has the outcome of the jumps it stands for.                   *)
PrintsAsMeant ==
  ~Careless(expr) =>
    LET text == Read(0, GenerateCode(expr)) IN
    text.rest = <<>> /\ Jumps(text.tree) = jumps
=============================================================================
