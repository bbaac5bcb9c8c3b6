--------------------------------- MODULE Collate ---------------------------------
(***************************************************************************)
(* The graph reduction of the decompiler: CollateExpr::Run, which folds a  *)
(* conditional jump to a conditional jump into one condition, and          *)
(* CollateNode::Run, which joins a node with the only node that follows    *)
(* it, alternated by run() in src/desquirr.cpp until neither finds         *)
(* anything.  Between two passes FindDominators rebuilds mPreds and the    *)
(* dominators; it is exact (module Dominators), so both are read off the   *)
(* graph here.                                                             *)
(*                                                                         *)
(* Nodes are linked by pointers: deleting one takes it off the list, but a *)
(* node that points to it goes on doing so.  FindDominators then intersects *)
(* bitsets of different sizes, which boost leaves undefined: the model      *)
(* stops there, in phase "undefined".                                      *)
(*                                                                         *)
(* An instruction other than a label or a goto is abstracted to the number *)
(* of the block it comes from, and so is the test of a conditional jump.   *)
(* A condition is kept as its short-circuit evaluation: the test made      *)
(* first, and for each test and outcome the next test or the verdict.      *)
(***************************************************************************)
EXTENDS Integers, FiniteSets, SequencesExt

CONSTANT N    (* number of blocks Node::CreateList made *)

ASSUME NAssumption == N \in Nat \ {0}

Block == 1 .. N

Id == 1 .. 2 * N    (* each join creates one node and deletes two *)

VARIABLES
  list,      (* mNodeList                                                 *)
  node,      (* type, instructions, condition and successors of each node *)
  made,      (* how many nodes exist, the deleted ones included           *)
  phase,     (* which Run comes next, "done", or "undefined"              *)
  matches,   (* i of run(): what the Runs of this round returned          *)
  meaning,   (* history: what the program did before any rewriting        *)
  careless   (* history: a node was deleted that had another way in       *)

vars == <<list, node, made, phase, matches, meaning, careless>>

-----------------------------------------------------------------------------
(***************************************************************************)
(* Conditions.                                                             *)
(***************************************************************************)
Yes == 0
No  == -1

Test(b) == [first |-> b, on |-> [x \in {b} |-> [v \in BOOLEAN |-> IF v THEN Yes ELSE No]]]

(* e with the verdict v sent on to the first test of f. *)
Sequel(e, v, f) ==
  [first |-> e.first,
   on |-> [x \in DOMAIN e.on \cup DOMAIN f.on |->
             IF x \in DOMAIN f.on THEN f.on[x]
             ELSE [o \in BOOLEAN |-> IF e.on[x][o] = v THEN f.first ELSE e.on[x][o]]]]

Or(e, f)  == Sequel(e, No, f)
And(e, f) == Sequel(e, Yes, f)

(* ExpressionNegationHelper on conditions built from comparisons. *)
Not(e) ==
  [e EXCEPT !.on = [x \in DOMAIN e.on |-> [o \in BOOLEAN |->
     IF e.on[x][o] = Yes THEN No ELSE IF e.on[x][o] = No THEN Yes ELSE e.on[x][o]]]]

-----------------------------------------------------------------------------
(***************************************************************************)
(* The graph as the passes see it.                                         *)
(***************************************************************************)
Listed == ToSet(list)
Entry  == list[1]

Type(n)         == node[n].type
SuccessorCount(n) == Len(node[n].succ)
Successor(n, i) == node[n].succ[i + 1]

(* mPreds, in which a node with two edges to n appears twice. *)
PredecessorCount(n) ==
  Cardinality({e \in Listed \X {0, 1} : e[2] < SuccessorCount(e[1]) /\ Successor(e[1], e[2]) = n})

(* Where a run from the entry can come without d on the way. *)
ReachedWithout(d) ==
  LET walk[k \in 0 .. Len(list)] ==
        IF k = 0 THEN {Entry} \ {d}
        ELSE LET before == walk[k - 1] IN
             before \cup ((UNION {ToSet(node[m].succ) : m \in before} \cap Listed) \ {d})
  IN  walk[Len(list)]

Reaches(n, d) == n \in ReachedWithout(d)

DominatesNode(d, n) == ~Reaches(n, d)

(* Nothing in the node but its jump, and a label in front of it perhaps. *)
IsSingleJumpNode(n) ==
  Type(n) \in {"JUMP", "CONDITIONAL_JUMP"} /\ node[n].body = <<>>

ReconnectSuccessor(succ, old, new) ==
  [i \in DOMAIN succ |-> IF succ[i] = old THEN new ELSE succ[i]]

ReconnectFollower(succ, new) == [succ EXCEPT ![2] = new]

MarkForDeletion(nodes, D) ==
  [n \in Id |-> IF n \in D THEN [nodes[n] EXCEPT !.type = "TO_BE_DELETED"] ELSE nodes[n]]

RemoveDeletedNodes(seq, nodes) ==
  LET kept[k \in 0 .. Len(seq)] ==
        IF k = 0 THEN <<>>
        ELSE IF nodes[seq[k]].type = "TO_BE_DELETED" THEN kept[k - 1]
        ELSE Append(kept[k - 1], seq[k])
  IN  kept[Len(seq)]

-----------------------------------------------------------------------------
(***************************************************************************)
(* The patterns of CollateExpr::Run, in the order the code tries them.  s0 *)
(* is the target of the jump, s1 the node that follows.                    *)
(***************************************************************************)
IsCond(n) == Type(n) = "CONDITIONAL_JUMP"

OrFollower(n) ==
  LET s0 == Successor(n, 0)  s1 == Successor(n, 1) IN
  /\ IsCond(s1)
  /\ s0 = Successor(s1, 0)
  /\ PredecessorCount(s1) = 1
  /\ IsSingleJumpNode(s1)

NotOrDiamond(n) ==
  LET s0 == Successor(n, 0)  s1 == Successor(n, 1) IN
  /\ Type(s1) = "JUMP" /\ IsCond(s0)
  /\ DominatesNode(n, s0) /\ DominatesNode(n, s1)
  /\ Successor(s0, 0) = Successor(s1, 0)
  /\ IsSingleJumpNode(s1) /\ IsSingleJumpNode(s0)

NotAndFollower(n) ==
  LET s0 == Successor(n, 0)  s1 == Successor(n, 1) IN
  /\ IsCond(s1)
  /\ IsSingleJumpNode(s1)
  /\ PredecessorCount(s1) = 1
  /\ PredecessorCount(Successor(s1, 1)) = 2
  /\ s0 = Successor(s1, 1)

NotOrTarget(n) ==
  LET s0 == Successor(n, 0)  s1 == Successor(n, 1) IN
  /\ IsCond(s0)
  /\ IsSingleJumpNode(s0)
  /\ PredecessorCount(s0) = 1
  /\ s1 = Successor(s0, 0)

AndTarget(n) ==
  LET s0 == Successor(n, 0)  s1 == Successor(n, 1) IN
  /\ IsCond(s0)
  /\ IsSingleJumpNode(s0)
  /\ PredecessorCount(s0) = 1
  /\ s1 = Successor(s0, 1)

ExprPattern(n) ==
  IF ~IsCond(n) THEN "none"
  ELSE IF OrFollower(n) THEN "OrFollower"
  ELSE IF NotOrDiamond(n) THEN "NotOrDiamond"
  ELSE IF NotAndFollower(n) THEN "NotAndFollower"
  ELSE IF NotOrTarget(n) THEN "NotOrTarget"
  ELSE IF AndTarget(n) THEN "AndTarget"
  ELSE "none"

(* The patterns of CollateNode::Run.  Its second one, a fall-through node  *)
(* before a single jump, is left out: whatever fits it fits the first.     *)
JoinsFollower(n) ==
  /\ Type(n) \in {"FALL_THROUGH", "JUMP"}
  /\ Type(Successor(n, 0)) \in {"FALL_THROUGH", "JUMP", "CONDITIONAL_JUMP"}
  /\ PredecessorCount(Successor(n, 0)) = 1

SkipsJump(n) ==
  /\ IsCond(n)
  /\ DominatesNode(n, Successor(n, 1))
  /\ PredecessorCount(Successor(n, 1)) = 1
  /\ Type(Successor(n, 1)) = "JUMP"
  /\ IsSingleJumpNode(Successor(n, 1))

NodePattern(n) ==
  IF JoinsFollower(n) THEN "Join" ELSE IF SkipsJump(n) THEN "Skip" ELSE "none"

(* n is where the walk over the list stops, with pattern p. *)
FirstMatch(Pattern(_), p, n) ==
  \E k \in DOMAIN list :
    /\ n = list[k]
    /\ Pattern(n) = p
    /\ \A j \in 1 .. k - 1 : Pattern(list[j]) = "none"

-----------------------------------------------------------------------------
(* What the node gets, condition and successors, and which nodes go.       *)
OrFollowerFolded(n) ==
  LET s1 == Successor(n, 1) IN
  [cond |-> Or(node[n].cond, node[s1].cond),
   succ |-> ReconnectFollower(node[n].succ, Successor(s1, 1)),
   gone |-> {s1}]

NotOrDiamondFolded(n) ==
  LET s0 == Successor(n, 0)  s1 == Successor(n, 1) IN
  [cond |-> Or(Not(node[n].cond), node[s0].cond),
   succ |-> ReconnectSuccessor(ReconnectFollower(node[n].succ, Successor(s0, 1)),
                               s0, Successor(s0, 0)),
   gone |-> {s0, s1}]

NotAndFollowerFolded(n) ==
  LET s0 == Successor(n, 0)  s1 == Successor(n, 1) IN
  [cond |-> And(Not(node[n].cond), node[s1].cond),
   succ |-> ReconnectFollower(ReconnectSuccessor(node[n].succ, s0, Successor(s1, 0)),
                              Successor(s1, 1)),
   gone |-> {s1}]

(* Slip: the two successors are reconnected in the other order. *)
NotOrTargetFoldedSwapped(n) ==
  LET s0 == Successor(n, 0)  s1 == Successor(n, 1) IN
  [cond |-> Or(Not(node[n].cond), node[s0].cond),
   succ |-> ReconnectSuccessor(ReconnectSuccessor(node[n].succ, s0, Successor(s0, 0)),
                               s1, Successor(s0, 1)),
   gone |-> {s0}]

NotOrTargetFolded(n) ==
  LET s0 == Successor(n, 0)  s1 == Successor(n, 1) IN
  [cond |-> Or(Not(node[n].cond), node[s0].cond),
   succ |-> ReconnectSuccessor(ReconnectSuccessor(node[n].succ, s1, Successor(s0, 1)),
                               s0, Successor(s0, 0)),
   gone |-> {s0}]

AndTargetFolded(n) ==
  LET s0 == Successor(n, 0) IN
  [cond |-> And(node[n].cond, node[s0].cond),
   succ |-> ReconnectSuccessor(node[n].succ, s0, Successor(s0, 0)),
   gone |-> {s0}]

Skipped(n) ==
  LET s1 == Successor(n, 1) IN
  [cond |-> node[n].cond,
   succ |-> ReconnectSuccessor(node[n].succ, s1, Successor(s1, 0)),
   gone |-> {s1}]

(* What the expression pass makes of n. *)
ExprFolded(n) ==
  LET p == ExprPattern(n) IN
  CASE p = "OrFollower"     -> OrFollowerFolded(n)
    [] p = "NotOrDiamond"   -> NotOrDiamondFolded(n)
    [] p = "NotAndFollower" -> NotAndFollowerFolded(n)
    [] p = "NotOrTarget"    -> NotOrTargetFolded(n)
    [] p = "AndTarget"      -> AndTargetFolded(n)

-----------------------------------------------------------------------------
(***************************************************************************)
(* What the program does, told apart from how its graph is drawn: which    *)
(* block's instructions or test come next, after the start, after those of *)
(* a block and after either outcome of a test.                             *)
(***************************************************************************)
Start     == <<"start">>
Do(b)     == <<"do", b>>
If(b)     == <<"if", b>>
Took(b,v) == <<"took", b, v>>
Forever   == <<"forever">>

(* Control at the beginning of n; an empty node passes it on. *)
Enter(n) ==
  LET go[k \in 0 .. 2 * N] ==
        IF k = 0 THEN [m \in Id |-> Forever]
        ELSE LET further == go[k - 1] IN
             [m \in Id |-> IF m \notin Listed THEN <<"lost">>
                           ELSE IF node[m].body # <<>> THEN Do(node[m].body[1])
                           ELSE IF IsCond(m) THEN If(node[m].cond.first)
                           ELSE further[Successor(m, 0)]]
  IN  go[2 * N][n]

AfterBody(n) ==
  IF IsCond(n) THEN If(node[n].cond.first)
  ELSE IF Type(n) = "RETURN" THEN <<"return">> ELSE Enter(Successor(n, 0))

AfterDo(b) ==
  LET n == CHOOSE m \in Listed : b \in ToSet(node[m].body)
      k == CHOOSE j \in DOMAIN node[n].body : node[n].body[j] = b
  IN  IF k < Len(node[n].body) THEN Do(node[n].body[k + 1]) ELSE AfterBody(n)

AfterTest(b, v) ==
  LET n == CHOOSE m \in Listed : IsCond(m) /\ b \in DOMAIN node[m].cond.on
      x == node[n].cond.on[b][v]
  IN  IF x = Yes THEN Enter(Successor(n, 0))
      ELSE IF x = No THEN Enter(Successor(n, 1)) ELSE If(x)

Meaning ==
  {<<Start, Enter(Entry)>>}
    \cup {<<Do(b), AfterDo(b)>> : b \in UNION {ToSet(node[n].body) : n \in Listed}}
    \cup {<<Took(b, v), AfterTest(b, v)>> :
             b \in UNION {DOMAIN node[n].cond.on : n \in Listed}, v \in BOOLEAN}

-----------------------------------------------------------------------------
(***************************************************************************)
(* The list CreateList leaves: block b ends in a jump, a conditional jump  *)
(* or a return, or is followed by another label.  The last block falls     *)
(* into nothing.                                                           *)
(***************************************************************************)
NoTest == [first |-> No, on |-> <<>>]

Blank == [type |-> "NONE", body |-> <<>>, cond |-> NoTest, succ |-> <<>>]

Shapes ==
  [type : {"RETURN"}, target : {1}, work : {TRUE}]
    \cup [type : {"FALL_THROUGH"}, target : {1}, work : BOOLEAN]
    \cup [type : {"JUMP", "CONDITIONAL_JUMP"}, target : Block, work : BOOLEAN]

Created(b, shape) ==
  [type |-> shape.type,
   body |-> IF shape.work THEN <<b>> ELSE <<>>,
   cond |-> IF shape.type = "CONDITIONAL_JUMP" THEN Test(b) ELSE NoTest,
   succ |-> CASE shape.type = "RETURN"           -> <<>>
              [] shape.type = "JUMP"             -> <<shape.target>>
              [] shape.type = "FALL_THROUGH"     -> <<b + 1>>
              [] shape.type = "CONDITIONAL_JUMP" -> <<shape.target, b + 1>>]

Init ==
  /\ list = [b \in Block |-> b]
  /\ \E shape \in [Block -> Shapes] :
       /\ shape[N].type \in {"JUMP", "RETURN"}
       /\ node = [n \in Id |-> IF n \in Block THEN Created(n, shape[n]) ELSE Blank]
  /\ made = N
  /\ phase = "expr"
  /\ matches = 0
  /\ meaning = Meaning
  /\ careless = FALSE

-----------------------------------------------------------------------------
(* FindDominators after a Run: it follows the successors of the listed     *)
(* nodes into whatever they point to.                                      *)
Thereafter(next) ==
  IF \A n \in ToSet(list') : ToSet(node'[n].succ) \subseteq ToSet(list')
  THEN next ELSE "undefined"

(* No way into d but the one from n: d can be deleted together with it. *)
OnlyFrom(n, d) == d \notin {n, Entry} /\ PredecessorCount(d) = 1

(* n takes over the condition and the successors of f; some nodes go. *)
Fold(n, f) ==
  LET nodes == MarkForDeletion([node EXCEPT ![n].cond = f.cond, ![n].succ = f.succ], f.gone) IN
  /\ node' = nodes
  /\ list' = RemoveDeletedNodes(list, nodes)
  /\ careless' = (careless \/ \E d \in f.gone : ~OnlyFrom(n, d))
  /\ UNCHANGED <<made, meaning>>

(* Slip: run() adds to i where it should set it. *)
FoldExprAdds(n, f) ==
  /\ Fold(n, f)
  /\ matches' = matches + 1
  /\ phase' = Thereafter("node")

FoldExpr(n, f) ==
  /\ Fold(n, f)
  /\ matches' = 1
  /\ phase' = Thereafter("node")

CollateOrFollower ==
  /\ phase = "expr"
  /\ \E n \in Listed :
       FirstMatch(ExprPattern, "OrFollower", n) /\ FoldExpr(n, OrFollowerFolded(n))

CollateNotOrDiamond ==
  /\ phase = "expr"
  /\ \E n \in Listed :
       FirstMatch(ExprPattern, "NotOrDiamond", n) /\ FoldExpr(n, NotOrDiamondFolded(n))

CollateNotAndFollower ==
  /\ phase = "expr"
  /\ \E n \in Listed :
       FirstMatch(ExprPattern, "NotAndFollower", n) /\ FoldExpr(n, NotAndFollowerFolded(n))

CollateNotOrTarget ==
  /\ phase = "expr"
  /\ \E n \in Listed :
       FirstMatch(ExprPattern, "NotOrTarget", n) /\ FoldExpr(n, NotOrTargetFolded(n))

CollateAndTarget ==
  /\ phase = "expr"
  /\ \E n \in Listed :
       FirstMatch(ExprPattern, "AndTarget", n) /\ FoldExpr(n, AndTargetFolded(n))

NoExpr ==
  /\ phase = "expr"
  /\ \A n \in Listed : ExprPattern(n) = "none"
  /\ matches' = 0
  /\ phase' = "node"
  /\ UNCHANGED <<list, node, made, meaning, careless>>

(* Slip: mPreds is not gone through. *)
NotRedirected(n, new) == node

(* ReconnectSuccessor on every node of mPreds. *)
Redirected(n, new) ==
  [m \in Id |-> [node[m] EXCEPT !.succ = ReconnectSuccessor(@, n, new)]]

(* The node of f's kind with the instructions of both; Cleanup takes out   *)
(* the goto between them and the label behind it.                          *)
Joined(n, f) == [node[f] EXCEPT !.body = node[n].body \o @]

(* A new node takes the place of n and of the node it runs into, f.  The   *)
(* predecessors of n are redirected, f among them when it jumps back to n, *)
(* but the new node has its successors from f as they were before.         *)
JoinNodes ==
  /\ phase = "node"
  /\ \E n \in Listed :
       LET f      == Successor(n, 0)
           new    == made + 1
           nodes  == MarkForDeletion([Redirected(n, new) EXCEPT ![new] = Joined(n, f)], {n, f})
       IN  /\ FirstMatch(NodePattern, "Join", n)
           /\ made' = new
           /\ node' = nodes
           /\ list' = RemoveDeletedNodes(
                        InsertAt(list, CHOOSE k \in DOMAIN list : list[k] = n, new), nodes)
           /\ careless' = (careless \/ ~OnlyFrom(n, f) \/ n \in ToSet(node[f].succ))
  /\ matches' = matches + 1
  /\ phase' = Thereafter("expr")
  /\ UNCHANGED meaning

SkipConditionalJump ==
  /\ phase = "node"
  /\ \E n \in Listed :
       /\ FirstMatch(NodePattern, "Skip", n)
       /\ Fold(n, Skipped(n))
  /\ matches' = matches + 1
  /\ phase' = Thereafter("expr")

(* Slips: the result of collateNode.Run() alone decides, and it is 0;     *)
(* the test for 0 is wrong.                                                *)
NeverAgain == FALSE
AlwaysAgain == TRUE

(* i != 0, when CollateNode has found nothing. *)
Again == matches # 0

NoNode ==
  /\ phase = "node"
  /\ \A n \in Listed : NodePattern(n) = "none"
  /\ phase' = IF Again THEN "expr" ELSE "done"
  /\ UNCHANGED <<list, node, made, matches, meaning, careless>>

Next ==
  \/ CollateOrFollower \/ CollateNotOrDiamond \/ CollateNotAndFollower
  \/ CollateNotOrTarget \/ CollateAndTarget \/ NoExpr
  \/ JoinNodes \/ SkipConditionalJump \/ NoNode

(* run() does nothing else in between. *)
Spec == Init /\ [][Next]_vars /\ WF_vars(Next)

-----------------------------------------------------------------------------
TypeOK ==
  /\ Listed \subseteq 1 .. made
  /\ made \in N .. 2 * N
  /\ \A n \in Id : /\ ToSet(node[n].body) \subseteq Block
                   /\ ToSet(node[n].succ) \subseteq 1 .. made
                   /\ DOMAIN node[n].cond.on \subseteq Block
  /\ phase \in {"expr", "node", "done", "undefined"}
  /\ matches \in 0 .. 2
  /\ careless \in BOOLEAN

SameProgram == Meaning = meaning

(* Unless a node with another way in has been deleted, the graph runs the  *)
(* same instructions and makes the same tests, with the same outcomes, in  *)
(* the same order as the one CreateList built.                             *)
CarefulMeansSameProgram == ~careless => SameProgram

(* Nor does any node point to a deleted one then, and FindDominators is    *)
(* always called on a graph it can walk.                                   *)
CarefulMeansDefined == phase = "undefined" => careless

(* The loop of run() ends with a graph in which neither Run would find     *)
(* anything: an odd round, with a match in one Run only, is not the last.  *)
NothingLeft ==
  phase = "done" => \A n \in Listed : ExprPattern(n) = "none" /\ NodePattern(n) = "none"

(* The loop of run() ends: no rewriting makes way for an endless series.   *)
Terminates == <>(phase \in {"done", "undefined"})

-----------------------------------------------------------------------------
(* None of the code is dead. *)
Nowhere == 0
AllReachable == \A n \in Listed : Reaches(n, Nowhere)

(* src/collatenode.cpp, after a join: "reconnect successors", so that what *)
(* led to the first node leads to the joined one.                          *)
JoinReconnects ==
  [][AllReachable /\ made' # made => phase' # "undefined"]_vars
=============================================================================
