------------------------------- MODULE LoopsProofs -------------------------------
(***************************************************************************)
(* For every list of nodes and every graph on it, FindNaturalLoopForEdge   *)
(* gathers the natural loop of its edge, and the header dominates it.      *)
(***************************************************************************)
EXTENDS Loops, SequenceTheorems, Basics, TLAPS

Elements(s) == {s[k] : k \in DOMAIN s}

OnStack(m) == \E k \in 1 .. Len(workList) : workList[k] = m

(***************************************************************************)
(* The header is in the loop and is never looked behind.                   *)
(***************************************************************************)
StackInv ==
  Gathering =>
    /\ header \in nodes /\ tail \in nodes
    /\ \A m \in Node : OnStack(m) => m \in nodes /\ m # header
    /\ phase = "preds" => node \in nodes /\ node # header

(***************************************************************************)
(* A predecessor that is not in the loop yet will be met: the node it      *)
(* leads to is on the stack, or its mPreds are being walked and the        *)
(* iterator has not passed it.                                             *)
(***************************************************************************)
PendingInv ==
  Gathering =>
    \A a \in Node, b \in nodes :
      Edge(a, b) /\ b # header /\ a \notin nodes =>
        OnStack(b) \/ (phase = "preds" /\ b = node /\ a >= p)

(***************************************************************************)
(* Nothing is gathered that does not belong to the natural loop.           *)
(***************************************************************************)
OnlyNatural == Gathering => nodes \subseteq NaturalLoop(header, tail)

IInv == TypeOK /\ StackInv /\ PendingInv /\ OnlyNatural /\ HeaderDominatesLoop

-----------------------------------------------------------------------------
(* What a successor list is. *)
LEMMA Successors ==
  ASSUME TypeOK, NEW m \in Node
  PROVE  \A k \in DOMAIN succ[m] : k \in Nat \ {0} /\ succ[m][k] \in Node
<1>0. succ[m] \in SuccessorLists
  BY DEF TypeOK
<1>1. PICK len \in 0 .. MaxSuccessors : succ[m] \in [1 .. len -> Node]
  BY <1>0, Zenon DEF SuccessorLists
<1>2. DOMAIN succ[m] = 1 .. len
  BY <1>1
<1>3. \A k \in 1 .. len : succ[m][k] \in Node
  BY <1>1
<1>4. len \in Nat
  BY MaxSuccessorsAssumption
<1>. QED  BY <1>2, <1>3, <1>4

(* FindLoops starts well typed. *)
LEMMA InitTypes == Init => TypeOK
<1>1. Entry \in Node
  BY NAssumption DEF Entry, Node
<1>. QED  BY <1>1, NAssumption DEF Init, TypeOK

(* Every variable keeps its type. *)
THEOREM TypeCorrect == Spec => []TypeOK
<1>. USE NAssumption, MaxSuccessorsAssumption
<1>1. Init => TypeOK
  BY InitTypes
<1>2. TypeOK /\ [Next]_vars => TypeOK'
  <2>. SUFFICES ASSUME TypeOK, [Next]_vars PROVE TypeOK'
    OBVIOUS
  <2>1. CASE NextNode
    BY <2>1 DEF NextNode, TypeOK, building, Node
  <2>2. CASE ForwardEdge
    BY <2>2, Successors DEF ForwardEdge, AtEdge, TypeOK, building
  <2>3. CASE BackEdge
    BY <2>3, Successors DEF BackEdge, AtEdge, TypeOK
  <2>4. CASE Pop
    BY <2>4 DEF Pop, TypeOK
  <2>5. CASE AddPredecessor
    BY <2>5 DEF AddPredecessor, TypeOK, Node
  <2>6. CASE SkipPredecessor
    BY <2>6 DEF SkipPredecessor, TypeOK, Node
  <2>7. CASE EndPredecessors
    BY <2>7 DEF EndPredecessors, TypeOK, building
  <2>8. CASE LoopFound
    BY <2>8 DEF LoopFound, TypeOK, building
  <2>9. CASE SortLoops
    BY <2>9 DEF SortLoops, TypeOK, building
  <2>10. CASE UNCHANGED vars
    BY <2>10 DEF vars, TypeOK, building
  <2>. QED  BY <2>1, <2>2, <2>3, <2>4, <2>5, <2>6, <2>7, <2>8, <2>9, <2>10 DEF Next
<1>. QED  BY <1>1, <1>2, PTL DEF Spec

-----------------------------------------------------------------------------
(* Every node dominates itself: the others are closed without it. *)
LEMMA DominatesItself ==
  ASSUME TypeOK, NEW h \in Node
  PROVE  Dominates(h, h)
<1>1. ReachesAvoiding(h, Node \ {h})
  <2>1. h # Entry => Entry \in Node \ {h}
    BY NAssumption DEF Entry, Node
  <2>2. ASSUME NEW a \in Node \ {h}, NEW k \in DOMAIN succ[a], succ[a][k] # h
        PROVE  succ[a][k] \in Node \ {h}
    BY <2>2, Successors
  <2>. QED  BY <2>1, <2>2 DEF ReachesAvoiding
<1>. QED  BY <1>1 DEF Dominates, Avoidable

(* What dominates a node dominates its predecessors, but for itself. *)
LEMMA DominatesBackwards ==
  ASSUME NEW h \in Node, NEW a \in Node, NEW b \in Node,
         Edge(a, b), b # h, Dominates(h, b)
  PROVE  Dominates(h, a)
<1>. SUFFICES ASSUME Avoidable(h, a),
                     NEW R \in SUBSET Node, ReachesAvoiding(h, R)
              PROVE  b \in R
  BY DEF Dominates, Avoidable
<1>1. a \in R
  BY DEF Avoidable
<1>2. PICK k \in DOMAIN succ[a] : succ[a][k] = b
  BY DEF Edge
<1>. QED  BY <1>1, <1>2 DEF ReachesAvoiding

(* The natural loop is closed, and the least such set. *)
LEMMA NaturalLoopClosed ==
  ASSUME NEW h \in Node, NEW t \in Node
  PROVE  LoopClosed(h, t, NaturalLoop(h, t))
<1>1. h \in NaturalLoop(h, t) /\ t \in NaturalLoop(h, t)
  BY DEF NaturalLoop, LoopClosed
<1>2. ASSUME NEW a \in Node, NEW b \in NaturalLoop(h, t), Edge(a, b), b # h
      PROVE  a \in NaturalLoop(h, t)
  <2>. SUFFICES ASSUME NEW R \in SUBSET Node, LoopClosed(h, t, R)
                PROVE  a \in R
    BY DEF NaturalLoop
  <2>1. b \in R
    BY DEF NaturalLoop
  <2>. QED  BY <1>2, <2>1 DEF LoopClosed
<1>. QED  BY <1>1, <1>2 DEF LoopClosed

(* The graph does not change while it is searched. *)
LEMMA SameGraph ==
  ASSUME UNCHANGED succ
  PROVE  /\ \A a, b : Edge(a, b)' <=> Edge(a, b)
         /\ \A d, m : Dominates(d, m)' <=> Dominates(d, m)
         /\ \A h, t : NaturalLoop(h, t)' = NaturalLoop(h, t)
<1>1. \A a, b : Edge(a, b)' <=> Edge(a, b)
  BY DEF Edge
<1>2. \A d, R : ReachesAvoiding(d, R)' <=> ReachesAvoiding(d, R)
  BY DEF ReachesAvoiding
<1>3. \A h, t, R : LoopClosed(h, t, R)' <=> LoopClosed(h, t, R)
  BY <1>1 DEF LoopClosed
<1>. QED  BY <1>1, <1>2, <1>3 DEF Dominates, Avoidable, NaturalLoop

-----------------------------------------------------------------------------
(* What popping and pushing do to the stack. *)
LEMMA Popped ==
  ASSUME TypeOK, Pop
  PROVE  /\ \A m \in Node : OnStack(m)' => OnStack(m)
         /\ \A m \in Node : OnStack(m) => OnStack(m)' \/ m = node'
         /\ OnStack(node')
<1>1. workList \in Seq(Node) /\ Len(workList) \in Nat \ {0}
  BY DEF TypeOK, Pop
<1>2. workList' = SubSeq(workList, 1, Len(workList) - 1)
  BY DEF Pop
<1>3. /\ Len(workList') = Len(workList) - 1
      /\ \A k \in 1 .. Len(workList) - 1 : workList'[k] = workList[k]
  <2>1. PICK len \in Nat : Len(workList) - 1 = len
    BY <1>1
  <2>2. \A k \in 1 .. len : workList[k] \in Node
    BY <1>1, <2>1
  <2>3. /\ Len(workList') = IF 1 <= len THEN len - 1 + 1 ELSE 0
        /\ \A k \in 1 .. len - 1 + 1 : workList'[k] = workList[1 + k - 1]
    BY <1>2, <2>1, <2>2, SubSeqProperties
  <2>4. Len(workList') = len
    BY <2>3
  <2>5. \A k \in 1 .. len : workList'[k] = workList[k]
    <3>. TAKE k \in 1 .. len
    <3>1. 1 + k - 1 = k /\ k \in 1 .. len - 1 + 1
      OBVIOUS
    <3>. QED  BY <2>3, <3>1
  <2>. QED  BY <2>1, <2>4, <2>5
<1>4. node' = workList[Len(workList)]
  BY DEF Pop
<1>. QED  BY <1>1, <1>3, <1>4 DEF OnStack

LEMMA Pushed ==
  ASSUME TypeOK, AddPredecessor
  PROVE  \A m \in Node : OnStack(m)' <=> OnStack(m) \/ m = p
<1>1. workList \in Seq(Node) /\ Len(workList) \in Nat
  BY DEF TypeOK
<1>2. p \in Node
  BY DEF AddPredecessor
<1>3. Len(workList') = Len(workList) + 1 /\ workList'[Len(workList) + 1] = p
  BY <1>1, <1>2 DEF AddPredecessor
<1>4. \A k \in 1 .. Len(workList) : workList'[k] = workList[k]
  BY <1>1, <1>2 DEF AddPredecessor
<1>. QED  BY <1>1, <1>3, <1>4 DEF OnStack

(* Outside FindNaturalLoopForEdge there is nothing to show. *)
LEMMA NotGathering ==
  ASSUME ~Gathering PROVE StackInv /\ PendingInv /\ OnlyNatural /\ HeaderDominatesLoop
BY DEF StackInv, PendingInv, OnlyNatural, HeaderDominatesLoop

(* The stack holds nodes of the loop other than its header. *)
LEMMA StackStep ==
  ASSUME TypeOK, StackInv, [Next]_vars
  PROVE  StackInv'
<1>1. CASE NextNode
  BY <1>1 DEF NextNode, StackInv, Gathering
<1>2. CASE ForwardEdge
  BY <1>2 DEF ForwardEdge, AtEdge, StackInv, Gathering
<1>3. CASE BackEdge
  BY <1>3 DEF BackEdge, AtEdge, StackInv, OnStack
<1>4. CASE Pop
  <2>1. Gathering
    BY <1>4 DEF Pop, Gathering
  <2>2. node' \in Node
    BY <1>4 DEF Pop, TypeOK
  <2>. QED  BY <1>4, <2>1, <2>2, Popped DEF Pop, StackInv
<1>5. CASE AddPredecessor
  <2>1. Gathering /\ p # header
    BY <1>5 DEF AddPredecessor, Gathering, StackInv
  <2>. QED  BY <1>5, <2>1, Pushed DEF AddPredecessor, StackInv
<1>6. CASE SkipPredecessor
  BY <1>6 DEF SkipPredecessor, StackInv, Gathering, OnStack
<1>7. CASE EndPredecessors
  BY <1>7 DEF EndPredecessors, StackInv, Gathering, OnStack, building
<1>8. CASE LoopFound
  BY <1>8 DEF LoopFound, StackInv, Gathering
<1>9. CASE SortLoops
  BY <1>9 DEF SortLoops, StackInv, Gathering
<1>10. CASE UNCHANGED vars
  BY <1>10 DEF vars, building, StackInv, Gathering, OnStack
<1>. QED  BY <1>1, <1>2, <1>3, <1>4, <1>5, <1>6, <1>7, <1>8, <1>9, <1>10 DEF Next

(* No predecessor is lost sight of. *)
LEMMA PendingStep ==
  ASSUME TypeOK, StackInv, PendingInv, [Next]_vars
  PROVE  PendingInv'
<1>0. UNCHANGED succ
  BY DEF Next, vars, NextNode, ForwardEdge, BackEdge, Pop, AddPredecessor,
         SkipPredecessor, EndPredecessors, LoopFound, SortLoops
<1>. SUFFICES ASSUME Gathering', NEW a \in Node, NEW b \in nodes',
                     Edge(a, b), b # header', a \notin nodes'
              PROVE  OnStack(b)' \/ (phase' = "preds" /\ b = node' /\ a >= p')
  BY <1>0 DEF PendingInv, OnStack, Edge
<1>1. CASE NextNode
  BY <1>1 DEF NextNode, Gathering
<1>2. CASE ForwardEdge
  BY <1>2 DEF ForwardEdge, AtEdge, Gathering
<1>3. CASE BackEdge
  <2>1. b = n /\ workList' = <<n>>
    BY <1>3 DEF BackEdge
  <2>. QED  BY <2>1 DEF OnStack
<1>4. CASE Pop
  <2>1. b \in nodes /\ b # header /\ a \notin nodes /\ phase = "pop" /\ b \in Node
    BY <1>4 DEF Pop, TypeOK
  <2>2. OnStack(b)
    BY <2>1 DEF PendingInv, Gathering
  <2>3. p' = 1 /\ phase' = "preds" /\ a >= 1
    BY <1>4 DEF Pop, Node
  <2>. QED  BY <1>4, <2>1, <2>2, <2>3, Popped
<1>5. CASE AddPredecessor
  <2>1. b \in Node /\ p \in Node /\ header' = header /\ node' = node
        /\ p' = p + 1 /\ phase' = phase /\ phase = "preds"
    BY <1>5 DEF AddPredecessor, TypeOK
  <2>2. a \notin nodes /\ a # p
    BY <1>5 DEF AddPredecessor
  <2>3. CASE b = p
    BY <1>5, <2>1, <2>3, Pushed
  <2>4. CASE b \in nodes
    <3>1. OnStack(b) \/ (b = node /\ a >= p)
      BY <2>1, <2>2, <2>4 DEF PendingInv, Gathering
    <3>2. a >= p => a >= p + 1
      BY <2>1, <2>2 DEF Node
    <3>. QED  BY <1>5, <2>1, <3>1, <3>2, Pushed
  <2>. QED  BY <1>5, <2>3, <2>4 DEF AddPredecessor
<1>6. CASE SkipPredecessor
  <2>1. /\ b \in nodes /\ b # header /\ a \notin nodes /\ p \in Node
        /\ p' = p + 1 /\ phase' = phase /\ phase = "preds" /\ node' = node
        /\ workList' = workList
    BY <1>6 DEF SkipPredecessor
  <2>2. OnStack(b) \/ (b = node /\ a >= p)
    BY <2>1 DEF PendingInv, Gathering
  <2>3. b = node => a # p
    BY <1>6, <2>1 DEF SkipPredecessor
  <2>4. a # p /\ a >= p => a >= p + 1
    BY <2>1 DEF Node
  <2>. QED  BY <2>1, <2>2, <2>3, <2>4 DEF OnStack
<1>7. CASE EndPredecessors
  <2>1. /\ b \in nodes /\ b # header /\ a \notin nodes /\ phase = "preds"
        /\ workList' = workList
    BY <1>7 DEF EndPredecessors, building
  <2>2. OnStack(b) \/ (b = node /\ a >= p)
    BY <2>1 DEF PendingInv, Gathering
  <2>3. ~(a >= p)
    BY <1>7, NAssumption DEF EndPredecessors, TypeOK, Node
  <2>. QED  BY <2>1, <2>2, <2>3 DEF OnStack
<1>8. CASE LoopFound
  BY <1>8 DEF LoopFound, Gathering
<1>9. CASE SortLoops
  BY <1>9 DEF SortLoops, Gathering
<1>10. CASE UNCHANGED vars
  BY <1>10 DEF vars, building, PendingInv, Gathering, OnStack
<1>. QED  BY <1>1, <1>2, <1>3, <1>4, <1>5, <1>6, <1>7, <1>8, <1>9, <1>10 DEF Next

(***************************************************************************)
(* What is gathered belongs to the natural loop, and the header dominates  *)
(* it: both sets are closed under the predecessors of their nodes.         *)
(***************************************************************************)
LEMMA GatheringStep ==
  ASSUME TypeOK, StackInv, OnlyNatural, HeaderDominatesLoop, [Next]_vars
  PROVE  /\ Gathering' => nodes' \subseteq NaturalLoop(header', tail')
         /\ Gathering' => \A m \in nodes' : Dominates(header', m)
<1>. SUFFICES ASSUME Gathering'
              PROVE  /\ nodes' \subseteq NaturalLoop(header', tail')
                     /\ \A m \in nodes' : Dominates(header', m)
  OBVIOUS
<1>1. CASE BackEdge
  <2>1. PICK h \in Node : h = header' /\ Dominates(h, n) /\ nodes' = {h, n}
    BY <1>1, Successors DEF BackEdge, AtEdge
  <2>2. n \in Node /\ tail' = n
    BY <1>1 DEF BackEdge, AtEdge
  <2>3. nodes' \subseteq NaturalLoop(h, n)
    BY <2>1, <2>2, NaturalLoopClosed DEF LoopClosed
  <2>4. \A m \in nodes' : Dominates(h, m)
    BY <2>1, DominatesItself
  <2>. QED  BY <2>1, <2>2, <2>3, <2>4
<1>2. CASE AddPredecessor
  <2>1. /\ header' = header /\ tail' = tail /\ nodes' = nodes \cup {p}
        /\ p \in Node /\ Edge(p, node) /\ phase = "preds"
    BY <1>2 DEF AddPredecessor
  <2>2. header \in Node /\ tail \in Node /\ node \in Node
    BY DEF TypeOK
  <2>3. /\ node \in nodes /\ node # header
        /\ nodes \subseteq NaturalLoop(header, tail)
        /\ \A m \in nodes : Dominates(header, m)
    BY <2>1 DEF StackInv, OnlyNatural, HeaderDominatesLoop, Gathering
  <2>4. p \in NaturalLoop(header, tail)
    <3>1. LoopClosed(header, tail, NaturalLoop(header, tail))
      BY <2>2, NaturalLoopClosed
    <3>. QED  BY <2>1, <2>3, <3>1 DEF LoopClosed
  <2>5. Dominates(header, p)
    BY <2>1, <2>2, <2>3, DominatesBackwards
  <2>. QED  BY <2>1, <2>3, <2>4, <2>5
<1>3. CASE Pop \/ SkipPredecessor \/ EndPredecessors \/ UNCHANGED vars
  <2>1. Gathering /\ header' = header /\ tail' = tail /\ nodes' = nodes
    BY <1>3 DEF Pop, SkipPredecessor, EndPredecessors, vars, building, Gathering
  <2>. QED  BY <2>1 DEF OnlyNatural, HeaderDominatesLoop
<1>4. CASE NextNode \/ ForwardEdge \/ LoopFound \/ SortLoops
  BY <1>4 DEF NextNode, ForwardEdge, AtEdge, LoopFound, SortLoops, Gathering
<1>. QED  BY <1>1, <1>2, <1>3, <1>4 DEF Next

-----------------------------------------------------------------------------
(* The types and the four parts together are inductive. *)
LEMMA Inductive == Spec => []IInv
<1>1. Init => StackInv /\ PendingInv /\ OnlyNatural /\ HeaderDominatesLoop
  BY NotGathering DEF Init, Gathering
<1>2. IInv /\ [Next]_vars => (StackInv /\ PendingInv /\ OnlyNatural /\ HeaderDominatesLoop)'
  <2>. SUFFICES ASSUME IInv, [Next]_vars
                PROVE  (StackInv /\ PendingInv /\ OnlyNatural /\ HeaderDominatesLoop)'
    OBVIOUS
  <2>1. StackInv' /\ PendingInv'
    BY StackStep, PendingStep DEF IInv
  <2>2. UNCHANGED succ
    BY DEF Next, vars, NextNode, ForwardEdge, BackEdge, Pop, AddPredecessor,
           SkipPredecessor, EndPredecessors, LoopFound, SortLoops
  <2>3. /\ Gathering' => nodes' \subseteq NaturalLoop(header', tail')
        /\ Gathering' => \A m \in nodes' : Dominates(header', m)
    BY GatheringStep DEF IInv
  <2>4. OnlyNatural'
    BY <2>2, <2>3, SameGraph DEF OnlyNatural
  <2>5. HeaderDominatesLoop'
    BY <2>2, <2>3, SameGraph DEF HeaderDominatesLoop
  <2>. QED  BY <2>1, <2>4, <2>5
<1>. QED  BY <1>1, <1>2, TypeCorrect, PTL DEF Spec, IInv

(* No node gets into a loop that can be come to without its header. *)
THEOREM Dominated == Spec => []HeaderDominatesLoop
<1>1. IInv => HeaderDominatesLoop
  BY DEF IInv
<1>. QED  BY <1>1, Inductive, PTL

(***************************************************************************)
(* When the stack is empty nothing is pending, so the nodes gathered are   *)
(* closed, and the natural loop is the least closed set.                   *)
(***************************************************************************)
LEMMA IsNatural == IInv => LoopIsNatural
<1>. SUFFICES ASSUME IInv, phase = "pop", workList = <<>>
              PROVE  nodes = NaturalLoop(header, tail)
  BY DEF LoopIsNatural
<1>1. Gathering /\ nodes \in SUBSET Node
  BY DEF Gathering, IInv, TypeOK
<1>2. \A m : ~OnStack(m)
  BY DEF OnStack
<1>3. LoopClosed(header, tail, nodes)
  BY <1>1, <1>2 DEF LoopClosed, IInv, StackInv, PendingInv
<1>4. NaturalLoop(header, tail) \subseteq nodes
  BY <1>1, <1>3 DEF NaturalLoop
<1>. QED  BY <1>1, <1>4 DEF IInv, OnlyNatural

(* FindNaturalLoopForEdge returns the natural loop of its edge. *)
THEOREM Natural == Spec => []LoopIsNatural
BY Inductive, IsNatural, PTL

-----------------------------------------------------------------------------
(***************************************************************************)
(* What FindLoops returns are natural loops, none is missing, and where    *)
(* all nodes can be reached they are nested or apart.                      *)
(***************************************************************************)
TrueLoops ==
  {l \in [header : Node, tail : Node, nodes : SUBSET Node] :
     /\ Edge(l.tail, l.header)
     /\ Dominates(l.header, l.tail)
     /\ l.nodes = NaturalLoop(l.header, l.tail)}

Has(h, t) == \E l \in Elements(loops) : l.nodes = NaturalLoop(h, t)

(***************************************************************************)
(* What is in mLoops are natural loops.                                    *)
(***************************************************************************)
TrueInv == loops \in Seq(TrueLoops)

(***************************************************************************)
(* The loop that is gathered is that of the edge the walk is at.           *)
(***************************************************************************)
EdgeInv ==
  /\ n >= 2
  /\ phase = "done" => n = N + 1
  /\ Gathering => /\ n \in Node /\ i \in DOMAIN succ[n]
                  /\ header = succ[n][i] /\ tail = n
                  /\ Dominates(header, tail)

(***************************************************************************)
(* The loops of all edges the walk has passed are there.                   *)
(***************************************************************************)
Passed(a, k) == a < n \/ (a = n /\ k < i)

FoundInv ==
  \A a \in Node : \A k \in DOMAIN succ[a] :
    a # Entry /\ Passed(a, k) /\ Dominates(succ[a][k], a) => Has(succ[a][k], a)

-----------------------------------------------------------------------------
(***************************************************************************)
(* What the sort does.  It is merged from the front; where an element of   *)
(* the second list goes first, it has in it the one of the first, and      *)
(* nothing after that has it inside.  Where it does not, the lists have to *)
(* be Easy: its successors could be around what goes first.                *)
(***************************************************************************)
OuterFirst(z) == \A k, l \in DOMAIN z : k < l => ~Inside(z[k], z[l])

(* One element before a list. *)
LEMMA Before ==
  ASSUME NEW T, NEW e \in T, NEW z \in Seq(T)
  PROVE  LET w == <<e>> \o z IN
           /\ w \in Seq(T) /\ Len(w) = 1 + Len(z)
           /\ Elements(w) = {e} \cup Elements(z)
           /\ OuterFirst(z) /\ (\A u \in Elements(z) : ~Inside(e, u)) => OuterFirst(w)
<1>. DEFINE w == <<e>> \o z
<1>1. w \in Seq(T) /\ Len(w) = 1 + Len(z) /\ Len(z) \in Nat
  OBVIOUS
<1>2. DOMAIN w = 1 .. Len(w) /\ DOMAIN z = 1 .. Len(z)
  BY <1>1
<1>3. w[1] = e /\ \A k \in 1 .. Len(z) : w[k + 1] = z[k]
  OBVIOUS
<1>. HIDE DEF w
<1>4. \A k \in 1 .. Len(w) : k # 1 => k - 1 \in 1 .. Len(z) /\ w[k] = z[k - 1]
  <2>. SUFFICES ASSUME NEW k \in 1 .. Len(w), k # 1
                PROVE  k - 1 \in 1 .. Len(z) /\ w[k] = z[k - 1]
    OBVIOUS
  <2>1. k - 1 \in 1 .. Len(z) /\ (k - 1) + 1 = k
    BY <1>1
  <2>. QED  BY <1>3, <2>1
<1>5. \A k \in 1 .. Len(z) : k + 1 \in 1 .. Len(w)
  BY <1>1
<1>6. 1 \in 1 .. Len(w)
  BY <1>1
<1>7. Elements(w) = {e} \cup Elements(z)
  <2>1. \A k \in 1 .. Len(w) : w[k] = e \/ \E j \in 1 .. Len(z) : w[k] = z[j]
    BY <1>3, <1>4
  <2>2. \A j \in 1 .. Len(z) : \E k \in 1 .. Len(w) : w[k] = z[j]
    BY <1>3, <1>5
  <2>3. Elements(w) = {w[k] : k \in 1 .. Len(w)} /\ Elements(z) = {z[j] : j \in 1 .. Len(z)}
    BY <1>2 DEF Elements
  <2>4. ASSUME NEW u \in Elements(w) PROVE u \in {e} \cup Elements(z)
    <3>1. PICK k \in 1 .. Len(w) : u = w[k]
      BY <2>3
    <3>. QED  BY <2>1, <2>3, <3>1
  <2>5. ASSUME NEW u \in Elements(z) PROVE u \in Elements(w)
    <3>1. PICK j \in 1 .. Len(z) : u = z[j]
      BY <2>3
    <3>. QED  BY <2>2, <2>3, <3>1
  <2>6. e \in Elements(w)
    BY <1>3, <1>6, <2>3
  <2>. QED  BY <2>4, <2>5, <2>6
<1>8. ASSUME OuterFirst(z), \A u \in Elements(z) : ~Inside(e, u)
      PROVE  OuterFirst(w)
  <2>. SUFFICES ASSUME NEW k \in 1 .. Len(w), NEW l \in 1 .. Len(w), k < l
                PROVE  ~Inside(w[k], w[l])
    BY <1>2 DEF OuterFirst
  <2>1. l # 1 /\ l - 1 \in 1 .. Len(z) /\ w[l] = z[l - 1]
    BY <1>4
  <2>2. CASE k = 1
    BY <1>2, <1>3, <1>8, <2>1, <2>2 DEF Elements
  <2>3. CASE k # 1
    <3>1. k - 1 \in 1 .. Len(z) /\ w[k] = z[k - 1] /\ k - 1 < l - 1
      BY <1>4, <2>3
    <3>. QED  BY <1>2, <1>8, <2>1, <3>1 DEF OuterFirst
  <2>. QED  BY <2>2, <2>3
<1>. QED  BY <1>1, <1>7, <1>8 DEF w

(* What is left of a list from its a-th element on. *)
LEMMA Rest ==
  ASSUME NEW T, NEW z \in Seq(T), NEW a \in 1 .. Len(z) + 1
  PROVE  LET w == SubSeq(z, a, Len(z)) IN
           /\ w \in Seq(T) /\ Len(w) = Len(z) + 1 - a
           /\ Elements(w) = {z[k] : k \in a .. Len(z)}
           /\ OuterFirst(z) => OuterFirst(w)
<1>. DEFINE w == SubSeq(z, a, Len(z))
<1>1. Len(z) \in Nat /\ a \in Nat
  OBVIOUS
<1>2. w \in Seq(T) /\ Len(w) = Len(z) + 1 - a
  OBVIOUS
<1>3. \A k \in 1 .. Len(w) : a + k - 1 \in a .. Len(z) /\ w[k] = z[a + k - 1]
  OBVIOUS
<1>. HIDE DEF w
<1>4. DOMAIN w = 1 .. Len(w) /\ DOMAIN z = 1 .. Len(z)
  BY <1>2
<1>5. \A k \in a .. Len(z) : k - a + 1 \in 1 .. Len(w) /\ a + (k - a + 1) - 1 = k
  BY <1>1, <1>2
<1>6. Elements(w) = {z[k] : k \in a .. Len(z)}
  <2>1. \A k \in a .. Len(z) : \E j \in 1 .. Len(w) : z[k] = w[j]
    BY <1>3, <1>5
  <2>2. \A j \in 1 .. Len(w) : \E k \in a .. Len(z) : z[k] = w[j]
    BY <1>3
  <2>3. Elements(w) = {w[j] : j \in 1 .. Len(w)}
    BY <1>4 DEF Elements
  <2>4. ASSUME NEW u \in Elements(w) PROVE u \in {z[k] : k \in a .. Len(z)}
    <3>1. PICK j \in 1 .. Len(w) : u = w[j]
      BY <2>3
    <3>. QED  BY <2>2, <3>1
  <2>5. ASSUME NEW k \in a .. Len(z) PROVE z[k] \in Elements(w)
    BY <2>1, <2>3
  <2>. QED  BY <2>4, <2>5
<1>7. ASSUME OuterFirst(z) PROVE OuterFirst(w)
  <2>. SUFFICES ASSUME NEW k \in 1 .. Len(w), NEW l \in 1 .. Len(w), k < l
                PROVE  ~Inside(w[k], w[l])
    BY <1>4 DEF OuterFirst
  <2>1. a + k - 1 \in 1 .. Len(z) /\ a + l - 1 \in 1 .. Len(z) /\ a + k - 1 < a + l - 1
    BY <1>1, <1>3
  <2>2. w[k] = z[a + k - 1] /\ w[l] = z[a + l - 1]
    BY <1>3
  <2>. QED  BY <1>4, <1>7, <2>1, <2>2 DEF OuterFirst
<1>. QED  BY <1>2, <1>6, <1>7 DEF w

(* One round of the merge of x from its a-th and y from its b-th element. *)
Round(x, y, f, a, b) ==
  IF a > Len(x) THEN SubSeq(y, b, Len(y))
  ELSE IF b > Len(y) THEN SubSeq(x, a, Len(x))
  ELSE IF LoopCompare(y[b], x[a]) THEN <<y[b]>> \o f[<<a, b + 1>>]
  ELSE <<x[a]>> \o f[<<a + 1, b>>]

LEMMA MergeRounds ==
  ASSUME NEW T, NEW x \in Seq(T), NEW y \in Seq(T)
  PROVE  \E f : /\ Merged(x, y) = f[<<1, 1>>]
                /\ \A a \in 1 .. Len(x) + 1, b \in 1 .. Len(y) + 1 : f[<<a, b>>] = Round(x, y, f, a, b)
<1>. DEFINE D == (1 .. Len(x) + 1) \X (1 .. Len(y) + 1)
            V == Seq(T)
            M == Len(x) + Len(y)
            rank == [at \in D |-> Len(x) + 1 - at[1] + Len(y) + 1 - at[2]]
            B == [q \in [D -> V] \X D |-> Round(x, y, q[1], q[2][1], q[2][2])]
            F(f) == [at \in D |-> Round(x, y, f, at[1], at[2])]
            F0 == CHOOSE f : f = F(f)
<1>1. \E f : f = F(f)
  <2>0. Len(x) \in Nat /\ Len(y) \in Nat
    OBVIOUS
  <2>1. <<>> \in V /\ M \in Nat
    BY <2>0
  <2>2. rank \in [D -> 0 .. M]
    BY <2>0
  <2>3. ASSUME NEW f \in [D -> V], NEW a \in 1 .. Len(x) + 1, NEW b \in 1 .. Len(y) + 1
        PROVE  Round(x, y, f, a, b) \in V
    <3>1. CASE a > Len(x)
      BY <2>0, <3>1, Rest DEF Round
    <3>2. CASE a <= Len(x) /\ b > Len(y)
      BY <2>0, <3>2, Rest DEF Round
    <3>3. CASE a <= Len(x) /\ b <= Len(y)
      <4>1. a + 1 \in 1 .. Len(x) + 1 /\ b + 1 \in 1 .. Len(y) + 1 /\ x[a] \in T /\ y[b] \in T
        BY <2>0, <3>3
      <4>2. <<a, b + 1>> \in D /\ <<a + 1, b>> \in D
        BY <4>1
      <4>3. f[<<a, b + 1>>] \in Seq(T) /\ f[<<a + 1, b>>] \in Seq(T)
        BY <4>2
      <4>4. <<y[b]>> \o f[<<a, b + 1>>] \in Seq(T) /\ <<x[a]>> \o f[<<a + 1, b>>] \in Seq(T)
        BY <4>1, <4>3, Before
      <4>. QED  BY <2>0, <3>3, <4>4 DEF Round
    <3>. QED  BY <2>0, <3>1, <3>2, <3>3
  <2>4. B \in [[D -> V] \X D -> V]
    BY <2>3
  <2>5. Descends(D, V, rank, B)
    <3>. SUFFICES ASSUME NEW f \in [D -> V], NEW g \in [D -> V], NEW at \in D,
                         \A q \in D : rank[q] < rank[at] => f[q] = g[q]
                  PROVE  B[<<f, at>>] = B[<<g, at>>]
      BY DEF Descends
    <3>. DEFINE a == at[1]
                b == at[2]
    <3>1. a \in 1 .. Len(x) + 1 /\ b \in 1 .. Len(y) + 1 /\ at = <<a, b>>
      OBVIOUS
    <3>2. B[<<f, at>>] = Round(x, y, f, a, b) /\ B[<<g, at>>] = Round(x, y, g, a, b)
      OBVIOUS
    <3>3. CASE a > Len(x) \/ b > Len(y)
      <4>. HIDE DEF B, a, b
      <4>. QED  BY <2>0, <3>1, <3>2, <3>3 DEF Round
    <3>4. CASE a <= Len(x) /\ b <= Len(y)
      <4>1. <<a, b + 1>> \in D /\ <<a + 1, b>> \in D
        BY <2>0, <3>4
      <4>2. /\ rank[at] = Len(x) + 1 - a + Len(y) + 1 - b
            /\ rank[<<a, b + 1>>] = Len(x) + 1 - a + Len(y) + 1 - (b + 1)
            /\ rank[<<a + 1, b>>] = Len(x) + 1 - (a + 1) + Len(y) + 1 - b
        BY <3>1, <4>1
      <4>3. f[<<a, b + 1>>] = g[<<a, b + 1>>] /\ f[<<a + 1, b>>] = g[<<a + 1, b>>]
        <5>. HIDE DEF rank, a, b
        <5>1. rank[<<a, b + 1>>] < rank[at] /\ rank[<<a + 1, b>>] < rank[at]
          BY <2>0, <3>1, <4>2
        <5>. QED  BY <4>1, <5>1
      <4>. HIDE DEF B, a, b
      <4>. QED  BY <2>0, <3>1, <3>2, <4>3 DEF Round
    <3>. QED  BY <2>0, <3>1, <3>3, <3>4
  <2>6. PICK f \in [D -> V] : \A at \in D : f[at] = B[<<f, at>>]
    <3>. HIDE DEF D, V, M, rank, B
    <3>1. Recurs(D, V, B)
      BY <2>1, <2>2, <2>4, <2>5, Recursion
    <3>. QED  BY <3>1 DEF Recurs
  <2>7. \A at \in D : f[at] = Round(x, y, f, at[1], at[2])
    BY <2>6
  <2>8. f = F(f)
    BY <2>7
  <2>. QED  BY <2>8
<1>2. F0 = F(F0)
  <2>. HIDE DEF F
  <2>. QED  BY <1>1
<1>3. Merged(x, y) = F0[<<1, 1>>]
  BY DEF Merged, Round
<1>. HIDE DEF F0
<1>4. \A a \in 1 .. Len(x) + 1, b \in 1 .. Len(y) + 1 : F0[<<a, b>>] = Round(x, y, F0, a, b)
  BY <1>2
<1>. QED  BY <1>3, <1>4

LEMMA At ==
  ASSUME NEW T, NEW z \in Seq(T), NEW k \in 1 .. Len(z)
  PROVE  /\ z[k] \in Elements(z)
         /\ \A l \in 1 .. Len(z) : OuterFirst(z) /\ k < l => ~Inside(z[k], z[l])
<1>1. DOMAIN z = 1 .. Len(z)
  OBVIOUS
<1>. QED  BY <1>1 DEF Elements, OuterFirst

(* Lists whose merge is in order when they are: where one list has one     *)
(* element, or every two elements are one inside the other.                *)
Easy(x, y) == \/ Len(y) = 1
              \/ \A u, v \in Elements(x) \cup Elements(y) : Comparable(u, v)

IsMerge(T, x, a, y, b, z) ==
  /\ z \in Seq(T)
  /\ Len(z) = (Len(x) + 1 - a) + (Len(y) + 1 - b)
  /\ Elements(z) = {x[k] : k \in a .. Len(x)} \cup {y[k] : k \in b .. Len(y)}
  /\ OuterFirst(x) /\ OuterFirst(y) /\ Easy(x, y) => OuterFirst(z)

LEMMA MergeRound ==
  ASSUME NEW T, NEW x \in Seq(T), NEW y \in Seq(T), NEW f,
         NEW a \in 1 .. Len(x) + 1, NEW b \in 1 .. Len(y) + 1,
         a <= Len(x) /\ b <= Len(y) => /\ IsMerge(T, x, a, y, b + 1, f[<<a, b + 1>>])
                                       /\ IsMerge(T, x, a + 1, y, b, f[<<a + 1, b>>])
  PROVE  IsMerge(T, x, a, y, b, Round(x, y, f, a, b))
<1>0. Len(x) \in Nat /\ Len(y) \in Nat /\ a \in Nat /\ b \in Nat
  OBVIOUS
<1>d. DOMAIN x = 1 .. Len(x) /\ DOMAIN y = 1 .. Len(y)
  OBVIOUS
<1>1. CASE a > Len(x)
  <2>. DEFINE w == SubSeq(y, b, Len(y))
  <2>1. w \in Seq(T) /\ Len(w) = Len(y) + 1 - b /\ Elements(w) = {y[k] : k \in b .. Len(y)}
        /\ (OuterFirst(y) => OuterFirst(w))
    BY Rest
  <2>2. a = Len(x) + 1 /\ {x[k] : k \in a .. Len(x)} = {}
    BY <1>0, <1>1
  <2>3. Round(x, y, f, a, b) = w
    BY <1>1 DEF Round
  <2>. HIDE DEF w
  <2>. QED  BY <1>0, <2>1, <2>2, <2>3 DEF IsMerge
<1>2. CASE a <= Len(x) /\ b > Len(y)
  <2>. DEFINE w == SubSeq(x, a, Len(x))
  <2>1. w \in Seq(T) /\ Len(w) = Len(x) + 1 - a /\ Elements(w) = {x[k] : k \in a .. Len(x)}
        /\ (OuterFirst(x) => OuterFirst(w))
    BY Rest
  <2>2. b = Len(y) + 1 /\ {y[k] : k \in b .. Len(y)} = {}
    BY <1>0, <1>2
  <2>3. Round(x, y, f, a, b) = w
    BY <1>0, <1>2 DEF Round
  <2>. HIDE DEF w
  <2>. QED  BY <1>0, <2>1, <2>2, <2>3 DEF IsMerge
<1>3. CASE a <= Len(x) /\ b <= Len(y) /\ LoopCompare(y[b], x[a])
  <2>. DEFINE z == f[<<a, b + 1>>]
              w == <<y[b]>> \o z
  <2>1. IsMerge(T, x, a, y, b + 1, z)
    BY <1>3
  <2>2. y[b] \in T /\ z \in Seq(T)
    BY <1>0, <1>3, <2>1 DEF IsMerge
  <2>3. Round(x, y, f, a, b) = w
    BY <1>0, <1>3 DEF Round
  <2>. HIDE DEF z
  <2>4. /\ w \in Seq(T) /\ Len(w) = 1 + Len(z)
        /\ Elements(w) = {y[b]} \cup Elements(z)
        /\ OuterFirst(z) /\ (\A u \in Elements(z) : ~Inside(y[b], u)) => OuterFirst(w)
    BY <2>2, Before
  <2>. HIDE DEF w
  <2>5. {y[k] : k \in b .. Len(y)} = {y[b]} \cup {y[k] : k \in b + 1 .. Len(y)}
    <3>1. b .. Len(y) = {b} \cup (b + 1 .. Len(y))
      BY <1>0, <1>3
    <3>. QED  BY <3>1
  <2>6. ASSUME OuterFirst(x), OuterFirst(y), Easy(x, y)
        PROVE  OuterFirst(w)
    <3>1. ASSUME NEW u \in Elements(z) PROVE ~Inside(y[b], u)
      <4>1. CASE \E k \in b + 1 .. Len(y) : u = y[k]
        <5>1. PICK k \in b + 1 .. Len(y) : u = y[k]
          BY <4>1
        <5>2. b \in 1 .. Len(y) /\ k \in 1 .. Len(y) /\ b < k
          BY <1>0, <1>3
        <5>. QED  BY <2>6, <5>1, <5>2, At
      <4>2. CASE \E k \in a .. Len(x) : u = x[k]
        <5>1. PICK k \in a .. Len(x) : u = x[k]
          BY <4>2
        <5>2. k = a \/ ~Inside(x[a], x[k])
          <6>1. a \in 1 .. Len(x) /\ k \in 1 .. Len(x) /\ (k = a \/ a < k)
            BY <1>0, <1>3
          <6>. QED  BY <2>6, <6>1, At
        <5>. QED  BY <1>3, <5>1, <5>2 DEF Inside, LoopCompare
      <4>. QED  BY <2>1, <3>1, <4>1, <4>2 DEF IsMerge
    <3>. QED  BY <2>1, <2>4, <2>6, <3>1 DEF IsMerge
  <2>7. Len(w) = (Len(x) + 1 - a) + (Len(y) + 1 - b)
    BY <1>0, <2>1, <2>4 DEF IsMerge
  <2>8. Elements(w) = {x[k] : k \in a .. Len(x)} \cup {y[k] : k \in b .. Len(y)}
    BY <2>1, <2>4, <2>5 DEF IsMerge
  <2>. QED  BY <2>3, <2>4, <2>6, <2>7, <2>8 DEF IsMerge
<1>4. CASE a <= Len(x) /\ b <= Len(y) /\ ~LoopCompare(y[b], x[a])
  <2>. DEFINE z == f[<<a + 1, b>>]
              w == <<x[a]>> \o z
  <2>1. IsMerge(T, x, a + 1, y, b, z)
    BY <1>4
  <2>2. x[a] \in T /\ z \in Seq(T)
    BY <1>0, <1>4, <2>1 DEF IsMerge
  <2>3. Round(x, y, f, a, b) = w
    BY <1>0, <1>4 DEF Round
  <2>. HIDE DEF z
  <2>4. /\ w \in Seq(T) /\ Len(w) = 1 + Len(z)
        /\ Elements(w) = {x[a]} \cup Elements(z)
        /\ OuterFirst(z) /\ (\A u \in Elements(z) : ~Inside(x[a], u)) => OuterFirst(w)
    BY <2>2, Before
  <2>. HIDE DEF w
  <2>5. {x[k] : k \in a .. Len(x)} = {x[a]} \cup {x[k] : k \in a + 1 .. Len(x)}
    <3>1. a .. Len(x) = {a} \cup (a + 1 .. Len(x))
      BY <1>0, <1>4
    <3>. QED  BY <3>1
  <2>6. ASSUME OuterFirst(x), OuterFirst(y), Easy(x, y)
        PROVE  OuterFirst(w)
    <3>1. ASSUME NEW u \in Elements(z) PROVE ~Inside(x[a], u)
      <4>1. CASE \E k \in a + 1 .. Len(x) : u = x[k]
        <5>1. PICK k \in a + 1 .. Len(x) : u = x[k]
          BY <4>1
        <5>2. a \in 1 .. Len(x) /\ k \in 1 .. Len(x) /\ a < k
          BY <1>0, <1>4
        <5>. QED  BY <2>6, <5>1, <5>2, At
      <4>2. CASE \E k \in b .. Len(y) : u = y[k]
        <5>1. PICK k \in b .. Len(y) : u = y[k]
          BY <4>2
        <5>2. CASE k = b
          BY <1>4, <5>1, <5>2 DEF Inside, LoopCompare
        <5>3. CASE k # b
          <6>0. a \in 1 .. Len(x) /\ b \in 1 .. Len(y) /\ k \in 1 .. Len(y) /\ b < k
            BY <1>0, <1>4, <5>3
          <6>1. Len(y) # 1 /\ ~Inside(y[b], y[k])
            BY <1>0, <2>6, <6>0, At
          <6>2. x[a] \in Elements(x) /\ y[b] \in Elements(y)
            BY <6>0, At
          <6>3. Comparable(x[a], y[b])
            BY <2>6, <6>1, <6>2 DEF Easy
          <6>. QED  BY <1>4, <5>1, <6>1, <6>3 DEF Inside, LoopCompare, Comparable
        <5>. QED  BY <5>2, <5>3
      <4>. QED  BY <2>1, <3>1, <4>1, <4>2 DEF IsMerge
    <3>. QED  BY <2>1, <2>4, <2>6, <3>1 DEF IsMerge
  <2>7. Len(w) = (Len(x) + 1 - a) + (Len(y) + 1 - b)
    BY <1>0, <2>1, <2>4 DEF IsMerge
  <2>8. Elements(w) = {x[k] : k \in a .. Len(x)} \cup {y[k] : k \in b .. Len(y)}
    BY <2>1, <2>4, <2>5 DEF IsMerge
  <2>. QED  BY <2>3, <2>4, <2>6, <2>7, <2>8 DEF IsMerge
<1>. QED  BY <1>0, <1>1, <1>2, <1>3, <1>4

(* What std::list::merge makes of two lists. *)
LEMMA Merges ==
  ASSUME NEW T, NEW x \in Seq(T), NEW y \in Seq(T)
  PROVE  /\ Merged(x, y) \in Seq(T)
         /\ Len(Merged(x, y)) = Len(x) + Len(y)
         /\ Elements(Merged(x, y)) = Elements(x) \cup Elements(y)
         /\ OuterFirst(x) /\ OuterFirst(y) /\ Easy(x, y) => OuterFirst(Merged(x, y))
<1>0. Len(x) \in Nat /\ Len(y) \in Nat
  OBVIOUS
<1>1. PICK f : /\ Merged(x, y) = f[<<1, 1>>]
               /\ \A a \in 1 .. Len(x) + 1, b \in 1 .. Len(y) + 1 :
                    f[<<a, b>>] = Round(x, y, f, a, b)
  BY MergeRounds
<1>. DEFINE Good(a, b) == IsMerge(T, x, a, y, b, f[<<a, b>>])
            M == Len(x) + Len(y) + 2
            Bad == {m \in Nat : \E a \in 1 .. Len(x) + 1, b \in 1 .. Len(y) + 1 :
                                  m = M - a - b /\ ~Good(a, b)}
<1>2. Bad = {}
  <2>. SUFFICES ASSUME Bad # {} PROVE FALSE
    OBVIOUS
  <2>1. PICK m \in Bad : \A k \in Bad : m <= k
    <3>1. Bad \in SUBSET Nat
      OBVIOUS
    <3>. HIDE DEF Bad
    <3>. QED  BY <3>1, LeastNumber
  <2>2. PICK a \in 1 .. Len(x) + 1, b \in 1 .. Len(y) + 1 : m = M - a - b /\ ~Good(a, b)
    OBVIOUS
  <2>3. ASSUME a <= Len(x), b <= Len(y) PROVE Good(a, b + 1) /\ Good(a + 1, b)
    <3>1. m - 1 \in Nat /\ m - 1 = M - a - (b + 1) /\ m - 1 = M - (a + 1) - b
      BY <1>0, <2>2, <2>3
    <3>2. m - 1 \notin Bad
      <4>1. m \in Nat
        BY <2>2
      <4>. HIDE DEF Bad, M
      <4>. QED  BY <2>1, <3>1, <4>1
    <3>3. a + 1 \in 1 .. Len(x) + 1 /\ b + 1 \in 1 .. Len(y) + 1
      BY <1>0, <2>3
    <3>. HIDE DEF Good, M
    <3>. QED  BY <3>1, <3>2, <3>3
  <2>4. Good(a, b)
    BY <1>1, <2>3, MergeRound
  <2>. QED  BY <2>2, <2>4
<1>3. Good(1, 1)
  <2>1. 1 \in 1 .. Len(x) + 1 /\ 1 \in 1 .. Len(y) + 1 /\ M - 1 - 1 \in Nat
    BY <1>0
  <2>2. M - 1 - 1 \notin Bad
    <3>. HIDE DEF Bad
    <3>. QED  BY <1>2
  <2>. HIDE DEF Good, M
  <2>. QED  BY <2>1, <2>2
<1>4. Elements(x) = {x[k] : k \in 1 .. Len(x)} /\ Elements(y) = {y[k] : k \in 1 .. Len(y)}
  BY DEF Elements
<1>. QED  BY <1>0, <1>1, <1>3, <1>4 DEF IsMerge

(* A part is cut in two parts that are smaller, and two or three elements  *)
(* into all but the last and the last.                                     *)
HalfLength(f, k) == IF k <= 2 THEN 1 ELSE 2 * f[(k + 1) \div 2]

LEMMA Halves ==
  ASSUME NEW m \in Nat, NEW k \in 2 .. m
  PROVE  RunLengths(m)[k] \in 1 .. k - 1 /\ (k <= 3 => RunLengths(m)[k] = k - 1)
<1>. DEFINE D == 1 .. m
            B == [q \in [D -> Nat] \X D |-> HalfLength(q[1], q[2])]
            rank == [at \in D |-> at]
            F(f) == [at \in D |-> HalfLength(f, at)]
            F0 == CHOOSE f : f = F(f)
<1>0. \A at \in D : at > 2 => /\ (at + 1) \div 2 \in D /\ (at + 1) \div 2 < at /\ (at + 1) \div 2 >= 2
                            /\ 2 * ((at + 1) \div 2) <= at + 1
  OBVIOUS
<1>1. \E f : f = F(f)
  <2>1. rank \in [D -> 0 .. m] /\ 0 \in Nat
    OBVIOUS
  <2>2. B \in [[D -> Nat] \X D -> Nat]
    <3>1. ASSUME NEW f \in [D -> Nat], NEW at \in D PROVE HalfLength(f, at) \in Nat
      BY <1>0 DEF HalfLength
    <3>. QED  BY <3>1
  <2>3. Descends(D, Nat, rank, B)
    <3>. SUFFICES ASSUME NEW f \in [D -> Nat], NEW g \in [D -> Nat], NEW at \in D,
                         \A q \in D : rank[q] < rank[at] => f[q] = g[q]
                  PROVE  B[<<f, at>>] = B[<<g, at>>]
      BY DEF Descends
    <3>1. B[<<f, at>>] = HalfLength(f, at) /\ B[<<g, at>>] = HalfLength(g, at)
      OBVIOUS
    <3>2. at > 2 => f[(at + 1) \div 2] = g[(at + 1) \div 2]
      BY <1>0
    <3>. HIDE DEF B
    <3>. QED  BY <3>1, <3>2 DEF HalfLength
  <2>4. PICK f \in [D -> Nat] : \A at \in D : f[at] = B[<<f, at>>]
    <3>. HIDE DEF D, rank, B
    <3>1. Recurs(D, Nat, B)
      BY <2>1, <2>2, <2>3, Recursion
    <3>. QED  BY <3>1 DEF Recurs
  <2>5. \A at \in D : f[at] = HalfLength(f, at)
    BY <2>4
  <2>6. f = F(f)
    BY <2>5
  <2>. QED  BY <2>6
<1>2. F0 = F(F0)
  <2>. HIDE DEF F
  <2>. QED  BY <1>1
<1>3. RunLengths(m) = F0
  BY DEF RunLengths, HalfLength
<1>. HIDE DEF F0
<1>4. \A at \in D : F0[at] = HalfLength(F0, at)
  BY <1>2
<1>. DEFINE Good(at) == F0[at] \in 1 .. at - 1 /\ (at <= 3 => F0[at] = at - 1)
            Bad == {at \in 2 .. m : ~Good(at)}
<1>5. Bad = {}
  <2>. SUFFICES ASSUME Bad # {} PROVE FALSE
    OBVIOUS
  <2>1. PICK at \in Bad : \A j \in Bad : at <= j
    <3>1. Bad \in SUBSET Nat
      OBVIOUS
    <3>. HIDE DEF Bad
    <3>. QED  BY <3>1, LeastNumber
  <2>2. at \in 2 .. m /\ ~Good(at)
    OBVIOUS
  <2>3. CASE at = 2
    <3>1. F0[2] = 1
      BY <1>4, <2>2, <2>3 DEF HalfLength
    <3>. QED  BY <2>2, <2>3, <3>1
  <2>4. CASE at # 2
    <3>. DEFINE h == (at + 1) \div 2
    <3>1. h \in D /\ h < at /\ h >= 2 /\ 2 * h <= at + 1 /\ h \in Nat
      BY <1>0, <2>2, <2>4
    <3>2. F0[at] = 2 * F0[h]
      BY <1>4, <2>2, <2>4 DEF HalfLength
    <3>3. h \notin Bad
      <4>. HIDE DEF Bad, h
      <4>. QED  BY <2>1, <2>2, <3>1
    <3>4. Good(h)
      <4>. HIDE DEF Good, h
      <4>. QED  BY <3>1, <3>3
    <3>5. at = 3 => h = 2
      BY <2>2
    <3>. HIDE DEF h
    <3>. QED  BY <2>2, <2>4, <3>1, <3>2, <3>4, <3>5
  <2>. QED  BY <2>3, <2>4
<1>6. Good(k)
  <2>. HIDE DEF Good
  <2>. QED  BY <1>5
<1>. QED  BY <1>3, <1>6

(* Where a part is cut. *)
Cut(s, a, b) == a + RunLengths(Len(s))[b - a + 1]

(* One round of the sort. *)
Part(s, f, a, b) ==
  IF b <= a THEN <<s[a]>> ELSE Merged(f[<<a, Cut(s, a, b) - 1>>], f[<<Cut(s, a, b), b>>])

LEMMA Cuts ==
  ASSUME NEW T, NEW s \in Seq(T), NEW a \in 1 .. Len(s), NEW b \in 1 .. Len(s), a < b
  PROVE  Cut(s, a, b) \in a + 1 .. b /\ (b <= a + 2 => Cut(s, a, b) = b)
<1>1. Len(s) \in Nat /\ b - a + 1 \in 2 .. Len(s)
  OBVIOUS
<1>2. /\ RunLengths(Len(s))[b - a + 1] \in 1 .. b - a + 1 - 1
      /\ b - a + 1 <= 3 => RunLengths(Len(s))[b - a + 1] = b - a + 1 - 1
  BY <1>1, Halves
<1>. DEFINE r == RunLengths(Len(s))[b - a + 1]
<1>3. r \in 1 .. b - a + 1 - 1 /\ (b - a + 1 <= 3 => r = b - a + 1 - 1) /\ Cut(s, a, b) = a + r
  BY <1>2 DEF Cut
<1>. HIDE DEF r
<1>. QED  BY <1>1, <1>3

LEMMA SortParts ==
  ASSUME NEW T, NEW s \in Seq(T), s # <<>>
  PROVE  \E f : /\ MergeSort(s) = f[<<1, Len(s)>>]
                /\ \A a, b \in 1 .. Len(s) : f[<<a, b>>] = Part(s, f, a, b)
<1>. DEFINE D == (DOMAIN s) \X (DOMAIN s)
            V == Seq(T)
            M == Len(s)
            rank == [at \in D |-> IF at[2] <= at[1] THEN 0 ELSE at[2] - at[1]]
            B == [q \in [D -> V] \X D |-> Part(s, q[1], q[2][1], q[2][2])]
            F(f) == [at \in D |-> Part(s, f, at[1], at[2])]
            F0 == CHOOSE f : f = F(f)
<1>0. Len(s) \in Nat /\ DOMAIN s = 1 .. Len(s)
  OBVIOUS
<1>1. \E f : f = F(f)
  <2>1. <<>> \in V /\ M \in Nat
    BY <1>0
  <2>2. rank \in [D -> 0 .. M]
    BY <1>0
  <2>d. ASSUME NEW a \in 1 .. Len(s), NEW b \in 1 .. Len(s), a < b
        PROVE  /\ Cut(s, a, b) \in 1 .. Len(s) /\ Cut(s, a, b) - 1 \in 1 .. Len(s)
               /\ <<a, Cut(s, a, b) - 1>> \in D /\ <<Cut(s, a, b), b>> \in D
    <3>1. Cut(s, a, b) \in a + 1 .. b
      BY <2>d, Cuts
    <3>2. Cut(s, a, b) \in 1 .. Len(s) /\ Cut(s, a, b) - 1 \in 1 .. Len(s)
      BY <1>0, <3>1
    <3>. QED  BY <1>0, <3>2
  <2>3. ASSUME NEW f \in [D -> V], NEW a \in 1 .. Len(s), NEW b \in 1 .. Len(s)
        PROVE  Part(s, f, a, b) \in V
    <3>1. CASE b <= a
      BY <1>0, <3>1 DEF Part
    <3>2. CASE a < b
      <4>1. f[<<a, Cut(s, a, b) - 1>>] \in Seq(T) /\ f[<<Cut(s, a, b), b>>] \in Seq(T)
        BY <2>d, <3>2
      <4>2. Merged(f[<<a, Cut(s, a, b) - 1>>], f[<<Cut(s, a, b), b>>]) \in Seq(T)
        BY <4>1, Merges
      <4>3. Part(s, f, a, b) = Merged(f[<<a, Cut(s, a, b) - 1>>], f[<<Cut(s, a, b), b>>])
        BY <1>0, <3>2 DEF Part
      <4>. QED  BY <4>2, <4>3
    <3>. QED  BY <1>0, <3>1, <3>2
  <2>4. B \in [[D -> V] \X D -> V]
    BY <1>0, <2>3
  <2>5. Descends(D, V, rank, B)
    <3>. SUFFICES ASSUME NEW f \in [D -> V], NEW g \in [D -> V], NEW at \in D,
                         \A q \in D : rank[q] < rank[at] => f[q] = g[q]
                  PROVE  B[<<f, at>>] = B[<<g, at>>]
      BY DEF Descends
    <3>. DEFINE a == at[1]
                b == at[2]
    <3>1. a \in 1 .. Len(s) /\ b \in 1 .. Len(s) /\ at = <<a, b>>
      BY <1>0
    <3>2. B[<<f, at>>] = Part(s, f, a, b) /\ B[<<g, at>>] = Part(s, g, a, b)
      OBVIOUS
    <3>3. CASE b <= a
      <4>. HIDE DEF B, a, b
      <4>. QED  BY <3>2, <3>3 DEF Part
    <3>4. CASE a < b
      <4>. DEFINE c == Cut(s, a, b)
      <4>1. c \in a + 1 .. b /\ <<a, c - 1>> \in D /\ <<c, b>> \in D
        BY <2>d, <3>1, <3>4, Cuts
      <4>. HIDE DEF c
      <4>2. /\ rank[at] = b - a
            /\ rank[<<a, c - 1>>] = IF c - 1 <= a THEN 0 ELSE c - 1 - a
            /\ rank[<<c, b>>] = IF b <= c THEN 0 ELSE b - c
        BY <1>0, <3>1, <3>4, <4>1
      <4>3. f[<<a, c - 1>>] = g[<<a, c - 1>>] /\ f[<<c, b>>] = g[<<c, b>>]
        <5>. HIDE DEF rank, a, b
        <5>1. a \in Int /\ b \in Int /\ c \in Int /\ a < c /\ c <= b
          BY <1>0, <3>1, <4>1
        <5>2. rank[<<a, c - 1>>] < rank[at]
          BY <4>2, <5>1
        <5>3. rank[<<c, b>>] < rank[at]
          BY <4>2, <5>1
        <5>. QED  BY <4>1, <5>2, <5>3
      <4>. HIDE DEF B, a, b
      <4>. QED  BY <1>0, <3>1, <3>2, <3>4, <4>3 DEF Part, c
    <3>. QED  BY <1>0, <3>1, <3>3, <3>4
  <2>6. PICK f \in [D -> V] : \A at \in D : f[at] = B[<<f, at>>]
    <3>. HIDE DEF D, V, M, rank, B
    <3>1. Recurs(D, V, B)
      BY <2>1, <2>2, <2>4, <2>5, Recursion
    <3>. QED  BY <3>1 DEF Recurs
  <2>7. \A at \in D : f[at] = Part(s, f, at[1], at[2])
    BY <2>6
  <2>8. f = F(f)
    BY <2>7
  <2>. QED  BY <2>8
<1>2. F0 = F(F0)
  <2>. HIDE DEF F
  <2>. QED  BY <1>1
<1>3. MergeSort(s) = F0[<<1, Len(s)>>]
  BY Zenon DEF MergeSort, Part, Cut
<1>. HIDE DEF F0
<1>4. \A a, b \in 1 .. Len(s) : F0[<<a, b>>] = Part(s, F0, a, b)
  BY <1>0, <1>2
<1>. QED  BY <1>3, <1>4

(* What a part of the sort leaves. *)
InOrder(T, s, a, b, z) ==
  /\ z \in Seq(T)
  /\ Len(z) = b + 1 - a
  /\ Elements(z) = {s[k] : k \in a .. b}
  /\ b <= a + 2 \/ (\A u, v \in Elements(s) : Comparable(u, v)) => OuterFirst(z)

LEMMA SortPart ==
  ASSUME NEW T, NEW s \in Seq(T), NEW f,
         NEW a \in 1 .. Len(s), NEW b \in 1 .. Len(s), a <= b,
         a < b => /\ InOrder(T, s, a, Cut(s, a, b) - 1, f[<<a, Cut(s, a, b) - 1>>])
                  /\ InOrder(T, s, Cut(s, a, b), b, f[<<Cut(s, a, b), b>>])
  PROVE  InOrder(T, s, a, b, Part(s, f, a, b))
<1>0. a \in Int /\ b \in Int /\ Len(s) \in Nat
  OBVIOUS
<1>1. CASE a = b
  <2>1. Part(s, f, a, b) = <<s[a]>> /\ s[a] \in T
    BY <1>0, <1>1 DEF Part
  <2>2. a .. b = {a} /\ {s[k] : k \in a .. b} = {s[a]}
    <3>1. a .. b = {a}
      BY <1>0, <1>1
    <3>. QED  BY <3>1
  <2>3. <<s[a]>> \in Seq(T) /\ Len(<<s[a]>>) = 1 /\ Elements(<<s[a]>>) = {s[a]}
    BY <2>1 DEF Elements
  <2>4. OuterFirst(<<s[a]>>)
    BY DEF OuterFirst
  <2>. QED  BY <1>0, <1>1, <2>1, <2>2, <2>3, <2>4 DEF InOrder
<1>2. CASE a < b
  <2>. DEFINE c == Cut(s, a, b)
              x == f[<<a, c - 1>>]
              y == f[<<c, b>>]
              z == Merged(x, y)
  <2>1. c \in a + 1 .. b /\ (b <= a + 2 => c = b)
    BY <1>2, Cuts
  <2>2. InOrder(T, s, a, c - 1, x) /\ InOrder(T, s, c, b, y)
    BY <1>2
  <2>3. Part(s, f, a, b) = z
    BY <1>0, <1>2 DEF Part
  <2>. HIDE DEF c, x, y
  <2>4. x \in Seq(T) /\ y \in Seq(T) /\ Len(x) = c - a /\ Len(y) = b + 1 - c
    BY <1>0, <2>1, <2>2 DEF InOrder
  <2>5. /\ z \in Seq(T)
        /\ Len(z) = Len(x) + Len(y)
        /\ Elements(z) = Elements(x) \cup Elements(y)
        /\ OuterFirst(x) /\ OuterFirst(y) /\ Easy(x, y) => OuterFirst(z)
    BY <2>4, Merges
  <2>. HIDE DEF z
  <2>6. a .. b = (a .. c - 1) \cup (c .. b)
    BY <1>0, <2>1
  <2>7. Elements(z) = {s[k] : k \in a .. b}
    BY <2>2, <2>5, <2>6 DEF InOrder
  <2>8. Elements(x) \subseteq Elements(s) /\ Elements(y) \subseteq Elements(s)
    <3>1. \A k \in a .. b : k \in 1 .. Len(s)
      BY <1>0
    <3>2. \A k \in a .. b : s[k] \in Elements(s)
      BY <3>1, At
    <3>. QED  BY <2>2, <2>6, <3>2 DEF InOrder
  <2>9. ASSUME b <= a + 2 \/ (\A u, v \in Elements(s) : Comparable(u, v))
        PROVE  OuterFirst(z)
    <3>1. OuterFirst(x) /\ OuterFirst(y)
      BY <1>0, <2>1, <2>2, <2>9 DEF InOrder
    <3>2. CASE b <= a + 2
      BY <1>0, <2>1, <2>4, <2>5, <3>1, <3>2 DEF Easy
    <3>3. CASE \A u, v \in Elements(s) : Comparable(u, v)
      <4>1. \A u, v \in Elements(x) \cup Elements(y) : Comparable(u, v)
        BY <2>8, <3>3
      <4>. QED  BY <2>5, <3>1, <4>1 DEF Easy
    <3>. QED  BY <2>9, <3>2, <3>3
  <2>10. Len(z) = b + 1 - a
    BY <1>0, <2>1, <2>4, <2>5
  <2>. QED  BY <2>3, <2>5, <2>7, <2>9, <2>10 DEF InOrder
<1>. QED  BY <1>0, <1>1, <1>2

(* What std::list::sort makes of a list. *)
LEMMA Sorts ==
  ASSUME NEW T, NEW s \in Seq(T)
  PROVE  /\ MergeSort(s) \in Seq(T)
         /\ Len(MergeSort(s)) = Len(s)
         /\ Elements(MergeSort(s)) = Elements(s)
         /\ \/ Len(s) <= 3
            \/ \A u, v \in Elements(s) : Comparable(u, v)
            => OuterFirst(MergeSort(s))
<1>0. Len(s) \in Nat
  OBVIOUS
<1>1. CASE s = <<>>
  <2>1. MergeSort(s) = s
    BY <1>1 DEF MergeSort
  <2>2. OuterFirst(s)
    BY <1>1 DEF OuterFirst
  <2>. QED  BY <2>1, <2>2
<1>2. CASE s # <<>>
  <2>0. Len(s) >= 1
    BY <1>2
  <2>1. PICK f : /\ MergeSort(s) = f[<<1, Len(s)>>]
                 /\ \A a, b \in 1 .. Len(s) : f[<<a, b>>] = Part(s, f, a, b)
    BY <1>2, SortParts
  <2>. DEFINE Good(a, b) == InOrder(T, s, a, b, f[<<a, b>>])
              Bad == {m \in Nat : \E a, b \in 1 .. Len(s) : m = b - a /\ ~Good(a, b)}
  <2>2. Bad = {}
    <3>. SUFFICES ASSUME Bad # {} PROVE FALSE
      OBVIOUS
    <3>1. PICK m \in Bad : \A k \in Bad : m <= k
      <4>1. Bad \in SUBSET Nat
        OBVIOUS
      <4>. HIDE DEF Bad
      <4>. QED  BY <4>1, LeastNumber
    <3>2. PICK a \in 1 .. Len(s), b \in 1 .. Len(s) : m \in Nat /\ m = b - a /\ ~Good(a, b)
      OBVIOUS
    <3>3. \A i1, j \in 1 .. Len(s) : j - i1 \in Nat /\ j - i1 < m => Good(i1, j)
      <4>. SUFFICES ASSUME NEW i1 \in 1 .. Len(s), NEW j \in 1 .. Len(s),
                           j - i1 \in Nat, j - i1 < m, ~Good(i1, j)
                    PROVE  FALSE
        OBVIOUS
      <4>1. j - i1 \in Bad
        <5>. HIDE DEF Good
        <5>. QED  OBVIOUS
      <4>. HIDE DEF Bad
      <4>. QED  BY <3>1, <3>2, <4>1
    <3>4. a <= b
      BY <1>0, <3>2
    <3>5. ASSUME a < b PROVE Good(a, Cut(s, a, b) - 1) /\ Good(Cut(s, a, b), b)
      <4>. DEFINE c == Cut(s, a, b)
      <4>1. c \in a + 1 .. b
        BY <3>5, Cuts
      <4>. HIDE DEF c
      <4>2. c \in 1 .. Len(s) /\ c - 1 \in 1 .. Len(s)
            /\ c - 1 - a \in Nat /\ b - c \in Nat /\ c - 1 - a < m /\ b - c < m
        BY <1>0, <3>2, <4>1
      <4>. HIDE DEF Good
      <4>3. Good(a, c - 1) /\ Good(c, b)
        BY <3>3, <4>2
      <4>. QED  BY <4>3 DEF c
    <3>6. Good(a, b)
      BY <2>1, <3>4, <3>5, SortPart
    <3>. QED  BY <3>2, <3>6
  <2>3. Good(1, Len(s))
    <3>1. 1 \in 1 .. Len(s) /\ Len(s) \in 1 .. Len(s) /\ Len(s) - 1 \in Nat
      BY <1>0, <2>0
    <3>. HIDE DEF Good
    <3>. QED  BY <2>2, <3>1
  <2>4. Elements(s) = {s[k] : k \in 1 .. Len(s)}
    BY DEF Elements
  <2>. QED  BY <1>0, <2>1, <2>3, <2>4 DEF InOrder
<1>. QED  BY <1>1, <1>2

-----------------------------------------------------------------------------
(* The natural loop of an edge does not change, nor what is a loop. *)
LEMMA SameLoops ==
  ASSUME UNCHANGED succ
  PROVE  TrueLoops' = TrueLoops
<1>. DEFINE Loop == [header : Node, tail : Node, nodes : SUBSET Node]
<1>1. \A l \in Loop : /\ Edge(l.tail, l.header)' <=> Edge(l.tail, l.header)
                      /\ Dominates(l.header, l.tail)' <=> Dominates(l.header, l.tail)
                      /\ NaturalLoop(l.header, l.tail)' = NaturalLoop(l.header, l.tail)
  BY SameGraph
<1>. HIDE DEF Loop
<1>2. TrueLoops = {l \in Loop : /\ Edge(l.tail, l.header)
                                /\ Dominates(l.header, l.tail)
                                /\ l.nodes = NaturalLoop(l.header, l.tail)}
  BY Zenon DEF TrueLoops, Loop
<1>. QED  BY <1>1 DEF TrueLoops, Loop

(* The sort takes no loop away and makes none. *)
LEMMA SortKeeps ==
  ASSUME NEW T, NEW s \in Seq(T), NEW z, z = MergeSort(s)
  PROVE  /\ Reversed(z) \in Seq(T) /\ Elements(Reversed(z)) = Elements(s)
         /\ DOMAIN Reversed(z) = 1 .. Len(s)
         /\ \A k \in 1 .. Len(s) : Len(s) + 1 - k \in 1 .. Len(s) /\ Reversed(z)[k] = z[Len(s) + 1 - k]
<1>1. z \in Seq(T) /\ Len(z) = Len(s) /\ Elements(z) = Elements(s)
  BY Sorts
<1>3. DOMAIN z = 1 .. Len(z) /\ Len(z) \in Nat /\ \A k \in 1 .. Len(z) : z[k] \in T
  BY <1>1
<1>4. DOMAIN Reversed(z) = 1 .. Len(z) /\ \A k \in 1 .. Len(z) : Reversed(z)[k] = z[Len(z) + 1 - k]
  BY <1>3 DEF Reversed
<1>5. \A k \in 1 .. Len(z) : Len(z) + 1 - k \in 1 .. Len(z) /\ Len(z) + 1 - (Len(z) + 1 - k) = k
  BY <1>3
<1>6. Elements(Reversed(z)) = Elements(z)
  <2>1. ASSUME NEW k \in 1 .. Len(z)
        PROVE  Reversed(z)[k] \in Elements(z) /\ z[k] \in Elements(Reversed(z))
    <3>. DEFINE j == Len(z) + 1 - k
    <3>1. j \in 1 .. Len(z) /\ Len(z) + 1 - j = k
      BY <1>5
    <3>2. Reversed(z)[k] = z[j]
      BY <1>4
    <3>3. Reversed(z)[j] = z[k]
      BY <1>4, <3>1
    <3>. HIDE DEF j
    <3>. QED  BY <1>3, <1>4, <3>1, <3>2, <3>3 DEF Elements
  <2>. QED  BY <1>3, <1>4, <2>1 DEF Elements
<1>8. \A k \in 1 .. Len(z) : Reversed(z)[k] \in T
  BY <1>3, <1>4, <1>5
<1>9. Reversed(z) = [k \in 1 .. Len(z) |-> Reversed(z)[k]]
  BY <1>3 DEF Reversed
<1>10. Reversed(z) \in Seq(T)
  BY <1>3, <1>8, <1>9
<1>. QED  BY <1>1, <1>4, <1>5, <1>6, <1>10

(* What LoopFound adds is the natural loop of the edge it was called for. *)
LEMMA FoundIsTrue ==
  ASSUME IInv, EdgeInv, LoopFound
  PROVE  [header |-> header, tail |-> tail, nodes |-> nodes] \in TrueLoops
<1>1. phase = "pop" /\ workList = <<>>
  BY DEF LoopFound
<1>2. nodes = NaturalLoop(header, tail)
  BY <1>1, IsNatural DEF LoopIsNatural
<1>3. header \in Node /\ tail \in Node /\ nodes \in SUBSET Node
  BY DEF IInv, TypeOK
<1>4. Edge(tail, header) /\ Dominates(header, tail)
  BY <1>1 DEF EdgeInv, Gathering, Edge
<1>. QED  BY <1>2, <1>3, <1>4 DEF TrueLoops

LEMMA TrueStep ==
  ASSUME IInv, EdgeInv, TrueInv, [Next]_vars
  PROVE  TrueInv'
<1>1. UNCHANGED succ
  BY DEF Next, vars, NextNode, ForwardEdge, BackEdge, Pop, AddPredecessor,
         SkipPredecessor, EndPredecessors, LoopFound, SortLoops
<1>2. TrueLoops' = TrueLoops
  BY <1>1, SameLoops
<1>3. CASE LoopFound
  <2>1. loops' = Append(loops, [header |-> header, tail |-> tail, nodes |-> nodes])
    BY <1>3 DEF LoopFound
  <2>2. loops' \in Seq(TrueLoops)
    BY <1>3, <2>1, FoundIsTrue DEF TrueInv
  <2>. QED  BY <1>2, <2>2 DEF TrueInv
<1>4. CASE SortLoops
  <2>1. PICK z : z = MergeSort(loops) /\ loops' = Reversed(z)
    BY <1>4 DEF SortLoops
  <2>2. loops' \in Seq(TrueLoops)
    BY <2>1, SortKeeps DEF TrueInv
  <2>. QED  BY <1>2, <2>2 DEF TrueInv
<1>5. CASE UNCHANGED loops
  BY <1>2, <1>5 DEF TrueInv
<1>. QED
  BY <1>3, <1>4, <1>5 DEF Next, vars, NextNode, ForwardEdge, BackEdge, Pop,
     AddPredecessor, SkipPredecessor, EndPredecessors

LEMMA EdgeStep ==
  ASSUME TypeOK, EdgeInv, [Next]_vars
  PROVE  EdgeInv'
<1>1. UNCHANGED succ
  BY DEF Next, vars, NextNode, ForwardEdge, BackEdge, Pop, AddPredecessor,
         SkipPredecessor, EndPredecessors, LoopFound, SortLoops
<1>2. \A d, m : Dominates(d, m)' <=> Dominates(d, m)
  BY <1>1, SameGraph
<1>3. CASE NextNode
  BY <1>3 DEF NextNode, EdgeInv, Gathering, Node
<1>4. CASE ForwardEdge
  BY <1>4 DEF ForwardEdge, AtEdge, EdgeInv, Gathering
<1>5. CASE BackEdge
  BY <1>1, <1>2, <1>5 DEF BackEdge, AtEdge, EdgeInv, Gathering
<1>6. CASE Pop \/ AddPredecessor \/ SkipPredecessor \/ EndPredecessors \/ UNCHANGED vars
  <2>1. UNCHANGED <<succ, n, i, header, tail>> /\ (Gathering' => Gathering)
        /\ (phase' = "done" => phase = "done")
    BY <1>6 DEF Pop, AddPredecessor, SkipPredecessor, EndPredecessors, vars, building, Gathering
  <2>. QED  BY <1>2, <2>1 DEF EdgeInv
<1>7. CASE LoopFound
  BY <1>7 DEF LoopFound, EdgeInv, Gathering
<1>8. CASE SortLoops
  BY <1>8 DEF SortLoops, EdgeInv, Gathering
<1>. QED  BY <1>3, <1>4, <1>5, <1>6, <1>7, <1>8 DEF Next

(* The loops stay, in whatever order. *)
LEMMA LoopsStay ==
  ASSUME TrueInv, [Next]_vars
  PROVE  Elements(loops) \subseteq Elements(loops')
<1>1. CASE LoopFound
  <2>1. PICK l : loops' = Append(loops, l)
    BY <1>1 DEF LoopFound
  <2>2. loops \in Seq(TrueLoops \cup {l})
    BY DEF TrueInv
  <2>3. DOMAIN loops \subseteq DOMAIN loops' /\ \A k \in DOMAIN loops : loops'[k] = loops[k]
    BY <2>1, <2>2
  <2>. QED  BY <2>3 DEF Elements
<1>2. CASE SortLoops
  <2>1. PICK z : z = MergeSort(loops) /\ loops' = Reversed(z)
    BY <1>2 DEF SortLoops
  <2>. QED  BY <2>1, SortKeeps DEF TrueInv
<1>3. CASE UNCHANGED loops
  BY <1>3
<1>. QED
  BY <1>1, <1>2, <1>3 DEF Next, vars, NextNode, ForwardEdge, BackEdge, Pop,
     AddPredecessor, SkipPredecessor, EndPredecessors

LEMMA FoundStep ==
  ASSUME IInv, EdgeInv, TrueInv, FoundInv, [Next]_vars
  PROVE  FoundInv'
<1>1. UNCHANGED succ
  BY DEF Next, vars, NextNode, ForwardEdge, BackEdge, Pop, AddPredecessor,
         SkipPredecessor, EndPredecessors, LoopFound, SortLoops
<1>2. \A h, t : NaturalLoop(h, t)' = NaturalLoop(h, t)
  BY <1>1, SameGraph
<1>. SUFFICES ASSUME NEW a \in Node, NEW k \in DOMAIN succ[a],
                     a # Entry, Passed(a, k)', Dominates(succ[a][k], a)
              PROVE  \E l \in Elements(loops') : l.nodes = NaturalLoop(succ[a][k], a)
  BY <1>1, <1>2, SameGraph DEF FoundInv, Has, Elements
<1>4. CASE Passed(a, k)
  <2>1. Has(succ[a][k], a)
    BY <1>4 DEF FoundInv
  <2>. QED  BY <2>1, LoopsStay DEF Has
<1>5. TypeOK
  BY DEF IInv
<1>6. k \in Nat \ {0} /\ a \in Nat /\ n \in Nat /\ i \in Nat \ {0}
  BY <1>5, Successors, NAssumption DEF TypeOK, Node
<1>7. CASE NextNode /\ ~Passed(a, k)
  <2>1. a = n /\ ~(k < i) /\ i \notin DOMAIN succ[n]
    BY <1>6, <1>7 DEF NextNode, Passed
  <2>2. PICK len \in 0 .. MaxSuccessors : succ[n] \in [1 .. len -> Node]
    <3>1. succ[n] \in SuccessorLists
      BY <1>5, <2>1 DEF TypeOK
    <3>. QED  BY <3>1, Zenon DEF SuccessorLists
  <2>3. DOMAIN succ[n] = 1 .. len /\ len \in Nat
    BY <2>2, MaxSuccessorsAssumption
  <2>. QED  BY <1>6, <2>1, <2>3
<1>8. CASE ForwardEdge /\ ~Passed(a, k)
  <2>1. a = n /\ k = i
    BY <1>6, <1>8 DEF ForwardEdge, Passed
  <2>. QED  BY <1>8, <2>1 DEF ForwardEdge
<1>9. CASE LoopFound /\ ~Passed(a, k)
  <2>1. a = n /\ k = i
    BY <1>6, <1>9 DEF LoopFound, Passed
  <2>2. header = succ[a][k] /\ tail = a
    BY <1>9, <2>1 DEF EdgeInv, LoopFound, Gathering
  <2>. DEFINE l == [header |-> header, tail |-> tail, nodes |-> nodes]
  <2>3. l \in TrueLoops /\ l.nodes = NaturalLoop(header, tail)
    BY <1>9, FoundIsTrue DEF TrueLoops
  <2>4. loops' = Append(loops, l) /\ loops \in Seq(TrueLoops)
    BY <1>9 DEF LoopFound, TrueInv
  <2>. HIDE DEF l
  <2>5. Len(loops) + 1 \in DOMAIN loops' /\ loops'[Len(loops) + 1] = l
    BY <2>3, <2>4
  <2>6. l \in Elements(loops')
    BY <2>5 DEF Elements
  <2>. QED  BY <2>2, <2>3, <2>6
<1>10. CASE UNCHANGED <<n, i>>
  BY <1>4, <1>10 DEF Passed
<1>. QED
  BY <1>4, <1>7, <1>8, <1>9, <1>10 DEF Next, vars, BackEdge, Pop, AddPredecessor,
     SkipPredecessor, EndPredecessors, SortLoops

(* The three parts together are inductive. *)
LEMMA InductiveLoops == Spec => [](IInv /\ EdgeInv /\ TrueInv /\ FoundInv)
<1>1. Init => EdgeInv /\ TrueInv /\ FoundInv
  <2>. SUFFICES ASSUME Init PROVE EdgeInv /\ TrueInv /\ FoundInv
    OBVIOUS
  <2>1. EdgeInv /\ TrueInv
    BY DEF Init, EdgeInv, TrueInv, Gathering
  <2>2. TypeOK
    BY InitTypes
  <2>3. ASSUME NEW a \in Node, NEW k \in DOMAIN succ[a], Passed(a, k) PROVE a = Entry
    <3>1. k \in Nat \ {0} /\ a \in Nat \ {0}
      BY <2>2, Successors, NAssumption DEF Node
    <3>. QED  BY <2>3, <3>1 DEF Init, Passed, Entry
  <2>. QED  BY <2>1, <2>3 DEF FoundInv
<1>2. IInv /\ EdgeInv /\ TrueInv /\ FoundInv /\ [Next]_vars => EdgeInv' /\ TrueInv' /\ FoundInv'
  BY EdgeStep, TrueStep, FoundStep DEF IInv
<1>. QED  BY <1>1, <1>2, Inductive, PTL DEF Spec

-----------------------------------------------------------------------------
(***************************************************************************)
(* Dominance in a graph all of whose nodes can be reached.                 *)
(***************************************************************************)
Without(d) == {m \in Node : Avoidable(d, m)}

(* What can be come to without d is closed under edges to others than d. *)
LEMMA WithoutClosed ==
  ASSUME TypeOK, NEW d \in Node
  PROVE  /\ d # Entry => Entry \in Without(d)
         /\ \A a \in Without(d), b \in Node : Edge(a, b) /\ b # d => b \in Without(d)
<1>1. Entry \in Node
  BY NAssumption DEF Entry, Node
<1>2. d # Entry => Entry \in Without(d)
  BY <1>1 DEF Without, Avoidable, ReachesAvoiding
<1>3. ASSUME NEW a \in Without(d), NEW b \in Node, Edge(a, b), b # d PROVE Avoidable(d, b)
  <2>. SUFFICES ASSUME NEW R \in SUBSET Node, ReachesAvoiding(d, R) PROVE b \in R
    BY DEF Avoidable
  <2>1. a \in R
    BY DEF Without, Avoidable
  <2>. QED  BY <1>3, <2>1 DEF Edge, ReachesAvoiding
<1>. QED  BY <1>2, <1>3 DEF Without

(* A set with the entry that no edge leaves is the whole list. *)
LEMMA Everywhere ==
  ASSUME TypeOK, AllReachable, NEW S \in SUBSET Node, Entry \in S,
         \A a \in S, b \in Node : Edge(a, b) => b \in S
  PROVE  S = Node
<1>1. \A a \in S : \A k \in DOMAIN succ[a] : succ[a][k] \in S
  BY Successors DEF Edge
<1>. QED  BY <1>1 DEF AllReachable, Reachable

(* Two nodes that dominate a third: one dominates the other. *)
LEMMA DominatorsInOrder ==
  ASSUME TypeOK, AllReachable, NEW h \in Node, NEW g \in Node, NEW m \in Node,
         Dominates(h, m), Dominates(g, m)
  PROVE  Dominates(h, g) \/ Dominates(g, h)
<1>. SUFFICES ASSUME ~Dominates(h, g), ~Dominates(g, h) PROVE FALSE
  OBVIOUS
<1>. DEFINE S == Without(h) \cup Without(g)
<1>1. g \in Without(h) /\ h \in Without(g) /\ h # g
  BY DominatesItself DEF Without, Dominates
<1>2. Entry \in S
  BY <1>1, WithoutClosed
<1>3. \A a \in S, b \in Node : Edge(a, b) => b \in S
  BY <1>1, WithoutClosed
<1>4. S \in SUBSET Node
  BY DEF Without
<1>. HIDE DEF S
<1>5. S = Node
  BY <1>2, <1>3, <1>4, Everywhere
<1>6. m \notin S
  BY DEF S, Without, Dominates
<1>. QED  BY <1>5, <1>6

(* Two nodes do not dominate each other. *)
LEMMA DominanceIsAntisymmetric ==
  ASSUME TypeOK, AllReachable, NEW h \in Node, NEW g \in Node,
         Dominates(h, g), Dominates(g, h)
  PROVE  h = g
<1>. SUFFICES ASSUME h # g PROVE FALSE
  OBVIOUS
<1>. DEFINE S == Without(h) \cap Without(g)
<1>1. h \notin Without(h) /\ h \notin Without(g) /\ g \notin Without(h) /\ g \notin Without(g)
  BY DominatesItself DEF Without, Dominates
<1>2. Entry \in S
  BY <1>1, WithoutClosed
<1>3. \A a \in S, b \in Node : Edge(a, b) => b \in S
  BY <1>1, WithoutClosed
<1>4. S \in SUBSET Node
  BY DEF Without
<1>. HIDE DEF S
<1>5. S = Node
  BY <1>2, <1>3, <1>4, Everywhere
<1>. QED  BY <1>1, <1>5 DEF S

(* The header of a back edge dominates the whole loop. *)
LEMMA HeaderDominates ==
  ASSUME TypeOK, NEW h \in Node, NEW t \in Node, Dominates(h, t),
         NEW m \in NaturalLoop(h, t)
  PROVE  Dominates(h, m)
<1>. DEFINE D == {x \in Node : Dominates(h, x)}
<1>1. LoopClosed(h, t, D)
  BY DominatesItself, DominatesBackwards DEF LoopClosed
<1>. QED  BY <1>1 DEF NaturalLoop

(***************************************************************************)
(* Of two loops with a common node, the one whose header is dominated is   *)
(* inside the other: what they share goes back to its header, and from     *)
(* there to its tail.                                                      *)
(***************************************************************************)
LEMMA InsideOther ==
  ASSUME TypeOK, AllReachable,
         NEW h \in Node, NEW t \in Node, NEW g \in Node, NEW u \in Node,
         Edge(u, g), Dominates(h, t), Dominates(g, u), h # g, Dominates(h, g),
         NEW m, m \in NaturalLoop(h, t), m \in NaturalLoop(g, u)
  PROVE  NaturalLoop(g, u) \subseteq NaturalLoop(h, t)
<1>. DEFINE B == NaturalLoop(h, t) \cap NaturalLoop(g, u)
<1>0. LoopClosed(h, t, NaturalLoop(h, t)) /\ LoopClosed(g, u, NaturalLoop(g, u))
  BY NaturalLoopClosed
<1>1. h \notin NaturalLoop(g, u)
  BY HeaderDominates, DominanceIsAntisymmetric
<1>2. B \in SUBSET Node
  BY DEF NaturalLoop
<1>3. \A a \in Node, b \in B : Edge(a, b) /\ b # g => a \in B
  BY <1>0, <1>1 DEF LoopClosed
<1>4. g \in NaturalLoop(h, t)
  <2>. SUFFICES ASSUME g \notin NaturalLoop(h, t) PROVE FALSE
    OBVIOUS
  <2>1. Entry \notin B
    <3>. SUFFICES ASSUME Entry \in B PROVE FALSE
      OBVIOUS
    <3>1. Dominates(g, Entry) /\ g # Entry /\ Entry \in Node
      BY HeaderDominates, <1>2
    <3>. QED  BY <3>1, WithoutClosed DEF Without, Dominates
  <2>2. Entry \in Node
    BY NAssumption DEF Entry, Node
  <2>3. \A a \in Node \ B, b \in Node : Edge(a, b) => b \in Node \ B
    BY <1>3
  <2>4. Node \ B = Node
    BY <2>1, <2>2, <2>3, Everywhere
  <2>. QED  BY <1>2, <2>4
<1>5. u \in NaturalLoop(h, t)
  BY <1>0, <1>4 DEF LoopClosed
<1>6. LoopClosed(g, u, B)
  BY <1>0, <1>3, <1>4, <1>5 DEF LoopClosed
<1>. HIDE DEF B
<1>7. NaturalLoop(g, u) \subseteq B
  BY <1>2, <1>6 DEF NaturalLoop
<1>. QED  BY <1>7 DEF B

(* On every graph all of whose nodes can be reached, two of the loops that *)
(* FindLoops returns with different headers are nested or apart.           *)
THEOREM Nest == Spec => []LoopsNest
<1>1. IInv /\ TrueInv => LoopsNest
  <2>. SUFFICES ASSUME TypeOK, TrueInv, AllReachable,
                       NEW k \in DOMAIN loops, NEW l \in DOMAIN loops,
                       loops[k].header # loops[l].header,
                       NEW m, m \in loops[k].nodes, m \in loops[l].nodes
                PROVE  \/ loops[k].nodes \subseteq loops[l].nodes
                       \/ loops[l].nodes \subseteq loops[k].nodes
    BY DEF LoopsNest, IInv
  <2>1. PICK x \in TrueLoops, y \in TrueLoops : x = loops[k] /\ y = loops[l]
    BY DEF TrueInv
  <2>2. /\ x.header \in Node /\ x.tail \in Node /\ y.header \in Node /\ y.tail \in Node
        /\ Edge(x.tail, x.header) /\ Edge(y.tail, y.header)
        /\ Dominates(x.header, x.tail) /\ Dominates(y.header, y.tail)
        /\ x.nodes = NaturalLoop(x.header, x.tail) /\ y.nodes = NaturalLoop(y.header, y.tail)
    BY DEF TrueLoops
  <2>3. m \in Node /\ Dominates(x.header, m) /\ Dominates(y.header, m)
    BY <2>1, <2>2, HeaderDominates DEF NaturalLoop
  <2>4. Dominates(x.header, y.header) \/ Dominates(y.header, x.header)
    BY <2>2, <2>3, DominatorsInOrder
  <2>5. CASE Dominates(x.header, y.header)
    BY <2>1, <2>2, <2>5, InsideOther
  <2>6. CASE Dominates(y.header, x.header)
    BY <2>1, <2>2, <2>6, InsideOther
  <2>. QED  BY <2>4, <2>5, <2>6
<1>. QED  BY <1>1, InductiveLoops, PTL

-----------------------------------------------------------------------------
(***************************************************************************)
(* What can be come to from m along one or more forward edges.             *)
(***************************************************************************)
Forward == {e \in Edges : ~Dominates(e[2], e[1])}

Follows(E, m, R) == {e[2] : e \in {x \in E : x[1] \in R \cup {m}}} \subseteq R

Ahead(m) == {x \in Node : \A R \in SUBSET Node : Follows(Forward, m, R) => x \in R}

(* Ahead is closed under forward edges. *)
LEMMA AheadFollows ==
  ASSUME NEW m \in Node
  PROVE  Follows(Forward, m, Ahead(m))
<1>. SUFFICES ASSUME NEW e \in Forward, e[1] \in Ahead(m) \cup {m} PROVE e[2] \in Ahead(m)
  BY DEF Follows
<1>1. e[2] \in Node
  BY DEF Forward, Edges
<1>2. ASSUME NEW R \in SUBSET Node, Follows(Forward, m, R) PROVE e[2] \in R
  BY <1>2 DEF Follows, Ahead
<1>. QED  BY <1>1, <1>2 DEF Ahead

(***************************************************************************)
(* A node in no natural loop: from what is ahead of it back edges, too,    *)
(* lead to what is ahead of it only, as a path to the tail of one that     *)
(* missed its header would be in the loop.                                 *)
(***************************************************************************)
LEMMA BackEdgesStayAhead ==
  ASSUME NEW m \in Node, NEW a \in Ahead(m) \cup {m}, NEW b \in Node,
         Edge(a, b), m \notin NaturalLoop(b, a)
  PROVE  b \in Ahead(m)
<1>. DEFINE L == NaturalLoop(b, a)
            R == Ahead(m) \ L
<1>0. a \in Node
  BY DEF Ahead
<1>1. LoopClosed(b, a, L)
  BY <1>0, NaturalLoopClosed
<1>2. b # m /\ a # m
  BY <1>1 DEF LoopClosed
<1>. SUFFICES ASSUME b \notin Ahead(m) PROVE FALSE
  OBVIOUS
<1>3. Follows(Forward, m, R)
  <2>. SUFFICES ASSUME NEW e \in Forward, e[1] \in R \cup {m} PROVE e[2] \in R
    BY DEF Follows
  <2>1. e[2] \in Ahead(m)
    BY AheadFollows DEF Follows
  <2>2. e[1] \in Node /\ e[2] \in Node /\ Edge(e[1], e[2])
    BY DEF Forward, Edges
  <2>3. e[1] \notin L /\ e[2] # b
    BY <2>1
  <2>4. e[2] \notin L
    BY <1>1, <2>2, <2>3 DEF LoopClosed
  <2>. QED  BY <2>1, <2>4
<1>4. Ahead(m) \subseteq R
  BY <1>3 DEF Ahead
<1>5. a \in Ahead(m) /\ a \in L
  BY <1>1, <1>2 DEF LoopClosed
<1>. QED  BY <1>4, <1>5

(* When FindLoops returns, every cycle of a reducible graph goes through   *)
(* one of its loops; but for one of the entry alone, which is not looked   *)
(* for.                                                                    *)
THEOREM Cycles == Spec => []CyclesAreInLoops
<1>1. IInv /\ EdgeInv /\ FoundInv => CyclesAreInLoops
  <2>. SUFFICES ASSUME IInv, EdgeInv, FoundInv,
                       phase = "done", ~Edge(Entry, Entry), AllReachable, Reducible,
                       NEW m \in Node, OnCycle(m, Edges),
                       \A k \in DOMAIN loops : m \notin loops[k].nodes
                PROVE  FALSE
    BY DEF CyclesAreInLoops
  <2>1. TypeOK
    BY DEF IInv
  <2>2. m \notin Ahead(m)
    <3>1. ~OnCycle(m, Forward)
      BY DEF Reducible, Forward
    <3>2. PICK R \in SUBSET Node : Follows(Forward, m, R) /\ m \notin R
      BY <3>1 DEF OnCycle, Follows
    <3>. QED  BY <3>2 DEF Ahead
  <2>3. ASSUME NEW a \in Node, NEW b \in Node, Edge(a, b), Dominates(b, a)
        PROVE  m \notin NaturalLoop(b, a)
    <3>1. PICK k \in DOMAIN succ[a] : succ[a][k] = b
      BY <2>3 DEF Edge
    <3>2. a # Entry
      <4>. SUFFICES ASSUME a = Entry PROVE FALSE
        OBVIOUS
      <4>1. b # Entry
        BY <2>3
      <4>. QED  BY <2>1, <2>3, <4>1, WithoutClosed DEF Without, Dominates
    <3>3. Passed(a, k)
      BY NAssumption DEF EdgeInv, Passed, Node
    <3>4. Has(b, a)
      BY <2>3, <3>1, <3>2, <3>3 DEF FoundInv
    <3>. QED  BY <3>4 DEF Has, Elements
  <2>4. Follows(Edges, m, Ahead(m))
    <3>. SUFFICES ASSUME NEW e \in Edges, e[1] \in Ahead(m) \cup {m} PROVE e[2] \in Ahead(m)
      BY DEF Follows
    <3>1. e[1] \in Node /\ e[2] \in Node /\ Edge(e[1], e[2])
      BY DEF Edges
    <3>2. CASE ~Dominates(e[2], e[1])
      BY <3>2, AheadFollows DEF Follows, Forward
    <3>3. CASE Dominates(e[2], e[1])
      BY <2>3, <3>1, <3>3, BackEdgesStayAhead
    <3>. QED  BY <3>2, <3>3
  <2>5. Ahead(m) \in SUBSET Node
    BY DEF Ahead
  <2>6. m \in Ahead(m)
    BY <2>4, <2>5 DEF OnCycle, Follows
  <2>. QED  BY <2>2, <2>6
<1>. QED  BY <1>1, InductiveLoops, PTL

(* Up to three loops, or any number of loops of which each is in the next, *)
(* are in mLoops with the inner ones first when FindLoops returns.         *)
THEOREM First == Spec => []InnerFirst
<1>1. Init => InnerFirst
  BY DEF Init, InnerFirst
<1>2. TrueInv /\ InnerFirst /\ [Next]_vars => InnerFirst'
  <2>. SUFFICES ASSUME TrueInv, InnerFirst, [Next]_vars, phase' = "done",
                       Len(loops') <= 3 \/ \A k, l \in DOMAIN loops' : Comparable(loops'[k], loops'[l]),
                       NEW k \in DOMAIN loops', NEW l \in DOMAIN loops', k < l
                PROVE  ~Inside(loops'[l], loops'[k])
    BY DEF InnerFirst, Inside, Comparable
  <2>1. CASE SortLoops
    <3>1. PICK z : z = MergeSort(loops) /\ loops' = Reversed(z)
      BY <2>1 DEF SortLoops
    <3>2. loops \in Seq(TrueLoops) /\ Len(loops) \in Nat
      BY DEF TrueInv
    <3>3. /\ loops' \in Seq(TrueLoops) /\ Elements(loops') = Elements(loops)
          /\ DOMAIN loops' = 1 .. Len(loops)
          /\ \A j \in 1 .. Len(loops) : /\ Len(loops) + 1 - j \in 1 .. Len(loops)
                                        /\ loops'[j] = z[Len(loops) + 1 - j]
      BY <3>1, <3>2, SortKeeps
    <3>4. Len(loops') = Len(loops)
      BY <3>2, <3>3
    <3>5. Len(loops) <= 3 \/ \A u, v \in Elements(loops) : Comparable(u, v)
      <4>1. CASE \A i1, i2 \in DOMAIN loops' : Comparable(loops'[i1], loops'[i2])
        <5>. SUFFICES ASSUME NEW u \in Elements(loops'), NEW v \in Elements(loops')
                      PROVE  Comparable(u, v)
          BY <3>3
        <5>1. PICK i1 \in DOMAIN loops' : u = loops'[i1]
          BY DEF Elements
        <5>2. PICK i2 \in DOMAIN loops' : v = loops'[i2]
          BY DEF Elements
        <5>. QED  BY <4>1, <5>1, <5>2
      <4>. QED  BY <3>4, <4>1
    <3>6. z \in Seq(TrueLoops) /\ Len(z) = Len(loops) /\ OuterFirst(z)
      BY <3>1, <3>2, <3>5, Sorts
    <3>7. k \in 1 .. Len(loops) /\ l \in 1 .. Len(loops)
      BY <3>3
    <3>. DEFINE i1 == Len(loops) + 1 - l
                i2 == Len(loops) + 1 - k
    <3>8. i1 \in 1 .. Len(z) /\ i2 \in 1 .. Len(z) /\ i1 < i2
      BY <3>2, <3>6, <3>7
    <3>9. loops'[l] = z[i1] /\ loops'[k] = z[i2]
      BY <3>3, <3>7
    <3>. HIDE DEF i1, i2
    <3>10. ~Inside(z[i1], z[i2])
      BY <3>6, <3>8, At
    <3>. QED  BY <3>9, <3>10
  <2>2. CASE phase = "done" /\ UNCHANGED loops
    BY <2>2 DEF InnerFirst
  <2>. QED
    BY <2>1, <2>2 DEF Next, vars, NextNode, ForwardEdge, BackEdge, AtEdge, Pop, AddPredecessor,
       SkipPredecessor, EndPredecessors, LoopFound
<1>. QED  BY <1>1, <1>2, InductiveLoops, PTL DEF Spec
=============================================================================
