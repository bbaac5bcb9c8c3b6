---------------------------------- MODULE Loops ----------------------------------
(***************************************************************************)
(* ControlFlowAnalysis::FindLoops and FindNaturalLoopForEdge               *)
(* (src/controlflow.cpp).                                                  *)
(*                                                                         *)
(* Every edge of the flow graph is looked at; where it leads back to a     *)
(* node that dominates its tail, the nodes of the loop are gathered from   *)
(* mPreds with a stack.  Then the loops are sorted, because StructureLoops *)
(* turns them into statements one after the other and takes their nodes    *)
(* off the node list.                                                      *)
(*                                                                         *)
(* FindDominators has run just before (module Dominators), so mPreds and   *)
(* mDominators are those of the graph.                                     *)
(***************************************************************************)
EXTENDS Integers, Sequences

CONSTANTS
  N,             (* number of nodes in the list                           *)
  MaxSuccessors  (* bound on the successors of a node                     *)

ASSUME NAssumption == N \in Nat \ {0}
ASSUME MaxSuccessorsAssumption == MaxSuccessors \in Nat

Node == 1 .. N

Entry == 1    (* mNodeList.begin() *)

VARIABLES
  succ,     (* successors of each node, in their order                    *)
  n,        (* the iterator of FindLoops; N + 1 is mNodeList.end()        *)
  i,        (* its index into the successors of n                         *)
  header,   (* of the loop being gathered                                 *)
  tail,
  nodes,    (* loop->nodes so far                                         *)
  workList, (* the stack                                                  *)
  node,     (* the node popped last                                       *)
  p,        (* the iterator over its mPreds, by position in the list      *)
  loops,    (* mLoops                                                     *)
  phase     (* which loop of the code runs: "edges", "pop", "preds"       *)

building == <<header, tail, nodes, workList, node, p>>
vars == <<succ, n, i, building, loops, phase>>

Edge(a, b) == \E k \in DOMAIN succ[a] : succ[a][k] = b

-----------------------------------------------------------------------------
(* Dominance as in module Dominators, which is what FindDominators leaves  *)
(* in mDominators: every node dominates an unreachable one.                *)
ReachesAvoiding(d, R) ==
  /\ d # Entry => Entry \in R
  /\ \A a \in R : \A k \in DOMAIN succ[a] : succ[a][k] # d => succ[a][k] \in R

Avoidable(d, m) == \A R \in SUBSET Node : ReachesAvoiding(d, R) => m \in R

Dominates(d, m) == ~Avoidable(d, m)

-----------------------------------------------------------------------------
SuccessorLists == UNION {[1 .. k -> Node] : k \in 0 .. MaxSuccessors}

Init ==
  /\ succ \in [Node -> SuccessorLists]
  /\ n = 2    (* the walk skips the entry *)
  /\ i = 1
  /\ header = Entry /\ tail = Entry
  /\ nodes = {}
  /\ workList = <<>>
  /\ node = Entry
  /\ p = 1
  /\ loops = <<>>
  /\ phase = "edges"

AtEdge == phase = "edges" /\ n \in Node /\ i \in DOMAIN succ[n]

(* Slip: only the first successor is looked at. *)
NextNodeAfterFirst ==
  /\ phase = "edges"
  /\ n \in Node
  /\ i > 1 \/ i \notin DOMAIN succ[n]
  /\ n' = n + 1
  /\ i' = 1
  /\ UNCHANGED <<succ, building, loops, phase>>

NextNode ==
  /\ phase = "edges"
  /\ n \in Node
  /\ i \notin DOMAIN succ[n]
  /\ n' = n + 1
  /\ i' = 1
  /\ UNCHANGED <<succ, building, loops, phase>>

ForwardEdge ==
  /\ AtEdge
  /\ ~Dominates(succ[n][i], n)
  /\ i' = i + 1
  /\ UNCHANGED <<succ, n, building, loops, phase>>

(* Slip: a loop of one node has its tail pushed too. *)
BackEdgeAlwaysPushed ==
  /\ AtEdge
  /\ Dominates(succ[n][i], n)
  /\ header' = succ[n][i]
  /\ tail' = n
  /\ nodes' = {succ[n][i], n}
  /\ workList' = <<n>>
  /\ phase' = "pop"
  /\ UNCHANGED <<succ, n, i, node, p, loops>>

(* FindNaturalLoopForEdge begins. *)
BackEdge ==
  /\ AtEdge
  /\ Dominates(succ[n][i], n)
  /\ header' = succ[n][i]
  /\ tail' = n
  /\ nodes' = {succ[n][i], n}
  /\ workList' = IF succ[n][i] # n THEN <<n>> ELSE <<>>
  /\ phase' = "pop"
  /\ UNCHANGED <<succ, n, i, node, p, loops>>

(* Slip: the top stays on the stack. *)
PopStays ==
  /\ phase = "pop"
  /\ workList # <<>>
  /\ node' = workList[Len(workList)]
  /\ p' = 1
  /\ phase' = "preds"
  /\ UNCHANGED <<succ, n, i, header, tail, nodes, workList, loops>>

Pop ==
  /\ phase = "pop"
  /\ workList # <<>>
  /\ node' = workList[Len(workList)]
  /\ workList' = SubSeq(workList, 1, Len(workList) - 1)
  /\ p' = 1
  /\ phase' = "preds"
  /\ UNCHANGED <<succ, n, i, header, tail, nodes, loops>>

(* Slip: the predecessor is added to the loop and not to the stack. *)
AddPredecessorOnly ==
  /\ phase = "preds"
  /\ p \in Node
  /\ Edge(p, node) /\ p \notin nodes
  /\ nodes' = nodes \cup {p}
  /\ p' = p + 1
  /\ UNCHANGED <<succ, n, i, header, tail, workList, node, loops, phase>>

AddPredecessor ==
  /\ phase = "preds"
  /\ p \in Node
  /\ Edge(p, node) /\ p \notin nodes
  /\ nodes' = nodes \cup {p}
  /\ workList' = Append(workList, p)
  /\ p' = p + 1
  /\ UNCHANGED <<succ, n, i, header, tail, node, loops, phase>>

SkipPredecessor ==
  /\ phase = "preds"
  /\ p \in Node
  /\ ~Edge(p, node) \/ p \in nodes
  /\ p' = p + 1
  /\ UNCHANGED <<succ, n, i, header, tail, nodes, workList, node, loops, phase>>

(* Slip: the walk over mPreds runs one past its end. *)
EndPredecessorsLate ==
  /\ phase = "preds"
  /\ p \notin Node
  /\ IF p = N + 1 THEN p' = p + 1 /\ phase' = phase ELSE p' = p /\ phase' = "pop"
  /\ UNCHANGED <<succ, n, i, header, tail, nodes, workList, node, loops>>

EndPredecessors ==
  /\ phase = "preds"
  /\ p \notin Node
  /\ phase' = "pop"
  /\ UNCHANGED <<succ, n, i, building, loops>>

(* FindNaturalLoopForEdge returns. *)
LoopFound ==
  /\ phase = "pop"
  /\ workList = <<>>
  /\ loops' = Append(loops, [header |-> header, tail |-> tail, nodes |-> nodes])
  /\ i' = i + 1
  /\ phase' = "edges"
  /\ UNCHANGED <<succ, n, building>>

-----------------------------------------------------------------------------
(* includes(), by address; a set is not smaller than one it includes.  No  *)
(* two nodes have one address here (copies of a shared node would).        *)
LoopCompare(a, b) == b.nodes \subseteq a.nodes

(* std::list::merge: the second list goes first only where it compares so. *)
Merged(x, y) ==
  LET from[at \in (1 .. Len(x) + 1) \X (1 .. Len(y) + 1)] ==
        LET a == at[1]
            b == at[2]
        IN  IF a > Len(x) THEN SubSeq(y, b, Len(y))
            ELSE IF b > Len(y) THEN SubSeq(x, a, Len(x))
            ELSE IF LoopCompare(y[b], x[a]) THEN <<y[b]>> \o from[<<a, b + 1>>]
            ELSE <<x[a]>> \o from[<<a + 1, b>>]
  IN  from[<<1, 1>>]

(* The greatest power of two below k, for all k up to m.                   *)
RunLengths(m) ==
  LET run[k \in 1 .. m] == IF k <= 2 THEN 1 ELSE 2 * run[(k + 1) \div 2]
  IN  run

(* std::list::sort: runs of 1, 2, 4, ... elements are merged.  LoopCompare *)
(* is no strict weak order, so the standard promises nothing of the order; *)
(* that of the GNU library is the one of its merges.                       *)
MergeSort(s) ==
  LET run == RunLengths(Len(s))
      sort[at \in (DOMAIN s) \X (DOMAIN s)] ==
        LET a == at[1]
            b == at[2]
            m == a + run[b - a + 1]
        IN  IF b <= a THEN <<s[a]>> ELSE Merged(sort[<<a, m - 1>>], sort[<<m, b>>])
  IN  IF s = <<>> THEN s ELSE sort[<<1, Len(s)>>]

Reversed(s) == [k \in DOMAIN s |-> s[Len(s) + 1 - k]]

(* Slip: sorted, but not reversed. *)
SortLoopsOnly ==
  /\ phase = "edges"
  /\ n = N + 1
  /\ loops' = MergeSort(loops)
  /\ phase' = "done"
  /\ UNCHANGED <<succ, n, i, building>>

SortLoops ==
  /\ phase = "edges"
  /\ n = N + 1
  /\ \E sorted \in {MergeSort(loops)} : loops' = Reversed(sorted)
  /\ phase' = "done"
  /\ UNCHANGED <<succ, n, i, building>>

Next ==
  \/ NextNode \/ ForwardEdge \/ BackEdge
  \/ Pop \/ AddPredecessor \/ SkipPredecessor \/ EndPredecessors \/ LoopFound
  \/ SortLoops

(* One thread, in which nothing waits. *)
Fairness == WF_vars(Next)

Spec == Init /\ [][Next]_vars /\ Fairness

-----------------------------------------------------------------------------
TypeOK ==
  /\ succ \in [Node -> SuccessorLists]
  /\ n \in 1 .. N + 1
  /\ i \in Nat \ {0}
  /\ header \in Node /\ tail \in Node
  /\ nodes \subseteq Node
  /\ workList \in Seq(Node)
  /\ node \in Node
  /\ p \in 1 .. N + 1
  /\ phase \in {"edges", "pop", "preds", "done"}

Gathering == phase \in {"pop", "preds"}

(* While the loop of a back edge is gathered, nothing gets into it that    *)
(* control can come to without passing the header: StructureWhileLoop and  *)
(* StructureDoWhileLoop move all of it into the body of one statement.     *)
HeaderDominatesLoop == Gathering => \A m \in nodes : Dominates(header, m)

(* The natural loop of the edge from t to h: the least set with both that  *)
(* has all the predecessors of its nodes but those of h.                   *)
LoopClosed(h, t, R) ==
  /\ h \in R /\ t \in R
  /\ \A a \in Node, b \in R : Edge(a, b) /\ b # h => a \in R

NaturalLoop(h, t) == {m \in Node : \A R \in SUBSET Node : LoopClosed(h, t, R) => m \in R}

(* What FindNaturalLoopForEdge returns is the natural loop of its edge, in *)
(* whatever order the stack delivered the nodes.                           *)
LoopIsNatural == phase = "pop" /\ workList = <<>> => nodes = NaturalLoop(header, tail)

-----------------------------------------------------------------------------
Reachable(m) ==
  \A R \in SUBSET Node :
    Entry \in R /\ (\A a \in R : \A k \in DOMAIN succ[a] : succ[a][k] \in R) => m \in R

AllReachable == \A m \in Node : Reachable(m)

Edges == {e \in Node \X Node : Edge(e[1], e[2])}

(* Control can come back to m along the edges of E. *)
OnCycle(m, E) ==
  \A R \in SUBSET Node : {e[2] : e \in {x \in E : x[1] \in R \cup {m}}} \subseteq R => m \in R

(* Every cycle has an edge back to a node that dominates its tail. *)
Reducible ==
  LET forward == {e \in Edges : ~Dominates(e[2], e[1])} IN
  \A m \in Node : ~OnCycle(m, forward)

(* When all nodes can be reached, two loops with different headers do not  *)
(* overlap: one is inside the other, or they have nothing in common.       *)
(* Taking the nodes of the one off the list then leaves the other whole.   *)
LoopsNest ==
  phase = "done" /\ AllReachable =>
    \A k, l \in DOMAIN loops :
      loops[k].header # loops[l].header =>
        \/ loops[k].nodes \cap loops[l].nodes = {}
        \/ loops[k].nodes \subseteq loops[l].nodes
        \/ loops[l].nodes \subseteq loops[k].nodes

(* In a reducible graph no cycle is overlooked, and would be left as       *)
(* gotos; but for one of the entry alone, which the walk skips.            *)
CyclesAreInLoops ==
  phase = "done" /\ ~Edge(Entry, Entry) /\ AllReachable /\ Reducible =>
    \A m \in Node : OnCycle(m, Edges) => \E k \in DOMAIN loops : m \in loops[k].nodes

(* l is strictly inside k. *)
Inside(l, k) == l.nodes \subseteq k.nodes /\ l.nodes # k.nodes

Comparable(k, l) == l.nodes \subseteq k.nodes \/ k.nodes \subseteq l.nodes

(* Inner loops are structured before the ones around them, where there are *)
(* not more than three or each is in the next.  Four loops side by side    *)
(* and in each other can defeat the sort, LoopCompare being no strict weak *)
(* order.                                                                  *)
InnerFirst ==
  /\ phase = "done"
  /\ Len(loops) <= 3 \/ \A k, l \in DOMAIN loops : Comparable(loops[k], loops[l])
  => \A k, l \in DOMAIN loops : k < l => ~Inside(loops[l], loops[k])

Terminates == <>(phase = "done")
=============================================================================
