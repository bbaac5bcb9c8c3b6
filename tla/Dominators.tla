------------------------------- MODULE Dominators -------------------------------
(***************************************************************************)
(* ControlFlowAnalysis::FindDominators (src/controlflow.cpp).              *)
(*                                                                         *)
(* Numbers the nodes by their position in the list, rebuilds mPreds from   *)
(* the successors, then iterates mDominators forwards and mPostDominators  *)
(* backwards, each in place and in list order, until a walk changes        *)
(* nothing.  The decompiler calls it again after every rewriting of the    *)
(* graph, with the bitsets, domIds and mPreds of the previous call still   *)
(* in the nodes: Reconnect and Reset model that.                           *)
(*                                                                         *)
(* All successors are connected here: the function dereferences them       *)
(* without a check.  A bitset is the set of the domIds whose bit is set.   *)
(***************************************************************************)
EXTENDS Integers, FiniteSets

CONSTANTS
  N,             (* number of nodes in the list                           *)
  MaxSuccessors  (* bound on the successors of a node                     *)

ASSUME NAssumption == N \in Nat \ {0}

Node == 1 .. N

(* blocks.begin() is taken for the entry, blocks.back() for the exit. *)
Entry == 1
Exit  == N

VARIABLES
  succ,      (* successors of each node                                   *)
  preds,     (* mPreds                                                    *)
  dom,       (* mDominators                                               *)
  pdom,      (* mPostDominators                                           *)
  item,      (* the iterator over blocks; N + 1 is blocks.end()           *)
  changed,   (* the flag of the running do-while                          *)
  phase      (* which part of the function runs                           *)

vars == <<succ, preds, dom, pdom, item, changed, phase>>

Graphs == {g \in [Node -> SUBSET Node] :
             \A n \in Node : Cardinality(g[n]) <= MaxSuccessors}

TypeOK ==
  /\ succ \in [Node -> SUBSET Node]
  /\ preds \in [Node -> SUBSET Node]
  /\ dom \in [Node -> SUBSET Node]
  /\ pdom \in [Node -> SUBSET Node]
  /\ item \in 1 .. N + 1
  /\ changed \in BOOLEAN
  /\ phase \in {"reset", "dominators", "postdominators", "done"}

-----------------------------------------------------------------------------
(* Freshly created nodes have empty bitsets. *)
Init ==
  /\ succ \in Graphs
  /\ preds = [n \in Node |-> {}]
  /\ dom = [n \in Node |-> {}]
  /\ pdom = [n \in Node |-> {}]
  /\ item = 1
  /\ changed = FALSE
  /\ phase = "reset"

(* Slip: mPreds keeps what an earlier call put there. *)
ResetKeepsPreds ==
  /\ phase = "reset"
  /\ preds' = [n \in Node |-> preds[n] \cup {p \in Node : n \in succ[p]}]
  /\ dom' = [n \in Node |-> IF n = Entry THEN {Entry} ELSE Node]
  /\ pdom' = [n \in Node |-> Node]
  /\ item' = 1
  /\ changed' = FALSE
  /\ phase' = "dominators"
  /\ UNCHANGED succ

(* The two initial loops and the special treatment of the entry. *)
Reset ==
  /\ phase = "reset"
  /\ preds' = [n \in Node |-> {p \in Node : n \in succ[p]}]
  /\ dom' = [n \in Node |-> IF n = Entry THEN {Entry} ELSE Node]
  /\ pdom' = [n \in Node |-> Node]
  /\ item' = 1
  /\ changed' = FALSE
  /\ phase' = "dominators"
  /\ UNCHANGED succ

(* The inner loop over mPreds: intersect with each, keep the own bit.  A   *)
(* node without predecessors keeps every bit.                              *)
Dominated(n) ==
  {d \in dom[n] : d = n \/ \A p \in preds[n] : d \in dom[p]}

VisitForward ==
  /\ phase = "dominators"
  /\ item \in Node
  /\ IF item = Entry
     THEN UNCHANGED <<dom, changed>>
     ELSE /\ dom' = [dom EXCEPT ![item] = Dominated(item)]
          /\ changed' = (changed \/ Dominated(item) # dom[item])
  /\ item' = item + 1
  /\ UNCHANGED <<succ, preds, pdom, phase>>

(* Slip: the next walk starts before the first node. *)
ForwardAgainFromZero ==
  /\ phase = "dominators" /\ item = N + 1 /\ changed
  /\ item' = 0
  /\ changed' = FALSE
  /\ UNCHANGED <<succ, preds, dom, pdom, phase>>

ForwardAgain ==
  /\ phase = "dominators"
  /\ item = N + 1
  /\ changed
  /\ item' = 1
  /\ changed' = FALSE
  /\ UNCHANGED <<succ, preds, dom, pdom, phase>>

(* Slip: one forward walk is taken to be enough. *)
ForwardDoneAtOnce ==
  /\ phase = "dominators" /\ item = N + 1
  /\ pdom' = [pdom EXCEPT ![Exit] = {Exit}]
  /\ item' = 1
  /\ phase' = "postdominators"
  /\ changed' = FALSE
  /\ UNCHANGED <<succ, preds, dom>>

(* The dominators are stable; the exit starts with its own bit only. *)
ForwardDone ==
  /\ phase = "dominators"
  /\ item = N + 1
  /\ ~changed
  /\ pdom' = [pdom EXCEPT ![Exit] = {Exit}]
  /\ item' = 1
  /\ phase' = "postdominators"
  /\ UNCHANGED <<succ, preds, dom, changed>>

(* t: every bit, intersected with each successor, plus the own bit. *)
PostDominated(n) ==
  {d \in Node : d = n \/ \A s \in succ[n] : d \in pdom[s]}

VisitBackward ==
  /\ phase = "postdominators"
  /\ item \in Node
  /\ IF item = Exit
     THEN UNCHANGED <<pdom, changed>>
     ELSE /\ pdom' = [pdom EXCEPT ![item] = PostDominated(item)]
          /\ changed' = (changed \/ PostDominated(item) # pdom[item])
  /\ item' = item + 1
  /\ UNCHANGED <<succ, preds, dom, phase>>

(* Slip: the flag is not reset. *)
BackwardAgainStaleFlag ==
  /\ phase = "postdominators" /\ item = N + 1 /\ changed
  /\ item' = 1
  /\ UNCHANGED <<succ, preds, dom, pdom, changed, phase>>

BackwardAgain ==
  /\ phase = "postdominators"
  /\ item = N + 1
  /\ changed
  /\ item' = 1
  /\ changed' = FALSE
  /\ UNCHANGED <<succ, preds, dom, pdom, phase>>

(* Slip: one backward walk is taken to be enough. *)
ReturnAtOnce ==
  /\ phase = "postdominators" /\ item = N + 1
  /\ phase' = "done"
  /\ UNCHANGED <<succ, preds, dom, pdom, item, changed>>

Return ==
  /\ phase = "postdominators"
  /\ item = N + 1
  /\ ~changed
  /\ phase' = "done"
  /\ UNCHANGED <<succ, preds, dom, pdom, item, changed>>

(* Between two calls a collate pass redirects the edges of one node and    *)
(* leaves the results of the previous call as they are.                    *)
Reconnect ==
  /\ phase = "done"
  /\ \E n \in Node, new \in Node : \E old \in succ[n] :
       succ' = [succ EXCEPT ![n] = (@ \ {old}) \cup {new}]
  /\ phase' = "reset"
  /\ UNCHANGED <<preds, dom, pdom, item, changed>>

(* The statements of the function itself. *)
Step ==
  \/ Reset
  \/ VisitForward \/ ForwardAgain \/ ForwardDone
  \/ VisitBackward \/ BackwardAgain \/ Return

Next == Step \/ Reconnect

(* The function runs to its end once called; nothing obliges its caller    *)
(* to call it again.                                                       *)
Fairness == WF_vars(Step)

Spec == Init /\ [][Next]_vars /\ Fairness

-----------------------------------------------------------------------------
(***************************************************************************)
(* Dominance, independently of the iteration.  The nodes that a path from  *)
(* the entry reaches without passing d are the least set closed under the  *)
(* edges that avoid d; d dominates n iff n is not in that set.             *)
(***************************************************************************)
ReachesAvoiding(d, R) ==
  /\ d # Entry => Entry \in R
  /\ \A m \in R : \A s \in succ[m] : s # d => s \in R

Avoidable(d, n) == \A R \in SUBSET Node : n \notin R => ~ReachesAvoiding(d, R)

Dominates(d, n) == ~Avoidable(d, n)

(* The same backwards, from the node taken for the exit. *)
ReachedAvoiding(d, R) ==
  /\ d # Exit => Exit \in R
  /\ \A m \in Node : \A s \in succ[m] : s \in R /\ m # d /\ m # Exit => m \in R

PostAvoidable(d, n) == \A R \in SUBSET Node : n \notin R => ~ReachedAvoiding(d, R)

PostDominates(d, n) == ~PostAvoidable(d, n)

(* At no moment of the iteration is a real dominator or post-dominator     *)
(* missing from a bitset, whatever an earlier call left in it.             *)
NeverTooFew ==
  \A d, n \in Node :
    /\ phase \notin {"reset"} /\ Dominates(d, n) => d \in dom[n]
    /\ phase \in {"postdominators", "done"} /\ PostDominates(d, n) => d \in pdom[n]

(* When FindDominators returns, DominatesNode answers dominance in the     *)
(* graph as it is now, for every pair of nodes and any list order: the     *)
(* collate passes delete nodes and FindLoops builds loops on its word.     *)
DominatorsExact ==
  phase \in {"postdominators", "done"} =>
    \A d, n \in Node : d \in dom[n] <=> Dominates(d, n)

(* The same for mPostDominators with respect to the last block of the      *)
(* list, from which StructureLoops picks the node a loop breaks to.        *)
PostDominatorsExact ==
  phase = "done" => \A d, n \in Node : d \in pdom[n] <=> PostDominates(d, n)

(***************************************************************************)
(* Seen from its callers, the function clears bits: those of pairs of      *)
(* which the one does not dominate, or post-dominate, the other.           *)
(***************************************************************************)
Bit == {"dominator", "postdominator"} \X Node \X Node

Wrong == {b \in Bit : IF b[1] = "dominator" THEN ~Dominates(b[2], b[3]) ELSE ~PostDominates(b[2], b[3])}

(* What an earlier call left in the bitsets is not looked at any more. *)
Cleared ==
  {b \in Bit : phase # "reset" /\ b[2] \notin (IF b[1] = "dominator" THEN dom ELSE pdom)[b[3]]}

Abstract == INSTANCE Saturation WITH goal <- Wrong, got <- Cleared, done <- (phase = "done")

(* Within a call no bit is set again, though the post-dominators of a node *)
(* are computed from all bits and not from its own; none is cleared that   *)
(* should stay; and each call, whatever the one before has left, returns   *)
(* when all others are cleared.                                            *)
ClearsWrong == Abstract!Calls

(* Both do-whiles end, in every call. *)
EveryCallReturns == phase = "reset" ~> phase = "done"
=============================================================================
