----------------------------- MODULE LiveRegisters -----------------------------
(***************************************************************************)
(* Node::LiveRegisterAnalysis (src/node.cpp).                              *)
(*                                                                         *)
(* The pass walks the node list from the back to the front, over and over, *)
(* updating mLiveOut and mLiveIn of each node IN PLACE from the current    *)
(* mLiveIn of its successors, until a whole walk changes nothing.  What it *)
(* leaves in mLiveOut decides which definitions DataFlowAnalysis may later *)
(* move or delete, so a register missing there is a wrong decompilation    *)
(* and one too many is an assignment that is never simplified.             *)
(*                                                                         *)
(* The flow graph and the Uses/Definitions of its nodes are the input of   *)
(* the pass; Init takes them arbitrary.  A BoolArray is the set of the     *)
(* registers whose bit is set.  A successor that was never connected (a    *)
(* null pointer) is skipped by the code, so it is simply not in succ.      *)
(***************************************************************************)
EXTENDS Integers

CONSTANTS
  N,          (* number of nodes in the list; node i is the i-th of it    *)
  Registers   (* the registers a BoolArray has a bit for                  *)

ASSUME NAssumption == N \in Nat \ {0}

Node == 1 .. N

VARIABLES
  succ,       (* connected successors of each node                        *)
  uses,       (* Uses(): registers read before the node defines them      *)
  defs,       (* Definitions(): registers the node defines                *)
  liveIn,     (* mLiveIn                                                  *)
  liveOut,    (* mLiveOut                                                 *)
  item,       (* the reverse iterator; 0 is nodes.rend()                  *)
  changed,    (* the flag of the do-while                                 *)
  done        (* the function has returned                                *)

input == <<succ, uses, defs>>
vars  == <<succ, uses, defs, liveIn, liveOut, item, changed, done>>

TypeOK ==
  /\ succ \in [Node -> SUBSET Node]
  /\ uses \in [Node -> SUBSET Registers]
  /\ defs \in [Node -> SUBSET Registers]
  /\ liveIn \in [Node -> SUBSET Registers]
  /\ liveOut \in [Node -> SUBSET Registers]
  /\ item \in 0 .. N
  /\ changed \in BOOLEAN
  /\ done \in BOOLEAN

-----------------------------------------------------------------------------
Init ==
  /\ succ \in [Node -> SUBSET Node]
  /\ uses \in [Node -> SUBSET Registers]
  /\ defs \in [Node -> SUBSET Registers]
  /\ liveIn = [n \in Node |-> {}]
  /\ liveOut = [n \in Node |-> {}]
  /\ item = N
  /\ changed = FALSE
  /\ done = FALSE

(* The two assignments of the loop body, for the node under the iterator.  *)
NewOut(n) == liveOut[n] \cup UNION {liveIn[s] : s \in succ[n]}

(* Slip: the definitions are not subtracted. *)
NewInKeepsDefs(n) == uses[n] \cup NewOut(n)

NewIn(n) == uses[n] \cup (NewOut(n) \ defs[n])

(* One iteration of the inner loop. *)
VisitNode ==
  /\ ~done
  /\ item # 0
  /\ liveOut' = [liveOut EXCEPT ![item] = NewOut(item)]
  /\ liveIn' = [liveIn EXCEPT ![item] = NewIn(item)]
  /\ changed' = (changed \/ NewIn(item) # liveIn[item]
                         \/ NewOut(item) # liveOut[item])
  /\ item' = item - 1
  /\ UNCHANGED <<input, done>>

(* Slips: the walk starts beyond the back; the sets start over; the flag  *)
(* is not reset.                                                           *)
NextPassFromEnd ==
  /\ ~done /\ item = 0 /\ changed
  /\ item' = N + 1
  /\ changed' = FALSE
  /\ UNCHANGED <<input, liveIn, liveOut, done>>

NextPassAfresh ==
  /\ ~done /\ item = 0 /\ changed
  /\ item' = N
  /\ changed' = FALSE
  /\ liveIn' = [n \in Node |-> {}]
  /\ UNCHANGED <<input, liveOut, done>>

NextPassStaleFlag ==
  /\ ~done /\ item = 0 /\ changed
  /\ item' = N
  /\ UNCHANGED <<input, liveIn, liveOut, changed, done>>

(* The walk changed something: while (changed) goes round again. *)
NextPass ==
  /\ ~done
  /\ item = 0
  /\ changed
  /\ item' = N
  /\ changed' = FALSE
  /\ UNCHANGED <<input, liveIn, liveOut, done>>

(* Slip: one walk is taken to be enough. *)
ReturnAtOnce ==
  /\ ~done /\ item = 0
  /\ done' = TRUE
  /\ UNCHANGED <<input, liveIn, liveOut, item, changed>>

(* A whole walk without a change: the function returns. *)
Return ==
  /\ ~done
  /\ item = 0
  /\ ~changed
  /\ done' = TRUE
  /\ UNCHANGED <<input, liveIn, liveOut, item, changed>>

Next == VisitNode \/ NextPass \/ Return

(* The pass is one thread of control that nothing can preempt for ever.    *)
Fairness == WF_vars(Next)

Spec == Init /\ [][Next]_vars /\ Fairness

-----------------------------------------------------------------------------
(***************************************************************************)
(* What "live" means, independently of the pass.  Register r is live at    *)
(* the entry of n when some path from n reaches a use of r before any      *)
(* definition of it.  The nodes where r is live are the least set that     *)
(* holds every node using r and every node that does not define r and has  *)
(* a successor in the set: n is in it iff it is in every such set.         *)
(***************************************************************************)
CarriesBack(r, L) ==
  /\ \A n \in Node : r \in uses[n] => n \in L
  /\ \A n \in Node : \A s \in succ[n] : s \in L /\ r \notin defs[n] => n \in L

LiveAtEntry(n, r) == \A L \in SUBSET Node : CarriesBack(r, L) => n \in L

LiveAtExit(n, r) == \E s \in succ[n] : LiveAtEntry(s, r)

(* No walk, at any moment, marks a register that is not live: a dead       *)
(* assignment is never kept because of a stale or transient bit.           *)
NothingSpurious ==
  \A n \in Node :
    /\ \A r \in liveIn[n] : LiveAtEntry(n, r)
    /\ \A r \in liveOut[n] : LiveAtExit(n, r)

(* When LiveRegisterAnalysis returns, no live register is missing at any   *)
(* node, around any loop of the graph and for any order of its nodes:      *)
(* InLiveOut is what stops ReplaceUseWithDefinition from moving a          *)
(* definition another node still reads.                                    *)
NothingMissed ==
  done => \A n \in Node : \A r \in Registers :
            /\ LiveAtEntry(n, r) => r \in liveIn[n]
            /\ LiveAtExit(n, r) => r \in liveOut[n]

(* The in-place updates only ever add bits, the reason the do-while stops. *)
Grows ==
  \A n \in Node : liveIn[n] \subseteq liveIn'[n] /\ liveOut[n] \subseteq liveOut'[n]

OnlyGrows == [][Grows]_vars

(***************************************************************************)
(* The pass as its caller sees it: the bits of all nodes together are what *)
(* has been collected, the live registers are the goal.                    *)
(***************************************************************************)
Bit == {"in", "out"} \X Node \X Registers

Marked ==
  {b \in Bit : b[3] \in IF b[1] = "in" THEN liveIn[b[2]] ELSE liveOut[b[2]]}

Live ==
  {b \in Bit : IF b[1] = "in" THEN LiveAtEntry(b[2], b[3]) ELSE LiveAtExit(b[2], b[3])}

Abstract == INSTANCE Saturation WITH goal <- Live, got <- Marked

(* The walks over the list, their direction and the flag are details: to   *)
(* DataFlowAnalysis the pass collects the live registers of all nodes and  *)
(* returns with them.                                                      *)
CollectsLive == Abstract!Spec

(* The do-while reaches a walk that changes nothing. *)
Terminates == <>done

=============================================================================
