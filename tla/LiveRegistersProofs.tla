-------------------------- MODULE LiveRegistersProofs --------------------------
(***************************************************************************)
(* For every list of nodes, every graph on it and every set of registers,  *)
(* LiveRegisterAnalysis returns exactly the live registers.                *)
(***************************************************************************)
EXTENDS LiveRegisters, TLAPS

(***************************************************************************)
(* The equations of the analysis hold at n, as inclusions.                 *)
(***************************************************************************)
Settled(n) ==
  /\ \A s \in succ[n] : liveIn[s] \subseteq liveOut[n]
  /\ uses[n] \subseteq liveIn[n]
  /\ liveOut[n] \ defs[n] \subseteq liveIn[n]

(***************************************************************************)
(* As long as the current walk has changed nothing, the nodes behind the   *)
(* iterator are settled: this is what the flag of the do-while is for.     *)
(***************************************************************************)
WalkInv ==
  /\ ~changed => \A n \in Node : n > item => Settled(n)
  /\ done => item = 0 /\ ~changed

(***************************************************************************)
(* mLiveIn only holds what the last visit put there.                       *)
(***************************************************************************)
InFromOut == \A n \in Node : liveIn[n] \subseteq uses[n] \cup (liveOut[n] \ defs[n])

IInv == TypeOK /\ NothingSpurious /\ WalkInv /\ InFromOut

-----------------------------------------------------------------------------
(* Every variable keeps its type. *)
THEOREM TypeCorrect == Spec => []TypeOK
<1>1. N \in 0 .. N
  BY NAssumption
<1>2. Init => TypeOK
  BY <1>1, Zenon DEF Init, TypeOK
<1>3. TypeOK /\ [Next]_vars => TypeOK'
  <2>. SUFFICES ASSUME TypeOK, [Next]_vars PROVE TypeOK'
    OBVIOUS
  <2>1. CASE VisitNode
    BY <2>1, NAssumption DEF VisitNode, input, NewOut, NewIn, TypeOK, Node
  <2>2. CASE NextPass
    BY <1>1, <2>2, Zenon DEF NextPass, input, TypeOK
  <2>3. CASE Return
    BY <2>3, Zenon DEF Return, input, TypeOK
  <2>4. CASE UNCHANGED vars
    BY <2>4, Zenon DEF vars, TypeOK
  <2>. QED  BY <2>1, <2>2, <2>3, <2>4 DEF Next
<1>. QED  BY <1>2, <1>3, PTL DEF Spec

-----------------------------------------------------------------------------
(* A register used in n, or live at its exit and not defined in it, is     *)
(* live at its entry: the inclusion the assignment to mLiveIn rests on.    *)
LEMMA LiveBackwards ==
  ASSUME TypeOK, NEW n \in Node, NEW r,
         r \in uses[n] \/ (LiveAtExit(n, r) /\ r \notin defs[n])
  PROVE  LiveAtEntry(n, r)
BY DEF TypeOK, LiveAtEntry, LiveAtExit, CarriesBack

(* The input of the pass is never written. *)
LEMMA InputFixed == [Next]_vars => UNCHANGED input
BY DEF Next, VisitNode, NextPass, Return, vars, input

(* So what is live does not change while the pass runs. *)
LEMMA LiveFixed ==
  ASSUME [Next]_vars, NEW n, NEW r
  PROVE  /\ LiveAtEntry(n, r)' <=> LiveAtEntry(n, r)
         /\ LiveAtExit(n, r)' <=> LiveAtExit(n, r)
BY InputFixed DEF input, LiveAtEntry, LiveAtExit, CarriesBack

(* Visiting a node adds live registers only. *)
LEMMA VisitAddsLive ==
  ASSUME TypeOK, NothingSpurious, NEW n \in Node
  PROVE  /\ \A r \in NewOut(n) : LiveAtExit(n, r)
         /\ \A r \in NewIn(n) : LiveAtEntry(n, r)
<1>1. ASSUME NEW r \in NewOut(n) PROVE LiveAtExit(n, r)
  <2>1. CASE r \in liveOut[n]
    BY <2>1 DEF NothingSpurious
  <2>2. ASSUME NEW s \in succ[n], r \in liveIn[s]
        PROVE  LiveAtExit(n, r)
    BY <2>2 DEF NothingSpurious, LiveAtExit, TypeOK
  <2>. QED  BY <1>1, <2>1, <2>2 DEF NewOut
<1>2. ASSUME NEW r \in NewIn(n) PROVE LiveAtEntry(n, r)
  BY <1>1, <1>2, LiveBackwards DEF NewIn
<1>. QED  BY <1>1, <1>2

-----------------------------------------------------------------------------
LEMMA SpuriousStep == TypeOK /\ NothingSpurious /\ [Next]_vars => NothingSpurious'
<1>. SUFFICES ASSUME TypeOK, NothingSpurious, [Next]_vars,
                     NEW n \in Node
              PROVE  /\ \A r \in liveIn'[n] : LiveAtEntry(n, r)
                     /\ \A r \in liveOut'[n] : LiveAtExit(n, r)
  BY LiveFixed DEF NothingSpurious
<1>1. CASE VisitNode /\ n = item
  <2>1. liveIn'[n] = NewIn(n) /\ liveOut'[n] = NewOut(n)
    BY <1>1 DEF VisitNode, TypeOK
  <2>. QED  BY <2>1, VisitAddsLive
<1>2. CASE VisitNode /\ n # item
  <2>1. liveIn'[n] = liveIn[n] /\ liveOut'[n] = liveOut[n]
    BY <1>2 DEF VisitNode, TypeOK
  <2>. QED  BY <2>1 DEF NothingSpurious
<1>3. CASE UNCHANGED <<liveIn, liveOut>>
  BY <1>3 DEF NothingSpurious
<1>. QED  BY <1>1, <1>2, <1>3 DEF Next, NextPass, Return, vars

LEMMA WalkStep == TypeOK /\ WalkInv /\ [Next]_vars => WalkInv'
<1>. SUFFICES ASSUME TypeOK, WalkInv, [Next]_vars PROVE WalkInv'
  OBVIOUS
<1>. USE NAssumption DEF Node
<1>1. CASE VisitNode
  <2>. SUFFICES ASSUME ~changed', NEW n \in Node, n > item - 1
                PROVE  Settled(n)'
    BY <1>1 DEF WalkInv, VisitNode
  <2>1. ~changed /\ NewIn(item) = liveIn[item] /\ NewOut(item) = liveOut[item]
    BY <1>1 DEF VisitNode
  <2>2. UNCHANGED <<succ, uses, defs, liveIn, liveOut>>
    BY <1>1, <2>1 DEF VisitNode, input, TypeOK
  <2>3. Settled(n)
    <3>1. CASE n = item
      BY <2>1, <3>1 DEF Settled, NewIn, NewOut
    <3>2. CASE n > item
      BY <2>1, <3>2 DEF WalkInv
    <3>. QED  BY <3>1, <3>2 DEF TypeOK
  <2>. QED  BY <2>2, <2>3 DEF Settled
<1>2. CASE NextPass
  BY <1>2 DEF NextPass, WalkInv, TypeOK
<1>3. CASE Return
  BY <1>3 DEF Return, WalkInv, Settled, input
<1>4. CASE UNCHANGED vars
  BY <1>4 DEF vars, WalkInv, Settled
<1>. QED  BY <1>1, <1>2, <1>3, <1>4 DEF Next

LEMMA InFromOutStep == TypeOK /\ InFromOut /\ [Next]_vars => InFromOut'
<1>. SUFFICES ASSUME TypeOK, InFromOut, [Next]_vars, NEW n \in Node
              PROVE  liveIn'[n] \subseteq uses'[n] \cup (liveOut'[n] \ defs'[n])
  BY DEF InFromOut
<1>1. uses' = uses /\ defs' = defs
  BY InputFixed DEF input
<1>2. CASE VisitNode /\ n = item
  <2>1. liveIn'[n] = NewIn(n) /\ liveOut'[n] = NewOut(n)
    BY <1>2 DEF VisitNode, TypeOK
  <2>. QED  BY <1>1, <2>1 DEF NewIn
<1>3. CASE VisitNode /\ n # item
  <2>1. liveIn'[n] = liveIn[n] /\ liveOut'[n] = liveOut[n]
    BY <1>3 DEF VisitNode, TypeOK
  <2>. QED  BY <1>1, <2>1 DEF InFromOut
<1>4. CASE UNCHANGED <<liveIn, liveOut>>
  BY <1>1, <1>4 DEF InFromOut
<1>. QED  BY <1>2, <1>3, <1>4 DEF Next, NextPass, Return, vars

(* IInv is inductive. *)
THEOREM Inductive == Spec => []IInv
<1>1. Init => NothingSpurious /\ WalkInv /\ InFromOut
  BY NAssumption DEF Init, NothingSpurious, WalkInv, InFromOut, Node
<1>2. TypeOK /\ NothingSpurious /\ WalkInv /\ InFromOut /\ [Next]_vars
        => (NothingSpurious /\ WalkInv /\ InFromOut)'
  BY SpuriousStep, WalkStep, InFromOutStep
<1>. QED  BY <1>1, <1>2, TypeCorrect, PTL DEF Spec, IInv

-----------------------------------------------------------------------------
(* No register is ever marked that is not live. *)
THEOREM SpuriousFree == Spec => []NothingSpurious
<1>1. IInv => NothingSpurious
  BY DEF IInv
<1>. QED  BY <1>1, Inductive, PTL

(* When the pass returns, no live register is missing: the set of nodes    *)
(* with r in mLiveIn is closed backwards, so it contains the least one.    *)
THEOREM Complete == Spec => []NothingMissed
<1>1. IInv => NothingMissed
  <2>. SUFFICES ASSUME IInv, done, NEW n \in Node, NEW r \in Registers
                PROVE  /\ LiveAtEntry(n, r) => r \in liveIn[n]
                       /\ LiveAtExit(n, r) => r \in liveOut[n]
    BY DEF NothingMissed
  <2>. DEFINE L == {m \in Node : r \in liveIn[m]}
  <2>1. \A m \in Node : Settled(m)
    BY NAssumption DEF IInv, WalkInv, Node
  <2>2. CarriesBack(r, L)
    BY <2>1 DEF CarriesBack, Settled, IInv, TypeOK
  <2>3. ASSUME NEW m \in Node, LiveAtEntry(m, r) PROVE r \in liveIn[m]
    BY <2>2, <2>3 DEF LiveAtEntry
  <2>4. ASSUME LiveAtExit(n, r) PROVE r \in liveOut[n]
    BY <2>1, <2>3, <2>4 DEF LiveAtExit, Settled, IInv, TypeOK
  <2>. QED  BY <2>3, <2>4
<1>. QED  BY <1>1, Inductive, PTL

(* The bits of mLiveIn and mLiveOut only ever go up. *)
THEOREM Monotone == Spec => OnlyGrows
<1>. DEFINE GrowsAt(n) == /\ liveIn[n] \subseteq liveIn'[n]
                          /\ liveOut[n] \subseteq liveOut'[n]
<1>1. ASSUME IInv, [Next]_vars, NEW n \in Node PROVE GrowsAt(n)
  <2>1. CASE VisitNode /\ n = item
    <3>1. liveIn'[n] = NewIn(n) /\ liveOut'[n] = NewOut(n)
      BY <1>1, <2>1 DEF IInv, VisitNode, TypeOK
    <3>2. liveOut[n] \subseteq NewOut(n)
      BY DEF NewOut
    <3>3. liveIn[n] \subseteq NewIn(n)
      BY <1>1, <3>2 DEF IInv, InFromOut, NewIn
    <3>. QED  BY <3>1, <3>2, <3>3
  <2>2. CASE VisitNode /\ n # item
    BY <1>1, <2>2 DEF IInv, VisitNode, TypeOK
  <2>3. CASE UNCHANGED <<liveIn, liveOut>>
    BY <2>3
  <2>. QED  BY <1>1, <2>1, <2>2, <2>3 DEF Next, NextPass, Return, vars
<1>2. IInv /\ [Next]_vars => [Grows]_vars
  BY <1>1 DEF Grows
<1>. QED  BY <1>2, Inductive, PTL DEF Spec, OnlyGrows

-----------------------------------------------------------------------------
(* The goal does not move. *)
LEMMA LiveBitsFixed == [Next]_vars => Live' = Live
<1>. SUFFICES ASSUME [Next]_vars PROVE Live' = Live
  OBVIOUS
<1>1. \A b \in Bit : /\ LiveAtEntry(b[2], b[3])' <=> LiveAtEntry(b[2], b[3])
                     /\ LiveAtExit(b[2], b[3])' <=> LiveAtExit(b[2], b[3])
  BY LiveFixed
<1>. QED  BY <1>1, Zenon DEF Live, Bit

(* Seen from its caller, the pass collects the live registers: every step  *)
(* of the walks collects some of them or nothing, and the return finds     *)
(* them complete.                                                          *)
THEOREM Implements == Spec => CollectsLive
<1>1. Init => Abstract!Init
  BY DEF Init, Abstract!Init, Marked, Bit
<1>2. ASSUME IInv, [Next]_vars, [Grows]_vars, NothingSpurious', NothingMissed, NothingMissed'
      PROVE  [Abstract!Next]_(Abstract!vars)
  <2>1. Live' = Live
    BY <1>2, LiveBitsFixed
  <2>2. Marked \subseteq Marked'
    BY <1>2 DEF Marked, Bit, Grows, vars
  <2>3. Marked' \subseteq Live'
    BY <1>2 DEF Marked, Live, Bit, NothingSpurious
  <2>4. CASE VisitNode \/ NextPass
    <3>1. ~done /\ done' = done
      BY <2>4 DEF VisitNode, NextPass
    <3>. QED  BY <2>1, <2>2, <2>3, <3>1 DEF Abstract!Next, Abstract!Collect
  <2>5. CASE Return
    <3>1. ~done /\ done' = TRUE /\ UNCHANGED <<liveIn, liveOut>>
      BY <2>5 DEF Return
    <3>2. Marked' = Marked
      BY <3>1 DEF Marked
    <3>3. Live' \subseteq Marked'
      BY <1>2, <3>1 DEF Marked, Live, Bit, NothingMissed
    <3>. QED  BY <2>1, <2>3, <3>1, <3>2, <3>3 DEF Abstract!Next, Abstract!Finish
  <2>6. CASE UNCHANGED vars
    BY <2>1, <2>6 DEF vars, Abstract!vars, Marked
  <2>. QED  BY <1>2, <2>4, <2>5, <2>6 DEF Next
<1>. QED  BY <1>1, <1>2, Inductive, SpuriousFree, Complete, Monotone, PTL
          DEF Spec, OnlyGrows, CollectsLive, Abstract!Spec
=============================================================================
