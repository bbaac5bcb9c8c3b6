---------------------------- MODULE DominatorsProofs ----------------------------
(***************************************************************************)
(* For every graph on every list of nodes, and whatever earlier calls left *)
(* behind, FindDominators returns exactly the dominators and, relative to  *)
(* the last block, exactly the post-dominators.                            *)
(***************************************************************************)
EXTENDS Dominators, TLAPS

Computing == phase \in {"dominators", "postdominators", "done"}
Backward  == phase \in {"postdominators", "done"}

(* The inclusions the two iterations establish at one node. *)
ForwardSettled(n) == \A p \in Node : n \in succ[p] => dom[n] \subseteq dom[p] \cup {n}
BackwardSettled(n) == \A s \in succ[n] : pdom[n] \subseteq pdom[s] \cup {n}

(* mPreds mirrors the successors once they are wired. *)
PredsInv == Computing => preds = [n \in Node |-> {p \in Node : n \in succ[p]}]

(* The entry and the exit keep their own bit only. *)
RootsInv ==
  /\ Computing => dom[Entry] = {Entry}
  /\ Backward => pdom[Exit] = {Exit}

(* No real dominator has been cleared. *)
LowerInv ==
  /\ Computing => \A d, n \in Node : Dominates(d, n) => d \in dom[n]
  /\ Backward => \A d, n \in Node : PostDominates(d, n) => d \in pdom[n]
  /\ phase = "dominators" => pdom = [n \in Node |-> Node]

(* A walk that has changed nothing yet leaves settled nodes behind it; the *)
(* function only goes on after a whole walk without change.                *)
WalkInv ==
  /\ phase = "dominators" /\ ~changed =>
       \A n \in Node : n # Entry /\ n < item => ForwardSettled(n)
  /\ Backward => \A n \in Node : n # Entry => ForwardSettled(n)
  /\ phase = "postdominators" /\ ~changed =>
       \A n \in Node : n # Exit /\ n < item => BackwardSettled(n)
  /\ phase = "done" => \A n \in Node : n # Exit => BackwardSettled(n)

IInv == TypeOK /\ PredsInv /\ RootsInv /\ LowerInv /\ WalkInv

-----------------------------------------------------------------------------
LEMMA RootsAreNodes == Entry \in Node /\ Exit \in Node
BY NAssumption DEF Node, Entry, Exit

(* Every variable keeps its type. *)
THEOREM TypeCorrect == Spec => []TypeOK
<1>1. Init => TypeOK
  <2>1. Init => succ \in [Node -> SUBSET Node]
    BY DEF Init, Graphs
  <2>2. Init => item \in 1 .. N + 1
    BY NAssumption DEF Init
  <2>. QED  BY <2>1, <2>2 DEF Init, TypeOK
<1>2. TypeOK /\ [Next]_vars => TypeOK'
  <2>. SUFFICES ASSUME TypeOK, [Next]_vars PROVE TypeOK'
    OBVIOUS
  <2>1. CASE Reset
    <3>1. 1 \in 1 .. N + 1
      BY NAssumption
    <3>. QED  BY <2>1, <3>1, RootsAreNodes DEF Reset, TypeOK
  <2>2. CASE VisitForward
    <3>1. item + 1 \in 1 .. N + 1
      BY <2>2, NAssumption DEF VisitForward, Node
    <3>2. dom' \in [Node -> SUBSET Node] /\ changed' \in BOOLEAN
      BY <2>2 DEF VisitForward, Dominated, TypeOK
    <3>. QED  BY <2>2, <3>1, <3>2 DEF VisitForward, TypeOK
  <2>3. CASE ForwardAgain
    <3>1. 1 \in 1 .. N + 1
      BY NAssumption
    <3>. QED  BY <2>3, <3>1 DEF ForwardAgain, TypeOK
  <2>4. CASE ForwardDone
    <3>1. 1 \in 1 .. N + 1
      BY NAssumption
    <3>. QED  BY <2>4, <3>1, RootsAreNodes DEF ForwardDone, TypeOK
  <2>5. CASE VisitBackward
    <3>1. item + 1 \in 1 .. N + 1
      BY <2>5, NAssumption DEF VisitBackward, Node
    <3>2. pdom' \in [Node -> SUBSET Node] /\ changed' \in BOOLEAN
      <4>1. PostDominated(item) \subseteq Node
        BY DEF PostDominated
      <4>2. pdom \in [Node -> SUBSET Node] /\ changed \in BOOLEAN
        BY DEF TypeOK
      <4>. QED  BY <2>5, <4>1, <4>2 DEF VisitBackward
    <3>. QED  BY <2>5, <3>1, <3>2 DEF VisitBackward, TypeOK
  <2>6. CASE BackwardAgain
    <3>1. 1 \in 1 .. N + 1
      BY NAssumption
    <3>. QED  BY <2>6, <3>1 DEF BackwardAgain, TypeOK
  <2>7. CASE Return
    BY <2>7 DEF Return, TypeOK
  <2>8. CASE Reconnect
    BY <2>8 DEF Reconnect, TypeOK
  <2>9. CASE UNCHANGED vars
    BY <2>9 DEF vars, TypeOK
  <2>. QED
    BY <2>1, <2>2, <2>3, <2>4, <2>5, <2>6, <2>7, <2>8, <2>9 DEF Next, Step
<1>. QED  BY <1>1, <1>2, PTL DEF Spec

-----------------------------------------------------------------------------
(* What dominates n, other than n itself, dominates each of its            *)
(* predecessors: the reason intersecting with them clears no real one.     *)
LEMMA DominatesPredecessor ==
  ASSUME NEW d \in Node, NEW n \in Node, NEW p \in Node, TypeOK,
         n \in succ[p], d # n, Dominates(d, n)
  PROVE  Dominates(d, p)
BY DEF Dominates, Avoidable, ReachesAvoiding

(* Only the entry itself dominates the entry. *)
LEMMA DominatesEntry ==
  ASSUME NEW d \in Node, Dominates(d, Entry)
  PROVE  d = Entry
BY DEF Dominates, Avoidable, ReachesAvoiding

(* The same two facts for post-dominance. *)
LEMMA PostDominatesSuccessor ==
  ASSUME NEW d \in Node, NEW n \in Node, NEW s \in succ[n], TypeOK,
         d # n, n # Exit, PostDominates(d, n)
  PROVE  PostDominates(d, s)
BY DEF PostDominates, PostAvoidable, ReachedAvoiding, TypeOK

LEMMA PostDominatesExit ==
  ASSUME NEW d \in Node, PostDominates(d, Exit)
  PROVE  d = Exit
BY DEF PostDominates, PostAvoidable, ReachedAvoiding

(* Dominance only depends on the successors. *)
LEMMA DominanceFixed ==
  ASSUME UNCHANGED succ
  PROVE  \A d, n : /\ Dominates(d, n)' <=> Dominates(d, n)
                   /\ PostDominates(d, n)' <=> PostDominates(d, n)
BY DEF Dominates, Avoidable, ReachesAvoiding,
       PostDominates, PostAvoidable, ReachedAvoiding

-----------------------------------------------------------------------------
LEMMA PredsStep == TypeOK /\ PredsInv /\ [Next]_vars => PredsInv'
<1>. SUFFICES ASSUME TypeOK, PredsInv, [Next]_vars PROVE PredsInv'
  OBVIOUS
<1>1. CASE Reset
  BY <1>1 DEF Reset, PredsInv
<1>2. CASE Computing /\ UNCHANGED <<succ, preds>>
  BY <1>2 DEF PredsInv
<1>3. CASE Reconnect
  BY <1>3 DEF Reconnect, PredsInv, Computing
<1>4. CASE UNCHANGED vars
  BY <1>4 DEF vars, PredsInv, Computing
<1>. QED
  BY <1>1, <1>2, <1>3, <1>4
  DEF Next, Step, Computing, VisitForward, ForwardAgain, ForwardDone,
      VisitBackward, BackwardAgain, Return

LEMMA RootsStep == TypeOK /\ RootsInv /\ [Next]_vars => RootsInv'
<1>. SUFFICES ASSUME TypeOK, RootsInv, [Next]_vars PROVE RootsInv'
  OBVIOUS
<1>. USE RootsAreNodes DEF RootsInv, Computing, Backward
<1>1. CASE Reset
  BY <1>1 DEF Reset
<1>2. CASE VisitForward
  BY <1>2 DEF VisitForward, TypeOK
<1>3. CASE ForwardAgain
  BY <1>3 DEF ForwardAgain
<1>4. CASE ForwardDone
  BY <1>4 DEF ForwardDone, TypeOK
<1>5. CASE VisitBackward
  BY <1>5 DEF VisitBackward, TypeOK
<1>6. CASE BackwardAgain
  BY <1>6 DEF BackwardAgain
<1>7. CASE Return
  BY <1>7 DEF Return
<1>8. CASE Reconnect
  BY <1>8 DEF Reconnect
<1>9. CASE UNCHANGED vars
  BY <1>9 DEF vars
<1>. QED
  BY <1>1, <1>2, <1>3, <1>4, <1>5, <1>6, <1>7, <1>8, <1>9 DEF Next, Step

LEMMA LowerStep ==
  TypeOK /\ PredsInv /\ LowerInv /\ [Next]_vars => LowerInv'
<1>. SUFFICES ASSUME TypeOK, PredsInv, LowerInv, [Next]_vars PROVE LowerInv'
  OBVIOUS
<1>. USE DEF Computing, Backward
<1>1. CASE Reset
  <2>1. \A d \in Node : Dominates(d, Entry) => d = Entry
    BY RootsAreNodes, DominatesEntry
  <2>2. \A d, n \in Node : Dominates(d, n) => d \in dom'[n]
    BY <1>1, <2>1 DEF Reset
  <2>. QED
    BY <1>1, <2>2, DominanceFixed DEF Reset, LowerInv
<1>2. CASE VisitForward
  <2>1. ASSUME NEW d \in Node, NEW n \in Node, Dominates(d, n)
        PROVE  d \in dom'[n]
    <3>1. d \in dom[n]
      BY <1>2, <2>1 DEF VisitForward, LowerInv
    <3>2. CASE n = item /\ n # Entry
      <4>1. ASSUME NEW p \in preds[n], d # n PROVE d \in dom[p]
        <5>1. p \in Node /\ n \in succ[p]
          BY <1>2, <4>1 DEF VisitForward, PredsInv
        <5>2. Dominates(d, p)
          BY <2>1, <4>1, <5>1, DominatesPredecessor
        <5>. QED  BY <1>2, <5>1, <5>2 DEF VisitForward, LowerInv
      <4>2. d \in Dominated(n)
        BY <3>1, <4>1 DEF Dominated
      <4>. QED  BY <1>2, <3>2, <4>2 DEF VisitForward, TypeOK
    <3>3. CASE n # item \/ n = Entry
      BY <1>2, <3>1, <3>3 DEF VisitForward, TypeOK
    <3>. QED  BY <3>2, <3>3
  <2>. QED
    BY <1>2, <2>1, DominanceFixed DEF VisitForward, LowerInv
<1>3. CASE ForwardDone
  <2>1. \A d \in Node : PostDominates(d, Exit) => d = Exit
    BY RootsAreNodes, PostDominatesExit
  <2>2. \A d, n \in Node : PostDominates(d, n) => d \in pdom'[n]
    BY <1>3, <2>1 DEF ForwardDone, LowerInv, TypeOK
  <2>. QED
    BY <1>3, <2>2, DominanceFixed DEF ForwardDone, LowerInv
<1>4. CASE VisitBackward
  <2>1. ASSUME NEW d \in Node, NEW n \in Node, PostDominates(d, n)
        PROVE  d \in pdom'[n]
    <3>1. CASE n = item /\ n # Exit
      <4>1. ASSUME NEW s \in succ[n], d # n PROVE d \in pdom[s]
        <5>1. PostDominates(d, s)
          BY <2>1, <3>1, <4>1, PostDominatesSuccessor
        <5>. QED  BY <1>4, <5>1 DEF VisitBackward, LowerInv, TypeOK
      <4>2. d \in PostDominated(n)
        BY <4>1 DEF PostDominated
      <4>. QED  BY <1>4, <3>1, <4>2 DEF VisitBackward, TypeOK
    <3>2. CASE n # item \/ n = Exit
      BY <1>4, <2>1, <3>2 DEF VisitBackward, LowerInv, TypeOK
    <3>. QED  BY <3>1, <3>2
  <2>. QED
    BY <1>4, <2>1, DominanceFixed DEF VisitBackward, LowerInv
<1>5. CASE ForwardAgain
  BY <1>5, DominanceFixed DEF ForwardAgain, LowerInv
<1>6. CASE BackwardAgain
  BY <1>6, DominanceFixed DEF BackwardAgain, LowerInv
<1>7. CASE Return
  BY <1>7, DominanceFixed DEF Return, LowerInv
<1>8. CASE Reconnect
  BY <1>8 DEF Reconnect, LowerInv
<1>9. CASE UNCHANGED vars
  BY <1>9, DominanceFixed DEF vars, LowerInv
<1>. QED
  BY <1>1, <1>2, <1>3, <1>4, <1>5, <1>6, <1>7, <1>8, <1>9 DEF Next, Step

LEMMA WalkStep ==
  TypeOK /\ PredsInv /\ WalkInv /\ [Next]_vars => WalkInv'
<1>. SUFFICES ASSUME TypeOK, PredsInv, WalkInv, [Next]_vars PROVE WalkInv'
  OBVIOUS
<1>. USE NAssumption DEF Node, Computing, Backward
<1>1. CASE Reset
  BY <1>1 DEF Reset, WalkInv
<1>2. CASE VisitForward
  <2>. SUFFICES ASSUME ~changed', NEW n \in Node, n # Entry, n < item + 1
                PROVE  ForwardSettled(n)'
    BY <1>2 DEF VisitForward, WalkInv
  <2>1. UNCHANGED <<succ, dom>> /\ ~changed
    BY <1>2 DEF VisitForward, TypeOK
  <2>2. ForwardSettled(n)
    <3>1. CASE n = item
      <4>1. Dominated(n) = dom[n]
        BY <1>2, <3>1 DEF VisitForward
      <4>2. \A p \in Node : n \in succ[p] => p \in preds[n]
        BY <1>2 DEF VisitForward, PredsInv
      <4>. QED  BY <4>1, <4>2 DEF Dominated, ForwardSettled
    <3>2. CASE n < item
      BY <1>2, <2>1, <3>2 DEF VisitForward, WalkInv
    <3>. QED  BY <3>1, <3>2 DEF TypeOK
  <2>. QED  BY <2>1, <2>2 DEF ForwardSettled
<1>3. CASE ForwardAgain
  BY <1>3 DEF ForwardAgain, WalkInv
<1>4. CASE ForwardDone
  <2>1. \A n \in Node : n # Entry => ForwardSettled(n)
    BY <1>4 DEF ForwardDone, WalkInv
  <2>. QED  BY <1>4, <2>1 DEF ForwardDone, WalkInv, ForwardSettled
<1>5. CASE VisitBackward
  <2>1. \A n \in Node : n # Entry => ForwardSettled(n)'
    BY <1>5 DEF VisitBackward, WalkInv, ForwardSettled
  <2>2. ASSUME ~changed', NEW n \in Node, n # Exit, n < item + 1
        PROVE  BackwardSettled(n)'
    <3>1. UNCHANGED <<succ, pdom>> /\ ~changed
      BY <1>5, <2>2 DEF VisitBackward, TypeOK
    <3>2. BackwardSettled(n)
      <4>1. CASE n = item
        <5>1. PostDominated(n) = pdom[n]
          BY <1>5, <2>2, <4>1 DEF VisitBackward
        <5>. QED  BY <5>1 DEF PostDominated, BackwardSettled
      <4>2. CASE n < item
        BY <1>5, <2>2, <3>1, <4>2 DEF VisitBackward, WalkInv
      <4>. QED  BY <2>2, <4>1, <4>2 DEF TypeOK
    <3>. QED  BY <3>1, <3>2 DEF BackwardSettled
  <2>. QED  BY <1>5, <2>1, <2>2 DEF VisitBackward, WalkInv
<1>6. CASE BackwardAgain
  BY <1>6 DEF BackwardAgain, WalkInv, ForwardSettled
<1>7. CASE Return
  BY <1>7 DEF Return, WalkInv, ForwardSettled, BackwardSettled
<1>8. CASE Reconnect
  BY <1>8 DEF Reconnect, WalkInv
<1>9. CASE UNCHANGED vars
  BY <1>9 DEF vars, WalkInv, ForwardSettled, BackwardSettled
<1>. QED
  BY <1>1, <1>2, <1>3, <1>4, <1>5, <1>6, <1>7, <1>8, <1>9 DEF Next, Step

(* IInv is inductive. *)
THEOREM Inductive == Spec => []IInv
<1>1. Init => PredsInv /\ RootsInv /\ LowerInv /\ WalkInv
  BY DEF Init, PredsInv, RootsInv, LowerInv, WalkInv, Computing, Backward
<1>2. TypeOK /\ PredsInv /\ RootsInv /\ LowerInv /\ WalkInv /\ [Next]_vars
        => (PredsInv /\ RootsInv /\ LowerInv /\ WalkInv)'
  BY PredsStep, RootsStep, LowerStep, WalkStep
<1>. QED  BY <1>1, <1>2, TypeCorrect, PTL DEF Spec, IInv

-----------------------------------------------------------------------------
(* No real dominator is ever missing, in any call. *)
THEOREM DominatorsComplete == Spec => []NeverTooFew
<1>1. IInv => NeverTooFew
  BY DEF IInv, TypeOK, LowerInv, NeverTooFew, Computing, Backward
<1>. QED  BY <1>1, Inductive, PTL

(* DominatesNode is exact: the nodes d does not dominate form a set that   *)
(* is closed under the edges avoiding d.                                   *)
THEOREM DominatorsCorrect == Spec => []DominatorsExact
<1>1. IInv => DominatorsExact
  <2>. SUFFICES ASSUME IInv, Backward, NEW d \in Node, NEW n \in Node
                PROVE  d \in dom[n] <=> Dominates(d, n)
    BY DEF DominatorsExact, Backward
  <2>. DEFINE R == {m \in Node : d \notin dom[m]}
  <2>1. Dominates(d, n) => d \in dom[n]
    BY DEF IInv, LowerInv, Computing, Backward
  <2>2. ReachesAvoiding(d, R)
    <3>1. d # Entry => Entry \in R
      BY RootsAreNodes DEF IInv, RootsInv, Computing, Backward
    <3>2. ASSUME NEW m \in R, NEW s \in succ[m], s # d PROVE s \in R
      <4>1. s \in Node
        BY DEF IInv, TypeOK
      <4>2. CASE s = Entry
        BY <3>1, <3>2, <4>2
      <4>3. CASE s # Entry
        <5>1. dom[s] \subseteq dom[m] \cup {s}
          BY <4>1, <4>3 DEF IInv, WalkInv, ForwardSettled
        <5>. QED  BY <3>2, <4>1, <5>1
      <4>. QED  BY <4>2, <4>3
    <3>. QED  BY <3>1, <3>2 DEF ReachesAvoiding
  <2>3. d \in dom[n] => Dominates(d, n)
    BY <2>2 DEF Dominates, Avoidable
  <2>. QED  BY <2>1, <2>3
<1>. QED  BY <1>1, Inductive, PTL

(* mPostDominators is exact with respect to the last block. *)
THEOREM PostDominatorsCorrect == Spec => []PostDominatorsExact
<1>1. IInv => PostDominatorsExact
  <2>. SUFFICES ASSUME IInv, phase = "done", NEW d \in Node, NEW n \in Node
                PROVE  d \in pdom[n] <=> PostDominates(d, n)
    BY DEF PostDominatorsExact
  <2>. DEFINE R == {m \in Node : d \notin pdom[m]}
  <2>1. PostDominates(d, n) => d \in pdom[n]
    BY DEF IInv, LowerInv, Backward
  <2>2. ReachedAvoiding(d, R)
    <3>1. d # Exit => Exit \in R
      BY RootsAreNodes DEF IInv, RootsInv, Backward
    <3>2. ASSUME NEW m \in Node, NEW s \in succ[m], s \in R, m # d, m # Exit
          PROVE  m \in R
      <4>1. pdom[m] \subseteq pdom[s] \cup {m}
        BY <3>2 DEF IInv, WalkInv, BackwardSettled
      <4>. QED  BY <3>2, <4>1
    <3>. QED  BY <3>1, <3>2 DEF ReachedAvoiding
  <2>3. d \in pdom[n] => PostDominates(d, n)
    BY <2>2 DEF PostDominates, PostAvoidable
  <2>. QED  BY <2>1, <2>3
<1>. QED  BY <1>1, Inductive, PTL

-----------------------------------------------------------------------------
(***************************************************************************)
(* mPostDominators is computed from all bits, but what that gives is never *)
(* more than what is there.                                                *)
(***************************************************************************)
ShrinkInv ==
  phase = "postdominators" => \A n \in Node : n # Exit => PostDominated(n) \subseteq pdom[n]

LEMMA ShrinkStep == TypeOK /\ LowerInv /\ ShrinkInv /\ [Next]_vars => ShrinkInv'
<1>. SUFFICES ASSUME TypeOK, LowerInv, ShrinkInv, [Next]_vars, phase' = "postdominators",
                     NEW n \in Node, n # Exit
              PROVE  PostDominated(n)' \subseteq pdom'[n]
  BY DEF ShrinkInv
<1>1. CASE ForwardDone
  <2>1. pdom'[n] = Node
    BY <1>1 DEF ForwardDone, LowerInv
  <2>. QED  BY <2>1 DEF PostDominated
<1>2. CASE VisitBackward
  <2>1. \A m \in Node : pdom'[m] \subseteq pdom[m]
    BY <1>2 DEF VisitBackward, ShrinkInv, TypeOK
  <2>2. PostDominated(n)' \subseteq PostDominated(n)
    BY <1>2, <2>1 DEF VisitBackward, PostDominated, TypeOK
  <2>3. pdom'[n] = pdom[n] \/ pdom'[n] = PostDominated(n)
    BY <1>2 DEF VisitBackward, TypeOK
  <2>4. PostDominated(n) \subseteq pdom[n]
    BY <1>2 DEF VisitBackward, ShrinkInv
  <2>. QED  BY <2>2, <2>3, <2>4
<1>3. CASE BackwardAgain \/ UNCHANGED vars
  <2>1. phase = "postdominators" /\ UNCHANGED <<succ, pdom>>
    BY <1>3 DEF BackwardAgain, vars
  <2>. QED  BY <2>1 DEF ShrinkInv, PostDominated
<1>. QED
  BY <1>1, <1>2, <1>3
  DEF Next, Step, Reset, VisitForward, ForwardAgain, Return, Reconnect

THEOREM Shrinks == Spec => []ShrinkInv
<1>1. Init => ShrinkInv
  BY DEF Init, ShrinkInv
<1>2. IInv /\ ShrinkInv /\ [Next]_vars => ShrinkInv'
  BY ShrinkStep DEF IInv
<1>. QED  BY <1>1, <1>2, Inductive, PTL DEF Spec

(* Within a call the goal does not move. *)
LEMMA WrongFixed ==
  ASSUME UNCHANGED succ
  PROVE  Wrong' = Wrong
<1>1. \A b \in Bit : /\ Dominates(b[2], b[3])' <=> Dominates(b[2], b[3])
                     /\ PostDominates(b[2], b[3])' <=> PostDominates(b[2], b[3])
  BY DominanceFixed
<1>. QED  BY <1>1, Zenon DEF Wrong, Bit, Node

(* What is cleared is wrong, at every moment of a call. *)
OnlyWrong == Cleared \subseteq Wrong

LEMMA ClearedWrong == IInv => OnlyWrong
<1>. SUFFICES ASSUME IInv, NEW b \in Cleared PROVE b \in Wrong
  BY DEF OnlyWrong
<1>1. /\ b \in Bit /\ phase # "reset"
      /\ b[2] \notin (IF b[1] = "dominator" THEN dom ELSE pdom)[b[3]]
      /\ b[2] \in Node /\ b[3] \in Node
  BY DEF Cleared, Bit
<1>2. Computing /\ (Backward \/ phase = "dominators")
  BY <1>1 DEF IInv, TypeOK, Computing, Backward
<1>3. CASE b[1] = "dominator"
  BY <1>1, <1>2, <1>3 DEF IInv, LowerInv, Wrong
<1>4. CASE b[1] # "dominator"
  <2>1. Backward
    BY <1>1, <1>2, <1>4 DEF IInv, LowerInv
  <2>. QED  BY <1>1, <1>4, <2>1 DEF IInv, LowerInv, Wrong
<1>. QED  BY <1>3, <1>4

(* No step of a call sets a bit. *)
LEMMA ClearedGrows ==
  ASSUME IInv, ShrinkInv, [Step]_vars
  PROVE  Cleared \subseteq Cleared'
<1>1. CASE phase = "reset"
  BY <1>1 DEF Cleared
<1>2. CASE phase # "reset"
  <2>1. phase' # "reset"
    BY <1>2 DEF Step, Reset, VisitForward, ForwardAgain, ForwardDone, VisitBackward,
                BackwardAgain, Return, vars
  <2>2. \A n \in Node : dom'[n] \subseteq dom[n] /\ pdom'[n] \subseteq pdom[n]
    <3>1. CASE VisitForward
      BY <3>1 DEF VisitForward, Dominated, IInv, TypeOK
    <3>2. CASE ForwardDone
      BY <3>2, RootsAreNodes DEF ForwardDone, IInv, TypeOK, LowerInv
    <3>3. CASE VisitBackward
      BY <3>3 DEF VisitBackward, ShrinkInv, IInv, TypeOK
    <3>4. CASE UNCHANGED <<dom, pdom>>
      BY <3>4
    <3>. QED
      BY <1>2, <3>1, <3>2, <3>3, <3>4
      DEF Step, Reset, ForwardAgain, BackwardAgain, Return, vars
  <2>. QED  BY <1>2, <2>1, <2>2 DEF Cleared, Bit
<1>. QED  BY <1>1, <1>2

(* When the function returns everything wrong is cleared. *)
EveryWrong == phase = "done" => Cleared = Wrong

LEMMA AllCleared == DominatorsExact /\ PostDominatorsExact => EveryWrong
<1>. SUFFICES ASSUME DominatorsExact, PostDominatorsExact, phase = "done"
              PROVE  Cleared = Wrong
  BY DEF EveryWrong
<1>1. \A d, n \in Node : /\ d \in dom[n] <=> Dominates(d, n)
                         /\ d \in pdom[n] <=> PostDominates(d, n)
  BY DEF DominatorsExact, PostDominatorsExact
<1>2. \A b \in Bit : b[2] \in Node /\ b[3] \in Node
  BY DEF Bit
<1>3. ASSUME NEW b \in Bit
      PROVE  b \in Cleared <=> b \in Wrong
  BY <1>1, <1>2 DEF Cleared, Wrong
<1>. QED  BY <1>3 DEF Cleared, Wrong

(* Called any number of times, the function clears in each call what is    *)
(* wrong in the graph as it is then, bit by bit, and all of it.            *)
THEOREM Clears == Spec => ClearsWrong
<1>1. Init => Abstract!Init
  BY DEF Init, Abstract!Init, Cleared
<1>2. ASSUME IInv, ShrinkInv, [Next]_vars, OnlyWrong', EveryWrong'
      PROVE  [Abstract!Next \/ Abstract!Again]_(Abstract!vars)
  <2>1. CASE Reconnect
    <3>1. phase = "done" /\ phase' = "reset"
      BY <2>1 DEF Reconnect
    <3>2. Cleared' = {}
      BY <3>1 DEF Cleared
    <3>. QED  BY <3>1, <3>2 DEF Abstract!Again
  <2>2. CASE Step /\ ~Return
    <3>1. UNCHANGED succ /\ phase # "done" /\ phase' # "done"
      BY <2>2 DEF Step, Reset, VisitForward, ForwardAgain, ForwardDone, VisitBackward, BackwardAgain
    <3>2. Wrong' = Wrong
      BY <3>1, WrongFixed
    <3>3. Cleared \subseteq Cleared'
      BY <1>2, <2>2, ClearedGrows
    <3>4. Cleared' \subseteq Wrong'
      BY <1>2 DEF OnlyWrong
    <3>. QED  BY <3>1, <3>2, <3>3, <3>4 DEF Abstract!Next, Abstract!Collect
  <2>3. CASE Return
    <3>1. phase = "postdominators" /\ phase' = "done" /\ UNCHANGED <<succ, dom, pdom>>
      BY <2>3 DEF Return
    <3>2. Wrong' = Wrong
      BY <3>1, WrongFixed
    <3>3. Cleared' = Cleared
      BY <3>1 DEF Cleared
    <3>4. Cleared' = Wrong'
      BY <1>2, <3>1 DEF EveryWrong
    <3>. QED  BY <3>1, <3>2, <3>3, <3>4 DEF Abstract!Next, Abstract!Finish
  <2>4. CASE UNCHANGED vars
    <3>1. UNCHANGED <<succ, dom, pdom, phase>>
      BY <2>4 DEF vars
    <3>2. Wrong' = Wrong
      BY <3>1, WrongFixed
    <3>3. Cleared' = Cleared
      BY <3>1 DEF Cleared
    <3>. QED  BY <3>1, <3>2, <3>3 DEF Abstract!vars
  <2>. QED  BY <1>2, <2>1, <2>2, <2>3, <2>4 DEF Next
<1>. QED
  BY <1>1, <1>2, ClearedWrong, AllCleared, Inductive, Shrinks, DominatorsCorrect,
     PostDominatorsCorrect, PTL
  DEF Spec, ClearsWrong, Abstract!Calls
=============================================================================
