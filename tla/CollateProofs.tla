------------------------------ MODULE CollateProofs ------------------------------
(***************************************************************************)
(* For lists of every number of blocks: the passes keep the graph well     *)
(* formed; unless a node with another way in is deleted no successor is    *)
(* lost, and the graph does what the graph of CreateList did; and run()    *)
(* stops only where neither pass finds anything.                           *)
(***************************************************************************)
EXTENDS Collate, Basics, SequenceTheorems, FiniteSetTheorems

(* The types of the nodes that are in the list. *)
Types == {"FALL_THROUGH", "JUMP", "CONDITIONAL_JUMP", "RETURN"}

Deleted == "TO_BE_DELETED"

IsCondition(e) == e = [first |-> e.first, on |-> e.on] /\ DOMAIN e.on \subseteq Block

(* What is known of a node whatever becomes of it. *)
IsNode(c, m) ==
  /\ c = [f \in {"type", "body", "cond", "succ"} |-> c[f]]
  /\ c.body \in Seq(Block)
  /\ IsCondition(c.cond)
  /\ c.succ \in Seq(1 .. m)

(* As many successors as the type says. *)
HasSuccessors(c) ==
  /\ c.type \in Types
  /\ c.type = "RETURN" => Len(c.succ) = 0
  /\ c.type \in {"FALL_THROUGH", "JUMP"} => Len(c.succ) = 1
  /\ c.type = "CONDITIONAL_JUMP" => Len(c.succ) = 2

NodesInv ==
  /\ made \in N .. 2 * N
  /\ list \in Seq(1 .. made)
  /\ node = [n \in Id |-> node[n]]
  /\ \A n \in Id : IsNode(node[n], made)
  /\ \A n \in Listed : HasSuccessors(node[n])

Closed == \A n \in Listed : ToSet(node[n].succ) \subseteq Listed

(***************************************************************************)
(* As long as FindDominators can walk the graph, every successor is in the *)
(* list, and there are numbers left for the nodes that joins create.       *)
(***************************************************************************)
WalkInv ==
  phase # "undefined" => Closed /\ Cardinality(Listed) + made <= 2 * N

(* Between the two Runs of a round, matches is what the first has found. *)
MatchInv ==
  /\ phase \in {"expr", "node", "done", "undefined"}
  /\ matches \in 0 .. 2
  /\ careless \in BOOLEAN
  /\ phase = "node" => matches \in 0 .. 1
  /\ phase = "node" /\ matches = 0 => \A n \in Listed : ExprPattern(n) = "none"

IInv == NodesInv /\ WalkInv /\ MatchInv /\ CarefulMeansDefined /\ NothingLeft

-----------------------------------------------------------------------------
(* The nodes that are left over of a list, in their order. *)
LEMMA Remaining ==
  ASSUME NEW S, NEW seq \in Seq(S), NEW nodes
  PROVE  LET rest == RemoveDeletedNodes(seq, nodes) IN
         /\ rest \in Seq(S)
         /\ ToSet(rest) = {x \in ToSet(seq) : nodes[x].type # Deleted}
         /\ seq # <<>> /\ nodes[seq[1]].type # Deleted => rest # <<>> /\ rest[1] = seq[1]
         /\ IsInjective(seq) => IsInjective(rest)
<1>. DEFINE M == Len(seq)
            gone(k) == nodes[seq[k]].type = Deleted
            Def(f, m) == [k \in 0 .. m |-> IF k = 0 THEN <<>>
                                           ELSE IF gone(k) THEN f[k - 1] ELSE Append(f[k - 1], seq[k])]
            kept == CHOOSE f : f = Def(f, M)
<1>1. M \in Nat /\ DOMAIN seq = 1 .. M /\ \A k \in 1 .. M : seq[k] \in S
  OBVIOUS
<1>2. RemoveDeletedNodes(seq, nodes) = kept[M]
  BY DEF RemoveDeletedNodes, Deleted
<1>. HIDE DEF M, gone
<1>3. \E f : f = Def(f, M)
  <2>. DEFINE possible(k) == \E f : f = Def(f, k)
              T == {k \in 0 .. M : ~possible(k)}
  <2>1. possible(0)
    <3>. DEFINE f == [i \in 0 .. 0 |-> <<>>]
    <3>1. f = Def(f, 0)
      OBVIOUS
    <3>. QED  BY <3>1
  <2>2. ASSUME NEW k \in 1 .. M, possible(k - 1) PROVE possible(k)
    <3>1. PICK f : f = Def(f, k - 1)
      BY <2>2
    <3>. DEFINE value(i) == IF i = 0 THEN <<>>
                            ELSE IF gone(i) THEN f[i - 1] ELSE Append(f[i - 1], seq[i])
                g == [i \in 0 .. k |-> value(i)]
    <3>2. f = [i \in 0 .. k - 1 |-> value(i)]
      BY <3>1
    <3>. HIDE DEF value
    <3>3. \A i \in 0 .. k - 1 : i \in 0 .. k /\ g[i] = f[i]
      BY <1>1, <3>2
    <3>4. \A i \in 0 .. k : i # 0 => i - 1 \in 0 .. k - 1
      BY <1>1
    <3>5. \A i \in 0 .. k : value(i) = IF i = 0 THEN <<>>
                                      ELSE IF gone(i) THEN g[i - 1] ELSE Append(g[i - 1], seq[i])
      BY <3>3, <3>4 DEF value
    <3>6. g = Def(g, k)
      BY <3>5
    <3>. QED  BY <3>6
  <2>. HIDE DEF possible
  <2>3. ASSUME ~possible(M) PROVE FALSE
    <3>1. T \in SUBSET Nat /\ T # {}
      BY <1>1, <2>3
    <3>2. PICK k \in T : \A j \in T : k <= j
      BY <3>1, LeastNumber, Zenon
    <3>3. k \in 0 .. M /\ ~possible(k)
      BY <3>2
    <3>4. k \in 1 .. M /\ k - 1 \in 0 .. M
      BY <1>1, <2>1, <3>3
    <3>5. k - 1 \notin T
      BY <1>1, <3>2, <3>4
    <3>. QED  BY <2>2, <3>3, <3>4, <3>5
  <2>. QED  BY <2>3 DEF possible
<1>4. kept = Def(kept, M)
  BY <1>3
<1>. HIDE DEF kept
<1>. DEFINE injective(f) == \A i, j \in DOMAIN f : f[i] = f[j] => i = j
            fits(k) ==
              /\ kept[k] \in Seq(S)
              /\ \A i \in DOMAIN kept[k] : \E j \in 1 .. k : ~gone(j) /\ kept[k][i] = seq[j]
              /\ \A j \in 1 .. k : ~gone(j) => \E i \in DOMAIN kept[k] : kept[k][i] = seq[j]
              /\ k # 0 /\ ~gone(1) => Len(kept[k]) # 0 /\ kept[k][1] = seq[1]
              /\ injective(seq) => injective(kept[k])
<1>5. fits(0)
  <2>1. kept[0] = <<>>
    BY <1>1, <1>4
  <2>. QED  BY <2>1
<1>6. ASSUME NEW k \in 1 .. M, fits(k - 1) PROVE fits(k)
  <2>1. k - 1 \in 0 .. M /\ k \in Nat /\ k # 0 /\ k \in 0 .. M
    BY <1>1
  <2>. DEFINE h == kept[k - 1]
  <2>2. kept[k] = IF gone(k) THEN h ELSE Append(h, seq[k])
    <3>1. kept[k] = Def(kept, M)[k]
      BY <1>4
    <3>. QED  BY <2>1, <3>1
  <2>3. /\ h \in Seq(S)
        /\ \A i \in DOMAIN h : \E j \in 1 .. k - 1 : ~gone(j) /\ h[i] = seq[j]
        /\ \A j \in 1 .. k - 1 : ~gone(j) => \E i \in DOMAIN h : h[i] = seq[j]
        /\ k - 1 # 0 /\ ~gone(1) => Len(h) # 0 /\ h[1] = seq[1]
        /\ injective(seq) => injective(h)
    BY <1>6
  <2>4. CASE gone(k)
    <3>1. \A j \in 1 .. k : ~gone(j) => j \in 1 .. k - 1
      BY <2>1, <2>4
    <3>2. \A j \in 1 .. k - 1 : j \in 1 .. k
      BY <2>1
    <3>3. kept[k] = h
      BY <2>2, <2>4
    <3>4. ~gone(1) => k - 1 # 0
      BY <2>1, <2>4
    <3>. HIDE DEF h
    <3>. QED  BY <2>3, <3>1, <3>2, <3>3, <3>4
  <2>5. CASE ~gone(k)
    <3>. HIDE DEF h
    <3>1. kept[k] = Append(h, seq[k])
      BY <2>2, <2>5
    <3>2. Len(h) \in Nat /\ DOMAIN h = 1 .. Len(h) /\ seq[k] \in S
      BY <1>1, <2>3
    <3>3. /\ kept[k] \in Seq(S) /\ DOMAIN kept[k] = 1 .. Len(h) + 1 /\ Len(kept[k]) = Len(h) + 1
          /\ \A i \in 1 .. Len(h) : kept[k][i] = h[i]
          /\ kept[k][Len(h) + 1] = seq[k]
      BY <2>3, <3>1, <3>2
    <3>4. \A i \in 1 .. Len(h) + 1 : i \in 1 .. Len(h) \/ i = Len(h) + 1
      BY <3>2
    <3>5. \A j \in 1 .. k : j \in 1 .. k - 1 \/ j = k
      BY <2>1
    <3>6. k \in 1 .. k /\ Len(h) + 1 \in 1 .. Len(h) + 1 /\ 1 .. Len(h) \subseteq 1 .. Len(h) + 1
          /\ 1 .. k - 1 \subseteq 1 .. k
      BY <2>1, <3>2
    <3>7. \A i \in DOMAIN kept[k] : \E j \in 1 .. k : ~gone(j) /\ kept[k][i] = seq[j]
      <4>1. ASSUME NEW i \in 1 .. Len(h) PROVE \E j \in 1 .. k : ~gone(j) /\ kept[k][i] = seq[j]
        <5>1. i \in DOMAIN h /\ kept[k][i] = h[i]
          BY <3>2, <3>3
        <5>2. PICK j \in 1 .. k - 1 : ~gone(j) /\ h[i] = seq[j]
          BY <2>3, <5>1
        <5>3. j \in 1 .. k
          BY <3>6
        <5>. QED  BY <5>1, <5>2, <5>3
      <4>2. \E j \in 1 .. k : ~gone(j) /\ kept[k][Len(h) + 1] = seq[j]
        BY <2>5, <3>3, <3>6
      <4>. QED  BY <3>3, <3>4, <4>1, <4>2
    <3>8. \A j \in 1 .. k : ~gone(j) => \E i \in DOMAIN kept[k] : kept[k][i] = seq[j]
      <4>1. ASSUME NEW j \in 1 .. k - 1, ~gone(j) PROVE \E i \in DOMAIN kept[k] : kept[k][i] = seq[j]
        <5>1. PICK i \in DOMAIN h : h[i] = seq[j]
          BY <2>3, <4>1
        <5>2. i \in 1 .. Len(h)
          BY <3>2
        <5>3. i \in DOMAIN kept[k] /\ kept[k][i] = seq[j]
          BY <3>3, <3>6, <5>1, <5>2
        <5>. QED  BY <5>3
      <4>2. \E i \in DOMAIN kept[k] : kept[k][i] = seq[k]
        BY <3>3, <3>6
      <4>. QED  BY <3>5, <4>1, <4>2
    <3>9. ~gone(1) => Len(kept[k]) # 0 /\ kept[k][1] = seq[1]
      <4>1. CASE k = 1
        <5>1. Len(h) = 0
          <6>1. k - 1 = 0
            BY <4>1
          <6>2. DOMAIN h = {}
            BY <2>3, <6>1
          <6>. QED  BY <3>2, <6>2
        <5>. QED  BY <3>3, <4>1, <5>1
      <4>2. CASE k # 1
        <5>1. k - 1 # 0
          BY <2>1, <4>2
        <5>. QED  BY <2>3, <3>2, <3>3, <5>1
      <4>. QED  BY <4>1, <4>2
    <3>10. ASSUME injective(seq) PROVE injective(kept[k])
      <4>1. \A i \in 1 .. Len(h) : kept[k][i] # seq[k]
        <5>. SUFFICES ASSUME NEW i \in 1 .. Len(h), kept[k][i] = seq[k] PROVE FALSE
          OBVIOUS
        <5>1. PICK j \in 1 .. k - 1 : h[i] = seq[j]
          BY <2>3, <3>2
        <5>2. j \in DOMAIN seq /\ k \in DOMAIN seq /\ j # k /\ seq[j] = seq[k]
          BY <1>1, <3>3, <5>1
        <5>. QED  BY <3>10, <5>2
      <4>2. injective(h)
        BY <2>3, <3>10
      <4>. QED  BY <3>2, <3>3, <3>4, <4>1, <4>2
    <3>. QED  BY <2>1, <3>3, <3>7, <3>8, <3>9, <3>10
  <2>. QED  BY <2>4, <2>5
<1>. HIDE DEF fits
<1>7. fits(M)
  <2>. SUFFICES ASSUME ~fits(M) PROVE FALSE
    OBVIOUS
  <2>. DEFINE T == {k \in 0 .. M : ~fits(k)}
  <2>1. T \in SUBSET Nat /\ T # {}
    BY <1>1
  <2>2. PICK k \in T : \A j \in T : k <= j
    BY <2>1, LeastNumber, Zenon
  <2>3. k \in 1 .. M /\ k - 1 \in 0 .. M /\ ~fits(k)
    BY <1>1, <1>5, <2>2
  <2>4. k - 1 \notin T
    BY <1>1, <2>2, <2>3
  <2>. QED  BY <1>6, <2>3, <2>4
<1>. DEFINE rest == kept[M]
<1>8. /\ rest \in Seq(S)
      /\ \A i \in DOMAIN rest : \E j \in 1 .. M : ~gone(j) /\ rest[i] = seq[j]
      /\ \A j \in 1 .. M : ~gone(j) => \E i \in DOMAIN rest : rest[i] = seq[j]
      /\ M # 0 /\ ~gone(1) => Len(rest) # 0 /\ rest[1] = seq[1]
      /\ injective(seq) => injective(rest)
  BY <1>7 DEF fits
<1>. HIDE DEF rest
<1>9. ToSet(rest) = {x \in ToSet(seq) : nodes[x].type # Deleted}
  <2>1. ASSUME NEW x \in ToSet(rest) PROVE x \in ToSet(seq) /\ nodes[x].type # Deleted
    <3>1. PICK i \in DOMAIN rest : x = rest[i]
      BY DEF ToSet
    <3>2. PICK j \in 1 .. M : ~gone(j) /\ rest[i] = seq[j]
      BY <1>8
    <3>. QED  BY <1>1, <3>1, <3>2 DEF ToSet, gone
  <2>2. ASSUME NEW x \in ToSet(seq), nodes[x].type # Deleted PROVE x \in ToSet(rest)
    <3>1. PICK j \in 1 .. M : x = seq[j]
      BY <1>1 DEF ToSet
    <3>2. \E i \in DOMAIN rest : rest[i] = seq[j]
      BY <1>8, <2>2, <3>1 DEF gone
    <3>. QED  BY <3>1, <3>2 DEF ToSet
  <2>. QED  BY <2>1, <2>2
<1>10. seq # <<>> /\ nodes[seq[1]].type # Deleted => rest # <<>> /\ rest[1] = seq[1]
  BY <1>1, <1>8 DEF gone, M
<1>. QED  BY <1>2, <1>8, <1>9, <1>10 DEF rest, IsInjective
-----------------------------------------------------------------------------
(* What is in the list is the number of a node. *)
LEMMA ListedIs ==
  ASSUME NodesInv
  PROVE  /\ Listed \subseteq 1 .. made /\ 1 .. made \subseteq Id /\ Listed \subseteq Id
         /\ made \in Nat /\ N \in Nat /\ IsFiniteSet(Listed)
<1>1. made \in Nat /\ N \in Nat /\ made <= 2 * N
  BY NAssumption DEF NodesInv
<1>2. 1 .. made \subseteq Id
  BY <1>1 DEF Id
<1>3. Listed \subseteq 1 .. made
  <2>1. \A k \in DOMAIN list : list[k] \in 1 .. made
    BY DEF NodesInv
  <2>. QED  BY <2>1 DEF Listed, ToSet
<1>4. IsFiniteSet(1 .. made)
  BY <1>1, FS_Interval
<1>. QED  BY <1>1, <1>2, <1>3, <1>4, FS_Subset

(* The successors of a listed node, in numbers. *)
LEMMA SuccessorsAre ==
  ASSUME NodesInv, NEW n \in Listed
  PROVE  /\ SuccessorCount(n) \in 0 .. 2
         /\ DOMAIN node[n].succ = 1 .. SuccessorCount(n)
         /\ ToSet(node[n].succ) = {node[n].succ[i] : i \in 1 .. SuccessorCount(n)}
         /\ \A i \in 1 .. SuccessorCount(n) : node[n].succ[i] \in 1 .. made
         /\ Type(n) \in {"FALL_THROUGH", "JUMP"} => SuccessorCount(n) = 1
         /\ IsCond(n) => SuccessorCount(n) = 2
<1>1. IsNode(node[n], made) /\ HasSuccessors(node[n])
  BY ListedIs DEF NodesInv
<1>2. Len(node[n].succ) \in 0 .. 2
  BY <1>1 DEF HasSuccessors, Types
<1>3. node[n].succ \in Seq(1 .. made)
  BY <1>1 DEF IsNode
<1>. DEFINE succ == node[n].succ
<1>4. DOMAIN succ = 1 .. Len(succ) /\ \A i \in 1 .. Len(succ) : succ[i] \in 1 .. made
  <2>1. succ \in Seq(1 .. made)
    BY <1>3
  <2>. HIDE DEF succ
  <2>. QED  BY <2>1, LenProperties, ElementOfSeq
<1>5. /\ Type(n) \in {"FALL_THROUGH", "JUMP"} => Len(succ) = 1
      /\ IsCond(n) => Len(succ) = 2
  BY <1>1 DEF HasSuccessors, Type, IsCond
<1>6. ToSet(succ) = {succ[i] : i \in 1 .. Len(succ)}
  BY <1>4 DEF ToSet
<1>. QED  BY <1>2, <1>4, <1>5, <1>6 DEF SuccessorCount

(***************************************************************************)
(* When n is the only way to d, no other node points to it, and n only     *)
(* once.                                                                   *)
(***************************************************************************)
LEMMA OnlyWay ==
  ASSUME NodesInv, NEW n \in Listed, NEW d, PredecessorCount(d) = 1,
         NEW i \in {0, 1}, i < SuccessorCount(n), Successor(n, i) = d
  PROVE  /\ \A p \in Listed \ {n} : d \notin ToSet(node[p].succ)
         /\ \A j \in {0, 1} : j < SuccessorCount(n) /\ Successor(n, j) = d => j = i
<1>. DEFINE edge(e) == e[2] < SuccessorCount(e[1]) /\ Successor(e[1], e[2]) = d
            S == {e \in Listed \X {0, 1} : edge(e)}
<1>1. IsFiniteSet(S)
  <2>1. IsFiniteSet({0, 1})
    <3>1. IsFiniteSet({0}) /\ {0} \cup {1} = {0, 1}
      BY FS_Singleton
    <3>. QED  BY <3>1, FS_AddElement
  <2>2. IsFiniteSet(Listed \X {0, 1})
    BY <2>1, ListedIs, FS_Product
  <2>. QED  BY <2>2, FS_Subset
<1>2. Cardinality(S) = 1
  BY DEF PredecessorCount
<1>. HIDE DEF S
<1>3. PICK e : S = {e}
  BY <1>1, <1>2, FS_Singleton
<1>4. \A p \in Listed, j \in {0, 1} : j < SuccessorCount(p) /\ Successor(p, j) = d => <<p, j>> \in S
  <2>. SUFFICES ASSUME NEW p \in Listed, NEW j \in {0, 1}, j < SuccessorCount(p), Successor(p, j) = d
                PROVE  <<p, j>> \in S
    OBVIOUS
  <2>1. <<p, j>>[1] = p /\ <<p, j>>[2] = j /\ <<p, j>> \in Listed \X {0, 1}
    OBVIOUS
  <2>2. edge(<<p, j>>)
    BY <2>1
  <2>. HIDE DEF edge
  <2>. QED  BY <2>1, <2>2 DEF S
<1>5. e = <<n, i>>
  BY <1>3, <1>4
<1>6. \A p \in Listed, j \in {0, 1} : j < SuccessorCount(p) /\ Successor(p, j) = d => p = n /\ j = i
  BY <1>3, <1>4, <1>5
<1>7. ASSUME NEW p \in Listed, d \in ToSet(node[p].succ) PROVE p = n
  <2>1. PICK k \in 1 .. SuccessorCount(p) : node[p].succ[k] = d
    BY <1>7, SuccessorsAre
  <2>2. k - 1 \in {0, 1} /\ k - 1 < SuccessorCount(p) /\ (k - 1) + 1 = k
    BY SuccessorsAre
  <2>3. Successor(p, k - 1) = d
    BY <2>1, <2>2 DEF Successor
  <2>. QED  BY <1>6, <2>2, <2>3
<1>. QED  BY <1>6, <1>7

-----------------------------------------------------------------------------
(* What Fold makes of the nodes. *)
Folded(n, f) ==
  /\ node' = [m \in Id |-> node'[m]]
  /\ \A m \in Id :
       /\ node'[m] = [g \in {"type", "body", "cond", "succ"} |-> node'[m][g]]
       /\ node'[m].type = IF m \in f.gone THEN Deleted ELSE node[m].type
       /\ node'[m].body = node[m].body
       /\ node'[m].cond = IF m = n THEN f.cond ELSE node[m].cond
       /\ node'[m].succ = IF m = n THEN f.succ ELSE node[m].succ

LEMMA FoldNodes ==
  ASSUME NodesInv, NEW n \in Id, NEW f, Fold(n, f)
  PROVE  Folded(n, f)
<1>. DEFINE x == [node[n] EXCEPT !.cond = f.cond, !.succ = f.succ]
            mid == [node EXCEPT ![n] = x]
<1>1. node = [m \in Id |-> node[m]]
      /\ \A m \in Id : node[m] = [g \in {"type", "body", "cond", "succ"} |-> node[m][g]]
  BY DEF NodesInv, IsNode
<1>2. node' = [m \in Id |-> IF m \in f.gone THEN [mid[m] EXCEPT !.type = Deleted] ELSE mid[m]]
  BY <1>1 DEF Fold, MarkForDeletion, Deleted
<1>3. /\ x = [g \in {"type", "body", "cond", "succ"} |-> x[g]]
      /\ x.type = node[n].type /\ x.body = node[n].body
      /\ x.cond = f.cond /\ x.succ = f.succ
  BY <1>1
<1>. HIDE DEF x
<1>4. \A m \in Id : mid[m] = IF m = n THEN x ELSE node[m]
  BY <1>1
<1>. HIDE DEF mid
<1>5. ASSUME NEW m \in Id
      PROVE  /\ mid[m] = [g \in {"type", "body", "cond", "succ"} |-> mid[m][g]]
             /\ mid[m].type = node[m].type /\ mid[m].body = node[m].body
             /\ mid[m].cond = IF m = n THEN f.cond ELSE node[m].cond
             /\ mid[m].succ = IF m = n THEN f.succ ELSE node[m].succ
  BY <1>1, <1>3, <1>4
<1>6. ASSUME NEW m \in Id
      PROVE  /\ node'[m] = [g \in {"type", "body", "cond", "succ"} |-> node'[m][g]]
             /\ node'[m].type = IF m \in f.gone THEN Deleted ELSE node[m].type
             /\ node'[m].body = node[m].body
             /\ node'[m].cond = IF m = n THEN f.cond ELSE node[m].cond
             /\ node'[m].succ = IF m = n THEN f.succ ELSE node[m].succ
  <2>. DEFINE y == mid[m]
              z == [y EXCEPT !.type = Deleted]
  <2>1. node'[m] = IF m \in f.gone THEN z ELSE y
    BY <1>2
  <2>2. /\ y = [g \in {"type", "body", "cond", "succ"} |-> y[g]]
        /\ y.type = node[m].type /\ y.body = node[m].body
        /\ y.cond = IF m = n THEN f.cond ELSE node[m].cond
        /\ y.succ = IF m = n THEN f.succ ELSE node[m].succ
    BY <1>5
  <2>. HIDE DEF y
  <2>3. /\ z = [g \in {"type", "body", "cond", "succ"} |-> z[g]]
        /\ z.type = Deleted /\ z.body = y.body /\ z.cond = y.cond /\ z.succ = y.succ
    BY <2>2
  <2>. QED  BY <2>1, <2>2, <2>3
<1>. QED  BY <1>2, <1>6 DEF Folded

(* And of the list. *)
LEMMA FoldList ==
  ASSUME NodesInv, NEW n \in Id, NEW f, Fold(n, f)
  PROVE  /\ list' \in Seq(1 .. made)
         /\ Listed' = Listed \ f.gone
<1>1. list' = RemoveDeletedNodes(list, node') /\ list \in Seq(1 .. made)
  BY DEF Fold, NodesInv
<1>2. list' \in Seq(1 .. made) /\ ToSet(list') = {x \in Listed : node'[x].type # Deleted}
  BY <1>1, Remaining DEF Listed
<1>3. \A x \in Listed : x \in Id /\ node[x].type # Deleted
  BY ListedIs DEF NodesInv, HasSuccessors, Types, Deleted
<1>4. \A x \in Listed : node'[x].type # Deleted <=> x \notin f.gone
  <2>1. Folded(n, f)
    BY FoldNodes
  <2>. QED  BY <1>3, <2>1 DEF Folded
<1>. QED  BY <1>2, <1>4 DEF Listed

(***************************************************************************)
(* A folding of n into f keeps the graph well formed, and if n is the only *)
(* way to what goes, nothing is left that points to it.                    *)
(***************************************************************************)
Foldable(n, f) ==
  /\ IsCondition(f.cond)
  /\ f.succ \in Seq(1 .. made) /\ Len(f.succ) = 2
  /\ f.gone \subseteq Listed
  /\ (\A d \in f.gone : OnlyFrom(n, d)) =>
       /\ ToSet(f.succ) \subseteq Listed \ f.gone
       /\ \A m \in Listed \ {n} : ToSet(node[m].succ) \cap f.gone = {}

LEMMA FoldInv ==
  ASSUME IInv, phase # "undefined", NEW n \in Listed, IsCond(n),
         NEW f, Foldable(n, f), Fold(n, f),
         NEW next \in {"expr", "node"}, phase' = Thereafter(next)
  PROVE  NodesInv' /\ WalkInv' /\ CarefulMeansDefined'
<1>1. /\ NodesInv /\ Closed /\ Cardinality(Listed) + made <= 2 * N
      /\ careless \in BOOLEAN
      /\ Listed \subseteq Id /\ n \in Id /\ IsFiniteSet(Listed) /\ made \in Nat /\ N \in Nat
  BY ListedIs DEF IInv, WalkInv, MatchInv
<1>2. Folded(n, f) /\ list' \in Seq(1 .. made) /\ Listed' = Listed \ f.gone /\ made' = made
  BY <1>1, FoldNodes, FoldList DEF Fold
<1>3. \A m \in Listed' : HasSuccessors(node'[m])
  <2>. SUFFICES ASSUME NEW m \in Listed' PROVE HasSuccessors(node'[m])
    OBVIOUS
  <2>1. m \in Id /\ m \in Listed /\ HasSuccessors(node[m]) /\ node'[m].type = node[m].type
    BY <1>1, <1>2 DEF Folded, NodesInv
  <2>2. CASE m = n
    <3>1. node'[m].succ = f.succ /\ Len(f.succ) = 2 /\ node'[m].type = "CONDITIONAL_JUMP"
      BY <1>2, <2>1, <2>2 DEF Folded, Foldable, IsCond, Type
    <3>. QED  BY <3>1 DEF HasSuccessors, Types
  <2>3. CASE m # n
    <3>1. node'[m].succ = node[m].succ
      BY <1>2, <2>1, <2>3 DEF Folded
    <3>. QED  BY <2>1, <3>1 DEF HasSuccessors
  <2>. QED  BY <2>2, <2>3
<1>4. ASSUME NEW m \in Id PROVE IsNode(node'[m], made)
  <2>1. IsNode(node[m], made)
    BY <1>1 DEF NodesInv
  <2>2. /\ node'[m] = [g \in {"type", "body", "cond", "succ"} |-> node'[m][g]]
        /\ node'[m].body \in Seq(Block)
    BY <1>2, <2>1 DEF Folded, IsNode
  <2>3. node'[m].cond = IF m = n THEN f.cond ELSE node[m].cond
    BY <1>2 DEF Folded
  <2>4. IsCondition(node'[m].cond)
    BY <2>1, <2>3, Zenon DEF Foldable, IsNode
  <2>5. node'[m].succ \in Seq(1 .. made)
    BY <1>2, <2>1 DEF Folded, Foldable, IsNode
  <2>. QED  BY <2>2, <2>4, <2>5 DEF IsNode
<1>5. NodesInv'
  <2>1. (made \in N .. 2 * N)'
    BY <1>1, <1>2 DEF NodesInv
  <2>2. node' = [m \in Id |-> node'[m]]
    BY <1>2 DEF Folded
  <2>. QED  BY <1>2, <1>3, <1>4, <2>1, <2>2 DEF NodesInv
<1>6. phase' # "undefined" <=> Closed'
  <2>1. phase' = IF Closed' THEN next ELSE "undefined"
    BY DEF Thereafter, Closed, Listed
  <2>. QED  BY <2>1
<1>7. WalkInv'
  <2>1. IsFiniteSet(Listed') /\ Cardinality(Listed') <= Cardinality(Listed)
    BY <1>1, <1>2, FS_Subset
  <2>2. Cardinality(Listed') \in Nat /\ Cardinality(Listed) \in Nat
    BY <1>1, <2>1, FS_CardinalityType
  <2>3. Cardinality(Listed') + made' <= 2 * N
    BY <1>1, <1>2, <2>1, <2>2
  <2>. QED  BY <1>6, <2>3 DEF WalkInv
<1>8. ASSUME ~careless' PROVE Closed'
  <2>1. \A d \in f.gone : OnlyFrom(n, d)
    BY <1>8 DEF Fold
  <2>2. /\ ToSet(f.succ) \subseteq Listed \ f.gone
        /\ \A m \in Listed \ {n} : ToSet(node[m].succ) \cap f.gone = {}
    BY <2>1 DEF Foldable
  <2>3. ASSUME NEW m \in Listed' PROVE ToSet(node'[m].succ) \subseteq Listed'
    <3>1. m \in Listed /\ m \in Id /\ node'[m].succ = IF m = n THEN f.succ ELSE node[m].succ
      BY <1>1, <1>2 DEF Folded
    <3>. QED  BY <1>1, <1>2, <2>2, <3>1 DEF Closed
  <2>. QED  BY <2>3 DEF Closed
<1>. QED  BY <1>5, <1>6, <1>7, <1>8 DEF CarefulMeansDefined

-----------------------------------------------------------------------------
(* Conditions put together are conditions. *)
LEMMA ConditionsAre ==
  ASSUME NEW e, IsCondition(e), NEW f, IsCondition(f)
  PROVE  IsCondition(Or(e, f)) /\ IsCondition(And(e, f)) /\ IsCondition(Not(e))
<1>1. ASSUME NEW v PROVE IsCondition(Sequel(e, v, f))
  BY DEF Sequel, IsCondition
<1>2. IsCondition(Not(e))
  <2>. DEFINE on == [x \in DOMAIN e.on |-> [o \in BOOLEAN |->
                 IF e.on[x][o] = Yes THEN No ELSE IF e.on[x][o] = No THEN Yes ELSE e.on[x][o]]]
  <2>1. DOMAIN on \subseteq Block
    BY DEF IsCondition
  <2>2. Not(e) = [e EXCEPT !.on = on]
    BY DEF Not
  <2>. HIDE DEF on
  <2>3. e = [first |-> e.first, on |-> e.on]
    BY DEF IsCondition
  <2>4. Not(e) = [first |-> e.first, on |-> on]
    BY <2>2, <2>3
  <2>. QED  BY <2>1, <2>4 DEF IsCondition
<1>. QED  BY <1>1, <1>2 DEF Or, And

(* Reconnecting a conditional jump. *)
LEMMA Reconnected ==
  ASSUME NEW a, NEW b, NEW old, NEW new
  PROVE  /\ ReconnectSuccessor(<<a, b>>, old, new) =
              <<IF a = old THEN new ELSE a, IF b = old THEN new ELSE b>>
         /\ ReconnectFollower(<<a, b>>, new) = <<a, new>>
BY DEF ReconnectSuccessor, ReconnectFollower

(* The two ways out of a conditional jump. *)
LEMMA CondIs ==
  ASSUME IInv, phase # "undefined", NEW n \in Listed, IsCond(n)
  PROVE  /\ NodesInv /\ n \in Id /\ Listed \subseteq 1 .. made /\ IsCondition(node[n].cond)
         /\ SuccessorCount(n) = 2
         /\ node[n].succ = <<Successor(n, 0), Successor(n, 1)>>
         /\ Successor(n, 0) \in Listed /\ Successor(n, 1) \in Listed
         /\ ToSet(node[n].succ) = {Successor(n, 0), Successor(n, 1)}
<1>1. NodesInv /\ Closed /\ n \in Id /\ Listed \subseteq 1 .. made
  BY ListedIs DEF IInv, WalkInv
<1>. DEFINE succ == node[n].succ
<1>2. succ \in Seq(1 .. made) /\ Len(succ) = 2 /\ IsCondition(node[n].cond)
  BY <1>1, SuccessorsAre DEF NodesInv, IsNode, SuccessorCount
<1>3. succ = <<succ[1], succ[2]>> /\ ToSet(succ) = {succ[1], succ[2]}
  <2>. HIDE DEF succ
  <2>1. succ = <<succ[1], succ[2]>>
    BY <1>2
  <2>2. DOMAIN succ = {1, 2}
    BY <1>2
  <2>. QED  BY <2>1, <2>2 DEF ToSet
<1>4. ToSet(succ) \subseteq Listed
  BY <1>1 DEF Closed
<1>5. Successor(n, 0) = succ[1] /\ Successor(n, 1) = succ[2]
  BY DEF Successor
<1>. HIDE DEF succ
<1>. QED  BY <1>1, <1>2, <1>3, <1>4, <1>5 DEF SuccessorCount, succ

(* The one way out of a jump. *)
LEMMA JumpIs ==
  ASSUME IInv, phase # "undefined", NEW n \in Listed, Type(n) \in {"FALL_THROUGH", "JUMP"}
  PROVE  /\ NodesInv /\ n \in Id /\ Listed \subseteq 1 .. made
         /\ SuccessorCount(n) = 1
         /\ Successor(n, 0) \in Listed
         /\ ToSet(node[n].succ) = {Successor(n, 0)}
<1>1. NodesInv /\ Closed /\ n \in Id /\ Listed \subseteq 1 .. made
  BY ListedIs DEF IInv, WalkInv
<1>. DEFINE succ == node[n].succ
<1>2. succ \in Seq(1 .. made) /\ Len(succ) = 1
  BY <1>1, SuccessorsAre DEF NodesInv, IsNode, SuccessorCount
<1>3. ToSet(succ) = {succ[1]}
  <2>. HIDE DEF succ
  <2>1. DOMAIN succ = {1}
    BY <1>2
  <2>. QED  BY <2>1 DEF ToSet
<1>4. ToSet(succ) \subseteq Listed
  BY <1>1 DEF Closed
<1>5. Successor(n, 0) = succ[1]
  BY DEF Successor
<1>. HIDE DEF succ
<1>. QED  BY <1>1, <1>2, <1>3, <1>4, <1>5 DEF SuccessorCount, succ

(***************************************************************************)
(* A node that goes, and that only n leads to.                             *)
(***************************************************************************)
LEMMA OnlyWayOut ==
  ASSUME IInv, phase # "undefined", NEW n \in Listed, IsCond(n), NEW i \in {0, 1},
         OnlyFrom(n, Successor(n, i))
  PROVE  /\ \A p \in Listed \ {n} : Successor(n, i) \notin ToSet(node[p].succ)
         /\ Successor(n, 1 - i) # Successor(n, i)
         /\ Successor(n, i) # n
<1>1. i < SuccessorCount(n) /\ 1 - i \in {0, 1} /\ 1 - i < SuccessorCount(n) /\ 1 - i # i
  BY CondIs
<1>2. NodesInv /\ PredecessorCount(Successor(n, i)) = 1
  BY CondIs DEF OnlyFrom
<1>. DEFINE d == Successor(n, i)
<1>3. d = Successor(n, i)
  OBVIOUS
<1>. HIDE DEF d
<1>4. /\ \A p \in Listed \ {n} : d \notin ToSet(node[p].succ)
      /\ \A j \in {0, 1} : j < SuccessorCount(n) /\ Successor(n, j) = d => j = i
  BY <1>1, <1>2, <1>3, OnlyWay
<1>. QED  BY <1>1, <1>3, <1>4 DEF OnlyFrom

(* What is left to see of a folding: where the two ways out lead. *)
LEMMA FoldableIf ==
  ASSUME IInv, phase # "undefined", NEW n \in Listed, IsCond(n), NEW f,
         IsCondition(f.cond),
         NEW a \in Listed, NEW b \in Listed, f.succ = <<a, b>>,
         f.gone \subseteq {Successor(n, 0), Successor(n, 1)},
         (\A d \in f.gone : OnlyFrom(n, d)) => a \notin f.gone /\ b \notin f.gone
  PROVE  Foldable(n, f)
<1>1. /\ Successor(n, 0) \in Listed /\ Successor(n, 1) \in Listed /\ Listed \subseteq 1 .. made
  BY CondIs
<1>2. f.succ \in Seq(1 .. made) /\ Len(f.succ) = 2 /\ ToSet(f.succ) = {a, b}
  <2>1. a \in 1 .. made /\ b \in 1 .. made
    BY <1>1
  <2>. QED  BY <2>1 DEF ToSet
<1>3. ASSUME \A d \in f.gone : OnlyFrom(n, d), NEW m \in Listed \ {n}, NEW d \in f.gone
      PROVE  d \notin ToSet(node[m].succ)
  <2>1. PICK i \in {0, 1} : d = Successor(n, i)
    BY <1>3
  <2>2. OnlyFrom(n, Successor(n, i))
    BY <1>3, <2>1
  <2>. QED  BY <1>3, <2>1, <2>2, OnlyWayOut
<1>. QED  BY <1>1, <1>2, <1>3 DEF Foldable

(* The target of the jump, when it is a conditional jump itself. *)
LEMMA TargetIs ==
  ASSUME IInv, phase # "undefined", NEW n \in Listed, IsCond(n), NEW d \in Listed, IsCond(d),
         NEW i \in {0, 1}, d = Successor(n, i)
  PROVE  /\ Successor(d, 0) \in Listed /\ Successor(d, 1) \in Listed
         /\ IsCondition(node[n].cond) /\ IsCondition(node[d].cond)
         /\ node[n].succ = <<Successor(n, 0), Successor(n, 1)>>
         /\ OnlyFrom(n, d) =>
              /\ Successor(d, 0) # d /\ Successor(d, 1) # d
              /\ Successor(n, 1 - i) # d /\ d # n
<1>1. /\ Successor(d, 0) \in Listed /\ Successor(d, 1) \in Listed
      /\ ToSet(node[d].succ) = {Successor(d, 0), Successor(d, 1)}
      /\ IsCondition(node[n].cond) /\ IsCondition(node[d].cond)
      /\ node[n].succ = <<Successor(n, 0), Successor(n, 1)>>
  BY CondIs
<1>2. ASSUME OnlyFrom(n, d)
      PROVE  /\ Successor(d, 0) # d /\ Successor(d, 1) # d
             /\ Successor(n, 1 - i) # d /\ d # n
  <2>1. /\ \A p \in Listed \ {n} : d \notin ToSet(node[p].succ)
        /\ Successor(n, 1 - i) # d /\ d # n
    BY <1>2, OnlyWayOut
  <2>. QED  BY <1>1, <2>1
<1>. QED  BY <1>1, <1>2

(***************************************************************************)
(* Where the foldings lead, when only n leads to what they delete.         *)
(***************************************************************************)
LEMMA OrFollowerFoldable ==
  ASSUME IInv, phase # "undefined", NEW n \in Listed, IsCond(n), OrFollower(n)
  PROVE  Foldable(n, OrFollowerFolded(n))
<1>. DEFINE s0 == Successor(n, 0)
            s1 == Successor(n, 1)
            f == OrFollowerFolded(n)
<1>1. s0 \in Listed /\ s1 \in Listed /\ IsCond(s1)
  BY CondIs DEF OrFollower
<1>2. /\ Successor(s1, 1) \in Listed
      /\ IsCondition(node[n].cond) /\ IsCondition(node[s1].cond)
      /\ node[n].succ = <<s0, s1>>
      /\ OnlyFrom(n, s1) => Successor(s1, 1) # s1 /\ Successor(n, 1 - 1) # s1
  BY <1>1, TargetIs
<1>3. /\ f.cond = Or(node[n].cond, node[s1].cond)
      /\ f.succ = ReconnectFollower(node[n].succ, Successor(s1, 1))
      /\ f.gone = {s1}
  BY DEF OrFollowerFolded
<1>4. f.succ = <<s0, Successor(s1, 1)>>
  BY <1>2, <1>3, Reconnected
<1>5. IsCondition(f.cond)
  BY <1>2, <1>3, ConditionsAre
<1>. HIDE DEF f
<1>. QED  BY <1>1, <1>2, <1>3, <1>4, <1>5, FoldableIf DEF f

LEMMA NotOrDiamondFoldable ==
  ASSUME IInv, phase # "undefined", NEW n \in Listed, IsCond(n), NotOrDiamond(n)
  PROVE  Foldable(n, NotOrDiamondFolded(n))
<1>. DEFINE s0 == Successor(n, 0)
            s1 == Successor(n, 1)
            a == Successor(s0, 0)
            b == Successor(s0, 1)
            f == NotOrDiamondFolded(n)
<1>1. s0 \in Listed /\ s1 \in Listed /\ IsCond(s0) /\ Type(s1) = "JUMP" /\ a = Successor(s1, 0)
  BY CondIs DEF NotOrDiamond
<1>2. /\ a \in Listed /\ b \in Listed
      /\ IsCondition(node[n].cond) /\ IsCondition(node[s0].cond)
      /\ node[n].succ = <<s0, s1>>
      /\ OnlyFrom(n, s0) => a # s0 /\ b # s0 /\ s0 # n
  BY <1>1, TargetIs
<1>3. /\ f.cond = Or(Not(node[n].cond), node[s0].cond)
      /\ f.succ = ReconnectSuccessor(ReconnectFollower(node[n].succ, b), s0, a)
      /\ f.gone = {s0, s1}
  BY DEF NotOrDiamondFolded
<1>4. f.succ = <<a, IF b = s0 THEN a ELSE b>>
  <2>. HIDE DEF a, b, s0, s1
  <2>. QED  BY <1>2, <1>3, Reconnected
<1>5. IsCondition(f.cond)
  BY <1>2, <1>3, ConditionsAre
<1>6. ASSUME OnlyFrom(n, s0), OnlyFrom(n, s1) PROVE a # s1 /\ b # s1
  <2>1. \A p \in Listed \ {n} : s1 \notin ToSet(node[p].succ)
    BY <1>6, OnlyWayOut
  <2>2. ToSet(node[s0].succ) = {a, b}
    BY <1>1, CondIs
  <2>. QED  BY <1>1, <1>2, <1>6, <2>1, <2>2
<1>. DEFINE c == IF b = s0 THEN a ELSE b
<1>7. c \in Listed /\ f.succ = <<a, c>>
      /\ ((\A d \in f.gone : OnlyFrom(n, d)) => a \notin f.gone /\ c \notin f.gone)
  BY <1>1, <1>2, <1>3, <1>4, <1>6
<1>. HIDE DEF f, c
<1>. QED  BY <1>1, <1>2, <1>3, <1>5, <1>7, FoldableIf DEF f

LEMMA NotAndFollowerFoldable ==
  ASSUME IInv, phase # "undefined", NEW n \in Listed, IsCond(n), NotAndFollower(n)
  PROVE  Foldable(n, NotAndFollowerFolded(n))
<1>. DEFINE s0 == Successor(n, 0)
            s1 == Successor(n, 1)
            a == Successor(s1, 0)
            b == Successor(s1, 1)
            f == NotAndFollowerFolded(n)
<1>1. s0 \in Listed /\ s1 \in Listed /\ IsCond(s1)
  BY CondIs DEF NotAndFollower
<1>2. /\ a \in Listed /\ b \in Listed
      /\ IsCondition(node[n].cond) /\ IsCondition(node[s1].cond)
      /\ node[n].succ = <<s0, s1>>
      /\ OnlyFrom(n, s1) => a # s1 /\ b # s1
  BY <1>1, TargetIs
<1>3. /\ f.cond = And(Not(node[n].cond), node[s1].cond)
      /\ f.succ = ReconnectFollower(ReconnectSuccessor(node[n].succ, s0, a), b)
      /\ f.gone = {s1}
  BY DEF NotAndFollowerFolded
<1>4. f.succ = <<a, b>>
  <2>. DEFINE x == IF s1 = s0 THEN a ELSE s1
  <2>. HIDE DEF a, b, s0, s1
  <2>1. ReconnectSuccessor(node[n].succ, s0, a) = <<a, x>>
    BY <1>2, Reconnected
  <2>. HIDE DEF x
  <2>. QED  BY <1>3, <2>1, Reconnected
<1>5. IsCondition(f.cond)
  BY <1>2, <1>3, ConditionsAre
<1>. HIDE DEF f
<1>. QED  BY <1>1, <1>2, <1>3, <1>4, <1>5, FoldableIf DEF f

LEMMA NotOrTargetFoldable ==
  ASSUME IInv, phase # "undefined", NEW n \in Listed, IsCond(n), NotOrTarget(n)
  PROVE  Foldable(n, NotOrTargetFolded(n))
<1>. DEFINE s0 == Successor(n, 0)
            s1 == Successor(n, 1)
            a == Successor(s0, 0)
            b == Successor(s0, 1)
            f == NotOrTargetFolded(n)
<1>1. s0 \in Listed /\ s1 \in Listed /\ IsCond(s0) /\ s1 = a
  BY CondIs DEF NotOrTarget
<1>2. /\ a \in Listed /\ b \in Listed
      /\ IsCondition(node[n].cond) /\ IsCondition(node[s0].cond)
      /\ node[n].succ = <<s0, s1>>
      /\ OnlyFrom(n, s0) => a # s0 /\ b # s0
  BY <1>1, TargetIs
<1>3. /\ f.cond = Or(Not(node[n].cond), node[s0].cond)
      /\ f.succ = ReconnectSuccessor(ReconnectSuccessor(node[n].succ, s1, b), s0, a)
      /\ f.gone = {s0}
  BY DEF NotOrTargetFolded
<1>. DEFINE x == IF s0 = s1 THEN b ELSE s0
            c == IF x = s0 THEN a ELSE x
            e == IF b = s0 THEN a ELSE b
<1>4. f.succ = <<c, e>>
  <2>. HIDE DEF a, b, s0, s1
  <2>1. ReconnectSuccessor(node[n].succ, s1, b) = <<x, b>>
    BY <1>2, Reconnected
  <2>. HIDE DEF x
  <2>. QED  BY <1>3, <2>1, Reconnected
<1>5. IsCondition(f.cond)
  BY <1>2, <1>3, ConditionsAre
<1>6. /\ c \in Listed /\ e \in Listed
      /\ ((\A d \in f.gone : OnlyFrom(n, d)) => c \notin f.gone /\ e \notin f.gone)
  BY <1>1, <1>2, <1>3
<1>. HIDE DEF f, c, e
<1>. QED  BY <1>1, <1>3, <1>4, <1>5, <1>6, FoldableIf DEF f

LEMMA AndTargetFoldable ==
  ASSUME IInv, phase # "undefined", NEW n \in Listed, IsCond(n), AndTarget(n)
  PROVE  Foldable(n, AndTargetFolded(n))
<1>. DEFINE s0 == Successor(n, 0)
            s1 == Successor(n, 1)
            a == Successor(s0, 0)
            f == AndTargetFolded(n)
<1>1. s0 \in Listed /\ s1 \in Listed /\ IsCond(s0)
  BY CondIs DEF AndTarget
<1>2. /\ a \in Listed
      /\ IsCondition(node[n].cond) /\ IsCondition(node[s0].cond)
      /\ node[n].succ = <<s0, s1>>
      /\ OnlyFrom(n, s0) => a # s0 /\ Successor(n, 1 - 0) # s0
  BY <1>1, TargetIs
<1>3. /\ f.cond = And(node[n].cond, node[s0].cond)
      /\ f.succ = ReconnectSuccessor(node[n].succ, s0, a)
      /\ f.gone = {s0}
  BY DEF AndTargetFolded
<1>. DEFINE c == IF s1 = s0 THEN a ELSE s1
<1>4. f.succ = <<a, c>>
  <2>. HIDE DEF a, s0, s1
  <2>. QED  BY <1>2, <1>3, Reconnected
<1>5. IsCondition(f.cond)
  BY <1>2, <1>3, ConditionsAre
<1>6. c \in Listed /\ ((\A d \in f.gone : OnlyFrom(n, d)) => a \notin f.gone /\ c \notin f.gone)
  BY <1>1, <1>2, <1>3
<1>. HIDE DEF f, c
<1>. QED  BY <1>1, <1>2, <1>3, <1>4, <1>5, <1>6, FoldableIf DEF f

LEMMA SkippedFoldable ==
  ASSUME IInv, phase # "undefined", NEW n \in Listed, SkipsJump(n)
  PROVE  IsCond(n) /\ Foldable(n, Skipped(n))
<1>. DEFINE s0 == Successor(n, 0)
            s1 == Successor(n, 1)
            a == Successor(s1, 0)
            f == Skipped(n)
<1>1. IsCond(n) /\ Type(s1) = "JUMP"
  BY DEF SkipsJump
<1>2. /\ s0 \in Listed /\ s1 \in Listed
      /\ IsCondition(node[n].cond) /\ node[n].succ = <<s0, s1>>
  BY <1>1, CondIs
<1>3. a \in Listed /\ ToSet(node[s1].succ) = {a}
  BY <1>1, <1>2, JumpIs
<1>4. /\ f.cond = node[n].cond
      /\ f.succ = ReconnectSuccessor(node[n].succ, s1, a)
      /\ f.gone = {s1}
  BY DEF Skipped
<1>. DEFINE c == IF s0 = s1 THEN a ELSE s0
<1>5. f.succ = <<c, a>>
  <2>. HIDE DEF a, s0, s1
  <2>. QED  BY <1>2, <1>4, Reconnected
<1>6. ASSUME OnlyFrom(n, s1) PROVE a # s1 /\ s0 # s1
  <2>1. /\ \A p \in Listed \ {n} : s1 \notin ToSet(node[p].succ)
        /\ Successor(n, 1 - 1) # s1 /\ s1 # n
    BY <1>1, <1>6, OnlyWayOut
  <2>. QED  BY <1>2, <1>3, <2>1
<1>7. c \in Listed /\ ((\A d \in f.gone : OnlyFrom(n, d)) => a \notin f.gone /\ c \notin f.gone)
  BY <1>2, <1>3, <1>4, <1>6
<1>. HIDE DEF f, c
<1>. QED  BY <1>1, <1>2, <1>3, <1>4, <1>5, <1>7, FoldableIf DEF f

-----------------------------------------------------------------------------
(* One more in the list. *)
LEMMA Inserted ==
  ASSUME NEW S, NEW seq \in Seq(S), NEW k \in DOMAIN seq, NEW x \in S
  PROVE  LET longer == InsertAt(seq, k, x) IN
         /\ longer \in Seq(S) /\ longer # <<>>
         /\ ToSet(longer) = ToSet(seq) \cup {x}
         /\ longer[1] = IF k = 1 THEN x ELSE seq[1]
         /\ x \notin ToSet(seq) /\ IsInjective(seq) => IsInjective(longer)
<1>. DEFINE M == Len(seq)
            front == SubSeq(seq, 1, k - 1)
            back == SubSeq(seq, k, M)
            longer == InsertAt(seq, k, x)
<1>1. M \in Nat /\ DOMAIN seq = 1 .. M /\ k \in 1 .. M /\ \A i \in 1 .. M : seq[i] \in S
  BY LenProperties, ElementOfSeq
<1>2. /\ front \in Seq(S) /\ Len(front) = k - 1
      /\ \A i \in 1 .. k - 1 : front[i] = seq[i]
  <2>1. 1 \in 1 .. M + 1 /\ k - 1 \in 1 - 1 .. M
    BY <1>1
  <2>. QED  BY <1>1, <2>1, SubSeqProperties
<1>3. /\ back \in Seq(S) /\ Len(back) = M - k + 1
      /\ \A i \in 1 .. M - k + 1 : back[i] = seq[k + i - 1]
  <2>1. k \in 1 .. M + 1 /\ M \in k - 1 .. M
    BY <1>1
  <2>. QED  BY <1>1, <2>1, SubSeqProperties
<1>4. longer = front \o <<x>> \o back
  BY DEF InsertAt
<1>. HIDE DEF front, back, longer, M
<1>5. /\ longer \in Seq(S) /\ Len(longer) = M + 1
      /\ \A i \in 1 .. M + 1 : longer[i] = IF i < k THEN seq[i] ELSE IF i = k THEN x ELSE seq[i - 1]
  <2>. DEFINE g == front \o <<x>>
  <2>1. /\ g \in Seq(S) /\ Len(g) = k
        /\ \A i \in 1 .. k : g[i] = IF i < k THEN seq[i] ELSE x
    BY <1>1, <1>2
  <2>2. longer = g \o back
    BY <1>4
  <2>. HIDE DEF g
  <2>3. /\ longer \in Seq(S) /\ Len(longer) = k + (M - k + 1)
        /\ \A i \in 1 .. M + 1 : longer[i] = IF i <= k THEN g[i] ELSE back[i - k]
    <3>1. g \in Seq(S) /\ back \in Seq(S)
      BY <1>3, <2>1
    <3>2. /\ longer \in Seq(S) /\ Len(longer) = Len(g) + Len(back)
          /\ \A i \in 1 .. Len(g) + Len(back) :
               longer[i] = IF i <= Len(g) THEN g[i] ELSE back[i - Len(g)]
      BY <2>2, <3>1, ConcatProperties
    <3>3. 1 .. M + 1 = 1 .. Len(g) + Len(back)
      BY <1>1, <1>3, <2>1
    <3>. QED  BY <1>3, <2>1, <3>2, <3>3
  <2>4. ASSUME NEW i \in 1 .. M + 1
        PROVE  longer[i] = IF i < k THEN seq[i] ELSE IF i = k THEN x ELSE seq[i - 1]
    <3>1. CASE i <= k
      BY <1>1, <2>1, <2>3, <3>1
    <3>2. CASE i > k
      <4>1. i - k \in 1 .. M - k + 1 /\ k + (i - k) - 1 = i - 1
        BY <1>1, <3>2
      <4>2. back[i - k] = seq[i - 1]
        BY <1>3, <4>1
      <4>. QED  BY <1>1, <2>3, <3>2, <4>2
    <3>. QED  BY <1>1, <3>1, <3>2
  <2>. QED  BY <1>1, <2>3, <2>4
<1>6. DOMAIN longer = 1 .. M + 1
  BY <1>5
<1>7. ToSet(longer) = ToSet(seq) \cup {x}
  <2>1. ASSUME NEW i \in 1 .. M + 1 PROVE longer[i] \in ToSet(seq) \cup {x}
    <3>1. i < k => i \in 1 .. M
      BY <1>1
    <3>2. i > k => i - 1 \in 1 .. M
      BY <1>1
    <3>3. i < k \/ i = k \/ i > k
      BY <1>1
    <3>. QED  BY <1>1, <1>5, <3>1, <3>2, <3>3 DEF ToSet
  <2>2. ASSUME NEW i \in 1 .. M PROVE seq[i] \in ToSet(longer)
    <3>1. CASE i < k
      <4>1. i \in 1 .. M + 1 /\ longer[i] = seq[i]
        BY <1>1, <1>5, <3>1
      <4>. QED  BY <1>6, <4>1 DEF ToSet
    <3>2. CASE i >= k
      <4>1. i + 1 \in 1 .. M + 1 /\ longer[i + 1] = seq[(i + 1) - 1] /\ (i + 1) - 1 = i
        BY <1>1, <1>5, <3>2
      <4>. QED  BY <1>6, <4>1 DEF ToSet
    <3>. QED  BY <1>1, <3>1, <3>2
  <2>3. x \in ToSet(longer)
    <3>1. k \in 1 .. M + 1 /\ longer[k] = x
      BY <1>1, <1>5
    <3>. QED  BY <1>6, <3>1 DEF ToSet
  <2>4. ToSet(longer) \subseteq ToSet(seq) \cup {x}
    BY <1>6, <2>1 DEF ToSet
  <2>5. ToSet(seq) \subseteq ToSet(longer)
    BY <1>1, <2>2 DEF ToSet
  <2>. QED  BY <2>3, <2>4, <2>5
<1>8. longer # <<>> /\ longer[1] = IF k = 1 THEN x ELSE seq[1]
  BY <1>1, <1>5, <1>6
<1>9. ASSUME x \notin ToSet(seq), \A i, j \in DOMAIN seq : seq[i] = seq[j] => i = j,
             NEW i \in 1 .. M + 1, NEW j \in 1 .. M + 1, longer[i] = longer[j]
      PROVE  i = j
  <2>. DEFINE before(l) == IF l < k THEN l ELSE l - 1
  <2>1. \A l \in 1 .. M + 1 : l # k => before(l) \in 1 .. M /\ longer[l] = seq[before(l)]
    BY <1>1, <1>5
  <2>2. \A l \in 1 .. M + 1 : l # k => longer[l] # x
    <3>1. \A l \in 1 .. M : seq[l] # x
      BY <1>1, <1>9 DEF ToSet
    <3>. HIDE DEF before
    <3>. QED  BY <2>1, <3>1
  <2>3. longer[k] = x
    BY <1>1, <1>5
  <2>4. CASE i = k \/ j = k
    BY <1>9, <2>2, <2>3, <2>4
  <2>5. CASE i # k /\ j # k
    <3>1. before(i) = before(j)
      <4>. HIDE DEF before
      <4>. QED  BY <1>1, <1>9, <2>1, <2>5
    <3>. QED  BY <1>1, <2>5, <3>1
  <2>. QED  BY <2>4, <2>5
<1>. QED  BY <1>5, <1>6, <1>7, <1>8, <1>9 DEF longer, IsInjective

(***************************************************************************)
(* What a join does.                                                       *)
(***************************************************************************)
JoinsAt(n, f, new) ==
  /\ node' = [m \in Id |-> node'[m]]
  /\ \A m \in Id :
       /\ node'[m] = [g \in {"type", "body", "cond", "succ"} |-> node'[m][g]]
       /\ node'[m].type = IF m = new THEN node[f].type
                          ELSE IF m \in {n, f} THEN Deleted ELSE node[m].type
       /\ node'[m].body = IF m = new THEN node[n].body \o node[f].body ELSE node[m].body
       /\ node'[m].cond = IF m = new THEN node[f].cond ELSE node[m].cond
       /\ node'[m].succ = IF m = new THEN node[f].succ
                          ELSE ReconnectSuccessor(node[m].succ, n, new)

LEMMA JoinNodesAt ==
  ASSUME NodesInv, NEW n \in Listed, NEW f \in Listed, NEW new \in Id, new = made + 1,
         node' = MarkForDeletion([Redirected(n, new) EXCEPT ![new] = Joined(n, f)], {n, f})
  PROVE  JoinsAt(n, f, new)
<1>. DEFINE red == Redirected(n, new)
            joined == Joined(n, f)
            mid == [red EXCEPT ![new] = joined]
            Names == {"type", "body", "cond", "succ"}
<1>1. /\ \A m \in Id : node[m] = [g \in Names |-> node[m][g]]
      /\ n \in Id /\ f \in Id /\ n # new /\ f # new
  <2>1. /\ Listed \subseteq 1 .. made /\ Listed \subseteq Id /\ made \in Nat
    BY ListedIs
  <2>2. n # new /\ f # new /\ n \in Id /\ f \in Id
    BY <2>1
  <2>. QED  BY <2>2 DEF NodesInv, IsNode
<1>2. /\ joined = [g \in Names |-> joined[g]]
      /\ joined.type = node[f].type /\ joined.cond = node[f].cond /\ joined.succ = node[f].succ
      /\ joined.body = node[n].body \o node[f].body
  BY <1>1 DEF Joined
<1>3. /\ red = [m \in Id |-> red[m]]
      /\ \A m \in Id : red[m] = [node[m] EXCEPT !.succ = ReconnectSuccessor(@, n, new)]
  BY DEF Redirected
<1>4. ASSUME NEW m \in Id
      PROVE  /\ red[m] = [g \in Names |-> red[m][g]]
             /\ red[m].type = node[m].type /\ red[m].body = node[m].body /\ red[m].cond = node[m].cond
             /\ red[m].succ = ReconnectSuccessor(node[m].succ, n, new)
  <2>. DEFINE s == ReconnectSuccessor(node[m].succ, n, new)
  <2>1. red[m] = [node[m] EXCEPT !.succ = s]
    BY <1>3
  <2>. HIDE DEF s, red
  <2>. QED  BY <1>1, <2>1 DEF s
<1>. HIDE DEF red, joined
<1>5. \A m \in Id : mid[m] = IF m = new THEN joined ELSE red[m]
  BY <1>3
<1>6. node' = [m \in Id |-> IF m \in {n, f} THEN [mid[m] EXCEPT !.type = Deleted] ELSE mid[m]]
  BY DEF MarkForDeletion, Deleted, red, joined
<1>. HIDE DEF mid
<1>7. ASSUME NEW m \in Id
      PROVE  /\ node'[m] = [g \in Names |-> node'[m][g]]
             /\ node'[m].type = IF m = new THEN node[f].type
                                ELSE IF m \in {n, f} THEN Deleted ELSE node[m].type
             /\ node'[m].body = IF m = new THEN node[n].body \o node[f].body ELSE node[m].body
             /\ node'[m].cond = IF m = new THEN node[f].cond ELSE node[m].cond
             /\ node'[m].succ = IF m = new THEN node[f].succ
                                ELSE ReconnectSuccessor(node[m].succ, n, new)
  <2>. DEFINE y == mid[m]
              z == [y EXCEPT !.type = Deleted]
  <2>1. node'[m] = IF m \in {n, f} THEN z ELSE y
    BY <1>6
  <2>2. y = IF m = new THEN joined ELSE red[m]
    BY <1>5
  <2>3. y = [g \in Names |-> y[g]]
    BY <1>2, <1>4, <2>2
  <2>. HIDE DEF y
  <2>4. /\ z = [g \in Names |-> z[g]]
        /\ z.type = Deleted /\ z.body = y.body /\ z.cond = y.cond /\ z.succ = y.succ
    BY <2>3
  <2>. HIDE DEF z
  <2>5. CASE m = new
    BY <1>1, <1>2, <2>1, <2>2, <2>5
  <2>6. CASE m # new
    BY <1>4, <2>1, <2>2, <2>3, <2>4, <2>6
  <2>. QED  BY <2>5, <2>6
<1>. QED  BY <1>6, <1>7 DEF JoinsAt

(* A sequence over a set is one over a larger set. *)
LEMMA SeqGrows ==
  ASSUME NEW S, NEW T, S \subseteq T, NEW s \in Seq(S)
  PROVE  s \in Seq(T)
OBVIOUS

(* Redirecting keeps the number of successors. *)
LEMMA Redirecting ==
  ASSUME NEW S, NEW T, S \subseteq T, NEW succ \in Seq(S), NEW old, NEW new \in T
  PROVE  LET redirected == ReconnectSuccessor(succ, old, new) IN
         /\ redirected \in Seq(T) /\ Len(redirected) = Len(succ)
         /\ \A i \in DOMAIN succ : redirected[i] = IF succ[i] = old THEN new ELSE succ[i]
         /\ ToSet(redirected) \subseteq (ToSet(succ) \ {old}) \cup {new}
<1>. DEFINE redirected == ReconnectSuccessor(succ, old, new)
<1>1. /\ Len(succ) \in Nat /\ DOMAIN succ = 1 .. Len(succ)
      /\ \A i \in 1 .. Len(succ) : succ[i] \in S
  BY LenProperties, ElementOfSeq
<1>2. redirected = [i \in 1 .. Len(succ) |-> IF succ[i] = old THEN new ELSE succ[i]]
  BY <1>1 DEF ReconnectSuccessor
<1>3. redirected \in Seq(T) /\ Len(redirected) = Len(succ)
  BY <1>1, <1>2
<1>4. ToSet(redirected) \subseteq (ToSet(succ) \ {old}) \cup {new}
  BY <1>1, <1>2 DEF ToSet
<1>. QED  BY <1>1, <1>2, <1>3, <1>4

LEMMA JoinInv ==
  ASSUME IInv, JoinNodes
  PROVE  IInv'
<1>1. PICK n \in Listed, k \in DOMAIN list :
        LET f     == Successor(n, 0)
            new   == made + 1
            nodes == MarkForDeletion([Redirected(n, new) EXCEPT ![new] = Joined(n, f)], {n, f})
        IN  /\ NodePattern(n) = "Join"
            /\ made' = new
            /\ node' = nodes
            /\ list[k] = n
            /\ list' = RemoveDeletedNodes(InsertAt(list, k, new), nodes)
            /\ careless' = (careless \/ ~OnlyFrom(n, f) \/ n \in ToSet(node[f].succ))
  <2>1. \A n \in Listed : list[CHOOSE k \in DOMAIN list : list[k] = n] = n
                          /\ (CHOOSE k \in DOMAIN list : list[k] = n) \in DOMAIN list
    BY DEF Listed, ToSet
  <2>. QED  BY <2>1, Zenon DEF JoinNodes, FirstMatch
<1>2. phase = "node" /\ matches' = matches + 1 /\ phase' = Thereafter("expr")
  BY Zenon DEF JoinNodes
<1>. DEFINE f == Successor(n, 0)
            new == made + 1
            longer == InsertAt(list, k, new)
<1>3. JoinsFollower(n)
  BY <1>1, Zenon DEF NodePattern
<1>4. /\ NodesInv /\ Closed /\ Cardinality(Listed) + made <= 2 * N
      /\ f \in Listed /\ n \in Id /\ f \in Id
      /\ Listed \subseteq 1 .. made /\ 1 .. made \subseteq Id /\ IsFiniteSet(Listed)
      /\ made \in Nat /\ N \in Nat /\ made >= N
  <2>1. phase # "undefined"
    BY <1>2
  <2>2. f \in Listed
    BY <1>3, <2>1, JumpIs DEF JoinsFollower
  <2>3. NodesInv /\ Closed /\ Cardinality(Listed) + made <= 2 * N
    BY <2>1 DEF IInv, WalkInv
  <2>4. /\ Listed \subseteq 1 .. made /\ 1 .. made \subseteq Id /\ Listed \subseteq Id
        /\ IsFiniteSet(Listed) /\ made \in Nat /\ N \in Nat
    BY <2>3, ListedIs
  <2>5. made >= N
    BY <2>3, <2>4 DEF NodesInv
  <2>. QED  BY <2>2, <2>3, <2>4, <2>5
<1>5. Cardinality(Listed) \in Nat /\ Cardinality(Listed) >= 1
  <2>1. Cardinality(Listed) \in Nat /\ Cardinality(Listed) # 0
    BY <1>4, FS_CardinalityType, FS_EmptySet
  <2>. QED  BY <2>1
<1>6. new \in Id /\ new \notin Listed /\ new \in N .. 2 * N /\ new \in 1 .. new
  BY <1>4, <1>5 DEF Id
<1>7. JoinsAt(n, f, new)
  BY <1>1, <1>4, <1>6, JoinNodesAt
<1>. HIDE DEF f
<1>8. /\ longer \in Seq(1 .. new)
      /\ ToSet(longer) = Listed \cup {new}
  <2>1. list \in Seq(1 .. new)
    <3>1. list \in Seq(1 .. made) /\ 1 .. made \subseteq 1 .. new
      BY <1>4 DEF NodesInv
    <3>. QED  BY <3>1, SeqGrows
  <2>. DEFINE S == 1 .. new
  <2>2. list \in Seq(S) /\ new \in S
    BY <1>6, <2>1
  <2>. HIDE DEF S, new
  <2>3. longer \in Seq(S) /\ ToSet(longer) = ToSet(list) \cup {new}
    BY <2>2, Inserted
  <2>. QED  BY <2>3 DEF Listed, S
<1>9. list' \in Seq(1 .. new) /\ Listed' = (Listed \ {n, f}) \cup {new}
  <2>1. list' = RemoveDeletedNodes(longer, node')
    BY <1>1 DEF f
  <2>2. list' \in Seq(1 .. new) /\ ToSet(list') = {x \in ToSet(longer) : node'[x].type # Deleted}
    <3>. HIDE DEF longer, new
    <3>. QED  BY <1>8, <2>1, Remaining
  <2>3. \A x \in Listed : x \in Id /\ node[x].type # Deleted /\ x # new
    BY <1>4, <1>6 DEF NodesInv, HasSuccessors, Types, Deleted
  <2>4. \A x \in Listed \cup {new} : node'[x].type # Deleted <=> x \notin {n, f}
    BY <1>4, <1>6, <1>7, <2>3 DEF JoinsAt
  <2>. QED  BY <1>4, <1>6, <1>8, <2>2, <2>3, <2>4 DEF Listed
<1>. HIDE DEF longer
<1>10. made' = new
  BY <1>1
<1>. HIDE DEF new
<1>11. ASSUME NEW m \in Id PROVE IsNode(node'[m], new)
  <2>0. /\ made' = new /\ made \in Nat /\ 1 .. made \subseteq 1 .. new
    BY <1>4, <1>10 DEF new
  <2>1. IsNode(node[m], made) /\ IsNode(node[f], made) /\ IsNode(node[n], made)
    BY <1>4 DEF NodesInv
  <2>2. /\ node'[m] = [g \in {"type", "body", "cond", "succ"} |-> node'[m][g]]
        /\ node'[m].body = IF m = new THEN node[n].body \o node[f].body ELSE node[m].body
        /\ node'[m].cond = IF m = new THEN node[f].cond ELSE node[m].cond
        /\ node'[m].succ = IF m = new THEN node[f].succ
                           ELSE ReconnectSuccessor(node[m].succ, n, new)
    BY <1>7 DEF JoinsAt
  <2>3. node'[m].body \in Seq(Block)
    <3>1. node[m].body \in Seq(Block) /\ node[n].body \o node[f].body \in Seq(Block)
      BY <2>1 DEF IsNode
    <3>. QED  BY <2>2, <3>1
  <2>4. IsCondition(node'[m].cond)
    BY <2>1, <2>2 DEF IsNode
  <2>5. node'[m].succ \in Seq(1 .. new)
    <3>1. node[m].succ \in Seq(1 .. made) /\ node[f].succ \in Seq(1 .. made)
      BY <2>1 DEF IsNode
    <3>. DEFINE S == 1 .. made
                T == 1 .. new
    <3>4. S \subseteq T /\ new \in T /\ node[m].succ \in Seq(S) /\ node[f].succ \in Seq(S)
      BY <1>6, <2>0, <3>1
    <3>. HIDE DEF S, T
    <3>2. ReconnectSuccessor(node[m].succ, n, new) \in Seq(T)
      BY <3>4, Redirecting
    <3>3. node[f].succ \in Seq(T)
      BY <3>4, SeqGrows
    <3>. QED  BY <2>2, <3>2, <3>3 DEF T
  <2>. QED  BY <2>2, <2>3, <2>4, <2>5 DEF IsNode
<1>20. ASSUME NEW m \in Id
       PROVE  LET s == ReconnectSuccessor(node[m].succ, n, new) IN
              /\ Len(s) = Len(node[m].succ)
              /\ ToSet(s) \subseteq (ToSet(node[m].succ) \ {n}) \cup {new}
  <2>. DEFINE S == 1 .. made
              T == 1 .. new
  <2>1. S \subseteq T /\ new \in T
    BY <1>4, <1>6 DEF new
  <2>. DEFINE succ == node[m].succ
  <2>2. succ \in Seq(S)
    BY <1>4 DEF NodesInv, IsNode
  <2>. HIDE DEF S, T, succ
  <2>3. Len(ReconnectSuccessor(succ, n, new)) = Len(succ)
    BY <2>1, <2>2, Redirecting
  <2>4. ToSet(ReconnectSuccessor(succ, n, new)) \subseteq (ToSet(succ) \ {n}) \cup {new}
    BY <2>1, <2>2, Redirecting
  <2>. QED  BY <2>3, <2>4 DEF succ
<1>12. ASSUME NEW m \in Listed' PROVE HasSuccessors(node'[m])
  <2>1. CASE m = new
    <3>1. node'[m].type = node[f].type /\ node'[m].succ = node[f].succ
      BY <1>6, <1>7, <2>1 DEF JoinsAt
    <3>2. HasSuccessors(node[f])
      BY <1>4 DEF NodesInv
    <3>. QED  BY <3>1, <3>2 DEF HasSuccessors
  <2>2. CASE m # new
    <3>1. m \in Listed /\ m \notin {n, f} /\ m \in Id
      BY <1>4, <1>9, <2>2
    <3>2. node'[m].type = node[m].type /\ node'[m].succ = ReconnectSuccessor(node[m].succ, n, new)
      BY <1>7, <2>2, <3>1 DEF JoinsAt
    <3>3. HasSuccessors(node[m])
      BY <1>4, <3>1 DEF NodesInv
    <3>5. Len(node'[m].succ) = Len(node[m].succ)
      BY <1>20, <3>1, <3>2
    <3>. QED  BY <3>2, <3>3, <3>5 DEF HasSuccessors
  <2>. QED  BY <2>1, <2>2
<1>13. NodesInv'
  BY <1>6, <1>7, <1>9, <1>10, <1>11, <1>12 DEF NodesInv, JoinsAt
<1>14. phase' = IF Closed' THEN "expr" ELSE "undefined"
  BY <1>2 DEF Thereafter, Closed, Listed
<1>15. WalkInv'
  <2>. SUFFICES ASSUME phase' # "undefined" PROVE Closed' /\ Cardinality(Listed') + new <= 2 * N
    BY <1>10 DEF WalkInv
  <2>1. Closed'
    BY <1>14
  <2>2. n # f
    <3>. SUFFICES ASSUME n = f PROVE FALSE
      OBVIOUS
    <3>1. ToSet(node[n].succ) = {f}
      BY <1>2, <1>3, JumpIs DEF f, JoinsFollower
    <3>2. new \in Listed' /\ node'[new].succ = node[f].succ
      BY <1>6, <1>7, <1>9 DEF JoinsAt
    <3>3. n \in Listed'
      BY <2>1, <3>1, <3>2 DEF Closed
    <3>. QED  BY <1>6, <1>9, <3>3
  <2>3. /\ IsFiniteSet(Listed \ {n}) /\ Cardinality(Listed \ {n}) = Cardinality(Listed) - 1
    BY <1>4, FS_RemoveElement
  <2>4. /\ IsFiniteSet((Listed \ {n}) \ {f})
        /\ Cardinality((Listed \ {n}) \ {f}) = Cardinality(Listed) - 2
    <3>1. f \in Listed \ {n}
      BY <1>4, <2>2
    <3>2. /\ IsFiniteSet((Listed \ {n}) \ {f})
          /\ Cardinality((Listed \ {n}) \ {f}) = Cardinality(Listed \ {n}) - 1
      BY <2>3, <3>1, FS_RemoveElement
    <3>. QED  BY <1>5, <2>3, <3>2
  <2>5. Cardinality(((Listed \ {n}) \ {f}) \cup {new}) = Cardinality(Listed) - 1
    <3>1. new \notin (Listed \ {n}) \ {f}
      BY <1>6
    <3>2. Cardinality(((Listed \ {n}) \ {f}) \cup {new}) = Cardinality((Listed \ {n}) \ {f}) + 1
      BY <2>4, <3>1, FS_AddElement
    <3>. QED  BY <1>5, <2>4, <3>2
  <2>6. Listed' = ((Listed \ {n}) \ {f}) \cup {new}
    BY <1>9
  <2>7. Cardinality(Listed') = Cardinality(Listed) - 1
    BY <2>5, <2>6
  <2>. QED  BY <1>4, <1>5, <2>1, <2>7 DEF new
<1>16. CarefulMeansDefined'
  <2>. SUFFICES ASSUME ~careless' PROVE Closed'
    BY <1>14 DEF CarefulMeansDefined
  <2>1. OnlyFrom(n, f) /\ n \notin ToSet(node[f].succ)
    BY <1>1 DEF f
  <2>2. /\ \A p \in Listed \ {n} : f \notin ToSet(node[p].succ)
        /\ f # n
    <3>1. 0 < SuccessorCount(n) /\ 0 \in {0, 1} /\ PredecessorCount(f) = 1
      BY <1>2, <1>3, <2>1, JumpIs DEF JoinsFollower, OnlyFrom
    <3>2. Successor(n, 0) = f
      BY DEF f
    <3>. QED  BY <1>4, <2>1, <3>1, <3>2, OnlyWay DEF OnlyFrom
  <2>3. ASSUME NEW m \in Listed' PROVE ToSet(node'[m].succ) \subseteq Listed'
    <3>1. CASE m = new
      <4>1. node'[m].succ = node[f].succ
        BY <1>6, <1>7, <3>1 DEF JoinsAt
      <4>. QED  BY <1>4, <1>9, <2>1, <2>2, <4>1 DEF Closed
    <3>2. CASE m # new
      <4>1. m \in Listed /\ m \notin {n, f} /\ m \in Id
        BY <1>4, <1>9, <3>2
      <4>2. node'[m].succ = ReconnectSuccessor(node[m].succ, n, new)
        BY <1>7, <3>2, <4>1 DEF JoinsAt
      <4>5. ToSet(node'[m].succ) \subseteq (ToSet(node[m].succ) \ {n}) \cup {new}
        BY <1>20, <4>1, <4>2
      <4>6. ToSet(node[m].succ) \subseteq Listed \ {f}
        BY <1>4, <2>2, <4>1 DEF Closed
      <4>. QED  BY <1>9, <4>5, <4>6
    <3>. QED  BY <3>1, <3>2
  <2>. QED  BY <2>3 DEF Closed
<1>17. MatchInv' /\ NothingLeft'
  <2>1. matches' \in 0 .. 2
    BY <1>2 DEF IInv, MatchInv
  <2>2. phase' \in {"expr", "undefined"}
    BY <1>14
  <2>3. careless' \in BOOLEAN
    BY <1>1
  <2>. QED  BY <2>1, <2>2, <2>3 DEF MatchInv, NothingLeft
<1>. QED  BY <1>13, <1>15, <1>16, <1>17 DEF IInv

-----------------------------------------------------------------------------
(* The patterns depend on nothing but the graph. *)
LEMMA SamePatterns ==
  ASSUME UNCHANGED <<list, node>>
  PROVE  \A n : ExprPattern(n)' = ExprPattern(n) /\ NodePattern(n)' = NodePattern(n)
BY DEF ExprPattern, OrFollower, NotOrDiamond, NotAndFollower, NotOrTarget, AndTarget,
       NodePattern, JoinsFollower, SkipsJump,
       IsCond, Type, Successor, SuccessorCount, PredecessorCount, Listed, IsSingleJumpNode,
       DominatesNode, Reaches, ReachedWithout, Entry

(* Short sequences. *)
LEMMA ShortSequences ==
  ASSUME NEW S, NEW a \in S, NEW b \in S
  PROVE  /\ <<>> \in Seq(S) /\ <<a>> \in Seq(S) /\ <<a, b>> \in Seq(S)
         /\ Len(<<>>) = 0 /\ Len(<<a>>) = 1 /\ Len(<<a, b>>) = 2
OBVIOUS

LEMMA InitInv ==
  ASSUME Init
  PROVE  IInv
<1>1. PICK shape \in [Block -> Shapes] :
        /\ shape[N].type \in {"JUMP", "RETURN"}
        /\ node = [n \in Id |-> IF n \in Block THEN Created(n, shape[n]) ELSE Blank]
  BY DEF Init
<1>2. /\ list = [b \in 1 .. N |-> b] /\ made = N /\ phase = "expr" /\ matches = 0 /\ careless = FALSE
  BY DEF Init, Block
<1>3. N \in Nat \ {0} /\ Block = 1 .. N /\ Id = 1 .. 2 * N /\ Block \subseteq Id
  BY NAssumption DEF Block, Id
<1>4. list \in Seq(Block) /\ Len(list) = N /\ Listed = Block
  <2>1. list \in Seq(Block) /\ DOMAIN list = Block /\ \A b \in Block : list[b] = b
    BY <1>2, <1>3
  <2>. QED  BY <1>2, <1>3, <2>1 DEF Listed, ToSet
<1>5. IsCondition(NoTest) /\ \A b \in Block : IsCondition(Test(b))
  BY DEF NoTest, Test, IsCondition
<1>6. ASSUME NEW n \in Block
      PROVE  IsNode(node[n], N) /\ HasSuccessors(node[n])
  <2>. DEFINE s == shape[n]
  <2>1. /\ s \in Shapes
        /\ node[n] = Created(n, s)
        /\ n = N => s.type \in {"JUMP", "RETURN"}
    BY <1>1, <1>3
  <2>. HIDE DEF s
  <2>2. /\ s.type \in Types
        /\ s.type \in {"JUMP", "CONDITIONAL_JUMP"} => s.target \in Block
    BY <2>1 DEF Shapes, Types
  <2>3. n # N => n + 1 \in 1 .. N
    BY <1>3
  <2>. DEFINE body == IF s.work THEN <<n>> ELSE <<>>
              cond == IF s.type = "CONDITIONAL_JUMP" THEN Test(n) ELSE NoTest
              succs == CASE s.type = "RETURN"           -> <<>>
                         [] s.type = "JUMP"             -> <<s.target>>
                         [] s.type = "FALL_THROUGH"     -> <<n + 1>>
                         [] s.type = "CONDITIONAL_JUMP" -> <<s.target, n + 1>>
  <2>7. node[n] = [type |-> s.type, body |-> body, cond |-> cond, succ |-> succs]
    BY <2>1, Zenon DEF Created
  <2>. HIDE DEF body, cond, succs
  <2>8. /\ node[n] = [g \in {"type", "body", "cond", "succ"} |-> node[n][g]]
        /\ node[n].type = s.type /\ node[n].body = body
        /\ node[n].cond = cond /\ node[n].succ = succs
    BY <2>7
  <2>4. /\ node[n] = [g \in {"type", "body", "cond", "succ"} |-> node[n][g]]
        /\ node[n].type = s.type
        /\ node[n].body = IF s.work THEN <<n>> ELSE <<>>
        /\ node[n].cond = IF s.type = "CONDITIONAL_JUMP" THEN Test(n) ELSE NoTest
        /\ node[n].succ = CASE s.type = "RETURN"           -> <<>>
                            [] s.type = "JUMP"             -> <<s.target>>
                            [] s.type = "FALL_THROUGH"     -> <<n + 1>>
                            [] s.type = "CONDITIONAL_JUMP" -> <<s.target, n + 1>>
    BY <2>8, Zenon DEF body, cond, succs
  <2>5. node[n].body \in Seq(Block) /\ IsCondition(node[n].cond)
    <3>1. <<n>> \in Seq(Block) /\ <<>> \in Seq(Block)
      OBVIOUS
    <3>. QED  BY <1>5, <2>4, <3>1
  <2>6. node[n].succ \in Seq(1 .. N) /\ HasSuccessors(node[n])
    <3>. DEFINE succ == node[n].succ
    <3>1. CASE s.type = "RETURN"
      <4>1. succ = <<>> /\ n \in Block
        BY <2>4, <3>1
      <4>2. succ \in Seq(Block) /\ Len(succ) = 0
        BY <4>1, ShortSequences
      <4>. QED  BY <1>3, <2>4, <3>1, <4>2 DEF HasSuccessors, Types
    <3>2. CASE s.type = "JUMP"
      <4>1. succ = <<s.target>> /\ s.target \in Block
        BY <2>2, <2>4, <3>2
      <4>2. succ \in Seq(Block) /\ Len(succ) = 1
        BY <4>1, ShortSequences
      <4>. QED  BY <1>3, <2>4, <3>2, <4>2 DEF HasSuccessors, Types
    <3>3. CASE s.type = "FALL_THROUGH"
      <4>1. succ = <<n + 1>> /\ n + 1 \in Block
        BY <1>3, <2>1, <2>3, <2>4, <3>3
      <4>2. succ \in Seq(Block) /\ Len(succ) = 1
        BY <4>1, ShortSequences
      <4>. QED  BY <1>3, <2>4, <3>3, <4>2 DEF HasSuccessors, Types
    <3>4. CASE s.type = "CONDITIONAL_JUMP"
      <4>1. succ = <<s.target, n + 1>> /\ s.target \in Block /\ n + 1 \in Block
        BY <1>3, <2>1, <2>2, <2>3, <2>4, <3>4
      <4>2. succ \in Seq(Block) /\ Len(succ) = 2
        BY <4>1, ShortSequences
      <4>. QED  BY <1>3, <2>4, <3>4, <4>2 DEF HasSuccessors, Types
    <3>. QED  BY <2>2, <3>1, <3>2, <3>3, <3>4 DEF Types
  <2>. QED  BY <2>4, <2>5, <2>6 DEF IsNode
<1>7. ASSUME NEW n \in Id, n \notin Block
      PROVE  IsNode(node[n], N)
  <2>1. node[n] = Blank
    BY <1>1, <1>7
  <2>. QED  BY <1>5, <2>1 DEF Blank, IsNode
<1>8. NodesInv
  <2>1. made \in N .. 2 * N /\ list \in Seq(1 .. made)
    BY <1>2, <1>3, <1>4
  <2>2. node = [n \in Id |-> node[n]]
    BY <1>1
  <2>. QED  BY <1>2, <1>4, <1>6, <1>7, <2>1, <2>2 DEF NodesInv
<1>9. WalkInv
  <2>1. ASSUME NEW n \in Listed PROVE ToSet(node[n].succ) \subseteq Listed
    <3>1. node[n].succ \in Seq(1 .. N)
      BY <1>4, <1>6 DEF IsNode
    <3>. DEFINE succ == node[n].succ
    <3>2. succ \in Seq(Block)
      BY <1>3, <3>1
    <3>. HIDE DEF succ
    <3>3. ToSet(succ) \subseteq Block
      BY <3>2 DEF ToSet
    <3>. QED  BY <1>4, <3>3 DEF succ
  <2>2. Cardinality(Listed) = N
    BY <1>3, <1>4, FS_Interval
  <2>. QED  BY <1>2, <1>3, <2>1, <2>2 DEF WalkInv, Closed
<1>10. MatchInv /\ CarefulMeansDefined /\ NothingLeft
  <2>1. phase = "expr" /\ matches = 0 /\ careless = FALSE
    BY <1>2, Zenon
  <2>2. careless \in BOOLEAN /\ matches \in 0 .. 2
    <3>1. FALSE \in BOOLEAN /\ 0 \in 0 .. 2
      OBVIOUS
    <3>. QED  BY <2>1, <3>1, Zenon
  <2>3. phase # "node" /\ phase # "done" /\ phase # "undefined"
    BY <2>1
  <2>. QED  BY <2>1, <2>2, <2>3, Zenon DEF MatchInv, CarefulMeansDefined, NothingLeft
<1>. QED  BY <1>8, <1>9, <1>10 DEF IInv

(* Every folding of CollateExpr::Run keeps the invariant. *)
LEMMA FoldExprInv ==
  ASSUME IInv, phase = "expr", NEW n \in Listed, IsCond(n), NEW f, Foldable(n, f), FoldExpr(n, f)
  PROVE  IInv'
<1>1. Fold(n, f) /\ matches' = 1 /\ phase' = Thereafter("node")
  BY DEF FoldExpr
<1>2. NodesInv' /\ WalkInv' /\ CarefulMeansDefined'
  BY <1>1, FoldInv
<1>3. phase' \in {"node", "undefined"} /\ careless' \in BOOLEAN
  BY <1>1 DEF Thereafter, Fold
<1>4. MatchInv' /\ NothingLeft'
  BY <1>1, <1>3 DEF MatchInv, NothingLeft
<1>. QED  BY <1>2, <1>4 DEF IInv

LEMMA SkipInv ==
  ASSUME IInv, SkipConditionalJump
  PROVE  IInv'
<1>1. PICK n \in Listed : NodePattern(n) = "Skip" /\ Fold(n, Skipped(n))
  BY Zenon DEF SkipConditionalJump, FirstMatch
<1>2. phase = "node" /\ matches' = matches + 1 /\ phase' = Thereafter("expr")
  BY Zenon DEF SkipConditionalJump
<1>3. SkipsJump(n)
  BY <1>1 DEF NodePattern
<1>4. IsCond(n) /\ Foldable(n, Skipped(n))
  BY <1>2, <1>3, SkippedFoldable
<1>5. NodesInv' /\ WalkInv' /\ CarefulMeansDefined'
  BY <1>1, <1>2, <1>4, FoldInv
<1>6. phase' \in {"expr", "undefined"} /\ careless' \in BOOLEAN
  BY <1>1, <1>2 DEF Thereafter, Fold
<1>7. matches' \in 0 .. 2
  BY <1>2 DEF IInv, MatchInv
<1>8. MatchInv' /\ NothingLeft'
  BY <1>6, <1>7 DEF MatchInv, NothingLeft
<1>. QED  BY <1>5, <1>8 DEF IInv

LEMMA Inductive == Spec => []IInv
<1>1. Init => IInv
  BY InitInv
<1>2. IInv /\ [Next]_vars => IInv'
  <2>. SUFFICES ASSUME IInv, [Next]_vars PROVE IInv'
    OBVIOUS
  <2>1. CASE CollateOrFollower
    <3>1. PICK n \in Listed : ExprPattern(n) = "OrFollower" /\ FoldExpr(n, OrFollowerFolded(n))
      BY <2>1, Zenon DEF CollateOrFollower, FirstMatch
    <3>2. phase = "expr" /\ IsCond(n) /\ OrFollower(n)
      BY <2>1, <3>1 DEF CollateOrFollower, ExprPattern
    <3>. QED  BY <3>1, <3>2, OrFollowerFoldable, FoldExprInv
  <2>2. CASE CollateNotOrDiamond
    <3>1. PICK n \in Listed : ExprPattern(n) = "NotOrDiamond" /\ FoldExpr(n, NotOrDiamondFolded(n))
      BY <2>2, Zenon DEF CollateNotOrDiamond, FirstMatch
    <3>2. phase = "expr" /\ IsCond(n) /\ NotOrDiamond(n)
      BY <2>2, <3>1 DEF CollateNotOrDiamond, ExprPattern
    <3>. QED  BY <3>1, <3>2, NotOrDiamondFoldable, FoldExprInv
  <2>3. CASE CollateNotAndFollower
    <3>1. PICK n \in Listed : ExprPattern(n) = "NotAndFollower" /\ FoldExpr(n, NotAndFollowerFolded(n))
      BY <2>3, Zenon DEF CollateNotAndFollower, FirstMatch
    <3>2. phase = "expr" /\ IsCond(n) /\ NotAndFollower(n)
      BY <2>3, <3>1 DEF CollateNotAndFollower, ExprPattern
    <3>. QED  BY <3>1, <3>2, NotAndFollowerFoldable, FoldExprInv
  <2>4. CASE CollateNotOrTarget
    <3>1. PICK n \in Listed : ExprPattern(n) = "NotOrTarget" /\ FoldExpr(n, NotOrTargetFolded(n))
      BY <2>4, Zenon DEF CollateNotOrTarget, FirstMatch
    <3>2. phase = "expr" /\ IsCond(n) /\ NotOrTarget(n)
      BY <2>4, <3>1 DEF CollateNotOrTarget, ExprPattern
    <3>. QED  BY <3>1, <3>2, NotOrTargetFoldable, FoldExprInv
  <2>5. CASE CollateAndTarget
    <3>1. PICK n \in Listed : ExprPattern(n) = "AndTarget" /\ FoldExpr(n, AndTargetFolded(n))
      BY <2>5, Zenon DEF CollateAndTarget, FirstMatch
    <3>2. phase = "expr" /\ IsCond(n) /\ AndTarget(n)
      BY <2>5, <3>1 DEF CollateAndTarget, ExprPattern
    <3>. QED  BY <3>1, <3>2, AndTargetFoldable, FoldExprInv
  <2>6. CASE NoExpr
    <3>1. /\ phase' = "node" /\ matches' = 0 /\ UNCHANGED <<list, node, made, careless>>
          /\ phase # "undefined" /\ \A n \in Listed : ExprPattern(n) = "none"
      BY <2>6 DEF NoExpr
    <3>2. \A n \in Listed : (ExprPattern(n) = "none")'
      BY <3>1, SamePatterns
    <3>3. Listed' = Listed
      BY <3>1 DEF Listed
    <3>4. NodesInv' /\ WalkInv'
      BY <3>1, <3>3 DEF IInv, NodesInv, WalkInv, Closed
    <3>5. MatchInv' /\ CarefulMeansDefined' /\ NothingLeft'
      BY <3>1, <3>2, <3>3 DEF IInv, MatchInv, CarefulMeansDefined, NothingLeft
    <3>. QED  BY <3>4, <3>5 DEF IInv
  <2>7. CASE JoinNodes
    BY <2>7, JoinInv
  <2>8. CASE SkipConditionalJump
    BY <2>8, SkipInv
  <2>9. CASE NoNode
    <3>1. /\ phase = "node" /\ \A n \in Listed : NodePattern(n) = "none"
          /\ phase' = IF matches # 0 THEN "expr" ELSE "done"
          /\ UNCHANGED <<list, node, made, matches, careless>>
      BY <2>9 DEF NoNode, Again
    <3>2. Listed' = Listed
      BY <3>1 DEF Listed
    <3>3. NodesInv' /\ WalkInv'
      BY <3>1, <3>2 DEF IInv, NodesInv, WalkInv, Closed
    <3>4. MatchInv' /\ CarefulMeansDefined'
      BY <3>1 DEF IInv, MatchInv, CarefulMeansDefined
    <3>5. NothingLeft'
      <4>. SUFFICES ASSUME phase' = "done", NEW n \in Listed'
                    PROVE  (ExprPattern(n) = "none" /\ NodePattern(n) = "none")'
        BY DEF NothingLeft
      <4>1. n \in Listed /\ ExprPattern(n) = "none" /\ NodePattern(n) = "none"
        BY <3>1, <3>2 DEF IInv, MatchInv
      <4>2. ExprPattern(n)' = ExprPattern(n) /\ NodePattern(n)' = NodePattern(n)
        BY <3>1, SamePatterns
      <4>. QED  BY <4>1, <4>2
    <3>. QED  BY <3>3, <3>4, <3>5 DEF IInv
  <2>10. CASE UNCHANGED vars
    <3>1. UNCHANGED <<list, node, made, phase, matches, careless>>
      BY <2>10 DEF vars
    <3>2. \A n : ExprPattern(n)' = ExprPattern(n) /\ NodePattern(n)' = NodePattern(n)
      BY <3>1, SamePatterns
    <3>3. Listed' = Listed
      BY <3>1 DEF Listed
    <3>. QED  BY <3>1, <3>2, <3>3 DEF IInv, NodesInv, WalkInv, MatchInv, CarefulMeansDefined,
              NothingLeft, Closed
  <2>. QED  BY <2>1, <2>2, <2>3, <2>4, <2>5, <2>6, <2>7, <2>8, <2>9, <2>10 DEF Next
<1>. QED  BY <1>1, <1>2, PTL DEF Spec

(* Nodes, conditions and the list stay well formed, whatever the passes    *)
(* delete, and every join finds a number for the node it creates.          *)
THEOREM TypeCorrect == Spec => []TypeOK
<1>1. IInv => TypeOK
  <2>. SUFFICES ASSUME IInv PROVE TypeOK
    OBVIOUS
  <2>1. NodesInv /\ Listed \subseteq 1 .. made
    BY ListedIs DEF IInv
  <2>2. ASSUME NEW n \in Id
        PROVE  /\ ToSet(node[n].body) \subseteq Block
               /\ ToSet(node[n].succ) \subseteq 1 .. made
               /\ DOMAIN node[n].cond.on \subseteq Block
    <3>. DEFINE body == node[n].body
                succ == node[n].succ
                S == 1 .. made
    <3>1. body \in Seq(Block) /\ succ \in Seq(S) /\ DOMAIN node[n].cond.on \subseteq Block
      BY <2>1 DEF NodesInv, IsNode, IsCondition
    <3>. HIDE DEF body, succ, S
    <3>2. ToSet(body) \subseteq Block /\ ToSet(succ) \subseteq S
      BY <3>1 DEF ToSet
    <3>. QED  BY <3>1, <3>2 DEF body, succ, S
  <2>3. made \in N .. 2 * N
    BY <2>1 DEF NodesInv
  <2>. QED  BY <2>1, <2>2, <2>3, Zenon DEF TypeOK, IInv, MatchInv
<1>. QED  BY <1>1, Inductive, PTL

(* Unless CollateExpr::Run or CollateNode::Run deletes a node that has     *)
(* another way in, FindDominators is never called on a graph in which a    *)
(* deleted node is still pointed to.                                       *)
THEOREM Defined == Spec => []CarefulMeansDefined
BY Inductive, PTL DEF IInv

(* run() stops only where neither Run would find anything to do.           *)
THEOREM Finished == Spec => []NothingLeft
BY Inductive, PTL DEF IInv

-----------------------------------------------------------------------------
(***************************************************************************)
(* What the program does.                                                  *)
(***************************************************************************)

(* A condition that is evaluated comes to an end or to another test. *)
IsEvaluable(e) ==
  /\ e.first \in DOMAIN e.on
  /\ \A x \in DOMAIN e.on, v \in BOOLEAN : e.on[x][v] \in DOMAIN e.on \cup {Yes, No}

(***************************************************************************)
(* Every block is in one node, and so is every test; a node without        *)
(* instructions has a way out.                                             *)
(***************************************************************************)
OnceInv ==
  /\ list # <<>>
  /\ IsInjective(list)
  /\ \A n \in Listed :
       /\ Type(n) = "RETURN" => node[n].body # <<>>
       /\ IsCond(n) => IsEvaluable(node[n].cond)
       /\ ~IsCond(n) => DOMAIN node[n].cond.on = {}
       /\ IsInjective(node[n].body)
  /\ \A n, m \in Listed : n # m =>
       /\ ToSet(node[n].body) \cap ToSet(node[m].body) = {}
       /\ DOMAIN node[n].cond.on \cap DOMAIN node[m].cond.on = {}

CarefulInv == ~careless => OnceInv /\ SameProgram

(* The graph as long as no node with another way in has been deleted. *)
Careful == IInv /\ ~careless /\ OnceInv

(* The nodes that pass control on. *)
Passing == {m \in Listed : node[m].body = <<>> /\ ~IsCond(m)}

PassesOn == \A m \in Passing : Successor(m, 0) \in Listed

(* Whatever control goes on to is in the list. *)
GoesOn ==
  \A m \in Listed :
    /\ Type(m) \in {"FALL_THROUGH", "JUMP"} => Successor(m, 0) \in Listed
    /\ IsCond(m) => Successor(m, 0) \in Listed /\ Successor(m, 1) \in Listed

(* Where control comes to from the beginning of a node. *)
EntersAs ==
  \A m \in Listed : Enter(m) = IF node[m].body # <<>> THEN Do(node[m].body[1])
                               ELSE IF IsCond(m) THEN If(node[m].cond.first)
                               ELSE Enter(Successor(m, 0))

(* Where nodes pass control on among themselves, it never comes out. *)
Trapped ==
  \A T \in SUBSET Passing :
    (\A m \in T : Successor(m, 0) \in T) => \A m \in T : Enter(m) = Forever

-----------------------------------------------------------------------------
LEMMA CarefulGraph ==
  ASSUME Careful
  PROVE  /\ phase # "undefined" /\ NodesInv /\ Closed
         /\ Cardinality(Listed) < 2 * N /\ Cardinality(Listed) \in Nat /\ IsFiniteSet(Listed)
         /\ N \in Nat \ {0} /\ made \in Nat /\ Listed \subseteq Id /\ Listed \subseteq 1 .. made
         /\ 1 .. made \subseteq Id
         /\ \A m \in Listed : IsCond(m) \/ Type(m) \in {"FALL_THROUGH", "JUMP", "RETURN"}
         /\ \A m \in Passing : /\ Type(m) \in {"FALL_THROUGH", "JUMP"}
                               /\ m \in Listed /\ Successor(m, 0) \in Listed
                               /\ node[m].body = <<>> /\ ~IsCond(m)
<1>1. phase # "undefined" /\ NodesInv /\ Closed /\ Cardinality(Listed) + made <= 2 * N
  BY Zenon DEF Careful, IInv, CarefulMeansDefined, WalkInv
<1>2. /\ Listed \subseteq Id /\ Listed \subseteq 1 .. made /\ IsFiniteSet(Listed)
      /\ made \in Nat /\ 1 .. made \subseteq Id
  BY <1>1, ListedIs
<1>3. Cardinality(Listed) \in Nat
  BY <1>2, FS_CardinalityType
<1>4. N \in Nat \ {0} /\ made >= N
  BY <1>1, NAssumption DEF NodesInv
<1>5. Cardinality(Listed) < 2 * N
  BY <1>1, <1>2, <1>3, <1>4
<1>6. \A m \in Listed : IsCond(m) \/ Type(m) \in {"FALL_THROUGH", "JUMP", "RETURN"}
  BY <1>1 DEF NodesInv, HasSuccessors, Types, IsCond, Type
<1>7. ASSUME NEW m \in Passing
      PROVE  /\ Type(m) \in {"FALL_THROUGH", "JUMP"}
             /\ m \in Listed /\ Successor(m, 0) \in Listed
             /\ node[m].body = <<>> /\ ~IsCond(m)
  <2>1. m \in Listed /\ node[m].body = <<>> /\ ~IsCond(m)
    BY DEF Passing
  <2>2. Type(m) # "RETURN"
    BY <2>1 DEF Careful, OnceInv
  <2>3. Type(m) \in {"FALL_THROUGH", "JUMP"}
    BY <1>6, <2>1, <2>2
  <2>4. Successor(m, 0) \in Listed
    BY <1>1, <2>1, <2>3, JumpIs DEF Careful
  <2>. QED  BY <2>1, <2>3, <2>4
<1>. QED  BY <1>1, <1>2, <1>3, <1>4, <1>5, <1>6, <1>7

LEMMA ItPasses == Careful => PassesOn
BY CarefulGraph DEF PassesOn

LEMMA GoesOnIs == Careful => GoesOn
<1>. SUFFICES ASSUME Careful, NEW m \in Listed
              PROVE  /\ Type(m) \in {"FALL_THROUGH", "JUMP"} => Successor(m, 0) \in Listed
                     /\ IsCond(m) => Successor(m, 0) \in Listed /\ Successor(m, 1) \in Listed
  BY DEF GoesOn
<1>1. phase # "undefined" /\ IInv
  BY CarefulGraph DEF Careful
<1>. QED  BY <1>1, JumpIs, CondIs

LEMMA EnterIs == Careful => EntersAs /\ Trapped
<1>. SUFFICES ASSUME Careful PROVE EntersAs /\ Trapped
  OBVIOUS
<1>. DEFINE K == 2 * N
            step(g, m) == IF m \notin Listed THEN <<"lost">>
                          ELSE IF node[m].body # <<>> THEN Do(node[m].body[1])
                          ELSE IF IsCond(m) THEN If(node[m].cond.first)
                          ELSE g[Successor(m, 0)]
            first == [m \in Id |-> Forever]
            further(g) == [m \in Id |-> step(g, m)]
            Def(f, k) == [i \in 0 .. k |-> IF i = 0 THEN first ELSE further(f[i - 1])]
            go == CHOOSE f : f = Def(f, K)
<1>1. K \in Nat /\ K > 0 /\ K - 1 \in 0 .. K - 1 /\ Cardinality(Listed) < K /\ Listed \subseteq Id
  BY CarefulGraph
<1>2. \A n : Enter(n) = go[K][n]
  BY DEF Enter
<1>. HIDE DEF K, first, further
<1>3. \E f : f = Def(f, K)
  <2>. DEFINE possible(k) == \E f : f = Def(f, k)
              T == {k \in 0 .. K : ~possible(k)}
  <2>1. possible(0)
    <3>. DEFINE f == [i \in 0 .. 0 |-> first]
    <3>1. f = Def(f, 0)
      OBVIOUS
    <3>. QED  BY <3>1
  <2>2. ASSUME NEW k \in 1 .. K, possible(k - 1) PROVE possible(k)
    <3>1. PICK f : f = Def(f, k - 1)
      BY <2>2
    <3>. DEFINE value(i) == IF i = 0 THEN first ELSE further(f[i - 1])
                g == [i \in 0 .. k |-> value(i)]
    <3>2. f = [i \in 0 .. k - 1 |-> value(i)]
      BY <3>1
    <3>. HIDE DEF value
    <3>3. \A i \in 0 .. k - 1 : i \in 0 .. k /\ g[i] = f[i]
      BY <1>1, <3>2
    <3>4. \A i \in 0 .. k : i # 0 => i - 1 \in 0 .. k - 1
      BY <1>1
    <3>5. \A i \in 0 .. k : value(i) = IF i = 0 THEN first ELSE further(g[i - 1])
      BY <3>3, <3>4 DEF value
    <3>6. g = Def(g, k)
      BY <3>5
    <3>. QED  BY <3>6
  <2>. HIDE DEF possible
  <2>3. ASSUME ~possible(K) PROVE FALSE
    <3>1. T \in SUBSET Nat /\ T # {}
      BY <1>1, <2>3
    <3>2. PICK k \in T : \A j \in T : k <= j
      BY <3>1, LeastNumber, Zenon
    <3>3. k \in 0 .. K /\ ~possible(k)
      BY <3>2
    <3>4. k \in 1 .. K /\ k - 1 \in 0 .. K
      BY <1>1, <2>1, <3>3
    <3>5. k - 1 \notin T
      BY <1>1, <3>2, <3>4
    <3>. QED  BY <2>2, <3>3, <3>4, <3>5
  <2>. QED  BY <2>3 DEF possible
<1>4. go = Def(go, K)
  BY <1>3
<1>. HIDE DEF go
<1>5. /\ go[0] = first
      /\ \A k \in 0 .. K - 1 : go[k + 1] = further(go[k])
  <2>1. 0 \in 0 .. K /\ \A k \in 0 .. K - 1 : k + 1 \in 0 .. K /\ k + 1 # 0 /\ (k + 1) - 1 = k
    BY <1>1
  <2>2. go[0] = first
    BY <1>4, <2>1
  <2>3. ASSUME NEW k \in 0 .. K - 1 PROVE go[k + 1] = further(go[k])
    <3>1. go[k + 1] = Def(go, K)[k + 1]
      BY <1>4
    <3>2. Def(go, K)[k + 1] = further(go[(k + 1) - 1])
      BY <2>1
    <3>. QED  BY <2>1, <3>1, <3>2
  <2>. QED  BY <2>2, <2>3
(* One more turn of the walk. *)
<1>6. /\ \A m \in Listed : go[0][m] = Forever
      /\ \A k \in 0 .. K - 1, m \in Listed :
           go[k + 1][m] = IF node[m].body # <<>> THEN Do(node[m].body[1])
                          ELSE IF IsCond(m) THEN If(node[m].cond.first)
                          ELSE go[k][Successor(m, 0)]
  BY <1>1, <1>5 DEF first, further
<1>7. /\ \A m \in Passing : m \in Listed /\ Successor(m, 0) \in Listed
      /\ \A m \in Listed : m \in Passing <=> node[m].body = <<>> /\ ~IsCond(m)
  BY CarefulGraph DEF Passing
<1>8. \A b : Do(b) # Forever /\ If(b) # Forever
  BY DEF Do, If, Forever
<1>. DEFINE stop(m) == IF node[m].body # <<>> THEN Do(node[m].body[1]) ELSE If(node[m].cond.first)
            next(m) == Successor(m, 0)
<1>9. /\ \A k \in 0 .. K - 1, m \in Passing : go[k + 1][m] = go[k][next(m)]
      /\ \A k \in 0 .. K - 1, m \in Listed \ Passing : go[k + 1][m] = stop(m)
      /\ \A m \in Listed \ Passing : stop(m) # Forever
      /\ \A m \in Passing : m \in Listed /\ next(m) \in Listed
  BY <1>6, <1>7, <1>8
<1>10. EntersAs <=> /\ \A m \in Passing : Enter(m) = Enter(next(m))
                    /\ \A m \in Listed \ Passing : Enter(m) = stop(m)
  BY <1>7 DEF EntersAs
<1>. HIDE DEF stop, next
<1>11. Trapped
  <2>. SUFFICES ASSUME NEW T \in SUBSET Passing, \A m \in T : next(m) \in T,
                       NEW x \in T, Enter(x) # Forever
                PROVE  FALSE
    BY DEF Trapped, next
  <2>. DEFINE Q == {k \in 0 .. K : \E m \in T : go[k][m] # Forever}
  <2>1. Q \in SUBSET Nat /\ K \in Q
    BY <1>1, <1>2
  <2>2. PICK k \in Q : \A j \in Q : k <= j
    BY <2>1, LeastNumber, Zenon
  <2>3. PICK m \in T : go[k][m] # Forever
    BY <2>2
  <2>4. k # 0
    BY <1>6, <1>9, <2>3
  <2>5. k - 1 \in 0 .. K - 1 /\ (k - 1) + 1 = k /\ k - 1 \in 0 .. K /\ ~(k <= k - 1)
    BY <1>1, <2>2, <2>4
  <2>6. go[k][m] = go[k - 1][next(m)]
    BY <1>9, <2>3, <2>5
  <2>7. k - 1 \in Q
    BY <2>3, <2>5, <2>6
  <2>. QED  BY <2>2, <2>5, <2>7
(* What has come out stays. *)
<1>12. \A k \in 0 .. K - 1, m \in Listed : go[k][m] # Forever => go[k + 1][m] = go[k][m]
  <2>. DEFINE Q == {k \in 0 .. K - 1 :
                      \E m \in Listed : go[k][m] # Forever /\ go[k + 1][m] # go[k][m]}
  <2>. SUFFICES ASSUME Q # {} PROVE FALSE
    OBVIOUS
  <2>1. Q \in SUBSET Nat
    BY <1>1
  <2>2. PICK k \in Q : \A j \in Q : k <= j
    BY <2>1, LeastNumber, Zenon
  <2>3. PICK m \in Listed : go[k][m] # Forever /\ go[k + 1][m] # go[k][m]
    BY <2>2
  <2>4. k # 0
    BY <1>6, <2>3
  <2>5. k \in 0 .. K - 1 /\ k - 1 \in 0 .. K - 1 /\ (k - 1) + 1 = k /\ ~(k <= k - 1)
    BY <1>1, <2>2, <2>4
  <2>6. m \in Passing
    BY <1>9, <2>3, <2>5
  <2>7. go[k][m] = go[k - 1][next(m)] /\ go[k + 1][m] = go[k][next(m)] /\ next(m) \in Listed
    BY <1>9, <2>5, <2>6
  <2>8. k - 1 \in Q
    BY <2>3, <2>5, <2>7
  <2>. QED  BY <2>2, <2>5, <2>8
<1>. DEFINE out(k) == {m \in Listed : go[k][m] # Forever}
(* There are more turns than nodes, so one brings nothing new. *)
<1>13. \E j \in 0 .. K - 1 : out(j) = out(j + 1)
  <2>. SUFFICES ASSUME \A j \in 0 .. K - 1 : out(j) # out(j + 1) PROVE FALSE
    OBVIOUS
  <2>1. \A j \in 0 .. K - 1 : out(j) \subseteq out(j + 1)
    BY <1>12
  <2>2. \A k : IsFiniteSet(out(k)) /\ Cardinality(out(k)) \in Nat /\ Cardinality(out(k)) < K
    <3>. SUFFICES ASSUME NEW k PROVE IsFiniteSet(out(k)) /\ Cardinality(out(k)) \in Nat
                                     /\ Cardinality(out(k)) < K
      OBVIOUS
    <3>1. out(k) \in SUBSET Listed /\ IsFiniteSet(Listed) /\ Cardinality(Listed) \in Nat
      BY CarefulGraph
    <3>. HIDE DEF out
    <3>2. IsFiniteSet(out(k)) /\ Cardinality(out(k)) <= Cardinality(Listed)
      BY <3>1, FS_Subset
    <3>3. Cardinality(out(k)) \in Nat
      BY <3>2, FS_CardinalityType
    <3>. QED  BY <1>1, <3>1, <3>2, <3>3
  <2>. HIDE DEF out
  <2>. DEFINE Q == {k \in 0 .. K : Cardinality(out(k)) < k}
  <2>3. Q \in SUBSET Nat /\ K \in Q
    BY <1>1, <2>2
  <2>4. PICK k \in Q : \A j \in Q : k <= j
    BY <2>3, LeastNumber, Zenon
  <2>5. k \in 0 .. K /\ Cardinality(out(k)) < k /\ k # 0
    BY <2>2, <2>4
  <2>6. k - 1 \in 0 .. K - 1 /\ (k - 1) + 1 = k /\ k - 1 \in 0 .. K /\ ~(k <= k - 1)
    BY <1>1, <2>5
  <2>7. k - 1 \notin Q
    BY <2>4, <2>6
  <2>8. Cardinality(out(k - 1)) >= k - 1
    BY <2>2, <2>6, <2>7
  <2>9. Cardinality(out(k - 1)) = Cardinality(out(k)) /\ out(k - 1) \subseteq out(k)
    <3>1. out(k - 1) \subseteq out(k)
      BY <2>1, <2>6
    <3>2. Cardinality(out(k - 1)) <= Cardinality(out(k))
      BY <2>2, <3>1, FS_Subset
    <3>. QED  BY <2>2, <2>5, <2>8, <3>1, <3>2
  <2>10. out(k - 1) = out(k)
    BY <2>2, <2>9, FS_Subset
  <2>. QED  BY <2>6, <2>10
<1>14. PICK j \in 0 .. K - 1 : out(j) = out(j + 1)
  BY <1>13
<1>15. \A m \in Listed : go[j][m] = go[j + 1][m]
  <2>. SUFFICES ASSUME NEW m \in Listed PROVE go[j][m] = go[j + 1][m]
    OBVIOUS
  <2>1. CASE go[j][m] # Forever
    BY <1>12, <2>1
  <2>2. CASE go[j][m] = Forever
    BY <1>14, <2>2
  <2>. QED  BY <2>1, <2>2
<1>16. \A m \in Listed : go[K - 1][m] = go[K][m]
  <2>. DEFINE Q == {k \in j .. K - 1 : \E m \in Listed : go[k][m] # go[k + 1][m]}
  <2>. SUFFICES ASSUME NEW x \in Listed, go[K - 1][x] # go[K][x] PROVE FALSE
    OBVIOUS
  <2>1. Q \in SUBSET Nat /\ K - 1 \in Q
    <3>1. K - 1 \in j .. K - 1 /\ (K - 1) + 1 = K /\ j .. K - 1 \subseteq Nat
      BY <1>1, <1>14
    <3>. QED  BY <3>1
  <2>2. PICK k \in Q : \A i \in Q : k <= i
    BY <2>1, LeastNumber, Zenon
  <2>3. PICK m \in Listed : go[k][m] # go[k + 1][m]
    BY <2>2
  <2>4. k # j
    BY <1>15, <2>3
  <2>5. /\ k \in 0 .. K - 1 /\ k - 1 \in 0 .. K - 1 /\ (k - 1) + 1 = k /\ k - 1 \in j .. K - 1
        /\ ~(k <= k - 1)
    BY <1>1, <1>14, <2>2, <2>4
  <2>6. m \in Passing
    <3>. SUFFICES ASSUME m \notin Passing PROVE FALSE
      OBVIOUS
    <3>1. go[(k - 1) + 1][m] = stop(m) /\ go[k + 1][m] = stop(m)
      BY <1>9, <2>5
    <3>. QED  BY <2>3, <2>5, <3>1
  <2>7. go[k][m] = go[k - 1][next(m)] /\ go[k + 1][m] = go[k][next(m)] /\ next(m) \in Listed
    BY <1>9, <2>5, <2>6
  <2>8. k - 1 \in Q
    BY <2>3, <2>5, <2>7
  <2>. QED  BY <2>2, <2>5, <2>8
<1>17. EntersAs
  <2>1. (K - 1) + 1 = K
    BY <1>1
  <2>2. ASSUME NEW m \in Passing PROVE Enter(m) = Enter(next(m))
    BY <1>1, <1>2, <1>9, <1>16, <2>1
  <2>3. ASSUME NEW m \in Listed \ Passing PROVE Enter(m) = stop(m)
    BY <1>1, <1>2, <1>9, <2>1
  <2>. QED  BY <1>10, <2>2, <2>3
<1>. QED  BY <1>11, <1>17

-----------------------------------------------------------------------------
Bodies == UNION {ToSet(node[n].body) : n \in Listed}
Tests  == UNION {DOMAIN node[n].cond.on : n \in Listed}

(* Where a verdict leads, or the next test. *)
Out(x, yes, no) == IF x = Yes THEN yes ELSE IF x = No THEN no ELSE If(x)

AfterDoAs ==
  \A n \in Listed : \A j \in DOMAIN node[n].body :
    AfterDo(node[n].body[j]) =
      IF j < Len(node[n].body) THEN Do(node[n].body[j + 1]) ELSE AfterBody(n)

AfterTestAs ==
  \A n \in Listed : IsCond(n) => \A b \in DOMAIN node[n].cond.on, v \in BOOLEAN :
    AfterTest(b, v) = Out(node[n].cond.on[b][v], Enter(Successor(n, 0)), Enter(Successor(n, 1)))

(* Every block and every test is in one place. *)
LEMMA AfterIs == Careful => AfterDoAs /\ AfterTestAs
<1>. SUFFICES ASSUME Careful PROVE AfterDoAs /\ AfterTestAs
  OBVIOUS
<1>1. ASSUME NEW n \in Listed, NEW j \in DOMAIN node[n].body
      PROVE  AfterDo(node[n].body[j]) =
               IF j < Len(node[n].body) THEN Do(node[n].body[j + 1]) ELSE AfterBody(n)
  <2>. DEFINE b == node[n].body[j]
              m == CHOOSE x \in Listed : b \in ToSet(node[x].body)
              k == CHOOSE i \in DOMAIN node[m].body : node[m].body[i] = b
  <2>1. b \in ToSet(node[n].body)
    BY <1>1 DEF ToSet
  <2>2. m \in Listed /\ b \in ToSet(node[m].body)
    BY <2>1
  <2>3. AfterDo(b) = IF k < Len(node[m].body) THEN Do(node[m].body[k + 1]) ELSE AfterBody(m)
    BY DEF AfterDo
  <2>4. b = node[n].body[j]
    OBVIOUS
  <2>. HIDE DEF b, m
  <2>5. m = n
    BY <2>1, <2>2 DEF Careful, OnceInv
  <2>6. k \in DOMAIN node[n].body /\ node[n].body[k] = b
    BY <2>4, <2>5
  <2>. HIDE DEF k
  <2>7. k = j
    BY <2>4, <2>6 DEF Careful, OnceInv, IsInjective
  <2>. QED  BY <2>3, <2>4, <2>5, <2>7
<1>2. ASSUME NEW n \in Listed, IsCond(n), NEW b \in DOMAIN node[n].cond.on, NEW v \in BOOLEAN
      PROVE  AfterTest(b, v) =
               Out(node[n].cond.on[b][v], Enter(Successor(n, 0)), Enter(Successor(n, 1)))
  <2>. DEFINE m == CHOOSE x \in Listed : IsCond(x) /\ b \in DOMAIN node[x].cond.on
  <2>1. m \in Listed /\ b \in DOMAIN node[m].cond.on
    BY <1>2
  <2>2. AfterTest(b, v) =
          Out(node[m].cond.on[b][v], Enter(Successor(m, 0)), Enter(Successor(m, 1)))
    BY Zenon DEF AfterTest, Out
  <2>. HIDE DEF m
  <2>3. m = n
    BY <1>2, <2>1 DEF Careful, OnceInv
  <2>. QED  BY <2>2, <2>3
<1>. QED  BY <1>1, <1>2 DEF AfterDoAs, AfterTestAs

(* What the program does, taken apart. *)
LEMMA SameMeaning ==
  ASSUME Enter(Entry)' = Enter(Entry), Bodies' = Bodies, Tests' = Tests,
         \A b \in Bodies : AfterDo(b)' = AfterDo(b),
         \A b \in Tests, v \in BOOLEAN : AfterTest(b, v)' = AfterTest(b, v)
  PROVE  Meaning' = Meaning
<1>. DEFINE starts == {<<Start, Enter(Entry)>>}
            does   == {<<Do(b), AfterDo(b)>> : b \in Bodies}
            tests  == {<<Took(b, v), AfterTest(b, v)>> : b \in Tests, v \in BOOLEAN}
<1>1. Meaning = starts \cup does \cup tests
  BY DEF Meaning, Bodies, Tests
<1>2. Meaning' = starts' \cup does' \cup tests'
  BY DEF Meaning, Bodies, Tests
<1>3. starts' = starts
  BY Zenon DEF Start
<1>4. does' = does
  BY Zenon DEF Do
<1>5. tests' = tests
  BY SMTT(30) DEF Took
<1>. HIDE DEF starts, does, tests
<1>. QED  BY <1>1, <1>2, <1>3, <1>4, <1>5

-----------------------------------------------------------------------------
(***************************************************************************)
(* A folding of n into f that changes nothing the program does: the tests  *)
(* are those of n and of what goes, the same one is made first, and after  *)
(* each outcome the same comes next.                                       *)
(***************************************************************************)
Faithful(n, f) ==
  /\ f.cond.first = node[n].cond.first
  /\ IsEvaluable(f.cond)
  /\ DOMAIN f.cond.on = UNION {DOMAIN node[m].cond.on : m \in {n} \cup f.gone}
  /\ \A b \in DOMAIN f.cond.on, v \in BOOLEAN :
       AfterTest(b, v) = Out(f.cond.on[b][v], Enter(f.succ[1]), Enter(f.succ[2]))
  /\ \A d \in f.gone : node[d].body = <<>>

(* What a folding leaves of the graph when only n leads to what goes. *)
LEMMA FoldLeaves ==
  ASSUME Careful, NEW n \in Listed, IsCond(n), NEW f, Foldable(n, f), Fold(n, f), ~careless'
  PROVE  /\ n \notin f.gone /\ f.gone \subseteq Listed /\ Listed' = Listed \ f.gone
         /\ list' # <<>> /\ Entry' = Entry
         /\ IsInjective(list')
         /\ f.succ[1] \in Listed' /\ f.succ[2] \in Listed'
         /\ \A m \in Listed' :
              /\ m \in Listed /\ m \notin f.gone
              /\ Type(m)' = Type(m) /\ (IsCond(m))' = IsCond(m)
              /\ node'[m].body = node[m].body
              /\ node'[m].cond = IF m = n THEN f.cond ELSE node[m].cond
              /\ node'[m].succ = IF m = n THEN f.succ ELSE node[m].succ
<1>1. NodesInv /\ Listed \subseteq Id /\ n \in Id
  BY CarefulGraph
<1>2. \A d \in f.gone : OnlyFrom(n, d)
  BY DEF Fold
<1>3. /\ ToSet(f.succ) \subseteq Listed \ f.gone /\ f.gone \subseteq Listed
      /\ f.succ \in Seq(1 .. made) /\ Len(f.succ) = 2
  BY <1>2 DEF Foldable
<1>4. Folded(n, f) /\ Listed' = Listed \ f.gone
  BY <1>1, FoldNodes, FoldList
<1>5. n \notin f.gone /\ Entry \notin f.gone
  BY <1>2 DEF OnlyFrom
<1>6. /\ list \in Seq(1 .. made) /\ list # <<>> /\ list' = RemoveDeletedNodes(list, node')
      /\ IsInjective(list)
  BY <1>1 DEF NodesInv, Careful, OnceInv, Fold
<1>7. node'[list[1]].type # Deleted
  <2>1. Entry \in Listed
    <3>1. 1 \in DOMAIN list
      BY <1>6
    <3>. QED  BY <3>1 DEF Listed, ToSet, Entry
  <2>2. node[Entry].type # Deleted
    BY <1>1, <2>1 DEF NodesInv, HasSuccessors, Types, Deleted
  <2>. QED  BY <1>1, <1>4, <1>5, <2>1, <2>2 DEF Folded, Entry
<1>8. /\ list' # <<>> /\ list'[1] = list[1]
      /\ IsInjective(list')
  BY <1>6, <1>7, Remaining
<1>9. f.succ[1] \in Listed' /\ f.succ[2] \in Listed'
  <2>. DEFINE S == 1 .. made
              succ == f.succ
  <2>1. succ \in Seq(S) /\ Len(succ) = 2
    BY <1>3
  <2>. HIDE DEF S, succ
  <2>2. 1 \in DOMAIN succ /\ 2 \in DOMAIN succ
    BY <2>1
  <2>3. succ[1] \in ToSet(succ) /\ succ[2] \in ToSet(succ)
    BY <2>2 DEF ToSet
  <2>. QED  BY <1>3, <1>4, <2>3 DEF succ
<1>10. ASSUME NEW m \in Listed'
       PROVE  /\ m \in Listed /\ m \notin f.gone
              /\ Type(m)' = Type(m) /\ (IsCond(m))' = IsCond(m)
              /\ node'[m].body = node[m].body
              /\ node'[m].cond = IF m = n THEN f.cond ELSE node[m].cond
              /\ node'[m].succ = IF m = n THEN f.succ ELSE node[m].succ
  <2>1. m \in Listed /\ m \notin f.gone /\ m \in Id
    BY <1>1, <1>4
  <2>2. node'[m].type = node[m].type
    BY <1>4, <2>1 DEF Folded
  <2>3. Type(m)' = Type(m) /\ (IsCond(m))' = IsCond(m)
    BY <2>2 DEF IsCond, Type
  <2>. QED  BY <1>4, <2>1, <2>3 DEF Folded
<1>. QED  BY <1>3, <1>4, <1>5, <1>8, <1>9, <1>10 DEF Entry

LEMMA FoldOnce ==
  ASSUME Careful, NEW n \in Listed, IsCond(n), NEW f, Foldable(n, f), Faithful(n, f),
         Fold(n, f), ~careless'
  PROVE  OnceInv'
<1>1. /\ list' # <<>>
      /\ IsInjective(list')
  BY FoldLeaves
<1>2. \A m \in Listed' :
        /\ m \in Listed /\ m \notin f.gone
        /\ Type(m)' = Type(m) /\ (IsCond(m))' = IsCond(m)
        /\ node'[m].body = node[m].body
        /\ node'[m].cond = IF m = n THEN f.cond ELSE node[m].cond
  BY FoldLeaves
<1>3. f.gone \subseteq Listed
  BY FoldLeaves
<1>4. ASSUME NEW m \in Listed'
      PROVE  /\ (Type(m) = "RETURN")' => node'[m].body # <<>>
             /\ (IsCond(m))' => IsEvaluable(node'[m].cond)
             /\ ~(IsCond(m))' => DOMAIN node'[m].cond.on = {}
             /\ IsInjective(node'[m].body)
  <2>1. /\ Type(m) = "RETURN" => node[m].body # <<>>
        /\ IsCond(m) => IsEvaluable(node[m].cond)
        /\ ~IsCond(m) => DOMAIN node[m].cond.on = {}
        /\ IsInjective(node[m].body)
    BY <1>2 DEF Careful, OnceInv
  <2>2. IsEvaluable(f.cond)
    BY DEF Faithful
  <2>. QED  BY <1>2, <2>1, <2>2
<1>5. \A m \in Listed' : DOMAIN node'[m].cond.on =
        UNION {DOMAIN node[x].cond.on : x \in IF m = n THEN {n} \cup f.gone ELSE {m}}
  BY <1>2 DEF Faithful
<1>6. ASSUME NEW m \in Listed', NEW x \in Listed', m # x
      PROVE  /\ ToSet(node'[m].body) \cap ToSet(node'[x].body) = {}
             /\ DOMAIN node'[m].cond.on \cap DOMAIN node'[x].cond.on = {}
  <2>1. \A p, q \in Listed : p # q =>
          /\ ToSet(node[p].body) \cap ToSet(node[q].body) = {}
          /\ DOMAIN node[p].cond.on \cap DOMAIN node[q].cond.on = {}
    BY DEF Careful, OnceInv
  <2>2. ToSet(node'[m].body) \cap ToSet(node'[x].body) = {}
    BY <1>2, <1>6, <2>1
  <2>3. DOMAIN node'[m].cond.on \cap DOMAIN node'[x].cond.on = {}
    <3>. DEFINE P == IF m = n THEN {n} \cup f.gone ELSE {m}
                Q == IF x = n THEN {n} \cup f.gone ELSE {x}
    <3>1. P \subseteq Listed /\ Q \subseteq Listed /\ P \cap Q = {}
      BY <1>2, <1>3, <1>6
    <3>2. /\ DOMAIN node'[m].cond.on = UNION {DOMAIN node[p].cond.on : p \in P}
          /\ DOMAIN node'[x].cond.on = UNION {DOMAIN node[q].cond.on : q \in Q}
      BY <1>5
    <3>. HIDE DEF P, Q
    <3>3. \A p \in P, q \in Q : DOMAIN node[p].cond.on \cap DOMAIN node[q].cond.on = {}
      BY <2>1, <3>1
    <3>. QED  BY <3>2, <3>3
  <2>. QED  BY <2>2, <2>3
<1>. QED  BY <1>1, <1>4, <1>6 DEF OnceInv

(***************************************************************************)
(* Control comes to the same place from the nodes that stay: those for     *)
(* which it would not pass it on among themselves, in both graphs.         *)
(***************************************************************************)
LEMMA FoldEnters ==
  ASSUME Careful, Careful', NEW n \in Listed, IsCond(n), NEW f, Foldable(n, f), Faithful(n, f),
         Fold(n, f)
  PROVE  \A m \in Listed' : Enter(m)' = Enter(m)
<1>. DEFINE D == {m \in Listed' : Enter(m)' # Enter(m)}
<1>1. EntersAs /\ EntersAs' /\ Trapped /\ Trapped' /\ PassesOn'
  BY EnterIs, ItPasses, PTL
<1>2. \A m \in Listed' :
        /\ m \in Listed /\ (IsCond(m))' = IsCond(m)
        /\ node'[m].body = node[m].body
        /\ node'[m].cond = IF m = n THEN f.cond ELSE node[m].cond
        /\ node'[m].succ = IF m = n THEN f.succ ELSE node[m].succ
  BY FoldLeaves DEF Careful
<1>3. ASSUME NEW m \in D
      PROVE  /\ m \in Passing /\ m \in Passing'
             /\ Successor(m, 0) \in D /\ Successor(m, 0)' = Successor(m, 0)
  <2>1. m \in Listed' /\ m \in Listed /\ Enter(m)' # Enter(m)
    BY <1>2
  <2>2. Enter(m) = IF node[m].body # <<>> THEN Do(node[m].body[1])
                   ELSE IF IsCond(m) THEN If(node[m].cond.first)
                   ELSE Enter(Successor(m, 0))
    BY <1>1, <2>1 DEF EntersAs
  <2>3. Enter(m)' = IF node'[m].body # <<>> THEN Do(node'[m].body[1])
                    ELSE IF (IsCond(m))' THEN If(node'[m].cond.first)
                    ELSE Enter(Successor(m, 0))'
    BY <1>1, <2>1 DEF EntersAs, Do, If
  <2>4. node'[m].cond.first = node[m].cond.first
    BY <1>2, <2>1 DEF Faithful
  <2>5. node[m].body = <<>> /\ ~IsCond(m)
    BY <1>2, <2>1, <2>2, <2>3, <2>4
  <2>6. m \in Passing /\ m \in Passing'
    BY <1>2, <2>1, <2>5 DEF Passing
  <2>7. Successor(m, 0)' = Successor(m, 0)
    BY <1>2, <2>1, <2>5 DEF Successor
  <2>8. (Successor(m, 0) \in Listed)'
    BY <1>1, <2>6 DEF PassesOn
  <2>9. Successor(m, 0) \in D
    BY <1>2, <2>1, <2>2, <2>3, <2>5, <2>7, <2>8
  <2>. QED  BY <2>6, <2>7, <2>9
<1>. HIDE DEF D
<1>4. D \in SUBSET Passing /\ D \in SUBSET Passing'
  BY <1>3
<1>5. \A m \in D : Enter(m) = Forever
  BY <1>1, <1>3, <1>4 DEF Trapped
<1>6. \A m \in D : Enter(m)' = Forever
  BY <1>1, <1>3, <1>4 DEF Trapped, Forever
<1>. QED  BY <1>5, <1>6 DEF D

LEMMA FoldMeaning ==
  ASSUME Careful, Careful', NEW n \in Listed, IsCond(n), NEW f, Foldable(n, f), Faithful(n, f),
         Fold(n, f)
  PROVE  Meaning' = Meaning
<1>0. AfterDoAs /\ AfterDoAs' /\ AfterTestAs /\ AfterTestAs' /\ GoesOn'
  BY AfterIs, GoesOnIs, PTL
<1>1. /\ AfterDoAs /\ AfterDoAs' /\ AfterTestAs /\ AfterTestAs' /\ GoesOn'
      /\ \A m \in Listed' : Enter(m)' = Enter(m)
  BY <1>0, FoldEnters
<1>2. /\ n \notin f.gone /\ f.gone \subseteq Listed /\ Listed' = Listed \ f.gone
      /\ list' # <<>> /\ Entry' = Entry
      /\ f.succ[1] \in Listed' /\ f.succ[2] \in Listed'
  BY FoldLeaves DEF Careful
<1>3. \A m \in Listed' :
        /\ m \in Listed /\ m \notin f.gone
        /\ Type(m)' = Type(m) /\ (IsCond(m))' = IsCond(m)
        /\ node'[m].body = node[m].body
        /\ node'[m].cond = IF m = n THEN f.cond ELSE node[m].cond
        /\ node'[m].succ = IF m = n THEN f.succ ELSE node[m].succ
  BY FoldLeaves DEF Careful
<1>4. Enter(Entry)' = Enter(Entry)
  <2>1. NodesInv'
    BY DEF Careful, IInv
  <2>2. list'[1] \in Listed'
    <3>1. list' \in Seq(1 .. made')
      BY <2>1 DEF NodesInv
    <3>2. 1 \in DOMAIN list'
      BY <1>2, <3>1
    <3>. QED  BY <3>2 DEF Listed, ToSet
  <2>3. PICK e \in Listed' : e = Entry /\ e = Entry'
    BY <1>2, <2>2 DEF Entry
  <2>4. Enter(Entry) = Enter(e)
    BY <2>3
  <2>5. Enter(Entry)' = Enter(e)'
    BY <2>3 DEF Enter
  <2>. QED  BY <1>1, <2>4, <2>5
<1>5. Bodies' = Bodies
  <2>1. Bodies' = UNION {ToSet(node[m].body) : m \in Listed'}
    BY <1>3 DEF Bodies
  <2>2. \A d \in f.gone : ToSet(node[d].body) = {}
    BY DEF Faithful, ToSet
  <2>. QED  BY <1>2, <2>1, <2>2 DEF Bodies
<1>6. Tests' = Tests
  <2>1. \A m \in Listed' : DOMAIN node'[m].cond.on =
          UNION {DOMAIN node[x].cond.on : x \in IF m = n THEN {n} \cup f.gone ELSE {m}}
    BY <1>3 DEF Faithful
  <2>2. n \in Listed'
    BY <1>2
  <2>3. Tests' = UNION {DOMAIN node'[m].cond.on : m \in Listed'}
    BY DEF Tests
  <2>4. \A b : b \in Tests' <=> b \in Tests
    <3>1. ASSUME NEW b \in Tests' PROVE b \in Tests
      BY <1>2, <1>3, <2>1, <2>3, <3>1 DEF Tests
    <3>2. ASSUME NEW b \in Tests PROVE b \in Tests'
      <4>1. PICK m \in Listed : b \in DOMAIN node[m].cond.on
        BY <3>2 DEF Tests
      <4>. DEFINE x == IF m \in f.gone THEN n ELSE m
      <4>2. x \in Listed' /\ b \in DOMAIN node'[x].cond.on
        BY <1>2, <2>1, <2>2, <4>1
      <4>. QED  BY <2>3, <4>2
    <3>. QED  BY <3>1, <3>2
  <2>. QED  BY <2>4
<1>7. ASSUME NEW b \in Bodies PROVE AfterDo(b)' = AfterDo(b)
  <2>. PICK m \in Listed : b \in ToSet(node[m].body)
    BY DEF Bodies
  <2>1. PICK j \in DOMAIN node[m].body : b = node[m].body[j]
    BY DEF ToSet
  <2>2. m \in Listed'
    BY <1>2, <2>1 DEF Faithful
  <2>. DEFINE body == node[m].body
  <2>3. AfterDo(b) = IF j < Len(body) THEN Do(body[j + 1]) ELSE AfterBody(m)
    BY <1>1, <2>1 DEF AfterDoAs
  <2>4. node'[m].body = body
    BY <1>3, <2>2
  <2>5. AfterDo(b)' = IF j < Len(body) THEN Do(body[j + 1]) ELSE AfterBody(m)'
    BY <1>1, <2>1, <2>2, <2>4 DEF AfterDoAs, Do
  <2>6. AfterBody(m)' = AfterBody(m)
    <3>1. /\ Type(m)' = Type(m) /\ (IsCond(m))' = IsCond(m)
          /\ node'[m].cond.first = node[m].cond.first
      BY <1>3, <2>2 DEF Faithful
    <3>2. AfterBody(m) = IF IsCond(m) THEN If(node[m].cond.first)
                         ELSE IF Type(m) = "RETURN" THEN <<"return">> ELSE Enter(Successor(m, 0))
      BY DEF AfterBody
    <3>3. AfterBody(m)' = IF IsCond(m) THEN If(node[m].cond.first)
                          ELSE IF Type(m) = "RETURN" THEN <<"return">>
                          ELSE Enter(Successor(m, 0))'
      BY <3>1 DEF AfterBody, If
    <3>4. ASSUME ~IsCond(m), Type(m) # "RETURN"
          PROVE  Enter(Successor(m, 0))' = Enter(Successor(m, 0))
      <4>1. Type(m) \in {"FALL_THROUGH", "JUMP"}
        BY <2>1, <3>4, CarefulGraph
      <4>2. Successor(m, 0)' = Successor(m, 0)
        BY <1>3, <2>2, <3>4 DEF Successor
      <4>3. Successor(m, 0)' \in Listed'
        BY <1>1, <2>2, <3>1, <4>1 DEF GoesOn
      <4>. QED  BY <1>1, <4>2, <4>3
    <3>. QED  BY <3>2, <3>3, <3>4
  <2>. HIDE DEF body
  <2>. QED  BY <2>3, <2>5, <2>6
<1>8. ASSUME NEW b \in Tests, NEW v \in BOOLEAN PROVE AfterTest(b, v)' = AfterTest(b, v)
  <2>1. PICK m \in Listed : b \in DOMAIN node[m].cond.on
    BY DEF Tests
  <2>2. IsCond(m)
    BY <2>1 DEF Careful, OnceInv
  <2>3. CASE m \in {n} \cup f.gone
    <3>1. b \in DOMAIN f.cond.on
      BY <2>1, <2>3 DEF Faithful
    <3>2. n \in Listed' /\ node'[n].cond = f.cond /\ node'[n].succ = f.succ /\ (IsCond(n))'
      BY <1>2, <1>3
    <3>3. Successor(n, 0)' = f.succ[1] /\ Successor(n, 1)' = f.succ[2]
      BY <3>2 DEF Successor
    <3>4. AfterTest(b, v)' =
            Out(f.cond.on[b][v], Enter(Successor(n, 0))', Enter(Successor(n, 1))')
      BY <1>1, <3>1, <3>2 DEF AfterTestAs, Out, If
    <3>5. Enter(Successor(n, 0))' = Enter(f.succ[1]) /\ Enter(Successor(n, 1))' = Enter(f.succ[2])
      BY <1>1, <1>2, <3>3
    <3>. QED  BY <3>1, <3>4, <3>5 DEF Faithful
  <2>4. CASE m \notin {n} \cup f.gone
    <3>1. m \in Listed' /\ node'[m].cond = node[m].cond /\ node'[m].succ = node[m].succ
          /\ (IsCond(m))'
      BY <1>2, <1>3, <2>2, <2>4
    <3>2. Successor(m, 0)' = Successor(m, 0) /\ Successor(m, 1)' = Successor(m, 1)
      BY <3>1 DEF Successor
    <3>3. Successor(m, 0)' \in Listed' /\ Successor(m, 1)' \in Listed'
      BY <1>1, <3>1 DEF GoesOn
    <3>4. Enter(Successor(m, 0))' = Enter(Successor(m, 0))
          /\ Enter(Successor(m, 1))' = Enter(Successor(m, 1))
      BY <1>1, <3>2, <3>3
    <3>5. AfterTest(b, v)' =
            Out(node[m].cond.on[b][v], Enter(Successor(m, 0))', Enter(Successor(m, 1))')
      BY <1>1, <2>1, <3>1 DEF AfterTestAs, Out, If
    <3>6. AfterTest(b, v) =
            Out(node[m].cond.on[b][v], Enter(Successor(m, 0)), Enter(Successor(m, 1)))
      BY <1>1, <2>1, <2>2 DEF AfterTestAs
    <3>. QED  BY <3>4, <3>5, <3>6
  <2>. QED  BY <2>3, <2>4
<1>. QED  BY <1>4, <1>5, <1>6, <1>7, <1>8, SameMeaning

-----------------------------------------------------------------------------
(* A negated condition makes the same tests and leads the other way. *)
LEMMA Negated ==
  ASSUME NEW e, IsCondition(e), IsEvaluable(e)
  PROVE  /\ Not(e).first = e.first /\ DOMAIN Not(e).on = DOMAIN e.on
         /\ \A x \in DOMAIN e.on, o \in BOOLEAN :
              /\ Not(e).on[x][o] \in DOMAIN e.on \cup {Yes, No}
              /\ \A yes, no : Out(Not(e).on[x][o], yes, no) = Out(e.on[x][o], no, yes)
<1>. DEFINE other(y) == IF y = Yes THEN No ELSE IF y = No THEN Yes ELSE y
            on == [x \in DOMAIN e.on |-> [o \in BOOLEAN |-> other(e.on[x][o])]]
<1>1. Not(e) = [e EXCEPT !.on = on]
  BY DEF Not
<1>. HIDE DEF on
<1>2. Not(e).first = e.first /\ Not(e).on = on
  <2>1. e = [first |-> e.first, on |-> e.on]
    BY DEF IsCondition
  <2>. QED  BY <1>1, <2>1
<1>3. /\ DOMAIN on = DOMAIN e.on
      /\ \A x \in DOMAIN e.on, o \in BOOLEAN : on[x][o] = other(e.on[x][o])
  BY DEF on
<1>4. Yes # No
  BY DEF Yes, No
<1>5. ASSUME NEW x \in DOMAIN e.on, NEW o \in BOOLEAN
      PROVE  /\ on[x][o] \in DOMAIN e.on \cup {Yes, No}
             /\ \A yes, no : Out(on[x][o], yes, no) = Out(e.on[x][o], no, yes)
  <2>1. e.on[x][o] \in DOMAIN e.on \cup {Yes, No}
    BY DEF IsEvaluable
  <2>. QED  BY <1>3, <1>4, <2>1 DEF Out
<1>. QED  BY <1>2, <1>3, <1>5

(***************************************************************************)
(* When the verdict v of n's condition, negated perhaps, leads to s, and   *)
(* the other one to where s leads with it too, s is folded into n.         *)
(***************************************************************************)
LEMMA SequelFaithful ==
  ASSUME Careful, NEW n \in Listed, IsCond(n), NEW s \in Listed, IsCond(s), s # n, NEW f,
         f.gone \subseteq Listed, s \in f.gone, \A d \in f.gone : node[d].body = <<>>,
         \A d \in f.gone : d # s => ~IsCond(d),
         NEW e, NEW v \in {Yes, No},
         f.cond = Sequel(e, v, node[s].cond),
         NEW yes, NEW no,
         \/ e = node[n].cond /\ yes = Enter(Successor(n, 0)) /\ no = Enter(Successor(n, 1))
         \/ e = Not(node[n].cond) /\ yes = Enter(Successor(n, 1)) /\ no = Enter(Successor(n, 0)),
         v = Yes => yes = Enter(s) /\ no = Enter(f.succ[2]),
         v = No  => no = Enter(s) /\ yes = Enter(f.succ[1]),
         Enter(f.succ[1]) = Enter(Successor(s, 0)), Enter(f.succ[2]) = Enter(Successor(s, 1))
  PROVE  Faithful(n, f)
<1>. DEFINE c == node[n].cond
            g == node[s].cond
            after(x, o) == AfterTest(x, o)
<1>1. /\ EntersAs /\ AfterTestAs /\ NodesInv /\ n \in Id /\ s \in Id
  BY EnterIs, AfterIs, CarefulGraph
<1>2. /\ IsEvaluable(c) /\ IsEvaluable(g) /\ IsCondition(c) /\ IsCondition(g)
      /\ DOMAIN c.on \cap DOMAIN g.on = {}
      /\ \A d \in f.gone : d # s => DOMAIN node[d].cond.on = {}
  BY <1>1 DEF Careful, OnceInv, NodesInv, IsNode
<1>3. Yes \notin Block /\ No \notin Block /\ Yes # No
  BY DEF Yes, No, Block
<1>4. /\ \A x \in DOMAIN c.on, o \in BOOLEAN :
           after(x, o) = Out(c.on[x][o], Enter(Successor(n, 0)), Enter(Successor(n, 1)))
      /\ \A x \in DOMAIN g.on, o \in BOOLEAN :
           after(x, o) = Out(g.on[x][o], Enter(f.succ[1]), Enter(f.succ[2]))
      /\ Enter(s) = If(g.first)
  BY <1>1 DEF AfterTestAs, EntersAs
<1>5. /\ e.first = c.first /\ DOMAIN e.on = DOMAIN c.on
      /\ \A x \in DOMAIN c.on, o \in BOOLEAN :
           /\ e.on[x][o] \in DOMAIN c.on \cup {Yes, No}
           /\ after(x, o) = Out(e.on[x][o], yes, no)
  <2>1. /\ Not(c).first = c.first /\ DOMAIN Not(c).on = DOMAIN c.on
        /\ \A x \in DOMAIN c.on, o \in BOOLEAN :
             /\ Not(c).on[x][o] \in DOMAIN c.on \cup {Yes, No}
             /\ \A y, z : Out(Not(c).on[x][o], y, z) = Out(c.on[x][o], z, y)
    BY <1>2, Negated
  <2>2. \A x \in DOMAIN c.on, o \in BOOLEAN : c.on[x][o] \in DOMAIN c.on \cup {Yes, No}
    BY <1>2 DEF IsEvaluable
  <2>. HIDE DEF c, after
  <2>3. CASE e = c /\ yes = Enter(Successor(n, 0)) /\ no = Enter(Successor(n, 1))
    BY <1>4, <2>2, <2>3
  <2>4. CASE e = Not(c) /\ yes = Enter(Successor(n, 1)) /\ no = Enter(Successor(n, 0))
    <3>1. \A x \in DOMAIN c.on, o \in BOOLEAN : Out(e.on[x][o], yes, no) = Out(c.on[x][o], no, yes)
      <4>. SUFFICES ASSUME NEW x \in DOMAIN c.on, NEW o \in BOOLEAN
                    PROVE  Out(e.on[x][o], yes, no) = Out(c.on[x][o], no, yes)
        OBVIOUS
      <4>1. \A y, z : Out(Not(c).on[x][o], y, z) = Out(c.on[x][o], z, y)
        BY <2>1
      <4>2. e.on[x][o] = Not(c).on[x][o]
        BY <2>4
      <4>3. Out(Not(c).on[x][o], yes, no) = Out(c.on[x][o], no, yes)
        BY <4>1, Zenon
      <4>. QED  BY <4>2, <4>3
    <3>2. \A x \in DOMAIN c.on, o \in BOOLEAN : after(x, o) = Out(c.on[x][o], no, yes)
      BY <1>4, <2>4
    <3>. QED  BY <2>1, <2>4, <3>1, <3>2
  <2>. QED  BY <2>3, <2>4 DEF c
<1>. HIDE DEF c, g, after
<1>6. /\ f.cond.first = e.first
      /\ DOMAIN f.cond.on = DOMAIN c.on \cup DOMAIN g.on
      /\ \A x \in DOMAIN g.on : f.cond.on[x] = g.on[x]
      /\ \A x \in DOMAIN c.on, o \in BOOLEAN :
           f.cond.on[x][o] = IF e.on[x][o] = v THEN g.first ELSE e.on[x][o]
  BY <1>2, <1>5 DEF Sequel, g
<1>7. g.first \in DOMAIN g.on /\ g.first \in Block /\ c.first \in DOMAIN c.on
      /\ DOMAIN c.on \subseteq Block
      /\ \A x \in DOMAIN g.on, o \in BOOLEAN : g.on[x][o] \in DOMAIN g.on \cup {Yes, No}
  BY <1>2 DEF IsEvaluable, IsCondition
<1>8. IsEvaluable(f.cond)
  <2>1. ASSUME NEW x \in DOMAIN f.cond.on, NEW o \in BOOLEAN
        PROVE  f.cond.on[x][o] \in DOMAIN f.cond.on \cup {Yes, No}
    <3>1. CASE x \in DOMAIN g.on
      BY <1>6, <1>7, <3>1
    <3>2. CASE x \in DOMAIN c.on
      BY <1>5, <1>6, <1>7, <3>2
    <3>. QED  BY <1>6, <3>1, <3>2
  <2>2. f.cond.first \in DOMAIN f.cond.on
    BY <1>5, <1>6, <1>7
  <2>. QED  BY <2>1, <2>2 DEF IsEvaluable
<1>9. DOMAIN f.cond.on = UNION {DOMAIN node[m].cond.on : m \in {n} \cup f.gone}
  <2>1. UNION {DOMAIN node[m].cond.on : m \in {n} \cup f.gone}
          = DOMAIN node[n].cond.on \cup DOMAIN node[s].cond.on
    BY <1>2
  <2>. QED  BY <1>6, <2>1 DEF c, g
<1>10. ASSUME NEW x \in DOMAIN f.cond.on, NEW o \in BOOLEAN
       PROVE  after(x, o) = Out(f.cond.on[x][o], Enter(f.succ[1]), Enter(f.succ[2]))
  <2>1. CASE x \in DOMAIN g.on
    BY <1>4, <1>6, <2>1
  <2>2. CASE x \in DOMAIN c.on
    <3>1. /\ after(x, o) = Out(e.on[x][o], yes, no)
          /\ f.cond.on[x][o] = IF e.on[x][o] = v THEN g.first ELSE e.on[x][o]
      BY <1>5, <1>6, <2>2
    <3>2. g.first # Yes /\ g.first # No
      BY <1>3, <1>7
    <3>. QED  BY <1>3, <1>4, <3>1, <3>2 DEF Out
  <2>. QED  BY <1>6, <2>1, <2>2
<1>. QED  BY <1>5, <1>6, <1>8, <1>9, <1>10 DEF Faithful, c, after

(***************************************************************************)
(* The foldings, when only n leads to what they delete.                    *)
(***************************************************************************)
LEMMA OrFollowerFaithful ==
  ASSUME Careful, NEW n \in Listed, IsCond(n), OrFollower(n),
         \A d \in OrFollowerFolded(n).gone : OnlyFrom(n, d)
  PROVE  Faithful(n, OrFollowerFolded(n))
<1>. DEFINE s0 == Successor(n, 0)
            s1 == Successor(n, 1)
            f == OrFollowerFolded(n)
            yes == Enter(s0)
            no == Enter(s1)
<1>1. IInv /\ phase # "undefined"
  BY CarefulGraph DEF Careful
<1>2. /\ s1 \in Listed /\ IsCond(s1) /\ node[s1].body = <<>> /\ s0 = Successor(s1, 0)
      /\ node[n].succ = <<s0, s1>>
  BY <1>1, CondIs DEF OrFollower, IsSingleJumpNode
<1>3. /\ f.cond = Sequel(node[n].cond, No, node[s1].cond)
      /\ f.succ = ReconnectFollower(node[n].succ, Successor(s1, 1))
      /\ f.gone = {s1}
  BY DEF OrFollowerFolded, Or
<1>4. f.succ[1] = s0 /\ f.succ[2] = Successor(s1, 1)
  BY <1>2, <1>3, Reconnected
<1>5. s1 # n
  BY <1>3 DEF OnlyFrom
<1>6. Yes # No
  BY DEF Yes, No
<1>. HIDE DEF f, yes, no
<1>. QED  BY <1>2, <1>3, <1>4, <1>5, <1>6, SequelFaithful DEF f, yes, no

LEMMA NotOrDiamondFaithful ==
  ASSUME Careful, NEW n \in Listed, IsCond(n), NotOrDiamond(n),
         \A d \in NotOrDiamondFolded(n).gone : OnlyFrom(n, d)
  PROVE  Faithful(n, NotOrDiamondFolded(n))
<1>. DEFINE s0 == Successor(n, 0)
            s1 == Successor(n, 1)
            a == Successor(s0, 0)
            b == Successor(s0, 1)
            f == NotOrDiamondFolded(n)
            yes == Enter(s1)
            no == Enter(s0)
<1>1. IInv /\ phase # "undefined" /\ EntersAs
  BY CarefulGraph, EnterIs DEF Careful
<1>2. /\ s0 \in Listed /\ IsCond(s0) /\ node[s0].body = <<>>
      /\ s1 \in Listed /\ ~IsCond(s1) /\ node[s1].body = <<>> /\ Successor(s1, 0) = a
      /\ node[n].succ = <<s0, s1>>
  BY <1>1, CondIs DEF NotOrDiamond, IsSingleJumpNode, IsCond
<1>3. /\ f.cond = Sequel(Not(node[n].cond), No, node[s0].cond)
      /\ f.succ = ReconnectSuccessor(ReconnectFollower(node[n].succ, b), s0, a)
      /\ f.gone = {s0, s1}
  BY DEF NotOrDiamondFolded, Or
<1>4. OnlyFrom(n, s0) /\ s0 # n
  BY <1>3 DEF OnlyFrom
<1>5. b # s0
  BY <1>1, <1>2, <1>4, TargetIs
<1>6. f.succ[1] = a /\ f.succ[2] = b
  <2>. HIDE DEF a, b, s0, s1
  <2>. QED  BY <1>2, <1>3, <1>5, Reconnected
<1>7. Enter(s1) = Enter(a)
  BY <1>1, <1>2 DEF EntersAs
<1>8. Yes # No
  BY DEF Yes, No
<1>. HIDE DEF f, yes, no
<1>. QED  BY <1>2, <1>3, <1>4, <1>6, <1>7, <1>8, SequelFaithful DEF f, yes, no

LEMMA NotAndFollowerFaithful ==
  ASSUME Careful, NEW n \in Listed, IsCond(n), NotAndFollower(n),
         \A d \in NotAndFollowerFolded(n).gone : OnlyFrom(n, d)
  PROVE  Faithful(n, NotAndFollowerFolded(n))
<1>. DEFINE s0 == Successor(n, 0)
            s1 == Successor(n, 1)
            a == Successor(s1, 0)
            b == Successor(s1, 1)
            f == NotAndFollowerFolded(n)
            yes == Enter(s1)
            no == Enter(s0)
<1>1. IInv /\ phase # "undefined"
  BY CarefulGraph DEF Careful
<1>2. /\ s1 \in Listed /\ IsCond(s1) /\ node[s1].body = <<>> /\ s0 = b
      /\ node[n].succ = <<s0, s1>>
  BY <1>1, CondIs DEF NotAndFollower, IsSingleJumpNode
<1>3. /\ f.cond = Sequel(Not(node[n].cond), Yes, node[s1].cond)
      /\ f.succ = ReconnectFollower(ReconnectSuccessor(node[n].succ, s0, a), b)
      /\ f.gone = {s1}
  BY DEF NotAndFollowerFolded, And
<1>4. f.succ[1] = a /\ f.succ[2] = b
  <2>. DEFINE x == IF s1 = s0 THEN a ELSE s1
  <2>. HIDE DEF a, b, s0, s1
  <2>1. ReconnectSuccessor(node[n].succ, s0, a) = <<a, x>>
    BY <1>2, Reconnected
  <2>. HIDE DEF x
  <2>. QED  BY <1>3, <2>1, Reconnected
<1>5. s1 # n
  BY <1>3 DEF OnlyFrom
<1>6. Yes # No
  BY DEF Yes, No
<1>. HIDE DEF f, yes, no
<1>. QED  BY <1>2, <1>3, <1>4, <1>5, <1>6, SequelFaithful DEF f, yes, no

LEMMA NotOrTargetFaithful ==
  ASSUME Careful, NEW n \in Listed, IsCond(n), NotOrTarget(n),
         \A d \in NotOrTargetFolded(n).gone : OnlyFrom(n, d)
  PROVE  Faithful(n, NotOrTargetFolded(n))
<1>. DEFINE s0 == Successor(n, 0)
            s1 == Successor(n, 1)
            a == Successor(s0, 0)
            b == Successor(s0, 1)
            f == NotOrTargetFolded(n)
            yes == Enter(s1)
            no == Enter(s0)
<1>1. IInv /\ phase # "undefined"
  BY CarefulGraph DEF Careful
<1>2. /\ s0 \in Listed /\ IsCond(s0) /\ node[s0].body = <<>> /\ s1 = a
      /\ node[n].succ = <<s0, s1>>
  BY <1>1, CondIs DEF NotOrTarget, IsSingleJumpNode
<1>3. /\ f.cond = Sequel(Not(node[n].cond), No, node[s0].cond)
      /\ f.succ = ReconnectSuccessor(ReconnectSuccessor(node[n].succ, s1, b), s0, a)
      /\ f.gone = {s0}
  BY DEF NotOrTargetFolded, Or
<1>4. OnlyFrom(n, s0) /\ s0 # n
  BY <1>3 DEF OnlyFrom
<1>5. b # s0 /\ s1 # s0
  BY <1>1, <1>2, <1>4, TargetIs
<1>6. f.succ[1] = a /\ f.succ[2] = b
  <2>. HIDE DEF a, b, s0, s1
  <2>1. ReconnectSuccessor(node[n].succ, s1, b) = <<s0, b>>
    BY <1>2, <1>5, Reconnected
  <2>. QED  BY <1>3, <1>5, <2>1, Reconnected
<1>7. Yes # No
  BY DEF Yes, No
<1>. HIDE DEF f, yes, no
<1>. QED  BY <1>2, <1>3, <1>4, <1>6, <1>7, SequelFaithful DEF f, yes, no

LEMMA AndTargetFaithful ==
  ASSUME Careful, NEW n \in Listed, IsCond(n), AndTarget(n),
         \A d \in AndTargetFolded(n).gone : OnlyFrom(n, d)
  PROVE  Faithful(n, AndTargetFolded(n))
<1>. DEFINE s0 == Successor(n, 0)
            s1 == Successor(n, 1)
            a == Successor(s0, 0)
            f == AndTargetFolded(n)
            yes == Enter(s0)
            no == Enter(s1)
<1>1. IInv /\ phase # "undefined"
  BY CarefulGraph DEF Careful
<1>2. /\ s0 \in Listed /\ IsCond(s0) /\ node[s0].body = <<>> /\ s1 = Successor(s0, 1)
      /\ node[n].succ = <<s0, s1>>
  BY <1>1, CondIs DEF AndTarget, IsSingleJumpNode
<1>3. /\ f.cond = Sequel(node[n].cond, Yes, node[s0].cond)
      /\ f.succ = ReconnectSuccessor(node[n].succ, s0, a)
      /\ f.gone = {s0}
  BY DEF AndTargetFolded, And
<1>4. OnlyFrom(n, s0) /\ s0 # n
  BY <1>3 DEF OnlyFrom
<1>5. s1 # s0
  BY <1>1, <1>2, <1>4, TargetIs
<1>6. f.succ[1] = a /\ f.succ[2] = s1
  <2>. HIDE DEF a, s0, s1
  <2>. QED  BY <1>2, <1>3, <1>5, Reconnected
<1>7. Yes # No
  BY DEF Yes, No
<1>. HIDE DEF f, yes, no
<1>. QED  BY <1>2, <1>3, <1>4, <1>6, <1>7, SequelFaithful DEF f, yes, no

(* A jump that only n falls into is passed by. *)
LEMMA SkippedFaithful ==
  ASSUME Careful, NEW n \in Listed, SkipsJump(n),
         \A d \in Skipped(n).gone : OnlyFrom(n, d)
  PROVE  Faithful(n, Skipped(n))
<1>. DEFINE s0 == Successor(n, 0)
            s1 == Successor(n, 1)
            a == Successor(s1, 0)
            f == Skipped(n)
<1>1. IInv /\ phase # "undefined" /\ EntersAs /\ AfterTestAs
  BY CarefulGraph, EnterIs, AfterIs DEF Careful
<1>2. IsCond(n)
  BY DEF SkipsJump
<1>3. /\ s1 \in Listed /\ ~IsCond(s1) /\ node[s1].body = <<>>
      /\ node[n].succ = <<s0, s1>>
  BY <1>1, <1>2, CondIs DEF SkipsJump, IsSingleJumpNode, IsCond
<1>4. /\ f.cond = node[n].cond
      /\ f.succ = ReconnectSuccessor(node[n].succ, s1, a)
      /\ f.gone = {s1}
  BY DEF Skipped
<1>5. s0 # s1
  <2>1. OnlyFrom(n, Successor(n, 1))
    BY <1>4
  <2>2. Successor(n, 1 - 1) # s1
    BY <1>1, <1>2, <2>1, OnlyWayOut
  <2>. QED  BY <2>2
<1>6. f.succ[1] = s0 /\ f.succ[2] = a
  <2>. HIDE DEF a, s0, s1
  <2>. QED  BY <1>3, <1>4, <1>5, Reconnected
<1>7. Enter(s1) = Enter(a)
  BY <1>1, <1>3 DEF EntersAs
<1>8. IsEvaluable(node[n].cond) /\ DOMAIN node[s1].cond.on = {}
  BY <1>2, <1>3 DEF Careful, OnceInv
<1>9. \A x \in DOMAIN node[n].cond.on, o \in BOOLEAN :
        AfterTest(x, o) = Out(node[n].cond.on[x][o], Enter(s0), Enter(s1))
  BY <1>1, <1>2 DEF AfterTestAs
<1>10. DOMAIN node[n].cond.on = UNION {DOMAIN node[m].cond.on : m \in {n, s1}}
  BY <1>8
<1>11. {n} \cup f.gone = {n, s1}
  BY <1>4
<1>. HIDE DEF f, s0, s1, a
<1>12. Faithful(n, f)
  BY <1>3, <1>4, <1>6, <1>7, <1>8, <1>9, <1>10, <1>11 DEF Faithful
<1>. QED  BY <1>12 DEF f

(* A folding in which only n leads to what goes changes nothing. *)
LEMMA FoldCareful ==
  ASSUME IInv, IInv', CarefulInv, NEW n \in Listed, IsCond(n), NEW f, Foldable(n, f), Fold(n, f),
         Careful /\ (\A d \in f.gone : OnlyFrom(n, d)) => Faithful(n, f)
  PROVE  CarefulInv'
<1>. SUFFICES ASSUME ~careless' PROVE OnceInv' /\ SameProgram'
  BY DEF CarefulInv
<1>1. ~careless /\ (\A d \in f.gone : OnlyFrom(n, d)) /\ meaning' = meaning
  BY DEF Fold
<1>2. Careful /\ SameProgram
  BY <1>1 DEF Careful, CarefulInv
<1>3. Faithful(n, f)
  BY <1>1, <1>2
<1>4. OnceInv'
  BY <1>2, <1>3, FoldOnce
<1>5. Careful'
  BY <1>4 DEF Careful
<1>6. Meaning' = Meaning
  BY <1>2, <1>3, <1>5, FoldMeaning
<1>. QED  BY <1>1, <1>2, <1>4, <1>6 DEF SameProgram

-----------------------------------------------------------------------------
(***************************************************************************)
(* A join of n with f into new, when only n leads to f and f not to n.     *)
(***************************************************************************)
Joins(n, f, new) ==
  /\ n \in Listed /\ f \in Listed /\ n # f /\ new \notin Listed
  /\ f = Successor(n, 0) /\ Type(n) \in {"FALL_THROUGH", "JUMP"}
  /\ \A p \in Listed \ {n} : f \notin ToSet(node[p].succ)
  /\ n \notin ToSet(node[f].succ)
  /\ Listed' = (Listed \ {n, f}) \cup {new}
  /\ list' # <<>> /\ Entry' = IF Entry = n THEN new ELSE Entry
  /\ IsInjective(list')
  /\ node'[new].type = node[f].type
  /\ node'[new].body = node[n].body \o node[f].body
  /\ node'[new].cond = node[f].cond
  /\ node'[new].succ = node[f].succ
  /\ \A m \in Listed \ {n, f} :
       /\ node'[m].type = node[m].type
       /\ node'[m].body = node[m].body
       /\ node'[m].cond = node[m].cond
       /\ node'[m].succ = ReconnectSuccessor(node[m].succ, n, new)

LEMMA JoinLeaves ==
  ASSUME Careful, JoinNodes, ~careless'
  PROVE  \E n, f, new : Joins(n, f, new)
<1>1. PICK n \in Listed, k \in DOMAIN list :
        LET f     == Successor(n, 0)
            new   == made + 1
            nodes == MarkForDeletion([Redirected(n, new) EXCEPT ![new] = Joined(n, f)], {n, f})
        IN  /\ NodePattern(n) = "Join"
            /\ made' = new
            /\ node' = nodes
            /\ list[k] = n
            /\ list' = RemoveDeletedNodes(InsertAt(list, k, new), nodes)
            /\ careless' = (careless \/ ~OnlyFrom(n, f) \/ n \in ToSet(node[f].succ))
  <2>1. \A n \in Listed : list[CHOOSE k \in DOMAIN list : list[k] = n] = n
                          /\ (CHOOSE k \in DOMAIN list : list[k] = n) \in DOMAIN list
    BY DEF Listed, ToSet
  <2>. QED  BY <2>1, Zenon DEF JoinNodes, FirstMatch
<1>. DEFINE f == Successor(n, 0)
            new == made + 1
            longer == InsertAt(list, k, new)
<1>2. OnlyFrom(n, f) /\ n \notin ToSet(node[f].succ)
  BY <1>1
<1>3. Type(n) \in {"FALL_THROUGH", "JUMP"}
  <2>1. JoinsFollower(n)
    BY <1>1, Zenon DEF NodePattern
  <2>. QED  BY <2>1 DEF JoinsFollower
<1>4. /\ NodesInv /\ IInv /\ phase # "undefined" /\ list # <<>>
      /\ Listed \subseteq 1 .. made /\ 1 .. made \subseteq Id /\ made \in Nat
      /\ IsInjective(list)
  BY CarefulGraph DEF Careful, OnceInv
<1>5. f \in Listed /\ n \in Id /\ f \in Id /\ 0 < SuccessorCount(n)
  <2>1. f \in Listed /\ SuccessorCount(n) = 1
    BY <1>3, <1>4, JumpIs
  <2>. HIDE DEF f
  <2>. QED  BY <1>4, <2>1
<1>6. new \in Id /\ new \notin Listed
  <2>1. Cardinality(Listed) + made <= 2 * N
    BY <1>4 DEF IInv, WalkInv
  <2>2. Cardinality(Listed) \in Nat /\ Cardinality(Listed) # 0 /\ N \in Nat
    BY <1>5, CarefulGraph, FS_EmptySet
  <2>. QED  BY <1>4, <2>1, <2>2 DEF Id
<1>7. JoinsAt(n, f, new)
  BY <1>1, <1>4, <1>5, <1>6, JoinNodesAt
<1>8. /\ \A p \in Listed \ {n} : f \notin ToSet(node[p].succ)
      /\ n # f /\ f # Entry
  <2>1. PredecessorCount(f) = 1 /\ f # n /\ f # Entry /\ 0 \in {0, 1}
    BY <1>2 DEF OnlyFrom
  <2>2. Successor(n, 0) = f
    OBVIOUS
  <2>. HIDE DEF f
  <2>. QED  BY <1>4, <1>5, <2>1, <2>2, OnlyWay
<1>9. f = Successor(n, 0)
  OBVIOUS
<1>. HIDE DEF f
<1>10. list' = RemoveDeletedNodes(longer, node')
  BY <1>1 DEF f
<1>. DEFINE S == 1 .. new
<1>11. list \in Seq(S) /\ new \in S
  <2>1. list \in Seq(1 .. made) /\ 1 .. made \subseteq 1 .. new /\ new \in 1 .. new
    BY <1>4 DEF NodesInv
  <2>. QED  BY <2>1, SeqGrows
<1>. HIDE DEF S, new
<1>12. /\ longer \in Seq(S) /\ longer # <<>>
       /\ ToSet(longer) = Listed \cup {new}
       /\ longer[1] = IF k = 1 THEN new ELSE list[1]
       /\ IsInjective(longer)
  <2>1. new \notin ToSet(list) /\ IsInjective(list)
    BY <1>4, <1>6 DEF Listed
  <2>2. /\ longer \in Seq(S) /\ longer # <<>>
        /\ ToSet(longer) = ToSet(list) \cup {new}
        /\ longer[1] = IF k = 1 THEN new ELSE list[1]
    BY <1>11, Inserted
  <2>3. IsInjective(longer)
    BY <1>11, <2>1, Inserted
  <2>. QED  BY <2>2, <2>3 DEF Listed
<1>. HIDE DEF longer
<1>13. ASSUME NEW x \in Listed \cup {new}
       PROVE  /\ node'[x].type = IF x = new THEN node[f].type
                                 ELSE IF x \in {n, f} THEN Deleted ELSE node[x].type
              /\ node'[x].type # Deleted <=> x \notin {n, f}
  <2>1. \A m \in Listed : m \in Id /\ node[m].type # Deleted
    BY <1>4 DEF NodesInv, HasSuccessors, Types, Deleted
  <2>2. x \in Id
    BY <1>6, <2>1
  <2>3. node'[x].type = IF x = new THEN node[f].type
                        ELSE IF x \in {n, f} THEN Deleted ELSE node[x].type
    BY <1>7, <2>2 DEF JoinsAt
  <2>4. node[f].type # Deleted /\ n # new /\ f # new
    BY <1>1, <1>5, <1>6, <2>1
  <2>. QED  BY <2>1, <2>3, <2>4
<1>14. list[1] \in Listed /\ (k = 1 <=> Entry = n)
  <2>1. 1 \in DOMAIN list
    BY <1>4, <1>11
  <2>. QED  BY <1>1, <1>4, <2>1 DEF Listed, ToSet, Entry, IsInjective
<1>15. longer[1] \in Listed \cup {new} /\ longer[1] \notin {n, f}
  BY <1>1, <1>5, <1>6, <1>8, <1>12, <1>14 DEF Entry
<1>16. node'[longer[1]].type # Deleted
  BY <1>13, <1>15
<1>17. /\ list' # <<>> /\ list'[1] = longer[1] /\ IsInjective(list')
       /\ ToSet(list') = {x \in ToSet(longer) : node'[x].type # Deleted}
  BY <1>10, <1>12, <1>16, Remaining
<1>18. Listed' = (Listed \ {n, f}) \cup {new}
  <2>1. \A x : x \in ToSet(list') <=> x \in Listed \cup {new} /\ x \notin {n, f}
    BY <1>12, <1>13, <1>17
  <2>2. new \notin {n, f}
    BY <1>5, <1>6
  <2>3. ToSet(list') = (Listed \ {n, f}) \cup {new}
    BY <2>1, <2>2
  <2>. QED  BY <2>3 DEF Listed
<1>19. Entry' = IF Entry = n THEN new ELSE Entry
  BY <1>12, <1>14, <1>17 DEF Entry
<1>20. /\ node'[new].type = node[f].type
       /\ node'[new].body = node[n].body \o node[f].body
       /\ node'[new].cond = node[f].cond
       /\ node'[new].succ = node[f].succ
  BY <1>6, <1>7 DEF JoinsAt
<1>21. ASSUME NEW m \in Listed \ {n, f}
       PROVE  /\ node'[m].type = node[m].type
              /\ node'[m].body = node[m].body
              /\ node'[m].cond = node[m].cond
              /\ node'[m].succ = ReconnectSuccessor(node[m].succ, n, new)
  <2>1. m \in Id /\ m # new /\ m \notin {n, f}
    BY <1>4, <1>6
  <2>. QED  BY <1>7, <2>1 DEF JoinsAt
<1>22. Joins(n, f, new)
  BY <1>1, <1>2, <1>3, <1>5, <1>6, <1>8, <1>9, <1>17, <1>18, <1>19, <1>20, <1>21 DEF Joins
<1>. QED  BY <1>22

(* One sequence after another. *)
LEMMA Concatenated ==
  ASSUME NEW S, NEW s \in Seq(S), NEW t \in Seq(S)
  PROVE  /\ Len(s) \in Nat /\ Len(t) \in Nat /\ DOMAIN s = 1 .. Len(s) /\ DOMAIN t = 1 .. Len(t)
         /\ DOMAIN (s \o t) = 1 .. Len(s) + Len(t) /\ Len(s \o t) = Len(s) + Len(t)
         /\ \A i \in 1 .. Len(s) : (s \o t)[i] = s[i]
         /\ \A i \in 1 .. Len(t) : (s \o t)[Len(s) + i] = t[i]
         /\ ToSet(s \o t) = ToSet(s) \cup ToSet(t)
         /\ IsInjective(s) /\ IsInjective(t) /\ ToSet(s) \cap ToSet(t) = {} => IsInjective(s \o t)
         /\ s = <<>> => s \o t = t
         /\ s # <<>> => s \o t # <<>> /\ (s \o t)[1] = s[1]
         /\ t # <<>> => s \o t # <<>>
<1>. DEFINE p == Len(s)
            q == Len(t)
            u == s \o t
<1>1. /\ p \in Nat /\ q \in Nat /\ DOMAIN s = 1 .. p /\ DOMAIN t = 1 .. q
      /\ s = <<>> => p = 0
      /\ s # <<>> => p > 0
      /\ t # <<>> => q > 0
  OBVIOUS
<1>2. /\ Len(u) = p + q /\ DOMAIN u = 1 .. p + q /\ u \in Seq(S)
      /\ \A i \in 1 .. p : u[i] = s[i]
      /\ \A i \in 1 .. q : u[p + i] = t[i]
  OBVIOUS
<1>3. s = <<>> => u = t
  OBVIOUS
<1>. HIDE DEF p, q, u
<1>4. \A i \in 1 .. p + q : i \in 1 .. p \/ \E j \in 1 .. q : i = p + j
  <2>. SUFFICES ASSUME NEW i \in 1 .. p + q, i \notin 1 .. p PROVE i - p \in 1 .. q /\ i = p + (i - p)
    OBVIOUS
  <2>. QED  BY <1>1
<1>5. 1 .. p \subseteq 1 .. p + q /\ \A j \in 1 .. q : p + j \in 1 .. p + q
  BY <1>1
<1>6. ToSet(u) = ToSet(s) \cup ToSet(t)
  <2>1. ASSUME NEW x \in ToSet(u) PROVE x \in ToSet(s) \cup ToSet(t)
    <3>1. PICK i \in 1 .. p + q : x = u[i]
      BY <1>2 DEF ToSet
    <3>. QED  BY <1>1, <1>2, <1>4, <3>1 DEF ToSet
  <2>2. ASSUME NEW x \in ToSet(s) \cup ToSet(t) PROVE x \in ToSet(u)
    <3>1. CASE x \in ToSet(s)
      BY <1>1, <1>2, <1>5, <3>1 DEF ToSet
    <3>2. CASE x \in ToSet(t)
      <4>1. PICK j \in 1 .. q : x = t[j]
        BY <1>1, <3>2 DEF ToSet
      <4>. QED  BY <1>2, <1>5, <4>1 DEF ToSet
    <3>. QED  BY <3>1, <3>2
  <2>. QED  BY <2>1, <2>2
<1>7. ASSUME IsInjective(s), IsInjective(t), ToSet(s) \cap ToSet(t) = {} PROVE IsInjective(u)
  <2>. SUFFICES ASSUME NEW i \in 1 .. p + q, NEW j \in 1 .. p + q, u[i] = u[j] PROVE i = j
    BY <1>2 DEF IsInjective
  <2>1. \A k \in 1 .. p : u[k] \in ToSet(s)
    BY <1>1, <1>2 DEF ToSet
  <2>2. \A k \in 1 .. q : u[p + k] \in ToSet(t)
    BY <1>1, <1>2 DEF ToSet
  <2>3. CASE i \in 1 .. p /\ j \in 1 .. p
    BY <1>1, <1>2, <1>7, <2>3 DEF IsInjective
  <2>4. CASE i \notin 1 .. p /\ j \notin 1 .. p
    <3>1. PICK k \in 1 .. q, l \in 1 .. q : i = p + k /\ j = p + l
      BY <1>4, <2>4
    <3>2. t[k] = t[l]
      BY <1>2, <3>1
    <3>3. k = l
      BY <1>1, <1>7, <3>2 DEF IsInjective
    <3>. QED  BY <3>1, <3>3
  <2>5. CASE i \in 1 .. p /\ j \notin 1 .. p
    BY <1>4, <1>7, <2>1, <2>2, <2>5
  <2>6. CASE i \notin 1 .. p /\ j \in 1 .. p
    BY <1>4, <1>7, <2>1, <2>2, <2>6
  <2>. QED  BY <2>3, <2>4, <2>5, <2>6
<1>8. /\ s # <<>> => u # <<>> /\ u[1] = s[1]
      /\ t # <<>> => u # <<>>
  <2>1. u = <<>> => Len(u) = 0
    OBVIOUS
  <2>. QED  BY <1>1, <1>2, <2>1
<1>. QED  BY <1>1, <1>2, <1>3, <1>6, <1>7, <1>8 DEF p, q, u

(* Every block is still in one node, and so is every test. *)
LEMMA JoinOnce ==
  ASSUME Careful, NEW n, NEW f, NEW new, Joins(n, f, new)
  PROVE  OnceInv'
<1>1. /\ n \in Listed /\ f \in Listed /\ n # f /\ new \notin Listed
      /\ Listed' = (Listed \ {n, f}) \cup {new}
      /\ list' # <<>> /\ IsInjective(list') /\ ~IsCond(n)
  BY DEF Joins, IsCond
<1>2. \A m \in Listed :
        /\ node[m].body \in Seq(Block)
        /\ Type(m) = "RETURN" => node[m].body # <<>>
        /\ IsCond(m) => IsEvaluable(node[m].cond)
        /\ ~IsCond(m) => DOMAIN node[m].cond.on = {}
        /\ IsInjective(node[m].body)
  BY CarefulGraph DEF Careful, OnceInv, NodesInv, IsNode
<1>3. \A m, x \in Listed : m # x =>
        /\ ToSet(node[m].body) \cap ToSet(node[x].body) = {}
        /\ DOMAIN node[m].cond.on \cap DOMAIN node[x].cond.on = {}
  BY DEF Careful, OnceInv
<1>. DEFINE body == node[n].body \o node[f].body
<1>4. /\ node[f].body # <<>> => body # <<>>
      /\ IsInjective(body)
      /\ ToSet(body) = ToSet(node[n].body) \cup ToSet(node[f].body)
  <2>. DEFINE s == node[n].body
              t == node[f].body
  <2>1. s \in Seq(Block) /\ t \in Seq(Block)
    BY <1>1, <1>2
  <2>2. IsInjective(s) /\ IsInjective(t) /\ ToSet(s) \cap ToSet(t) = {}
    BY <1>1, <1>2, <1>3
  <2>. HIDE DEF s, t
  <2>3. t # <<>> => s \o t # <<>>
    BY <2>1, Concatenated
  <2>4. IsInjective(s \o t) /\ ToSet(s \o t) = ToSet(s) \cup ToSet(t)
    BY <2>1, <2>2, Concatenated
  <2>. QED  BY <2>3, <2>4 DEF s, t
<1>5. /\ node'[new].type = node[f].type /\ node'[new].cond = node[f].cond
      /\ node'[new].body = body
      /\ \A m \in Listed \ {n, f} :
           /\ node'[m].type = node[m].type
           /\ node'[m].body = node[m].body
           /\ node'[m].cond = node[m].cond
  BY DEF Joins
<1>. HIDE DEF body
<1>6. ASSUME NEW m \in Listed'
      PROVE  /\ (Type(m) = "RETURN")' => node'[m].body # <<>>
             /\ (IsCond(m))' => IsEvaluable(node'[m].cond)
             /\ ~(IsCond(m))' => DOMAIN node'[m].cond.on = {}
             /\ IsInjective(node'[m].body)
  <2>1. CASE m = new
    BY <1>1, <1>2, <1>4, <1>5, <2>1 DEF Type, IsCond
  <2>2. CASE m # new
    <3>1. m \in Listed \ {n, f}
      BY <1>1, <2>2
    <3>. QED  BY <1>2, <1>5, <3>1 DEF Type, IsCond
  <2>. QED  BY <2>1, <2>2
<1>7. /\ \A m \in Listed' : node'[m].cond = node[IF m = new THEN f ELSE m].cond
      /\ \A m \in Listed' : ToSet(node'[m].body) =
           UNION {ToSet(node[x].body) : x \in IF m = new THEN {n, f} ELSE {m}}
  BY <1>1, <1>4, <1>5
<1>8. ASSUME NEW m \in Listed', NEW x \in Listed', m # x
      PROVE  /\ ToSet(node'[m].body) \cap ToSet(node'[x].body) = {}
             /\ DOMAIN node'[m].cond.on \cap DOMAIN node'[x].cond.on = {}
  <2>1. DOMAIN node'[m].cond.on \cap DOMAIN node'[x].cond.on = {}
    BY <1>1, <1>3, <1>7, <1>8
  <2>2. ToSet(node'[m].body) \cap ToSet(node'[x].body) = {}
    <3>. DEFINE P == IF m = new THEN {n, f} ELSE {m}
                Q == IF x = new THEN {n, f} ELSE {x}
    <3>1. P \subseteq Listed /\ Q \subseteq Listed /\ P \cap Q = {}
      BY <1>1, <1>8
    <3>2. /\ ToSet(node'[m].body) = UNION {ToSet(node[y].body) : y \in P}
          /\ ToSet(node'[x].body) = UNION {ToSet(node[y].body) : y \in Q}
      BY <1>7
    <3>. HIDE DEF P, Q
    <3>3. \A y \in P, z \in Q : ToSet(node[y].body) \cap ToSet(node[z].body) = {}
      BY <1>3, <3>1
    <3>. QED  BY <3>2, <3>3
  <2>. QED  BY <2>1, <2>2
<1>. QED  BY <1>1, <1>6, <1>8 DEF OnceInv

(* Where the nodes of the joined graph lead. *)
LEMMA JoinWays ==
  ASSUME Careful, NEW n, NEW f, NEW new, Joins(n, f, new)
  PROVE  /\ \A m \in Listed \ {n, f}, i \in {0, 1} : i < SuccessorCount(m) =>
              /\ Successor(m, i) \in Listed \ {f}
              /\ Successor(m, i)' = IF Successor(m, i) = n THEN new ELSE Successor(m, i)
         /\ \A i \in {0, 1} : i < SuccessorCount(f) =>
              /\ Successor(f, i) \in Listed \ {n, f}
              /\ Successor(new, i)' = Successor(f, i)
<1>1. /\ n \in Listed /\ f \in Listed /\ n # f
      /\ \A p \in Listed \ {n} : f \notin ToSet(node[p].succ)
      /\ n \notin ToSet(node[f].succ)
      /\ node'[new].succ = node[f].succ
      /\ \A m \in Listed \ {n, f} : node'[m].succ = ReconnectSuccessor(node[m].succ, n, new)
  BY DEF Joins
<1>2. NodesInv /\ Closed
  BY CarefulGraph
<1>3. ASSUME NEW m \in Listed, NEW i \in {0, 1}, i < SuccessorCount(m)
      PROVE  /\ i + 1 \in DOMAIN node[m].succ
             /\ Successor(m, i) \in ToSet(node[m].succ) /\ Successor(m, i) \in Listed
  <2>1. SuccessorCount(m) \in 0 .. 2 /\ DOMAIN node[m].succ = 1 .. SuccessorCount(m)
    BY <1>2, SuccessorsAre
  <2>2. i + 1 \in 1 .. SuccessorCount(m)
    BY <1>3, <2>1
  <2>3. Successor(m, i) \in ToSet(node[m].succ)
    BY <2>1, <2>2 DEF Successor, ToSet
  <2>. QED  BY <1>2, <2>1, <2>2, <2>3 DEF Closed
<1>4. ASSUME NEW m \in Listed \ {n, f}, NEW i \in {0, 1}, i < SuccessorCount(m)
      PROVE  /\ Successor(m, i) \in Listed \ {f}
             /\ Successor(m, i)' = IF Successor(m, i) = n THEN new ELSE Successor(m, i)
  <2>1. Successor(m, i) \in Listed \ {f}
    BY <1>1, <1>3, <1>4
  <2>2. i + 1 \in DOMAIN node[m].succ
    BY <1>3, <1>4
  <2>3. Successor(m, i)' = ReconnectSuccessor(node[m].succ, n, new)[i + 1]
    BY <1>1 DEF Successor
  <2>. QED  BY <2>1, <2>2, <2>3 DEF ReconnectSuccessor, Successor
<1>5. ASSUME NEW i \in {0, 1}, i < SuccessorCount(f)
      PROVE  /\ Successor(f, i) \in Listed \ {n, f}
             /\ Successor(new, i)' = Successor(f, i)
  <2>1. Successor(f, i) \in Listed /\ Successor(f, i) \in ToSet(node[f].succ)
    BY <1>1, <1>3, <1>5
  <2>2. Successor(new, i)' = Successor(f, i)
    BY <1>1 DEF Successor
  <2>. QED  BY <1>1, <2>1, <2>2
<1>. QED  BY <1>4, <1>5

(***************************************************************************)
(* Control comes to the same place from the nodes that stay, and from the  *)
(* joined node to where it came to from the first of the two.              *)
(***************************************************************************)
LEMMA JoinEnters ==
  ASSUME Careful, Careful', NEW n, NEW f, NEW new, Joins(n, f, new)
  PROVE  /\ \A m \in Listed \ {n, f} : Enter(m)' = Enter(m)
         /\ Enter(new)' = Enter(n)
<1>. DEFINE G(m) == IF m = new THEN Enter(n) ELSE Enter(m)
            D == {m \in Listed' : Enter(m)' # G(m)}
            T == (D \ {new}) \cup IF new \in D THEN {n, f} ELSE {}
<1>1. EntersAs /\ EntersAs' /\ Trapped /\ Trapped'
  BY EnterIs, PTL
<1>2. /\ n \in Listed /\ f \in Listed /\ n # f /\ new \notin Listed
      /\ Listed' = (Listed \ {n, f}) \cup {new}
      /\ f = Successor(n, 0) /\ Type(n) \in {"FALL_THROUGH", "JUMP"} /\ ~IsCond(n)
      /\ node'[new].type = node[f].type /\ node'[new].cond = node[f].cond
      /\ node'[new].body = node[n].body \o node[f].body
      /\ \A m \in Listed \ {n, f} :
           /\ node'[m].type = node[m].type
           /\ node'[m].body = node[m].body
           /\ node'[m].cond = node[m].cond
  BY DEF Joins, IsCond
<1>3. \A m \in Passing : m \in Listed /\ 0 < SuccessorCount(m) /\ 0 \in {0, 1}
  BY CarefulGraph, SuccessorsAre
<1>4. ASSUME NEW x \in Listed', NEW y \in Listed', y = Successor(x, 0)',
             node'[x].body = <<>>, ~(IsCond(x))'
      PROVE  Enter(x)' = Enter(y)'
  <2>1. Enter(x)' = Enter(Successor(x, 0))'
    BY <1>1, <1>4 DEF EntersAs
  <2>2. Enter(Successor(x, 0))' = Enter(y)'
    BY <1>4 DEF Enter
  <2>. QED  BY <2>1, <2>2
<1>5. ASSUME NEW m \in D, m # new
      PROVE  /\ m \in Passing /\ m \in Passing' /\ m \in Listed \ {n, f}
             /\ Successor(m, 0)' \in D
             /\ Successor(m, 0)' = IF Successor(m, 0) = n THEN new ELSE Successor(m, 0)
  <2>1. m \in Listed' /\ m \in Listed \ {n, f} /\ Enter(m)' # Enter(m)
    BY <1>2, <1>5
  <2>2. /\ node'[m].body = node[m].body /\ node'[m].cond = node[m].cond
        /\ (IsCond(m))' = IsCond(m)
    BY <1>2, <2>1 DEF IsCond, Type
  <2>3. node[m].body = <<>> /\ ~IsCond(m)
    BY <1>1, <2>1, <2>2 DEF EntersAs, Do, If
  <2>4. m \in Passing /\ m \in Passing'
    BY <2>1, <2>2, <2>3 DEF Passing
  <2>5. /\ Successor(m, 0) \in Listed \ {f}
        /\ Successor(m, 0)' = IF Successor(m, 0) = n THEN new ELSE Successor(m, 0)
    BY <1>3, <2>1, <2>4, JoinWays
  <2>6. PICK y : y = Successor(m, 0)'
    OBVIOUS
  <2>7. y \in Listed' /\ G(y) = Enter(Successor(m, 0))
    BY <1>2, <2>5, <2>6
  <2>8. Enter(m) = Enter(Successor(m, 0))
    BY <1>1, <2>1, <2>3 DEF EntersAs
  <2>9. Enter(m)' = Enter(y)'
    BY <1>4, <2>1, <2>2, <2>3, <2>6, <2>7
  <2>10. y \in D
    BY <2>1, <2>7, <2>8, <2>9
  <2>. QED  BY <2>1, <2>4, <2>5, <2>6, <2>10
<1>6. ASSUME new \in D
      PROVE  /\ n \in Passing /\ f \in Passing /\ new \in Passing'
             /\ Successor(f, 0) \in D \ {new} /\ Successor(new, 0)' = Successor(f, 0)
  <2>1. Enter(new)' # Enter(n)
    BY <1>6
  <2>. DEFINE s == node[n].body
              t == node[f].body
  <2>2. s \in Seq(Block) /\ t \in Seq(Block)
    BY <1>2, CarefulGraph DEF NodesInv, IsNode
  <2>. HIDE DEF s, t
  <2>3. /\ s # <<>> => s \o t # <<>> /\ (s \o t)[1] = s[1]
        /\ s = <<>> => s \o t = t
    BY <2>2, Concatenated
  <2>4. /\ Enter(n) = IF s # <<>> THEN Do(s[1]) ELSE Enter(f)
        /\ Enter(f) = IF t # <<>> THEN Do(t[1])
                      ELSE IF IsCond(f) THEN If(node[f].cond.first) ELSE Enter(Successor(f, 0))
    BY <1>1, <1>2 DEF EntersAs, s, t
  <2>5. (IsCond(new))' = IsCond(f) /\ new \in Listed'
    BY <1>2 DEF IsCond, Type
  <2>6. Enter(new)' = IF s \o t # <<>> THEN Do((s \o t)[1])
                      ELSE IF IsCond(f) THEN If(node[f].cond.first)
                      ELSE Enter(Successor(new, 0))'
    <3>1. node'[new].body = s \o t /\ node'[new].cond = node[f].cond
      BY <1>2 DEF s, t
    <3>. QED  BY <1>1, <2>5, <3>1 DEF EntersAs, Do, If
  <2>7. s = <<>> /\ t = <<>> /\ s \o t = <<>> /\ ~IsCond(f)
    BY <2>1, <2>3, <2>4, <2>6
  <2>8. n \in Passing /\ f \in Passing /\ new \in Passing'
    BY <1>2, <2>5, <2>7 DEF Passing, s, t
  <2>9. Successor(f, 0) \in Listed \ {n, f} /\ Successor(new, 0)' = Successor(f, 0)
    BY <1>3, <2>8, JoinWays
  <2>10. PICK y : y = Successor(f, 0)
    OBVIOUS
  <2>11. y \in Listed' /\ y # new
    BY <1>2, <2>9, <2>10
  <2>12. Enter(new)' = Enter(y)'
    <3>1. node'[new].body = <<>> /\ ~(IsCond(new))'
      BY <1>2, <2>5, <2>7 DEF s, t
    <3>. QED  BY <1>4, <2>5, <2>9, <2>10, <2>11, <3>1
  <2>13. Enter(n) = Enter(y)
    BY <2>4, <2>7, <2>10
  <2>. QED  BY <2>1, <2>8, <2>9, <2>10, <2>11, <2>12, <2>13
<1>. HIDE DEF D
<1>7. T \in SUBSET Passing
  BY <1>5, <1>6
<1>8. \A m \in T : Successor(m, 0) \in T
  <2>. SUFFICES ASSUME NEW m \in T PROVE Successor(m, 0) \in T
    OBVIOUS
  <2>1. CASE m \in D /\ m # new
    <3>1. CASE Successor(m, 0) = n
      BY <1>5, <2>1, <3>1
    <3>2. CASE Successor(m, 0) # n
      <4>1. Successor(m, 0) \in D
        BY <1>5, <2>1, <3>2
      <4>2. Successor(m, 0) # new
        BY <1>2, <1>3, <1>5, <2>1, JoinWays
      <4>. QED  BY <4>1, <4>2
    <3>. QED  BY <3>1, <3>2
  <2>2. CASE new \in D /\ m = n
    BY <1>2, <2>2
  <2>3. CASE new \in D /\ m = f
    BY <1>6, <2>3
  <2>. QED  BY <2>1, <2>2, <2>3
<1>9. \A m \in T : Enter(m) = Forever
  <2>. HIDE DEF T
  <2>. QED  BY <1>1, <1>7, <1>8 DEF Trapped
<1>10. D \in SUBSET Passing' /\ \A m \in D : Successor(m, 0)' \in D
  BY <1>5, <1>6
<1>11. \A m \in D : Enter(m)' = Forever
  BY <1>1, <1>10 DEF Trapped, Forever
<1>12. D = {}
  <2>. SUFFICES ASSUME NEW m \in D PROVE FALSE
    OBVIOUS
  <2>1. Enter(m)' # G(m)
    BY DEF D
  <2>. QED  BY <1>9, <1>11, <2>1
<1>. QED  BY <1>2, <1>12 DEF D

(* And so it does from where the nodes lead. *)
LEMMA JoinLeads ==
  ASSUME Careful, Careful', NEW n, NEW f, NEW new, Joins(n, f, new)
  PROVE  /\ \A m \in Listed \ {n, f}, i \in {0, 1} : i < SuccessorCount(m) =>
              Enter(Successor(m, i))' = Enter(Successor(m, i))
         /\ \A i \in {0, 1} : i < SuccessorCount(f) =>
              Enter(Successor(new, i))' = Enter(Successor(f, i))
<1>1. /\ \A m \in Listed \ {n, f} : Enter(m)' = Enter(m)
      /\ Enter(new)' = Enter(n)
  BY JoinEnters
<1>2. ASSUME NEW m \in Listed \ {n, f}, NEW i \in {0, 1}, i < SuccessorCount(m)
      PROVE  Enter(Successor(m, i))' = Enter(Successor(m, i))
  <2>1. /\ Successor(m, i) \in Listed \ {f}
        /\ Successor(m, i)' = IF Successor(m, i) = n THEN new ELSE Successor(m, i)
    BY <1>2, JoinWays
  <2>2. PICK x, y : x = Successor(m, i) /\ y = Successor(m, i)'
    OBVIOUS
  <2>3. Enter(Successor(m, i)) = Enter(x)
    BY <2>2
  <2>4. Enter(Successor(m, i))' = Enter(y)'
    BY <2>2 DEF Enter
  <2>. QED  BY <1>1, <2>1, <2>2, <2>3, <2>4
<1>3. ASSUME NEW i \in {0, 1}, i < SuccessorCount(f)
      PROVE  Enter(Successor(new, i))' = Enter(Successor(f, i))
  <2>1. Successor(f, i) \in Listed \ {n, f} /\ Successor(new, i)' = Successor(f, i)
    BY <1>3, JoinWays
  <2>2. PICK x : x = Successor(f, i)
    OBVIOUS
  <2>3. Enter(Successor(f, i)) = Enter(x)
    BY <2>2
  <2>4. Enter(Successor(new, i))' = Enter(x)'
    BY <2>1, <2>2 DEF Enter
  <2>. QED  BY <1>1, <2>1, <2>2, <2>3, <2>4
<1>. QED  BY <1>2, <1>3

LEMMA JoinMeaning ==
  ASSUME Careful, Careful', NEW n, NEW f, NEW new, Joins(n, f, new)
  PROVE  Meaning' = Meaning
<1>0. AfterDoAs /\ AfterDoAs' /\ AfterTestAs /\ AfterTestAs' /\ EntersAs
  BY AfterIs, EnterIs, PTL
<1>1. /\ n \in Listed /\ f \in Listed /\ n # f /\ new \notin Listed
      /\ Listed' = (Listed \ {n, f}) \cup {new} /\ list' # <<>>
      /\ Entry' = IF Entry = n THEN new ELSE Entry
      /\ f = Successor(n, 0) /\ Type(n) \in {"FALL_THROUGH", "JUMP"} /\ ~IsCond(n)
      /\ node'[new].type = node[f].type /\ node'[new].cond = node[f].cond
      /\ node'[new].body = node[n].body \o node[f].body
      /\ \A m \in Listed \ {n, f} :
           /\ node'[m].type = node[m].type
           /\ node'[m].body = node[m].body
           /\ node'[m].cond = node[m].cond
  BY DEF Joins, IsCond
<1>2. /\ \A m \in Listed \ {n, f}, i \in {0, 1} : i < SuccessorCount(m) =>
           Enter(Successor(m, i))' = Enter(Successor(m, i))
      /\ \A i \in {0, 1} : i < SuccessorCount(f) =>
           Enter(Successor(new, i))' = Enter(Successor(f, i))
  BY JoinLeads
<1>3. /\ \A m \in Listed : /\ Type(m) = "RETURN" => node[m].body # <<>>
                           /\ ~IsCond(m) => DOMAIN node[m].cond.on = {}
                           /\ node[m].body \in Seq(Block)
                           /\ IsCond(m) \/ Type(m) \in {"FALL_THROUGH", "JUMP", "RETURN"}
                           /\ Type(m) \in {"FALL_THROUGH", "JUMP"} => SuccessorCount(m) = 1
                           /\ IsCond(m) => SuccessorCount(m) = 2
      /\ NodesInv
  BY CarefulGraph, SuccessorsAre DEF Careful, OnceInv, NodesInv, IsNode
<1>. DEFINE s == node[n].body
            t == node[f].body
            p == Len(s)
            q == Len(t)
            u == s \o t
<1>4. /\ p \in Nat /\ q \in Nat /\ DOMAIN s = 1 .. p /\ DOMAIN t = 1 .. q
      /\ DOMAIN u = 1 .. p + q /\ Len(u) = p + q
      /\ \A i \in 1 .. p : u[i] = s[i]
      /\ \A i \in 1 .. q : u[p + i] = t[i]
      /\ ToSet(u) = ToSet(s) \cup ToSet(t)
      /\ t # <<>> => q > 0
      /\ t = <<>> => q = 0
  <2>1. s \in Seq(Block) /\ t \in Seq(Block)
    BY <1>1, <1>3
  <2>. HIDE DEF s, t
  <2>2. /\ p \in Nat /\ q \in Nat /\ DOMAIN s = 1 .. p /\ DOMAIN t = 1 .. q
        /\ DOMAIN u = 1 .. p + q /\ Len(u) = p + q
        /\ \A i \in 1 .. p : u[i] = s[i]
        /\ \A i \in 1 .. q : u[p + i] = t[i]
        /\ ToSet(u) = ToSet(s) \cup ToSet(t)
    BY <2>1, Concatenated
  <2>3. (t # <<>> => q > 0) /\ (t = <<>> => q = 0)
    BY <2>1
  <2>. QED  BY <2>2, <2>3
<1>5. node'[new].body = u
  BY <1>1
<1>6. Enter(Entry)' = Enter(Entry)
  <2>1. list'[1] \in Listed'
    <3>1. list' \in Seq(1 .. made')
      BY DEF Careful, IInv, NodesInv
    <3>2. 1 \in DOMAIN list'
      BY <1>1, <3>1
    <3>. QED  BY <3>2 DEF Listed, ToSet
  <2>2. PICK e \in Listed' : e = Entry'
    BY <2>1 DEF Entry
  <2>3. Enter(Entry)' = Enter(e)'
    BY <2>2 DEF Enter
  <2>4. PICK x : x = Entry
    OBVIOUS
  <2>5. Enter(Entry) = Enter(x)
    BY <2>4
  <2>6. e = IF x = n THEN new ELSE x
    BY <1>1, <2>2, <2>4
  <2>7. /\ \A m \in Listed \ {n, f} : Enter(m)' = Enter(m)
        /\ Enter(new)' = Enter(n)
    BY JoinEnters
  <2>8. CASE x = n
    <3>1. e = new
      BY <2>6, <2>8
    <3>2. Enter(e)' = Enter(new)'
      BY <3>1 DEF Enter
    <3>3. Enter(x) = Enter(n)
      BY <2>8
    <3>. QED  BY <2>3, <2>5, <2>7, <3>2, <3>3
  <2>9. CASE x # n
    <3>1. e = x /\ list # <<>> /\ list \in Seq(1 .. made)
      BY <2>6, <2>9 DEF Careful, OnceInv, IInv, NodesInv
    <3>2. 1 \in DOMAIN list
      BY <3>1
    <3>3. x \in Listed
      BY <2>4, <3>2 DEF Entry, Listed, ToSet
    <3>4. x \in Listed \ {n, f}
      BY <1>1, <2>2, <2>9, <3>1, <3>3
    <3>5. Enter(e)' = Enter(x)'
      BY <3>1 DEF Enter
    <3>. QED  BY <2>3, <2>5, <2>7, <3>4, <3>5
  <2>. QED  BY <2>8, <2>9
<1>. HIDE DEF s, t, p, q, u
<1>7. Bodies' = Bodies
  <2>1. Bodies' = UNION {ToSet(node'[m].body) : m \in Listed'}
    BY DEF Bodies
  <2>2. /\ \A m \in Listed \ {n, f} : ToSet(node'[m].body) = ToSet(node[m].body)
        /\ ToSet(node'[new].body) = ToSet(node[n].body) \cup ToSet(node[f].body)
    BY <1>1, <1>4, <1>5 DEF s, t
  <2>3. ASSUME NEW b \in Bodies' PROVE b \in Bodies
    <3>1. PICK m \in Listed' : b \in ToSet(node'[m].body)
      BY <2>1
    <3>2. CASE m = new
      BY <1>1, <2>2, <3>1, <3>2 DEF Bodies
    <3>3. CASE m # new
      BY <1>1, <2>2, <3>1, <3>3 DEF Bodies
    <3>. QED  BY <3>2, <3>3
  <2>4. ASSUME NEW b \in Bodies PROVE b \in Bodies'
    <3>1. PICK m \in Listed : b \in ToSet(node[m].body)
      BY DEF Bodies
    <3>2. CASE m \in {n, f}
      <4>1. new \in Listed' /\ b \in ToSet(node'[new].body)
        BY <1>1, <2>2, <3>1, <3>2
      <4>. QED  BY <2>1, <4>1
    <3>3. CASE m \notin {n, f}
      <4>1. m \in Listed' /\ b \in ToSet(node'[m].body)
        BY <1>1, <2>2, <3>1, <3>3
      <4>. QED  BY <2>1, <4>1
    <3>. QED  BY <3>2, <3>3
  <2>. QED  BY <2>3, <2>4
<1>8. Tests' = Tests
  <2>1. Tests' = UNION {DOMAIN node'[m].cond.on : m \in Listed'}
    BY DEF Tests
  <2>2. /\ \A m \in Listed \ {n, f} : node'[m].cond = node[m].cond
        /\ node'[new].cond = node[f].cond
        /\ DOMAIN node[n].cond.on = {}
    BY <1>1, <1>3
  <2>. QED  BY <1>1, <2>1, <2>2 DEF Tests
(* What comes after the instructions of the second is what came before. *)
<1>9. AfterBody(new)' = AfterBody(f)
  <2>1. (IsCond(new))' = IsCond(f) /\ Type(new)' = Type(f)
    BY <1>1 DEF IsCond, Type
  <2>2. AfterBody(new)' = IF IsCond(f) THEN If(node[f].cond.first)
                          ELSE IF Type(f) = "RETURN" THEN <<"return">>
                          ELSE Enter(Successor(new, 0))'
    BY <1>1, <2>1 DEF AfterBody, If
  <2>3. AfterBody(f) = IF IsCond(f) THEN If(node[f].cond.first)
                       ELSE IF Type(f) = "RETURN" THEN <<"return">>
                       ELSE Enter(Successor(f, 0))
    BY DEF AfterBody
  <2>4. ASSUME ~IsCond(f), Type(f) # "RETURN"
        PROVE  Enter(Successor(new, 0))' = Enter(Successor(f, 0))
    <3>1. 0 < SuccessorCount(f) /\ 0 \in {0, 1}
      BY <1>1, <1>3, <2>4
    <3>. QED  BY <1>2, <3>1
  <2>. QED  BY <2>2, <2>3, <2>4
<1>10. AfterBody(n) = Enter(f)
  <2>1. Type(n) # "RETURN"
    BY <1>1
  <2>. QED  BY <1>1, <2>1 DEF AfterBody
<1>11. t = <<>> => Enter(f) = AfterBody(f)
  <2>. SUFFICES ASSUME t = <<>> PROVE Enter(f) = AfterBody(f)
    OBVIOUS
  <2>1. Type(f) # "RETURN"
    BY <1>1, <1>3 DEF t
  <2>2. Enter(f) = IF IsCond(f) THEN If(node[f].cond.first) ELSE Enter(Successor(f, 0))
    BY <1>0, <1>1 DEF EntersAs, t
  <2>. QED  BY <2>1, <2>2 DEF AfterBody
<1>12. t # <<>> => Enter(f) = Do(t[1])
  BY <1>0, <1>1 DEF EntersAs, t
<1>13. ASSUME NEW b, NEW j \in DOMAIN u, b = u[j]
       PROVE  AfterDo(b)' = IF j < Len(u) THEN Do(u[j + 1]) ELSE AfterBody(f)
  <2>1. new \in Listed'
    BY <1>1
  <2>2. AfterDo(b)' = IF j < Len(u) THEN Do(u[j + 1]) ELSE AfterBody(new)'
    BY <1>0, <1>5, <1>13, <2>1 DEF AfterDoAs, Do
  <2>. QED  BY <1>9, <2>2
<1>14. ASSUME NEW b \in Bodies PROVE AfterDo(b)' = AfterDo(b)
  <2>. PICK m \in Listed : b \in ToSet(node[m].body)
    BY DEF Bodies
  <2>1. PICK j \in DOMAIN node[m].body : b = node[m].body[j]
    BY DEF ToSet
  <2>2. AfterDo(b) = IF j < Len(node[m].body) THEN Do(node[m].body[j + 1]) ELSE AfterBody(m)
    BY <1>0, <2>1 DEF AfterDoAs
  <2>3. CASE m = n
    <3>1. j \in 1 .. p /\ b = s[j] /\ AfterDo(b) = IF j < p THEN Do(s[j + 1]) ELSE Enter(f)
      BY <1>4, <1>10, <2>1, <2>2, <2>3 DEF s, p
    <3>2. j \in DOMAIN u /\ b = u[j] /\ j \in Nat
      BY <1>4, <3>1
    <3>3. AfterDo(b)' = IF j < Len(u) THEN Do(u[j + 1]) ELSE AfterBody(f)
      BY <1>13, <3>2
    <3>4. CASE j < p
      <4>1. j + 1 \in 1 .. p /\ j < Len(u)
        BY <1>4, <3>2, <3>4
      <4>2. u[j + 1] = s[j + 1]
        BY <1>4, <4>1
      <4>. QED  BY <3>1, <3>3, <3>4, <4>1, <4>2
    <3>5. CASE j = p /\ t # <<>>
      <4>1. j < Len(u) /\ 1 \in 1 .. q /\ ~(j < p)
        BY <1>4, <3>2, <3>5
      <4>2. u[j + 1] = t[1]
        BY <1>4, <3>5, <4>1
      <4>. QED  BY <1>12, <3>1, <3>3, <3>5, <4>1, <4>2
    <3>6. CASE j = p /\ t = <<>>
      <4>1. ~(j < Len(u)) /\ ~(j < p)
        BY <1>4, <3>2, <3>6
      <4>. QED  BY <1>11, <3>1, <3>3, <3>6, <4>1
    <3>7. j < p \/ j = p
      BY <1>4, <3>1
    <3>. QED  BY <3>4, <3>5, <3>6, <3>7
  <2>4. CASE m = f
    <3>1. j \in 1 .. q /\ b = t[j] /\ AfterDo(b) = IF j < q THEN Do(t[j + 1]) ELSE AfterBody(f)
      BY <1>4, <2>1, <2>2, <2>4 DEF t, q
    <3>2. p + j \in DOMAIN u /\ b = u[p + j] /\ j \in Nat
      BY <1>4, <3>1
    <3>3. AfterDo(b)' = IF p + j < Len(u) THEN Do(u[(p + j) + 1]) ELSE AfterBody(f)
      BY <1>13, <3>2
    <3>4. CASE j < q
      <4>1. j + 1 \in 1 .. q /\ p + j < Len(u) /\ (p + j) + 1 = p + (j + 1)
        BY <1>4, <3>2, <3>4
      <4>2. u[(p + j) + 1] = t[j + 1]
        BY <1>4, <4>1
      <4>. QED  BY <3>1, <3>3, <3>4, <4>1, <4>2
    <3>5. CASE ~(j < q)
      <4>1. ~(p + j < Len(u))
        BY <1>4, <3>2, <3>5
      <4>. QED  BY <3>1, <3>3, <3>5, <4>1
    <3>. QED  BY <3>4, <3>5
  <2>5. CASE m \notin {n, f}
    <3>1. m \in Listed' /\ node'[m].body = node[m].body /\ node'[m].cond = node[m].cond
          /\ (IsCond(m))' = IsCond(m) /\ Type(m)' = Type(m)
      BY <1>1, <2>5 DEF IsCond, Type
    <3>2. AfterDo(b)' = IF j < Len(node[m].body) THEN Do(node[m].body[j + 1]) ELSE AfterBody(m)'
      BY <1>0, <2>1, <3>1 DEF AfterDoAs, Do
    <3>3. AfterBody(m)' = AfterBody(m)
      <4>1. AfterBody(m)' = IF IsCond(m) THEN If(node[m].cond.first)
                            ELSE IF Type(m) = "RETURN" THEN <<"return">>
                            ELSE Enter(Successor(m, 0))'
        BY <3>1 DEF AfterBody, If
      <4>2. AfterBody(m) = IF IsCond(m) THEN If(node[m].cond.first)
                           ELSE IF Type(m) = "RETURN" THEN <<"return">>
                           ELSE Enter(Successor(m, 0))
        BY DEF AfterBody
      <4>3. ASSUME ~IsCond(m), Type(m) # "RETURN"
            PROVE  Enter(Successor(m, 0))' = Enter(Successor(m, 0))
        <5>1. 0 < SuccessorCount(m) /\ 0 \in {0, 1}
          BY <1>3, <4>3
        <5>. QED  BY <1>2, <2>5, <5>1
      <4>. QED  BY <4>1, <4>2, <4>3
    <3>. QED  BY <2>2, <3>2, <3>3
  <2>. QED  BY <2>3, <2>4, <2>5
<1>15. ASSUME NEW b \in Tests, NEW v \in BOOLEAN PROVE AfterTest(b, v)' = AfterTest(b, v)
  <2>1. PICK m \in Listed : b \in DOMAIN node[m].cond.on
    BY DEF Tests
  <2>2. IsCond(m) /\ m # n /\ 0 < SuccessorCount(m) /\ 1 < SuccessorCount(m)
    <3>1. IsCond(m) /\ m # n /\ SuccessorCount(m) = 2
      BY <1>1, <1>3, <2>1
    <3>. QED  BY <3>1
  <2>. DEFINE x == node[m].cond.on[b][v]
              k == IF m = f THEN new ELSE m
  <2>3. AfterTest(b, v) = Out(x, Enter(Successor(m, 0)), Enter(Successor(m, 1)))
    BY <1>0, <2>1, <2>2 DEF AfterTestAs
  <2>4. k \in Listed' /\ node'[k].cond = node[m].cond /\ (IsCond(k))'
    BY <1>1, <2>2 DEF IsCond, Type
  <2>5. AfterTest(b, v)' = Out(x, Enter(Successor(k, 0))', Enter(Successor(k, 1))')
    <3>. HIDE DEF k
    <3>. QED  BY <1>0, <2>1, <2>4 DEF AfterTestAs, Out, If
  <2>6. \A i \in {0, 1} : Enter(Successor(k, i))' = Enter(Successor(m, i))
    <3>1. CASE m = f
      BY <1>2, <2>2, <3>1
    <3>2. CASE m # f
      BY <1>2, <2>2, <3>2
    <3>. QED  BY <3>1, <3>2
  <2>. QED  BY <2>3, <2>5, <2>6
<1>. QED  BY <1>6, <1>7, <1>8, <1>14, <1>15, SameMeaning

LEMMA JoinCareful ==
  ASSUME IInv, IInv', CarefulInv, JoinNodes
  PROVE  CarefulInv'
<1>. SUFFICES ASSUME ~careless' PROVE OnceInv' /\ SameProgram'
  BY DEF CarefulInv
<1>1. ~careless /\ meaning' = meaning
  BY Zenon DEF JoinNodes
<1>2. Careful /\ SameProgram
  BY <1>1 DEF Careful, CarefulInv
<1>3. PICK n, f, new : Joins(n, f, new)
  BY <1>2, JoinLeaves
<1>4. OnceInv'
  BY <1>2, <1>3, JoinOnce
<1>5. Careful'
  BY <1>4 DEF Careful
<1>6. Meaning' = Meaning
  BY <1>2, <1>3, <1>5, JoinMeaning
<1>. QED  BY <1>1, <1>2, <1>4, <1>6 DEF SameProgram

(* Where list and nodes stay, so does what the program does. *)
LEMMA StayCareful ==
  ASSUME CarefulInv, UNCHANGED <<list, node, meaning, careless>>
  PROVE  CarefulInv'
<1>1. OnceInv' = OnceInv
  BY DEF OnceInv, Listed, Type, IsCond
<1>2. \A n : Enter(n)' = Enter(n)
  BY DEF Enter, Listed, IsCond, Type, Successor
<1>3. Bodies' = Bodies /\ Tests' = Tests /\ Entry' = Entry
  BY DEF Bodies, Tests, Entry, Listed
<1>4. Enter(Entry)' = Enter(Entry)
  BY <1>3 DEF Enter, Listed, IsCond, Type, Successor, Entry
<1>5. \A b : AfterDo(b)' = AfterDo(b)
  BY DEF AfterDo, AfterBody, Enter, Listed, IsCond, Type, Successor
<1>6. \A b, v : AfterTest(b, v)' = AfterTest(b, v)
  BY DEF AfterTest, Enter, Listed, IsCond, Type, Successor
<1>7. Meaning' = Meaning
  BY <1>3, <1>4, <1>5, <1>6, SameMeaning
<1>. QED  BY <1>1, <1>7 DEF CarefulInv, SameProgram

LEMMA InitCareful ==
  ASSUME Init
  PROVE  CarefulInv
<1>1. PICK shape \in [Block -> Shapes] :
        /\ shape[N].type \in {"JUMP", "RETURN"}
        /\ node = [n \in Id |-> IF n \in Block THEN Created(n, shape[n]) ELSE Blank]
  BY DEF Init
<1>2. list = [b \in Block |-> b] /\ SameProgram
  BY DEF Init, SameProgram
<1>3. N \in Nat \ {0} /\ Block = 1 .. N /\ Id = 1 .. 2 * N /\ Block \subseteq Id
  BY NAssumption DEF Block, Id
<1>4. list # <<>> /\ IsInjective(list) /\ Listed = Block
  <2>1. DOMAIN list = Block /\ \A b \in Block : list[b] = b
    BY <1>2
  <2>2. 1 \in DOMAIN list /\ DOMAIN (<<>>) = {}
    BY <1>3, <2>1
  <2>. QED  BY <2>1, <2>2 DEF Listed, ToSet, IsInjective
<1>5. \A n \in Block : DOMAIN Test(n).on = {n} /\ IsEvaluable(Test(n)) /\ DOMAIN NoTest.on = {}
  BY DEF NoTest, Test, IsEvaluable
<1>6. ASSUME NEW n \in Block
      PROVE  /\ node[n].body \in {<<>>, <<n>>}
             /\ Type(n) = "RETURN" => node[n].body = <<n>>
             /\ node[n].cond = IF IsCond(n) THEN Test(n) ELSE NoTest
  <2>. DEFINE s == shape[n]
  <2>1. s \in Shapes /\ node[n] = Created(n, s)
    BY <1>1, <1>3
  <2>. HIDE DEF s
  <2>2. s.type = "RETURN" => s.work
    BY <2>1 DEF Shapes
  <2>3. /\ node[n].type = s.type
        /\ node[n].body = IF s.work THEN <<n>> ELSE <<>>
        /\ node[n].cond = IF s.type = "CONDITIONAL_JUMP" THEN Test(n) ELSE NoTest
    BY <2>1 DEF Created
  <2>. QED  BY <2>2, <2>3 DEF Type, IsCond
<1>7. \A n \in Block : ToSet(node[n].body) \subseteq {n} /\ IsInjective(node[n].body)
  <2>1. \A n \in Block : ToSet(<<n>>) \subseteq {n} /\ IsInjective(<<n>>)
    BY DEF ToSet, IsInjective
  <2>2. ToSet(<<>>) = {} /\ IsInjective(<<>>)
    BY DEF ToSet, IsInjective
  <2>. QED  BY <1>6, <2>1, <2>2
<1>8. <<1>> # <<>> /\ \A n \in Block : <<n>> # <<>>
  OBVIOUS
<1>9. \A n \in Block : DOMAIN node[n].cond.on \subseteq {n}
  BY <1>5, <1>6
<1>10. OnceInv
  <2>1. \A n \in Listed : /\ Type(n) = "RETURN" => node[n].body # <<>>
                          /\ IsCond(n) => IsEvaluable(node[n].cond)
                          /\ ~IsCond(n) => DOMAIN node[n].cond.on = {}
                          /\ IsInjective(node[n].body)
    BY <1>4, <1>5, <1>6, <1>7, <1>8
  <2>2. \A n, m \in Listed : n # m =>
          /\ ToSet(node[n].body) \cap ToSet(node[m].body) = {}
          /\ DOMAIN node[n].cond.on \cap DOMAIN node[m].cond.on = {}
    BY <1>4, <1>7, <1>9
  <2>. QED  BY <1>4, <2>1, <2>2 DEF OnceInv
<1>. QED  BY <1>2, <1>10 DEF CarefulInv

LEMMA NextCareful ==
  ASSUME IInv, IInv', CarefulInv, [Next]_vars
  PROVE  CarefulInv'
<1>1. CASE CollateOrFollower
  <2>1. PICK n \in Listed : ExprPattern(n) = "OrFollower" /\ FoldExpr(n, OrFollowerFolded(n))
    BY <1>1, Zenon DEF CollateOrFollower, FirstMatch
  <2>2. phase = "expr" /\ IsCond(n) /\ OrFollower(n) /\ Fold(n, OrFollowerFolded(n))
    BY <1>1, <2>1 DEF CollateOrFollower, ExprPattern, FoldExpr
  <2>. QED  BY <2>2, OrFollowerFoldable, OrFollowerFaithful, FoldCareful
<1>2. CASE CollateNotOrDiamond
  <2>1. PICK n \in Listed : ExprPattern(n) = "NotOrDiamond" /\ FoldExpr(n, NotOrDiamondFolded(n))
    BY <1>2, Zenon DEF CollateNotOrDiamond, FirstMatch
  <2>2. phase = "expr" /\ IsCond(n) /\ NotOrDiamond(n) /\ Fold(n, NotOrDiamondFolded(n))
    BY <1>2, <2>1 DEF CollateNotOrDiamond, ExprPattern, FoldExpr
  <2>. QED  BY <2>2, NotOrDiamondFoldable, NotOrDiamondFaithful, FoldCareful
<1>3. CASE CollateNotAndFollower
  <2>1. PICK n \in Listed : ExprPattern(n) = "NotAndFollower" /\ FoldExpr(n, NotAndFollowerFolded(n))
    BY <1>3, Zenon DEF CollateNotAndFollower, FirstMatch
  <2>2. phase = "expr" /\ IsCond(n) /\ NotAndFollower(n) /\ Fold(n, NotAndFollowerFolded(n))
    BY <1>3, <2>1 DEF CollateNotAndFollower, ExprPattern, FoldExpr
  <2>. QED  BY <2>2, NotAndFollowerFoldable, NotAndFollowerFaithful, FoldCareful
<1>4. CASE CollateNotOrTarget
  <2>1. PICK n \in Listed : ExprPattern(n) = "NotOrTarget" /\ FoldExpr(n, NotOrTargetFolded(n))
    BY <1>4, Zenon DEF CollateNotOrTarget, FirstMatch
  <2>2. phase = "expr" /\ IsCond(n) /\ NotOrTarget(n) /\ Fold(n, NotOrTargetFolded(n))
    BY <1>4, <2>1 DEF CollateNotOrTarget, ExprPattern, FoldExpr
  <2>. QED  BY <2>2, NotOrTargetFoldable, NotOrTargetFaithful, FoldCareful
<1>5. CASE CollateAndTarget
  <2>1. PICK n \in Listed : ExprPattern(n) = "AndTarget" /\ FoldExpr(n, AndTargetFolded(n))
    BY <1>5, Zenon DEF CollateAndTarget, FirstMatch
  <2>2. phase = "expr" /\ IsCond(n) /\ AndTarget(n) /\ Fold(n, AndTargetFolded(n))
    BY <1>5, <2>1 DEF CollateAndTarget, ExprPattern, FoldExpr
  <2>. QED  BY <2>2, AndTargetFoldable, AndTargetFaithful, FoldCareful
<1>6. CASE SkipConditionalJump
  <2>1. PICK n \in Listed : NodePattern(n) = "Skip" /\ Fold(n, Skipped(n))
    BY <1>6, Zenon DEF SkipConditionalJump, FirstMatch
  <2>2. phase = "node" /\ SkipsJump(n)
    BY <1>6, <2>1, Zenon DEF SkipConditionalJump, NodePattern
  <2>3. IsCond(n) /\ Foldable(n, Skipped(n))
    BY <2>2, SkippedFoldable
  <2>. QED  BY <2>1, <2>2, <2>3, SkippedFaithful, FoldCareful
<1>7. CASE JoinNodes
  BY <1>7, JoinCareful
<1>8. CASE NoExpr
  BY <1>8, StayCareful DEF NoExpr
<1>9. CASE NoNode
  BY <1>9, StayCareful DEF NoNode
<1>10. CASE UNCHANGED vars
  BY <1>10, StayCareful DEF vars
<1>. QED  BY <1>1, <1>2, <1>3, <1>4, <1>5, <1>6, <1>7, <1>8, <1>9, <1>10 DEF Next

(* Unless CollateExpr::Run or CollateNode::Run deletes a node that has     *)
(* another way in, what they leave runs the same instructions and makes    *)
(* the same tests, with the same outcomes, in the same order as the list   *)
(* of CreateList.                                                          *)
THEOREM Meant == Spec => []CarefulMeansSameProgram
<1>1. Init => CarefulInv
  BY InitCareful
<1>2. IInv /\ IInv' /\ CarefulInv /\ [Next]_vars => CarefulInv'
  BY NextCareful
<1>3. CarefulInv => CarefulMeansSameProgram
  BY DEF CarefulInv, CarefulMeansSameProgram
<1>. QED  BY <1>1, <1>2, <1>3, Inductive, PTL DEF Spec
=============================================================================
