---------------------------------- MODULE Basics ----------------------------------
(***************************************************************************)
(* What the other modules of theorems rest on and no part of the program   *)
(* owns: induction over the natural numbers and functions defined by       *)
(* recursion, in a form that quantifies over sets only; paths and the      *)
(* trees that are functions from paths; stacks.                            *)
(***************************************************************************)
EXTENDS Integers, SequencesExt, SequenceTheorems, FiniteSetTheorems, WellFoundedInduction, TLAPS

(* Of the numbers for which something fails, one is the least. *)
LEMMA LeastNumber ==
  ASSUME NEW T \in SUBSET Nat, T # {}
  PROVE  \E x \in T : \A y \in T : x <= y
<1>. DEFINE R == {p \in Nat \X Nat : p[1] < p[2]}
<1>1. IsWellFoundedOn(R, Nat)
  BY NatLessThanWellFounded DEF OpToRel
<1>. HIDE DEF R
<1>2. PICK x \in T : \A y \in T : <<y, x>> \notin R
  BY <1>1, WFMin
<1>3. ASSUME NEW y \in T PROVE x <= y
  <2>. SUFFICES ASSUME y < x PROVE FALSE
    OBVIOUS
  <2>1. <<y, x>> \in Nat \X Nat /\ <<y, x>>[1] < <<y, x>>[2]
    OBVIOUS
  <2>2. <<y, x>> \in R
    BY <2>1, Zenon DEF R
  <2>. QED  BY <1>2, <2>2
<1>. QED  BY <1>3

(* What holds at lo, and of each number's successor, holds up to hi. *)
LEMMA Upward ==
  ASSUME NEW lo \in Nat, NEW hi \in Nat, NEW P, lo \in P,
         \A k \in lo .. hi : k \in P /\ k < hi => k + 1 \in P
  PROVE  \A k \in lo .. hi : k \in P
<1>. DEFINE Bad == {k \in lo .. hi : k \notin P}
<1>. SUFFICES ASSUME Bad # {} PROVE FALSE
  OBVIOUS
<1>1. PICK k \in Bad : \A l \in Bad : k <= l
  <2>1. Bad \in SUBSET Nat
    OBVIOUS
  <2>. HIDE DEF Bad
  <2>. QED  BY <2>1, LeastNumber
<1>2. k \in lo .. hi /\ k \notin P /\ k # lo
  OBVIOUS
<1>3. k - 1 \in lo .. hi /\ k - 1 < hi /\ (k - 1) + 1 = k
  BY <1>2
<1>4. k - 1 \notin Bad
  <2>. HIDE DEF Bad
  <2>. QED  BY <1>1, <1>2
<1>5. k - 1 \in P
  BY <1>3, <1>4
<1>. QED  BY <1>2, <1>3, <1>5

-----------------------------------------------------------------------------
(***************************************************************************)
(* Functions that are defined by recursion exist, where the arguments of   *)
(* the inner applications have a lower rank.  What is done at an argument  *)
(* is a function of the whole, so that it can be given to the lemma.       *)
(***************************************************************************)
Descends(D, V, rank, B) ==
  \A f, g \in [D -> V] : \A p \in D :
    (\A q \in D : rank[q] < rank[p] => f[q] = g[q]) => B[<<f, p>>] = B[<<g, p>>]

Recurs(D, V, B) == \E f \in [D -> V] : \A p \in D : f[p] = B[<<f, p>>]

LEMMA Recursion ==
  ASSUME NEW D, NEW V, NEW v \in V, NEW M \in Nat, NEW rank \in [D -> 0 .. M],
         NEW B \in [[D -> V] \X D -> V], Descends(D, V, rank, B)
  PROVE  Recurs(D, V, B)
<1>. DEFINE Below(m, f) == \A p \in D : rank[p] < m => f[p] = B[<<f, p>>]
            T == {m \in Nat : ~\E f \in [D -> V] : Below(m, f)}
<1>1. T = {}
  <2>. SUFFICES ASSUME T # {} PROVE FALSE
    OBVIOUS
  <2>1. PICK m \in T : \A k \in T : m <= k
    <3>1. T \in SUBSET Nat
      OBVIOUS
    <3>. HIDE DEF T
    <3>. QED  BY <3>1, LeastNumber
  <2>2. CASE m = 0
    <3>1. [p \in D |-> v] \in [D -> V] /\ Below(0, [p \in D |-> v])
      OBVIOUS
    <3>. QED  BY <2>2, <3>1
  <2>3. CASE m # 0
    <3>0. m \in Nat
      OBVIOUS
    <3>1. m - 1 \in Nat /\ m - 1 \notin T
      <4>. HIDE DEF T
      <4>. QED  BY <2>1, <2>3, <3>0
    <3>2. PICK f \in [D -> V] : Below(m - 1, f)
      BY <3>1
    <3>. DEFINE g == [p \in D |-> B[<<f, p>>]]
    <3>3. g \in [D -> V]
      OBVIOUS
    <3>4. ASSUME NEW p \in D, rank[p] < m PROVE g[p] = B[<<g, p>>]
      <4>1. \A q \in D : rank[q] < rank[p] => f[q] = g[q]
        BY <2>1, <3>2, <3>4
      <4>2. B[<<f, p>>] = B[<<g, p>>]
        BY <3>3, <4>1, Zenon DEF Descends
      <4>. QED  BY <4>2
    <3>. HIDE DEF g
    <3>. QED  BY <2>1, <3>3, <3>4
  <2>. QED  BY <2>2, <2>3
<1>2. M + 1 \in Nat /\ M + 1 \notin T
  <2>. HIDE DEF T
  <2>. QED  BY <1>1
<1>3. PICK f \in [D -> V] : Below(M + 1, f)
  BY <1>2
<1>. QED  BY <1>3 DEF Recurs

-----------------------------------------------------------------------------
IsList(c, m) == c = [k \in 1 .. m |-> c[k]]

(* A function on 1 .. m is a sequence of length m. *)
LEMMA ListLength ==
  ASSUME NEW m \in Nat, NEW c, IsList(c, m)
  PROVE  Len(c) = m /\ DOMAIN c = 1 .. m
<1>1. DOMAIN c = 1 .. m
  BY DEF IsList
<1>. QED  BY <1>1

-----------------------------------------------------------------------------
(***************************************************************************)
(* The places in a tree, by the children to go to from its root.           *)
(***************************************************************************)
Path == Seq(Nat)

(* A path is prefix of another one if it agrees with it as far as it goes. *)
LEMMA PrefixIs ==
  ASSUME NEW p \in Path, NEW q \in Path
  PROVE  IsPrefix(p, q) <=> Len(p) <= Len(q) /\ \A i \in 1 .. Len(p) : p[i] = q[i]
<1>1. Len(p) \in Nat /\ Len(q) \in Nat
  BY DEF Path
<1>2. SubSeq(p, 1, Len(p)) = p
  BY DEF Path
<1>3. ASSUME Len(p) <= Len(q)
      PROVE  SubSeq(q, 1, Len(p)) = p <=> \A i \in 1 .. Len(p) : p[i] = q[i]
  <2>. DEFINE s == SubSeq(q, 1, Len(p))
  <2>1. 1 \in 1 .. Len(q) + 1 /\ Len(p) \in 1 - 1 .. Len(q)
    BY <1>1, <1>3
  <2>2. s \in Path /\ Len(s) = Len(p) /\ \A i \in 1 .. Len(p) : s[i] = q[i]
    BY <1>1, <1>3 DEF Path
  <2>. HIDE DEF s
  <2>3. (\A i \in 1 .. Len(p) : p[i] = s[i]) => p = s
    BY <2>2, SeqEqual DEF Path
  <2>. QED  BY <2>2, <2>3 DEF s
<1>. QED  BY <1>1, <1>2, <1>3 DEF IsPrefix

(* Concatenated paths. *)
LEMMA PathJoined ==
  ASSUME NEW p \in Path, NEW s \in Path
  PROVE  /\ p \o s \in Path /\ Len(p \o s) = Len(p) + Len(s)
         /\ Len(p) \in Nat /\ Len(s) \in Nat
         /\ \A i \in 1 .. Len(p) : (p \o s)[i] = p[i]
         /\ \A i \in 1 .. Len(s) : (p \o s)[Len(p) + i] = s[i]
BY ConcatProperties DEF Path

LEMMA PrefixOfJoined ==
  ASSUME NEW p \in Path, NEW s \in Path
  PROVE  IsPrefix(p, p \o s)
<1>. DEFINE q == p \o s
<1>1. q \in Path /\ Len(p) <= Len(q) /\ \A i \in 1 .. Len(p) : p[i] = q[i]
  BY PathJoined
<1>. HIDE DEF q
<1>2. IsPrefix(p, q)
  BY <1>1, PrefixIs
<1>. QED  BY <1>2 DEF q

LEMMA RestIs ==
  ASSUME NEW p \in Path, NEW s \in Path
  PROVE  SubSeq(p \o s, Len(p) + 1, Len(p \o s)) = s
<1>. DEFINE q == p \o s
            a == Len(p)
            b == Len(s)
            u == SubSeq(q, a + 1, Len(q))
<1>1. /\ q \in Path /\ Len(q) = a + b /\ a \in Nat /\ b \in Nat
      /\ \A i \in 1 .. b : q[a + i] = s[i]
  BY PathJoined
<1>. HIDE DEF q, a
<1>2. u \in Path /\ Len(u) = b /\ \A i \in 1 .. b : u[i] = q[a + i]
  <2>1. a + 1 \in 1 .. Len(q) + 1 /\ Len(q) \in (a + 1) - 1 .. Len(q) /\ q \in Seq(Nat)
    BY <1>1 DEF Path
  <2>2. /\ SubSeq(q, a + 1, Len(q)) \in Seq(Nat)
        /\ Len(SubSeq(q, a + 1, Len(q))) = Len(q) - (a + 1) + 1
        /\ \A i \in 1 .. Len(q) - (a + 1) + 1 : SubSeq(q, a + 1, Len(q))[i] = q[(a + 1) + i - 1]
    BY <2>1, SubSeqProperties
  <2>3. Len(q) - (a + 1) + 1 = b /\ \A i \in 1 .. b : (a + 1) + i - 1 = a + i
    BY <1>1
  <2>. QED  BY <2>2, <2>3 DEF Path
<1>. HIDE DEF u
<1>3. u = s
  BY <1>1, <1>2, SeqEqual DEF Path
<1>. QED  BY <1>3 DEF u, q, a

(* Two prefixes of one path are prefixes of each other. *)
LEMMA PrefixesInOrder ==
  ASSUME NEW p \in Path, NEW q \in Path, NEW w \in Path, IsPrefix(p, w), IsPrefix(q, w)
  PROVE  IsPrefix(p, q) \/ IsPrefix(q, p)
<1>1. /\ Len(p) <= Len(w) /\ \A i \in 1 .. Len(p) : p[i] = w[i]
      /\ Len(q) <= Len(w) /\ \A i \in 1 .. Len(q) : q[i] = w[i]
  BY PrefixIs
<1>2. Len(p) \in Nat /\ Len(q) \in Nat
  BY DEF Path
<1>. QED  BY <1>1, <1>2, PrefixIs

LEMMA PrefixOfPrefix ==
  ASSUME NEW p \in Path, NEW q \in Path, NEW w \in Path, IsPrefix(p, q), IsPrefix(q, w)
  PROVE  IsPrefix(p, w)
<1>1. /\ Len(p) <= Len(q) /\ \A i \in 1 .. Len(p) : p[i] = q[i]
      /\ Len(q) <= Len(w) /\ \A i \in 1 .. Len(q) : q[i] = w[i]
  BY PrefixIs
<1>2. Len(p) \in Nat /\ Len(q) \in Nat /\ Len(w) \in Nat
  BY DEF Path
<1>. QED  BY <1>1, <1>2, PrefixIs

LEMMA PrefixSame ==
  ASSUME NEW p \in Path, NEW q \in Path, IsPrefix(p, q), IsPrefix(q, p)
  PROVE  p = q
<1>1. /\ Len(p) <= Len(q) /\ \A i \in 1 .. Len(p) : p[i] = q[i]
      /\ Len(q) <= Len(p)
  BY PrefixIs
<1>2. Len(p) \in Nat /\ Len(q) \in Nat
  BY DEF Path
<1>. QED  BY <1>1, <1>2, SeqEqual DEF Path

LEMMA PrefixEmpty ==
  ASSUME NEW p \in Path
  PROVE  <<>> \in Path /\ IsPrefix(<<>>, p) /\ IsPrefix(p, p) /\ p \o <<>> = p
<1>. DEFINE none == <<>>
<1>1. none \in Path /\ Len(none) = 0 /\ Len(p) \in Nat
  BY DEF Path
<1>2. p \o <<>> = p
  BY ConcatEmptySeq DEF Path
<1>. HIDE DEF none
<1>3. IsPrefix(none, p) /\ IsPrefix(p, p)
  BY <1>1, PrefixIs
<1>. QED  BY <1>1, <1>2, <1>3 DEF none

(* A common beginning makes no difference. *)
LEMMA PrefixBehind ==
  ASSUME NEW p \in Path, NEW s \in Path, NEW u \in Path
  PROVE  /\ IsPrefix(p \o s, p \o u) <=> IsPrefix(s, u)
         /\ p \o s = p \o u => s = u
<1>1. /\ p \o s \in Path /\ p \o u \in Path
      /\ Len(p \o s) = Len(p) + Len(s) /\ Len(p \o u) = Len(p) + Len(u)
      /\ Len(p) \in Nat /\ Len(s) \in Nat /\ Len(u) \in Nat
      /\ \A i \in 1 .. Len(p) : (p \o s)[i] = p[i] /\ (p \o u)[i] = p[i]
      /\ \A i \in 1 .. Len(s) : (p \o s)[Len(p) + i] = s[i]
      /\ \A i \in 1 .. Len(u) : (p \o u)[Len(p) + i] = u[i]
  BY PathJoined
<1>. DEFINE x == p \o s
            y == p \o u
<1>. HIDE DEF x, y
<1>2. /\ x \in Path /\ y \in Path
      /\ Len(x) = Len(p) + Len(s) /\ Len(y) = Len(p) + Len(u)
      /\ \A i \in 1 .. Len(p) : x[i] = p[i] /\ y[i] = p[i]
      /\ \A i \in 1 .. Len(s) : x[Len(p) + i] = s[i]
      /\ \A i \in 1 .. Len(u) : y[Len(p) + i] = u[i]
  BY <1>1 DEF x, y
<1>3. ASSUME IsPrefix(x, y) PROVE IsPrefix(s, u)
  <2>1. Len(x) <= Len(y) /\ \A i \in 1 .. Len(x) : x[i] = y[i]
    BY <1>2, <1>3, PrefixIs
  <2>2. Len(s) <= Len(u)
    BY <1>1, <1>2, <2>1
  <2>3. ASSUME NEW i \in 1 .. Len(s) PROVE s[i] = u[i]
    <3>1. Len(p) + i \in 1 .. Len(x) /\ i \in 1 .. Len(u)
      BY <1>1, <1>2, <2>2
    <3>. QED  BY <1>2, <2>1, <3>1
  <2>. QED  BY <2>2, <2>3, PrefixIs
<1>4. ASSUME IsPrefix(s, u) PROVE IsPrefix(x, y)
  <2>1. Len(s) <= Len(u) /\ \A i \in 1 .. Len(s) : s[i] = u[i]
    BY <1>4, PrefixIs
  <2>2. Len(x) <= Len(y)
    BY <1>1, <1>2, <2>1
  <2>3. ASSUME NEW i \in 1 .. Len(x) PROVE x[i] = y[i]
    <3>1. CASE i \in 1 .. Len(p)
      BY <1>2, <3>1
    <3>2. CASE i \notin 1 .. Len(p)
      <4>. DEFINE j == i - Len(p)
      <4>1. j \in 1 .. Len(s) /\ j \in 1 .. Len(u) /\ i = Len(p) + j
        BY <1>1, <1>2, <2>1, <3>2
      <4>. HIDE DEF j
      <4>. QED  BY <1>2, <2>1, <4>1
    <3>. QED  BY <3>1, <3>2
  <2>. QED  BY <1>2, <2>2, <2>3, PrefixIs
<1>5. x = y => s = u
  <2>1. x = y => IsPrefix(s, u) /\ Len(s) = Len(u)
    BY <1>1, <1>2, <1>3, PrefixEmpty
  <2>2. IsPrefix(s, u) /\ Len(s) = Len(u) => \A i \in 1 .. Len(s) : s[i] = u[i]
    BY PrefixIs
  <2>. QED  BY <2>1, <2>2, SeqEqual DEF Path
<1>. QED  BY <1>3, <1>4, <1>5 DEF x, y

(* What a path goes through lies on its first part or on its second. *)
LEMMA PrefixOfTwo ==
  ASSUME NEW q \in Path, NEW p \in Path, NEW s \in Path, IsPrefix(q, p \o s)
  PROVE  IsPrefix(q, p) \/ IsPrefix(p, q)
<1>1. p \o s \in Path /\ IsPrefix(p, p \o s)
  BY PathJoined, PrefixOfJoined
<1>. QED  BY <1>1, PrefixesInOrder

(* Paths one after the other may be joined in any order. *)
LEMMA PathsJoined ==
  ASSUME NEW p \in Path, NEW q \in Path, NEW s \in Path
  PROVE  (p \o q) \o s = p \o (q \o s)
<1>. DEFINE a == p \o q
            b == q \o s
            v == a \o s
            w == p \o b
            l == Len(p)
            m == Len(q)
            n == Len(s)
<1>1. /\ a \in Path /\ Len(a) = l + m /\ l \in Nat /\ m \in Nat
      /\ \A i \in 1 .. l : a[i] = p[i]
      /\ \A i \in 1 .. m : a[l + i] = q[i]
  BY PathJoined
<1>2. /\ b \in Path /\ Len(b) = m + n /\ n \in Nat
      /\ \A i \in 1 .. m : b[i] = q[i]
      /\ \A i \in 1 .. n : b[m + i] = s[i]
  BY PathJoined
<1>. HIDE DEF a, b
<1>3. /\ v \in Path /\ Len(v) = l + m + n
      /\ \A i \in 1 .. l + m : v[i] = a[i]
      /\ \A i \in 1 .. n : v[l + m + i] = s[i]
  <2>1. /\ v \in Path /\ Len(v) = Len(a) + n
        /\ \A i \in 1 .. Len(a) : v[i] = a[i]
        /\ \A i \in 1 .. n : v[Len(a) + i] = s[i]
    BY <1>1, PathJoined
  <2>. HIDE DEF v, l, m, n
  <2>. QED  BY <1>1, <2>1
<1>4. /\ w \in Path /\ Len(w) = l + (m + n)
      /\ \A i \in 1 .. l : w[i] = p[i]
      /\ \A i \in 1 .. m + n : w[l + i] = b[i]
  <2>1. /\ w \in Path /\ Len(w) = l + Len(b)
        /\ \A i \in 1 .. l : w[i] = p[i]
        /\ \A i \in 1 .. Len(b) : w[l + i] = b[i]
    BY <1>2, PathJoined
  <2>. HIDE DEF w, l, m, n
  <2>. QED  BY <1>2, <2>1
<1>. HIDE DEF v, w, l, m, n
<1>5. ASSUME NEW i \in 1 .. Len(v) PROVE v[i] = w[i]
  <2>1. CASE i <= l
    BY <1>1, <1>3, <1>4, <2>1
  <2>2. CASE i > l /\ i <= l + m
    <3>1. i - l \in 1 .. m /\ i - l \in 1 .. m + n /\ l + (i - l) = i
      BY <1>1, <1>2, <2>2
    <3>2. v[i] = a[i]
      BY <1>3, <2>2
    <3>3. a[l + (i - l)] = q[i - l] /\ w[l + (i - l)] = b[i - l] /\ b[i - l] = q[i - l]
      BY <1>1, <1>2, <1>4, <3>1
    <3>. QED  BY <3>1, <3>2, <3>3
  <2>3. CASE i > l + m
    <3>1. /\ i - (l + m) \in 1 .. n /\ i - l \in 1 .. m + n
          /\ l + (i - l) = i /\ l + m + (i - (l + m)) = i /\ m + (i - (l + m)) = i - l
      BY <1>1, <1>2, <1>3, <2>3
    <3>2. v[l + m + (i - (l + m))] = s[i - (l + m)]
      BY <1>3, <3>1
    <3>3. w[l + (i - l)] = b[i - l]
      BY <1>4, <3>1
    <3>4. b[m + (i - (l + m))] = s[i - (l + m)]
      BY <1>2, <3>1
    <3>. QED  BY <3>1, <3>2, <3>3, <3>4
  <2>. QED  BY <1>1, <1>2, <1>3, <2>1, <2>2, <2>3
<1>6. v = w
  <2>1. Len(v) = Len(w)
    BY <1>1, <1>2, <1>3, <1>4
  <2>. QED  BY <1>3, <1>4, <1>5, <2>1, SeqEqual DEF Path
<1>. QED  BY <1>6 DEF v, w, a, b

(* A path below p is p and what comes then. *)
LEMMA PathBelow ==
  ASSUME NEW p \in Path, NEW q \in Path, IsPrefix(p, q)
  PROVE  \E s \in Path : q = p \o s
<1>. DEFINE s == SubSeq(q, Len(p) + 1, Len(q))
<1>1. Len(p) <= Len(q) /\ \A i \in 1 .. Len(p) : p[i] = q[i]
  BY PrefixIs
<1>2. Len(p) \in Nat /\ Len(q) \in Nat
  BY DEF Path
<1>3. s \in Path /\ Len(s) = Len(q) - Len(p) /\ \A i \in 1 .. Len(q) - Len(p) : s[i] = q[Len(p) + i]
  BY <1>1, <1>2, SubSeqProperties DEF Path
<1>. HIDE DEF s
<1>. DEFINE w == p \o s
<1>4. /\ w \in Path /\ Len(w) = Len(p) + Len(s)
      /\ \A i \in 1 .. Len(p) : w[i] = p[i]
      /\ \A i \in 1 .. Len(s) : w[Len(p) + i] = s[i]
  BY <1>3, PathJoined
<1>. HIDE DEF w
<1>5. ASSUME NEW i \in 1 .. Len(q) PROVE w[i] = q[i]
  <2>1. CASE i <= Len(p)
    BY <1>1, <1>2, <2>1, <1>4
  <2>2. CASE i > Len(p)
    <3>1. i - Len(p) \in 1 .. Len(s) /\ Len(p) + (i - Len(p)) = i
      BY <1>2, <1>3, <2>2
    <3>2. w[Len(p) + (i - Len(p))] = s[i - Len(p)]
      BY <1>4, <3>1
    <3>3. s[i - Len(p)] = q[Len(p) + (i - Len(p))]
      BY <1>3, <3>1
    <3>. QED  BY <3>1, <3>2, <3>3
  <2>. QED  BY <1>2, <2>1, <2>2
<1>6. w = q
  <2>1. Len(w) = Len(q)
    BY <1>1, <1>2, <1>3, <1>4
  <2>. QED  BY <1>4, <1>5, <2>1, SeqEqual DEF Path
<1>. QED  BY <1>3, <1>6 DEF w

(* The path that goes to the j-th child first. *)
LEMMA UnderIs ==
  ASSUME NEW j \in Nat, NEW s \in Path
  PROVE  /\ <<j>> \in Path /\ <<j>> \o s \in Path /\ <<j>> \o s # <<>>
         /\ (<<j>> \o s)[1] = j /\ Tail(<<j>> \o s) = s
<1>. DEFINE h == <<j>>
            q == h \o s
<1>1. h \in Path /\ Len(h) = 1 /\ h[1] = j
  BY DEF Path
<1>. HIDE DEF h
<1>2. /\ q \in Path /\ Len(q) = 1 + Len(s) /\ Len(s) \in Nat /\ q[1] = j
      /\ \A i \in 1 .. Len(s) : q[1 + i] = s[i]
  <2>1. /\ q \in Path /\ Len(q) = Len(h) + Len(s) /\ Len(s) \in Nat
        /\ \A i \in 1 .. Len(h) : q[i] = h[i]
        /\ \A i \in 1 .. Len(s) : q[Len(h) + i] = s[i]
    BY <1>1, PathJoined
  <2>. HIDE DEF q
  <2>. QED  BY <1>1, <2>1
<1>. HIDE DEF q
<1>3. q # <<>>
  BY <1>2
<1>. DEFINE t == Tail(q)
<1>4. t \in Path /\ Len(t) = Len(s) /\ \A i \in 1 .. Len(s) : t[i] = q[i + 1]
  BY <1>2, <1>3, HeadTailProperties DEF Path
<1>. HIDE DEF t
<1>5. \A i \in 1 .. Len(s) : t[i] = s[i]
  BY <1>2, <1>4
<1>6. t = s
  BY <1>4, <1>5, SeqEqual DEF Path
<1>. QED  BY <1>1, <1>2, <1>3, <1>6 DEF t, q, h

LEMMA UnderSame ==
  ASSUME NEW j \in Nat, NEW s \in Path, NEW k \in Nat, NEW u \in Path
  PROVE  /\ <<j>> \o s = <<k>> \o u => j = k /\ s = u
         /\ IsPrefix(<<j>> \o s, <<k>> \o u) => j = k
<1>1. ASSUME <<j>> \o s = <<k>> \o u PROVE j = k /\ s = u
  <2>1. (<<j>> \o s)[1] = j /\ Tail(<<j>> \o s) = s /\ (<<k>> \o u)[1] = k /\ Tail(<<k>> \o u) = u
    BY UnderIs
  <2>. QED  BY <1>1, <2>1
<1>2. ASSUME IsPrefix(<<j>> \o s, <<k>> \o u) PROVE j = k
  <2>. DEFINE p == <<j>> \o s
              q == <<k>> \o u
  <2>1. p \in Path /\ p # <<>> /\ p[1] = j /\ q \in Path /\ q[1] = k /\ IsPrefix(p, q)
    BY <1>2, UnderIs
  <2>. HIDE DEF p, q
  <2>2. \A i \in 1 .. Len(p) : p[i] = q[i]
    BY <2>1, PrefixIs
  <2>3. 1 \in 1 .. Len(p)
    BY <2>1 DEF Path
  <2>. QED  BY <2>1, <2>2, <2>3
<1>. QED  BY <1>1, <1>2

(* What a function makes of finitely many arguments is finitely much. *)
LEMMA FiniteImage ==
  ASSUME NEW S, IsFiniteSet(S), NEW f
  PROVE  IsFiniteSet({f[x] : x \in S})
<1>. DEFINE T == {f[x] : x \in S}
            g == [x \in S |-> f[x]]
<1>1. g \in Surjection(S, T)
  BY DEF Surjection
<1>. HIDE DEF T, g
<1>2. IsFiniteSet(T)
  BY <1>1, FS_Surjection
<1>. QED  BY <1>2 DEF T

(* Paths below one place are as many as what comes behind it. *)
LEMMA FiniteBelow ==
  ASSUME NEW p \in Path, NEW A \in SUBSET Path, IsFiniteSet(A)
  PROVE  IsFiniteSet({p \o s : s \in A}) /\ Cardinality({p \o s : s \in A}) = Cardinality(A)
<1>. DEFINE T == {p \o s : s \in A}
            g == [s \in A |-> p \o s]
<1>1. g \in [A -> T] /\ \A t \in T : \E s \in A : g[s] = t
  OBVIOUS
<1>2. ASSUME NEW s \in A, NEW u \in A, g[s] = g[u] PROVE s = u
  <2>1. p \o s = p \o u /\ s \in Path /\ u \in Path
    BY <1>2
  <2>. HIDE DEF g, T
  <2>. QED  BY <2>1, PrefixBehind
<1>. HIDE DEF T, g
<1>3. g \in Bijection(A, T)
  BY <1>1, <1>2 DEF Bijection, Injection, Surjection, IsInjective
<1>4. ExistsBijection(A, T)
  BY <1>3 DEF ExistsBijection
<1>5. IsFiniteSet(T) /\ Cardinality(T) = Cardinality(A)
  BY <1>4, FS_Bijection
<1>. QED  BY <1>5 DEF T

-----------------------------------------------------------------------------
(***************************************************************************)
(* Substitution: g is e with the trees of by for some of its leaves.       *)
(***************************************************************************)
IsMap(g) == g = [q \in DOMAIN g |-> g[q]]

LEMMA SameMap ==
  ASSUME NEW t, IsMap(t), NEW u, IsMap(u), DOMAIN t = DOMAIN u, \A q \in DOMAIN t : t[q] = u[q]
  PROVE  t = u
BY DEF IsMap

AreLeaves(e, D) == D \subseteq DOMAIN e /\ \A p \in D, q \in DOMAIN e : IsPrefix(p, q) => p = q

Filled(g, e, by) ==
  /\ IsMap(g)
  /\ \A q \in DOMAIN g :
       q \in DOMAIN e \ DOMAIN by \/ \E p \in DOMAIN by : \E s \in DOMAIN by[p] : q = p \o s
  /\ \A q \in DOMAIN e \ DOMAIN by : q \in DOMAIN g /\ g[q] = e[q]
  /\ \A p \in DOMAIN by : \A s \in DOMAIN by[p] : p \o s \in DOMAIN g /\ g[p \o s] = by[p][s]

LEMMA FilledOnce ==
  ASSUME NEW e, NEW by, NEW g, Filled(g, e, by), NEW h, Filled(h, e, by)
  PROVE  g = h
<1>1. ASSUME NEW q \in DOMAIN g PROVE q \in DOMAIN h /\ h[q] = g[q]
  <2>1. CASE q \in DOMAIN e \ DOMAIN by
    BY <2>1, Zenon DEF Filled
  <2>2. CASE \E p \in DOMAIN by : \E s \in DOMAIN by[p] : q = p \o s
    <3>1. PICK p \in DOMAIN by : \E s \in DOMAIN by[p] : q = p \o s
      BY <2>2
    <3>2. PICK s \in DOMAIN by[p] : q = p \o s
      BY <3>1
    <3>. QED  BY <3>2, Zenon DEF Filled
  <2>. QED  BY <2>1, <2>2, Zenon DEF Filled
<1>2. ASSUME NEW q \in DOMAIN h PROVE q \in DOMAIN g
  <2>1. CASE q \in DOMAIN e \ DOMAIN by
    BY <2>1, Zenon DEF Filled
  <2>2. CASE \E p \in DOMAIN by : \E s \in DOMAIN by[p] : q = p \o s
    <3>1. PICK p \in DOMAIN by : \E s \in DOMAIN by[p] : q = p \o s
      BY <2>2
    <3>2. PICK s \in DOMAIN by[p] : q = p \o s
      BY <3>1
    <3>. QED  BY <3>2, Zenon DEF Filled
  <2>. QED  BY <2>1, <2>2, Zenon DEF Filled
<1>3. DOMAIN g = DOMAIN h
  BY <1>1, <1>2
<1>4. g = [q \in DOMAIN g |-> g[q]] /\ h = [q \in DOMAIN h |-> h[q]]
  BY DEF Filled, IsMap
<1>. QED  BY <1>1, <1>3, <1>4

-----------------------------------------------------------------------------
(***************************************************************************)
(* Application: a has args for children.                                   *)
(***************************************************************************)
AreArgs(args) == DOMAIN args \subseteq Nat /\ \A j \in DOMAIN args : DOMAIN args[j] \subseteq Path

Applied(a, label, args) ==
  /\ IsMap(a)
  /\ <<>> \in DOMAIN a /\ a[<<>>] = label
  /\ \A q \in DOMAIN a : q # <<>> => \E j \in DOMAIN args : \E s \in DOMAIN args[j] : q = <<j>> \o s
  /\ \A j \in DOMAIN args : \A s \in DOMAIN args[j] :
       <<j>> \o s \in DOMAIN a /\ a[<<j>> \o s] = args[j][s]

LEMMA AppliedOnce ==
  ASSUME NEW label, NEW args, NEW a, Applied(a, label, args), NEW b, Applied(b, label, args)
  PROVE  a = b
<1>1. ASSUME NEW q \in DOMAIN a PROVE q \in DOMAIN b /\ b[q] = a[q]
  <2>1. CASE q = <<>>
    BY <2>1, Zenon DEF Applied
  <2>2. CASE q # <<>>
    <3>1. PICK j \in DOMAIN args : \E s \in DOMAIN args[j] : q = <<j>> \o s
      BY <2>2, Zenon DEF Applied
    <3>2. PICK s \in DOMAIN args[j] : q = <<j>> \o s
      BY <3>1
    <3>. QED  BY <3>2, Zenon DEF Applied
  <2>. QED  BY <2>1, <2>2
<1>2. ASSUME NEW q \in DOMAIN b PROVE q \in DOMAIN a
  <2>1. CASE q = <<>>
    BY <2>1, Zenon DEF Applied
  <2>2. CASE q # <<>>
    <3>1. PICK j \in DOMAIN args : \E s \in DOMAIN args[j] : q = <<j>> \o s
      BY <2>2, Zenon DEF Applied
    <3>2. PICK s \in DOMAIN args[j] : q = <<j>> \o s
      BY <3>1
    <3>. QED  BY <3>2, Zenon DEF Applied
  <2>. QED  BY <2>1, <2>2
<1>3. DOMAIN a = DOMAIN b
  BY <1>1, <1>2
<1>4. a = [q \in DOMAIN a |-> a[q]] /\ b = [q \in DOMAIN b |-> b[q]]
  BY DEF Applied, IsMap
<1>. QED  BY <1>1, <1>3, <1>4

(* u is what v holds below m. *)
IsBelow(u, v, m) ==
  \A q \in Path : (m \o q \in DOMAIN v <=> q \in DOMAIN u) /\ (q \in DOMAIN u => v[m \o q] = u[q])

LEMMA FilledBelow ==
  ASSUME NEW w, DOMAIN w \subseteq Path, NEW by, AreLeaves(w, DOMAIN by),
         \A p \in DOMAIN by : DOMAIN by[p] \subseteq Path,
         NEW v, Filled(v, w, by), NEW m \in DOMAIN by
  PROVE  IsBelow(by[m], v, m)
<1>1. m \in Path /\ m \in DOMAIN w
  BY DEF AreLeaves
<1>2. ASSUME NEW q \in Path, m \o q \in DOMAIN v PROVE q \in DOMAIN by[m]
  <2>1. IsPrefix(m, m \o q) /\ m \o q \in Path
    BY <1>1, PrefixOfJoined, PathJoined
  <2>2. CASE m \o q \in DOMAIN w \ DOMAIN by
    <3>1. m = m \o q
      BY <2>1, <2>2, Zenon DEF AreLeaves
    <3>. QED  BY <2>2, <3>1
  <2>3. CASE \E p \in DOMAIN by : \E s \in DOMAIN by[p] : m \o q = p \o s
    <3>1. PICK p \in DOMAIN by : \E s \in DOMAIN by[p] : m \o q = p \o s
      BY <2>3
    <3>2. PICK s \in DOMAIN by[p] : m \o q = p \o s
      BY <3>1
    <3>3. p \in Path /\ s \in Path /\ p \in DOMAIN w
      BY DEF AreLeaves
    <3>4. IsPrefix(m, p) \/ IsPrefix(p, m)
      BY <1>1, <2>1, <3>2, <3>3, PrefixOfTwo
    <3>5. m = p
      BY <1>1, <3>3, <3>4 DEF AreLeaves
    <3>6. q = s
      BY <1>1, <3>2, <3>3, <3>5, PrefixBehind
    <3>. QED  BY <3>5, <3>6
  <2>. QED  BY <1>2, <2>2, <2>3, Zenon DEF Filled
<1>3. ASSUME NEW q \in DOMAIN by[m] PROVE m \o q \in DOMAIN v /\ v[m \o q] = by[m][q]
  BY Zenon DEF Filled
<1>. QED  BY <1>2, <1>3 DEF IsBelow

LEMMA AppliedBelow ==
  ASSUME NEW label, NEW args, AreArgs(args), NEW v, Applied(v, label, args), NEW j \in DOMAIN args
  PROVE  IsBelow(args[j], v, <<j>>)
<1>1. j \in Nat /\ \A k \in DOMAIN args : k \in Nat /\ DOMAIN args[k] \subseteq Path
  BY DEF AreArgs
<1>2. ASSUME NEW q \in Path, <<j>> \o q \in DOMAIN v PROVE q \in DOMAIN args[j]
  <2>1. <<j>> \o q # <<>>
    BY <1>1, UnderIs
  <2>2. \E k \in DOMAIN args : \E s \in DOMAIN args[k] : <<j>> \o q = <<k>> \o s
    BY <1>2, <2>1, Zenon DEF Applied
  <2>3. PICK k \in DOMAIN args : \E s \in DOMAIN args[k] : <<j>> \o q = <<k>> \o s
    BY <2>2
  <2>4. PICK s \in DOMAIN args[k] : <<j>> \o q = <<k>> \o s
    BY <2>3
  <2>5. j = k /\ q = s
    BY <1>1, <2>4, UnderSame
  <2>. QED  BY <2>5
<1>3. ASSUME NEW q \in DOMAIN args[j]
      PROVE  <<j>> \o q \in DOMAIN v /\ v[<<j>> \o q] = args[j][q]
  BY Zenon DEF Applied
<1>. QED  BY <1>2, <1>3 DEF IsBelow

-----------------------------------------------------------------------------
(***************************************************************************)
(* Stacks of values, the top first.                                        *)
(***************************************************************************)
IsStack(st) ==
  /\ Len(st) \in Nat /\ IsList(st, Len(st))
  /\ \A j \in 1 .. Len(st) : DOMAIN st[j] \subseteq Path

LEMMA StackSeq ==
  ASSUME NEW st, IsStack(st), NEW v
  PROVE  \E X : st \in Seq(X) /\ v \in X
<1>. DEFINE X == {st[j] : j \in 1 .. Len(st)} \cup {v}
            n == Len(st)
<1>1. n \in Nat /\ st = [j \in 1 .. n |-> st[j]]
  BY DEF IsStack, IsList
<1>2. \A j \in 1 .. n : st[j] \in X
  OBVIOUS
<1>3. v \in X
  OBVIOUS
<1>. HIDE DEF X, n
<1>4. st \in [1 .. n -> X]
  BY <1>1, <1>2
<1>5. st \in Seq(X)
  BY <1>1, <1>4
<1>. QED  BY <1>3, <1>5

LEMMA StackSame ==
  ASSUME NEW st, IsStack(st), NEW other, IsStack(other), Len(st) = Len(other),
         \A j \in 1 .. Len(st) : st[j] = other[j]
  PROVE  st = other
BY DEF IsStack, IsList

LEMMA StackPushed ==
  ASSUME NEW st, IsStack(st), NEW v, DOMAIN v \subseteq Path
  PROVE  LET more == <<v>> \o st IN
         /\ IsStack(more) /\ Len(more) = Len(st) + 1 /\ more[1] = v
         /\ \A j \in 1 .. Len(st) : more[j + 1] = st[j]
<1>. DEFINE more == <<v>> \o st
            n == Len(st)
<1>1. PICK X : st \in Seq(X) /\ v \in X
  BY StackSeq
<1>2. more \in Seq(X) /\ Len(more) = n + 1 /\ n \in Nat
  BY <1>1
<1>3. more[1] = v
  BY <1>1
<1>4. \A j \in 1 .. n : more[j + 1] = st[j]
  BY <1>1
<1>. HIDE DEF more
<1>5. IsList(more, Len(more)) /\ Len(more) \in Nat
  BY <1>2 DEF IsList
<1>6. ASSUME NEW j \in 1 .. Len(more) PROVE DOMAIN more[j] \subseteq Path
  <2>1. CASE j = 1
    BY <1>3, <2>1
  <2>2. CASE j # 1
    <3>1. j - 1 \in 1 .. n /\ (j - 1) + 1 = j
      BY <1>2, <2>2
    <3>2. more[(j - 1) + 1] = st[j - 1]
      BY <1>4, <3>1
    <3>3. more[j] = st[j - 1]
      BY <3>1, <3>2
    <3>4. DOMAIN st[j - 1] \subseteq Path
      BY <3>1 DEF IsStack
    <3>. QED  BY <3>3, <3>4
  <2>. QED  BY <2>1, <2>2
<1>. QED  BY <1>2, <1>3, <1>4, <1>5, <1>6 DEF IsStack, more

LEMMA StackRest ==
  ASSUME NEW st, IsStack(st), NEW m \in 0 .. Len(st)
  PROVE  LET rest == SubSeq(st, m + 1, Len(st)) IN
         /\ IsStack(rest) /\ Len(rest) = Len(st) - m
         /\ \A j \in 1 .. Len(st) - m : rest[j] = st[j + m]
         /\ m = 0 => rest = st
<1>. DEFINE rest == SubSeq(st, m + 1, Len(st))
            n == Len(st)
<1>1. PICK X : st \in Seq(X)
  BY StackSeq
<1>2. n \in Nat /\ m \in Nat /\ m <= n
  BY <1>1
<1>3. /\ rest \in Seq(X) /\ Len(rest) = n - m
      /\ \A j \in 1 .. n - m : rest[j] = st[m + j]
  BY <1>1, <1>2, SubSeqProperties
<1>. HIDE DEF rest, n
<1>4. \A j \in 1 .. n - m : rest[j] = st[j + m] /\ j + m \in 1 .. n
  <2>. SUFFICES ASSUME NEW j \in 1 .. n - m PROVE rest[j] = st[j + m] /\ j + m \in 1 .. n
    OBVIOUS
  <2>1. j + m = m + j /\ j + m \in 1 .. n
    BY <1>2
  <2>. QED  BY <1>3, <2>1
<1>5. IsList(rest, Len(rest)) /\ Len(rest) \in Nat
  BY <1>3 DEF IsList
<1>6. ASSUME NEW j \in 1 .. Len(rest) PROVE DOMAIN rest[j] \subseteq Path
  BY <1>3, <1>4 DEF IsStack, n
<1>7. IsStack(rest)
  BY <1>5, <1>6 DEF IsStack
<1>8. ASSUME m = 0 PROVE rest = st
  <2>1. Len(rest) = n /\ \A j \in 1 .. n : rest[j] = st[j]
    <3>1. Len(rest) = n
      BY <1>2, <1>3, <1>8
    <3>2. ASSUME NEW j \in 1 .. n PROVE rest[j] = st[j]
      <4>1. j \in 1 .. n - m /\ j + m = j
        BY <1>2, <1>8
      <4>. QED  BY <1>4, <4>1
    <3>. QED  BY <3>1, <3>2
  <2>. QED  BY <1>7, <2>1, StackSame DEF n
<1>. QED  BY <1>3, <1>4, <1>7, <1>8 DEF rest, n

LEMMA StackTail ==
  ASSUME NEW st, IsStack(st), st # <<>>
  PROVE  /\ Len(st) >= 1 /\ Len(st) \in Nat /\ IsStack(Tail(st)) /\ Len(Tail(st)) = Len(st) - 1
         /\ Head(st) = st[1]
         /\ \A j \in 1 .. Len(st) - 1 : Tail(st)[j] = st[j + 1]
<1>. DEFINE t == Tail(st)
            n == Len(st)
<1>1. PICK X : st \in Seq(X)
  BY StackSeq
<1>2. n \in Nat /\ n >= 1
  BY <1>1
<1>3. t \in Seq(X) /\ Len(t) = n - 1 /\ Head(st) = st[1]
  BY <1>1
<1>4. \A j \in 1 .. n - 1 : t[j] = st[j + 1]
  BY <1>1
<1>. HIDE DEF t, n
<1>5. IsList(t, Len(t)) /\ Len(t) \in Nat
  BY <1>3 DEF IsList
<1>6. ASSUME NEW j \in 1 .. Len(t) PROVE DOMAIN t[j] \subseteq Path
  <2>1. j + 1 \in 1 .. n /\ j \in 1 .. n - 1
    BY <1>2, <1>3
  <2>. QED  BY <1>4, <2>1 DEF IsStack, n
<1>7. IsStack(t)
  BY <1>5, <1>6 DEF IsStack
<1>. QED  BY <1>2, <1>3, <1>4, <1>7 DEF t, n

LEMMA StackEmpty ==
  ASSUME NEW st, IsStack(st)
  PROVE  st = <<>> <=> Len(st) = 0
<1>1. PICK X : st \in Seq(X)
  BY StackSeq
<1>. QED  BY <1>1

-----------------------------------------------------------------------------
(***************************************************************************)
(* A stack from which a values above the lowest b ones have been taken.    *)
(***************************************************************************)
Lost(old, new, a, b) ==
  /\ Len(old) = Len(new) + a /\ b <= Len(new)
  /\ \A x \in 1 .. Len(new) : new[x] = old[IF x <= Len(new) - b THEN x ELSE x + a]

LEMMA LostNothing ==
  ASSUME NEW old, IsStack(old), NEW new, IsStack(new), NEW b \in Nat
  PROVE  /\ Lost(old, new, 0, b) => old = new
         /\ old = new /\ b <= Len(old) => Lost(old, new, 0, b)
<1>1. Len(old) \in Nat /\ Len(new) \in Nat
  BY DEF IsStack
<1>2. ASSUME Lost(old, new, 0, b) PROVE old = new
  <2>1. Len(old) = Len(new)
    BY <1>1, <1>2 DEF Lost
  <2>2. ASSUME NEW x \in 1 .. Len(new) PROVE new[x] = old[x]
    <3>1. (IF x <= Len(new) - b THEN x ELSE x + 0) = x
      OBVIOUS
    <3>2. new[x] = old[IF x <= Len(new) - b THEN x ELSE x + 0]
      BY <1>2 DEF Lost
    <3>. QED  BY <3>1, <3>2
  <2>. QED  BY <2>1, <2>2, StackSame
<1>3. ASSUME old = new, b <= Len(old) PROVE Lost(old, new, 0, b)
  <2>1. ASSUME NEW x \in 1 .. Len(new) PROVE (IF x <= Len(new) - b THEN x ELSE x + 0) = x
    OBVIOUS
  <2>. QED  BY <1>1, <1>3, <2>1 DEF Lost
<1>. QED  BY <1>2, <1>3

LEMMA LostPush ==
  ASSUME NEW old, IsStack(old), NEW new, IsStack(new), NEW a \in Nat, NEW b \in Nat,
         Lost(old, new, a, b), NEW v, DOMAIN v \subseteq Path
  PROVE  /\ Lost(<<v>> \o old, <<v>> \o new, a, b)
         /\ Len(new) = b => Lost(<<v>> \o old, new, a + 1, b)
<1>. DEFINE o == <<v>> \o old
            w == <<v>> \o new
            m == Len(old)
            n == Len(new)
<1>1. /\ Len(o) = m + 1 /\ o[1] = v /\ \A j \in 1 .. m : o[j + 1] = old[j]
  BY StackPushed
<1>2. /\ Len(w) = n + 1 /\ w[1] = v /\ \A j \in 1 .. n : w[j + 1] = new[j]
  BY StackPushed
<1>3. /\ m \in Nat /\ n \in Nat /\ m = n + a /\ b <= n
      /\ \A x \in 1 .. n : new[x] = old[IF x <= n - b THEN x ELSE x + a]
  BY DEF Lost, IsStack
<1>. HIDE DEF o, w, m, n
<1>4. ASSUME NEW x \in 1 .. n + 1
      PROVE  w[x] = o[IF x <= n + 1 - b THEN x ELSE x + a]
  <2>1. CASE x = 1
    <3>1. 1 <= n + 1 - b
      BY <1>3
    <3>. QED  BY <1>1, <1>2, <2>1, <3>1
  <2>2. CASE x # 1
    <3>. DEFINE y == x - 1
    <3>1. y \in 1 .. n /\ y + 1 = x
      BY <1>3, <2>2
    <3>2. w[x] = new[y]
      BY <1>2, <3>1
    <3>3. CASE y <= n - b
      <4>1. new[y] = old[y]
        BY <1>3, <3>1, <3>3
      <4>2. y \in 1 .. m
        BY <1>3, <3>1
      <4>3. o[y + 1] = old[y]
        BY <1>1, <4>2
      <4>4. x <= n + 1 - b
        BY <1>3, <3>1, <3>3
      <4>. QED  BY <3>1, <3>2, <4>1, <4>3, <4>4
    <3>4. CASE ~(y <= n - b)
      <4>1. new[y] = old[y + a]
        BY <1>3, <3>1, <3>4
      <4>2. y + a \in 1 .. m /\ (y + a) + 1 = x + a
        BY <1>3, <3>1
      <4>3. o[(y + a) + 1] = old[y + a]
        BY <1>1, <4>2
      <4>4. ~(x <= n + 1 - b)
        BY <1>3, <3>1, <3>4
      <4>. QED  BY <3>2, <4>1, <4>2, <4>3, <4>4
    <3>. QED  BY <3>3, <3>4
  <2>. QED  BY <2>1, <2>2
<1>5. Lost(o, w, a, b)
  <2>1. m + 1 = (n + 1) + a /\ b <= n + 1
    BY <1>3
  <2>2. Len(o) = m + 1 /\ Len(w) = n + 1
    BY <1>1, <1>2
  <2>3. Len(o) = Len(w) + a /\ b <= Len(w)
    BY <2>1, <2>2, Zenon
  <2>4. ASSUME NEW x \in 1 .. Len(w) PROVE w[x] = o[IF x <= Len(w) - b THEN x ELSE x + a]
    <3>1. x \in 1 .. n + 1 /\ Len(w) - b = n + 1 - b
      BY <1>3, <2>2
    <3>2. w[x] = o[IF x <= n + 1 - b THEN x ELSE x + a]
      BY <1>4, <3>1
    <3>. QED  BY <3>1, <3>2
  <2>. QED  BY <2>3, <2>4 DEF Lost
<1>6. ASSUME n = b PROVE Lost(o, new, a + 1, b)
  <2>1. ASSUME NEW x \in 1 .. n PROVE new[x] = o[IF x <= n - b THEN x ELSE x + (a + 1)]
    <3>1. ~(x <= n - b)
      BY <1>3, <1>6
    <3>2. new[x] = old[x + a]
      BY <1>3, <3>1
    <3>3. x + a \in 1 .. m /\ (x + a) + 1 = x + (a + 1)
      BY <1>3
    <3>4. o[(x + a) + 1] = old[x + a]
      BY <1>1, <3>3
    <3>. QED  BY <3>1, <3>2, <3>3, <3>4
  <2>2. Len(o) = n + (a + 1) /\ b <= n
    BY <1>1, <1>3
  <2>. QED  BY <2>1, <2>2 DEF Lost, n
<1>. QED  BY <1>5, <1>6 DEF o, w, n

LEMMA LostPop ==
  ASSUME NEW old, IsStack(old), NEW new, IsStack(new), NEW a \in Nat, NEW b \in Nat,
         Lost(old, new, a, b), b < Len(new)
  PROVE  /\ old # <<>> /\ new # <<>> /\ Head(old) = Head(new)
         /\ Lost(Tail(old), Tail(new), a, b)
<1>. DEFINE o == Tail(old)
            w == Tail(new)
            m == Len(old)
            n == Len(new)
<1>1. /\ m \in Nat /\ n \in Nat /\ m = n + a /\ b < n
      /\ \A x \in 1 .. n : new[x] = old[IF x <= n - b THEN x ELSE x + a]
  BY DEF Lost, IsStack
<1>2. old # <<>> /\ new # <<>>
  BY <1>1, StackEmpty
<1>3. /\ Len(o) = m - 1 /\ Head(old) = old[1] /\ \A j \in 1 .. m - 1 : o[j] = old[j + 1]
  BY <1>2, StackTail
<1>4. /\ Len(w) = n - 1 /\ Head(new) = new[1] /\ \A j \in 1 .. n - 1 : w[j] = new[j + 1]
  BY <1>2, StackTail
<1>. HIDE DEF o, w, m, n
<1>5. new[1] = old[1]
  <2>1. 1 \in 1 .. n /\ 1 <= n - b
    BY <1>1
  <2>. QED  BY <1>1, <2>1
<1>6. ASSUME NEW x \in 1 .. n - 1
      PROVE  w[x] = o[IF x <= n - 1 - b THEN x ELSE x + a]
  <2>1. x + 1 \in 1 .. n /\ w[x] = new[x + 1]
    BY <1>1, <1>4
  <2>2. CASE x + 1 <= n - b
    <3>1. new[x + 1] = old[x + 1]
      BY <1>1, <2>1, <2>2
    <3>2. x \in 1 .. m - 1 /\ x <= n - 1 - b
      BY <1>1, <2>2
    <3>. QED  BY <1>3, <2>1, <3>1, <3>2
  <2>3. CASE ~(x + 1 <= n - b)
    <3>1. new[x + 1] = old[(x + 1) + a]
      BY <1>1, <2>1, <2>3
    <3>2. x + a \in 1 .. m - 1 /\ ~(x <= n - 1 - b) /\ (x + 1) + a = (x + a) + 1
      BY <1>1, <2>3
    <3>3. o[x + a] = old[(x + a) + 1]
      BY <1>3, <3>2
    <3>. QED  BY <2>1, <3>1, <3>2, <3>3
  <2>. QED  BY <2>2, <2>3
<1>7. Lost(o, w, a, b)
  <2>1. Len(o) = Len(w) + a /\ b <= Len(w)
    BY <1>1, <1>3, <1>4
  <2>. QED  BY <1>4, <1>6, <2>1 DEF Lost
<1>. QED  BY <1>2, <1>3, <1>4, <1>5, <1>7 DEF o, w

LEMMA LostTaken ==
  ASSUME NEW old, IsStack(old), NEW new, IsStack(new), NEW a \in Nat, NEW b \in Nat,
         Lost(old, new, a, b), Len(new) = b
  PROVE  SubSeq(old, a + 1, Len(old)) = new
<1>. DEFINE rest == SubSeq(old, a + 1, Len(old))
            m == Len(old)
            n == Len(new)
<1>1. /\ m \in Nat /\ n \in Nat /\ m = n + a /\ b = n
      /\ \A x \in 1 .. n : new[x] = old[IF x <= n - b THEN x ELSE x + a]
  BY DEF Lost, IsStack
<1>2. a \in 0 .. Len(old)
  BY <1>1 DEF m
<1>3. IsStack(rest) /\ Len(rest) = m - a /\ \A j \in 1 .. m - a : rest[j] = old[j + a]
  BY <1>2, StackRest
<1>. HIDE DEF rest, m, n
<1>4. ASSUME NEW j \in 1 .. n PROVE rest[j] = new[j]
  <2>1. ~(j <= n - b) /\ j \in 1 .. m - a
    BY <1>1
  <2>. QED  BY <1>1, <1>3, <2>1
<1>5. Len(rest) = n
  BY <1>1, <1>3
<1>. QED  BY <1>3, <1>4, <1>5, StackSame DEF rest, n
=============================================================================
