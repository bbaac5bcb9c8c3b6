----------------------------- MODULE NegationProofs -----------------------------
(***************************************************************************)
(* For every number of folds: as long as no comparison is compared in its  *)
(* turn, negating a condition gives the opposite one, and the condition    *)
(* stands for the jumps it was made of.                                    *)
(***************************************************************************)
EXTENDS Negation, Basics

USE ValuesAssumption, MaxTestsAssumption

(***************************************************************************)
(* Trees.                                                                  *)
(***************************************************************************)
LEMMA DepthType == Depth \in Nat \ {0}
BY DEF Depth

(* The recursive definition of Trees defines a function. *)
LEMMA TreesDef ==
  \A d \in 0 .. Depth : Trees[d] = IF d = 0 THEN Leaves ELSE Over(Trees[d - 1])
<1>. DEFINE IsTrees(f, m) ==
              f = [d \in 0 .. m |-> IF d = 0 THEN Leaves ELSE Over(f[d - 1])]
            T == {m \in Nat : ~\E f : IsTrees(f, m)}
<1>1. T = {}
  <2>. SUFFICES ASSUME T # {} PROVE FALSE
    OBVIOUS
  <2>1. PICK m \in T : \A k \in T : m <= k
    <3>1. T \in SUBSET Nat
      OBVIOUS
    <3>. HIDE DEF T
    <3>. QED  BY <3>1, LeastNumber
  <2>2. CASE m = 0
    <3>1. IsTrees([d \in 0 .. 0 |-> Leaves], 0)
      OBVIOUS
    <3>. QED  BY <2>2, <3>1
  <2>3. CASE m # 0
    <3>0. m \in Nat
      OBVIOUS
    <3>1. m - 1 \in Nat /\ m - 1 \notin T
      <4>. HIDE DEF T
      <4>. QED  BY <2>1, <2>3, <3>0
    <3>2. PICK f : IsTrees(f, m - 1)
      BY <3>1
    <3>. DEFINE g == [d \in 0 .. m |-> IF d = 0 THEN Leaves ELSE Over(f[d - 1])]
    <3>3. \A d \in 0 .. m - 1 : g[d] = f[d]
      BY <3>0, <3>2
    <3>4. \A d \in 0 .. m : g[d] = IF d = 0 THEN Leaves ELSE Over(g[d - 1])
      <4>1. \A d \in 0 .. m : d # 0 => d - 1 \in 0 .. m - 1
        BY <3>0
      <4>. QED  BY <3>3, <4>1
    <3>5. IsTrees(g, m)
      <4>1. g = [d \in 0 .. m |-> g[d]]
        OBVIOUS
      <4>. HIDE DEF g
      <4>. QED  BY <3>4, <4>1
    <3>. QED  BY <3>5
  <2>. QED  BY <2>2, <2>3
<1>2. Depth \in Nat /\ Depth \notin T
  <2>. HIDE DEF T
  <2>. QED  BY <1>1, DepthType
<1>3. \E f : IsTrees(f, Depth)
  BY <1>2
<1>4. Trees = CHOOSE f : IsTrees(f, Depth)
  BY DEF Trees
<1>5. IsTrees(Trees, Depth)
  <2>. HIDE DEF IsTrees
  <2>. QED  BY <1>3, <1>4
<1>. QED  BY <1>5

LEMMA OverMonotone ==
  ASSUME NEW S, NEW T, S \subseteq T
  PROVE  Over(S) \subseteq Over(T)
BY DEF Over

(* A deeper level has the trees of every level above it. *)
LEMMA TreesMonotone ==
  \A d \in 0 .. Depth : d > 0 => Trees[d - 1] \subseteq Trees[d]
<1>. DEFINE T == {d \in 0 .. Depth : d > 0 /\ ~(Trees[d - 1] \subseteq Trees[d])}
<1>. SUFFICES ASSUME T # {} PROVE FALSE
  OBVIOUS
<1>1. PICK d \in T : \A k \in T : d <= k
  <2>1. T \in SUBSET Nat
    BY DepthType
  <2>. HIDE DEF T
  <2>. QED  BY <2>1, LeastNumber
<1>2. d \in 0 .. Depth /\ d > 0 /\ d - 1 \in 0 .. Depth /\ ~(Trees[d - 1] \subseteq Trees[d])
  BY DepthType
<1>3. d # 1
  <2>1. Leaves \subseteq Over(Leaves)
    BY DEF Over
  <2>2. d = 1 => d - 1 = 0
    OBVIOUS
  <2>. HIDE DEF T
  <2>. QED  BY <1>2, <2>1, <2>2, TreesDef
<1>4. d - 1 \notin T /\ d - 1 > 0
  <2>. HIDE DEF T
  <2>. QED  BY <1>1, <1>2, <1>3, DepthType
<1>5. Trees[d - 2] \subseteq Trees[d - 1]
  <2>1. d - 1 - 1 = d - 2
    BY <1>2, DepthType
  <2>. QED  BY <1>2, <1>4, <2>1
<1>6. Trees[d] = Over(Trees[d - 1]) /\ Trees[d - 1] = Over(Trees[d - 2])
  <2>1. d - 1 - 1 = d - 2 /\ d # 0 /\ d - 1 # 0
    BY <1>2, <1>4, DepthType
  <2>. HIDE DEF T
  <2>. QED  BY <1>2, <2>1, TreesDef
<1>. HIDE DEF T
<1>. QED  BY <1>2, <1>5, <1>6, OverMonotone

LEMMA TreesOrdered ==
  \A d \in 0 .. Depth, c \in 0 .. Depth : c <= d => Trees[c] \subseteq Trees[d]
<1>. SUFFICES ASSUME NEW c \in 0 .. Depth PROVE \A d \in 0 .. Depth : c <= d => Trees[c] \subseteq Trees[d]
  OBVIOUS
<1>. DEFINE T == {d \in 0 .. Depth : c <= d /\ ~(Trees[c] \subseteq Trees[d])}
<1>. SUFFICES ASSUME T # {} PROVE FALSE
  OBVIOUS
<1>1. PICK d \in T : \A k \in T : d <= k
  <2>1. T \in SUBSET Nat
    BY DepthType
  <2>. HIDE DEF T
  <2>. QED  BY <2>1, LeastNumber
<1>2. d \in 0 .. Depth /\ c <= d /\ ~(Trees[c] \subseteq Trees[d])
  OBVIOUS
<1>3. d # c
  BY <1>2
<1>4. d - 1 \in 0 .. Depth /\ c <= d - 1 /\ d > 0
  BY <1>2, <1>3, DepthType
<1>5. d - 1 \notin T
  <2>. HIDE DEF T
  <2>. QED  BY <1>1, <1>2, <1>4, DepthType
<1>6. Trees[c] \subseteq Trees[d - 1]
  BY <1>4, <1>5
<1>. QED  BY <1>2, <1>4, <1>6, TreesMonotone

LEMMA TreesUpward ==
  \A d \in 0 .. Depth : Trees[d] \subseteq Expressions
BY TreesOrdered, DepthType DEF Expressions

(* What a tree of some level is made of. *)
IsShaped(e, T) ==
  /\ IsBinary(e) => e.first \in T /\ e.second \in T /\ e = Binary(e.first, e.op, e.second)
  /\ e.op = "neg" => e.first \in T
  /\ e.op = "?:" => e.test \in T /\ e.first \in T /\ e.second \in T
  /\ ~IsBinary(e) /\ e.op \notin {"neg", "?:"} => e \in Leaves

LEMMA LeafOp ==
  ASSUME NEW e \in Leaves
  PROVE  ~IsBinary(e) /\ e.op \in Names \cup {"0"} /\ e.op \notin {"neg", "?:"}
BY DEF Leaves, Leaf, IsBinary, BinaryOperators, Comparisons, Junctions, Operations, Names

LEMMA OverShape ==
  ASSUME NEW T, NEW e \in Over(T)
  PROVE  IsShaped(e, T)
<1>1. CASE e \in Leaves
  BY <1>1, LeafOp DEF IsShaped
<1>2. CASE e \in [op : BinaryOperators, first : T, second : T]
  <2>1. e = [op |-> e.op, first |-> e.first, second |-> e.second]
    BY <1>2
  <2>2. e.op \in BinaryOperators /\ e.first \in T /\ e.second \in T
    BY <1>2
  <2>3. e.op \notin {"neg", "?:"}
    BY <2>2 DEF BinaryOperators, Comparisons, Junctions, Operations
  <2>. QED  BY <2>1, <2>2, <2>3 DEF IsShaped, IsBinary, Binary
<1>3. CASE e \in [op : {"neg"}, first : T]
  BY <1>3 DEF IsShaped, IsBinary, BinaryOperators, Comparisons, Junctions, Operations
<1>4. CASE e \in [op : {"?:"}, test : T, first : T, second : T]
  BY <1>4 DEF IsShaped, IsBinary, BinaryOperators, Comparisons, Junctions, Operations
<1>. QED  BY <1>1, <1>2, <1>3, <1>4 DEF Over

LEMMA TreesShape ==
  ASSUME NEW d \in 0 .. Depth, NEW e \in Trees[d]
  PROVE  e \in Leaves \/ (d > 0 /\ d - 1 \in 0 .. Depth /\ IsShaped(e, Trees[d - 1]))
<1>1. CASE d = 0
  BY <1>1, TreesDef
<1>2. CASE d # 0
  <2>1. d > 0 /\ d - 1 \in 0 .. Depth
    BY <1>2, DepthType
  <2>2. e \in Over(Trees[d - 1])
    BY <1>2, TreesDef
  <2>. QED  BY <2>1, <2>2, OverShape
<1>. QED  BY <1>1, <1>2

(* Where a tree appears first. *)
Level ==
  [e \in Expressions |->
     CHOOSE d \in 0 .. Depth : e \in Trees[d] /\ \A k \in 0 .. Depth : e \in Trees[k] => d <= k]

LEMMA LevelType ==
  ASSUME NEW e \in Expressions
  PROVE  /\ Level[e] \in 0 .. Depth
         /\ e \in Trees[Level[e]]
         /\ \A k \in 0 .. Depth : e \in Trees[k] => Level[e] <= k
<1>. DEFINE T == {k \in 0 .. Depth : e \in Trees[k]}
<1>1. Depth \in T
  BY DepthType DEF Expressions
<1>2. T \in SUBSET Nat
  BY DepthType
<1>3. PICK d \in T : \A k \in T : d <= k
  <2>. HIDE DEF T
  <2>. QED  BY <1>1, <1>2, LeastNumber
<1>4. \E m \in 0 .. Depth : e \in Trees[m] /\ \A k \in 0 .. Depth : e \in Trees[k] => m <= k
  BY <1>3
<1>. QED  BY <1>4 DEF Level

LEMMA LevelFunction == Level \in [Expressions -> 0 .. Depth]
BY LevelType DEF Level

(* What a tree is made of are trees of a lower level. *)
LEMMA Parts ==
  ASSUME NEW e \in Expressions
  PROVE  IsShaped(e, {x \in Expressions : Level[x] < Level[e]})
<1>. DEFINE S == {x \in Expressions : Level[x] < Level[e]}
<1>1. CASE e \in Leaves
  BY <1>1, LeafOp DEF IsShaped
<1>2. CASE e \notin Leaves
  <2>. DEFINE d == Level[e]
  <2>1. d \in 0 .. Depth /\ d > 0 /\ d - 1 \in 0 .. Depth /\ IsShaped(e, Trees[d - 1])
    BY <1>2, LevelType, TreesShape
  <2>2. ASSUME NEW x \in Trees[d - 1] PROVE x \in S
    <3>1. x \in Expressions
      BY <2>1, TreesUpward
    <3>2. Level[x] <= d - 1 /\ Level[x] \in 0 .. Depth
      BY <2>1, <3>1, LevelType
    <3>. QED  BY <2>1, <3>1, <3>2, DepthType
  <2>3. IsShaped(e, S)
    <3>. HIDE DEF S, d
    <3>. QED  BY <2>1, <2>2 DEF IsShaped
  <2>. QED  BY <2>3
<1>. QED  BY <1>1, <1>2

(* Induction over the trees. *)
LEMMA LevelInduction ==
  ASSUME NEW S,
         \A e \in Expressions :
           (\A x \in Expressions : Level[x] < Level[e] => x \in S) => e \in S
  PROVE  Expressions \subseteq S
<1>. DEFINE T == {Level[e] : e \in Expressions \ S}
<1>. SUFFICES ASSUME T # {} PROVE FALSE
  OBVIOUS
<1>1. PICK d \in T : \A k \in T : d <= k
  <2>1. T \in SUBSET Nat
    BY LevelType, DepthType
  <2>. HIDE DEF T
  <2>. QED  BY <2>1, LeastNumber
<1>2. PICK e \in Expressions \ S : d = Level[e]
  OBVIOUS
<1>3. ASSUME NEW x \in Expressions, Level[x] < Level[e] PROVE x \in S
  <2>1. x \notin S => Level[x] \in T
    OBVIOUS
  <2>2. Level[x] \in Nat /\ Level[e] \in Nat
    BY LevelType, DepthType
  <2>. HIDE DEF T
  <2>. QED  BY <1>1, <1>2, <1>3, <2>1, <2>2
<1>. QED  BY <1>2, <1>3

LEMMA BinaryParts ==
  ASSUME NEW e \in Expressions, IsBinary(e)
  PROVE  /\ e.first \in Expressions /\ Level[e.first] < Level[e]
         /\ e.second \in Expressions /\ Level[e.second] < Level[e]
         /\ e = Binary(e.first, e.op, e.second)
BY Parts DEF IsShaped

LEMMA BinaryFields ==
  ASSUME NEW x, NEW op, NEW y
  PROVE  /\ Binary(x, op, y).op = op
         /\ Binary(x, op, y).first = x
         /\ Binary(x, op, y).second = y
         /\ op \in BinaryOperators => IsBinary(Binary(x, op, y))
BY DEF Binary, IsBinary

(* A tree of two trees is one level deeper. *)
LEMMA BinaryLevel ==
  ASSUME NEW d \in 0 .. Depth, d < Depth, NEW x \in Trees[d], NEW y \in Trees[d],
         NEW op \in BinaryOperators
  PROVE  /\ Binary(x, op, y) \in Trees[d + 1]
         /\ Binary(x, op, y) \in Expressions
<1>1. d + 1 \in 0 .. Depth /\ d + 1 # 0 /\ (d + 1) - 1 = d
  BY DepthType
<1>2. Trees[d + 1] = Over(Trees[d])
  BY <1>1, TreesDef
<1>3. Binary(x, op, y) \in Over(Trees[d])
  BY DEF Over, Binary
<1>. QED  BY <1>1, <1>2, <1>3, TreesUpward

(***************************************************************************)
(* The recursive definitions define functions.                             *)
(***************************************************************************)
LEMMA NegateOperationType ==
  ASSUME NEW op \in BinaryOperators
  PROVE  /\ NegateOperation(op) \in BinaryOperators
         /\ NegateOperation(NegateOperation(op)) = op
         /\ op \in Junctions => NegateOperation(op) \in Junctions
         /\ op \in Comparisons => NegateOperation(op) \in Comparisons
         /\ op \in Operations => NegateOperation(op) = op
BY DEF NegateOperation, BinaryOperators, Comparisons, Junctions, Operations

(* What the visitor leaves of a tree, when f is what it leaves of its parts. *)
Visit(f, e) ==
  IF IsBinary(e) THEN Binary(f[e.first], NegateOperation(e.op), f[e.second]) ELSE e

(* Such a visitor keeps the level. *)
LEMMA VisitKeeps ==
  ASSUME NEW f, \A e \in Expressions : Visit(f, e) \in Expressions => f[e] = Visit(f, e)
  PROVE  \A d \in 0 .. Depth : \A e \in Trees[d] : f[e] \in Trees[d] /\ f[e] = Visit(f, e)
<1>. DEFINE Keeps(d) == \A e \in Trees[d] : f[e] \in Trees[d] /\ f[e] = Visit(f, e)
            T == {d \in 0 .. Depth : ~Keeps(d)}
<1>5. T = {}
  <2>. SUFFICES ASSUME T # {} PROVE FALSE
    OBVIOUS
  <2>1. PICK d \in T : \A k \in T : d <= k
    <3>1. T \in SUBSET Nat
      BY DepthType
    <3>. HIDE DEF T
    <3>. QED  BY <3>1, LeastNumber
  <2>2. d \in 0 .. Depth /\ ~Keeps(d)
    OBVIOUS
  <2>3. ASSUME NEW e \in Trees[d] PROVE f[e] \in Trees[d] /\ f[e] = Visit(f, e)
    <3>0. e \in Expressions
      BY <2>2, TreesUpward
    <3>1. CASE ~IsBinary(e)
      BY <2>2, <2>3, <3>0, <3>1 DEF Visit
    <3>2. CASE IsBinary(e)
      <4>1. d > 0 /\ d - 1 \in 0 .. Depth /\ d - 1 < Depth /\ (d - 1) + 1 = d /\ IsShaped(e, Trees[d - 1])
        BY <2>2, <3>2, TreesShape, LeafOp, DepthType
      <4>2. d - 1 \notin T
        <5>. HIDE DEF T, Keeps
        <5>. QED  BY <2>1, <2>2, <4>1, DepthType
      <4>3. Keeps(d - 1)
        BY <4>1, <4>2
      <4>4. e.first \in Trees[d - 1] /\ e.second \in Trees[d - 1] /\ e.op \in BinaryOperators
        BY <3>2, <4>1 DEF IsShaped, IsBinary
      <4>5. f[e.first] \in Trees[d - 1] /\ f[e.second] \in Trees[d - 1]
        BY <4>3, <4>4
      <4>6. NegateOperation(e.op) \in BinaryOperators
        BY <4>4, NegateOperationType
      <4>7. Visit(f, e) \in Trees[d] /\ Visit(f, e) \in Expressions
        <5>. HIDE DEF T, Keeps
        <5>1. Visit(f, e) = Binary(f[e.first], NegateOperation(e.op), f[e.second])
          BY <3>2 DEF Visit
        <5>2. Binary(f[e.first], NegateOperation(e.op), f[e.second]) \in Trees[(d - 1) + 1]
          BY <4>1, <4>5, <4>6, BinaryLevel
        <5>. QED  BY <2>2, <4>1, <5>1, <5>2, TreesUpward
      <4>. QED  BY <3>0, <4>7
    <3>. QED  BY <3>1, <3>2
  <2>. QED  BY <2>2, <2>3
<1>. QED  BY <1>5

LEMMA VisitedDef ==
  \A e \in Expressions :
    /\ Visited[e] = Visit(Visited, e)
    /\ \A d \in 0 .. Depth : e \in Trees[d] => Visited[e] \in Trees[d]
<1>. DEFINE D == Expressions
            B == [t \in [D -> D] \X D |->
                    IF Visit(t[1], t[2]) \in D THEN Visit(t[1], t[2]) ELSE t[2]]
            IsVisited(f) == f = [e \in D |-> Visit(f, e)]
<1>1. B \in [[D -> D] \X D -> D]
  OBVIOUS
<1>2. Descends(D, D, Level, B)
  <2>. SUFFICES ASSUME NEW f \in [D -> D], NEW g \in [D -> D], NEW e \in D,
                       \A x \in D : Level[x] < Level[e] => f[x] = g[x]
                PROVE  B[<<f, e>>] = B[<<g, e>>]
    BY DEF Descends
  <2>1. Visit(f, e) = Visit(g, e)
    BY BinaryParts DEF Visit
  <2>. QED  BY <2>1
<1>3. PICK f \in [D -> D] : \A e \in D : f[e] = B[<<f, e>>]
  <2>1. Leaf("0") \in D
    <3>1. 0 \in 0 .. Depth /\ Trees[0] = Leaves
      BY DepthType, TreesDef
    <3>. QED  BY <3>1, TreesUpward DEF Leaves
  <2>2. Depth \in Nat
    BY DepthType
  <2>3. Recurs(D, D, B)
    <3>. HIDE DEF B, D
    <3>. QED  BY <1>1, <1>2, <2>1, <2>2, LevelFunction, Recursion DEF D
  <2>. QED  BY <2>3 DEF Recurs
<1>4. \A e \in D : f[e] = IF Visit(f, e) \in D THEN Visit(f, e) ELSE e
  BY <1>3
<1>. HIDE DEF B
<1>5. \A e \in D : f[e] = Visit(f, e)
  <2>1. \A e \in Expressions : Visit(f, e) \in Expressions => f[e] = Visit(f, e)
    BY <1>4
  <2>2. \A e \in Trees[Depth] : f[e] = Visit(f, e)
    <3>. HIDE DEF D
    <3>. QED  BY <2>1, VisitKeeps, DepthType
  <2>. QED  BY <2>2 DEF Expressions
<1>6. IsVisited(f)
  BY <1>5
<1>7. Visited = CHOOSE g : IsVisited(g)
  BY DEF Visited, Visit
<1>8. IsVisited(Visited)
  <2>. HIDE DEF IsVisited
  <2>. QED  BY <1>6, <1>7
<1>9. \A e \in D : Visited[e] = Visit(Visited, e)
  BY <1>8
<1>10. \A d \in 0 .. Depth : \A e \in Trees[d] : Visited[e] \in Trees[d]
  <2>1. \A e \in Expressions : Visit(Visited, e) \in Expressions => Visited[e] = Visit(Visited, e)
    BY <1>9
  <2>. QED  BY <2>1, VisitKeeps
<1>. QED  BY <1>9, <1>10

(* The value of a tree, when f gives the values of its parts. *)
Evaluate(f, e) ==
  [env \in Env |->
     IF IsBinary(e) THEN Result(e.op, f[e.first][env], f[e.second][env])
     ELSE CASE e.op = "neg" -> - f[e.first][env]
            [] e.op = "?:"  -> IF f[e.test][env] # 0 THEN f[e.first][env] ELSE f[e.second][env]
            [] e.op = "0"   -> 0
            [] OTHER        -> env[e.op]]

LEMMA ResultType ==
  ASSUME NEW op \in BinaryOperators, NEW x \in Int, NEW y \in Int
  PROVE  Result(op, x, y) \in Int
<1>1. BitAnd(x, y) \in Int
  BY DEF BitAnd
<1>2. x + y \in Int /\ x - y \in Int /\ x * y \in Int /\ x + y - 2 * BitAnd(x, y) \in Int
  BY <1>1
<1>3. \A b : Bool(b) \in Int
  BY DEF Bool
<1>4. op \in {"||", "&&", "==", "!=", "<", "<=", ">", ">=", "+", "-", "*", "&", "xor"}
  BY DEF BinaryOperators, Comparisons, Junctions, Operations
<1>. QED  BY <1>1, <1>2, <1>3, <1>4 DEF Result

LEMMA EvaluateType ==
  ASSUME NEW f, NEW e \in Expressions,
         \A x \in Expressions : Level[x] < Level[e] => f[x] \in [Env -> Int]
  PROVE  Evaluate(f, e) \in [Env -> Int]
<1>. SUFFICES ASSUME NEW env \in Env PROVE Evaluate(f, e)[env] \in Int
  BY DEF Evaluate
<1>1. CASE IsBinary(e)
  <2>1. f[e.first][env] \in Int /\ f[e.second][env] \in Int /\ e.op \in BinaryOperators
    BY <1>1, BinaryParts DEF IsBinary
  <2>2. Evaluate(f, e)[env] = Result(e.op, f[e.first][env], f[e.second][env])
    BY <1>1 DEF Evaluate
  <2>. QED  BY <2>1, <2>2, ResultType
<1>2. CASE ~IsBinary(e) /\ e.op = "neg"
  <2>1. f[e.first][env] \in Int
    BY <1>2, Parts DEF IsShaped
  <2>. QED  BY <1>2, <2>1 DEF Evaluate
<1>3. CASE ~IsBinary(e) /\ e.op = "?:"
  <2>1. f[e.first][env] \in Int /\ f[e.second][env] \in Int
    BY <1>3, Parts DEF IsShaped
  <2>. QED  BY <1>3, <2>1 DEF Evaluate
<1>4. CASE ~IsBinary(e) /\ e.op \notin {"neg", "?:"}
  <2>1. e.op \in Names \cup {"0"}
    BY <1>4, Parts, LeafOp DEF IsShaped
  <2>2. e.op = "0" \/ env[e.op] \in Int
    BY <2>1 DEF Env
  <2>. QED  BY <1>4, <2>1, <2>2 DEF Evaluate
<1>. QED  BY <1>1, <1>2, <1>3, <1>4

LEMMA EvaluatedDef ==
  \A e \in Expressions : Evaluated[e] = Evaluate(Evaluated, e) /\ Evaluated[e] \in [Env -> Int]
<1>. DEFINE D == Expressions
            V == [Env -> Int]
            B == [t \in [D -> V] \X D |-> Evaluate(t[1], t[2])]
            IsEvaluated(f) == f = [e \in D |-> Evaluate(f, e)]
<1>1. B \in [[D -> V] \X D -> V]
  BY EvaluateType
<1>2. Descends(D, V, Level, B)
  <2>. SUFFICES ASSUME NEW f \in [D -> V], NEW g \in [D -> V], NEW e \in D,
                       \A x \in D : Level[x] < Level[e] => f[x] = g[x]
                PROVE  B[<<f, e>>] = B[<<g, e>>]
    BY DEF Descends
  <2>1. Evaluate(f, e) = Evaluate(g, e)
    <3>1. CASE IsBinary(e)
      BY <3>1, BinaryParts DEF Evaluate
    <3>2. CASE ~IsBinary(e)
      BY <3>2, Parts DEF Evaluate, IsShaped
    <3>. QED  BY <3>1, <3>2
  <2>. QED  BY <2>1
<1>3. PICK f \in [D -> V] : \A e \in D : f[e] = B[<<f, e>>]
  <2>1. [env \in Env |-> 0] \in V
    OBVIOUS
  <2>2. Depth \in Nat
    BY DepthType
  <2>3. Recurs(D, V, B)
    <3>. HIDE DEF B, D, V
    <3>. QED  BY <1>1, <1>2, <2>1, <2>2, LevelFunction, Recursion DEF D
  <2>. QED  BY <2>3 DEF Recurs
<1>4. \A e \in D : f[e] = Evaluate(f, e)
  BY <1>3
<1>5. IsEvaluated(f)
  BY <1>4
<1>6. Evaluated = CHOOSE g : IsEvaluated(g)
  BY DEF Evaluated, Evaluate
<1>7. IsEvaluated(Evaluated)
  <2>. HIDE DEF IsEvaluated
  <2>. QED  BY <1>5, <1>6
<1>8. \A e \in D : Evaluated[e] = Evaluate(Evaluated, e)
  BY <1>7
<1>9. D \subseteq {e \in D : Evaluated[e] \in V}
  <2>1. ASSUME NEW e \in D, \A x \in D : Level[x] < Level[e] => Evaluated[x] \in V
        PROVE  Evaluated[e] \in V
    BY <1>8, <2>1, EvaluateType
  <2>. DEFINE S == {e \in D : Evaluated[e] \in V}
  <2>2. \A e \in Expressions : (\A x \in Expressions : Level[x] < Level[e] => x \in S) => e \in S
    BY <2>1
  <2>3. Expressions \subseteq S
    <3>. HIDE DEF S
    <3>. QED  BY <2>2, LevelInduction
  <2>. QED  BY <2>3
<1>. QED  BY <1>8, <1>9

(* The comparisons, when f gives those of the parts. *)
Test(f, e) ==
  [env \in Env |->
     IF e.op \notin Junctions THEN <<{e.first, e.second}>>
     ELSE IF Value(e.first, env) # 0 <=> e.op = "||" THEN f[e.first][env]
     ELSE f[e.first][env] \o f[e.second][env]]

Compared == {{e.first, e.second} : e \in Expressions}

TestType == [Env -> Seq(Compared)]

LEMMA TestTyped ==
  ASSUME NEW f \in [Expressions -> TestType], NEW e \in Expressions
  PROVE  Test(f, e) \in TestType
<1>. SUFFICES ASSUME NEW env \in Env PROVE Test(f, e)[env] \in Seq(Compared)
  BY DEF Test, TestType
<1>1. CASE e.op \notin Junctions
  <2>1. {e.first, e.second} \in Compared
    BY DEF Compared
  <2>2. Test(f, e)[env] = <<{e.first, e.second}>>
    BY <1>1 DEF Test
  <2>. QED  BY <2>1, <2>2
<1>2. CASE e.op \in Junctions
  <2>1. e.first \in Expressions /\ e.second \in Expressions
    BY <1>2, BinaryParts DEF IsBinary, BinaryOperators
  <2>2. \/ Test(f, e)[env] = f[e.first][env]
        \/ Test(f, e)[env] = f[e.first][env] \o f[e.second][env]
    BY <1>2 DEF Test
  <2>. DEFINE s == f[e.first][env]
              t == f[e.second][env]
  <2>3. s \in Seq(Compared) /\ t \in Seq(Compared)
    BY <2>1 DEF TestType
  <2>4. s \o t \in Seq(Compared)
    <3>. HIDE DEF s, t
    <3>. QED  BY <2>3
  <2>. QED  BY <2>2, <2>3, <2>4, Zenon
<1>. QED  BY <1>1, <1>2

LEMMA TestedDef ==
  \A e \in Expressions : Tested[e] = Test(Tested, e)
<1>. DEFINE D == Expressions
            V == TestType
            B == [t \in [D -> V] \X D |-> Test(t[1], t[2])]
            IsTested(f) == f = [e \in D |-> Test(f, e)]
<1>1. B \in [[D -> V] \X D -> V]
  BY TestTyped
<1>2. Descends(D, V, Level, B)
  <2>. SUFFICES ASSUME NEW f \in [D -> V], NEW g \in [D -> V], NEW e \in D,
                       \A x \in D : Level[x] < Level[e] => f[x] = g[x]
                PROVE  B[<<f, e>>] = B[<<g, e>>]
    BY DEF Descends
  <2>1. Test(f, e) = Test(g, e)
    <3>1. CASE e.op \in Junctions
      <4>1. IsBinary(e)
        BY <3>1 DEF IsBinary, BinaryOperators
      <4>2. f[e.first] = g[e.first] /\ f[e.second] = g[e.second]
        BY <4>1, BinaryParts
      <4>. QED  BY <4>2 DEF Test
    <3>2. CASE e.op \notin Junctions
      BY <3>2 DEF Test
    <3>. QED  BY <3>1, <3>2
  <2>. QED  BY <2>1
<1>3. PICK f \in [D -> V] : \A e \in D : f[e] = B[<<f, e>>]
  <2>1. [env \in Env |-> <<>>] \in V
    BY DEF TestType
  <2>2. Depth \in Nat
    BY DepthType
  <2>3. Recurs(D, V, B)
    <3>. HIDE DEF B, D, V
    <3>. QED  BY <1>1, <1>2, <2>1, <2>2, LevelFunction, Recursion DEF D
  <2>. QED  BY <2>3 DEF Recurs
<1>4. \A e \in D : f[e] = Test(f, e)
  BY <1>3
<1>5. IsTested(f)
  BY <1>4
<1>6. Tested = CHOOSE g : IsTested(g)
  BY DEF Tested, Test
<1>7. IsTested(Tested)
  <2>. HIDE DEF IsTested
  <2>. QED  BY <1>5, <1>6
<1>. QED  BY <1>7

(***************************************************************************)
(* Negation and the meaning of conditions.                                 *)
(***************************************************************************)
LEMMA NegateType ==
  ASSUME NEW d \in 0 .. Depth, NEW e \in Trees[d]
  PROVE  Negate(e) \in Trees[d]
BY VisitedDef, TreesUpward DEF Negate

LEMMA NegateBinary ==
  ASSUME NEW x, NEW y, NEW op \in BinaryOperators, Binary(x, op, y) \in Expressions
  PROVE  Negate(Binary(x, op, y)) = Binary(Negate(x), NegateOperation(op), Negate(y))
<1>1. Negate(Binary(x, op, y)) = Visit(Visited, Binary(x, op, y))
  BY VisitedDef DEF Negate
<1>. QED  BY <1>1, BinaryFields DEF Visit, Negate

LEMMA ValueType ==
  ASSUME NEW e \in Expressions, NEW env \in Env
  PROVE  Value(e, env) \in Int
BY EvaluatedDef DEF Value

LEMMA ValueBinary ==
  ASSUME NEW x, NEW y, NEW op \in BinaryOperators, Binary(x, op, y) \in Expressions, NEW env \in Env
  PROVE  Value(Binary(x, op, y), env) = Result(op, Value(x, env), Value(y, env))
<1>1. Value(Binary(x, op, y), env) = Evaluate(Evaluated, Binary(x, op, y))[env]
  BY EvaluatedDef DEF Value
<1>. QED  BY <1>1, BinaryFields DEF Evaluate, Value

LEMMA TestsBinary ==
  ASSUME NEW x, NEW y, NEW op \in BinaryOperators, Binary(x, op, y) \in Expressions, NEW env \in Env
  PROVE  Tests(Binary(x, op, y), env) =
           IF op \notin Junctions THEN <<{x, y}>>
           ELSE IF Value(x, env) # 0 <=> op = "||" THEN Tests(x, env)
           ELSE Tests(x, env) \o Tests(y, env)
<1>. DEFINE e == Binary(x, op, y)
<1>1. Tests(e, env) = Test(Tested, e)[env]
  BY TestedDef DEF Tests
<1>2. e.op = op /\ e.first = x /\ e.second = y
  BY BinaryFields
<1>. HIDE DEF e
<1>3. Test(Tested, e)[env] =
        IF e.op \notin Junctions THEN <<{e.first, e.second}>>
        ELSE IF Value(e.first, env) # 0 <=> e.op = "||" THEN Tested[e.first][env]
        ELSE Tested[e.first][env] \o Tested[e.second][env]
  BY DEF Test
<1>4. Tests(e, env) =
        IF e.op \notin Junctions THEN <<{e.first, e.second}>>
        ELSE IF Value(e.first, env) # 0 <=> e.op = "||" THEN Tests(e.first, env)
        ELSE Tests(e.first, env) \o Tests(e.second, env)
  BY <1>1, <1>3 DEF Tests
<1>5. Tests(e, env) =
        IF op \notin Junctions THEN <<{x, y}>>
        ELSE IF Value(x, env) # 0 <=> op = "||" THEN Tests(x, env)
        ELSE Tests(x, env) \o Tests(y, env)
  BY <1>2, <1>4
<1>. QED  BY <1>5 DEF e

(* A junction in the text makes the jumps of a junction. *)
LEMMA JumpsJunction ==
  ASSUME NEW x, NEW y, NEW op \in Junctions, Binary(x, op, y) \in Expressions
  PROVE  Jumps(Binary(x, op, y)) = Junction(op, Jumps(x), Jumps(y))
<1>. DEFINE e == Binary(x, op, y)
            j == Jumps(x)
            k == Jumps(y)
            Taken == IF op = "||" THEN j.taken \cup k.taken ELSE j.taken \cap k.taken
            TestsOf == [env \in Env |-> IF env \in j.taken <=> op = "||" THEN j.tests[env]
                                       ELSE j.tests[env] \o k.tests[env]]
<1>0. op \in BinaryOperators /\ op \in {"&&", "||"}
  BY DEF BinaryOperators, Junctions
<1>1. /\ j.taken = {env \in Env : Value(x, env) # 0} /\ j.tests = [env \in Env |-> Tests(x, env)]
      /\ k.taken = {env \in Env : Value(y, env) # 0} /\ k.tests = [env \in Env |-> Tests(y, env)]
  BY DEF Jumps
<1>2. ASSUME NEW env \in Env
      PROVE  (Value(e, env) # 0 <=> env \in Taken) /\ Tests(e, env) = TestsOf[env]
  <2>. DEFINE v == Value(x, env)  w == Value(y, env)
  <2>1. Value(e, env) = Result(op, v, w)
    BY <1>0, ValueBinary
  <2>2. Result(op, v, w) # 0 <=> IF op = "||" THEN v # 0 \/ w # 0 ELSE v # 0 /\ w # 0
    BY <1>0 DEF Result, Bool
  <2>3. Tests(e, env) = IF v # 0 <=> op = "||" THEN Tests(x, env) ELSE Tests(x, env) \o Tests(y, env)
    BY <1>0, TestsBinary
  <2>. HIDE DEF e, j, k
  <2>4. Value(e, env) # 0 <=> env \in Taken
    BY <1>1, <2>1, <2>2
  <2>5. env \in j.taken <=> v # 0
    BY <1>1
  <2>6. j.tests[env] = Tests(x, env) /\ k.tests[env] = Tests(y, env)
    BY <1>1
  <2>7. TestsOf[env] = IF env \in j.taken <=> op = "||" THEN j.tests[env]
                       ELSE j.tests[env] \o k.tests[env]
    OBVIOUS
  <2>. HIDE DEF TestsOf, v
  <2>8. CASE v # 0 <=> op = "||"
    BY <2>3, <2>4, <2>5, <2>6, <2>7, <2>8
  <2>9. CASE ~(v # 0 <=> op = "||")
    BY <2>3, <2>4, <2>5, <2>6, <2>7, <2>9
  <2>. QED  BY <2>8, <2>9
<1>3. Taken \subseteq Env
  BY <1>1
<1>4. {env \in Env : Value(e, env) # 0} = Taken
  <2>. HIDE DEF e, Taken
  <2>. QED  BY <1>2, <1>3
<1>5. [env \in Env |-> Tests(e, env)] = TestsOf
  <2>1. TestsOf = [env \in Env |-> TestsOf[env]]
    OBVIOUS
  <2>. HIDE DEF e, TestsOf
  <2>. QED  BY <1>2, <2>1
<1>. QED  BY <1>4, <1>5 DEF Jumps, Junction

(* The law of De Morgan, for what is tested as well. *)
LEMMA DeMorgan ==
  ASSUME NEW op \in Junctions, NEW j, NEW k, j.taken \subseteq Env, k.taken \subseteq Env
  PROVE  Opposite(Junction(op, j, k))
           = Junction(NegateOperation(op), Opposite(j), Opposite(k))
<1>0. op \in {"&&", "||"} /\ NegateOperation(op) = IF op = "||" THEN "&&" ELSE "||"
  BY DEF Junctions, NegateOperation
<1>1. /\ Opposite(j).taken = Env \ j.taken /\ Opposite(j).tests = j.tests
      /\ Opposite(k).taken = Env \ k.taken /\ Opposite(k).tests = k.tests
  BY DEF Opposite
<1>. DEFINE m == NegateOperation(op)
            nj == Opposite(j)
            nk == Opposite(k)
<1>2. Env \ (IF op = "||" THEN j.taken \cup k.taken ELSE j.taken \cap k.taken)
        = IF m = "||" THEN nj.taken \cup nk.taken ELSE nj.taken \cap nk.taken
  <2>. HIDE DEF m, nj, nk
  <2>1. CASE op = "||"
    BY <1>0, <1>1, <2>1 DEF m, nj, nk
  <2>2. CASE op = "&&"
    BY <1>0, <1>1, <2>2 DEF m, nj, nk
  <2>. QED  BY <1>0, <2>1, <2>2
<1>3. ASSUME NEW env \in Env
      PROVE  (env \in j.taken <=> op = "||") <=> (env \in nj.taken <=> m = "||")
  BY <1>0, <1>1
<1>4. [env \in Env |-> IF env \in j.taken <=> op = "||" THEN j.tests[env]
                       ELSE j.tests[env] \o k.tests[env]]
        = [env \in Env |-> IF env \in nj.taken <=> m = "||" THEN nj.tests[env]
                         ELSE nj.tests[env] \o nk.tests[env]]
  <2>. HIDE DEF m, nj, nk
  <2>1. nj.tests = j.tests /\ nk.tests = k.tests
    BY <1>1 DEF nj, nk
  <2>. QED  BY <1>3, <2>1
<1>. QED  BY <1>2, <1>4 DEF Opposite, Junction

LEMMA OppositeTwice ==
  ASSUME NEW e
  PROVE  Opposite(Opposite(Jumps(e))) = Jumps(e)
<1>1. Env \ (Env \ {env \in Env : Value(e, env) # 0}) = {env \in Env : Value(e, env) # 0}
  OBVIOUS
<1>. QED  BY <1>1 DEF Opposite, Jumps

LEMMA JumpsTaken ==
  ASSUME NEW e
  PROVE  Jumps(e).taken \subseteq Env
BY DEF Jumps

(* Negation makes the opposite, and twice nothing at all. *)
Reversible(e) == Negate(Negate(e)) = e /\ Jumps(Negate(e)) = Opposite(Jumps(e))

LEMMA NegateReversible ==
  ASSUME NEW e, Reversible(e)
  PROVE  Reversible(Negate(e))
BY OppositeTwice DEF Reversible

LEMMA JunctionReversible ==
  ASSUME NEW d \in 0 .. Depth, d < Depth, NEW x \in Trees[d], NEW y \in Trees[d],
         NEW op \in Junctions, Reversible(x), Reversible(y)
  PROVE  Reversible(Binary(x, op, y))
<1>. DEFINE e == Binary(x, op, y)
            f == Binary(Negate(x), NegateOperation(op), Negate(y))
<1>1. /\ op \in BinaryOperators
      /\ NegateOperation(op) \in BinaryOperators
      /\ NegateOperation(op) \in Junctions
      /\ NegateOperation(NegateOperation(op)) = op
  BY NegateOperationType DEF BinaryOperators
<1>2. Negate(x) \in Trees[d] /\ Negate(y) \in Trees[d]
  BY NegateType
<1>3. e \in Expressions /\ f \in Expressions
  BY <1>1, <1>2, BinaryLevel
<1>4. Negate(e) = f
  BY <1>1, <1>3, NegateBinary
<1>5. Negate(f) = Binary(Negate(Negate(x)), NegateOperation(NegateOperation(op)), Negate(Negate(y)))
  BY <1>1, <1>3, NegateBinary
<1>6. Jumps(f) = Junction(NegateOperation(op), Opposite(Jumps(x)), Opposite(Jumps(y)))
  BY <1>1, <1>3, JumpsJunction DEF Reversible
<1>7. Jumps(f) = Opposite(Jumps(e))
  BY <1>3, <1>6, DeMorgan, JumpsJunction, JumpsTaken
<1>. QED  BY <1>1, <1>4, <1>5, <1>7 DEF Reversible

(***************************************************************************)
(* The conditions of the front ends: what is compared is left as it is.    *)
(***************************************************************************)
Operand(d) == {x \in Trees[d] : Negate(x) = x}

LEMMA ComparisonReversible ==
  ASSUME NEW d \in 0 .. Depth, d < Depth, NEW x \in Operand(d), NEW y \in Operand(d),
         NEW op \in Comparisons
  PROVE  Binary(x, op, y) \in Trees[d + 1] /\ Reversible(Binary(x, op, y))
<1>. DEFINE e == Binary(x, op, y)
            m == NegateOperation(op)
            f == Binary(x, m, y)
<1>1. /\ op \in BinaryOperators /\ op \notin Junctions
      /\ m \in BinaryOperators /\ m \notin Junctions /\ m \in Comparisons
      /\ NegateOperation(m) = op
  BY NegateOperationType DEF BinaryOperators, Comparisons, Junctions
<1>2. x \in Trees[d] /\ y \in Trees[d] /\ Negate(x) = x /\ Negate(y) = y
  BY DEF Operand
<1>3. e \in Trees[d + 1] /\ e \in Expressions /\ f \in Expressions
  BY <1>1, <1>2, BinaryLevel
<1>4. Negate(e) = f /\ Negate(f) = e
  BY <1>1, <1>2, <1>3, NegateBinary
<1>5. ASSUME NEW env \in Env
      PROVE  (Value(f, env) # 0 <=> ~(Value(e, env) # 0)) /\ Tests(f, env) = Tests(e, env)
  <2>. DEFINE v == Value(x, env)  w == Value(y, env)
  <2>1. v \in Int /\ w \in Int
    BY <1>2, TreesUpward, ValueType
  <2>2. Value(e, env) = Result(op, v, w) /\ Value(f, env) = Result(m, v, w)
    BY <1>1, <1>3, ValueBinary
  <2>3. Tests(e, env) = <<{x, y}>> /\ Tests(f, env) = <<{x, y}>>
    BY <1>1, <1>3, TestsBinary
  <2>. HIDE DEF v, w
  <2>4. Result(m, v, w) # 0 <=> ~(Result(op, v, w) # 0)
    BY <2>1 DEF Result, Bool, Comparisons, NegateOperation
  <2>. QED  BY <2>2, <2>3, <2>4
<1>6. Jumps(f) = Opposite(Jumps(e))
  <2>. HIDE DEF e, f
  <2>1. {env \in Env : Value(f, env) # 0} = Env \ {env \in Env : Value(e, env) # 0}
    BY <1>5
  <2>2. [env \in Env |-> Tests(f, env)] = [env \in Env |-> Tests(e, env)]
    BY <1>5
  <2>. QED  BY <2>1, <2>2 DEF Jumps, Opposite
<1>. QED  BY <1>3, <1>4, <1>6 DEF Reversible

LEMMA OperandUpward ==
  ASSUME NEW d \in 0 .. Depth, d < Depth
  PROVE  Operand(d) \subseteq Operand(d + 1)
<1>1. d + 1 \in 0 .. Depth /\ d + 1 > 0 /\ (d + 1) - 1 = d
  BY DepthType
<1>. QED  BY <1>1, TreesMonotone DEF Operand

LEMMA LeavesOperand ==
  ASSUME NEW e \in Leaves
  PROVE  e \in Operand(0)
<1>1. e \in Trees[0] /\ e \in Expressions
  BY TreesDef, TreesUpward, DepthType
<1>. QED  BY <1>1, VisitedDef, LeafOp DEF Operand, Negate, Visit

LEMMA OperationOperand ==
  ASSUME NEW d \in 0 .. Depth, d < Depth, NEW x \in Operand(d), NEW y \in Operand(d),
         NEW op \in Operations
  PROVE  Binary(x, op, y) \in Operand(d + 1)
<1>1. op \in BinaryOperators /\ NegateOperation(op) = op
  BY NegateOperationType DEF BinaryOperators
<1>2. x \in Trees[d] /\ y \in Trees[d] /\ Negate(x) = x /\ Negate(y) = y
  BY DEF Operand
<1>3. Binary(x, op, y) \in Trees[d + 1] /\ Binary(x, op, y) \in Expressions
  BY <1>1, <1>2, BinaryLevel
<1>. QED  BY <1>1, <1>2, <1>3, NegateBinary DEF Operand

(* The visitor does not go below a unary operator or a ternary. *)
LEMMA UnvisitedOperand ==
  ASSUME NEW d \in 0 .. Depth, d < Depth, NEW c \in Trees[d], NEW x \in Trees[d], NEW y \in Trees[d]
  PROVE  Minus(x) \in Operand(d + 1) /\ Ternary(c, x, y) \in Operand(d + 1)
<1>1. d + 1 \in 0 .. Depth /\ d + 1 # 0 /\ (d + 1) - 1 = d
  BY DepthType
<1>2. Trees[d + 1] = Over(Trees[d])
  BY <1>1, TreesDef
<1>3. Minus(x) \in Trees[d + 1] /\ Ternary(c, x, y) \in Trees[d + 1]
  BY <1>2 DEF Over, Minus, Ternary
<1>4. ~IsBinary(Minus(x)) /\ ~IsBinary(Ternary(c, x, y))
  BY DEF Minus, Ternary, IsBinary, BinaryOperators, Comparisons, Junctions, Operations
<1>5. Minus(x) \in Expressions /\ Ternary(c, x, y) \in Expressions
  BY <1>1, <1>3, TreesUpward
<1>. QED  BY <1>3, <1>4, <1>5, VisitedDef DEF Operand, Negate, Visit

LEMMA ConditionsReversible ==
  ASSUME ~Nested, NEW e \in Conditions \cup Moved
  PROVE  e \in Trees[3] /\ Reversible(e)
<1>. DEFINE a == Leaf("a")
            b == Leaf("b")
            z == Leaf("0")
<1>0. 0 \in 0 .. Depth /\ 1 \in 0 .. Depth /\ 2 \in 0 .. Depth /\ 2 < Depth /\ 1 < Depth /\ 0 < Depth
  BY DEF Depth
<1>1. a \in Operand(0) /\ b \in Operand(0) /\ z \in Operand(0)
  BY LeavesOperand DEF Leaves, Names
<1>. HIDE DEF a, b, z
<1>2. Operand(0) \subseteq Operand(1) /\ Operand(1) \subseteq Operand(2)
  BY <1>0, OperandUpward, 0 + 1 = 1, 1 + 1 = 2
<1>3. \A x \in Operand(2), y \in Operand(2), op \in Comparisons :
        Binary(x, op, y) \in Trees[3] /\ Reversible(Binary(x, op, y))
  BY <1>0, ComparisonReversible, 2 + 1 = 3
<1>4. \A x \in Operand(0), y \in Operand(0), op \in Operations : Binary(x, op, y) \in Operand(1)
  BY <1>0, OperationOperand, 0 + 1 = 1
<1>5. \A x \in Operand(1), y \in Operand(1), op \in Operations : Binary(x, op, y) \in Operand(2)
  BY <1>0, OperationOperand, 1 + 1 = 2
<1>6. "+" \in Operations /\ "-" \in Operations /\ "*" \in Operations /\ "&" \in Operations /\ "xor" \in Operations
  BY DEF Operations
<1>7. "==" \in Comparisons /\ "!=" \in Comparisons /\ "<" \in Comparisons
  BY DEF Comparisons
<1>8. CASE e \in Simple
  <2>1. \/ \E op \in Comparisons, y \in {b, z} : e = Binary(a, op, y)
        \/ \E op \in {"==", "!="} : e = Binary(Binary(a, "+", b), op, z)
    BY <1>8 DEF Simple, a, b, z
  <2>2. Binary(a, "+", b) \in Operand(1)
    BY <1>1, <1>4, <1>6
  <2>. QED  BY <1>1, <1>2, <1>3, <1>7, <2>1, <2>2
<1>9. CASE e \in Moved
  <2>. DEFINE X == {Binary(a, "&", b), Binary(a, "xor", b), Binary(Binary(a, "-", b), "-", a),
                    Binary(a, "-", Binary(b, "-", a)), Binary(a, "*", Binary(b, "+", a)),
                    Minus(Binary(a, "-", b)), Ternary(Binary(a, "<", z), b, a)}
  <2>1. \E op \in {"!=", "<"}, x \in X : e = Binary(x, op, z)
    BY <1>9 DEF Moved, a, b, z
  <2>2. Binary(a, "&", b) \in Operand(2) /\ Binary(a, "xor", b) \in Operand(2)
    BY <1>1, <1>2, <1>4, <1>6
  <2>3. Binary(a, "-", b) \in Operand(1) /\ Binary(b, "-", a) \in Operand(1) /\ Binary(b, "+", a) \in Operand(1)
    BY <1>1, <1>4, <1>6
  <2>4. /\ Binary(Binary(a, "-", b), "-", a) \in Operand(2)
        /\ Binary(a, "-", Binary(b, "-", a)) \in Operand(2)
        /\ Binary(a, "*", Binary(b, "+", a)) \in Operand(2)
    BY <1>1, <1>2, <1>5, <1>6, <2>3
  <2>5. Binary(a, "<", z) \in Trees[1]
    BY <1>0, <1>1, <1>7, BinaryLevel, 0 + 1 = 1 DEF Operand, BinaryOperators
  <2>6. Binary(a, "-", b) \in Trees[1] /\ a \in Trees[1] /\ b \in Trees[1]
    BY <1>1, <1>2, <2>3 DEF Operand
  <2>7. Minus(Binary(a, "-", b)) \in Operand(2) /\ Ternary(Binary(a, "<", z), b, a) \in Operand(2)
    BY <1>0, <2>5, <2>6, UnvisitedOperand, 1 + 1 = 2
  <2>8. X \subseteq Operand(2)
    BY <2>2, <2>4, <2>7
  <2>. HIDE DEF X
  <2>. QED  BY <1>1, <1>2, <1>3, <1>7, <2>1, <2>8
<1>. QED  BY <1>8, <1>9 DEF Conditions

(***************************************************************************)
(* The invariant.                                                          *)
(***************************************************************************)
IInv ==
  /\ folds \in 0 .. MaxTests - 1
  /\ expr \in Trees[folds + 3]
  /\ Reversible(expr)
  /\ ConditionIsFaithful

LEMMA InitIInv == ASSUME ~Nested, Init PROVE IInv
<1>1. folds = 0 /\ 0 \in 0 .. MaxTests - 1 /\ 0 + 3 = 3
  BY DEF Init
<1>2. expr \in Trees[3] /\ Reversible(expr)
  BY ConditionsReversible DEF Init
<1>. QED  BY <1>1, <1>2 DEF IInv, ConditionIsFaithful, Init

(* Another condition is folded into one that already stands for its jumps. *)
LEMMA FoldedFaithful ==
  ASSUME ~Nested, folds \in 0 .. MaxTests - 1, folds < MaxTests - 1,
         NEW e \in Trees[folds + 3], Reversible(e),
         NEW op \in Junctions, NEW c \in Conditions
  PROVE  /\ Binary(e, op, c) \in Trees[folds + 4]
         /\ Reversible(Binary(e, op, c))
         /\ Jumps(Binary(e, op, c)) = Junction(op, Jumps(e), Jumps(c))
<1>. DEFINE d == folds + 3
<1>1. d \in 0 .. Depth /\ d < Depth /\ d + 1 = folds + 4 /\ 3 \in 0 .. Depth /\ 3 <= d
  BY DEF Depth
<1>2. c \in Trees[3] /\ Reversible(c)
  BY ConditionsReversible
<1>3. c \in Trees[d]
  BY <1>1, <1>2, TreesOrdered
<1>4. op \in BinaryOperators
  BY DEF BinaryOperators
<1>. HIDE DEF d
<1>5. Binary(e, op, c) \in Trees[d + 1] /\ Binary(e, op, c) \in Expressions
  <2>1. e \in Trees[d]
    BY DEF d
  <2>. QED  BY <1>1, <1>3, <1>4, <2>1, BinaryLevel
<1>6. Reversible(Binary(e, op, c))
  <2>1. e \in Trees[d]
    BY DEF d
  <2>. QED  BY <1>1, <1>2, <1>3, <2>1, JunctionReversible
<1>7. Jumps(Binary(e, op, c)) = Junction(op, Jumps(e), Jumps(c))
  BY <1>5, JumpsJunction
<1>. QED  BY <1>1, <1>5, <1>6, <1>7

LEMMA NextIInv == ASSUME ~Nested, IInv, [Next]_vars PROVE IInv'
<1>0. folds + 3 \in 0 .. Depth
  BY DEF IInv, Depth
<1>1. Negate(expr) \in Trees[folds + 3] /\ Reversible(Negate(expr))
  BY <1>0, NegateType, NegateReversible DEF IInv
<1>2. Jumps(Negate(expr)) = Opposite(jumps)
  BY DEF IInv, Reversible, ConditionIsFaithful
<1>3. CASE NegateJump
  BY <1>1, <1>2, <1>3 DEF NegateJump, IInv, ConditionIsFaithful, Reversible
<1>4. CASE Collate
  <2>1. PICK op \in Junctions, c \in Conditions :
          expr' = Binary(expr, op, c) /\ jumps' = Junction(op, jumps, Jumps(c))
    BY <1>4 DEF Collate
  <2>2. folds < MaxTests - 1 /\ folds' = folds + 1
    BY <1>4 DEF Collate
  <2>3. folds' \in 0 .. MaxTests - 1 /\ folds' + 3 = folds + 4
    BY <2>2 DEF IInv
  <2>4. /\ expr' \in Trees[folds + 4]
        /\ Reversible(expr')
        /\ Jumps(expr') = jumps'
    BY <2>1, <2>2, FoldedFaithful DEF IInv, ConditionIsFaithful
  <2>. QED  BY <2>3, <2>4 DEF IInv, ConditionIsFaithful, Reversible
<1>5. CASE CollateNegated
  <2>1. PICK op \in Junctions, c \in Conditions :
          expr' = Binary(Negate(expr), op, c) /\ jumps' = Junction(op, Opposite(jumps), Jumps(c))
    BY <1>5 DEF CollateNegated
  <2>2. folds < MaxTests - 1 /\ folds' = folds + 1
    BY <1>5 DEF CollateNegated
  <2>3. folds' \in 0 .. MaxTests - 1 /\ folds' + 3 = folds + 4
    BY <2>2 DEF IInv
  <2>4. /\ expr' \in Trees[folds + 4]
        /\ Reversible(expr')
        /\ Jumps(expr') = jumps'
    BY <1>1, <1>2, <2>1, <2>2, FoldedFaithful DEF IInv
  <2>. QED  BY <2>3, <2>4 DEF IInv, ConditionIsFaithful, Reversible
<1>6. CASE UNCHANGED vars
  BY <1>6 DEF vars, IInv, ConditionIsFaithful, Reversible
<1>. QED  BY <1>3, <1>4, <1>5, <1>6 DEF Next

(***************************************************************************)
(* As long as the operands of comparisons hold no comparisons, after any   *)
(* number of negations and folds the condition holds exactly when the jump *)
(* is to be taken, and evaluates the tests of the original code in their   *)
(* order (CollateExpr::Run, ControlFlowAnalysis::StructureLoops and        *)
(* StructureIfs).                                                          *)
(***************************************************************************)
THEOREM ConditionFaithful == ASSUME ~Nested PROVE Spec => []ConditionIsFaithful
<1>1. Init => IInv
  BY InitIInv
<1>2. IInv /\ [Next]_vars => IInv'
  BY NextIInv
<1>3. IInv => ConditionIsFaithful
  BY DEF IInv
<1>. QED  BY <1>1, <1>2, <1>3, PTL DEF Spec

(***************************************************************************)
(* Under the same condition every negation gives the opposite condition    *)
(* (ExpressionNegationHelper).                                             *)
(***************************************************************************)
THEOREM NegationOpposite == ASSUME ~Nested PROVE Spec => NegationIsOpposite
<1>. DEFINE Step == negated' => \A env \in Env : (Value(expr', env) # 0) # (Value(expr, env) # 0)
<1>1. Init => IInv
  BY InitIInv
<1>2. IInv /\ [Next]_vars => IInv'
  BY NextIInv
<1>3. IInv /\ [Next]_vars => [Step]_vars
  <2>. SUFFICES ASSUME IInv, Next, negated' PROVE Step
    BY DEF vars
  <2>1. NegateJump
    BY DEF Next, Collate, CollateNegated
  <2>2. Jumps(expr').taken = Env \ Jumps(expr).taken
    BY <2>1 DEF NegateJump, IInv, Reversible, Opposite
  <2>3. ASSUME NEW env \in Env PROVE Value(expr', env) # 0 <=> ~(Value(expr, env) # 0)
    BY <2>2 DEF Jumps
  <2>. QED  BY <2>3
<1>. QED  BY <1>1, <1>2, <1>3, PTL DEF Spec, NegationIsOpposite
=============================================================================
