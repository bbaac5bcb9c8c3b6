------------------------------ MODULE DataFlowProofs ------------------------------
(***************************************************************************)
(* For lists of every length, any registers and any number of parameters:  *)
(* the analysis deletes only what lies behind the iterator, the stack of   *)
(* PUSHes holds PUSHes that are still in the list, what Replace makes of   *)
(* mUses is what the operands read, and the list does what it did unless   *)
(* something was moved that should have stayed.                            *)
(***************************************************************************)
EXTENDS DataFlow, Basics, SequenceTheorems, FiniteSetTheorems

Kinds == {"assign", "copy", "call", "store", "push", "pop", "jump"}
Fields == {"type", "operands", "params", "uses", "definitions", "last", "chain", "deleted", "collected"}

(***************************************************************************)
(* What is known of an instruction whatever the analysis does to it.       *)
(***************************************************************************)
IsInstruction(c) ==
  /\ c = [f \in Fields |-> c[f]]
  /\ c.params \in Int /\ c.params >= UnknownCount
  /\ c.uses \subseteq Reg /\ c.definitions \subseteq Reg /\ c.last \subseteq Reg
  /\ c.deleted \in BOOLEAN

(* What comes from the front end. *)
IsNew(c) == IsInstruction(c) /\ c.deleted = FALSE /\ c.chain = {}

(* What the front end makes are instructions, of which none is deleted. *)
LEMMA Made ==
  ASSUME NEW kinds \in SUBSET Kinds, NEW k, NEW c \in Instructions(kinds, k)
  PROVE  IsNew(c)
<1>. DEFINE known == {UnknownCount} \cup 0 .. MaxParams
<1>1. ASSUME NEW type, NEW operands, NEW params \in {UnknownCount} \cup 0 .. MaxParams,
             NEW d, d = Instruction(type, operands, params)
      PROVE  IsNew(d)
  <2>1. \A x : Used(x) \subseteq Reg /\ Defined(x) \subseteq Reg
    BY Zenon DEF Used, Defined, RegistersOf
  <2>2. params \in Int /\ params >= UnknownCount
    BY MaxParamsAssumption DEF UnknownCount
  <2>. DEFINE x == [type |-> type, operands |-> operands]
  <2>3. d = [type |-> type, operands |-> operands, params |-> params,
             uses |-> Used(x), definitions |-> Defined(x),
             last |-> {}, chain |-> {}, deleted |-> FALSE, collected |-> FALSE]
    BY <1>1, Zenon DEF Instruction
  <2>4. Used(x) \subseteq Reg /\ Defined(x) \subseteq Reg
    BY <2>1
  <2>. HIDE DEF x
  <2>. QED  BY <2>2, <2>3, <2>4 DEF IsInstruction, IsNew, Fields
<1>2. 0 \in known
  BY MaxParamsAssumption
<1>3. \A type, operands : \A m \in known : IsNew(Instruction(type, operands, m))
  BY <1>1
<1>. HIDE DEF known
<1>4. \A d, e : \A m \in known : IsNew(Assignment(d, e, m))
  BY <1>3, Zenon DEF Assignment
<1>5. \A a, e : IsNew(Store(a, e))
  BY <1>2, <1>3, Zenon DEF Store
<1>6. \A type, e : IsNew(Unary(type, e))
  BY <1>2, <1>3, Zenon DEF Unary
<1>7. ASSUME NEW kind \in Kinds, c \in Of(kind, k)
      PROVE  IsNew(c)
  <2>1. CASE kind = "assign"
    BY <1>2, <1>4, <1>7, <2>1 DEF Of, known
  <2>2. CASE kind = "copy"
    BY <1>2, <1>4, <1>7, <2>2 DEF Of, known
  <2>3. CASE kind = "call"
    BY <1>2, <1>4, <1>7, <2>3 DEF Of, known
  <2>4. CASE kind = "store"
    BY <1>2, <1>5, <1>7, <2>4 DEF Of, known
  <2>5. CASE kind = "push"
    BY <1>2, <1>6, <1>7, <2>5 DEF Of, known
  <2>6. CASE kind = "pop"
    BY <1>2, <1>6, <1>7, <2>6 DEF Of, known
  <2>7. CASE kind = "jump"
    BY <1>2, <1>6, <1>7, <2>7 DEF Of, known
  <2>. QED  BY <1>7, <2>1, <2>2, <2>3, <2>4, <2>5, <2>6, <2>7 DEF Kinds
<1>. QED  BY <1>7 DEF Instructions

(***************************************************************************)
(* The lists of the first k places, without recursion.                     *)
(***************************************************************************)
Anything(plan) == UNION {Instructions(plan[k], k) : k \in DOMAIN plan}

FirstPlaces(plan, k) ==
  {l \in [1 .. k -> Anything(plan)] : \A m \in 1 .. k : l[m] \in Instructions(plan[m], m)}

(* One more place is one more instruction. *)
LEMMA OneMorePlace ==
  ASSUME NEW plan, NEW k \in Nat \ {0}, k \in DOMAIN plan
  PROVE  FirstPlaces(plan, k) =
           {Append(l, d) : l \in FirstPlaces(plan, k - 1), d \in Instructions(plan[k], k)}
<1>. DEFINE Every == Anything(plan)
            Longer(l, d) == Append(l, d)
            Shorter == FirstPlaces(plan, k - 1)
            Ways == Instructions(plan[k], k)
<1>0. Instructions(plan[k], k) \subseteq Every
  BY DEF Anything
<1>. HIDE DEF Every
<1>1. ASSUME NEW l \in FirstPlaces(plan, k - 1), NEW d \in Instructions(plan[k], k)
      PROVE  Append(l, d) \in FirstPlaces(plan, k)
  <2>1. /\ l \in [1 .. k - 1 -> Every]
        /\ \A m \in 1 .. k - 1 : l[m] \in Instructions(plan[m], m)
    BY DEF FirstPlaces, Every
  <2>2. l \in Seq(Every) /\ Len(l) = k - 1 /\ d \in Every
    BY <1>0, <2>1
  <2>3. Append(l, d) \in [1 .. k -> Every]
    <3>1. Append(l, d) \in Seq(Every) /\ Len(Append(l, d)) = k
      BY <2>2, AppendProperties
    <3>. QED  BY <3>1, LenProperties
  <2>4. \A m \in 1 .. k : Append(l, d)[m] = IF m = k THEN d ELSE l[m]
    BY <2>2
  <2>5. \A m \in 1 .. k : Append(l, d)[m] \in Instructions(plan[m], m)
    BY <2>1, <2>4
  <2>. QED  BY <2>3, <2>5 DEF FirstPlaces, Every
<1>2. ASSUME NEW c \in FirstPlaces(plan, k)
      PROVE  \E l \in FirstPlaces(plan, k - 1), d \in Instructions(plan[k], k) : c = Append(l, d)
  <2>. DEFINE l == [m \in 1 .. k - 1 |-> c[m]]
  <2>1. /\ c \in [1 .. k -> Every]
        /\ \A m \in 1 .. k : c[m] \in Instructions(plan[m], m)
    BY DEF FirstPlaces, Every
  <2>2. l \in [1 .. k - 1 -> Every] /\ \A m \in 1 .. k - 1 : l[m] \in Instructions(plan[m], m)
    BY <2>1
  <2>3. l \in Seq(Every) /\ Len(l) = k - 1 /\ c[k] \in Every
    BY <2>1, <2>2
  <2>4. c = Append(l, c[k])
    BY <2>1, <2>3
  <2>5. l \in FirstPlaces(plan, k - 1)
    BY <2>2 DEF FirstPlaces, Every
  <2>6. c[k] \in Instructions(plan[k], k)
    BY <2>1
  <2>. HIDE DEF l
  <2>. QED  BY <2>4, <2>5, <2>6
<1>3. \A l \in Shorter, d \in Ways : Longer(l, d) \in FirstPlaces(plan, k)
  BY <1>1
<1>4. \A c \in FirstPlaces(plan, k) : \E l \in Shorter, d \in Ways : c = Longer(l, d)
  BY <1>2
<1>5. {Longer(l, d) : l \in Shorter, d \in Ways} = FirstPlaces(plan, k)
  <2>. HIDE DEF Longer, Shorter, Ways
  <2>. QED  BY <1>3, <1>4
<1>. QED  BY <1>5

(* A list from the front end is a list of instructions. *)
LEMMA ListsMade ==
  ASSUME NEW plan \in Plans, NEW c \in InstructionLists(plan)
  PROVE  /\ IsList(c, Len(plan))
         /\ \A k \in 1 .. Len(plan) : c[k] \in Instructions(plan[k], k) /\ IsNew(c[k])
<1>. DEFINE M == Len(plan)
            Longer(S, k) == {Append(l, d) : l \in S, d \in Instructions(plan[k], k)}
            Def(f) == [k \in 0 .. M |-> IF k = 0 THEN {<<>>} ELSE Longer(f[k - 1], k)]
            lists == CHOOSE f : f = Def(f)
            g == [k \in 0 .. M |-> FirstPlaces(plan, k)]
<1>1. M \in Nat /\ DOMAIN plan = 1 .. M /\ \A k \in 1 .. M : plan[k] \in SUBSET Kinds
  BY PlansAssumption DEF Kinds
<1>2. c \in lists[M]
  BY DEF InstructionLists
<1>3. FirstPlaces(plan, 0) = {<<>>}
  <2>1. ASSUME NEW S PROVE [1 .. 0 -> S] = {<<>>}
    <3>1. \A f \in [1 .. 0 -> S] : f = <<>>
      OBVIOUS
    <3>2. <<>> \in [1 .. 0 -> S]
      OBVIOUS
    <3>3. [1 .. 0 -> S] \subseteq {<<>>}
      BY <3>1, SMT
    <3>4. {<<>>} \subseteq [1 .. 0 -> S]
      BY <3>2, SMT
    <3>. QED  BY <3>3, <3>4, Zenon
  <2>. QED  BY <2>1 DEF FirstPlaces
<1>4. ASSUME NEW k \in 1 .. M PROVE FirstPlaces(plan, k) = Longer(FirstPlaces(plan, k - 1), k)
  BY <1>1, OneMorePlace
<1>. HIDE DEF M, Longer
<1>5. g = Def(g)
  BY <1>1, <1>3, <1>4
<1>6. lists = Def(lists)
  BY <1>5
<1>. HIDE DEF lists
<1>7. ASSUME NEW k \in 0 .. M, lists[k] # FirstPlaces(plan, k) PROVE FALSE
  <2>. DEFINE T == {j \in 0 .. M : lists[j] # FirstPlaces(plan, j)}
  <2>0. T \in SUBSET Nat /\ T # {}
    BY <1>1, <1>7
  <2>1. PICK j \in T : \A i \in T : j <= i
    BY <2>0, LeastNumber, Zenon
  <2>2. j # 0
    BY <1>1, <1>3, <1>6, <2>1
  <2>3. j - 1 \in 0 .. M /\ j - 1 \notin T
    BY <1>1, <2>1, <2>2
  <2>4. lists[j - 1] = FirstPlaces(plan, j - 1)
    BY <2>3
  <2>5. lists[j] = Longer(lists[j - 1], j)
    BY <1>1, <1>6, <2>1, <2>2
  <2>. QED  BY <1>1, <1>4, <2>1, <2>2, <2>4, <2>5
<1>8. c \in FirstPlaces(plan, M)
  BY <1>1, <1>2, <1>7
<1>9. IsList(c, M) /\ \A k \in 1 .. M : c[k] \in Instructions(plan[k], k)
  BY <1>1, <1>8 DEF FirstPlaces, IsList
<1>. QED  BY <1>1, <1>9, Made DEF M

-----------------------------------------------------------------------------
(***************************************************************************)
(* The list is one of instructions.                                        *)
(***************************************************************************)
ListInv ==
  /\ Len(code) \in Nat
  /\ IsList(code, Len(code))
  /\ \A k \in 1 .. Len(code) : IsInstruction(code[k])

(***************************************************************************)
(* What is on the stack lies behind the item, and before the analysis      *)
(* nothing is deleted.                                                     *)
(***************************************************************************)
BehindInv ==
  /\ \A j \in DOMAIN stack : stack[j] < item
  /\ phase = "chains" => stack = <<>> /\ \A k \in Item : ~code[k].deleted

IInv == ListInv /\ TypeOK /\ StackIsLive /\ BehindInv

(***************************************************************************)
(* What a step may do to the list: delete the instructions of gone, and    *)
(* change any of them, but for its type.                                   *)
(***************************************************************************)
Keeps(d, gone) ==
  /\ IsList(d, Len(code))
  /\ \A k \in Item :
       /\ IsInstruction(d[k])
       /\ d[k].type = code[k].type
       /\ d[k].chain \subseteq Reg \X Item
       /\ d[k].deleted => code[k].deleted \/ k \in gone

LEMMA ItemIs ==
  ASSUME ListInv
  PROVE  Item = 1 .. Len(code)
BY ListLength DEF ListInv, Item

LEMMA InitInv ==
  ASSUME Init
  PROVE  IInv
<1>1. PICK plan \in Plans : code \in InstructionLists(plan)
  BY DEF Init
<1>. DEFINE M == Len(plan)
<1>2. M \in Nat
  BY PlansAssumption
<1>3. IsList(code, M) /\ \A k \in 1 .. M : IsNew(code[k])
  BY <1>1, ListsMade
<1>. HIDE DEF M
<1>4. Len(code) = M /\ Item = 1 .. M
  BY <1>2, <1>3, ListLength DEF Item
<1>5. ListInv
  BY <1>2, <1>3, <1>4 DEF ListInv, IsNew
<1>6. TypeOK
  <2>1. item \in 1 .. Len(code) + 1
    BY <1>2, <1>4 DEF Init
  <2>2. cut \in Item /\ careless \in BOOLEAN
    BY Zenon DEF Init
  <2>3. stack \in Seq(Item) /\ phase = "chains"
    BY DEF Init
  <2>4. \A k \in Item : IsInstruction(code[k]) /\ code[k].deleted = FALSE /\ code[k].chain = {}
    BY <1>3, <1>4 DEF IsNew
  <2>. QED  BY <2>1, <2>2, <2>3, <2>4 DEF TypeOK, IsInstruction
<1>7. StackIsLive /\ BehindInv
  BY <1>3, <1>4 DEF Init, StackIsLive, BehindInv, IsNew
<1>. QED  BY <1>5, <1>6, <1>7 DEF IInv

(* A list that is kept is one of instructions of the same length. *)
LEMMA KeptList ==
  ASSUME ListInv, NEW gone, Keeps(code', gone)
  PROVE  ListInv' /\ Len(code') = Len(code) /\ Item' = Item
<1>1. Len(code') = Len(code) /\ DOMAIN code' = 1 .. Len(code)
  BY ListLength DEF ListInv, Keeps
<1>2. Item' = Item /\ Item = 1 .. Len(code)
  BY <1>1, ItemIs DEF Item
<1>3. ListInv'
  BY <1>1, <1>2 DEF ListInv, Keeps
<1>. QED  BY <1>1, <1>2, <1>3

(* A list that nothing is done to is kept. *)
LEMMA SameList ==
  ASSUME ListInv, TypeOK, code' = code
  PROVE  Keeps(code', {})
BY ItemIs DEF ListInv, TypeOK, Keeps

(***************************************************************************)
(* A step that keeps the list and of the stack all that it does not delete *)
(* keeps the invariant, if what it deletes is behind the next item.        *)
(***************************************************************************)
LEMMA KeptInv ==
  ASSUME IInv, NEW gone, Keeps(code', gone),
         phase # "chains",
         item' \in Nat, item <= item', item' <= Len(code) + 1,
         \A k \in Item : k \in gone => k < item',
         phase' \in {"definitions", "parameters", "instruction", "done"},
         careless' \in BOOLEAN, cut' = cut,
         stack' \in Seq(Item),
         \A j \in DOMAIN stack' :
           /\ stack'[j] < item' /\ stack'[j] \notin gone
           /\ code[stack'[j]].type = "push" /\ ~code[stack'[j]].deleted
           /\ \A l \in 1 .. j - 1 : stack'[l] > stack'[j]
  PROVE  IInv'
<1>1. ListInv' /\ Len(code') = Len(code) /\ Item' = Item /\ Item = 1 .. Len(code)
  BY KeptList, ItemIs DEF IInv
<1>2. Len(code) \in Nat /\ item \in 1 .. Len(code) + 1 /\ cut \in Item
  BY DEF IInv, ListInv, TypeOK
<1>3. TypeOK'
  <2>1. (item \in 1 .. Len(code) + 1)' /\ (cut \in Item)' /\ (careless \in BOOLEAN)'
    BY <1>1, <1>2
  <2>2. (stack \in Seq(Item))' /\ (phase \in {"chains", "definitions", "parameters", "instruction", "done"})'
    BY <1>1
  <2>3. ASSUME NEW k \in Item
        PROVE  /\ code'[k].definitions \subseteq Reg /\ code'[k].uses \subseteq Reg
               /\ code'[k].last \subseteq Reg
               /\ code'[k].deleted => k < item'
               /\ code'[k].chain \subseteq Reg \X Item
    <3>1. IsInstruction(code'[k]) /\ code'[k].chain \subseteq Reg \X Item
      BY DEF Keeps
    <3>2. code'[k].deleted => code[k].deleted \/ k \in gone
      BY DEF Keeps
    <3>3. code[k].deleted => k < item
      BY DEF IInv, TypeOK
    <3>4. code'[k].deleted => k < item'
      BY <1>1, <1>2, <3>2, <3>3
    <3>. QED  BY <3>1, <3>4, Zenon DEF IsInstruction
  <2>. QED  BY <1>1, <2>1, <2>2, <2>3 DEF TypeOK
<1>4. StackIsLive'
  <2>1. ASSUME NEW j \in DOMAIN stack'
        PROVE  code'[stack'[j]].type = "push" /\ ~code'[stack'[j]].deleted
    <3>1. stack'[j] \in Item
      BY ElementOfSeq, LenProperties
    <3>. QED  BY <3>1 DEF Keeps
  <2>. QED  BY <2>1 DEF StackIsLive
<1>5. BehindInv'
  BY DEF BehindInv
<1>. QED  BY <1>1, <1>3, <1>4, <1>5 DEF IInv

(* Changing one instruction keeps the list. *)
LEMMA OneChanged ==
  ASSUME ListInv, TypeOK, NEW i \in Item, NEW x, NEW gone,
         code' = [code EXCEPT ![i] = x],
         IsInstruction(x), x.type = code[i].type,
         x.chain \subseteq Reg \X Item,
         x.deleted => code[i].deleted \/ i \in gone
  PROVE  Keeps(code', gone)
<1>1. Item = 1 .. Len(code) /\ IsList(code, Len(code))
  BY ItemIs DEF ListInv
<1>2. IsList(code', Len(code))
  BY <1>1 DEF IsList
<1>3. \A k \in Item : code'[k] = IF k = i THEN x ELSE code[k]
  BY <1>1 DEF IsList
<1>4. \A k \in Item : IsInstruction(code[k]) /\ code[k].chain \subseteq Reg \X Item
  BY <1>1 DEF ListInv, TypeOK
<1>. QED  BY <1>2, <1>3, <1>4 DEF Keeps

LEMMA FindChainsInv ==
  ASSUME IInv, FindChains
  PROVE  IInv'
<1>. DEFINE c == code[item]
            chain == {u \in c.definitions \X Item :
                        u[2] \in Reached(item, u[1]) /\ u[1] \in code[u[2]].uses}
            last == {r \in c.definitions :
                       \A j \in item + 1 .. EndOfNode(item) : r \notin code[j].definitions}
            x == [c EXCEPT !.chain = chain, !.last = last]
<1>1. /\ phase = "chains" /\ item \in Item
      /\ code' = [code EXCEPT ![item].chain = chain, ![item].last = last]
      /\ item' = item + 1
      /\ UNCHANGED <<cut, stack, phase, careless>>
  BY Zenon DEF FindChains
<1>2. /\ Item = 1 .. Len(code) /\ Len(code) \in Nat
      /\ IsInstruction(c) /\ c.chain \subseteq Reg \X Item /\ ~c.deleted
  BY <1>1, ItemIs DEF IInv, ListInv, TypeOK, BehindInv
<1>3. last \subseteq Reg /\ chain \subseteq Reg \X Item
  BY <1>2 DEF IsInstruction
<1>. HIDE DEF chain, last, c
<1>4. code' = [code EXCEPT ![item] = x]
  BY <1>1 DEF c
<1>5. /\ IsInstruction(x) /\ x.type = c.type /\ x.chain = chain /\ x.deleted = c.deleted
  BY <1>2, <1>3 DEF IsInstruction, Fields
<1>. HIDE DEF x
<1>6. Keeps(code', {})
  BY <1>1, <1>3, <1>4, <1>5, OneChanged DEF IInv, c
<1>7. ListInv' /\ Len(code') = Len(code) /\ Item' = Item
  BY <1>6, KeptList DEF IInv
<1>8. stack = <<>> /\ \A k \in Item : ~code'[k].deleted
  BY <1>1, <1>6 DEF IInv, BehindInv, Keeps
<1>9. TypeOK'
  <2>1. (item \in 1 .. Len(code) + 1)' /\ (cut \in Item)' /\ (careless \in BOOLEAN)'
    BY <1>1, <1>2, <1>7 DEF IInv, TypeOK
  <2>2. (stack \in Seq(Item))' /\ phase' = "chains"
    BY <1>1, <1>8
  <2>. QED  BY <1>6, <1>7, <1>8, <2>1, <2>2 DEF TypeOK, Keeps, IsInstruction
<1>10. StackIsLive' /\ BehindInv'
  <2>1. stack' = <<>> /\ DOMAIN stack' = {}
    BY <1>1, <1>8
  <2>. QED  BY <1>7, <1>8, <2>1, Zenon DEF StackIsLive, BehindInv
<1>. QED  BY <1>7, <1>9, <1>10 DEF IInv

LEMMA AnalyzeInv ==
  ASSUME IInv, AnalyzeNodeList
  PROVE  IInv'
<1>1. /\ phase = "chains" /\ item' = 1 /\ phase' = "definitions"
      /\ UNCHANGED <<code, cut, stack, careless>>
  BY Zenon DEF AnalyzeNodeList
<1>2. ListInv' /\ Len(code') = Len(code) /\ Item' = Item
  BY <1>1, KeptList, SameList DEF IInv
<1>3. stack = <<>> /\ \A k \in Item : ~code[k].deleted
  BY <1>1 DEF IInv, BehindInv
<1>4. TypeOK'
  <2>1. (item \in 1 .. Len(code) + 1)' /\ (cut \in Item)' /\ (careless \in BOOLEAN)'
    BY <1>1, <1>2 DEF IInv, ListInv, TypeOK
  <2>2. (stack \in Seq(Item))' /\ phase' = "definitions"
    BY <1>1, <1>3
  <2>. QED  BY <1>1, <1>2, <1>3, <2>1, <2>2 DEF IInv, TypeOK
<1>5. StackIsLive' /\ BehindInv'
  BY <1>1, <1>3 DEF StackIsLive, BehindInv
<1>. QED  BY <1>2, <1>4, <1>5 DEF IInv

-----------------------------------------------------------------------------
LEMMA AtItemIs ==
  ASSUME IInv, NEW p, AtItem(p)
  PROVE  /\ phase = p /\ item \in Item /\ Item = 1 .. Len(code) /\ Len(code) \in Nat
         /\ item \in Nat /\ item <= Len(code)
         /\ IsInstruction(code[item]) /\ code[item].chain \subseteq Reg \X Item
         /\ ~code[item].deleted
         /\ stack \in Seq(Item) /\ careless \in BOOLEAN
<1>1. phase = p /\ item \in Item /\ ~code[item].deleted
  BY DEF AtItem
<1>2. Item = 1 .. Len(code) /\ Len(code) \in Nat
  BY ItemIs DEF IInv, ListInv
<1>. QED  BY <1>1, <1>2 DEF IInv, ListInv, TypeOK

(* The stack as it is goes with a step that deletes what is not on it. *)
LEMMA StackKept ==
  ASSUME IInv, NEW gone, gone \cap {stack[j] : j \in DOMAIN stack} = {},
         item' \in Nat, item <= item', UNCHANGED stack
  PROVE  \A j \in DOMAIN stack' :
           /\ stack'[j] < item' /\ stack'[j] \notin gone
           /\ code[stack'[j]].type = "push" /\ ~code[stack'[j]].deleted
           /\ \A l \in 1 .. j - 1 : stack'[l] > stack'[j]
<1>. SUFFICES ASSUME NEW j \in DOMAIN stack
              PROVE  /\ stack[j] < item' /\ stack[j] \notin gone
                     /\ code[stack[j]].type = "push" /\ ~code[stack[j]].deleted
                     /\ \A l \in 1 .. j - 1 : stack[l] > stack[j]
  BY Zenon
<1>1. stack[j] \in Item /\ Item = 1 .. Len(code) /\ Len(code) \in Nat /\ item \in Nat
  BY ItemIs, ElementOfSeq, LenProperties DEF IInv, ListInv, TypeOK
<1>2. stack[j] < item
  BY DEF IInv, BehindInv
<1>3. stack[j] < item'
  BY <1>1, <1>2
<1>4. stack[j] \notin gone
  OBVIOUS
<1>. QED  BY <1>3, <1>4, Zenon DEF IInv, StackIsLive

(* What lies at the item is not on the stack. *)
LEMMA ItemNotOnStack ==
  ASSUME IInv, item \in Nat
  PROVE  {item} \cap {stack[j] : j \in DOMAIN stack} = {}
BY DEF IInv, BehindInv

LEMMA RemoveInstructionInv ==
  ASSUME IInv, RemoveInstruction
  PROVE  IInv'
<1>. DEFINE c == code[item]
            x == [c EXCEPT !.operands = [c.operands EXCEPT ![1] = Leaf(Dummy)],
                           !.definitions = {}, !.deleted = TRUE]
<1>1. /\ AtItem("definitions")
      /\ code' = [code EXCEPT ![item].operands[1] = Leaf(Dummy),
                              ![item].definitions = {}, ![item].deleted = TRUE]
      /\ careless' = (careless \/ HasCall(code[item].operands[2]))
      /\ item' = item + 1
      /\ UNCHANGED <<cut, stack, phase>>
  BY Zenon DEF RemoveInstruction
<1>2. code' = [code EXCEPT ![item] = x]
  BY <1>1
<1>3. /\ phase = "definitions" /\ item \in Item /\ Item = 1 .. Len(code) /\ Len(code) \in Nat
      /\ item \in Nat /\ item <= Len(code)
      /\ IsInstruction(c) /\ c.chain \subseteq Reg \X Item
      /\ stack \in Seq(Item) /\ careless \in BOOLEAN
  BY <1>1, AtItemIs
<1>. HIDE DEF c
<1>4. IsInstruction(x) /\ x.type = c.type /\ x.chain = c.chain
  BY <1>3 DEF IsInstruction, Fields
<1>. HIDE DEF x
<1>5. Keeps(code', {item})
  BY <1>2, <1>3, <1>4, OneChanged DEF IInv, c
<1>6. careless' \in BOOLEAN
  BY <1>1, Zenon
<1>7. item' \in Nat /\ item <= item' /\ item' <= Len(code) + 1 /\ item < item'
  BY <1>1, <1>3
<1>8. stack' \in Seq(Item) /\ phase' = "definitions"
  BY <1>1, <1>3
<1>9. \A k \in Item : k \in {item} => k < item'
  BY <1>7
<1>10. {item} \cap {stack[j] : j \in DOMAIN stack} = {}
  BY <1>3, ItemNotOnStack
<1>. DEFINE gone == {item}
<1>. HIDE DEF gone
<1>. QED  BY <1>1, <1>3, <1>5, <1>6, <1>7, <1>8, <1>9, <1>10, KeptInv, StackKept DEF gone

LEMMA RemoveDefinitionInv ==
  ASSUME IInv, RemoveDefinition
  PROVE  IInv'
<1>. DEFINE c == code[item]
            x == [c EXCEPT !.operands = [c.operands EXCEPT ![1] = Leaf(Dummy)], !.definitions = {}]
<1>1. /\ AtItem("definitions")
      /\ code' = [code EXCEPT ![item].operands[1] = Leaf(Dummy), ![item].definitions = {}]
      /\ phase' = "parameters"
      /\ UNCHANGED <<cut, item, stack, careless>>
  BY Zenon DEF RemoveDefinition
<1>2. code' = [code EXCEPT ![item] = x]
  BY <1>1
<1>3. /\ phase = "definitions" /\ item \in Item /\ Item = 1 .. Len(code) /\ Len(code) \in Nat
      /\ item \in Nat /\ item <= Len(code)
      /\ IsInstruction(c) /\ c.chain \subseteq Reg \X Item
      /\ stack \in Seq(Item) /\ careless \in BOOLEAN
  BY <1>1, AtItemIs
<1>. HIDE DEF c
<1>4. IsInstruction(x) /\ x.type = c.type /\ x.chain = c.chain /\ x.deleted = c.deleted
  BY <1>3 DEF IsInstruction, Fields
<1>. HIDE DEF x
<1>5. Keeps(code', {})
  BY <1>2, <1>3, <1>4, OneChanged DEF IInv, c
<1>6. item' \in Nat /\ item <= item' /\ item' <= Len(code) + 1
  BY <1>1, <1>3
<1>7. stack' \in Seq(Item) /\ careless' \in BOOLEAN
  BY <1>1, <1>3
<1>. DEFINE gone == {}
<1>0. /\ \A k \in Item : k \in gone => k < item'
      /\ gone \cap {stack[j] : j \in DOMAIN stack} = {}
      /\ \A j \in DOMAIN stack' : stack'[j] \notin gone
  OBVIOUS
<1>. HIDE DEF gone
<1>. QED  BY <1>0, <1>1, <1>3, <1>5, <1>6, <1>7, KeptInv, StackKept DEF gone

(***************************************************************************)
(* Steps that go on and leave the list and the stack alone.                *)
(***************************************************************************)
LEMMA GoOnInv ==
  ASSUME IInv, phase # "chains",
         \/ item' = item
         \/ item \in Item /\ item' = item + 1,
         phase' \in {"definitions", "parameters", "instruction", "done"},
         UNCHANGED <<code, cut, stack, careless>>
  PROVE  IInv'
<1>1. Keeps(code', {})
  BY SameList DEF IInv
<1>2. Item = 1 .. Len(code) /\ Len(code) \in Nat /\ item \in 1 .. Len(code) + 1
  BY ItemIs DEF IInv, ListInv, TypeOK
<1>3. item' \in Nat /\ item <= item' /\ item' <= Len(code) + 1
  BY <1>2
<1>4. stack' \in Seq(Item) /\ careless' \in BOOLEAN
  BY DEF IInv, TypeOK
<1>. DEFINE gone == {}
<1>0. /\ \A k \in Item : k \in gone => k < item'
      /\ gone \cap {stack[j] : j \in DOMAIN stack} = {}
      /\ \A j \in DOMAIN stack' : stack'[j] \notin gone
  OBVIOUS
<1>. HIDE DEF gone
<1>. QED  BY <1>0, <1>1, <1>3, <1>4, KeptInv, StackKept DEF gone

LEMMA OnPushInv ==
  ASSUME IInv, OnPush
  PROVE  IInv'
<1>1. /\ AtItem("instruction") /\ code[item].type = "push"
      /\ stack' = <<item>> \o stack
      /\ item' = item + 1 /\ phase' = "definitions"
      /\ UNCHANGED <<code, cut, careless>>
  BY Zenon DEF OnPush
<1>2. /\ phase = "instruction" /\ item \in Item /\ Item = 1 .. Len(code) /\ Len(code) \in Nat
      /\ item \in Nat /\ item <= Len(code) /\ ~code[item].deleted
      /\ stack \in Seq(Item) /\ careless \in BOOLEAN
  BY <1>1, AtItemIs
<1>3. Keeps(code', {})
  BY <1>1, SameList DEF IInv
<1>4. /\ stack' \in Seq(Item)
      /\ Len(stack') = Len(stack) + 1 /\ Len(stack) \in Nat
      /\ \A j \in 1 .. Len(stack) + 1 : stack'[j] = IF j = 1 THEN item ELSE stack[j - 1]
  BY <1>1, <1>2
<1>5. \A j \in 1 .. Len(stack) :
        /\ stack[j] \in Item /\ stack[j] < item
        /\ code[stack[j]].type = "push" /\ ~code[stack[j]].deleted
        /\ \A l \in 1 .. j - 1 : stack[l] > stack[j]
  BY <1>2, ElementOfSeq, LenProperties DEF IInv, BehindInv, StackIsLive
<1>6. DOMAIN stack' = 1 .. Len(stack) + 1
  BY <1>4
<1>7. ASSUME NEW j \in 1 .. Len(stack) + 1
      PROVE  /\ stack'[j] < item'
             /\ code[stack'[j]].type = "push" /\ ~code[stack'[j]].deleted
             /\ \A l \in 1 .. j - 1 : stack'[l] > stack'[j]
  <2>1. CASE j = 1
    BY <1>1, <1>2, <1>4, <2>1
  <2>2. CASE j # 1
    <3>1. j - 1 \in 1 .. Len(stack) /\ stack'[j] = stack[j - 1]
      BY <1>4, <2>2
    <3>2. /\ stack'[j] \in Item /\ stack'[j] < item
          /\ code[stack'[j]].type = "push" /\ ~code[stack'[j]].deleted
      BY <1>5, <3>1
    <3>3. \A l \in 1 .. j - 1 : stack'[l] > stack'[j]
      <4>. SUFFICES ASSUME NEW l \in 1 .. j - 1 PROVE stack'[l] > stack'[j]
        OBVIOUS
      <4>1. CASE l = 1
        BY <1>2, <1>4, <3>2, <4>1
      <4>2. CASE l # 1
        <5>1. l - 1 \in 1 .. (j - 1) - 1 /\ stack'[l] = stack[l - 1]
          BY <1>4, <4>2
        <5>. QED  BY <1>5, <3>1, <5>1
      <4>. QED  BY <4>1, <4>2
    <3>. QED  BY <1>1, <1>2, <3>2, <3>3
  <2>. QED  BY <2>1, <2>2
<1>8. item' \in Nat /\ item <= item' /\ item' <= Len(code) + 1
  BY <1>1, <1>2
<1>. DEFINE gone == {}
<1>0. /\ \A k \in Item : k \in gone => k < item'
      /\ gone \cap {stack[j] : j \in DOMAIN stack} = {}
      /\ \A j \in DOMAIN stack' : stack'[j] \notin gone
  OBVIOUS
<1>. HIDE DEF gone
<1>. QED  BY <1>0, <1>1, <1>2, <1>3, <1>4, <1>6, <1>7, <1>8, KeptInv DEF gone

LEMMA OnPopInv ==
  ASSUME IInv, OnPop
  PROVE  IInv'
<1>1. /\ AtItem("instruction")
      /\ stack' = IF stack = <<>> THEN stack ELSE Tail(stack)
      /\ item' = item + 1 /\ phase' = "definitions"
      /\ UNCHANGED <<code, cut, careless>>
  BY Zenon DEF OnPop
<1>2. /\ phase = "instruction" /\ item \in Item /\ Item = 1 .. Len(code) /\ Len(code) \in Nat
      /\ item \in Nat /\ item <= Len(code)
      /\ stack \in Seq(Item) /\ careless \in BOOLEAN
  BY <1>1, AtItemIs
<1>. DEFINE gone == {}
<1>3. /\ \A k \in Item : k \in gone => k < item'
      /\ \A j \in DOMAIN stack' : stack'[j] \notin gone
      /\ gone \cap {stack[j] : j \in DOMAIN stack} = {}
  OBVIOUS
<1>. HIDE DEF gone
<1>4. Keeps(code', gone)
  BY <1>1, SameList DEF IInv, gone
<1>5. item' \in Nat /\ item <= item' /\ item' <= Len(code) + 1
  BY <1>1, <1>2
<1>6. CASE stack = <<>>
  <2>1. UNCHANGED stack
    BY <1>1, <1>6
  <2>. QED  BY <1>1, <1>2, <1>3, <1>4, <1>5, <2>1, KeptInv, StackKept
<1>7. CASE stack # <<>>
  <2>1. /\ stack' \in Seq(Item)
        /\ Len(stack) \in Nat \ {0} /\ Len(stack') = Len(stack) - 1
        /\ \A j \in 1 .. Len(stack) - 1 : stack'[j] = stack[j + 1]
    BY <1>1, <1>2, <1>7
  <2>2. \A j \in 1 .. Len(stack) :
          /\ stack[j] \in Item /\ stack[j] < item
          /\ code[stack[j]].type = "push" /\ ~code[stack[j]].deleted
          /\ \A l \in 1 .. j - 1 : stack[l] > stack[j]
    BY <1>2, ElementOfSeq, LenProperties DEF IInv, BehindInv, StackIsLive
  <2>3. DOMAIN stack' = 1 .. Len(stack) - 1
    BY <2>1
  <2>4. ASSUME NEW j \in 1 .. Len(stack) - 1
        PROVE  /\ stack'[j] < item'
               /\ code[stack'[j]].type = "push" /\ ~code[stack'[j]].deleted
               /\ \A l \in 1 .. j - 1 : stack'[l] > stack'[j]
    <3>1. j + 1 \in 1 .. Len(stack) /\ stack'[j] = stack[j + 1]
      BY <2>1
    <3>2. /\ stack'[j] \in Item /\ stack'[j] < item
          /\ code[stack'[j]].type = "push" /\ ~code[stack'[j]].deleted
      BY <2>2, <3>1
    <3>3. ASSUME NEW l \in 1 .. j - 1 PROVE stack'[l] > stack'[j]
      <4>1. l + 1 \in 1 .. (j + 1) - 1 /\ stack'[l] = stack[l + 1]
        BY <2>1
      <4>. QED  BY <2>2, <3>1, <4>1
    <3>. QED  BY <1>1, <1>2, <3>2, <3>3
  <2>. QED  BY <1>1, <1>2, <1>3, <1>4, <1>5, <2>1, <2>3, <2>4, KeptInv
<1>. QED  BY <1>6, <1>7

LEMMA CollectParametersInv ==
  ASSUME IInv, CollectParameters
  PROVE  IInv'
<1>. DEFINE m == ParametersTaken(code[item].params, Len(stack))
            taken == {stack[j] : j \in 1 .. m}
            pushed(k) == code[k].operands[1]
            call(c) == IF m = 0 THEN c ELSE Apply(c[<<>>], [j \in 1 .. m |-> pushed(stack[j])])
            x(c) == [c EXCEPT !.collected = TRUE, !.operands[2] = call(@)]
            y(c, k) == [c EXCEPT !.deleted = @ \/ k \in taken]
<1>1. /\ AtItem("parameters")
      /\ code' = [k \in Item |-> IF k = item THEN x(code[k]) ELSE y(code[k], k)]
      /\ stack' = SubSeq(stack, m + 1, Len(stack))
      /\ careless' = (careless \/ CollectingIsCareless(taken))
      /\ phase' = "instruction"
      /\ UNCHANGED <<cut, item>>
  BY Zenon DEF CollectParameters
<1>2. /\ phase = "parameters" /\ item \in Item /\ Item = 1 .. Len(code) /\ Len(code) \in Nat
      /\ item \in Nat /\ item <= Len(code)
      /\ stack \in Seq(Item) /\ Len(stack) \in Nat
      /\ IsInstruction(code[item])
  BY <1>1, AtItemIs, LenProperties
<1>3. m \in 0 .. Len(stack)
  BY <1>2 DEF ParametersTaken, UnknownCount, IsInstruction
<1>4. \A k \in Item : IsInstruction(code[k]) /\ code[k].chain \subseteq Reg \X Item
  BY <1>2 DEF IInv, ListInv, TypeOK
<1>5. \A j \in 1 .. Len(stack) :
        /\ stack[j] \in Item /\ stack[j] < item
        /\ code[stack[j]].type = "push" /\ ~code[stack[j]].deleted
        /\ \A l \in 1 .. j - 1 : stack[l] > stack[j]
  BY <1>2, ElementOfSeq, LenProperties DEF IInv, BehindInv, StackIsLive
<1>. HIDE DEF m, call, taken
<1>6. Keeps(code', taken)
  <2>1. IsList(code', Len(code)) /\ DOMAIN code' = Item
    BY <1>1, <1>2 DEF IsList
  <2>2. ASSUME NEW k \in Item
        PROVE  /\ IsInstruction(code'[k]) /\ code'[k].type = code[k].type
               /\ code'[k].chain \subseteq Reg \X Item
               /\ code'[k].deleted => code[k].deleted \/ k \in taken
    <3>1. IsInstruction(code[k]) /\ code[k].chain \subseteq Reg \X Item
      BY <1>4
    <3>2. CASE k = item
      BY <1>1, <3>1, <3>2 DEF IsInstruction, Fields
    <3>3. CASE k # item
      BY <1>1, <3>1, <3>3 DEF IsInstruction, Fields
    <3>. QED  BY <3>2, <3>3
  <2>. QED  BY <2>1, <2>2 DEF Keeps
<1>7. /\ stack' \in Seq(Item) /\ Len(stack') = Len(stack) - m
      /\ \A j \in 1 .. Len(stack) - m : stack'[j] = stack[m + j]
  <2>1. stack' = SubSeq(stack, m + 1, Len(stack))
    BY <1>1, Zenon
  <2>2. m + 1 \in 1 .. Len(stack) + 1 /\ Len(stack) \in m .. Len(stack)
    BY <1>2, <1>3
  <2>. QED  BY <1>2, <1>3, <2>1, <2>2, SubSeqProperties
<1>8. ASSUME NEW j \in 1 .. Len(stack) - m
      PROVE  /\ stack'[j] < item /\ stack'[j] \notin taken
             /\ code[stack'[j]].type = "push" /\ ~code[stack'[j]].deleted
             /\ \A l \in 1 .. j - 1 : stack'[l] > stack'[j]
  <2>1. m + j \in 1 .. Len(stack) /\ stack'[j] = stack[m + j]
    BY <1>2, <1>3, <1>7
  <2>2. \A l \in 1 .. (m + j) - 1 : stack[l] > stack[m + j]
    BY <1>5, <2>1
  <2>3. stack[m + j] \notin taken
    <3>1. ASSUME NEW l \in 1 .. m PROVE stack[l] # stack[m + j]
      <4>1. l \in 1 .. (m + j) - 1 /\ l \in 1 .. Len(stack)
        BY <1>2, <1>3
      <4>. QED  BY <1>2, <1>5, <2>1, <2>2, <4>1
    <3>. QED  BY <3>1 DEF taken
  <2>4. ASSUME NEW l \in 1 .. j - 1 PROVE stack'[l] > stack'[j]
    <3>1. m + l \in 1 .. (m + j) - 1 /\ l \in 1 .. Len(stack) - m
      BY <1>2, <1>3
    <3>2. stack'[l] = stack[m + l]
      BY <1>7, <3>1
    <3>. QED  BY <2>1, <2>2, <3>1, <3>2
  <2>. QED  BY <1>5, <2>1, <2>3, <2>4
<1>9. \A k \in Item : k \in taken => k < item
  <2>1. \A l \in 1 .. m : stack[l] < item
    BY <1>2, <1>3, <1>5
  <2>. QED  BY <2>1 DEF taken
<1>10. DOMAIN stack' = 1 .. Len(stack) - m
  BY <1>7
<1>11. careless' \in BOOLEAN
  BY <1>1, Zenon
<1>12. item' \in Nat /\ item <= item' /\ item' <= Len(code) + 1 /\ item' = item
  <2>1. item' = item
    BY <1>1, Zenon
  <2>. QED  BY <1>2, <2>1
<1>. QED  BY <1>1, <1>2, <1>6, <1>7, <1>8, <1>9, <1>10, <1>11, <1>12, KeptInv, ZenonT(40)

LEMMA ReplaceUseInv ==
  ASSUME IInv, ReplaceUseWithDefinition
  PROVE  IInv'
<1>1. /\ AtItem("instruction")
      /\ item' = item + 1 /\ phase' = "definitions"
      /\ UNCHANGED <<cut, stack>>
  BY Zenon DEF ReplaceUseWithDefinition
<1>2. PICK r \in Reg, t \in Item : \E o \in UsedOperands(code[t]) :
        /\ Movable(r, t)
        /\ Replaces(o, r, t)
        /\ LET e == code[item].operands[2]
               at == Replaced(code[t].operands[o], r)
           IN  /\ code' = [code EXCEPT
                    ![t].operands[o] = Substitute(@, [p \in at |-> e]),
                    ![t].uses = NewUses(r, t),
                    ![t].last = @ \cup code[item].last,
                    ![item].deleted = TRUE]
               /\ careless' = (careless \/ MoveIsCareless(r, t, o))
  BY Zenon DEF ReplaceUseWithDefinition
<1>3. PICK o, new, moved :
        /\ Movable(r, t)
        /\ code' = [code EXCEPT ![t].operands[o] = new, ![t].uses = NewUses(r, t),
                                ![t].last = @ \cup code[item].last, ![item].deleted = TRUE]
        /\ careless' = (careless \/ moved)
  BY <1>2
<1>4. /\ phase = "instruction" /\ item \in Item /\ Item = 1 .. Len(code) /\ Len(code) \in Nat
      /\ item \in Nat /\ item <= Len(code)
      /\ stack \in Seq(Item) /\ careless \in BOOLEAN
      /\ IsList(code, Len(code))
  BY <1>1, AtItemIs DEF IInv, ListInv
<1>5. \A k \in Item : IsInstruction(code[k]) /\ code[k].chain \subseteq Reg \X Item
  BY <1>4 DEF IInv, ListInv, TypeOK
<1>. DEFINE y == [code[t] EXCEPT !.operands = [code[t].operands EXCEPT ![o] = new],
                                 !.uses = NewUses(r, t), !.last = code[t].last \cup code[item].last]
            d == [code EXCEPT ![t] = y]
            w == d[item]
            z == [w EXCEPT !.deleted = TRUE]
<1>6. code' = [d EXCEPT ![item] = z]
  BY <1>3, <1>4 DEF IsList
<1>7. /\ IsInstruction(y) /\ y.type = code[t].type
      /\ y.chain = code[t].chain /\ y.deleted = code[t].deleted
  <2>1. NewUses(r, t) \subseteq Reg /\ code[t].last \cup code[item].last \subseteq Reg
    BY <1>4, <1>5 DEF NewUses, IsInstruction
  <2>2. IsInstruction(code[t])
    BY <1>5
  <2>. QED  BY <2>1, <2>2 DEF IsInstruction, Fields
<1>. HIDE DEF y
<1>8. /\ IsList(d, Len(code))
      /\ \A k \in Item : d[k] = IF k = t THEN y ELSE code[k]
  BY <1>4 DEF IsList
<1>9. \A k \in Item :
        /\ IsInstruction(d[k]) /\ d[k].type = code[k].type
        /\ d[k].chain \subseteq Reg \X Item /\ d[k].deleted = code[k].deleted
  BY <1>5, <1>7, <1>8
<1>. HIDE DEF d
<1>10. IsInstruction(w) /\ w.type = code[item].type /\ w.chain \subseteq Reg \X Item
  BY <1>4, <1>9
<1>. HIDE DEF w
<1>11. IsInstruction(z) /\ z.type = w.type /\ z.chain = w.chain
  BY <1>10 DEF IsInstruction, Fields
<1>. HIDE DEF z
<1>. DEFINE gone == {item}
<1>12. Keeps(code', gone)
  <2>1. IsList(code', Len(code)) /\ \A k \in Item : code'[k] = IF k = item THEN z ELSE d[k]
    BY <1>4, <1>6, <1>8 DEF IsList
  <2>. QED  BY <1>4, <1>9, <1>10, <1>11, <2>1 DEF Keeps
<1>13. careless' \in BOOLEAN
  BY <1>3, Zenon
<1>14. item' \in Nat /\ item <= item' /\ item' <= Len(code) + 1
       /\ \A k \in Item : k \in gone => k < item'
  BY <1>1, <1>4
<1>15. gone \cap {stack[j] : j \in DOMAIN stack} = {}
  BY <1>4, ItemNotOnStack
<1>16. stack' \in Seq(Item) /\ phase' = "definitions"
  BY <1>1, <1>4
<1>. HIDE DEF gone
<1>. QED  BY <1>1, <1>4, <1>12, <1>13, <1>14, <1>15, <1>16, KeptInv, StackKept

-----------------------------------------------------------------------------
LEMMA Inductive == Spec => []IInv
<1>1. Init => IInv
  BY InitInv
<1>2. IInv /\ [Next]_vars => IInv'
  <2>. SUFFICES ASSUME IInv, [Next]_vars PROVE IInv'
    OBVIOUS
  <2>1. CASE FindChains
    BY <2>1, FindChainsInv
  <2>2. CASE AnalyzeNodeList
    BY <2>2, AnalyzeInv
  <2>3. CASE RemoveInstruction
    BY <2>3, RemoveInstructionInv
  <2>4. CASE RemoveDefinition
    BY <2>4, RemoveDefinitionInv
  <2>5. CASE KeepDefinition
    BY <2>5, GoOnInv DEF KeepDefinition, AtItem
  <2>6. CASE CollectParameters
    BY <2>6, CollectParametersInv
  <2>7. CASE NoParameters
    BY <2>7, GoOnInv DEF NoParameters, AtItem
  <2>8. CASE ReplaceUseWithDefinition
    BY <2>8, ReplaceUseInv
  <2>9. CASE LeaveAssignment
    <3>1. /\ phase = "instruction" /\ item \in Item /\ item' = item + 1 /\ phase' = "definitions"
          /\ UNCHANGED <<code, cut, stack, careless>>
      BY <2>9, Zenon DEF LeaveAssignment, AtItem
    <3>. QED  BY <3>1, GoOnInv
  <2>10. CASE OnPush
    BY <2>10, OnPushInv
  <2>11. CASE OnPop
    BY <2>11, OnPopInv
  <2>12. CASE OnOther
    BY <2>12, GoOnInv DEF OnOther, AtItem
  <2>13. CASE Return
    BY <2>13, GoOnInv DEF Return
  <2>14. CASE UNCHANGED vars
    <3>1. UNCHANGED <<code, cut, item, stack, phase, careless>>
      BY <2>14 DEF vars
    <3>. QED  BY <3>1 DEF IInv, ListInv, TypeOK, StackIsLive, BehindInv, Item
  <2>. QED  BY <2>1, <2>2, <2>3, <2>4, <2>5, <2>6, <2>7, <2>8, <2>9, <2>10,
               <2>11, <2>12, <2>13, <2>14 DEF Next
<1>. QED  BY <1>1, <1>2, PTL DEF Spec

(* DataFlowAnalysis deletes only instructions that lie behind its iterator *)
(* and uses, definitions and chains name registers and places of the list. *)
THEOREM TypeCorrect == Spec => []TypeOK
BY Inductive, PTL DEF IInv

(* The stack of DataFlowAnalysis holds PUSHes that are still in the list,  *)
(* each once: none becomes a parameter twice.                              *)
THEOREM Live == Spec => []StackIsLive
BY Inductive, PTL DEF IInv

-----------------------------------------------------------------------------
(***************************************************************************)
(* A tree: its nodes are named by their paths, and registers are leaves.   *)
(***************************************************************************)
IsTree(e) ==
  /\ <<>> \in DOMAIN e
  /\ DOMAIN e \subseteq Path
  /\ \A p, q \in DOMAIN e : e[p][1] = "reg" /\ IsPrefix(p, q) => p = q

(* p lies under a call. *)
InCall(e, p) == \E q \in DOMAIN e : e[q][1] = "call" /\ IsPrefix(q, p)

LEMMA LeafTree ==
  ASSUME NEW label
  PROVE  IsTree(Leaf(label)) /\ DOMAIN Leaf(label) = {<<>>} /\ Leaf(label)[<<>>] = label
<1>1. <<>> \in Path
  BY DEF Path
<1>. QED  BY <1>1 DEF IsTree, Leaf

(* An operation on trees is a tree. *)
LEMMA ApplyTree ==
  ASSUME NEW label, label[1] # "reg", NEW args, DOMAIN args \subseteq Nat,
         \A j \in DOMAIN args : IsTree(args[j])
  PROVE  /\ IsTree(Apply(label, args))
         /\ Apply(label, args)[<<>>] = label
         /\ \A q \in DOMAIN Apply(label, args) : q # <<>> =>
              \E j \in DOMAIN args : \E s \in DOMAIN args[j] :
                q = <<j>> \o s /\ Apply(label, args)[q] = args[j][s]
         /\ \A j \in DOMAIN args : \A s \in DOMAIN args[j] :
                <<j>> \o s \in DOMAIN Apply(label, args)
<1>. DEFINE e == Apply(label, args)
            below == UNION {{<<j>> \o q : q \in DOMAIN args[j]} : j \in DOMAIN args}
<1>1. e = [p \in {<<>>} \cup below |-> IF p = <<>> THEN label ELSE args[p[1]][Tail(p)]]
  BY DEF Apply
<1>2. ASSUME NEW j \in DOMAIN args, NEW s \in DOMAIN args[j]
      PROVE  /\ <<j>> \in Path /\ s \in Path /\ <<j>> \o s \in Path
             /\ <<j>> \o s # <<>> /\ (<<j>> \o s)[1] = j /\ Tail(<<j>> \o s) = s
             /\ <<j>> \o s \in below
  <2>1. <<j>> \in Path /\ s \in Path /\ Len(<<j>>) = 1 /\ <<j>>[1] = j
    BY DEF Path, IsTree
  <2>2. <<j>> \o s \in below
    OBVIOUS
  <2>. DEFINE q == <<j>> \o s
  <2>3. /\ q \in Path /\ Len(q) = 1 + Len(s) /\ Len(s) \in Nat /\ q[1] = j
        /\ \A i \in 1 .. Len(s) : q[1 + i] = s[i]
    <3>. DEFINE h == <<j>>
    <3>1. h \in Path /\ Len(h) = 1 /\ h[1] = j
      BY <2>1
    <3>. HIDE DEF h
    <3>2. /\ h \o s \in Path /\ Len(h \o s) = Len(h) + Len(s) /\ Len(s) \in Nat
          /\ \A i \in 1 .. Len(h) : (h \o s)[i] = h[i]
          /\ \A i \in 1 .. Len(s) : (h \o s)[Len(h) + i] = s[i]
      BY <2>1, <3>1, PathJoined
    <3>3. /\ h \o s \in Path /\ Len(h \o s) = 1 + Len(s) /\ Len(s) \in Nat /\ (h \o s)[1] = j
          /\ \A i \in 1 .. Len(s) : (h \o s)[1 + i] = s[i]
      BY <3>1, <3>2
    <3>. QED  BY <3>3 DEF h
  <2>. HIDE DEF q
  <2>4. q # <<>>
    BY <2>3
  <2>5. Tail(q) = s
    <3>. DEFINE t == Tail(q)
    <3>1. t \in Path /\ Len(t) = Len(s) /\ \A i \in 1 .. Len(s) : t[i] = q[i + 1]
      BY <2>3, <2>4, HeadTailProperties DEF Path
    <3>. HIDE DEF t
    <3>2. \A i \in 1 .. Len(s) : t[i] = s[i]
      BY <2>3, <3>1
    <3>3. t = s
      BY <2>1, <3>1, <3>2, SeqEqual DEF Path
    <3>. QED  BY <3>3 DEF t
  <2>. QED  BY <2>1, <2>2, <2>3, <2>4, <2>5 DEF q
<1>3. ASSUME NEW q \in below
      PROVE  \E j \in DOMAIN args : \E s \in DOMAIN args[j] : q = <<j>> \o s
  OBVIOUS
<1>. HIDE DEF below, e
<1>4. DOMAIN e = {<<>>} \cup below /\ e[<<>>] = label
  BY <1>1
<1>5. ASSUME NEW j \in DOMAIN args, NEW s \in DOMAIN args[j]
      PROVE  e[<<j>> \o s] = args[j][s] /\ <<j>> \o s \in DOMAIN e
  <2>. DEFINE q == <<j>> \o s
  <2>1. q \in below /\ q # <<>> /\ q[1] = j /\ Tail(q) = s
    BY <1>2
  <2>. HIDE DEF q
  <2>2. e[q] = args[q[1]][Tail(q)] /\ q \in DOMAIN e
    BY <1>1, <2>1
  <2>. QED  BY <2>1, <2>2 DEF q
<1>6. DOMAIN e \subseteq Path
  <2>1. <<>> \in Path
    BY DEF Path
  <2>2. ASSUME NEW q \in below PROVE q \in Path
    <3>1. PICK j \in DOMAIN args : \E s \in DOMAIN args[j] : q = <<j>> \o s
      BY <1>3
    <3>. QED  BY <1>2, <3>1
  <2>. QED  BY <1>4, <2>1, <2>2
<1>7. ASSUME NEW p \in DOMAIN e, NEW q \in DOMAIN e, e[p][1] = "reg", IsPrefix(p, q)
      PROVE  p = q
  <2>1. p # <<>>
    BY <1>4, <1>7
  <2>2. PICK j \in DOMAIN args : \E s \in DOMAIN args[j] : p = <<j>> \o s
    BY <1>3, <1>4, <2>1
  <2>3. PICK s \in DOMAIN args[j] : p = <<j>> \o s
    BY <2>2
  <2>4. q # <<>>
    <3>1. Len(p) <= Len(q) /\ p \in Path
      BY <1>6, <1>7, PrefixIs
    <3>2. Len(p) # 0 /\ Len(p) \in Nat
      BY <2>1, <3>1 DEF Path
    <3>. QED  BY <3>1, <3>2
  <2>5. PICK k \in DOMAIN args : \E u \in DOMAIN args[k] : q = <<k>> \o u
    BY <1>3, <1>4, <2>4
  <2>6. PICK u \in DOMAIN args[k] : q = <<k>> \o u
    BY <2>5
  <2>7. p[1] = j /\ q[1] = k
    BY <1>2, <2>3, <2>6
  <2>8. j = k
    <3>1. Len(p) <= Len(q) /\ \A i \in 1 .. Len(p) : p[i] = q[i]
      BY <1>6, <1>7, PrefixIs
    <3>2. 1 \in 1 .. Len(p)
      <4>1. p \in Path
        BY <1>6
      <4>. QED  BY <2>1, <4>1 DEF Path
    <3>. QED  BY <2>7, <3>1, <3>2
  <2>9. IsPrefix(s, u)
    <3>1. <<j>> \in Path /\ s \in Path /\ u \in Path
      BY <1>2, <2>8
    <3>. QED  BY <1>7, <2>3, <2>6, <2>8, <3>1, PrefixBehind
  <2>10. args[j][s][1] = "reg"
    BY <1>5, <1>7, <2>3
  <2>. QED  BY <2>3, <2>6, <2>8, <2>9, <2>10 DEF IsTree
<1>8. IsTree(e)
  BY <1>4, <1>6, <1>7 DEF IsTree
<1>9. ASSUME NEW q \in DOMAIN e, q # <<>>
      PROVE  \E j \in DOMAIN args : \E s \in DOMAIN args[j] : q = <<j>> \o s /\ e[q] = args[j][s]
  <2>1. PICK j \in DOMAIN args : \E s \in DOMAIN args[j] : q = <<j>> \o s
    BY <1>3, <1>4, <1>9
  <2>. QED  BY <1>5, <2>1, SMTT(30)
<1>. QED  BY <1>4, <1>5, <1>8, <1>9 DEF e

(***************************************************************************)
(* A tree x put in the place of some registers of e.                       *)
(***************************************************************************)
Grafted(e, at, x) == Substitute(e, [p \in at |-> x])

LEMMA GraftedIs ==
  ASSUME NEW e, IsTree(e), NEW x, IsTree(x), NEW at \in SUBSET DOMAIN e,
         \A p \in at : e[p][1] = "reg"
  PROVE  /\ \A q \in DOMAIN Grafted(e, at, x) :
              \/ q \in DOMAIN e \ at
              \/ \E p \in at : \E s \in DOMAIN x : q = p \o s
         /\ \A q \in DOMAIN e \ at : q \in DOMAIN Grafted(e, at, x) /\ Grafted(e, at, x)[q] = e[q]
         /\ \A p \in at : \A s \in DOMAIN x :
              p \o s \in DOMAIN Grafted(e, at, x) /\ Grafted(e, at, x)[p \o s] = x[s]
<1>. DEFINE by == [p \in at |-> x]
            kept == DOMAIN e \ DOMAIN by
            moved == UNION {{p \o s : s \in DOMAIN by[p]} : p \in DOMAIN by}
            root(q) == CHOOSE p \in DOMAIN by : IsPrefix(p, q)
            g == Grafted(e, at, x)
<1>1. g = [q \in kept \cup moved |->
             IF q \in kept THEN e[q]
             ELSE by[root(q)][SubSeq(q, Len(root(q)) + 1, Len(q))]]
  BY DEF Grafted, Substitute
<1>2. DOMAIN by = at /\ kept = DOMAIN e \ at /\ \A p \in at : by[p] = x
  OBVIOUS
<1>3. /\ \A p \in at : \A s \in DOMAIN x : p \o s \in moved
      /\ \A q \in moved : \E p \in at : \E s \in DOMAIN x : q = p \o s
  OBVIOUS
<1>4. ASSUME NEW p \in at, NEW s \in DOMAIN x
      PROVE  /\ p \o s \notin kept /\ root(p \o s) = p
             /\ SubSeq(p \o s, Len(p) + 1, Len(p \o s)) = s
  <2>1. p \in Path /\ s \in Path /\ p \o s \in Path /\ IsPrefix(p, p \o s)
    BY PathJoined, PrefixOfJoined DEF IsTree
  <2>2. p \o s \notin kept
    BY <1>2, <2>1 DEF IsTree
  <2>3. \A q \in at : IsPrefix(q, p \o s) => q = p
    <3>. SUFFICES ASSUME NEW q \in at, IsPrefix(q, p \o s) PROVE q = p
      OBVIOUS
    <3>1. q \in Path
      BY DEF IsTree
    <3>2. IsPrefix(q, p) \/ IsPrefix(p, q)
      BY <2>1, <3>1, PrefixOfTwo
    <3>. QED  BY <3>2 DEF IsTree
  <2>4. root(p \o s) = p
    BY <1>2, <2>1, <2>3
  <2>5. SubSeq(p \o s, Len(p) + 1, Len(p \o s)) = s
    BY <2>1, RestIs
  <2>. QED  BY <2>2, <2>4, <2>5
<1>. HIDE DEF by, kept, moved, root, g
<1>5. ASSUME NEW q \in DOMAIN g
      PROVE  q \in DOMAIN e \ at \/ \E p \in at : \E s \in DOMAIN x : q = p \o s
  BY <1>1, <1>2, <1>3, <1>5
<1>6. ASSUME NEW q \in DOMAIN e \ at PROVE q \in DOMAIN g /\ g[q] = e[q]
  BY <1>1, <1>2
<1>7. ASSUME NEW p \in at, NEW s \in DOMAIN x PROVE p \o s \in DOMAIN g /\ g[p \o s] = x[s]
  <2>. DEFINE q == p \o s
  <2>1. /\ q \in moved /\ q \notin kept /\ root(q) = p
        /\ SubSeq(q, Len(p) + 1, Len(q)) = s
    BY <1>3, <1>4
  <2>. HIDE DEF q
  <2>2. q \in DOMAIN g /\ g[q] = by[root(q)][SubSeq(q, Len(root(q)) + 1, Len(q))]
    BY <1>1, <2>1
  <2>3. g[q] = x[s]
    BY <1>2, <2>1, <2>2
  <2>. QED  BY <2>2, <2>3 DEF q
<1>. QED  BY <1>5, <1>6, <1>7 DEF g

(* It is a tree. *)
LEMMA GraftedTree ==
  ASSUME NEW e, IsTree(e), NEW x, IsTree(x), NEW at \in SUBSET DOMAIN e,
         \A p \in at : e[p][1] = "reg"
  PROVE  IsTree(Grafted(e, at, x))
<1>. DEFINE g == Grafted(e, at, x)
<1>1. /\ \A q \in DOMAIN g : q \in DOMAIN e \ at \/ \E p \in at : \E s \in DOMAIN x : q = p \o s
      /\ \A q \in DOMAIN e \ at : q \in DOMAIN g /\ g[q] = e[q]
      /\ \A p \in at : \A s \in DOMAIN x : p \o s \in DOMAIN g /\ g[p \o s] = x[s]
  BY GraftedIs
<1>. HIDE DEF g
<1>2. \A p \in at : \A s \in DOMAIN x : p \in Path /\ s \in Path /\ p \o s \in Path
  BY PathJoined DEF IsTree
<1>3. <<>> \in DOMAIN g
  <2>1. CASE <<>> \in at
    <3>. DEFINE none == <<>>
    <3>1. none \in at /\ none \in DOMAIN x /\ none \o none = none
      BY <2>1, PrefixEmpty DEF IsTree
    <3>. HIDE DEF none
    <3>2. none \in DOMAIN g
      BY <1>1, <3>1
    <3>. QED  BY <3>2 DEF none
  <2>2. CASE <<>> \notin at
    BY <1>1, <2>2 DEF IsTree
  <2>. QED  BY <2>1, <2>2
<1>4. DOMAIN g \subseteq Path
  <2>. SUFFICES ASSUME NEW q \in DOMAIN g PROVE q \in Path
    OBVIOUS
  <2>1. CASE q \in DOMAIN e \ at
    BY <2>1 DEF IsTree
  <2>2. CASE q \notin DOMAIN e \ at
    <3>1. PICK p \in at : \E s \in DOMAIN x : q = p \o s
      BY <1>1, <2>2
    <3>. QED  BY <1>2, <3>1
  <2>. QED  BY <2>1, <2>2
<1>5. ASSUME NEW p \in DOMAIN g, NEW q \in DOMAIN g, g[p][1] = "reg", IsPrefix(p, q)
      PROVE  p = q
  <2>1. CASE p \in DOMAIN e \ at /\ q \in DOMAIN e \ at
    BY <1>1, <1>5, <2>1 DEF IsTree
  <2>2. CASE p \in DOMAIN e \ at /\ q \notin DOMAIN e \ at
    <3>1. PICK a \in at : \E s \in DOMAIN x : q = a \o s
      BY <1>1, <2>2
    <3>2. PICK s \in DOMAIN x : q = a \o s
      BY <3>1
    <3>3. IsPrefix(p, a) \/ IsPrefix(a, p)
      BY <1>2, <1>4, <1>5, <3>2, PrefixOfTwo
    <3>. QED  BY <1>1, <1>5, <2>2, <3>3 DEF IsTree
  <2>3. CASE p \notin DOMAIN e \ at
    <3>1. PICK a \in at : \E s \in DOMAIN x : p = a \o s
      BY <1>1, <2>3
    <3>2. PICK s \in DOMAIN x : p = a \o s
      BY <3>1
    <3>3. IsPrefix(a, p) /\ a \in Path /\ p \in Path /\ q \in Path /\ s \in Path
      BY <1>2, <1>4, <3>2, PrefixOfJoined
    <3>4. IsPrefix(a, q)
      BY <1>5, <3>3, PrefixOfPrefix
    <3>5. q \notin DOMAIN e \ at
      BY <3>4 DEF IsTree
    <3>6. PICK b \in at : \E u \in DOMAIN x : q = b \o u
      BY <1>1, <3>5
    <3>7. PICK u \in DOMAIN x : q = b \o u
      BY <3>6
    <3>8. a = b
      <4>1. b \in Path /\ u \in Path
        BY <1>2
      <4>2. IsPrefix(a, b) \/ IsPrefix(b, a)
        BY <3>3, <3>4, <3>7, <4>1, PrefixOfTwo
      <4>. QED  BY <4>2 DEF IsTree
    <3>9. IsPrefix(s, u) /\ x[s][1] = "reg"
      <4>1. u \in Path
        BY <1>2
      <4>2. IsPrefix(s, u)
        BY <1>5, <3>2, <3>3, <3>7, <3>8, <4>1, PrefixBehind
      <4>. QED  BY <1>1, <1>5, <3>2, <4>2
    <3>10. s = u
      BY <3>9 DEF IsTree
    <3>. QED  BY <3>2, <3>7, <3>8, <3>10
  <2>. QED  BY <2>1, <2>2, <2>3
<1>6. IsTree(g)
  BY <1>3, <1>4, <1>5 DEF IsTree
<1>. QED  BY <1>6 DEF g

(* What lies under a call there lay under one before. *)
LEMMA GraftedCalls ==
  ASSUME NEW e, IsTree(e), NEW x, IsTree(x), NEW at \in SUBSET DOMAIN e,
         \A p \in at : e[p][1] = "reg"
  PROVE  /\ \A q \in DOMAIN e \ at : InCall(Grafted(e, at, x), q) <=> InCall(e, q)
         /\ \A p \in at : \A s \in DOMAIN x :
              InCall(Grafted(e, at, x), p \o s) <=> InCall(e, p) \/ InCall(x, s)
<1>. DEFINE g == Grafted(e, at, x)
<1>1. /\ \A q \in DOMAIN g : q \in DOMAIN e \ at \/ \E p \in at : \E s \in DOMAIN x : q = p \o s
      /\ \A q \in DOMAIN e \ at : q \in DOMAIN g /\ g[q] = e[q]
      /\ \A p \in at : \A s \in DOMAIN x : p \o s \in DOMAIN g /\ g[p \o s] = x[s]
  BY GraftedIs
<1>. HIDE DEF g
<1>2. \A p \in at : \A s \in DOMAIN x :
        p \in Path /\ s \in Path /\ p \o s \in Path /\ IsPrefix(p, p \o s)
  BY PathJoined, PrefixOfJoined DEF IsTree
<1>3. DOMAIN e \subseteq Path /\ DOMAIN x \subseteq Path
  BY DEF IsTree
<1>4. ASSUME NEW q \in DOMAIN e \ at, InCall(g, q) PROVE InCall(e, q)
  <2>1. PICK c \in DOMAIN g : g[c][1] = "call" /\ IsPrefix(c, q)
    BY <1>4 DEF InCall
  <2>2. CASE c \in DOMAIN e \ at
    BY <1>1, <2>1, <2>2 DEF InCall
  <2>3. CASE c \notin DOMAIN e \ at
    <3>1. PICK p \in at : \E s \in DOMAIN x : c = p \o s
      BY <1>1, <2>3
    <3>2. PICK s \in DOMAIN x : c = p \o s
      BY <3>1
    <3>3. IsPrefix(p, c) /\ p \in Path /\ c \in Path /\ q \in Path
      BY <1>2, <1>3, <3>2
    <3>4. IsPrefix(p, q)
      BY <2>1, <3>3, PrefixOfPrefix
    <3>. QED  BY <3>4 DEF IsTree
  <2>. QED  BY <2>2, <2>3
<1>5. ASSUME NEW q \in DOMAIN e \ at, InCall(e, q) PROVE InCall(g, q)
  <2>1. PICK c \in DOMAIN e : e[c][1] = "call" /\ IsPrefix(c, q)
    BY <1>5 DEF InCall
  <2>2. c \in DOMAIN e \ at
    BY <2>1
  <2>. QED  BY <1>1, <2>1, <2>2 DEF InCall
<1>6. ASSUME NEW p \in at, NEW s \in DOMAIN x, InCall(g, p \o s) PROVE InCall(e, p) \/ InCall(x, s)
  <2>1. PICK c \in DOMAIN g : g[c][1] = "call" /\ IsPrefix(c, p \o s)
    BY <1>6 DEF InCall
  <2>2. CASE c \in DOMAIN e \ at
    <3>1. e[c][1] = "call" /\ c \in Path
      BY <1>1, <1>3, <2>1, <2>2
    <3>2. IsPrefix(c, p) \/ IsPrefix(p, c)
      BY <1>2, <2>1, <3>1, PrefixOfTwo
    <3>3. ~IsPrefix(p, c)
      BY <2>2 DEF IsTree
    <3>. QED  BY <2>2, <3>1, <3>2, <3>3 DEF InCall
  <2>3. CASE c \notin DOMAIN e \ at
    <3>1. PICK a \in at : \E u \in DOMAIN x : c = a \o u
      BY <1>1, <2>3
    <3>2. PICK u \in DOMAIN x : c = a \o u
      BY <3>1
    <3>3. /\ a \in Path /\ u \in Path /\ c \in Path /\ p \in Path /\ s \in Path
          /\ p \o s \in Path /\ IsPrefix(a, c)
      BY <1>2, <3>2
    <3>4. IsPrefix(a, p \o s)
      BY <2>1, <3>3, PrefixOfPrefix
    <3>5. IsPrefix(a, p) \/ IsPrefix(p, a)
      BY <3>3, <3>4, PrefixOfTwo
    <3>6. a = p
      BY <3>5 DEF IsTree
    <3>7. IsPrefix(u, s) /\ x[u][1] = "call"
      BY <1>1, <2>1, <3>2, <3>3, <3>6, PrefixBehind
    <3>. QED  BY <3>7 DEF InCall
  <2>. QED  BY <2>2, <2>3
<1>7. ASSUME NEW p \in at, NEW s \in DOMAIN x, InCall(e, p) PROVE InCall(g, p \o s)
  <2>1. PICK c \in DOMAIN e : e[c][1] = "call" /\ IsPrefix(c, p)
    BY <1>7 DEF InCall
  <2>2. c \in DOMAIN e \ at
    BY <2>1
  <2>3. IsPrefix(c, p \o s)
    BY <1>2, <1>3, <2>1, PrefixOfPrefix
  <2>. QED  BY <1>1, <2>1, <2>2, <2>3 DEF InCall
<1>8. ASSUME NEW p \in at, NEW s \in DOMAIN x, InCall(x, s) PROVE InCall(g, p \o s)
  <2>1. PICK u \in DOMAIN x : x[u][1] = "call" /\ IsPrefix(u, s)
    BY <1>8 DEF InCall
  <2>2. IsPrefix(p \o u, p \o s)
    BY <1>2, <2>1, PrefixBehind
  <2>3. p \o u \in DOMAIN g /\ g[p \o u] = x[u]
    BY <1>1
  <2>. QED  BY <2>1, <2>2, <2>3 DEF InCall
<1>. QED  BY <1>4, <1>5, <1>6, <1>7, <1>8 DEF g

(* The registers read outside of calls: those of e, but for the replaced   *)
(* one, and those of x, where one of the replaced was outside of calls.    *)
LEMMA GraftedReads ==
  ASSUME NEW e, IsTree(e), NEW x, IsTree(x), NEW r, NEW y
  PROVE  LET g == Grafted(e, ReadsAt(e, r), x) IN
         ReadsOutsideCalls(g, y) # {} <=>
           \/ y # r /\ ReadsOutsideCalls(e, y) # {}
           \/ ReadsOutsideCalls(e, r) # {} /\ ReadsOutsideCalls(x, y) # {}
<1>. DEFINE at == ReadsAt(e, r)
            g == Grafted(e, at, x)
<1>1. at \in SUBSET DOMAIN e /\ (\A p \in at : e[p][1] = "reg" /\ e[p] = Register(r))
      /\ \A p \in DOMAIN e : e[p] = Register(r) => p \in at
  BY DEF ReadsAt, Register
<1>. HIDE DEF at
<1>2. /\ \A q \in DOMAIN g : q \in DOMAIN e \ at \/ \E p \in at : \E s \in DOMAIN x : q = p \o s
      /\ \A q \in DOMAIN e \ at : q \in DOMAIN g /\ g[q] = e[q]
      /\ \A p \in at : \A s \in DOMAIN x : p \o s \in DOMAIN g /\ g[p \o s] = x[s]
  BY <1>1, GraftedIs
<1>3. /\ \A q \in DOMAIN e \ at : InCall(g, q) <=> InCall(e, q)
      /\ \A p \in at : \A s \in DOMAIN x : InCall(g, p \o s) <=> InCall(e, p) \/ InCall(x, s)
  BY <1>1, GraftedCalls
<1>. HIDE DEF g
<1>4. \A f, z : ReadsOutsideCalls(f, z) = {p \in DOMAIN f : f[p] = Register(z) /\ ~InCall(f, p)}
  BY DEF ReadsOutsideCalls, ReadsAt, InCall, Labelled
<1>5. \A z : Register(z) = Register(r) <=> z = r
  BY DEF Register
<1>6. ASSUME NEW q \in ReadsOutsideCalls(g, y)
      PROVE  \/ y # r /\ ReadsOutsideCalls(e, y) # {}
             \/ ReadsOutsideCalls(e, r) # {} /\ ReadsOutsideCalls(x, y) # {}
  <2>1. q \in DOMAIN g /\ g[q] = Register(y) /\ ~InCall(g, q)
    BY <1>4
  <2>2. CASE q \in DOMAIN e \ at
    <3>1. e[q] = Register(y) /\ ~InCall(e, q)
      BY <1>2, <1>3, <2>1, <2>2
    <3>2. y # r
      BY <1>1, <2>2, <3>1
    <3>. QED  BY <1>4, <2>2, <3>1, <3>2
  <2>3. CASE q \notin DOMAIN e \ at
    <3>1. PICK p \in at : \E s \in DOMAIN x : q = p \o s
      BY <1>2, <2>1, <2>3
    <3>2. PICK s \in DOMAIN x : q = p \o s
      BY <3>1
    <3>3. x[s] = Register(y) /\ ~InCall(e, p) /\ ~InCall(x, s)
      BY <1>2, <1>3, <2>1, <3>2
    <3>4. p \in ReadsOutsideCalls(e, r) /\ s \in ReadsOutsideCalls(x, y)
      BY <1>1, <1>4, <3>3
    <3>. QED  BY <3>4
  <2>. QED  BY <2>2, <2>3
<1>7. ASSUME y # r, NEW q \in ReadsOutsideCalls(e, y) PROVE q \in ReadsOutsideCalls(g, y)
  <2>1. q \in DOMAIN e /\ e[q] = Register(y) /\ ~InCall(e, q)
    BY <1>4
  <2>2. q \in DOMAIN e \ at
    BY <1>1, <1>5, <1>7, <2>1
  <2>. QED  BY <1>2, <1>3, <1>4, <2>1, <2>2
<1>8. ASSUME NEW p \in ReadsOutsideCalls(e, r), NEW s \in ReadsOutsideCalls(x, y)
      PROVE  p \o s \in ReadsOutsideCalls(g, y)
  <2>1. /\ p \in at /\ ~InCall(e, p)
        /\ s \in DOMAIN x /\ x[s] = Register(y) /\ ~InCall(x, s)
    BY <1>1, <1>4
  <2>2. p \o s \in DOMAIN g /\ g[p \o s] = Register(y) /\ ~InCall(g, p \o s)
    BY <1>2, <1>3, <2>1
  <2>. QED  BY <1>4, <2>2
<1>9. ReadsOutsideCalls(g, y) # {} <=>
        \/ y # r /\ ReadsOutsideCalls(e, y) # {}
        \/ ReadsOutsideCalls(e, r) # {} /\ ReadsOutsideCalls(x, y) # {}
  <2>. DEFINE G == ReadsOutsideCalls(g, y)
              E == ReadsOutsideCalls(e, y)
              R == ReadsOutsideCalls(e, r)
              X == ReadsOutsideCalls(x, y)
  <2>1. /\ \A q \in G : (y # r /\ E # {}) \/ (R # {} /\ X # {})
        /\ y # r => \A q \in E : q \in G
        /\ \A p \in R : \A s \in X : p \o s \in G
    BY <1>6, <1>7, <1>8
  <2>. HIDE DEF G, E, R, X
  <2>2. G # {} <=> (y # r /\ E # {}) \/ (R # {} /\ X # {})
    BY <2>1
  <2>. QED  BY <2>2 DEF G, E, R, X
<1>. QED  BY <1>9 DEF g, at

-----------------------------------------------------------------------------
Types == {"assign", "store", "push", "pop", "jump"}

(***************************************************************************)
(* The operands of an instruction are trees, and those it uses are there.  *)
(***************************************************************************)
AreOperands(c) ==
  /\ c.type \in Types
  /\ 1 \in DOMAIN c.operands /\ UsedOperands(c) \subseteq DOMAIN c.operands
  /\ \A o \in DOMAIN c.operands : IsTree(c.operands[o])

TreesInv == \A k \in Item : AreOperands(code[k])

(***************************************************************************)
(* No use is in two chains.  Of the instructions still to come the chains  *)
(* name instructions behind them that use the register.                    *)
(***************************************************************************)
ApartInv == \A k, l \in Item : k # l => code[k].chain \cap code[l].chain = {}

AheadInv == \A k \in Item : \A u \in code[k].chain : u[2] > k

ReachInv ==
  phase = "chains" => \A k \in Item :
    /\ k >= item => code[k].chain = {}
    /\ \A u \in code[k].chain :
         u[1] \in code[k].definitions /\ u[2] \in Reached(k, u[1]) /\ u[1] \in code[u[2]].uses

NeedInv ==
  phase # "chains" => \A k \in Item : k >= item =>
    \A u \in code[k].chain : u[1] \in code[u[2]].uses

UsesInv == TreesInv /\ ApartInv /\ AheadInv /\ ReachInv /\ NeedInv /\ UsesAreExact

-----------------------------------------------------------------------------
(* A tree whose registers are all outside of calls. *)
IsPlain(e) ==
  /\ IsTree(e)
  /\ \A r \in Reg : ReadsOutsideCalls(e, r) # {} <=> ReadsAt(e, r) # {}

LEMMA LeafPlain ==
  ASSUME NEW label
  PROVE  IsPlain(Leaf(label))
<1>1. IsTree(Leaf(label)) /\ DOMAIN Leaf(label) = {<<>>} /\ Leaf(label)[<<>>] = label
  BY LeafTree
<1>2. ASSUME NEW r \in Reg, NEW p \in ReadsAt(Leaf(label), r)
      PROVE  p \in ReadsOutsideCalls(Leaf(label), r)
  <2>1. label = Register(r) /\ label[1] = "reg"
    BY <1>1 DEF ReadsAt, Register
  <2>. QED  BY <1>1, <2>1 DEF ReadsOutsideCalls, Labelled
<1>3. \A r : ReadsOutsideCalls(Leaf(label), r) \subseteq ReadsAt(Leaf(label), r)
  BY DEF ReadsOutsideCalls
<1>. QED  BY <1>1, <1>2, <1>3 DEF IsPlain

(* Without calls every register is outside of calls. *)
LEMMA ApplyPlain ==
  ASSUME NEW label, label[1] \notin {"reg", "call"}, NEW args, DOMAIN args \subseteq Nat,
         \A j \in DOMAIN args : \E l : args[j] = Leaf(l) /\ l[1] # "call"
  PROVE  IsPlain(Apply(label, args))
<1>. DEFINE e == Apply(label, args)
<1>1. ASSUME NEW j \in DOMAIN args
      PROVE  IsTree(args[j]) /\ \A s \in DOMAIN args[j] : args[j][s][1] # "call"
  <2>1. PICK l : args[j] = Leaf(l) /\ l[1] # "call"
    OBVIOUS
  <2>. QED  BY <2>1, LeafTree
<1>. HIDE DEF e
<1>2. /\ IsTree(e) /\ e[<<>>] = label
      /\ \A q \in DOMAIN e : q # <<>> =>
           \E j \in DOMAIN args : \E s \in DOMAIN args[j] : q = <<j>> \o s /\ e[q] = args[j][s]
  <2>1. label[1] # "reg" /\ \A j \in DOMAIN args : IsTree(args[j])
    BY <1>1
  <2>2. /\ IsTree(Apply(label, args))
        /\ Apply(label, args)[<<>>] = label
        /\ \A q \in DOMAIN Apply(label, args) : q # <<>> =>
              \E j \in DOMAIN args : \E s \in DOMAIN args[j] :
                q = <<j>> \o s /\ Apply(label, args)[q] = args[j][s]
        /\ \A j \in DOMAIN args : \A s \in DOMAIN args[j] :
                <<j>> \o s \in DOMAIN Apply(label, args)
    BY <2>1, ApplyTree
  <2>. QED  BY <2>2, Zenon DEF e
<1>3. Labelled(e, {"call"}) = {}
  <2>. SUFFICES ASSUME NEW q \in DOMAIN e, e[q][1] = "call" PROVE FALSE
    BY DEF Labelled
  <2>1. q # <<>>
    BY <1>2
  <2>2. PICK j \in DOMAIN args : \E s \in DOMAIN args[j] : q = <<j>> \o s /\ e[q] = args[j][s]
    BY <1>2, <2>1
  <2>. QED  BY <1>1, <2>2
<1>4. \A r : ReadsOutsideCalls(e, r) = ReadsAt(e, r)
  BY <1>3 DEF ReadsOutsideCalls
<1>5. IsPlain(e)
  BY <1>2, <1>4 DEF IsPlain
<1>. QED  BY <1>5 DEF e

LEMMA OperationPlain ==
  ASSUME NEW k, NEW s \in Sources
  PROVE  IsPlain(Operation(k, s))
<1>. DEFINE label == <<"op", k>>
            args == [j \in DOMAIN s |-> Leaf(s[j])]
<1>1. label[1] \notin {"reg", "call"}
  OBVIOUS
<1>2. s \in Seq({Memory} \cup {Register(r) : r \in Reg})
  BY SourcesAssumption
<1>3. DOMAIN s \subseteq Nat /\ \A j \in DOMAIN s : s[j] \in {Memory} \cup {Register(r) : r \in Reg}
  <2>. DEFINE S == {Memory} \cup {Register(r) : r \in Reg}
  <2>. HIDE DEF S
  <2>1. s \in Seq(S) => DOMAIN s \subseteq Nat /\ \A j \in DOMAIN s : s[j] \in S
    OBVIOUS
  <2>. QED  BY <1>2, <2>1 DEF S
<1>4. \A l \in {Memory} \cup {Register(r) : r \in Reg} : l[1] # "call"
  BY DEF Memory, Register
<1>5. DOMAIN args \subseteq Nat /\ \A j \in DOMAIN args : args[j] = Leaf(s[j]) /\ s[j][1] # "call"
  BY <1>3, <1>4
<1>. HIDE DEF label, args
<1>6. IsPlain(Apply(label, args))
  BY <1>1, <1>5, ApplyPlain
<1>. QED  BY <1>6 DEF Operation, label, args

(* Of an instruction with plain operands, the uses are exact. *)
LEMMA InstructionExact ==
  ASSUME NEW type \in Types, NEW operands, NEW params, 1 \in DOMAIN operands,
         type \in {"assign", "store"} => 2 \in DOMAIN operands,
         \A o \in DOMAIN operands : IsPlain(operands[o]),
         NEW c, c = Instruction(type, operands, params)
  PROVE  AreOperands(c) /\ c.uses = UsedOutsideCalls(c)
<1>. DEFINE x == [type |-> type, operands |-> operands]
<1>1. c.type = type /\ c.operands = operands /\ c.uses = Used(x)
  BY Zenon DEF Instruction
<1>2. x.type = type /\ x.operands = operands
  OBVIOUS
<1>. HIDE DEF x
<1>3. UsedOperands(x) = UsedOperands(c) /\ UsedOperands(c) \subseteq DOMAIN operands
  BY <1>1, <1>2 DEF UsedOperands, Types
<1>4. AreOperands(c)
  BY <1>1, <1>3 DEF AreOperands, IsPlain
<1>5. ASSUME NEW r
      PROVE  r \in Used(x) <=> r \in UsedOutsideCalls(c)
  <2>1. r \in Used(x) <=> r \in Reg /\ \E o \in UsedOperands(x) : ReadsAt(operands[o], r) # {}
    BY <1>2 DEF Used, RegistersOf
  <2>2. r \in UsedOutsideCalls(c) <=>
          r \in Reg /\ \E o \in UsedOperands(c) : ReadsOutsideCalls(operands[o], r) # {}
    BY <1>1 DEF UsedOutsideCalls
  <2>. QED  BY <1>3, <2>1, <2>2 DEF IsPlain
<1>. QED  BY <1>1, <1>4, <1>5

LEMMA MadeExact ==
  ASSUME NEW kinds \in SUBSET Kinds, NEW k, NEW c \in Instructions(kinds, k)
  PROVE  AreOperands(c) /\ c.uses = UsedOutsideCalls(c)
<1>. DEFINE Ok(d) == AreOperands(d) /\ d.uses = UsedOutsideCalls(d)
            registers == {Leaf(Register(r)) : r \in Reg}
<1>1. ASSUME NEW type \in Types, NEW e, IsPlain(e), NEW params, type \notin {"assign", "store"}
      PROVE  Ok(Instruction(type, <<e>>, params))
  <2>. DEFINE ops == <<e>>
  <2>1. DOMAIN ops = {1} /\ ops[1] = e
    OBVIOUS
  <2>. HIDE DEF ops
  <2>2. Ok(Instruction(type, ops, params))
    BY <1>1, <2>1, InstructionExact
  <2>. QED  BY <2>2 DEF ops
<1>2. ASSUME NEW type \in Types, NEW d, IsPlain(d), NEW e, IsPlain(e), NEW params
      PROVE  Ok(Instruction(type, <<d, e>>, params))
  <2>. DEFINE ops == <<d, e>>
  <2>1. DOMAIN ops = {1, 2} /\ ops[1] = d /\ ops[2] = e
    OBVIOUS
  <2>. HIDE DEF ops
  <2>2. Ok(Instruction(type, ops, params))
    BY <1>2, <2>1, InstructionExact
  <2>. QED  BY <2>2 DEF ops
<1>. HIDE DEF Ok
<1>3. \A d, e, m : IsPlain(d) /\ IsPlain(e) => Ok(Assignment(d, e, m))
  BY <1>2, Zenon DEF Assignment, Types
<1>4. \A e : IsPlain(e) => Ok(Unary("push", e)) /\ Ok(Unary("pop", e)) /\ Ok(Unary("jump", e))
  BY <1>1 DEF Unary, Types
<1>5. \A e \in registers : IsPlain(e)
  BY LeafPlain
<1>6. ASSUME NEW a \in registers, NEW e \in registers PROVE Ok(Store(a, e))
  <2>. DEFINE star == <<"*", 0>>
              args == <<a>>
  <2>1. PICK r \in Reg : a = Leaf(Register(r))
    OBVIOUS
  <2>6. Register(r)[1] # "call"
    BY DEF Register
  <2>2. DOMAIN args = {1} /\ args[1] = a /\ star[1] \notin {"reg", "call"}
    OBVIOUS
  <2>. HIDE DEF star, args
  <2>3. IsPlain(Apply(star, args))
    BY <2>1, <2>2, <2>6, ApplyPlain
  <2>4. "store" \in Types
    BY DEF Types
  <2>5. Ok(Instruction("store", <<Apply(star, args), e>>, 0))
    BY <1>2, <1>5, <2>3, <2>4
  <2>. QED  BY <2>5 DEF Store, star, args
<1>7. \A s \in Sources : IsPlain(Operation(k, s))
  BY OperationPlain
<1>8. IsPlain(Leaf(<<"call", k>>))
  BY LeafPlain
<1>9. ASSUME NEW kind \in Kinds, c \in Of(kind, k)
      PROVE  Ok(c)
  <2>1. CASE kind = "assign"
    BY <1>3, <1>5, <1>7, <1>9, <2>1 DEF Of
  <2>2. CASE kind = "copy"
    BY <1>3, <1>5, <1>9, <2>2 DEF Of
  <2>3. CASE kind = "call"
    BY <1>3, <1>5, <1>8, <1>9, <2>3 DEF Of
  <2>4. CASE kind = "store"
    BY <1>6, <1>9, <2>4 DEF Of
  <2>5. CASE kind = "push"
    BY <1>4, <1>5, <1>9, <2>5 DEF Of
  <2>6. CASE kind = "pop"
    BY <1>4, <1>5, <1>9, <2>6 DEF Of
  <2>7. CASE kind = "jump"
    BY <1>4, <1>7, <1>9, <2>7 DEF Of
  <2>. QED  BY <1>9, <2>1, <2>2, <2>3, <2>4, <2>5, <2>6, <2>7 DEF Kinds
<1>. QED  BY <1>9 DEF Instructions, Ok

LEMMA InitUses ==
  ASSUME Init
  PROVE  UsesInv
<1>1. PICK plan \in Plans : code \in InstructionLists(plan)
  BY DEF Init
<1>2. Len(plan) \in Nat /\ \A k \in 1 .. Len(plan) : plan[k] \in SUBSET Kinds
  BY PlansAssumption DEF Kinds
<1>3. /\ IsList(code, Len(plan))
      /\ \A k \in 1 .. Len(plan) : code[k] \in Instructions(plan[k], k) /\ IsNew(code[k])
  BY <1>1, ListsMade
<1>4. Item = 1 .. Len(plan)
  BY <1>2, <1>3, ListLength DEF Item
<1>5. \A k \in Item : AreOperands(code[k]) /\ code[k].uses = UsedOutsideCalls(code[k])
  BY <1>2, <1>3, <1>4, MadeExact
<1>6. \A k \in Item : code[k].chain = {}
  BY <1>3, <1>4 DEF IsNew
<1>7. phase = "chains"
  BY DEF Init
<1>8. TreesInv /\ UsesAreExact
  BY <1>5 DEF TreesInv, UsesAreExact
<1>9. ApartInv /\ AheadInv /\ ReachInv /\ NeedInv
  BY <1>6, <1>7 DEF ApartInv, AheadInv, ReachInv, NeedInv
<1>. QED  BY <1>8, <1>9 DEF UsesInv

-----------------------------------------------------------------------------
(* What holds of the instruction that is at k next. *)
LEMMA NextInstruction ==
  ASSUME NEW k
  PROVE  /\ AreOperands(code'[k]) => AreOperands(code[k])'
         /\ UsedOutsideCalls(code[k])' = UsedOutsideCalls(code'[k])
<1>1. PICK y : y = code'[k]
  OBVIOUS
<1>2. AreOperands(code[k])' <=> AreOperands(y)
  BY <1>1 DEF AreOperands, UsedOperands, IsTree, IsPrefix
<1>3. UsedOutsideCalls(code[k])' = UsedOutsideCalls(y)
  BY <1>1 DEF UsedOutsideCalls, UsedOperands, ReadsOutsideCalls, ReadsAt, Labelled, IsPrefix
<1>. QED  BY <1>1, <1>2, <1>3

(***************************************************************************)
(* A step that leaves the chains alone keeps the invariant if the uses it  *)
(* leaves are exact and the chains that remain to be looked at name uses.  *)
(***************************************************************************)
LEMMA UsesStep ==
  ASSUME UsesInv, phase' # "chains", Item' = Item,
         \A k \in Item : code'[k].chain = code[k].chain /\ AreOperands(code'[k]),
         \A k \in Item : k >= item' => \A u \in code[k].chain : u[1] \in code'[u[2]].uses,
         ~careless' => \A k \in Item :
           ~code'[k].deleted => code'[k].uses = UsedOutsideCalls(code'[k])
  PROVE  UsesInv'
<1>1. TreesInv'
  BY NextInstruction DEF TreesInv
<1>2. ApartInv' /\ AheadInv'
  BY DEF UsesInv, ApartInv, AheadInv
<1>3. ReachInv' /\ NeedInv'
  BY DEF ReachInv, NeedInv
<1>4. UsesAreExact'
  BY NextInstruction DEF UsesAreExact
<1>. QED  BY <1>1, <1>2, <1>3, <1>4 DEF UsesInv

(* The operands that are used make the uses. *)
LEMMA UsedSame ==
  ASSUME NEW c, NEW d, d.type = c.type, c.type \in Types,
         \A o \in UsedOperands(c) : d.operands[o] = c.operands[o]
  PROVE  UsedOutsideCalls(d) = UsedOutsideCalls(c)
<1>1. UsedOperands(d) = UsedOperands(c)
  BY DEF UsedOperands, Types
<1>. QED  BY <1>1 DEF UsedOutsideCalls

(* Steps that do nothing to the list. *)
LEMMA QuietUses ==
  ASSUME IInv, UsesInv, UNCHANGED <<code, careless>>, phase # "chains", phase' # "chains",
         item' \in Nat, item <= item'
  PROVE  UsesInv'
<1>1. Item' = Item /\ Item \subseteq Nat /\ item \in Nat
  BY ItemIs DEF IInv, ListInv, TypeOK, Item
<1>2. \A k \in Item : k >= item' => k >= item
  BY <1>1
<1>. QED  BY <1>1, <1>2, UsesStep DEF UsesInv, TreesInv, NeedInv, UsesAreExact

LEMMA AnalyzeUses ==
  ASSUME IInv, UsesInv, AnalyzeNodeList
  PROVE  UsesInv'
<1>1. phase = "chains" /\ phase' = "definitions" /\ UNCHANGED <<code, careless>>
  BY Zenon DEF AnalyzeNodeList
<1>2. Item' = Item
  BY <1>1 DEF Item
<1>3. \A k \in Item : \A u \in code[k].chain : u[1] \in code[u[2]].uses
  BY <1>1 DEF UsesInv, ReachInv
<1>. QED  BY <1>1, <1>2, <1>3, UsesStep DEF UsesInv, TreesInv, UsesAreExact

(* What an instruction reads depends on its type and its operands. *)
LEMMA SameOperands ==
  ASSUME NEW c, NEW d, d.type = c.type, d.operands = c.operands
  PROVE  /\ AreOperands(c) => AreOperands(d)
         /\ UsedOutsideCalls(d) = UsedOutsideCalls(c)
<1>1. UsedOperands(d) = UsedOperands(c)
  BY DEF UsedOperands
<1>. QED  BY <1>1 DEF AreOperands, UsedOutsideCalls

LEMMA FindChainsUses ==
  ASSUME IInv, UsesInv, FindChains
  PROVE  UsesInv'
<1>. DEFINE c == code[item]
            chain == {u \in c.definitions \X Item :
                        u[2] \in Reached(item, u[1]) /\ u[1] \in code[u[2]].uses}
            last == {r \in c.definitions :
                       \A j \in item + 1 .. EndOfNode(item) : r \notin code[j].definitions}
            x == [c EXCEPT !.chain = chain, !.last = last]
<1>1. /\ phase = "chains" /\ item \in Item
      /\ code' = [code EXCEPT ![item].chain = chain, ![item].last = last]
      /\ item' = item + 1
      /\ UNCHANGED <<cut, phase, careless>>
  BY Zenon DEF FindChains
<1>2. /\ Item = 1 .. Len(code) /\ Len(code) \in Nat /\ item \in Nat /\ cut \in Item
      /\ IsInstruction(c) /\ IsList(code, Len(code))
  BY <1>1, ItemIs DEF IInv, ListInv, TypeOK
<1>3. \A u \in chain : u[1] \in c.definitions /\ u[2] \in Reached(item, u[1]) /\ u[1] \in code[u[2]].uses
  OBVIOUS
<1>. HIDE DEF chain, last, c
<1>4. code' = [code EXCEPT ![item] = x]
  BY <1>1 DEF c
<1>5. /\ x.type = c.type /\ x.operands = c.operands /\ x.uses = c.uses
      /\ x.definitions = c.definitions /\ x.deleted = c.deleted /\ x.chain = chain
  BY <1>2 DEF IsInstruction, Fields
<1>. HIDE DEF x
<1>6. IsList(code', Len(code)) /\ \A k \in Item : code'[k] = IF k = item THEN x ELSE code[k]
  BY <1>2, <1>4 DEF IsList
<1>7. Len(code') = Len(code) /\ Item' = Item
  BY <1>2, <1>6, ListLength DEF Item
<1>8. \A k \in Item :
        /\ code'[k].type = code[k].type /\ code'[k].operands = code[k].operands
        /\ code'[k].uses = code[k].uses /\ code'[k].definitions = code[k].definitions
        /\ code'[k].deleted = code[k].deleted
        /\ code'[k].chain = IF k = item THEN chain ELSE code[k].chain
  BY <1>5, <1>6 DEF c
<1>9. ASSUME NEW k \in Item, NEW r
      PROVE  Reached(k, r)' = Reached(k, r)
  <2>1. EndOfNode(k)' = EndOfNode(k) /\ EndOfNode(k) \in 0 .. Len(code)
    BY <1>1, <1>2, <1>7 DEF EndOfNode
  <2>. DEFINE e == EndOfNode(k)
  <2>. HIDE DEF e
  <2>2. \A j \in k + 1 .. e : \A m \in k + 1 .. j - 1 : code'[m].definitions = code[m].definitions
    <3>1. e \in 0 .. Len(code)
      BY <2>1 DEF e
    <3>. SUFFICES ASSUME NEW j \in k + 1 .. e, NEW m \in k + 1 .. j - 1
                  PROVE  code'[m].definitions = code[m].definitions
      OBVIOUS
    <3>2. m \in Item
      BY <1>2, <3>1
    <3>. QED  BY <1>8, <3>2
  <2>3. e = EndOfNode(k)' /\ e = EndOfNode(k)
    BY <2>1 DEF e
  <2>. QED  BY <2>2, <2>3 DEF Reached
<1>10. TreesInv'
  BY <1>7, <1>8, SameOperands, NextInstruction DEF UsesInv, TreesInv
<1>11. \A k \in Item : k >= item => code[k].chain = {}
  BY <1>1 DEF UsesInv, ReachInv
<1>12. ASSUME NEW k \in Item, k # item PROVE chain \cap code[k].chain = {}
  <2>. SUFFICES ASSUME NEW u \in chain, u \in code[k].chain PROVE FALSE
    OBVIOUS
  <2>1. k < item
    BY <1>2, <1>11, <1>12
  <2>2. u[2] \in Reached(k, u[1]) /\ u[2] \in Reached(item, u[1]) /\ u[1] \in c.definitions
    BY <1>1, <1>3 DEF UsesInv, ReachInv
  <2>3. u[2] \in k + 1 .. EndOfNode(k) /\ u[2] \in item + 1 .. EndOfNode(item)
        /\ \A m \in k + 1 .. u[2] - 1 : u[1] \notin code[m].definitions
    BY <2>2 DEF Reached
  <2>4. item \in k + 1 .. u[2] - 1
    BY <1>2, <2>1, <2>3
  <2>. QED  BY <2>2, <2>3, <2>4 DEF c
<1>13. ApartInv'
  <2>. SUFFICES ASSUME NEW k \in Item, NEW l \in Item, k # l
                PROVE  code'[k].chain \cap code'[l].chain = {}
    BY <1>7 DEF ApartInv
  <2>. QED  BY <1>8, <1>12 DEF UsesInv, ApartInv
<1>14. \A u \in chain : u[2] > item
  <2>. SUFFICES ASSUME NEW u \in chain PROVE u[2] > item
    OBVIOUS
  <2>1. u[2] \in item + 1 .. EndOfNode(item)
    BY <1>3 DEF Reached
  <2>. QED  BY <1>2, <2>1
<1>15. AheadInv'
  BY <1>7, <1>8, <1>14 DEF UsesInv, AheadInv
<1>16. ReachInv'
  <2>. SUFFICES ASSUME NEW k \in Item
                PROVE  /\ k >= item + 1 => code'[k].chain = {}
                       /\ \A u \in code'[k].chain :
                            /\ u[1] \in code'[k].definitions /\ u[2] \in Reached(k, u[1])'
                            /\ u[1] \in code'[u[2]].uses
    BY <1>1, <1>7 DEF ReachInv
  <2>1. k >= item + 1 => code'[k].chain = {}
    BY <1>2, <1>8, <1>11
  <2>2. ASSUME NEW u \in code'[k].chain
        PROVE  /\ u[1] \in code[k].definitions /\ u[2] \in Reached(k, u[1])
               /\ u[1] \in code[u[2]].uses
    <3>1. CASE k = item
      BY <1>3, <1>8, <3>1 DEF c
    <3>2. CASE k # item
      <4>1. u \in code[k].chain
        BY <1>8, <2>2, <3>2
      <4>. QED  BY <1>1, <4>1 DEF UsesInv, ReachInv
    <3>. QED  BY <3>1, <3>2
  <2>3. ASSUME NEW u \in code'[k].chain PROVE u[2] \in Item
    <3>1. u[2] \in k + 1 .. EndOfNode(k)
      BY <2>2 DEF Reached
    <3>2. EndOfNode(k) \in 0 .. Len(code)
      BY <1>2 DEF EndOfNode
    <3>. QED  BY <1>2, <3>1, <3>2
  <2>. QED  BY <1>8, <1>9, <2>1, <2>2, <2>3
<1>17. NeedInv'
  BY <1>1 DEF NeedInv
<1>18. UsesAreExact'
  <2>. SUFFICES ASSUME ~careless, NEW k \in Item, ~code'[k].deleted
                PROVE  code'[k].uses = UsedOutsideCalls(code'[k])
    BY <1>1, <1>7, NextInstruction DEF UsesAreExact
  <2>1. code[k].uses = UsedOutsideCalls(code[k])
    BY <1>8 DEF UsesInv, UsesAreExact
  <2>. QED  BY <1>8, <2>1, SameOperands
<1>. QED  BY <1>10, <1>13, <1>15, <1>16, <1>17, <1>18 DEF UsesInv

(* What an instruction defines is not what it uses. *)
LEMMA DefinitionGone ==
  ASSUME NEW c, AreOperands(c), c.type \in {"assign", "pop"}, NEW d, d.type = c.type,
         d.operands = [c.operands EXCEPT ![1] = Leaf(Dummy)]
  PROVE  AreOperands(d) /\ UsedOutsideCalls(d) = UsedOutsideCalls(c)
<1>1. 1 \notin UsedOperands(c)
  BY DEF UsedOperands
<1>2. UsedOutsideCalls(d) = UsedOutsideCalls(c)
  <2>1. \A o \in UsedOperands(c) : d.operands[o] = c.operands[o]
    BY <1>1 DEF AreOperands
  <2>. QED  BY <2>1, UsedSame DEF Types
<1>3. UsedOperands(d) = UsedOperands(c)
  BY DEF UsedOperands
<1>4. IsTree(Leaf(Dummy))
  BY LeafTree
<1>. QED  BY <1>2, <1>3, <1>4 DEF AreOperands

(* The step in which the definition of the item goes. *)
LEMMA DefinitionGoneUses ==
  ASSUME IInv, UsesInv, NEW p, AtItem(p), p # "chains", phase' # "chains",
         code[item].type \in {"assign", "pop"}, NEW gone \in BOOLEAN,
         code' = [code EXCEPT ![item] =
                    [code[item] EXCEPT !.operands = [code[item].operands EXCEPT ![1] = Leaf(Dummy)],
                                       !.definitions = {}, !.deleted = gone]],
         ~code[item].deleted, ~careless' => ~careless, item' \in Nat, item <= item'
  PROVE  UsesInv'
<1>. DEFINE c == code[item]
            x == [c EXCEPT !.operands = [c.operands EXCEPT ![1] = Leaf(Dummy)],
                           !.definitions = {}, !.deleted = gone]
<1>1. /\ phase = p /\ item \in Item /\ Item = 1 .. Len(code) /\ Len(code) \in Nat /\ item \in Nat
      /\ IsInstruction(c) /\ IsList(code, Len(code))
  BY AtItemIs DEF IInv, ListInv
<1>2. code' = [code EXCEPT ![item] = x]
  OBVIOUS
<1>. HIDE DEF c
<1>3. /\ x.type = c.type /\ x.operands = [c.operands EXCEPT ![1] = Leaf(Dummy)]
      /\ x.uses = c.uses /\ x.chain = c.chain
  BY <1>1 DEF IsInstruction, Fields
<1>. HIDE DEF x
<1>4. IsList(code', Len(code)) /\ \A k \in Item : code'[k] = IF k = item THEN x ELSE code[k]
  BY <1>1, <1>2 DEF IsList
<1>5. Item' = Item
  BY <1>1, <1>4, ListLength DEF Item
<1>6. AreOperands(x) /\ UsedOutsideCalls(x) = UsedOutsideCalls(c)
  BY <1>1, <1>3, DefinitionGone DEF UsesInv, TreesInv, c
<1>7. \A k \in Item :
        /\ code'[k].chain = code[k].chain /\ code'[k].uses = code[k].uses
        /\ AreOperands(code'[k]) /\ UsedOutsideCalls(code'[k]) = UsedOutsideCalls(code[k])
        /\ ~code'[k].deleted => ~code[k].deleted
  BY <1>3, <1>4, <1>6 DEF UsesInv, TreesInv, c
<1>8. \A k \in Item : \A u \in code[k].chain : u[2] \in Item
  BY DEF IInv, TypeOK
<1>9. ASSUME NEW k \in Item, k >= item' PROVE \A u \in code[k].chain : u[1] \in code'[u[2]].uses
  <2>1. k >= item
    BY <1>1, <1>9
  <2>. QED  BY <1>1, <1>7, <1>8, <2>1 DEF UsesInv, NeedInv
<1>10. ~careless' => \A k \in Item :
         ~code'[k].deleted => code'[k].uses = UsedOutsideCalls(code'[k])
  BY <1>7 DEF UsesInv, UsesAreExact
<1>. QED  BY <1>5, <1>7, <1>9, <1>10, UsesStep

LEMMA RemoveInstructionUses ==
  ASSUME IInv, UsesInv, RemoveInstruction
  PROVE  UsesInv'
<1>1. /\ AtItem("definitions") /\ code[item].type = "assign"
      /\ code' = [code EXCEPT ![item].operands[1] = Leaf(Dummy),
                              ![item].definitions = {}, ![item].deleted = TRUE]
      /\ careless' = (careless \/ HasCall(code[item].operands[2]))
      /\ item' = item + 1 /\ phase' = phase
  BY Zenon DEF RemoveInstruction
<1>2. /\ phase = "definitions" /\ item \in Nat /\ ~code[item].deleted
  BY <1>1, AtItemIs
<1>3. code' = [code EXCEPT ![item] =
                 [code[item] EXCEPT !.operands = [code[item].operands EXCEPT ![1] = Leaf(Dummy)],
                                    !.definitions = {}, !.deleted = TRUE]]
  BY <1>1
<1>4. item' \in Nat /\ item <= item' /\ (~careless' => ~careless) /\ phase' # "chains"
  <2>1. item' = item + 1 /\ phase' = "definitions"
    BY <1>1, <1>2, Zenon
  <2>2. ~careless' => ~careless
    BY <1>1, Zenon
  <2>. QED  BY <1>2, <2>1, <2>2
<1>. QED  BY <1>1, <1>2, <1>3, <1>4, DefinitionGoneUses

LEMMA RemoveDefinitionUses ==
  ASSUME IInv, UsesInv, RemoveDefinition
  PROVE  UsesInv'
<1>1. /\ AtItem("definitions") /\ code[item].type \in {"assign", "pop"}
      /\ code' = [code EXCEPT ![item].operands[1] = Leaf(Dummy), ![item].definitions = {}]
      /\ careless' = careless /\ item' = item /\ phase' = "parameters"
  BY Zenon DEF RemoveDefinition, IsCall
<1>2. /\ phase = "definitions" /\ item \in Nat /\ ~code[item].deleted /\ IsInstruction(code[item])
  BY <1>1, AtItemIs
<1>3. code' = [code EXCEPT ![item] =
                 [code[item] EXCEPT !.operands = [code[item].operands EXCEPT ![1] = Leaf(Dummy)],
                                    !.definitions = {}, !.deleted = FALSE]]
  <2>. DEFINE c == code[item]
              y == [c EXCEPT !.operands = [c.operands EXCEPT ![1] = Leaf(Dummy)], !.definitions = {}]
              z == [c EXCEPT !.operands = [c.operands EXCEPT ![1] = Leaf(Dummy)],
                             !.definitions = {}, !.deleted = FALSE]
  <2>1. code' = [code EXCEPT ![item] = y]
    BY <1>1
  <2>2. IsInstruction(c) /\ c.deleted = FALSE
    BY <1>2 DEF IsInstruction
  <2>. HIDE DEF c
  <2>3. y = z
    BY <2>2 DEF IsInstruction, Fields
  <2>. QED  BY <2>1, <2>3 DEF c
<1>4. item' \in Nat /\ item <= item' /\ (~careless' => ~careless) /\ phase' # "chains"
  BY <1>1, <1>2
<1>. QED  BY <1>1, <1>2, <1>3, <1>4, DefinitionGoneUses

(* Whatever is read by a call is not read outside of calls. *)
LEMMA CallReadsNothing ==
  ASSUME NEW c, AreOperands(c), c.type = "assign", c.operands[2][<<>>][1] = "call"
  PROVE  UsedOutsideCalls(c) = {}
<1>. DEFINE e == c.operands[2]
<1>1. UsedOperands(c) = {2} /\ IsTree(e)
  BY DEF AreOperands, UsedOperands
<1>. HIDE DEF e
<1>2. <<>> \in Labelled(e, {"call"})
  BY <1>1 DEF IsTree, Labelled, e
<1>3. ASSUME NEW r, NEW p \in ReadsAt(e, r) PROVE IsPrefix(<<>>, p)
  BY <1>1, PrefixEmpty DEF ReadsAt, IsTree
<1>4. \A r : ReadsOutsideCalls(e, r) = {}
  BY <1>2, <1>3 DEF ReadsOutsideCalls
<1>. QED  BY <1>1, <1>4 DEF UsedOutsideCalls, e

LEMMA CollectParametersUses ==
  ASSUME IInv, UsesInv, CollectParameters
  PROVE  UsesInv'
<1>. DEFINE m == ParametersTaken(code[item].params, Len(stack))
            taken == {stack[j] : j \in 1 .. m}
            pushed(k) == code[k].operands[1]
            args == [j \in 1 .. m |-> pushed(stack[j])]
            call(e) == IF m = 0 THEN e ELSE Apply(e[<<>>], args)
            x(c) == [c EXCEPT !.collected = TRUE, !.operands[2] = call(@)]
            y(c, k) == [c EXCEPT !.deleted = @ \/ k \in taken]
<1>1. /\ AtItem("parameters") /\ IsCall(item)
      /\ code' = [k \in Item |-> IF k = item THEN x(code[k]) ELSE y(code[k], k)]
      /\ careless' = (careless \/ CollectingIsCareless(taken))
      /\ phase' = "instruction" /\ item' = item
  BY ZenonT(40) DEF CollectParameters
<1>2. /\ phase = "parameters" /\ item \in Item /\ Item = 1 .. Len(code) /\ Len(code) \in Nat
      /\ item \in Nat /\ stack \in Seq(Item) /\ Len(stack) \in Nat
      /\ IsInstruction(code[item])
  BY <1>1, AtItemIs, LenProperties
<1>3. m \in 0 .. Len(stack)
  BY <1>2 DEF ParametersTaken, UnknownCount, IsInstruction
<1>4. \A k \in Item : IsInstruction(code[k]) /\ AreOperands(code[k])
  BY <1>2 DEF IInv, ListInv, UsesInv, TreesInv
<1>. HIDE DEF m, taken
<1>5. DOMAIN args \subseteq Nat /\ \A j \in DOMAIN args : IsTree(args[j])
  <2>1. \A j \in 1 .. m : stack[j] \in Item
    BY <1>2, <1>3, ElementOfSeq, LenProperties
  <2>2. \A k \in Item : IsTree(code[k].operands[1])
    BY <1>4 DEF AreOperands
  <2>3. \A j \in 1 .. m : j \in Nat /\ IsTree(code[stack[j]].operands[1])
    BY <1>2, <1>3, <2>1, <2>2
  <2>. QED  BY <2>3
<1>. HIDE DEF args
<1>6. \A e : IsTree(e) /\ e[<<>>][1] = "call" => IsTree(call(e)) /\ call(e)[<<>>] = e[<<>>]
  <2>. SUFFICES ASSUME NEW e, IsTree(e), e[<<>>][1] = "call"
                PROVE  IsTree(call(e)) /\ call(e)[<<>>] = e[<<>>]
    OBVIOUS
  <2>. DEFINE label == e[<<>>]
  <2>1. label[1] # "reg"
    OBVIOUS
  <2>. HIDE DEF label
  <2>2. IsTree(Apply(label, args)) /\ Apply(label, args)[<<>>] = label
    BY <1>5, <2>1, ApplyTree
  <2>. QED  BY <2>2 DEF label
<1>. HIDE DEF call
<1>. DEFINE c == code[item]
            d == x(c)
<1>7. /\ c.type = "assign" /\ AreOperands(c) /\ c.operands[2][<<>>][1] = "call"
      /\ IsInstruction(c)
  BY <1>1, <1>2, <1>4 DEF IsCall
<1>. HIDE DEF c
<1>8. /\ d.type = c.type /\ d.chain = c.chain /\ d.uses = c.uses /\ d.deleted = c.deleted
      /\ d.operands = [c.operands EXCEPT ![2] = call(@)]
  BY <1>7 DEF IsInstruction, Fields
<1>. HIDE DEF d
<1>9. AreOperands(d) /\ UsedOutsideCalls(d) = UsedOutsideCalls(c)
  <2>1. UsedOperands(c) = {2} /\ UsedOperands(d) = {2}
    BY <1>7, <1>8 DEF UsedOperands
  <2>2. /\ 2 \in DOMAIN c.operands /\ 1 \in DOMAIN c.operands
        /\ \A o \in DOMAIN c.operands : IsTree(c.operands[o])
    BY <1>7, <2>1 DEF AreOperands
  <2>3. IsTree(call(c.operands[2])) /\ call(c.operands[2])[<<>>] = c.operands[2][<<>>]
    BY <1>6, <1>7, <2>2
  <2>4. /\ DOMAIN d.operands = DOMAIN c.operands
        /\ d.operands[2] = call(c.operands[2])
        /\ \A o \in DOMAIN c.operands : o # 2 => d.operands[o] = c.operands[o]
    BY <1>8, <2>2
  <2>5. AreOperands(d)
    <3>1. \A o \in DOMAIN c.operands : IsTree(d.operands[o])
      BY <2>2, <2>3, <2>4
    <3>. QED  BY <1>7, <1>8, <2>1, <2>2, <2>4, <3>1 DEF AreOperands
  <2>. QED  BY <1>7, <1>8, <2>3, <2>4, <2>5, CallReadsNothing, ZenonT(40)
<1>10. Item' = Item
  BY <1>1 DEF Item
<1>11. ASSUME NEW k \in Item
       PROVE  /\ code'[k].chain = code[k].chain /\ code'[k].uses = code[k].uses
              /\ AreOperands(code'[k]) /\ UsedOutsideCalls(code'[k]) = UsedOutsideCalls(code[k])
              /\ ~code'[k].deleted => ~code[k].deleted
  <2>1. CASE k = item
    <3>1. code'[k] = d /\ code[k] = c
      BY <1>1, <2>1 DEF d, c
    <3>. QED  BY <1>8, <1>9, <3>1
  <2>2. CASE k # item
    <3>. DEFINE a == code[k]
                b == code'[k]
    <3>1. b = y(a, k) /\ IsInstruction(a) /\ AreOperands(a)
      BY <1>1, <1>4, <2>2
    <3>. HIDE DEF a, b
    <3>2. /\ b.type = a.type /\ b.operands = a.operands /\ b.chain = a.chain /\ b.uses = a.uses
          /\ b.deleted = (a.deleted \/ k \in taken)
      BY <3>1 DEF IsInstruction, Fields
    <3>3. AreOperands(b) /\ UsedOutsideCalls(b) = UsedOutsideCalls(a)
      BY <3>1, <3>2, SameOperands
    <3>4. ~b.deleted => ~a.deleted
      BY <3>2, Zenon
    <3>. QED  BY <3>2, <3>3, <3>4 DEF a, b
  <2>. QED  BY <2>1, <2>2
<1>12. \A k \in Item : \A u \in code[k].chain : u[2] \in Item
  BY DEF IInv, TypeOK
<1>13. ASSUME NEW k \in Item, k >= item' PROVE \A u \in code[k].chain : u[1] \in code'[u[2]].uses
  BY <1>1, <1>2, <1>11, <1>12, <1>13 DEF UsesInv, NeedInv
<1>14. ~careless' => ~careless
  BY <1>1, Zenon
<1>15. ~careless' => \A k \in Item :
         ~code'[k].deleted => code'[k].uses = UsedOutsideCalls(code'[k])
  BY <1>11, <1>14 DEF UsesInv, UsesAreExact
<1>16. phase' # "chains"
  BY <1>1
<1>. QED  BY <1>10, <1>11, <1>13, <1>15, <1>16, UsesStep

(* Where at was all that was read of r, d uses what c does but for r, and  *)
(* what e reads.                                                           *)
UsesFollow(c, o, e, r, at, d) ==
  /\ at = ReadsAt(c.operands[o], r)
  /\ \A q \in UsedOperands(c) : q # o => ReadsAt(c.operands[q], r) = {}
  /\ r \in UsedOutsideCalls(c)
  => UsedOutsideCalls(d) =
       (UsedOutsideCalls(c) \ {r}) \cup {y \in Reg : ReadsOutsideCalls(e, y) # {}}

LEMMA ReplacedUses ==
  ASSUME NEW c, AreOperands(c), NEW o \in UsedOperands(c), NEW e, IsTree(e), NEW r,
         NEW at \in SUBSET ReadsAt(c.operands[o], r),
         NEW d, d.type = c.type,
         d.operands = [c.operands EXCEPT ![o] = Grafted(c.operands[o], at, e)]
  PROVE  AreOperands(d) /\ UsesFollow(c, o, e, r, at, d)
<1>. DEFINE old == c.operands[o]
            new == Grafted(old, at, e)
<1>1. UsedOperands(d) = UsedOperands(c) /\ o \in DOMAIN c.operands /\ IsTree(old)
  BY DEF UsedOperands, AreOperands
<1>2. /\ DOMAIN d.operands = DOMAIN c.operands /\ d.operands[o] = new
      /\ \A q \in DOMAIN c.operands : q # o => d.operands[q] = c.operands[q]
  BY <1>1
<1>. HIDE DEF old
<1>3. at \in SUBSET DOMAIN old /\ \A p \in at : old[p][1] = "reg"
  BY DEF ReadsAt, Register, old
<1>4. IsTree(new)
  BY <1>1, <1>3, GraftedTree
<1>. HIDE DEF new
<1>5. AreOperands(d)
  <2>1. \A q \in DOMAIN c.operands : IsTree(d.operands[q])
    BY <1>2, <1>4 DEF AreOperands
  <2>. QED  BY <1>1, <1>2, <2>1 DEF AreOperands
<1>6. ASSUME at = ReadsAt(old, r),
             \A q \in UsedOperands(c) : q # o => ReadsAt(c.operands[q], r) = {},
             r \in UsedOutsideCalls(c), NEW y
      PROVE  y \in UsedOutsideCalls(d) <=>
               \/ y \in UsedOutsideCalls(c) /\ y # r
               \/ y \in Reg /\ ReadsOutsideCalls(e, y) # {}
  <2>1. UsedOperands(c) \subseteq DOMAIN c.operands
    BY DEF AreOperands
  <2>2. \A q \in UsedOperands(c) : q # o => ReadsOutsideCalls(c.operands[q], r) = {}
    BY <1>6 DEF ReadsOutsideCalls
  <2>3. ReadsOutsideCalls(old, r) # {}
    BY <1>6, <2>2 DEF UsedOutsideCalls, old
  <2>4. ReadsOutsideCalls(new, y) # {} <=>
          (y # r /\ ReadsOutsideCalls(old, y) # {}) \/ ReadsOutsideCalls(e, y) # {}
    <3>1. LET g == Grafted(old, ReadsAt(old, r), e) IN
          ReadsOutsideCalls(g, y) # {} <=>
            \/ y # r /\ ReadsOutsideCalls(old, y) # {}
            \/ ReadsOutsideCalls(old, r) # {} /\ ReadsOutsideCalls(e, y) # {}
      BY <1>1, GraftedReads
    <3>. QED  BY <1>6, <2>3, <3>1 DEF new
  <2>. DEFINE R(q) == ReadsOutsideCalls(c.operands[q], y) # {}
              D(q) == ReadsOutsideCalls(d.operands[q], y) # {}
  <2>5. /\ y \in UsedOutsideCalls(c) <=> y \in Reg /\ \E q \in UsedOperands(c) : R(q)
        /\ y \in UsedOutsideCalls(d) <=> y \in Reg /\ \E q \in UsedOperands(c) : D(q)
    BY <1>1 DEF UsedOutsideCalls
  <2>6. /\ D(o) <=> (y # r /\ R(o)) \/ ReadsOutsideCalls(e, y) # {}
        /\ \A q \in UsedOperands(c) : q # o => (D(q) <=> R(q) /\ y # r)
    BY <1>2, <2>1, <2>2, <2>4 DEF old
  <2>. HIDE DEF R, D
  <2>. QED  BY <2>5, <2>6
<1>. QED  BY <1>5, <1>6 DEF UsesFollow, old

LEMMA ReplaceUseUses ==
  ASSUME IInv, UsesInv, ReplaceUseWithDefinition
  PROVE  UsesInv'
<1>1. AtItem("instruction") /\ item' = item + 1 /\ phase' = "definitions"
  BY Zenon DEF ReplaceUseWithDefinition
<1>2. PICK r \in Reg, t \in Item : \E o \in UsedOperands(code[t]) :
        /\ Movable(r, t)
        /\ Replaces(o, r, t)
        /\ LET e == code[item].operands[2]
               at == Replaced(code[t].operands[o], r)
           IN  /\ code' = [code EXCEPT
                    ![t].operands[o] = Substitute(@, [p \in at |-> e]),
                    ![t].uses = NewUses(r, t),
                    ![t].last = @ \cup code[item].last,
                    ![item].deleted = TRUE]
               /\ careless' = (careless \/ MoveIsCareless(r, t, o))
  BY ZenonT(40) DEF ReplaceUseWithDefinition
<1>3. PICK o \in UsedOperands(code[t]) :
        /\ Movable(r, t)
        /\ Replaces(o, r, t)
        /\ LET e == code[item].operands[2]
               at == Replaced(code[t].operands[o], r)
           IN  /\ code' = [code EXCEPT
                    ![t].operands[o] = Substitute(@, [p \in at |-> e]),
                    ![t].uses = NewUses(r, t),
                    ![t].last = @ \cup code[item].last,
                    ![item].deleted = TRUE]
               /\ careless' = (careless \/ MoveIsCareless(r, t, o))
  BY <1>2
<1>. DEFINE c == code[item]
            e == c.operands[2]
            a == code[t]
            at == Replaced(a.operands[o], r)
            new == Grafted(a.operands[o], at, e)
<1>4. /\ phase = "instruction" /\ item \in Item /\ Item = 1 .. Len(code) /\ Len(code) \in Nat
      /\ item \in Nat /\ ~c.deleted /\ IsList(code, Len(code))
      /\ IsInstruction(c) /\ IsInstruction(a) /\ AreOperands(c) /\ AreOperands(a)
  BY <1>1, AtItemIs DEF IInv, ListInv, UsesInv, TreesInv
<1>5. c.type = "assign" /\ c.chain = {<<r, t>>}
  BY <1>3 DEF Movable
<1>6. t > item /\ t # item /\ ~a.deleted
  <2>1. <<r, t>> \in c.chain /\ <<r, t>>[2] = t
    BY <1>5
  <2>2. t > item
    BY <1>4, <2>1 DEF UsesInv, AheadInv
  <2>. QED  BY <1>4, <2>2 DEF IInv, TypeOK
<1>7. UsedOperands(c) = {2} /\ IsTree(e)
  BY <1>4, <1>5 DEF AreOperands, UsedOperands
<1>8. at \in SUBSET ReadsAt(a.operands[o], r)
  BY DEF Replaced
<1>. DEFINE y == [a EXCEPT !.operands = [a.operands EXCEPT ![o] = new],
                           !.uses = NewUses(r, t), !.last = a.last \cup c.last]
            z == [c EXCEPT !.deleted = TRUE]
<1>9. \A k \in Item : code'[k] = IF k = item THEN z ELSE IF k = t THEN y ELSE code[k]
  <2>1. code' = [code EXCEPT ![t] = y, ![item].deleted = TRUE]
    BY <1>3 DEF Grafted
  <2>. HIDE DEF y
  <2>2. code' = [code EXCEPT ![t] = y, ![item] = z]
    BY <1>4, <1>6, <2>1 DEF IsList
  <2>. HIDE DEF z
  <2>. QED  BY <1>4, <1>6, <2>2, SMTT(30) DEF IsList
<1>10. Item' = Item
  BY <1>3 DEF Item
<1>. HIDE DEF c, a, new, at
<1>11. /\ y.type = a.type /\ y.operands = [a.operands EXCEPT ![o] = new]
       /\ y.uses = NewUses(r, t) /\ y.chain = a.chain /\ y.deleted = a.deleted
       /\ z.type = c.type /\ z.operands = c.operands /\ z.uses = c.uses /\ z.chain = c.chain
       /\ z.deleted = TRUE
  BY <1>4 DEF IsInstruction, Fields
<1>. HIDE DEF y, z
<1>12. AreOperands(y) /\ UsesFollow(a, o, e, r, at, y)
  <2>1. o \in UsedOperands(a)
    BY DEF a
  <2>2. y.type = a.type /\ y.operands = [a.operands EXCEPT ![o] = Grafted(a.operands[o], at, e)]
    BY <1>11 DEF new
  <2>. QED  BY <1>4, <1>7, <1>8, <2>1, <2>2, ReplacedUses
<1>13. \A k \in Item : code'[k].chain = code[k].chain /\ AreOperands(code'[k])
  <2>1. AreOperands(z)
    BY <1>4, <1>11, SameOperands
  <2>. QED  BY <1>9, <1>11, <1>12, <2>1 DEF UsesInv, TreesInv, a, c
<1>14. ASSUME NEW k \in Item, k >= item', NEW u \in code[k].chain
       PROVE  u[1] \in code'[u[2]].uses
  <2>1. k >= item /\ k # item
    BY <1>1, <1>4, <1>14
  <2>2. u \in Reg \X Item /\ u[1] \in code[u[2]].uses
    BY <1>4, <2>1 DEF IInv, TypeOK, UsesInv, NeedInv
  <2>3. u # <<r, t>>
    BY <1>4, <1>5, <1>14, <2>1 DEF UsesInv, ApartInv, c
  <2>4. CASE u[2] = t
    <3>1. u[1] # r
      BY <2>2, <2>3, <2>4
    <3>2. code'[t].uses = NewUses(r, t)
      BY <1>6, <1>9, <1>11
    <3>. QED  BY <2>2, <2>4, <3>1, <3>2 DEF NewUses
  <2>5. CASE u[2] # t
    BY <1>9, <1>11, <2>2, <2>5 DEF c
  <2>. QED  BY <2>4, <2>5
<1>15. ASSUME ~careless', NEW k \in Item, ~code'[k].deleted
       PROVE  code'[k].uses = UsedOutsideCalls(code'[k])
  <2>1. ~careless /\ ~MoveIsCareless(r, t, o)
    BY <1>3, <1>15, Zenon
  <2>2. \A l \in Item : ~code[l].deleted => code[l].uses = UsedOutsideCalls(code[l])
    BY <2>1 DEF UsesInv, UsesAreExact
  <2>3. CASE k = item
    BY <1>9, <1>11, <1>15, <2>3
  <2>4. CASE k = t
    <3>1. \A q \in UsedOperands(a) : ReadsAt(a.operands[q], r) = (IF q = o THEN at ELSE {})
      BY <2>1 DEF MoveIsCareless, a, at
    <3>2. /\ at = ReadsAt(a.operands[o], r)
          /\ \A q \in UsedOperands(a) : q # o => ReadsAt(a.operands[q], r) = {}
      BY <3>1 DEF a
    <3>3. r \in UsedOutsideCalls(a)
      <4>1. <<r, t>> \in code[item].chain /\ <<r, t>>[1] = r /\ <<r, t>>[2] = t
        BY <1>5 DEF c
      <4>2. r \in code[t].uses
        BY <1>4, <4>1 DEF UsesInv, NeedInv
      <4>. QED  BY <1>6, <2>2, <4>2 DEF a
    <3>4. c.uses = {w \in Reg : ReadsOutsideCalls(e, w) # {}}
      <4>1. c.uses = UsedOutsideCalls(c)
        BY <1>4, <2>2 DEF c
      <4>. QED  BY <1>7, <4>1 DEF UsedOutsideCalls
    <3>5. a.uses = UsedOutsideCalls(a)
      BY <1>6, <2>2 DEF a
    <3>6. y.uses = (a.uses \ {r}) \cup c.uses
      BY <1>11 DEF NewUses, a, c
    <3>. QED  BY <1>6, <1>9, <1>12, <2>4, <3>2, <3>3, <3>4, <3>5, <3>6 DEF UsesFollow
  <2>5. CASE k # item /\ k # t
    BY <1>9, <1>15, <2>2, <2>5
  <2>. QED  BY <2>3, <2>4, <2>5
<1>16. phase' # "chains"
  BY <1>1
<1>. QED  BY <1>10, <1>13, <1>14, <1>15, <1>16, UsesStep

-----------------------------------------------------------------------------
LEMMA UsesInductive == Spec => []UsesInv
<1>1. Init => UsesInv
  BY InitUses
<1>2. IInv /\ UsesInv /\ [Next]_vars => UsesInv'
  <2>. SUFFICES ASSUME IInv, UsesInv, [Next]_vars PROVE UsesInv'
    OBVIOUS
  <2>0. item \in Nat
    BY DEF IInv, ListInv, TypeOK
  <2>1. CASE FindChains
    BY <2>1, FindChainsUses
  <2>2. CASE AnalyzeNodeList
    BY <2>2, AnalyzeUses
  <2>3. CASE RemoveInstruction
    BY <2>3, RemoveInstructionUses
  <2>4. CASE RemoveDefinition
    BY <2>4, RemoveDefinitionUses
  <2>5. CASE KeepDefinition
    <3>1. /\ phase = "definitions" /\ phase' = "parameters" /\ item' = item
          /\ UNCHANGED <<code, careless>>
      BY <2>5, Zenon DEF KeepDefinition, AtItem
    <3>. QED  BY <2>0, <3>1, QuietUses
  <2>6. CASE CollectParameters
    BY <2>6, CollectParametersUses
  <2>7. CASE NoParameters
    <3>1. /\ phase = "parameters" /\ phase' = "instruction" /\ item' = item
          /\ UNCHANGED <<code, careless>>
      BY <2>7, Zenon DEF NoParameters, AtItem
    <3>. QED  BY <2>0, <3>1, QuietUses
  <2>8. CASE ReplaceUseWithDefinition
    BY <2>8, ReplaceUseUses
  <2>9. CASE LeaveAssignment \/ OnPush \/ OnPop \/ OnOther
    <3>1. /\ phase = "instruction" /\ phase' = "definitions" /\ item' = item + 1
          /\ UNCHANGED <<code, careless>>
      BY <2>9, Zenon DEF LeaveAssignment, OnPush, OnPop, OnOther, AtItem
    <3>. QED  BY <2>0, <3>1, QuietUses
  <2>10. CASE Return
    <3>1. phase = "definitions" /\ phase' = "done" /\ item' = item /\ UNCHANGED <<code, careless>>
      BY <2>10, Zenon DEF Return
    <3>. QED  BY <2>0, <3>1, QuietUses
  <2>11. CASE UNCHANGED vars
    <3>1. UNCHANGED <<code, cut, item, phase, careless>>
      BY <2>11 DEF vars
    <3>2. \A k \in Item : \A r : Reached(k, r)' = Reached(k, r)
      BY <3>1 DEF Reached, EndOfNode
    <3>3. TreesInv' /\ ApartInv' /\ AheadInv' /\ NeedInv'
      BY <3>1, NextInstruction DEF UsesInv, TreesInv, ApartInv, AheadInv, NeedInv, Item
    <3>4. ReachInv'
      BY <3>1, <3>2 DEF UsesInv, ReachInv, Item
    <3>5. UsesAreExact'
      BY <3>1, NextInstruction DEF UsesInv, UsesAreExact, Item
    <3>. QED  BY <3>3, <3>4, <3>5 DEF UsesInv
  <2>. QED  BY <2>1, <2>2, <2>3, <2>4, <2>5, <2>6, <2>7, <2>8, <2>9, <2>10, <2>11 DEF Next
<1>. QED  BY <1>1, <1>2, Inductive, PTL DEF Spec

(* As long as nothing was moved that should have stayed, mUses of an       *)
(* instruction in the list is what its operands read, but for what is read *)
(* in parameters of calls: Replace keeps the two in step.                  *)
THEOREM Exact == Spec => []UsesAreExact
BY UsesInductive, PTL DEF UsesInv

LEMMA SubstituteIs ==
  ASSUME NEW e, DOMAIN e \subseteq Path, NEW by, AreLeaves(e, DOMAIN by),
         \A p \in DOMAIN by : DOMAIN by[p] \subseteq Path
  PROVE  Filled(Substitute(e, by), e, by) /\ DOMAIN Substitute(e, by) \subseteq Path
<1>. DEFINE kept == DOMAIN e \ DOMAIN by
            moved == UNION {{p \o s : s \in DOMAIN by[p]} : p \in DOMAIN by}
            root(q) == CHOOSE p \in DOMAIN by : IsPrefix(p, q)
            g == Substitute(e, by)
<1>1. g = [q \in kept \cup moved |->
             IF q \in kept THEN e[q]
             ELSE by[root(q)][SubSeq(q, Len(root(q)) + 1, Len(q))]]
  BY DEF Substitute
<1>2. ASSUME NEW p \in DOMAIN by, NEW s \in DOMAIN by[p] PROVE p \o s \in moved
  <2>1. p \o s \in {p \o u : u \in DOMAIN by[p]}
    OBVIOUS
  <2>. QED  BY <2>1
<1>3. /\ \A p \in DOMAIN by : \A s \in DOMAIN by[p] : p \o s \in moved
      /\ \A q \in moved : \E p \in DOMAIN by : \E s \in DOMAIN by[p] : q = p \o s
  <2>1. ASSUME NEW q \in moved
        PROVE  \E p \in DOMAIN by : \E s \in DOMAIN by[p] : q = p \o s
    <3>1. PICK p \in DOMAIN by : q \in {p \o s : s \in DOMAIN by[p]}
      OBVIOUS
    <3>. QED  BY <3>1
  <2>. QED  BY <1>2, <2>1
<1>4. ASSUME NEW p \in DOMAIN by, NEW s \in DOMAIN by[p]
      PROVE  /\ p \o s \notin kept /\ root(p \o s) = p /\ p \o s \in Path
             /\ SubSeq(p \o s, Len(p) + 1, Len(p \o s)) = s
  <2>0. p \in Path /\ s \in Path /\ p \in DOMAIN e
    BY DEF AreLeaves
  <2>1. p \o s \in Path /\ IsPrefix(p, p \o s)
    BY <2>0, PathJoined, PrefixOfJoined
  <2>2. p \o s \notin kept
    <3>. SUFFICES ASSUME p \o s \in kept PROVE FALSE
      OBVIOUS
    <3>1. p \o s = p
      BY <2>1, Zenon DEF AreLeaves
    <3>. QED  BY <3>1
  <2>3. \A q \in DOMAIN by : IsPrefix(q, p \o s) => q = p
    <3>. SUFFICES ASSUME NEW q \in DOMAIN by, IsPrefix(q, p \o s) PROVE q = p
      OBVIOUS
    <3>1. q \in Path /\ q \in DOMAIN e
      BY DEF AreLeaves
    <3>2. IsPrefix(q, p) \/ IsPrefix(p, q)
      BY <2>0, <2>1, <3>1, PrefixOfTwo
    <3>. QED  BY <2>0, <3>1, <3>2 DEF AreLeaves
  <2>4. root(p \o s) = p
    BY <2>1, <2>3
  <2>5. SubSeq(p \o s, Len(p) + 1, Len(p \o s)) = s
    BY <2>0, RestIs
  <2>. QED  BY <2>1, <2>2, <2>4, <2>5
<1>. HIDE DEF kept, moved, root, g
<1>5. ASSUME NEW q \in DOMAIN g
      PROVE  q \in DOMAIN e \ DOMAIN by \/ \E p \in DOMAIN by : \E s \in DOMAIN by[p] : q = p \o s
  BY <1>1, <1>3, <1>5 DEF kept
<1>6. ASSUME NEW q \in DOMAIN e \ DOMAIN by PROVE q \in DOMAIN g /\ g[q] = e[q]
  BY <1>1 DEF kept
<1>7. ASSUME NEW p \in DOMAIN by, NEW s \in DOMAIN by[p]
      PROVE p \o s \in DOMAIN g /\ g[p \o s] = by[p][s]
  <2>. DEFINE q == p \o s
  <2>1. /\ q \in moved /\ q \notin kept /\ root(q) = p
        /\ SubSeq(q, Len(p) + 1, Len(q)) = s
    BY <1>3, <1>4
  <2>. HIDE DEF q
  <2>2. q \in DOMAIN g /\ g[q] = by[root(q)][SubSeq(q, Len(root(q)) + 1, Len(q))]
    BY <1>1, <2>1
  <2>. QED  BY <2>1, <2>2 DEF q
<1>8. IsMap(g)
  BY <1>1 DEF IsMap
<1>9. DOMAIN g \subseteq Path
  BY <1>4, <1>5
<1>. QED  BY <1>5, <1>6, <1>7, <1>8, <1>9 DEF g, Filled

LEMMA ApplyIs ==
  ASSUME NEW label, NEW args, AreArgs(args)
  PROVE  Applied(Apply(label, args), label, args) /\ DOMAIN Apply(label, args) \subseteq Path
<1>. DEFINE e == Apply(label, args)
            below == UNION {{<<j>> \o q : q \in DOMAIN args[j]} : j \in DOMAIN args}
<1>1. e = [p \in {<<>>} \cup below |-> IF p = <<>> THEN label ELSE args[p[1]][Tail(p)]]
  BY DEF Apply
<1>2. ASSUME NEW j \in DOMAIN args, NEW s \in DOMAIN args[j]
      PROVE  /\ <<j>> \o s \in Path
             /\ <<j>> \o s # <<>> /\ (<<j>> \o s)[1] = j /\ Tail(<<j>> \o s) = s
             /\ <<j>> \o s \in below
  <2>1. j \in Nat /\ s \in Path
    BY DEF AreArgs
  <2>2. <<j>> \o s \in {<<j>> \o q : q \in DOMAIN args[j]}
    OBVIOUS
  <2>3. <<j>> \o s \in below
    BY <2>2
  <2>. HIDE DEF below
  <2>. QED  BY <2>1, <2>3, UnderIs
<1>3. ASSUME NEW q \in below
      PROVE  \E j \in DOMAIN args : \E s \in DOMAIN args[j] : q = <<j>> \o s
  OBVIOUS
<1>. HIDE DEF below, e
<1>4. DOMAIN e = {<<>>} \cup below /\ e[<<>>] = label
  BY <1>1
<1>5. ASSUME NEW j \in DOMAIN args, NEW s \in DOMAIN args[j]
      PROVE  e[<<j>> \o s] = args[j][s] /\ <<j>> \o s \in DOMAIN e
  <2>. DEFINE q == <<j>> \o s
  <2>1. q \in below /\ q # <<>> /\ q[1] = j /\ Tail(q) = s
    BY <1>2
  <2>. HIDE DEF q
  <2>2. e[q] = args[q[1]][Tail(q)] /\ q \in DOMAIN e
    BY <1>1, <2>1
  <2>. QED  BY <2>1, <2>2 DEF q
<1>6. DOMAIN e \subseteq Path
  <2>1. <<>> \in Path
    BY DEF Path
  <2>2. ASSUME NEW q \in below PROVE q \in Path
    <3>1. PICK j \in DOMAIN args : \E s \in DOMAIN args[j] : q = <<j>> \o s
      BY <1>3
    <3>. QED  BY <1>2, <3>1
  <2>. QED  BY <1>4, <2>1, <2>2
<1>7. IsMap(e)
  BY <1>1 DEF IsMap
<1>. QED  BY <1>3, <1>4, <1>5, <1>6, <1>7 DEF e, Applied

-----------------------------------------------------------------------------
(***************************************************************************)
(* What is substituted in the children is substituted in the whole.        *)
(***************************************************************************)
ByChildren(by, args, bys) ==
  /\ \A q \in DOMAIN by : \E j \in DOMAIN args : \E p \in DOMAIN bys[j] : q = <<j>> \o p
  /\ \A j \in DOMAIN args : \A p \in DOMAIN bys[j] :
       <<j>> \o p \in DOMAIN by /\ by[<<j>> \o p] = bys[j][p]

LEMMA SubstituteApply ==
  ASSUME NEW label, NEW args, AreArgs(args), NEW by, NEW bys,
         AreLeaves(Apply(label, args), DOMAIN by), \A p \in DOMAIN by : DOMAIN by[p] \subseteq Path,
         \A j \in DOMAIN args : AreLeaves(args[j], DOMAIN bys[j]),
         \A j \in DOMAIN args : \A p \in DOMAIN bys[j] : DOMAIN bys[j][p] \subseteq Path,
         ByChildren(by, args, bys)
  PROVE  Substitute(Apply(label, args), by) =
           Apply(label, [j \in DOMAIN args |-> Substitute(args[j], bys[j])])
<1>. DEFINE e == Apply(label, args)
            vals == [j \in DOMAIN args |-> Substitute(args[j], bys[j])]
            h == Apply(label, vals)
<1>1. Applied(e, label, args) /\ DOMAIN e \subseteq Path
  BY ApplyIs
<1>2. ASSUME NEW j \in DOMAIN args
      PROVE  Filled(vals[j], args[j], bys[j]) /\ DOMAIN vals[j] \subseteq Path
  <2>1. DOMAIN args[j] \subseteq Path
    BY DEF AreArgs
  <2>2. AreLeaves(args[j], DOMAIN bys[j]) /\ \A p \in DOMAIN bys[j] : DOMAIN bys[j][p] \subseteq Path
    OBVIOUS
  <2>. HIDE DEF ByChildren
  <2>. QED  BY <2>1, <2>2, SubstituteIs
<1>3. DOMAIN vals = DOMAIN args
  OBVIOUS
<1>. HIDE DEF vals
<1>4. Applied(h, label, vals)
  <2>1. AreArgs(vals)
    BY <1>2, <1>3 DEF AreArgs
  <2>. QED  BY <2>1, ApplyIs
<1>5. Filled(Substitute(e, by), e, by)
  BY <1>1, SubstituteIs
<1>. HIDE DEF e, h
<1>6. ASSUME NEW j \in DOMAIN args, NEW p \in DOMAIN args[j]
      PROVE  j \in Nat /\ p \in Path
  BY DEF AreArgs
<1>7. ASSUME NEW j \in DOMAIN args, NEW p \in DOMAIN bys[j]
      PROVE  p \in DOMAIN args[j]
  BY DEF AreLeaves
<1>8. ASSUME NEW q \in DOMAIN h
      PROVE  q \in DOMAIN e \ DOMAIN by \/ \E p \in DOMAIN by : \E s \in DOMAIN by[p] : q = p \o s
  <2>1. CASE q = <<>>
    <3>1. <<>> \notin DOMAIN by
      <4>. SUFFICES ASSUME <<>> \in DOMAIN by PROVE FALSE
        OBVIOUS
      <4>1. PICK j \in DOMAIN args : \E p \in DOMAIN bys[j] : <<>> = <<j>> \o p
        BY DEF ByChildren
      <4>2. PICK p \in DOMAIN bys[j] : <<>> = <<j>> \o p
        BY <4>1
      <4>3. j \in Nat /\ p \in Path
        BY <1>6, <1>7
      <4>. QED  BY <4>2, <4>3, UnderIs
    <3>2. <<>> \in DOMAIN e
      BY <1>1 DEF Applied
    <3>. QED  BY <2>1, <3>1, <3>2
  <2>2. CASE q # <<>>
    <3>1. PICK j \in DOMAIN args : \E s \in DOMAIN vals[j] : q = <<j>> \o s
      BY <1>3, <1>4, <2>2, Zenon DEF Applied
    <3>2. PICK s \in DOMAIN vals[j] : q = <<j>> \o s
      BY <3>1
    <3>3. CASE s \in DOMAIN args[j] \ DOMAIN bys[j]
      <4>1. q \in DOMAIN e
        BY <1>1, <3>2, <3>3, Zenon DEF Applied
      <4>2. q \notin DOMAIN by
        <5>. SUFFICES ASSUME q \in DOMAIN by PROVE FALSE
          OBVIOUS
        <5>1. PICK k \in DOMAIN args : \E p \in DOMAIN bys[k] : q = <<k>> \o p
          BY DEF ByChildren
        <5>2. PICK p \in DOMAIN bys[k] : q = <<k>> \o p
          BY <5>1
        <5>3. j \in Nat /\ s \in Path /\ k \in Nat /\ p \in Path
          BY <1>6, <1>7, <3>3
        <5>4. j = k /\ s = p
          BY <3>2, <5>2, <5>3, UnderSame
        <5>. QED  BY <3>3, <5>4
      <4>. QED  BY <4>1, <4>2
    <3>4. CASE \E p \in DOMAIN bys[j] : \E u \in DOMAIN bys[j][p] : s = p \o u
      <4>1. PICK p \in DOMAIN bys[j] : \E u \in DOMAIN bys[j][p] : s = p \o u
        BY <3>4
      <4>2. PICK u \in DOMAIN bys[j][p] : s = p \o u
        BY <4>1
      <4>3. <<j>> \o p \in DOMAIN by /\ by[<<j>> \o p] = bys[j][p]
        BY DEF ByChildren
      <4>4. <<j>> \in Path /\ p \in Path /\ u \in Path
        BY <1>6, <1>7, UnderIs
      <4>5. q = (<<j>> \o p) \o u
        BY <3>2, <4>2, <4>4, PathsJoined
      <4>. QED  BY <4>2, <4>3, <4>5
    <3>. QED  BY <1>2, <3>2, <3>3, <3>4, Zenon DEF Filled
  <2>. QED  BY <2>1, <2>2
<1>9. ASSUME NEW q \in DOMAIN e \ DOMAIN by
      PROVE  q \in DOMAIN h /\ h[q] = e[q]
  <2>1. CASE q = <<>>
    BY <1>1, <1>4, <2>1, Zenon DEF Applied
  <2>2. CASE q # <<>>
    <3>1. PICK j \in DOMAIN args : \E s \in DOMAIN args[j] : q = <<j>> \o s
      BY <1>1, <2>2, Zenon DEF Applied
    <3>2. PICK s \in DOMAIN args[j] : q = <<j>> \o s
      BY <3>1
    <3>3. s \notin DOMAIN bys[j]
      BY <3>2 DEF ByChildren
    <3>4. s \in DOMAIN vals[j] /\ vals[j][s] = args[j][s]
      BY <1>2, <3>3, Zenon DEF Filled
    <3>5. h[q] = vals[j][s] /\ q \in DOMAIN h
      BY <1>3, <1>4, <3>2, <3>4, Zenon DEF Applied
    <3>6. e[q] = args[j][s]
      BY <1>1, <3>2, Zenon DEF Applied
    <3>. QED  BY <3>4, <3>5, <3>6
  <2>. QED  BY <2>1, <2>2
<1>10. ASSUME NEW q \in DOMAIN by, NEW u \in DOMAIN by[q]
       PROVE  q \o u \in DOMAIN h /\ h[q \o u] = by[q][u]
  <2>1. PICK j \in DOMAIN args : \E p \in DOMAIN bys[j] : q = <<j>> \o p
    BY DEF ByChildren
  <2>2. PICK p \in DOMAIN bys[j] : q = <<j>> \o p
    BY <2>1
  <2>3. by[q] = bys[j][p]
    BY <2>2 DEF ByChildren
  <2>4. p \o u \in DOMAIN vals[j] /\ vals[j][p \o u] = by[q][u]
    <3>1. u \in DOMAIN bys[j][p]
      BY <2>3
    <3>2. p \o u \in DOMAIN vals[j] /\ vals[j][p \o u] = bys[j][p][u]
      BY <1>2, <3>1, Zenon DEF Filled
    <3>. QED  BY <2>3, <3>2
  <2>5. <<j>> \in Path /\ p \in Path /\ u \in Path
    BY <1>6, <1>7, UnderIs
  <2>6. q \o u = <<j>> \o (p \o u)
    BY <2>2, <2>5, PathsJoined
  <2>7. <<j>> \o (p \o u) \in DOMAIN h /\ h[<<j>> \o (p \o u)] = vals[j][p \o u]
    BY <1>3, <1>4, <2>4, Zenon DEF Applied
  <2>. QED  BY <2>4, <2>6, <2>7
<1>11. Filled(h, e, by)
  BY <1>4, <1>8, <1>9, <1>10 DEF Filled, Applied
<1>12. Substitute(e, by) = h
  BY <1>5, <1>11, FilledOnce
<1>. QED  BY <1>12 DEF e, h, vals

-----------------------------------------------------------------------------
(***************************************************************************)
(* Where e was put at `at`, what is substituted in it and in the rest is   *)
(* what was substituted for the leaves it took the place of.               *)
(***************************************************************************)
Spread(after, by, at, own) ==
  /\ \A q \in DOMAIN after : q \in DOMAIN by \ at \/ \E p \in at : \E s \in DOMAIN own : q = p \o s
  /\ \A q \in DOMAIN by \ at : q \in DOMAIN after /\ after[q] = by[q]
  /\ \A p \in at : \A s \in DOMAIN own : p \o s \in DOMAIN after /\ after[p \o s] = own[s]

LEMMA SubstituteGrafted ==
  ASSUME NEW w, DOMAIN w \subseteq Path, NEW e, DOMAIN e \subseteq Path, NEW at,
         NEW by, at \subseteq DOMAIN by, AreLeaves(w, DOMAIN by),
         \A p \in DOMAIN by : DOMAIN by[p] \subseteq Path,
         NEW own, AreLeaves(e, DOMAIN own), \A p \in DOMAIN own : DOMAIN own[p] \subseteq Path,
         \A p \in at : by[p] = Substitute(e, own),
         NEW after, AreLeaves(Grafted(w, at, e), DOMAIN after), Spread(after, by, at, own)
  PROVE  Substitute(Grafted(w, at, e), after) = Substitute(w, by)
<1>. DEFINE g == Grafted(w, at, e)
            v == Substitute(g, after)
            x == Substitute(e, own)
            one == [p \in at |-> e]
<1>1. Filled(g, w, one) /\ DOMAIN g \subseteq Path
  <2>1. AreLeaves(w, DOMAIN one)
    BY DEF AreLeaves
  <2>2. \A p \in DOMAIN one : DOMAIN one[p] \subseteq Path
    OBVIOUS
  <2>. HIDE DEF one
  <2>3. Filled(Substitute(w, one), w, one) /\ DOMAIN Substitute(w, one) \subseteq Path
    BY <2>1, <2>2, SubstituteIs
  <2>. QED  BY <2>3 DEF Grafted, one
<1>2. /\ \A q \in DOMAIN g : q \in DOMAIN w \ at \/ \E p \in at : \E s \in DOMAIN e : q = p \o s
      /\ \A q \in DOMAIN w \ at : q \in DOMAIN g /\ g[q] = w[q]
      /\ \A p \in at : \A s \in DOMAIN e : p \o s \in DOMAIN g /\ g[p \o s] = e[s]
  BY <1>1 DEF Filled
<1>3. Filled(x, e, own)
  BY SubstituteIs
<1>. HIDE DEF x, g
<1>4. \A p \in DOMAIN after : DOMAIN after[p] \subseteq Path
  <2>. SUFFICES ASSUME NEW q \in DOMAIN after PROVE DOMAIN after[q] \subseteq Path
    OBVIOUS
  <2>1. CASE q \in DOMAIN by \ at
    BY <2>1 DEF Spread
  <2>2. CASE \E p \in at : \E s \in DOMAIN own : q = p \o s
    <3>1. PICK p \in at : \E s \in DOMAIN own : q = p \o s
      BY <2>2
    <3>2. PICK s \in DOMAIN own : q = p \o s
      BY <3>1
    <3>. QED  BY <3>2 DEF Spread
  <2>. QED  BY <2>1, <2>2 DEF Spread
<1>5. Filled(v, g, after)
  <2>1. AreLeaves(g, DOMAIN after)
    BY DEF g
  <2>. QED  BY <1>1, <1>4, <2>1, SubstituteIs
<1>. HIDE DEF v
<1>6. ASSUME NEW p \in at, NEW q \in DOMAIN w, NEW s \in Path, q = p \o s
      PROVE  q = p
  <2>1. p \in Path /\ p \in DOMAIN w
    BY DEF AreLeaves
  <2>2. IsPrefix(p, q)
    BY <1>6, <2>1, PrefixOfJoined
  <2>. QED  BY <2>1, <2>2 DEF AreLeaves
<1>7. \A p \in at : \A s \in DOMAIN e : p \in Path /\ s \in Path /\ p \in DOMAIN w
  BY DEF AreLeaves
<1>8. \A s \in DOMAIN own : s \in DOMAIN e
  BY DEF AreLeaves
<1>9. ASSUME NEW q \in DOMAIN v
      PROVE  q \in DOMAIN w \ DOMAIN by \/ \E p \in DOMAIN by : \E s \in DOMAIN by[p] : q = p \o s
  <2>1. CASE q \in DOMAIN g \ DOMAIN after
    <3>1. CASE q \in DOMAIN w \ at
      BY <2>1, <3>1 DEF Spread
    <3>2. CASE \E p \in at : \E s \in DOMAIN e : q = p \o s
      <4>1. PICK p \in at : \E s \in DOMAIN e : q = p \o s
        BY <3>2
      <4>2. PICK s \in DOMAIN e : q = p \o s
        BY <4>1
      <4>3. s \notin DOMAIN own
        BY <2>1, <4>2 DEF Spread
      <4>4. s \in DOMAIN x
        BY <1>3, <4>3, Zenon DEF Filled
      <4>5. by[p] = x /\ p \in DOMAIN by
        BY DEF x
      <4>. QED  BY <4>2, <4>4, <4>5
    <3>. QED  BY <1>2, <2>1, <3>1, <3>2
  <2>2. CASE \E p \in DOMAIN after : \E s \in DOMAIN after[p] : q = p \o s
    <3>1. PICK p \in DOMAIN after : \E s \in DOMAIN after[p] : q = p \o s
      BY <2>2
    <3>2. PICK s \in DOMAIN after[p] : q = p \o s
      BY <3>1
    <3>3. CASE p \in DOMAIN by \ at
      BY <3>2, <3>3 DEF Spread
    <3>4. CASE \E m \in at : \E u \in DOMAIN own : p = m \o u
      <4>1. PICK m \in at : \E u \in DOMAIN own : p = m \o u
        BY <3>4
      <4>2. PICK u \in DOMAIN own : p = m \o u
        BY <4>1
      <4>3. after[p] = own[u]
        BY <4>2 DEF Spread
      <4>4. u \o s \in DOMAIN x
        BY <1>3, <3>2, <4>3, Zenon DEF Filled
      <4>5. by[m] = x /\ m \in DOMAIN by
        BY DEF x
      <4>6. m \in Path /\ u \in Path /\ s \in Path
        BY <1>4, <1>7, <1>8, <3>2, <4>2
      <4>7. q = m \o (u \o s)
        BY <3>2, <4>2, <4>6, PathsJoined
      <4>. QED  BY <4>4, <4>5, <4>7
    <3>. QED  BY <3>3, <3>4 DEF Spread
  <2>. QED  BY <1>5, <2>1, <2>2, Zenon DEF Filled
<1>10. ASSUME NEW q \in DOMAIN w \ DOMAIN by
       PROVE  q \in DOMAIN v /\ v[q] = w[q]
  <2>1. q \in DOMAIN g /\ g[q] = w[q]
    BY <1>2
  <2>2. q \notin DOMAIN after
    <3>. SUFFICES ASSUME NEW p \in at, NEW s \in DOMAIN own, q = p \o s PROVE FALSE
      BY DEF Spread
    <3>1. s \in Path
      BY <1>7, <1>8
    <3>2. q = p
      BY <1>6, <3>1
    <3>. QED  BY <3>2
  <2>. QED  BY <1>5, <2>1, <2>2, Zenon DEF Filled
<1>11. ASSUME NEW p \in DOMAIN by, NEW s \in DOMAIN by[p]
       PROVE  p \o s \in DOMAIN v /\ v[p \o s] = by[p][s]
  <2>1. CASE p \notin at
    <3>1. p \in DOMAIN after /\ after[p] = by[p]
      BY <2>1 DEF Spread
    <3>. QED  BY <1>5, <3>1, ZenonT(40) DEF Filled
  <2>2. CASE p \in at
    <3>0. by[p] = x
      BY <2>2 DEF x
    <3>1. CASE s \in DOMAIN e \ DOMAIN own
      <4>1. p \o s \in DOMAIN g /\ g[p \o s] = e[s] /\ x[s] = e[s]
        <5>1. x[s] = e[s]
          BY <1>3, <3>1, Zenon DEF Filled
        <5>. QED  BY <1>2, <2>2, <3>1, <5>1
      <4>2. p \o s \notin DOMAIN after
        <5>. SUFFICES ASSUME p \o s \in DOMAIN after PROVE FALSE
          OBVIOUS
        <5>0. p \in Path /\ s \in Path /\ p \in DOMAIN w
          BY <1>7, <2>2, <3>1
        <5>1. CASE p \o s \in DOMAIN by \ at
          <6>1. p \o s \in DOMAIN w
            BY <5>1 DEF AreLeaves
          <6>2. p \o s = p
            BY <1>6, <2>2, <5>0, <6>1
          <6>. QED  BY <2>2, <5>1, <6>2
        <5>2. CASE \E m \in at : \E u \in DOMAIN own : p \o s = m \o u
          <6>1. PICK m \in at : \E u \in DOMAIN own : p \o s = m \o u
            BY <5>2
          <6>2. PICK u \in DOMAIN own : p \o s = m \o u
            BY <6>1
          <6>3. m \in Path /\ m \in DOMAIN w /\ u \in Path
            BY <1>7, <1>8
          <6>4. IsPrefix(m, p \o s)
            BY <6>2, <6>3, PrefixOfJoined
          <6>5. IsPrefix(m, p) \/ IsPrefix(p, m)
            BY <5>0, <6>3, <6>4, PrefixOfTwo
          <6>6. m = p
            BY <2>2, <5>0, <6>3, <6>5 DEF AreLeaves
          <6>7. s = u
            BY <5>0, <6>2, <6>3, <6>6, PrefixBehind
          <6>. QED  BY <3>1, <6>7
        <5>. QED  BY <5>1, <5>2 DEF Spread
      <4>3. p \o s \in DOMAIN v /\ v[p \o s] = g[p \o s]
        BY <1>5, <4>1, <4>2, Zenon DEF Filled
      <4>. QED  BY <3>0, <4>1, <4>3
    <3>2. CASE \E m \in DOMAIN own : \E u \in DOMAIN own[m] : s = m \o u
      <4>1. PICK m \in DOMAIN own : \E u \in DOMAIN own[m] : s = m \o u
        BY <3>2
      <4>2. PICK u \in DOMAIN own[m] : s = m \o u
        BY <4>1
      <4>3. p \o m \in DOMAIN after /\ after[p \o m] = own[m]
        BY <2>2 DEF Spread
      <4>4. (p \o m) \o u \in DOMAIN v /\ v[(p \o m) \o u] = own[m][u]
        <5>. DEFINE k == p \o m
        <5>1. k \in DOMAIN after /\ after[k] = own[m] /\ u \in DOMAIN after[k]
          BY <4>3
        <5>. HIDE DEF k
        <5>2. k \o u \in DOMAIN v /\ v[k \o u] = after[k][u]
          BY <1>5, <5>1, Zenon DEF Filled
        <5>. QED  BY <5>1, <5>2 DEF k
      <4>5. p \in Path /\ m \in Path /\ u \in Path
        BY <1>7, <1>8, <2>2
      <4>6. (p \o m) \o u = p \o s
        BY <4>2, <4>5, PathsJoined
      <4>7. x[s] = own[m][u]
        BY <1>3, <4>2, Zenon DEF Filled
      <4>. QED  BY <3>0, <4>4, <4>6, <4>7
    <3>. QED  BY <1>3, <3>0, <3>1, <3>2, Zenon DEF Filled
  <2>. QED  BY <2>1, <2>2
<1>12. Filled(v, w, by)
  BY <1>5, <1>9, <1>10, <1>11 DEF Filled
<1>13. Filled(Substitute(w, by), w, by)
  BY SubstituteIs
<1>14. v = Substitute(w, by)
  BY <1>12, <1>13, FilledOnce
<1>. QED  BY <1>14 DEF v, g

-----------------------------------------------------------------------------
(***************************************************************************)
(* A finite tree, in which registers and memory are leaves; of an          *)
(* expression the only effects are calls.                                  *)
(***************************************************************************)
IsTerm(e) ==
  /\ IsMap(e) /\ IsFiniteSet(DOMAIN e)
  /\ <<>> \in DOMAIN e /\ DOMAIN e \subseteq Path
  /\ \A p, q \in DOMAIN e : e[p][1] \in {"reg", "mem"} /\ IsPrefix(p, q) => p = q
  /\ \A p \in DOMAIN e : e[p][1] = "reg" => \E r \in Reg : e[p] = Register(r)

IsExpression(e) == IsTerm(e) /\ \A p \in DOMAIN e : e[p][1] \notin {"store", "jump"}

LEMMA LeafExpression ==
  ASSUME NEW label, label[1] \notin {"store", "jump"},
         label[1] = "reg" => \E r \in Reg : label = Register(r)
  PROVE  IsExpression(Leaf(label))
<1>1. DOMAIN Leaf(label) = {<<>>} /\ Leaf(label)[<<>>] = label /\ IsMap(Leaf(label))
  BY DEF Leaf, IsMap
<1>2. IsFiniteSet({<<>>})
  BY FS_Singleton
<1>3. <<>> \in Path
  BY DEF Path
<1>. QED  BY <1>1, <1>2, <1>3 DEF IsTerm, IsExpression

LEMMA TermArgs ==
  ASSUME NEW args, DOMAIN args \subseteq Nat, \A j \in DOMAIN args : IsTerm(args[j])
  PROVE  AreArgs(args)
BY DEF AreArgs, IsTerm

LEMMA ApplyTerm ==
  ASSUME NEW label, label[1] \notin {"reg", "mem"},
         NEW args, DOMAIN args \subseteq Nat, IsFiniteSet(DOMAIN args),
         \A j \in DOMAIN args : IsTerm(args[j])
  PROVE  /\ IsTerm(Apply(label, args)) /\ Applied(Apply(label, args), label, args)
         /\ label[1] \notin {"store", "jump"} /\ (\A j \in DOMAIN args : IsExpression(args[j]))
              => IsExpression(Apply(label, args))
<1>. DEFINE e == Apply(label, args)
<1>1. Applied(e, label, args) /\ DOMAIN e \subseteq Path
  BY TermArgs, ApplyIs
<1>. HIDE DEF e
<1>2. /\ <<>> \in DOMAIN e /\ e[<<>>] = label /\ IsMap(e)
      /\ \A q \in DOMAIN e : q # <<>> => \E j \in DOMAIN args : \E s \in DOMAIN args[j] : q = <<j>> \o s
      /\ \A j \in DOMAIN args : \A s \in DOMAIN args[j] :
           <<j>> \o s \in DOMAIN e /\ e[<<j>> \o s] = args[j][s]
  BY <1>1 DEF Applied
<1>3. ASSUME NEW p \in DOMAIN e, NEW q \in DOMAIN e, e[p][1] \in {"reg", "mem"}, IsPrefix(p, q)
      PROVE  p = q
  <2>1. p # <<>>
    BY <1>2, <1>3
  <2>2. PICK j \in DOMAIN args : \E s \in DOMAIN args[j] : p = <<j>> \o s
    BY <1>2, <2>1
  <2>3. PICK s \in DOMAIN args[j] : p = <<j>> \o s
    BY <2>2
  <2>4. q # <<>>
    <3>1. Len(p) <= Len(q) /\ p \in Path
      BY <1>1, <1>3, PrefixIs
    <3>2. Len(p) # 0 /\ Len(p) \in Nat
      BY <2>1, <3>1 DEF Path
    <3>. QED  BY <3>1, <3>2
  <2>5. PICK k \in DOMAIN args : \E u \in DOMAIN args[k] : q = <<k>> \o u
    BY <1>2, <2>4
  <2>6. PICK u \in DOMAIN args[k] : q = <<k>> \o u
    BY <2>5
  <2>7. j \in Nat /\ s \in Path /\ k \in Nat /\ u \in Path /\ <<j>> \in Path
    BY UnderIs DEF IsTerm
  <2>8. j = k
    BY <1>3, <2>3, <2>6, <2>7, UnderSame
  <2>9. IsPrefix(s, u)
    BY <1>3, <2>3, <2>6, <2>7, <2>8, PrefixBehind
  <2>10. args[j][s][1] \in {"reg", "mem"}
    BY <1>2, <1>3, <2>3
  <2>11. s = u
    BY <2>8, <2>9, <2>10 DEF IsTerm
  <2>. QED  BY <2>3, <2>6, <2>8, <2>11
<1>4. ASSUME NEW p \in DOMAIN e, p # <<>>
      PROVE  \E j \in DOMAIN args : \E s \in DOMAIN args[j] : e[p] = args[j][s]
  <2>1. PICK j \in DOMAIN args : \E s \in DOMAIN args[j] : p = <<j>> \o s
    BY <1>2, <1>4
  <2>. QED  BY <1>2, <2>1
<1>5. ASSUME NEW p \in DOMAIN e, e[p][1] = "reg"
      PROVE  \E r \in Reg : e[p] = Register(r)
  <2>1. p # <<>>
    BY <1>2, <1>5
  <2>2. PICK j \in DOMAIN args : \E s \in DOMAIN args[j] : e[p] = args[j][s]
    BY <1>4, <2>1
  <2>3. PICK s \in DOMAIN args[j] : e[p] = args[j][s]
    BY <2>2
  <2>. QED  BY <1>5, <2>3 DEF IsTerm
<1>6. IsFiniteSet(DOMAIN e)
  <2>. DEFINE f == [j \in DOMAIN args |-> {<<j>> \o s : s \in DOMAIN args[j]}]
              U == {f[j] : j \in DOMAIN args}
  <2>1. ASSUME NEW j \in DOMAIN args PROVE IsFiniteSet(f[j])
    <3>1. <<j>> \in Path /\ DOMAIN args[j] \in SUBSET Path /\ IsFiniteSet(DOMAIN args[j])
      BY <1>2, UnderIs, PrefixEmpty DEF IsTerm
    <3>2. IsFiniteSet({<<j>> \o s : s \in DOMAIN args[j]})
      BY <3>1, FiniteBelow
    <3>. QED  BY <3>2
  <2>2. ASSUME NEW j \in DOMAIN args, NEW s \in DOMAIN args[j] PROVE <<j>> \o s \in f[j]
    OBVIOUS
  <2>. HIDE DEF f
  <2>3. IsFiniteSet(U)
    BY FiniteImage
  <2>4. IsFiniteSet(UNION U)
    <3>1. \A T \in U : IsFiniteSet(T)
      BY <2>1
    <3>. HIDE DEF U
    <3>. QED  BY <2>3, <3>1, FS_UNION
  <2>5. IsFiniteSet((UNION U) \cup {<<>>})
    BY <2>4, FS_AddElement
  <2>6. ASSUME NEW q \in DOMAIN e PROVE q \in (UNION U) \cup {<<>>}
    <3>1. CASE q # <<>>
      <4>1. PICK j \in DOMAIN args : \E s \in DOMAIN args[j] : q = <<j>> \o s
        BY <1>2, <3>1
      <4>2. q \in f[j]
        BY <2>2, <4>1
      <4>. QED  BY <4>2
    <3>. QED  BY <3>1
  <2>. HIDE DEF U
  <2>. QED  BY <2>5, <2>6, FS_Subset
<1>7. IsTerm(e)
  BY <1>1, <1>2, <1>3, <1>5, <1>6 DEF IsTerm
<1>8. ASSUME label[1] \notin {"store", "jump"}, \A j \in DOMAIN args : IsExpression(args[j])
      PROVE  IsExpression(e)
  <2>. SUFFICES ASSUME NEW p \in DOMAIN e PROVE e[p][1] \notin {"store", "jump"}
    BY <1>7 DEF IsExpression
  <2>1. CASE p = <<>>
    BY <1>2, <1>8, <2>1
  <2>2. CASE p # <<>>
    <3>1. PICK j \in DOMAIN args : \E s \in DOMAIN args[j] : e[p] = args[j][s]
      BY <1>4, <2>2
    <3>. QED  BY <1>8, <3>1 DEF IsExpression
  <2>. QED  BY <2>1, <2>2
<1>. QED  BY <1>1, <1>7, <1>8 DEF e

(***************************************************************************)
(* Places where a register is read, and what was put there.                *)
(***************************************************************************)
LEMMA TermGrafted ==
  ASSUME NEW w, IsTerm(w), NEW e, IsTerm(e), NEW r, NEW at \in SUBSET ReadsAt(w, r)
  PROVE  LET g == Grafted(w, at, e) IN
         /\ at \subseteq DOMAIN w /\ AreLeaves(w, at) /\ at \subseteq Path
         /\ \A q \in DOMAIN g : q \in DOMAIN w \ at \/ \E p \in at : \E s \in DOMAIN e : q = p \o s
         /\ \A q \in DOMAIN w \ at : q \in DOMAIN g /\ g[q] = w[q]
         /\ \A p \in at : \A s \in DOMAIN e : p \o s \in DOMAIN g /\ g[p \o s] = e[s]
         /\ DOMAIN g \subseteq Path /\ IsMap(g)
<1>. DEFINE one == [p \in at |-> e]
<1>1. ASSUME NEW p \in at PROVE p \in DOMAIN w /\ w[p][1] = "reg"
  BY DEF ReadsAt, Register
<1>2. AreLeaves(w, at) /\ at \subseteq Path /\ at \subseteq DOMAIN w
  BY <1>1 DEF AreLeaves, IsTerm
<1>3. DOMAIN one = at /\ \A p \in at : one[p] = e
  OBVIOUS
<1>. HIDE DEF one
<1>4. Filled(Substitute(w, one), w, one) /\ DOMAIN Substitute(w, one) \subseteq Path
  BY <1>2, <1>3, SubstituteIs DEF IsTerm
<1>5. Grafted(w, at, e) = Substitute(w, one)
  BY DEF Grafted, one
<1>. QED  BY <1>2, <1>3, <1>4, <1>5 DEF Filled

LEMMA GraftedTerm ==
  ASSUME NEW w, IsTerm(w), NEW e, IsTerm(e), NEW r, NEW at \in SUBSET ReadsAt(w, r)
  PROVE  /\ IsTerm(Grafted(w, at, e))
         /\ IsExpression(w) /\ IsExpression(e) => IsExpression(Grafted(w, at, e))
<1>. DEFINE g == Grafted(w, at, e)
<1>1. /\ at \subseteq DOMAIN w /\ AreLeaves(w, at) /\ at \subseteq Path
      /\ \A q \in DOMAIN g : q \in DOMAIN w \ at \/ \E p \in at : \E s \in DOMAIN e : q = p \o s
      /\ \A q \in DOMAIN w \ at : q \in DOMAIN g /\ g[q] = w[q]
      /\ \A p \in at : \A s \in DOMAIN e : p \o s \in DOMAIN g /\ g[p \o s] = e[s]
      /\ DOMAIN g \subseteq Path /\ IsMap(g)
  BY TermGrafted
<1>. HIDE DEF g
<1>2. DOMAIN w \subseteq Path /\ DOMAIN e \subseteq Path /\ <<>> \in DOMAIN w /\ <<>> \in DOMAIN e
  BY DEF IsTerm
<1>3. ASSUME NEW p \in DOMAIN g
      PROVE  \/ p \in DOMAIN w \ at /\ g[p] = w[p]
             \/ \E m \in at : \E s \in DOMAIN e : p = m \o s /\ g[p] = e[s]
  <2>1. CASE p \in DOMAIN w \ at
    BY <1>1, <2>1
  <2>2. CASE \E m \in at : \E s \in DOMAIN e : p = m \o s
    <3>1. PICK m \in at : \E s \in DOMAIN e : p = m \o s
      BY <2>2
    <3>2. PICK s \in DOMAIN e : p = m \o s
      BY <3>1
    <3>. QED  BY <1>1, <3>2
  <2>. QED  BY <1>1, <2>1, <2>2
<1>4. ASSUME NEW p \in DOMAIN g, NEW q \in DOMAIN g, g[p][1] \in {"reg", "mem"}, IsPrefix(p, q)
      PROVE  p = q
  <2>1. CASE p \in DOMAIN w \ at /\ g[p] = w[p]
    <3>1. CASE q \in DOMAIN w
      BY <1>4, <2>1, <3>1 DEF IsTerm
    <3>2. CASE \E m \in at : \E s \in DOMAIN e : q = m \o s
      <4>1. PICK m \in at : \E s \in DOMAIN e : q = m \o s
        BY <3>2
      <4>2. PICK s \in DOMAIN e : q = m \o s
        BY <4>1
      <4>3. m \in Path /\ s \in Path /\ p \in Path
        BY <1>1, <1>2
      <4>4. IsPrefix(p, m) \/ IsPrefix(m, p)
        BY <1>4, <4>2, <4>3, PrefixOfTwo
      <4>5. p = m
        BY <1>1, <1>4, <2>1, <4>4 DEF IsTerm, AreLeaves
      <4>. QED  BY <2>1, <4>5
    <3>. QED  BY <1>1, <3>1, <3>2
  <2>2. CASE \E m \in at : \E s \in DOMAIN e : p = m \o s /\ g[p] = e[s]
    <3>1. PICK m \in at : \E s \in DOMAIN e : p = m \o s /\ g[p] = e[s]
      BY <2>2
    <3>2. PICK s \in DOMAIN e : p = m \o s /\ g[p] = e[s]
      BY <3>1
    <3>3. m \in Path /\ s \in Path /\ q \in Path /\ p \in Path
      BY <1>1, <1>2
    <3>4. IsPrefix(m, q)
      BY <1>4, <3>2, <3>3, PrefixOfJoined, PrefixOfPrefix
    <3>5. CASE q \in DOMAIN w \ at
      <4>1. q = m
        BY <1>1, <3>4, <3>5 DEF AreLeaves
      <4>. QED  BY <3>5, <4>1
    <3>6. CASE \E k \in at : \E u \in DOMAIN e : q = k \o u
      <4>1. PICK k \in at : \E u \in DOMAIN e : q = k \o u
        BY <3>6
      <4>2. PICK u \in DOMAIN e : q = k \o u
        BY <4>1
      <4>3. k \in Path /\ u \in Path /\ k \in DOMAIN w /\ m \in DOMAIN w
        BY <1>1, <1>2
      <4>4. IsPrefix(m, k) \/ IsPrefix(k, m)
        BY <3>3, <3>4, <4>2, <4>3, PrefixOfTwo
      <4>5. m = k
        BY <1>1, <4>3, <4>4 DEF AreLeaves
      <4>6. IsPrefix(s, u)
        BY <1>4, <3>2, <3>3, <4>2, <4>3, <4>5, PrefixBehind
      <4>7. s = u
        BY <1>4, <3>2, <4>6 DEF IsTerm
      <4>. QED  BY <3>2, <4>2, <4>5, <4>7
    <3>. QED  BY <1>1, <3>5, <3>6
  <2>. QED  BY <1>3, <2>1, <2>2
<1>5. ASSUME NEW p \in DOMAIN g, g[p][1] = "reg" PROVE \E x \in Reg : g[p] = Register(x)
  <2>1. CASE p \in DOMAIN w \ at /\ g[p] = w[p]
    BY <1>5, <2>1 DEF IsTerm
  <2>2. CASE \E m \in at : \E s \in DOMAIN e : p = m \o s /\ g[p] = e[s]
    BY <1>5, <2>2 DEF IsTerm
  <2>. QED  BY <1>3, <2>1, <2>2
<1>6. <<>> \in DOMAIN g
  <2>1. CASE <<>> \in at
    <3>. DEFINE none == <<>>
    <3>1. none \in at /\ none \in DOMAIN e /\ none \o none = none
      BY <1>2, <2>1, PrefixEmpty
    <3>. HIDE DEF none
    <3>2. none \o none \in DOMAIN g
      BY <1>1, <3>1
    <3>3. none \in DOMAIN g
      BY <3>1, <3>2
    <3>. QED  BY <3>3 DEF none
  <2>. QED  BY <1>1, <1>2, <2>1
<1>7. IsFiniteSet(DOMAIN g)
  <2>. DEFINE f == [x \in at \X DOMAIN e |-> x[1] \o x[2]]
              U == {f[x] : x \in at \X DOMAIN e}
  <2>1. IsFiniteSet(DOMAIN w) /\ IsFiniteSet(DOMAIN e)
    BY DEF IsTerm
  <2>2. IsFiniteSet(at)
    BY <1>1, <2>1, FS_Subset
  <2>3. IsFiniteSet(at \X DOMAIN e)
    BY <2>1, <2>2, FS_Product
  <2>4. ASSUME NEW p \in at, NEW s \in DOMAIN e PROVE p \o s \in U
    <3>1. f[<<p, s>>] = p \o s /\ <<p, s>> \in at \X DOMAIN e
      OBVIOUS
    <3>. HIDE DEF f
    <3>. QED  BY <3>1
  <2>. HIDE DEF f
  <2>5. IsFiniteSet(U)
    BY <2>3, FiniteImage
  <2>. HIDE DEF U
  <2>6. IsFiniteSet(U \cup DOMAIN w)
    BY <2>1, <2>5, FS_Union
  <2>7. ASSUME NEW q \in DOMAIN g PROVE q \in U \cup DOMAIN w
    <3>1. CASE \E p \in at : \E s \in DOMAIN e : q = p \o s
      <4>1. PICK p \in at : \E s \in DOMAIN e : q = p \o s
        BY <3>1
      <4>. QED  BY <2>4, <4>1
    <3>. QED  BY <1>1, <3>1
  <2>. QED  BY <2>6, <2>7, FS_Subset
<1>8. IsTerm(g)
  BY <1>1, <1>4, <1>5, <1>6, <1>7 DEF IsTerm
<1>9. ASSUME IsExpression(w), IsExpression(e) PROVE IsExpression(g)
  <2>. SUFFICES ASSUME NEW p \in DOMAIN g PROVE g[p][1] \notin {"store", "jump"}
    BY <1>8 DEF IsExpression
  <2>. QED  BY <1>3, <1>9 DEF IsExpression
<1>. QED  BY <1>8, <1>9 DEF g

-----------------------------------------------------------------------------
(***************************************************************************)
(* Counting the effects in a tree, and what of them comes before a place   *)
(* of it and below it.                                                     *)
(***************************************************************************)
LEMMA EffectsFinite ==
  ASSUME NEW e, IsTerm(e)
  PROVE  /\ EffectsIn(e) \subseteq DOMAIN e /\ EffectsIn(e) \subseteq Path
         /\ IsFiniteSet(EffectsIn(e)) /\ Cardinality(EffectsIn(e)) \in Nat
         /\ EffectsIn(e) = {} => Cardinality(EffectsIn(e)) = 0
         /\ \A p : /\ Before(e, p) \subseteq EffectsIn(e) /\ IsFiniteSet(Before(e, p))
                   /\ Cardinality(Before(e, p)) \in Nat
                   /\ Before(e, p) = {} => Cardinality(Before(e, p)) = 0
                   /\ Nested(e, p) \subseteq EffectsIn(e) /\ IsFiniteSet(Nested(e, p))
                   /\ Cardinality(Nested(e, p)) \in Nat
                   /\ Nested(e, p) = {} => Cardinality(Nested(e, p)) = 0
<1>1. EffectsIn(e) \subseteq DOMAIN e /\ DOMAIN e \subseteq Path /\ IsFiniteSet(DOMAIN e)
  BY DEF EffectsIn, Labelled, IsTerm
<1>2. \A p : Before(e, p) \subseteq EffectsIn(e) /\ Nested(e, p) \subseteq EffectsIn(e)
  BY DEF Before, Nested
<1>3. IsFiniteSet(EffectsIn(e))
  BY <1>1, FS_Subset
<1>4. \A T \in SUBSET EffectsIn(e) : IsFiniteSet(T) /\ Cardinality(T) \in Nat
  BY <1>3, FS_Subset, FS_CardinalityType
<1>5. Cardinality({}) = 0
  BY FS_EmptySet
<1>. QED  BY <1>1, <1>2, <1>3, <1>4, <1>5

LEMMA OnlyCalls ==
  ASSUME NEW e, IsExpression(e)
  PROVE  /\ EffectsIn(e) # {} <=> HasCall(e)
         /\ \A p : p \in EffectsIn(e) <=> p \in DOMAIN e /\ e[p][1] = "call"
<1>1. \A p : p \in EffectsIn(e) <=> p \in DOMAIN e /\ e[p][1] = "call"
  BY DEF IsExpression, EffectsIn, Labelled
<1>2. \A p : p \in Labelled(e, {"call"}) <=> p \in DOMAIN e /\ e[p][1] = "call"
  BY DEF Labelled
<1>. QED  BY <1>1, <1>2 DEF HasCall

LEMMA GraftedEffects ==
  ASSUME NEW w, IsTerm(w), NEW e, IsTerm(e), NEW r, NEW at \in SUBSET ReadsAt(w, r),
         NEW tags, "reg" \notin tags
  PROVE  /\ Labelled(w, tags) \cap at = {}
         /\ Labelled(w, tags) \subseteq Labelled(Grafted(w, at, e), tags)
         /\ \A p \in at : \A s \in Labelled(e, tags) : p \o s \in Labelled(Grafted(w, at, e), tags)
         /\ \A q \in Labelled(Grafted(w, at, e), tags) :
              q \in Labelled(w, tags) \/ \E p \in at : \E s \in Labelled(e, tags) : q = p \o s
<1>. DEFINE g == Grafted(w, at, e)
<1>1. /\ at \subseteq DOMAIN w /\ AreLeaves(w, at) /\ at \subseteq Path
      /\ \A q \in DOMAIN g : q \in DOMAIN w \ at \/ \E p \in at : \E s \in DOMAIN e : q = p \o s
      /\ \A q \in DOMAIN w \ at : q \in DOMAIN g /\ g[q] = w[q]
      /\ \A p \in at : \A s \in DOMAIN e : p \o s \in DOMAIN g /\ g[p \o s] = e[s]
      /\ DOMAIN g \subseteq Path /\ IsMap(g)
  BY TermGrafted
<1>. HIDE DEF g
<1>2. \A p \in at : p \in DOMAIN w /\ w[p][1] = "reg"
  BY DEF ReadsAt, Register
<1>3. Labelled(w, tags) \cap at = {}
  BY <1>2 DEF Labelled
<1>4. ASSUME NEW q \in Labelled(w, tags) PROVE q \in Labelled(g, tags)
  BY <1>1, <1>3 DEF Labelled
<1>5. ASSUME NEW p \in at, NEW s \in Labelled(e, tags) PROVE p \o s \in Labelled(g, tags)
  BY <1>1 DEF Labelled
<1>6. ASSUME NEW q \in Labelled(g, tags)
      PROVE  q \in Labelled(w, tags) \/ \E p \in at : \E s \in Labelled(e, tags) : q = p \o s
  <2>1. q \in DOMAIN g /\ g[q][1] \in tags
    BY DEF Labelled
  <2>2. CASE q \in DOMAIN w \ at
    BY <1>1, <2>1, <2>2 DEF Labelled
  <2>3. CASE \E p \in at : \E s \in DOMAIN e : q = p \o s
    <3>1. PICK p \in at : \E s \in DOMAIN e : q = p \o s
      BY <2>3
    <3>2. PICK s \in DOMAIN e : q = p \o s
      BY <3>1
    <3>3. s \in Labelled(e, tags)
      BY <1>1, <2>1, <3>2 DEF Labelled
    <3>. QED  BY <3>2, <3>3
  <2>. QED  BY <1>1, <2>1, <2>2, <2>3
<1>. QED  BY <1>3, <1>4, <1>5, <1>6 DEF g

(***************************************************************************)
(* What holds when a tree is put into another without a change to the      *)
(* order of the effects and the reads of memory.                           *)
(***************************************************************************)
Mergeable(w, at, e) ==
  /\ HasCall(e) \/ ReadsMemory(e) => EffectsIn(w) \subseteq {<<>>}
  /\ HasCall(e) => \E p \in at : at = {p}

CountedApart(g, w, at, e, n) ==
  /\ Cardinality(EffectsIn(g)) = Cardinality(EffectsIn(w)) + n
  /\ \A q \in DOMAIN w \ at : Cardinality(Before(g, q)) = Cardinality(Before(w, q)) + n
  /\ \A p \in at : \A s \in DOMAIN e :
       e[s][1] = "mem" => Cardinality(Before(g, p \o s)) = Cardinality(Before(e, s))
  /\ \A f \in EffectsIn(w) : Cardinality(Nested(g, f)) = Cardinality(Nested(w, f)) + n
  /\ \A p \in at : \A f \in EffectsIn(e) :
       Cardinality(Nested(g, p \o f)) = Cardinality(Nested(e, f))

LEMMA QuietCounts ==
  ASSUME NEW w, IsTerm(w), NEW e, IsExpression(e), NEW r, NEW at \in SUBSET ReadsAt(w, r),
         Mergeable(w, at, e), ~HasCall(e)
  PROVE  CountedApart(Grafted(w, at, e), w, at, e, 0)
<1>. DEFINE g == Grafted(w, at, e)
<1>1. EffectsIn(e) = {} /\ IsTerm(e)
  BY OnlyCalls DEF IsExpression
<1>2. EffectsIn(g) = EffectsIn(w) /\ EffectsIn(w) \cap at = {}
  <2>1. /\ EffectsIn(w) \cap at = {} /\ EffectsIn(w) \subseteq EffectsIn(g)
        /\ \A q \in EffectsIn(g) :
             q \in EffectsIn(w) \/ \E p \in at : \E s \in EffectsIn(e) : q = p \o s
    BY <1>1, GraftedEffects DEF EffectsIn
  <2>. HIDE DEF g
  <2>. QED  BY <1>1, <2>1
<1>3. IsTerm(g)
  BY <1>1, GraftedTerm
<1>4. at \subseteq Path
  BY <1>1, TermGrafted
<1>. HIDE DEF g
<1>5. ASSUME NEW p \in at, NEW s \in DOMAIN e, e[s][1] = "mem"
      PROVE  Cardinality(Before(g, p \o s)) = Cardinality(Before(e, s))
  <2>1. ReadsMemory(e)
    BY <1>5 DEF ReadsMemory, Labelled
  <2>2. EffectsIn(g) \subseteq {<<>>}
    BY <1>2, <2>1 DEF Mergeable
  <2>3. p \o s \in Path
    BY <1>1, <1>4, PathJoined DEF IsTerm
  <2>4. Before(g, p \o s) = {}
    BY <2>2, <2>3, PrefixEmpty DEF Before
  <2>5. Before(e, s) = {}
    BY <1>1 DEF Before
  <2>. QED  BY <2>4, <2>5
<1>6. \A q : Before(g, q) = Before(w, q) /\ Nested(g, q) = Nested(w, q)
  BY <1>2 DEF Before, Nested
<1>7. \A q : Cardinality(Before(w, q)) \in Nat /\ Cardinality(Nested(w, q)) \in Nat
  BY EffectsFinite
<1>8. Cardinality(EffectsIn(w)) \in Nat
  BY EffectsFinite
<1>. QED  BY <1>1, <1>2, <1>5, <1>6, <1>7, <1>8 DEF CountedApart, g

(* What is moved as a whole stays as it is, one level down or more. *)
NoneBelow(others, m) == \A q \in others : IsPrefix(m, q) => q = m

MovedInto(g, e, p, others) == EffectsIn(g) = others \cup {p \o f : f \in EffectsIn(e)}

LEMMA EffectsMoved ==
  ASSUME NEW e, IsTerm(e), NEW p \in Path, NEW g, NEW others, MovedInto(g, e, p, others), NEW s \in Path
  PROVE  /\ (\A q \in others : IsPrefix(q, p \o s)) =>
              Cardinality(Before(g, p \o s)) = Cardinality(Before(e, s))
         /\ NoneBelow(others, p \o s) =>
              Cardinality(Nested(g, p \o s)) = Cardinality(Nested(e, s))
<1>1. EffectsIn(e) \subseteq Path
  BY EffectsFinite
<1>2. ASSUME \A q \in others : IsPrefix(q, p \o s)
      PROVE  Cardinality(Before(g, p \o s)) = Cardinality(Before(e, s))
  <2>1. Before(e, s) \in SUBSET Path /\ IsFiniteSet(Before(e, s))
    BY <1>1, EffectsFinite
  <2>2. ASSUME NEW f \in EffectsIn(e) PROVE IsPrefix(p \o f, p \o s) <=> IsPrefix(f, s)
    BY <1>1, PrefixBehind
  <2>3. ASSUME NEW q \in Before(g, p \o s) PROVE q \in {p \o f : f \in Before(e, s)}
    <3>1. q \in EffectsIn(g) /\ ~IsPrefix(q, p \o s)
      BY DEF Before
    <3>2. PICK f \in EffectsIn(e) : q = p \o f
      BY <1>2, <3>1 DEF MovedInto
    <3>3. f \in Before(e, s)
      BY <2>2, <3>1, <3>2 DEF Before
    <3>. QED  BY <3>2, <3>3
  <2>4. ASSUME NEW f \in Before(e, s) PROVE p \o f \in Before(g, p \o s)
    <3>1. f \in EffectsIn(e) /\ ~IsPrefix(f, s)
      BY DEF Before
    <3>2. p \o f \in EffectsIn(g)
      BY <3>1 DEF MovedInto
    <3>. QED  BY <2>2, <3>1, <3>2 DEF Before
  <2>5. Before(g, p \o s) = {p \o f : f \in Before(e, s)}
    BY <2>3, <2>4
  <2>. QED  BY <2>1, <2>5, FiniteBelow
<1>3. ASSUME NoneBelow(others, p \o s)
      PROVE  Cardinality(Nested(g, p \o s)) = Cardinality(Nested(e, s))
  <2>1. Nested(e, s) \in SUBSET Path /\ IsFiniteSet(Nested(e, s))
    BY <1>1, EffectsFinite
  <2>2. ASSUME NEW f \in EffectsIn(e)
        PROVE  (IsPrefix(p \o s, p \o f) <=> IsPrefix(s, f)) /\ (p \o s = p \o f <=> s = f)
    BY <1>1, PrefixBehind
  <2>3. ASSUME NEW q \in Nested(g, p \o s) PROVE q \in {p \o f : f \in Nested(e, s)}
    <3>1. q \in EffectsIn(g) /\ q # p \o s /\ IsPrefix(p \o s, q)
      BY DEF Nested
    <3>2. PICK f \in EffectsIn(e) : q = p \o f
      BY <1>3, <3>1 DEF MovedInto, NoneBelow
    <3>3. f \in Nested(e, s)
      BY <2>2, <3>1, <3>2 DEF Nested
    <3>. QED  BY <3>2, <3>3
  <2>4. ASSUME NEW f \in Nested(e, s) PROVE p \o f \in Nested(g, p \o s)
    <3>1. f \in EffectsIn(e) /\ f # s /\ IsPrefix(s, f)
      BY DEF Nested
    <3>2. p \o f \in EffectsIn(g)
      BY <3>1 DEF MovedInto
    <3>. QED  BY <2>2, <3>1, <3>2 DEF Nested
  <2>5. Nested(g, p \o s) = {p \o f : f \in Nested(e, s)}
    BY <2>3, <2>4
  <2>. QED  BY <2>1, <2>5, FiniteBelow
<1>. QED  BY <1>2, <1>3

JoinedEffects(g, w, at, e) ==
  /\ EffectsIn(w) \cap at = {}
  /\ EffectsIn(w) \subseteq EffectsIn(g)
  /\ \A m \in at : \A f \in EffectsIn(e) : m \o f \in EffectsIn(g)
  /\ \A q \in EffectsIn(g) : q \in EffectsIn(w) \/ \E m \in at : \E s \in EffectsIn(e) : q = m \o s

LEMMA EffectsGrafted ==
  ASSUME NEW w, IsTerm(w), NEW e, IsTerm(e), NEW r, NEW at \in SUBSET ReadsAt(w, r)
  PROVE  JoinedEffects(Grafted(w, at, e), w, at, e)
<1>. DEFINE tags == {"call", "store", "jump"}
<1>1. "reg" \notin tags
  OBVIOUS
<1>. HIDE DEF tags
<1>2. /\ Labelled(w, tags) \cap at = {}
      /\ Labelled(w, tags) \subseteq Labelled(Grafted(w, at, e), tags)
      /\ \A m \in at : \A f \in Labelled(e, tags) : m \o f \in Labelled(Grafted(w, at, e), tags)
      /\ \A q \in Labelled(Grafted(w, at, e), tags) :
           q \in Labelled(w, tags) \/ \E m \in at : \E s \in Labelled(e, tags) : q = m \o s
  BY <1>1, GraftedEffects
<1>. QED  BY <1>2 DEF JoinedEffects, EffectsIn, tags

LEMMA CallCounts ==
  ASSUME NEW w, IsTerm(w), NEW e, IsExpression(e), NEW r, NEW at \in SUBSET ReadsAt(w, r),
         NEW p, at = {p}, EffectsIn(w) \subseteq {<<>>}
  PROVE  CountedApart(Grafted(w, at, e), w, at, e, Cardinality(EffectsIn(e)))
<1>. DEFINE g == Grafted(w, at, e)
            below == {p \o f : f \in EffectsIn(e)}
            n == Cardinality(EffectsIn(e))
<1>0. IsTerm(e)
  BY DEF IsExpression
<1>1. p \in Path /\ p \in DOMAIN w /\ p \notin EffectsIn(w) /\ AreLeaves(w, {p})
  <2>1. at \subseteq DOMAIN w /\ AreLeaves(w, at) /\ at \subseteq Path
    BY <1>0, TermGrafted
  <2>2. p \notin EffectsIn(w)
    BY DEF ReadsAt, Register, EffectsIn, Labelled
  <2>. QED  BY <2>1, <2>2
<1>2. EffectsIn(g) = EffectsIn(w) \cup below
  <2>1. /\ EffectsIn(w) \subseteq EffectsIn(g)
        /\ \A m \in at : \A f \in EffectsIn(e) : m \o f \in EffectsIn(g)
        /\ \A q \in EffectsIn(g) :
             q \in EffectsIn(w) \/ \E m \in at : \E s \in EffectsIn(e) : q = m \o s
    <3>1. JoinedEffects(g, w, at, e)
      BY <1>0, EffectsGrafted
    <3>. HIDE DEF g
    <3>. QED  BY <3>1 DEF JoinedEffects
  <2>. HIDE DEF g
  <2>2. ASSUME NEW q \in EffectsIn(g) PROVE q \in EffectsIn(w) \cup below
    BY <2>1
  <2>3. ASSUME NEW q \in below PROVE q \in EffectsIn(g)
    BY <2>1
  <2>. QED  BY <2>1, <2>2, <2>3
<1>3. EffectsIn(e) \in SUBSET Path /\ IsFiniteSet(EffectsIn(e)) /\ n \in Nat
  BY <1>0, EffectsFinite
<1>4. IsFiniteSet(below) /\ Cardinality(below) = n
  BY <1>1, <1>3, FiniteBelow
<1>. HIDE DEF g, n
<1>5. ASSUME NEW f \in EffectsIn(e) PROVE p \o f \in Path /\ IsPrefix(p, p \o f)
  BY <1>1, <1>3, PathJoined, PrefixOfJoined
<1>6. ASSUME NEW q \in EffectsIn(w), NEW s \in Path
      PROVE  q = <<>> /\ p \o s # <<>> /\ q \notin below /\ ~IsPrefix(p \o s, q)
  <2>1. q = <<>> /\ p # <<>>
    BY <1>1
  <2>2. /\ Len(p \o s) = Len(p) + Len(s) /\ Len(p) \in Nat /\ Len(s) \in Nat
        /\ p \o s \in Path
    BY <1>1, PathJoined
  <2>3. Len(p) # 0
    BY <1>1, <2>1 DEF Path
  <2>4. Len(p \o s) # 0
    BY <2>2, <2>3
  <2>5. p \o s # <<>>
    BY <2>4
  <2>6. ASSUME NEW f \in EffectsIn(e) PROVE p \o f # <<>>
    <3>1. /\ Len(p \o f) = Len(p) + Len(f) /\ Len(f) \in Nat
      BY <1>1, <1>3, PathJoined
    <3>2. Len(p \o f) # 0
      BY <2>2, <2>3, <3>1
    <3>. QED  BY <3>2
  <2>7. ~IsPrefix(p \o s, <<>>)
    <3>. SUFFICES ASSUME IsPrefix(p \o s, <<>>) PROVE FALSE
      OBVIOUS
    <3>1. p \o s = <<>>
      BY <2>2, PrefixEmpty, PrefixSame
    <3>. QED  BY <2>5, <3>1
  <2>. QED  BY <2>1, <2>5, <2>6, <2>7
<1>7. /\ IsFiniteSet(EffectsIn(w)) /\ Cardinality(EffectsIn(w)) \in Nat
      /\ \A q : Before(w, q) \subseteq EffectsIn(w) /\ Nested(w, q) \subseteq EffectsIn(w)
  BY EffectsFinite
<1>8. Cardinality(EffectsIn(g)) = Cardinality(EffectsIn(w)) + n
  <2>1. EffectsIn(w) \cap below = {}
    <3>1. <<>> \in Path
      BY <1>1, PrefixEmpty
    <3>. QED  BY <1>6, <3>1
  <2>2. Cardinality(EffectsIn(w) \cup below) =
          Cardinality(EffectsIn(w)) + Cardinality(below) - Cardinality(EffectsIn(w) \cap below)
    BY <1>4, <1>7, FS_Union
  <2>3. Cardinality({}) = 0
    BY FS_EmptySet
  <2>4. Cardinality(EffectsIn(g)) = Cardinality(EffectsIn(w)) + n - 0
    BY <1>2, <1>4, <2>1, <2>2, <2>3
  <2>. QED  BY <1>3, <1>7, <2>4
<1>9. Cardinality({}) = 0
  BY FS_EmptySet
<1>10. ASSUME NEW q \in DOMAIN w \ at
       PROVE  Cardinality(Before(g, q)) = Cardinality(Before(w, q)) + n
  <2>1. q \in Path /\ ~IsPrefix(p, q)
    BY <1>1 DEF AreLeaves, IsTerm
  <2>2. \A f \in EffectsIn(e) : ~IsPrefix(p \o f, q)
    BY <1>1, <1>5, <2>1, PrefixOfPrefix
  <2>3. \A f \in EffectsIn(w) : IsPrefix(f, q)
    BY <2>1, PrefixEmpty
  <2>4. Before(g, q) = below
    BY <1>2, <2>2, <2>3 DEF Before
  <2>5. Before(w, q) = {}
    BY <2>3 DEF Before
  <2>. QED  BY <1>3, <1>4, <1>9, <2>4, <2>5
<1>11. ASSUME NEW s \in DOMAIN e
       PROVE  Cardinality(Before(g, p \o s)) = Cardinality(Before(e, s))
  <2>1. s \in Path /\ p \o s \in Path
    BY <1>0, <1>1, PathJoined DEF IsTerm
  <2>2. \A q \in EffectsIn(w) : IsPrefix(q, p \o s)
    BY <2>1, PrefixEmpty
  <2>. HIDE DEF below
  <2>3. MovedInto(g, e, p, EffectsIn(w))
    BY <1>2 DEF below, MovedInto
  <2>. QED  BY <1>0, <1>1, <2>1, <2>2, <2>3, EffectsMoved
<1>12. ASSUME NEW f \in EffectsIn(w)
       PROVE  Cardinality(Nested(g, f)) = Cardinality(Nested(w, f)) + n
  <2>1. f = <<>> /\ f \notin below
    BY <1>3, <1>6, PrefixEmpty
  <2>2. \A m \in EffectsIn(e) : IsPrefix(<<>>, p \o m)
    BY <1>5, PrefixEmpty
  <2>3. Nested(g, f) = below
    BY <1>2, <2>1, <2>2 DEF Nested
  <2>4. Nested(w, f) = {}
    BY <2>1 DEF Nested
  <2>. QED  BY <1>3, <1>4, <1>9, <2>3, <2>4
<1>13. ASSUME NEW f \in EffectsIn(e)
       PROVE  Cardinality(Nested(g, p \o f)) = Cardinality(Nested(e, f))
  <2>1. f \in Path
    BY <1>3
  <2>2. NoneBelow(EffectsIn(w), p \o f)
    BY <1>6, <2>1 DEF NoneBelow
  <2>. HIDE DEF below
  <2>3. MovedInto(g, e, p, EffectsIn(w))
    BY <1>2 DEF below, MovedInto
  <2>. QED  BY <1>0, <1>1, <2>1, <2>2, <2>3, EffectsMoved
<1>. QED  BY <1>8, <1>10, <1>11, <1>12, <1>13 DEF CountedApart, g, n

LEMMA GraftedCounts ==
  ASSUME NEW w, IsTerm(w), NEW e, IsExpression(e), NEW r, NEW at \in SUBSET ReadsAt(w, r),
         Mergeable(w, at, e)
  PROVE  CountedApart(Grafted(w, at, e), w, at, e, Cardinality(EffectsIn(e)))
<1>1. CASE ~HasCall(e)
  <2>1. Cardinality(EffectsIn(e)) = 0
    BY <1>1, OnlyCalls, EffectsFinite DEF IsExpression
  <2>. QED  BY <1>1, <2>1, QuietCounts
<1>2. CASE HasCall(e)
  <2>1. PICK p \in at : at = {p}
    BY <1>2 DEF Mergeable
  <2>2. EffectsIn(w) \subseteq {<<>>}
    BY <1>2 DEF Mergeable
  <2>. QED  BY <2>1, <2>2, CallCounts
<1>. QED  BY <1>1, <1>2

-----------------------------------------------------------------------------
(***************************************************************************)
(* The value of a tree.                                                    *)
(***************************************************************************)
AreValues(s) == s.effects \in Nat /\ \A r \in Reg : DOMAIN s.env[r] \subseteq Path

LEMMA ReadOf ==
  ASSUME NEW e, IsTerm(e), NEW q \in DOMAIN e, e[q][1] = "reg"
  PROVE  e[q][2] \in RegistersOf(e) /\ e[q][2] \in Reg /\ q \in ReadsAt(e, e[q][2])
<1>1. PICK x \in Reg : e[q] = Register(x)
  BY DEF IsTerm
<1>2. e[q][2] = x
  BY <1>1 DEF Register
<1>3. q \in ReadsAt(e, x)
  BY <1>1 DEF ReadsAt
<1>. QED  BY <1>2, <1>3 DEF RegistersOf

LEMMA InputsAre ==
  ASSUME NEW e, IsTerm(e), NEW s, AreValues(s)
  PROVE  /\ DOMAIN Inputs(e, s) = Labelled(e, {"reg", "mem"})
         /\ AreLeaves(e, DOMAIN Inputs(e, s))
         /\ \A p \in DOMAIN Inputs(e, s) :
              /\ p \in DOMAIN e /\ e[p][1] \in {"reg", "mem"}
              /\ DOMAIN Inputs(e, s)[p] \subseteq Path
              /\ e[p][1] = "reg" => Inputs(e, s)[p] = s.env[e[p][2]]
              /\ e[p][1] = "mem" =>
                   Inputs(e, s)[p] = Leaf(<<"mem", s.effects + Cardinality(Before(e, p))>>)
<1>. DEFINE by == Inputs(e, s)
<1>1. DOMAIN by = Labelled(e, {"reg", "mem"})
  BY DEF Inputs
<1>2. \A p \in Labelled(e, {"reg", "mem"}) : p \in DOMAIN e /\ e[p][1] \in {"reg", "mem"}
  BY DEF Labelled
<1>3. AreLeaves(e, Labelled(e, {"reg", "mem"}))
  BY <1>2 DEF AreLeaves, IsTerm
<1>4. \A p \in Labelled(e, {"reg", "mem"}) :
        by[p] = IF e[p][1] = "reg" THEN s.env[e[p][2]]
                ELSE Leaf(<<"mem", s.effects + Cardinality(Before(e, p))>>)
  BY DEF Inputs
<1>. HIDE DEF by
<1>5. ASSUME NEW p \in DOMAIN by
      PROVE  /\ p \in DOMAIN e /\ e[p][1] \in {"reg", "mem"}
             /\ DOMAIN by[p] \subseteq Path
             /\ e[p][1] = "reg" => by[p] = s.env[e[p][2]]
             /\ e[p][1] = "mem" =>
                  by[p] = Leaf(<<"mem", s.effects + Cardinality(Before(e, p))>>)
  <2>1. p \in DOMAIN e /\ e[p][1] \in {"reg", "mem"}
    BY <1>1, <1>2
  <2>2. CASE e[p][1] = "reg"
    <3>1. by[p] = s.env[e[p][2]]
      BY <1>1, <1>4, <2>2
    <3>2. e[p][2] \in Reg
      BY <2>1, <2>2, ReadOf
    <3>3. DOMAIN s.env[e[p][2]] \subseteq Path
      BY <3>2 DEF AreValues
    <3>4. DOMAIN by[p] \subseteq Path
      BY <3>1, <3>3
    <3>. QED  BY <2>1, <2>2, <3>1, <3>4
  <2>3. CASE e[p][1] # "reg"
    <3>1. by[p] = Leaf(<<"mem", s.effects + Cardinality(Before(e, p))>>)
      BY <1>1, <1>4, <2>3
    <3>2. DOMAIN by[p] = {<<>>}
      BY <3>1, LeafTree
    <3>3. <<>> \in Path
      BY DEF Path
    <3>. QED  BY <2>1, <2>3, <3>1, <3>2, <3>3
  <2>. QED  BY <2>2, <2>3
<1>. QED  BY <1>1, <1>3, <1>5 DEF by

LEMMA ValueIs ==
  ASSUME NEW e, IsTerm(e), NEW s, AreValues(s)
  PROVE  Filled(Value(e, s), e, Inputs(e, s)) /\ DOMAIN Value(e, s) \subseteq Path
<1>. DEFINE by == Inputs(e, s)
<1>1. AreLeaves(e, DOMAIN by) /\ \A p \in DOMAIN by : DOMAIN by[p] \subseteq Path
  BY InputsAre
<1>2. DOMAIN e \subseteq Path
  BY DEF IsTerm
<1>. HIDE DEF by
<1>3. Filled(Substitute(e, by), e, by) /\ DOMAIN Substitute(e, by) \subseteq Path
  BY <1>1, <1>2, SubstituteIs
<1>. QED  BY <1>3 DEF Value, by

LEMMA ValueSame ==
  ASSUME NEW e, IsTerm(e), NEW s, NEW s2,
         \A x \in RegistersOf(e) : s2.env[x] = s.env[x],
         ReadsMemory(e) => s2.effects = s.effects
  PROVE  Value(e, s2) = Value(e, s)
<1>1. ASSUME NEW p \in Labelled(e, {"reg", "mem"})
      PROVE  (IF e[p][1] = "reg" THEN s2.env[e[p][2]]
              ELSE Leaf(<<"mem", s2.effects + Cardinality(Before(e, p))>>))
             = (IF e[p][1] = "reg" THEN s.env[e[p][2]]
                ELSE Leaf(<<"mem", s.effects + Cardinality(Before(e, p))>>))
  <2>1. p \in DOMAIN e /\ e[p][1] \in {"reg", "mem"}
    BY DEF Labelled
  <2>2. CASE e[p][1] = "reg"
    <3>1. e[p][2] \in RegistersOf(e)
      BY <2>1, <2>2, ReadOf
    <3>. QED  BY <2>2, <3>1
  <2>3. CASE e[p][1] # "reg"
    <3>1. ReadsMemory(e)
      BY <2>1, <2>3 DEF ReadsMemory, Labelled
    <3>. QED  BY <2>3, <3>1
  <2>. QED  BY <2>2, <2>3
<1>2. Inputs(e, s2) = Inputs(e, s)
  BY <1>1 DEF Inputs
<1>. QED  BY <1>2 DEF Value

(***************************************************************************)
(* What is computed from the value of a register is the same when the      *)
(* expression of the value stands in the place of the register.            *)
(***************************************************************************)
Merged(w, at, r, e, s, s2, s0) ==
  /\ at = ReadsAt(w, r) /\ Mergeable(w, at, e)
  /\ \A x \in RegistersOf(w) : x # r => s2.env[x] = s.env[x]
  /\ \A x \in RegistersOf(e) : s2.env[x] = s0.env[x]
  /\ s.env[r] = Value(e, s0)
  /\ s.effects = s2.effects + Cardinality(EffectsIn(e))
  /\ HasCall(e) \/ ReadsMemory(e) => s2.effects = s0.effects

LEMMA ValueMerged ==
  ASSUME NEW w, IsTerm(w), NEW e, IsExpression(e), NEW r, NEW at,
         NEW s, AreValues(s), NEW s2, AreValues(s2), NEW s0, AreValues(s0),
         Merged(w, at, r, e, s, s2, s0)
  PROVE  Value(Grafted(w, at, e), s2) = Value(w, s)
<1>. DEFINE g == Grafted(w, at, e)
            n == Cardinality(EffectsIn(e))
            by == Inputs(w, s)
            own == Inputs(e, s0)
            after == Inputs(g, s2)
<1>1. IsTerm(e) /\ at \in SUBSET ReadsAt(w, r) /\ n \in Nat
  BY EffectsFinite DEF IsExpression, Merged
<1>2. IsTerm(g)
  BY <1>1, GraftedTerm
<1>3. CountedApart(g, w, at, e, n)
  BY <1>1, GraftedCounts DEF Merged
<1>4. /\ at \subseteq DOMAIN w /\ AreLeaves(w, at) /\ at \subseteq Path
      /\ \A q \in DOMAIN g : q \in DOMAIN w \ at \/ \E p \in at : \E f \in DOMAIN e : q = p \o f
      /\ \A q \in DOMAIN w \ at : q \in DOMAIN g /\ g[q] = w[q]
      /\ \A p \in at : \A f \in DOMAIN e : p \o f \in DOMAIN g /\ g[p \o f] = e[f]
      /\ DOMAIN g \subseteq Path /\ IsMap(g)
  BY <1>1, TermGrafted
<1>. HIDE DEF g, n
<1>5. /\ DOMAIN by = Labelled(w, {"reg", "mem"}) /\ AreLeaves(w, DOMAIN by)
      /\ \A p \in DOMAIN by :
           /\ p \in DOMAIN w /\ w[p][1] \in {"reg", "mem"} /\ DOMAIN by[p] \subseteq Path
           /\ w[p][1] = "reg" => by[p] = s.env[w[p][2]]
           /\ w[p][1] = "mem" => by[p] = Leaf(<<"mem", s.effects + Cardinality(Before(w, p))>>)
  BY InputsAre
<1>6. /\ DOMAIN own = Labelled(e, {"reg", "mem"}) /\ AreLeaves(e, DOMAIN own)
      /\ \A p \in DOMAIN own :
           /\ p \in DOMAIN e /\ e[p][1] \in {"reg", "mem"} /\ DOMAIN own[p] \subseteq Path
           /\ e[p][1] = "reg" => own[p] = s0.env[e[p][2]]
           /\ e[p][1] = "mem" => own[p] = Leaf(<<"mem", s0.effects + Cardinality(Before(e, p))>>)
  BY <1>1, InputsAre
<1>7. /\ DOMAIN after = Labelled(g, {"reg", "mem"}) /\ AreLeaves(g, DOMAIN after)
      /\ \A p \in DOMAIN after :
           /\ p \in DOMAIN g /\ g[p][1] \in {"reg", "mem"} /\ DOMAIN after[p] \subseteq Path
           /\ g[p][1] = "reg" => after[p] = s2.env[g[p][2]]
           /\ g[p][1] = "mem" => after[p] = Leaf(<<"mem", s2.effects + Cardinality(Before(g, p))>>)
  BY <1>2, InputsAre
<1>. HIDE DEF by, own, after
<1>8. ASSUME NEW p \in at PROVE p \in DOMAIN by /\ by[p] = Substitute(e, own)
  <2>1. p \in DOMAIN w /\ w[p] = Register(r)
    BY <1>1 DEF ReadsAt
  <2>2. w[p][1] = "reg" /\ w[p][2] = r
    BY <2>1 DEF Register
  <2>3. p \in DOMAIN by
    BY <1>5, <2>1, <2>2 DEF Labelled
  <2>4. by[p] = s.env[r]
    BY <1>5, <2>2, <2>3
  <2>. QED  BY <2>3, <2>4 DEF Merged, Value, own
<1>9. ASSUME NEW q \in DOMAIN after
      PROVE  q \in DOMAIN by \ at \/ \E p \in at : \E f \in DOMAIN own : q = p \o f
  <2>1. q \in DOMAIN g /\ g[q][1] \in {"reg", "mem"}
    BY <1>7
  <2>2. CASE q \in DOMAIN w \ at
    BY <1>4, <1>5, <2>1, <2>2 DEF Labelled
  <2>3. CASE \E p \in at : \E f \in DOMAIN e : q = p \o f
    <3>1. PICK p \in at : \E f \in DOMAIN e : q = p \o f
      BY <2>3
    <3>2. PICK f \in DOMAIN e : q = p \o f
      BY <3>1
    <3>3. f \in DOMAIN own
      BY <1>4, <1>6, <2>1, <3>2 DEF Labelled
    <3>. QED  BY <3>2, <3>3
  <2>. QED  BY <1>4, <2>1, <2>2, <2>3
<1>10. ASSUME NEW q \in DOMAIN by \ at PROVE q \in DOMAIN after /\ after[q] = by[q]
  <2>1. q \in DOMAIN w \ at /\ w[q][1] \in {"reg", "mem"} /\ q \in DOMAIN g /\ g[q] = w[q]
    BY <1>4, <1>5
  <2>2. q \in DOMAIN after
    BY <1>7, <2>1 DEF Labelled
  <2>3. CASE w[q][1] = "reg"
    <3>1. w[q][2] \in RegistersOf(w) /\ q \in ReadsAt(w, w[q][2])
      BY <2>1, <2>3, ReadOf
    <3>2. w[q][2] # r
      BY <2>1, <3>1 DEF Merged
    <3>3. s2.env[w[q][2]] = s.env[w[q][2]]
      BY <3>1, <3>2 DEF Merged
    <3>4. by[q] = s.env[w[q][2]] /\ after[q] = s2.env[w[q][2]]
      BY <1>5, <1>7, <2>1, <2>2, <2>3
    <3>. QED  BY <2>2, <3>3, <3>4
  <2>4. CASE w[q][1] = "mem"
    <3>1. Cardinality(Before(g, q)) = Cardinality(Before(w, q)) + n
      BY <1>3, <2>1 DEF CountedApart
    <3>2. s.effects = s2.effects + n /\ s2.effects \in Nat
      BY DEF Merged, AreValues, n
    <3>3. Cardinality(Before(w, q)) \in Nat
      BY EffectsFinite
    <3>4. s2.effects + Cardinality(Before(g, q)) = s.effects + Cardinality(Before(w, q))
      BY <1>1, <3>1, <3>2, <3>3
    <3>5. /\ by[q] = Leaf(<<"mem", s.effects + Cardinality(Before(w, q))>>)
          /\ after[q] = Leaf(<<"mem", s2.effects + Cardinality(Before(g, q))>>)
      BY <1>5, <1>7, <2>1, <2>2, <2>4
    <3>. QED  BY <2>2, <3>4, <3>5
  <2>. QED  BY <2>1, <2>3, <2>4
<1>11. ASSUME NEW p \in at, NEW f \in DOMAIN own
       PROVE  p \o f \in DOMAIN after /\ after[p \o f] = own[f]
  <2>1. f \in DOMAIN e /\ e[f][1] \in {"reg", "mem"} /\ p \o f \in DOMAIN g /\ g[p \o f] = e[f]
    BY <1>4, <1>6
  <2>2. p \o f \in DOMAIN after
    BY <1>7, <2>1 DEF Labelled
  <2>3. CASE e[f][1] = "reg"
    <3>1. e[f][2] \in RegistersOf(e)
      BY <1>1, <2>1, <2>3, ReadOf
    <3>2. s2.env[e[f][2]] = s0.env[e[f][2]]
      BY <3>1 DEF Merged
    <3>3. own[f] = s0.env[e[f][2]] /\ after[p \o f] = s2.env[e[f][2]]
      BY <1>6, <1>7, <2>1, <2>2, <2>3
    <3>. QED  BY <2>2, <3>2, <3>3
  <2>4. CASE e[f][1] = "mem"
    <3>1. Cardinality(Before(g, p \o f)) = Cardinality(Before(e, f))
      BY <1>3, <2>1, <2>4 DEF CountedApart
    <3>2. ReadsMemory(e)
      BY <2>1, <2>4 DEF ReadsMemory, Labelled
    <3>3. s2.effects = s0.effects
      BY <3>2 DEF Merged
    <3>4. /\ own[f] = Leaf(<<"mem", s0.effects + Cardinality(Before(e, f))>>)
          /\ after[p \o f] = Leaf(<<"mem", s2.effects + Cardinality(Before(g, p \o f))>>)
      BY <1>6, <1>7, <2>1, <2>2, <2>4
    <3>. QED  BY <2>2, <3>1, <3>3, <3>4
  <2>. QED  BY <2>1, <2>3, <2>4
<1>12. Spread(after, by, at, own)
  BY <1>9, <1>10, <1>11 DEF Spread
<1>13. DOMAIN w \subseteq Path /\ DOMAIN e \subseteq Path /\ at \subseteq DOMAIN by
  BY <1>1, <1>8 DEF IsTerm
<1>14. Substitute(g, after) = Substitute(w, by)
  <2>1. /\ \A p \in DOMAIN by : DOMAIN by[p] \subseteq Path
        /\ \A p \in DOMAIN own : DOMAIN own[p] \subseteq Path
        /\ \A p \in at : by[p] = Substitute(e, own)
        /\ AreLeaves(w, DOMAIN by) /\ AreLeaves(e, DOMAIN own)
    BY <1>5, <1>6, <1>8
  <2>2. AreLeaves(Grafted(w, at, e), DOMAIN after)
    BY <1>7 DEF g
  <2>3. Substitute(Grafted(w, at, e), after) = Substitute(w, by)
    BY <1>12, <1>13, <2>1, <2>2, SubstituteGrafted
  <2>. QED  BY <2>3 DEF g
<1>. QED  BY <1>14 DEF Value, g, by, after

-----------------------------------------------------------------------------
(***************************************************************************)
(* Parts of values, and the effects that see them.                         *)
(***************************************************************************)
LEMMA SubtreeIs ==
  ASSUME NEW v, DOMAIN v \subseteq Path, NEW p \in Path
  PROVE  LET t == Subtree(v, p) IN
         /\ IsMap(t) /\ DOMAIN t \subseteq Path
         /\ \A q \in Path : q \in DOMAIN t <=> p \o q \in DOMAIN v
         /\ \A q \in DOMAIN t : t[q] = v[p \o q]
<1>. DEFINE t == Subtree(v, p)
            D == {SubSeq(s, Len(p) + 1, Len(s)) : s \in {s \in DOMAIN v : IsPrefix(p, s)}}
<1>1. t = [q \in D |-> v[p \o q]]
  BY DEF Subtree
<1>2. ASSUME NEW q \in D PROVE q \in Path /\ p \o q \in DOMAIN v
  <2>1. PICK s \in DOMAIN v : IsPrefix(p, s) /\ q = SubSeq(s, Len(p) + 1, Len(s))
    OBVIOUS
  <2>2. PICK u \in Path : s = p \o u
    BY <2>1, PathBelow
  <2>3. q = u
    BY <2>1, <2>2, RestIs
  <2>. QED  BY <2>1, <2>2, <2>3
<1>3. ASSUME NEW q \in Path, p \o q \in DOMAIN v PROVE q \in D
  <2>. DEFINE s == p \o q
  <2>1. s \in DOMAIN v /\ IsPrefix(p, s) /\ SubSeq(s, Len(p) + 1, Len(s)) = q
    BY <1>3, PrefixOfJoined, RestIs
  <2>. HIDE DEF s
  <2>2. s \in {x \in DOMAIN v : IsPrefix(p, x)}
    BY <2>1
  <2>3. SubSeq(s, Len(p) + 1, Len(s)) \in D
    BY <2>2
  <2>. QED  BY <2>1, <2>3
<1>. HIDE DEF t, D
<1>4. DOMAIN t = D /\ IsMap(t) /\ \A q \in D : t[q] = v[p \o q]
  BY <1>1 DEF IsMap
<1>. QED  BY <1>2, <1>3, <1>4 DEF t

LEMMA SubtreeBelow ==
  ASSUME NEW v, DOMAIN v \subseteq Path, NEW u, DOMAIN u \subseteq Path, NEW m \in Path,
         IsBelow(u, v, m), NEW f \in Path
  PROVE  Subtree(v, m \o f) = Subtree(u, f)
<1>. DEFINE p == m \o f
            t == Subtree(v, p)
            b == Subtree(u, f)
<1>1. p \in Path
  BY PathJoined
<1>. HIDE DEF p
<1>2. /\ IsMap(t) /\ DOMAIN t \subseteq Path
      /\ \A q \in Path : q \in DOMAIN t <=> p \o q \in DOMAIN v
      /\ \A q \in DOMAIN t : t[q] = v[p \o q]
  BY <1>1, SubtreeIs
<1>3. /\ IsMap(b) /\ DOMAIN b \subseteq Path
      /\ \A q \in Path : q \in DOMAIN b <=> f \o q \in DOMAIN u
      /\ \A q \in DOMAIN b : b[q] = u[f \o q]
  BY SubtreeIs
<1>. HIDE DEF t, b
<1>4. ASSUME NEW q \in Path
      PROVE  /\ p \o q \in DOMAIN v <=> f \o q \in DOMAIN u
             /\ f \o q \in DOMAIN u => v[p \o q] = u[f \o q]
  <2>1. f \o q \in Path
    BY PathJoined
  <2>2. p \o q = m \o (f \o q)
    BY PathsJoined DEF p
  <2>. QED  BY <2>1, <2>2, Zenon DEF IsBelow
<1>5. DOMAIN t = DOMAIN b
  BY <1>2, <1>3, <1>4
<1>6. \A q \in DOMAIN t : t[q] = b[q]
  BY <1>2, <1>3, <1>4, <1>5
<1>7. t = b
  BY <1>2, <1>3, <1>5, <1>6, SameMap
<1>. QED  BY <1>7 DEF t, b, p

LEMMA SubtreeWhole ==
  ASSUME NEW v, IsMap(v), DOMAIN v \subseteq Path
  PROVE  Subtree(v, <<>>) = v
<1>. DEFINE none == <<>>
            t == Subtree(v, none)
<1>1. none \in Path
  BY DEF Path
<1>2. \A q \in Path : none \o q = q
  BY DEF Path
<1>. HIDE DEF none
<1>3. /\ IsMap(t) /\ DOMAIN t \subseteq Path
      /\ \A q \in Path : q \in DOMAIN t <=> none \o q \in DOMAIN v
      /\ \A q \in DOMAIN t : t[q] = v[none \o q]
  BY <1>1, SubtreeIs
<1>. HIDE DEF t
<1>4. DOMAIN t = DOMAIN v /\ \A q \in DOMAIN t : t[q] = v[q]
  BY <1>2, <1>3
<1>5. t = v
  BY <1>3, <1>4, SameMap
<1>. QED  BY <1>5 DEF t, none

LEMMA EventsMerged ==
  ASSUME NEW w, IsTerm(w), NEW e, IsExpression(e), NEW r, NEW at,
         NEW s, AreValues(s), NEW s2, AreValues(s2), NEW s0, AreValues(s0),
         Merged(w, at, r, e, s, s2, s0)
  PROVE  Events(Grafted(w, at, e), Value(w, s), s2.effects)
           = Events(w, Value(w, s), s.effects) \cup Events(e, Value(e, s0), s0.effects)
<1>. DEFINE g == Grafted(w, at, e)
            n == Cardinality(EffectsIn(e))
            by == Inputs(w, s)
            v == Value(w, s)
            x == Value(e, s0)
<1>1. IsTerm(e) /\ at \in SUBSET ReadsAt(w, r) /\ n \in Nat /\ EffectsIn(e) \subseteq Path
  BY EffectsFinite DEF IsExpression, Merged
<1>2. CountedApart(g, w, at, e, n)
  BY <1>1, GraftedCounts DEF Merged
<1>3. at \subseteq Path
  BY <1>1, TermGrafted
<1>4. /\ EffectsIn(w) \cap at = {}
      /\ EffectsIn(w) \subseteq EffectsIn(g)
      /\ \A p \in at : \A f \in EffectsIn(e) : p \o f \in EffectsIn(g)
      /\ \A q \in EffectsIn(g) :
           q \in EffectsIn(w) \/ \E p \in at : \E f \in EffectsIn(e) : q = p \o f
  <2>1. JoinedEffects(g, w, at, e)
    BY <1>1, EffectsGrafted
  <2>. HIDE DEF g
  <2>. QED  BY <2>1 DEF JoinedEffects
<1>. HIDE DEF g, n
<1>5. s.effects = s2.effects + n /\ s2.effects \in Nat /\ s.effects \in Nat
  BY DEF Merged, AreValues, n
<1>6. ASSUME NEW f \in EffectsIn(w)
      PROVE  s2.effects + Cardinality(Nested(g, f)) + 1 = s.effects + Cardinality(Nested(w, f)) + 1
  <2>1. Cardinality(Nested(g, f)) = Cardinality(Nested(w, f)) + n
    BY <1>2 DEF CountedApart
  <2>2. Cardinality(Nested(w, f)) \in Nat
    BY EffectsFinite
  <2>. QED  BY <1>1, <1>5, <2>1, <2>2
<1>7. ASSUME NEW p \in at, NEW f \in EffectsIn(e)
      PROVE  /\ s2.effects + Cardinality(Nested(g, p \o f)) + 1
                  = s0.effects + Cardinality(Nested(e, f)) + 1
             /\ Subtree(v, p \o f) = Subtree(x, f)
  <2>1. Cardinality(Nested(g, p \o f)) = Cardinality(Nested(e, f))
    BY <1>2 DEF CountedApart
  <2>2. s2.effects = s0.effects
    <3>1. HasCall(e)
      BY OnlyCalls
    <3>. QED  BY <3>1 DEF Merged
  <2>3. p \in DOMAIN w /\ w[p] = Register(r)
    BY <1>1 DEF ReadsAt
  <2>4. w[p][1] = "reg" /\ w[p][2] = r
    BY <2>3 DEF Register
  <2>5. /\ DOMAIN by = Labelled(w, {"reg", "mem"}) /\ AreLeaves(w, DOMAIN by)
        /\ \A q \in DOMAIN by :
             /\ q \in DOMAIN w /\ w[q][1] \in {"reg", "mem"} /\ DOMAIN by[q] \subseteq Path
             /\ w[q][1] = "reg" => by[q] = s.env[w[q][2]]
             /\ w[q][1] = "mem" => by[q] = Leaf(<<"mem", s.effects + Cardinality(Before(w, q))>>)
    BY InputsAre
  <2>6. Filled(v, w, by) /\ DOMAIN v \subseteq Path /\ DOMAIN x \subseteq Path
    BY <1>1, ValueIs
  <2>. HIDE DEF by, v
  <2>7. p \in DOMAIN by /\ by[p] = x
    <3>1. p \in DOMAIN by
      BY <2>3, <2>4, <2>5 DEF Labelled
    <3>2. by[p] = s.env[r]
      BY <2>4, <2>5, <3>1
    <3>. QED  BY <3>1, <3>2 DEF Merged
  <2>. HIDE DEF x
  <2>8. IsBelow(by[p], v, p)
    <3>1. DOMAIN w \subseteq Path /\ \A q \in DOMAIN by : DOMAIN by[q] \subseteq Path
      BY <2>5 DEF IsTerm
    <3>. QED  BY <2>5, <2>6, <2>7, <3>1, FilledBelow
  <2>9. IsBelow(x, v, p)
    BY <2>7, <2>8
  <2>10. Subtree(v, p \o f) = Subtree(x, f)
    BY <1>1, <1>3, <2>6, <2>9, SubtreeBelow
  <2>. QED  BY <2>1, <2>2, <2>10
<1>. DEFINE all == Events(g, v, s2.effects)
            old == Events(w, v, s.effects)
            own == Events(e, x, s0.effects)
<1>. HIDE DEF v, x
<1>8. ASSUME NEW t \in all PROVE t \in old \cup own
  <2>1. PICK q \in EffectsIn(g) : t = <<s2.effects + Cardinality(Nested(g, q)) + 1, Subtree(v, q)>>
    BY DEF Events
  <2>2. CASE q \in EffectsIn(w)
    <3>1. t = <<s.effects + Cardinality(Nested(w, q)) + 1, Subtree(v, q)>>
      BY <1>6, <2>1, <2>2
    <3>2. t \in old
      BY <2>2, <3>1 DEF Events
    <3>. QED  BY <3>2
  <2>3. CASE \E p \in at : \E f \in EffectsIn(e) : q = p \o f
    <3>1. PICK p \in at : \E f \in EffectsIn(e) : q = p \o f
      BY <2>3
    <3>2. PICK f \in EffectsIn(e) : q = p \o f
      BY <3>1
    <3>3. t = <<s0.effects + Cardinality(Nested(e, f)) + 1, Subtree(x, f)>>
      BY <1>7, <2>1, <3>2
    <3>4. t \in own
      BY <3>3 DEF Events
    <3>. QED  BY <3>4
  <2>. QED  BY <1>4, <2>2, <2>3
<1>9. ASSUME NEW t \in old PROVE t \in all
  <2>1. PICK q \in EffectsIn(w) : t = <<s.effects + Cardinality(Nested(w, q)) + 1, Subtree(v, q)>>
    BY DEF Events
  <2>2. q \in EffectsIn(g) /\ t = <<s2.effects + Cardinality(Nested(g, q)) + 1, Subtree(v, q)>>
    BY <1>4, <1>6, <2>1
  <2>. QED  BY <2>2 DEF Events
<1>10. ASSUME NEW t \in own PROVE t \in all
  <2>1. PICK f \in EffectsIn(e) : t = <<s0.effects + Cardinality(Nested(e, f)) + 1, Subtree(x, f)>>
    BY DEF Events
  <2>2. HasCall(e)
    BY <2>1, OnlyCalls
  <2>3. PICK p : p \in at
    BY <2>2 DEF Merged, Mergeable
  <2>4. p \o f \in EffectsIn(g)
    BY <1>4, <2>3
  <2>5. t = <<s2.effects + Cardinality(Nested(g, p \o f)) + 1, Subtree(v, p \o f)>>
    BY <1>7, <2>1, <2>3
  <2>. QED  BY <2>4, <2>5 DEF Events
<1>11. all = old \cup own
  <2>. HIDE DEF all, old, own
  <2>. QED  BY <1>8, <1>9, <1>10
<1>. QED  BY <1>11 DEF all, old, own, g, v, x

-----------------------------------------------------------------------------
(***************************************************************************)
(* A call and its parameters, of which at most one, that at K, holds calls *)
(* itself.                                                                 *)
(***************************************************************************)
AreParameters(args) ==
  /\ DOMAIN args \subseteq Nat /\ IsFiniteSet(DOMAIN args)
  /\ \A j \in DOMAIN args : IsExpression(args[j])

LEMMA CallEffects ==
  ASSUME NEW label, label[1] = "call", NEW args, AreParameters(args),
         NEW K \in DOMAIN args, \A j \in DOMAIN args : j # K => EffectsIn(args[j]) = {}
  PROVE  MovedInto(Apply(label, args), args[K], <<K>>, {<<>>})
<1>. DEFINE a == Apply(label, args)
<1>1. Applied(a, label, args) /\ IsTerm(a)
  BY ApplyTerm DEF AreParameters, IsExpression
<1>. HIDE DEF a
<1>2. <<>> \in EffectsIn(a)
  <2>1. <<>> \in DOMAIN a /\ a[<<>>] = label
    BY <1>1 DEF Applied
  <2>. QED  BY <2>1 DEF EffectsIn, Labelled
<1>3. ASSUME NEW f \in EffectsIn(args[K]) PROVE <<K>> \o f \in EffectsIn(a)
  <2>1. f \in DOMAIN args[K] /\ args[K][f][1] \in {"call", "store", "jump"}
    BY DEF EffectsIn, Labelled
  <2>2. <<K>> \o f \in DOMAIN a /\ a[<<K>> \o f] = args[K][f]
    BY <1>1, <2>1, Zenon DEF Applied
  <2>. QED  BY <2>1, <2>2 DEF EffectsIn, Labelled
<1>4. ASSUME NEW q \in EffectsIn(a), q # <<>> PROVE \E f \in EffectsIn(args[K]) : q = <<K>> \o f
  <2>1. q \in DOMAIN a /\ a[q][1] \in {"call", "store", "jump"}
    BY DEF EffectsIn, Labelled
  <2>2. \E j \in DOMAIN args : \E s \in DOMAIN args[j] : q = <<j>> \o s
    BY <1>1, <1>4, <2>1, Zenon DEF Applied
  <2>3. PICK j \in DOMAIN args : \E s \in DOMAIN args[j] : q = <<j>> \o s
    BY <2>2
  <2>4. PICK s \in DOMAIN args[j] : q = <<j>> \o s
    BY <2>3
  <2>5. a[<<j>> \o s] = args[j][s]
    BY <1>1, Zenon DEF Applied
  <2>6. s \in EffectsIn(args[j])
    BY <2>1, <2>4, <2>5 DEF EffectsIn, Labelled
  <2>7. j = K
    BY <2>6
  <2>. QED  BY <2>4, <2>6, <2>7
<1>5. EffectsIn(a) = {<<>>} \cup {<<K>> \o f : f \in EffectsIn(args[K])}
  <2>. DEFINE moved == {<<K>> \o f : f \in EffectsIn(args[K])}
  <2>1. \A f \in EffectsIn(args[K]) : <<K>> \o f \in moved
    OBVIOUS
  <2>2. \A q \in moved : q \in EffectsIn(a)
    BY <1>3
  <2>. HIDE DEF moved
  <2>3. \A q \in EffectsIn(a) : q \in {<<>>} \cup moved
    BY <1>4, <2>1
  <2>4. EffectsIn(a) = {<<>>} \cup moved
    BY <1>2, <2>2, <2>3
  <2>. QED  BY <2>4 DEF moved
<1>. QED  BY <1>5 DEF MovedInto, a

CountedTogether(a, args, K, n) ==
  /\ Cardinality(EffectsIn(a)) = n + 1
  /\ \A s \in Path : Cardinality(Before(a, <<K>> \o s)) = Cardinality(Before(args[K], s))
  /\ \A j \in DOMAIN args : j # K => \A s \in Path :
       Cardinality(Before(a, <<j>> \o s)) = n /\ Cardinality(Before(args[j], s)) = 0
  /\ Cardinality(Nested(a, <<>>)) = n
  /\ \A s \in Path : Cardinality(Nested(a, <<K>> \o s)) = Cardinality(Nested(args[K], s))

LEMMA CallCountsAre ==
  ASSUME NEW label, label[1] = "call", NEW args, AreParameters(args),
         NEW K \in DOMAIN args, \A j \in DOMAIN args : j # K => EffectsIn(args[j]) = {}
  PROVE  CountedTogether(Apply(label, args), args, K, Cardinality(EffectsIn(args[K])))
<1>. DEFINE a == Apply(label, args)
            n == Cardinality(EffectsIn(args[K]))
            others == {<<>>}
            below == {<<K>> \o f : f \in EffectsIn(args[K])}
<1>1. MovedInto(a, args[K], <<K>>, others)
  BY CallEffects
<1>2. K \in Nat /\ IsTerm(args[K]) /\ <<K>> \in Path
  <2>1. K \in Nat /\ IsTerm(args[K])
    BY DEF AreParameters, IsExpression
  <2>2. <<>> \in Path
    BY DEF Path
  <2>. QED  BY <2>1, <2>2, UnderIs
<1>3. EffectsIn(args[K]) \in SUBSET Path /\ IsFiniteSet(EffectsIn(args[K])) /\ n \in Nat
  BY <1>2, EffectsFinite
<1>4. IsFiniteSet(below) /\ Cardinality(below) = n
  BY <1>2, <1>3, FiniteBelow
<1>5. EffectsIn(a) = {<<>>} \cup below
  BY <1>1 DEF MovedInto
<1>6. \A q \in below : \E f \in EffectsIn(args[K]) : q = <<K>> \o f
  OBVIOUS
<1>. HIDE DEF a, n, others, below
<1>7. ASSUME NEW q \in below PROVE q \in Path /\ q # <<>> /\ IsPrefix(<<>>, q)
  <2>1. PICK f \in EffectsIn(args[K]) : q = <<K>> \o f
    BY <1>6
  <2>2. f \in Path
    BY <1>3
  <2>. QED  BY <1>2, <2>1, <2>2, UnderIs, PrefixEmpty
<1>8. Cardinality(EffectsIn(a)) = n + 1
  <2>1. <<>> \notin below
    BY <1>7
  <2>2. Cardinality(below \cup {<<>>}) = Cardinality(below) + 1
    BY <1>4, <2>1, FS_AddElement
  <2>3. EffectsIn(a) = below \cup {<<>>}
    BY <1>5
  <2>. QED  BY <1>4, <2>2, <2>3
<1>9. ASSUME NEW s \in Path
      PROVE  /\ Cardinality(Before(a, <<K>> \o s)) = Cardinality(Before(args[K], s))
             /\ Cardinality(Nested(a, <<K>> \o s)) = Cardinality(Nested(args[K], s))
  <2>. DEFINE p == <<K>> \o s
  <2>1. p \in Path /\ p # <<>>
    BY <1>2, UnderIs
  <2>2. \A q \in others : IsPrefix(q, <<K>> \o s)
    BY <2>1, PrefixEmpty DEF others
  <2>3. NoneBelow(others, <<K>> \o s)
    <3>. SUFFICES ASSUME IsPrefix(p, <<>>) PROVE FALSE
      BY DEF others, NoneBelow
    <3>. HIDE DEF p
    <3>1. <<>> \in Path /\ IsPrefix(<<>>, p)
      BY <2>1, PrefixEmpty
    <3>. QED  BY <2>1, <3>1, PrefixSame
  <2>4. Cardinality(Before(a, <<K>> \o s)) = Cardinality(Before(args[K], s))
    BY <1>1, <1>2, <2>2, EffectsMoved
  <2>5. Cardinality(Nested(a, <<K>> \o s)) = Cardinality(Nested(args[K], s))
    BY <1>1, <1>2, <2>3, EffectsMoved
  <2>. QED  BY <2>4, <2>5
<1>10. ASSUME NEW j \in DOMAIN args, j # K, NEW s \in Path
       PROVE  Cardinality(Before(a, <<j>> \o s)) = n /\ Cardinality(Before(args[j], s)) = 0
  <2>1. j \in Nat /\ <<j>> \o s \in Path
    BY UnderIs DEF AreParameters
  <2>2. ASSUME NEW q \in below PROVE ~IsPrefix(q, <<j>> \o s)
    <3>1. PICK f \in EffectsIn(args[K]) : q = <<K>> \o f
      BY <1>6
    <3>2. f \in Path
      BY <1>3
    <3>. QED  BY <1>2, <1>10, <2>1, <3>1, <3>2, UnderSame
  <2>3. IsPrefix(<<>>, <<j>> \o s)
    BY <2>1, PrefixEmpty
  <2>4. Before(a, <<j>> \o s) = below
    BY <1>5, <2>2, <2>3 DEF Before
  <2>5. Before(args[j], s) = {}
    BY <1>10 DEF Before
  <2>6. Cardinality({}) = 0
    BY FS_EmptySet
  <2>. QED  BY <1>4, <2>4, <2>5, <2>6
<1>11. Cardinality(Nested(a, <<>>)) = n
  <2>1. Nested(a, <<>>) = below
    BY <1>5, <1>7 DEF Nested
  <2>. QED  BY <1>4, <2>1
<1>. QED  BY <1>8, <1>9, <1>10, <1>11 DEF CountedTogether, a, n

-----------------------------------------------------------------------------
(***************************************************************************)
(* The parameters have in the call the values they had when they were      *)
(* pushed, in the states st.                                               *)
(***************************************************************************)
Gathered(args, st, K, s2) ==
  /\ AreParameters(args)
  /\ K \in DOMAIN args /\ \A j \in DOMAIN args : j # K => EffectsIn(args[j]) = {}
  /\ \A j \in DOMAIN args : AreValues(st[j])
  /\ \A j \in DOMAIN args : \A x \in RegistersOf(args[j]) : s2.env[x] = st[j].env[x]
  /\ HasCall(args[K]) \/ ReadsMemory(args[K]) => s2.effects = st[K].effects
  /\ \A j \in DOMAIN args : j # K /\ ReadsMemory(args[j]) =>
       st[j].effects = s2.effects + Cardinality(EffectsIn(args[K]))

LEMMA ValueGathered ==
  ASSUME NEW label, label[1] = "call", NEW args, NEW st, NEW K,
         NEW s2, AreValues(s2), Gathered(args, st, K, s2)
  PROVE  Value(Apply(label, args), s2) = Apply(label, [j \in DOMAIN args |-> Value(args[j], st[j])])
<1>. DEFINE a == Apply(label, args)
            n == Cardinality(EffectsIn(args[K]))
            by == Inputs(a, s2)
            bys == [j \in DOMAIN args |-> Inputs(args[j], st[j])]
<1>1. AreParameters(args) /\ K \in DOMAIN args
  BY DEF Gathered
<1>2. /\ DOMAIN args \subseteq Nat
      /\ \A j \in DOMAIN args : j \in Nat /\ IsTerm(args[j]) /\ DOMAIN args[j] \subseteq Path
  BY <1>1 DEF AreParameters, IsExpression, IsTerm
<1>3. Applied(a, label, args) /\ IsTerm(a) /\ AreArgs(args)
  <2>1. Applied(a, label, args) /\ IsTerm(a)
    BY <1>1, ApplyTerm DEF AreParameters, IsExpression
  <2>. QED  BY <1>2, <2>1, TermArgs
<1>4. CountedTogether(a, args, K, n)
  BY <1>1, CallCountsAre DEF Gathered
<1>. HIDE DEF a, n
<1>5. /\ DOMAIN by = Labelled(a, {"reg", "mem"}) /\ AreLeaves(a, DOMAIN by)
      /\ \A p \in DOMAIN by :
           /\ p \in DOMAIN a /\ a[p][1] \in {"reg", "mem"} /\ DOMAIN by[p] \subseteq Path
           /\ a[p][1] = "reg" => by[p] = s2.env[a[p][2]]
           /\ a[p][1] = "mem" => by[p] = Leaf(<<"mem", s2.effects + Cardinality(Before(a, p))>>)
  BY <1>3, InputsAre
<1>6. ASSUME NEW j \in DOMAIN args
      PROVE  /\ DOMAIN bys[j] = Labelled(args[j], {"reg", "mem"}) /\ AreLeaves(args[j], DOMAIN bys[j])
             /\ \A p \in DOMAIN bys[j] :
                  /\ p \in DOMAIN args[j] /\ args[j][p][1] \in {"reg", "mem"}
                  /\ DOMAIN bys[j][p] \subseteq Path
                  /\ args[j][p][1] = "reg" => bys[j][p] = st[j].env[args[j][p][2]]
                  /\ args[j][p][1] = "mem" =>
                       bys[j][p] = Leaf(<<"mem", st[j].effects + Cardinality(Before(args[j], p))>>)
  <2>. DEFINE e == args[j]
              s == st[j]
              own == Inputs(e, s)
  <2>1. IsTerm(e) /\ AreValues(s)
    BY <1>2 DEF Gathered
  <2>2. /\ DOMAIN own = Labelled(e, {"reg", "mem"}) /\ AreLeaves(e, DOMAIN own)
        /\ \A p \in DOMAIN own :
             /\ p \in DOMAIN e /\ e[p][1] \in {"reg", "mem"} /\ DOMAIN own[p] \subseteq Path
             /\ e[p][1] = "reg" => own[p] = s.env[e[p][2]]
             /\ e[p][1] = "mem" => own[p] = Leaf(<<"mem", s.effects + Cardinality(Before(e, p))>>)
    BY <2>1, InputsAre
  <2>3. bys[j] = own
    OBVIOUS
  <2>. HIDE DEF own, bys
  <2>. QED  BY <2>2, <2>3
<1>7. DOMAIN bys = DOMAIN args /\ \A j \in DOMAIN args : bys[j] = Inputs(args[j], st[j])
  OBVIOUS
<1>. HIDE DEF by, bys
<1>8. ASSUME NEW q \in DOMAIN by PROVE \E j \in DOMAIN args : \E p \in DOMAIN bys[j] : q = <<j>> \o p
  <2>1. q \in DOMAIN a /\ a[q][1] \in {"reg", "mem"}
    BY <1>5
  <2>2. q # <<>>
    BY <1>3, <2>1 DEF Applied
  <2>3. \E j \in DOMAIN args : \E s \in DOMAIN args[j] : q = <<j>> \o s
    BY <1>3, <2>1, <2>2, Zenon DEF Applied
  <2>4. PICK j \in DOMAIN args : \E s \in DOMAIN args[j] : q = <<j>> \o s
    BY <2>3
  <2>5. PICK s \in DOMAIN args[j] : q = <<j>> \o s
    BY <2>4
  <2>6. a[<<j>> \o s] = args[j][s]
    BY <1>3, Zenon DEF Applied
  <2>7. s \in Labelled(args[j], {"reg", "mem"})
    BY <2>1, <2>5, <2>6 DEF Labelled
  <2>8. s \in DOMAIN bys[j]
    BY <1>6, <2>7
  <2>. QED  BY <2>5, <2>8
<1>9. ASSUME NEW j \in DOMAIN args, NEW p \in DOMAIN bys[j]
      PROVE  <<j>> \o p \in DOMAIN by /\ by[<<j>> \o p] = bys[j][p]
  <2>. DEFINE q == <<j>> \o p
              e == args[j]
  <2>1. p \in DOMAIN e /\ e[p][1] \in {"reg", "mem"} /\ p \in Path
    BY <1>2, <1>6
  <2>2. q \in DOMAIN a /\ a[q] = e[p]
    BY <1>3, <2>1, Zenon DEF Applied
  <2>. HIDE DEF q
  <2>3. q \in DOMAIN by
    BY <1>5, <2>1, <2>2 DEF Labelled
  <2>4. CASE e[p][1] = "reg"
    <3>1. e[p][2] \in RegistersOf(e)
      BY <1>2, <2>1, <2>4, ReadOf
    <3>2. s2.env[e[p][2]] = st[j].env[e[p][2]]
      BY <3>1 DEF Gathered
    <3>3. by[q] = s2.env[e[p][2]]
      BY <1>5, <2>2, <2>3, <2>4
    <3>4. bys[j][p] = st[j].env[e[p][2]]
      BY <1>6, <2>4
    <3>. QED  BY <2>3, <3>2, <3>3, <3>4 DEF q
  <2>5. CASE e[p][1] = "mem"
    <3>1. by[q] = Leaf(<<"mem", s2.effects + Cardinality(Before(a, q))>>)
      BY <1>5, <2>2, <2>3, <2>5
    <3>2. bys[j][p] = Leaf(<<"mem", st[j].effects + Cardinality(Before(e, p))>>)
      BY <1>6, <2>5
    <3>3. ReadsMemory(e)
      BY <2>1, <2>5 DEF ReadsMemory, Labelled
    <3>4. s2.effects + Cardinality(Before(a, q)) = st[j].effects + Cardinality(Before(e, p))
      <4>1. CASE j = K
        <5>1. Cardinality(Before(a, q)) = Cardinality(Before(e, p))
          BY <1>4, <2>1, <4>1 DEF CountedTogether, q
        <5>2. s2.effects = st[j].effects
          BY <3>3, <4>1 DEF Gathered
        <5>. QED  BY <5>1, <5>2
      <4>2. CASE j # K
        <5>1. Cardinality(Before(a, q)) = n /\ Cardinality(Before(e, p)) = 0
          BY <1>4, <2>1, <4>2 DEF CountedTogether, q
        <5>2. st[j].effects = s2.effects + n
          BY <3>3, <4>2 DEF Gathered, n
        <5>3. s2.effects \in Nat /\ n \in Nat
          BY <1>1, <1>2, EffectsFinite DEF AreValues, n
        <5>. QED  BY <5>1, <5>2, <5>3
      <4>. QED  BY <4>1, <4>2
    <3>. QED  BY <2>3, <3>1, <3>2, <3>4 DEF q
  <2>. QED  BY <2>1, <2>4, <2>5
<1>10. ByChildren(by, args, bys)
  BY <1>8, <1>9 DEF ByChildren
<1>11. Substitute(Apply(label, args), by) =
         Apply(label, [j \in DOMAIN args |-> Substitute(args[j], bys[j])])
  <2>1. \A p \in DOMAIN by : DOMAIN by[p] \subseteq Path
    BY <1>5
  <2>2. \A j \in DOMAIN args : AreLeaves(args[j], DOMAIN bys[j])
    BY <1>6
  <2>3. \A j \in DOMAIN args : \A p \in DOMAIN bys[j] : DOMAIN bys[j][p] \subseteq Path
    BY <1>6
  <2>4. AreLeaves(Apply(label, args), DOMAIN by)
    BY <1>5 DEF a
  <2>. QED  BY <1>3, <1>10, <2>1, <2>2, <2>3, <2>4, SubstituteApply
<1>12. [j \in DOMAIN args |-> Substitute(args[j], bys[j])]
         = [j \in DOMAIN args |-> Value(args[j], st[j])]
  BY <1>7 DEF Value
<1>. QED  BY <1>11, <1>12 DEF Value, a, by

LEMMA EventsGathered ==
  ASSUME NEW label, label[1] = "call", NEW args, NEW st, NEW K,
         NEW s2, AreValues(s2), Gathered(args, st, K, s2)
  PROVE  LET v == Apply(label, [j \in DOMAIN args |-> Value(args[j], st[j])])
             n == Cardinality(EffectsIn(args[K])) IN
         Events(Apply(label, args), v, s2.effects)
           = {<<s2.effects + n + 1, v>>} \cup Events(args[K], Value(args[K], st[K]), st[K].effects)
<1>. DEFINE a == Apply(label, args)
            n == Cardinality(EffectsIn(args[K]))
            vals == [j \in DOMAIN args |-> Value(args[j], st[j])]
            v == Apply(label, vals)
            below == {<<K>> \o f : f \in EffectsIn(args[K])}
            all == Events(a, v, s2.effects)
            one == {<<s2.effects + n + 1, v>>}
            own == Events(args[K], Value(args[K], st[K]), st[K].effects)
<1>1. AreParameters(args) /\ K \in DOMAIN args
  BY DEF Gathered
<1>2. /\ K \in Nat /\ IsExpression(args[K]) /\ IsTerm(args[K]) /\ AreValues(st[K])
      /\ \A j \in DOMAIN args : j \in Nat /\ IsTerm(args[j]) /\ AreValues(st[j])
  BY <1>1 DEF AreParameters, IsExpression, Gathered
<1>3. CountedTogether(a, args, K, n) /\ MovedInto(a, args[K], <<K>>, {<<>>})
  BY <1>1, CallCountsAre, CallEffects DEF Gathered
<1>4. EffectsIn(a) = {<<>>} \cup below
  BY <1>3 DEF MovedInto
<1>5. DOMAIN vals = DOMAIN args /\ \A j \in DOMAIN args : vals[j] = Value(args[j], st[j])
  OBVIOUS
<1>. HIDE DEF vals, a, n
<1>6. \A j \in DOMAIN args : DOMAIN vals[j] \subseteq Path
  <2>. SUFFICES ASSUME NEW j \in DOMAIN args PROVE DOMAIN vals[j] \subseteq Path
    OBVIOUS
  <2>1. DOMAIN Value(args[j], st[j]) \subseteq Path
    BY <1>2, ValueIs
  <2>2. vals[j] = Value(args[j], st[j])
    BY <1>5
  <2>. QED  BY <2>1, <2>2
<1>7. AreArgs(vals)
  BY <1>1, <1>5, <1>6 DEF AreArgs, AreParameters
<1>8. Applied(v, label, vals) /\ DOMAIN v \subseteq Path
  BY <1>7, ApplyIs
<1>9. IsMap(v)
  BY <1>8 DEF Applied
<1>. HIDE DEF v, below
<1>10. Subtree(v, <<>>) = v
  BY <1>8, <1>9, SubtreeWhole
<1>11. <<K>> \in Path /\ EffectsIn(args[K]) \subseteq Path
  <2>1. <<>> \in Path
    BY DEF Path
  <2>. QED  BY <1>2, <2>1, UnderIs, EffectsFinite
<1>12. ASSUME NEW f \in EffectsIn(args[K])
       PROVE  /\ <<K>> \o f \in EffectsIn(a)
              /\ s2.effects + Cardinality(Nested(a, <<K>> \o f)) + 1
                   = st[K].effects + Cardinality(Nested(args[K], f)) + 1
              /\ Subtree(v, <<K>> \o f) = Subtree(Value(args[K], st[K]), f)
  <2>1. <<K>> \o f \in EffectsIn(a)
    BY <1>4 DEF below
  <2>2. f \in Path
    BY <1>11
  <2>3. Cardinality(Nested(a, <<K>> \o f)) = Cardinality(Nested(args[K], f))
    BY <1>3, <2>2 DEF CountedTogether
  <2>4. HasCall(args[K])
    BY <1>2, OnlyCalls
  <2>5. s2.effects = st[K].effects
    BY <2>4 DEF Gathered
  <2>6. IsBelow(vals[K], v, <<K>>)
    BY <1>1, <1>5, <1>7, <1>8, AppliedBelow
  <2>7. Subtree(v, <<K>> \o f) = Subtree(vals[K], f)
    BY <1>1, <1>6, <1>8, <1>11, <2>2, <2>6, SubtreeBelow
  <2>8. vals[K] = Value(args[K], st[K])
    BY <1>1, <1>5
  <2>. QED  BY <2>1, <2>3, <2>5, <2>7, <2>8
<1>13. s2.effects + Cardinality(Nested(a, <<>>)) + 1 = s2.effects + n + 1
  BY <1>3 DEF CountedTogether
<1>14. ASSUME NEW t \in all PROVE t \in one \cup own
  <2>1. PICK q \in EffectsIn(a) : t = <<s2.effects + Cardinality(Nested(a, q)) + 1, Subtree(v, q)>>
    BY DEF Events
  <2>2. CASE q = <<>>
    BY <1>10, <1>13, <2>1, <2>2
  <2>3. CASE q \in below
    <3>1. PICK f \in EffectsIn(args[K]) : q = <<K>> \o f
      BY <2>3 DEF below
    <3>2. t = <<st[K].effects + Cardinality(Nested(args[K], f)) + 1, Subtree(Value(args[K], st[K]), f)>>
      BY <1>12, <2>1, <3>1
    <3>3. t \in own
      BY <3>2 DEF Events
    <3>. QED  BY <3>3
  <2>. QED  BY <1>4, <2>2, <2>3
<1>15. ASSUME NEW t \in own PROVE t \in all
  <2>1. PICK f \in EffectsIn(args[K]) :
          t = <<st[K].effects + Cardinality(Nested(args[K], f)) + 1, Subtree(Value(args[K], st[K]), f)>>
    BY DEF Events
  <2>2. t = <<s2.effects + Cardinality(Nested(a, <<K>> \o f)) + 1, Subtree(v, <<K>> \o f)>>
    BY <1>12, <2>1
  <2>3. <<K>> \o f \in EffectsIn(a)
    BY <1>12
  <2>. QED  BY <2>2, <2>3 DEF Events
<1>16. ASSUME NEW t \in one PROVE t \in all
  <2>1. <<>> \in EffectsIn(a)
    BY <1>4
  <2>2. t = <<s2.effects + Cardinality(Nested(a, <<>>)) + 1, Subtree(v, <<>>)>>
    BY <1>10, <1>13
  <2>. QED  BY <2>1, <2>2 DEF Events
<1>17. all = one \cup own
  <2>. HIDE DEF all, one, own
  <2>. QED  BY <1>14, <1>15, <1>16
<1>. QED  BY <1>17 DEF a, n, v, vals

-----------------------------------------------------------------------------
(***************************************************************************)
(* The shape of the instructions, and the trees they are as a whole.       *)
(***************************************************************************)
Arity(c) == IF c.type \in {"assign", "store"} THEN 2 ELSE 1

HasShape(c) ==
  /\ c.type \in Types
  /\ DOMAIN c.operands = 1 .. Arity(c)
  /\ \A o \in DOMAIN c.operands : IsExpression(c.operands[o])
  /\ c.definitions = {} \/ \E r \in Reg : c.definitions = {r}
  /\ c.definitions # {} => c.type \in {"assign", "pop"}
  /\ c.params \in Int /\ c.params >= UnknownCount
  /\ c.params # 0 /\ ~c.collected =>
       /\ c.type = "assign"
       /\ c.operands[2] = Leaf(c.operands[2][<<>>]) /\ c.operands[2][<<>>][1] = "call"
  /\ c.type = "pop" => EffectsIn(c.operands[1]) = {}

LEMMA OperandsAre ==
  ASSUME NEW c, HasShape(c)
  PROVE  /\ DOMAIN c.operands \subseteq Nat /\ IsFiniteSet(DOMAIN c.operands)
         /\ \A o \in DOMAIN c.operands : IsTerm(c.operands[o]) /\ IsExpression(c.operands[o])
         /\ c.type \in {"assign", "store"} => DOMAIN c.operands = {1, 2}
         /\ c.type \notin {"assign", "store"} => DOMAIN c.operands = {1}
         /\ UsedOperands(c) \subseteq DOMAIN c.operands
         /\ c.type # "pop" /\ c.type # "assign" => UsedOperands(c) = DOMAIN c.operands
         /\ c.type = "assign" => UsedOperands(c) = {2}
         /\ c.type = "pop" => UsedOperands(c) = {}
         /\ c.type = "push" => UsedOperands(c) = {1}
<1>1. DOMAIN c.operands = 1 .. Arity(c) /\ Arity(c) \in {1, 2}
  BY DEF HasShape, Arity
<1>2. c.type \in {"assign", "store"} => DOMAIN c.operands = {1, 2}
  BY <1>1 DEF Arity
<1>3. c.type \notin {"assign", "store"} => DOMAIN c.operands = {1}
  BY <1>1 DEF Arity
<1>4. IsFiniteSet({1}) /\ IsFiniteSet({1, 2})
  <2>1. IsFiniteSet({1})
    BY FS_Singleton
  <2>2. IsFiniteSet({1} \cup {2})
    BY <2>1, FS_AddElement
  <2>3. {1} \cup {2} = {1, 2}
    OBVIOUS
  <2>. QED  BY <2>1, <2>2, <2>3
<1>5. \A o \in DOMAIN c.operands : IsTerm(c.operands[o]) /\ IsExpression(c.operands[o])
  BY DEF HasShape, IsExpression
<1>6. c.type \in {"assign", "store", "push", "pop", "jump"}
  BY DEF HasShape, Types
<1>7. /\ UsedOperands(c) \subseteq DOMAIN c.operands
      /\ c.type # "pop" /\ c.type # "assign" => UsedOperands(c) = DOMAIN c.operands
      /\ c.type = "assign" => UsedOperands(c) = {2}
      /\ c.type = "pop" => UsedOperands(c) = {}
      /\ c.type = "push" => UsedOperands(c) = {1}
  BY <1>2, <1>3, <1>6 DEF UsedOperands
<1>. QED  BY <1>2, <1>3, <1>4, <1>5, <1>7

LEMMA WholeOf ==
  ASSUME NEW c, HasShape(c)
  PROVE  /\ c.type = "assign" => Whole(c) = c.operands[2] /\ IsExpression(Whole(c))
         /\ c.type = "push" => Whole(c) = c.operands[1] /\ IsExpression(Whole(c))
         /\ c.type \in {"store", "pop", "jump"} =>
              /\ Whole(c) = Apply(<<c.type, 0>>, c.operands)
              /\ Applied(Whole(c), <<c.type, 0>>, c.operands)
         /\ IsTerm(Whole(c))
<1>0. c.type \in {"assign", "store", "push", "pop", "jump"}
  BY DEF HasShape, Types
<1>1. CASE c.type = "assign"
  <2>1. Whole(c) = c.operands[2]
    BY <1>1 DEF Whole
  <2>2. 2 \in DOMAIN c.operands
    BY <1>1, OperandsAre
  <2>. QED  BY <1>1, <2>1, <2>2, OperandsAre
<1>2. CASE c.type = "push"
  <2>1. Whole(c) = c.operands[1]
    BY <1>2 DEF Whole
  <2>2. 1 \in DOMAIN c.operands
    BY <1>2, OperandsAre
  <2>. QED  BY <1>2, <2>1, <2>2, OperandsAre
<1>3. CASE c.type \in {"store", "pop", "jump"}
  <2>. DEFINE label == <<c.type, 0>>
  <2>1. Whole(c) = Apply(label, c.operands)
    BY <1>3 DEF Whole
  <2>2. label[1] \notin {"reg", "mem"}
    BY <1>3
  <2>. HIDE DEF label
  <2>3. IsTerm(Apply(label, c.operands)) /\ Applied(Apply(label, c.operands), label, c.operands)
    BY <2>2, OperandsAre, ApplyTerm
  <2>. QED  BY <1>3, <2>1, <2>3 DEF label
<1>. QED  BY <1>0, <1>1, <1>2, <1>3

(* What an instruction reads it uses. *)
LEMMA WholeReads ==
  ASSUME NEW c, HasShape(c), c.type # "pop", NEW x \in RegistersOf(Whole(c))
  PROVE  x \in Used(c)
<1>0. c.type \in {"assign", "store", "push", "jump"}
  BY DEF HasShape, Types
<1>1. SUFFICES \E o \in UsedOperands(c) : x \in RegistersOf(c.operands[o])
  BY DEF Used
<1>2. CASE c.type \in {"assign", "push"}
  BY <1>2, WholeOf, OperandsAre
<1>3. CASE c.type \in {"store", "jump"}
  <2>. DEFINE w == Whole(c)
  <2>1. Applied(w, <<c.type, 0>>, c.operands)
    BY <1>3, WholeOf
  <2>2. PICK q : q \in DOMAIN w /\ w[q] = Register(x)
    BY DEF RegistersOf, ReadsAt
  <2>3. q # <<>>
    <3>1. w[<<>>] = <<c.type, 0>>
      BY <2>1 DEF Applied
    <3>2. w[q][1] = "reg"
      BY <2>2 DEF Register
    <3>. HIDE DEF w
    <3>. QED  BY <1>3, <3>1, <3>2
  <2>. HIDE DEF w
  <2>4. \E j \in DOMAIN c.operands : \E s \in DOMAIN c.operands[j] : q = <<j>> \o s
    BY <2>1, <2>2, <2>3, Zenon DEF Applied
  <2>5. PICK j \in DOMAIN c.operands : \E s \in DOMAIN c.operands[j] : q = <<j>> \o s
    BY <2>4
  <2>6. PICK s \in DOMAIN c.operands[j] : q = <<j>> \o s
    BY <2>5
  <2>7. w[<<j>> \o s] = c.operands[j][s]
    BY <2>1, Zenon DEF Applied
  <2>8. s \in ReadsAt(c.operands[j], x)
    BY <2>2, <2>6, <2>7 DEF ReadsAt
  <2>9. x \in RegistersOf(c.operands[j])
    BY <2>8 DEF RegistersOf
  <2>10. j \in UsedOperands(c)
    BY <1>3, OperandsAre
  <2>. QED  BY <2>9, <2>10
<1>. QED  BY <1>0, <1>2, <1>3

(* A POP has no effects. *)
LEMMA PopQuiet ==
  ASSUME NEW c, HasShape(c), c.type = "pop"
  PROVE  EffectsIn(Whole(c)) = {}
<1>. DEFINE w == Whole(c)
<1>. SUFFICES ASSUME NEW q \in EffectsIn(w) PROVE FALSE
  OBVIOUS
<1>1. Applied(w, <<"pop", 0>>, c.operands)
  BY WholeOf
<1>. HIDE DEF w
<1>2. q \in DOMAIN w /\ w[q][1] \in {"call", "store", "jump"}
  BY DEF EffectsIn, Labelled
<1>3. q # <<>>
  <2>1. w[<<>>] = <<"pop", 0>>
    BY <1>1 DEF Applied
  <2>. QED  BY <1>2, <2>1
<1>4. \E j \in DOMAIN c.operands : \E s \in DOMAIN c.operands[j] : q = <<j>> \o s
  BY <1>1, <1>2, <1>3, Zenon DEF Applied
<1>5. PICK j \in DOMAIN c.operands : \E s \in DOMAIN c.operands[j] : q = <<j>> \o s
  BY <1>4
<1>6. PICK s \in DOMAIN c.operands[j] : q = <<j>> \o s
  BY <1>5
<1>7. w[<<j>> \o s] = c.operands[j][s]
  BY <1>1, Zenon DEF Applied
<1>8. s \in EffectsIn(c.operands[j])
  BY <1>2, <1>6, <1>7 DEF EffectsIn, Labelled
<1>9. j = 1 /\ EffectsIn(c.operands[1]) = {}
  BY OperandsAre, ZenonT(40) DEF HasShape
<1>. QED  BY <1>8, <1>9

-----------------------------------------------------------------------------
LEMMA SubstituteNone ==
  ASSUME NEW e, IsMap(e), DOMAIN e \subseteq Path, NEW by, DOMAIN by = {}
  PROVE  Substitute(e, by) = e
<1>1. AreLeaves(e, DOMAIN by) /\ \A p \in DOMAIN by : DOMAIN by[p] \subseteq Path
  BY DEF AreLeaves
<1>2. Filled(Substitute(e, by), e, by)
  BY <1>1, SubstituteIs
<1>3. Filled(e, e, by)
  BY DEF Filled
<1>. QED  BY <1>2, <1>3, FilledOnce

(* Where a register is read in one operand only it is read, in the whole,  *)
(* below the place of that operand only.                                   *)
InOperand(o, S) == {<<o>> \o p : p \in S}

LEMMA ReadsBelow ==
  ASSUME NEW label, label[1] # "reg", NEW args, AreArgs(args), NEW o \in DOMAIN args, NEW r,
         \A j \in DOMAIN args : j # o => ReadsAt(args[j], r) = {}
  PROVE  ReadsAt(Apply(label, args), r) = InOperand(o, ReadsAt(args[o], r))
<1>. DEFINE w == Apply(label, args)
            below == {<<o>> \o p : p \in ReadsAt(args[o], r)}
<1>1. Applied(w, label, args)
  BY ApplyIs
<1>2. /\ \A p \in ReadsAt(args[o], r) : <<o>> \o p \in below
      /\ \A q \in below : \E p \in ReadsAt(args[o], r) : q = <<o>> \o p
  OBVIOUS
<1>. HIDE DEF w, below
<1>3. ASSUME NEW q \in ReadsAt(w, r) PROVE q \in below
  <2>1. q \in DOMAIN w /\ w[q] = Register(r)
    BY DEF ReadsAt
  <2>2. q # <<>>
    <3>1. w[<<>>] = label
      BY <1>1 DEF Applied
    <3>. QED  BY <2>1, <3>1 DEF Register
  <2>4. \E j \in DOMAIN args : \E s \in DOMAIN args[j] : q = <<j>> \o s
    BY <1>1, <2>1, <2>2, Zenon DEF Applied
  <2>5. PICK j \in DOMAIN args : \E s \in DOMAIN args[j] : q = <<j>> \o s
    BY <2>4
  <2>6. PICK s \in DOMAIN args[j] : q = <<j>> \o s
    BY <2>5
  <2>7. w[<<j>> \o s] = args[j][s]
    BY <1>1, Zenon DEF Applied
  <2>8. s \in ReadsAt(args[j], r)
    BY <2>1, <2>6, <2>7 DEF ReadsAt
  <2>9. j = o
    BY <2>8
  <2>. QED  BY <1>2, <2>6, <2>8, <2>9
<1>4. ASSUME NEW q \in below PROVE q \in ReadsAt(w, r)
  <2>1. PICK p \in ReadsAt(args[o], r) : q = <<o>> \o p
    BY <1>2
  <2>2. p \in DOMAIN args[o] /\ args[o][p] = Register(r)
    BY DEF ReadsAt
  <2>3. q \in DOMAIN w /\ w[q] = args[o][p]
    BY <1>1, <2>1, <2>2, Zenon DEF Applied
  <2>. QED  BY <2>2, <2>3 DEF ReadsAt
<1>5. ReadsAt(w, r) = below
  BY <1>3, <1>4
<1>. QED  BY <1>5 DEF w, below, InOperand

LEMMA GraftedBelow ==
  ASSUME NEW label, label[1] \notin {"reg", "mem"}, NEW args, DOMAIN args \subseteq Nat,
         IsFiniteSet(DOMAIN args),
         \A j \in DOMAIN args : IsTerm(args[j]), NEW o \in DOMAIN args, NEW e, IsTerm(e), NEW r,
         \A j \in DOMAIN args : j # o => ReadsAt(args[j], r) = {}
  PROVE  Grafted(Apply(label, args), ReadsAt(Apply(label, args), r), e)
           = Apply(label, [args EXCEPT ![o] = Grafted(args[o], ReadsAt(args[o], r), e)])
<1>. DEFINE w == Apply(label, args)
            at == ReadsAt(args[o], r)
            all == ReadsAt(w, r)
            by == [p \in all |-> e]
            one(j) == [p \in ReadsAt(args[j], r) |-> e]
            bys == [j \in DOMAIN args |-> one(j)]
<1>1. AreArgs(args)
  BY TermArgs
<1>2. all = {<<o>> \o p : p \in at}
  <2>1. all = InOperand(o, at)
    BY <1>1, ReadsBelow
  <2>. QED  BY <2>1 DEF InOperand
<1>3. IsTerm(w)
  BY ApplyTerm
<1>4. DOMAIN e \subseteq Path
  BY DEF IsTerm
<1>5. AreLeaves(w, all)
  <2>. HIDE DEF w
  <2>1. all \in SUBSET ReadsAt(w, r)
    OBVIOUS
  <2>. HIDE DEF all
  <2>. QED  BY <1>3, <2>1, TermGrafted
<1>6. ASSUME NEW j \in DOMAIN args PROVE AreLeaves(args[j], ReadsAt(args[j], r))
  <2>. DEFINE own == ReadsAt(args[j], r)
  <2>1. own \in SUBSET ReadsAt(args[j], r)
    OBVIOUS
  <2>. HIDE DEF own
  <2>2. AreLeaves(args[j], own)
    BY <2>1, TermGrafted
  <2>. QED  BY <2>2 DEF own
<1>7. /\ DOMAIN by = all /\ \A p \in all : by[p] = e
      /\ DOMAIN bys = DOMAIN args
      /\ \A j \in DOMAIN args : /\ bys[j] = one(j)
                                /\ DOMAIN bys[j] = ReadsAt(args[j], r)
                                /\ \A p \in ReadsAt(args[j], r) : bys[j][p] = e
  OBVIOUS
<1>. HIDE DEF by, bys, w, all, at
<1>8. ASSUME NEW q \in DOMAIN by PROVE \E j \in DOMAIN args : \E p \in DOMAIN bys[j] : q = <<j>> \o p
  <2>1. PICK p \in at : q = <<o>> \o p
    BY <1>2, <1>7
  <2>2. p \in DOMAIN bys[o]
    BY <1>7 DEF at
  <2>. QED  BY <2>1, <2>2
<1>9. ASSUME NEW j \in DOMAIN args, NEW p \in DOMAIN bys[j]
      PROVE  <<j>> \o p \in DOMAIN by /\ by[<<j>> \o p] = bys[j][p]
  <2>1. p \in ReadsAt(args[j], r)
    BY <1>7
  <2>2. j = o
    BY <2>1
  <2>3. <<j>> \o p \in all
    BY <1>2, <2>1, <2>2 DEF at
  <2>. QED  BY <1>7, <2>1, <2>3
<1>10. ByChildren(by, args, bys)
  BY <1>8, <1>9 DEF ByChildren
<1>11. Substitute(w, by) = Apply(label, [j \in DOMAIN args |-> Substitute(args[j], bys[j])])
  <2>1. AreLeaves(w, DOMAIN by) /\ \A p \in DOMAIN by : DOMAIN by[p] \subseteq Path
    BY <1>4, <1>5, <1>7
  <2>2. \A j \in DOMAIN args : AreLeaves(args[j], DOMAIN bys[j])
    BY <1>6, <1>7
  <2>3. \A j \in DOMAIN args : \A p \in DOMAIN bys[j] : DOMAIN bys[j][p] \subseteq Path
    BY <1>4, <1>7
  <2>4. AreLeaves(Apply(label, args), DOMAIN by)
    BY <2>1 DEF w
  <2>5. Substitute(Apply(label, args), by) = Apply(label, [j \in DOMAIN args |-> Substitute(args[j], bys[j])])
    BY <1>1, <1>10, <2>1, <2>2, <2>3, <2>4, SubstituteApply
  <2>. QED  BY <2>5 DEF w
<1>12. ASSUME NEW j \in DOMAIN args
       PROVE  Substitute(args[j], bys[j]) = [args EXCEPT ![o] = Grafted(args[o], at, e)][j]
  <2>1. CASE j = o
    <3>1. bys[j] = [p \in at |-> e]
      BY <1>7, <2>1 DEF at
    <3>. QED  BY <2>1, <3>1 DEF Grafted
  <2>2. CASE j # o
    <3>1. DOMAIN bys[j] = {}
      BY <1>7, <2>2
    <3>2. Substitute(args[j], bys[j]) = args[j]
      BY <3>1, SubstituteNone DEF IsTerm
    <3>. QED  BY <2>2, <3>2
  <2>. QED  BY <2>1, <2>2
<1>13. [j \in DOMAIN args |-> Substitute(args[j], bys[j])]
         = [args EXCEPT ![o] = Grafted(args[o], at, e)]
  BY <1>12
<1>14. Grafted(w, all, e) = Substitute(w, by)
  BY DEF Grafted, by
<1>. QED  BY <1>11, <1>13, <1>14 DEF w, all, at

LEMMA NoCallInside ==
  ASSUME NEW c, HasShape(c), ~NestedCall(Apply(Dummy, c.operands)), NEW j \in DOMAIN c.operands
  PROVE  EffectsIn(c.operands[j]) = {}
<1>. DEFINE a == Apply(Dummy, c.operands)
<1>. SUFFICES ASSUME NEW f \in EffectsIn(c.operands[j]) PROVE FALSE
  OBVIOUS
<1>1. AreArgs(c.operands)
  BY OperandsAre, TermArgs
<1>2. Applied(a, Dummy, c.operands)
  BY <1>1, ApplyIs
<1>. HIDE DEF a
<1>3. f \in DOMAIN c.operands[j] /\ c.operands[j][f][1] = "call"
  BY OperandsAre, OnlyCalls
<1>4. <<j>> \o f \in DOMAIN a /\ a[<<j>> \o f] = c.operands[j][f]
  BY <1>2, <1>3, Zenon DEF Applied
<1>5. <<j>> \o f # <<>>
  BY <1>1, <1>3, UnderIs DEF AreArgs
<1>6. NestedCall(a)
  BY <1>3, <1>4, <1>5 DEF NestedCall, Labelled
<1>. QED  BY <1>6 DEF a

LEMMA EffectsOutside ==
  ASSUME NEW c, HasShape(c), \A j \in DOMAIN c.operands : EffectsIn(c.operands[j]) = {}
  PROVE  EffectsIn(Whole(c)) \subseteq {<<>>}
<1>. DEFINE w == Whole(c)
<1>1. SUFFICES ASSUME NEW q \in EffectsIn(w), q # <<>> PROVE FALSE
  OBVIOUS
<1>2. q \in DOMAIN w /\ w[q][1] \in {"call", "store", "jump"}
  BY DEF EffectsIn, Labelled
<1>3. CASE c.type \in {"assign", "push"}
  <2>1. \E j \in DOMAIN c.operands : w = c.operands[j]
    BY <1>3, WholeOf, OperandsAre
  <2>. QED  BY <2>1
<1>4. CASE c.type \in {"store", "pop", "jump"}
  <2>1. Applied(w, <<c.type, 0>>, c.operands)
    BY <1>4, WholeOf
  <2>. HIDE DEF w
  <2>2. \E j \in DOMAIN c.operands : \E s \in DOMAIN c.operands[j] : q = <<j>> \o s
    BY <1>1, <1>2, <2>1, Zenon DEF Applied
  <2>3. PICK j \in DOMAIN c.operands : \E s \in DOMAIN c.operands[j] : q = <<j>> \o s
    BY <2>2
  <2>4. PICK s \in DOMAIN c.operands[j] : q = <<j>> \o s
    BY <2>3
  <2>5. w[<<j>> \o s] = c.operands[j][s]
    BY <2>1, Zenon DEF Applied
  <2>6. s \in EffectsIn(c.operands[j])
    BY <1>2, <2>4, <2>5 DEF EffectsIn, Labelled
  <2>. QED  BY <2>6
<1>5. c.type \in {"assign", "store", "push", "pop", "jump"}
  BY DEF HasShape, Types
<1>. QED  BY <1>3, <1>4, <1>5

(***************************************************************************)
(* When the register is replaced in the only operand that reads it, it is  *)
(* replaced wherever the instruction reads it.                             *)
(***************************************************************************)
Fits(c, o, r, e, d) ==
  /\ o \in UsedOperands(c)
  /\ ReadsAt(c.operands[o], r) # {}
  /\ \A q \in UsedOperands(c) : q # o => ReadsAt(c.operands[q], r) = {}
  /\ HasCall(e) => ~(Cardinality(ReadsAt(c.operands[o], r)) > 1)
  /\ HasCall(e) \/ ReadsMemory(e) => ~NestedCall(Apply(Dummy, c.operands))
  /\ d.type = c.type
  /\ d.operands = [c.operands EXCEPT ![o] = Grafted(c.operands[o], ReadsAt(c.operands[o], r), e)]

LEMMA WholeGrafted ==
  ASSUME NEW c, HasShape(c), NEW o, NEW r, NEW e, IsExpression(e), NEW d, Fits(c, o, r, e, d)
  PROVE  LET w == Whole(c)
             at == ReadsAt(w, r) IN
         /\ Whole(d) = Grafted(w, at, e) /\ Mergeable(w, at, e) /\ at # {}
         /\ IsTerm(w)
<1>. DEFINE w == Whole(c)
            at == ReadsAt(w, r)
            part == ReadsAt(c.operands[o], r)
<1>1. o \in UsedOperands(c) /\ o \in DOMAIN c.operands /\ c.type # "pop"
  BY OperandsAre DEF Fits
<1>2. c.type \in {"assign", "store", "push", "jump"} /\ d.type = c.type /\ c.type \in Types
  BY <1>1 DEF HasShape, Types, Fits
<1>3. /\ IsTerm(e) /\ IsTerm(w) /\ IsTerm(c.operands[o])
      /\ DOMAIN d.operands = DOMAIN c.operands
      /\ d.operands[o] = Grafted(c.operands[o], part, e)
  <2>1. IsTerm(e) /\ IsTerm(w) /\ IsTerm(c.operands[o])
    BY <1>1, OperandsAre, WholeOf DEF IsExpression
  <2>2. /\ DOMAIN d.operands = DOMAIN c.operands
        /\ d.operands[o] = Grafted(c.operands[o], part, e)
    BY <1>1 DEF Fits
  <2>. QED  BY <2>1, <2>2
<1>4. part # {} /\ IsFiniteSet(part) /\ (HasCall(e) => \E p : part = {p})
  <2>1. part # {}
    BY DEF Fits
  <2>2. part \subseteq DOMAIN c.operands[o]
    BY DEF ReadsAt
  <2>3. IsFiniteSet(part)
    BY <1>3, <2>2, FS_Subset DEF IsTerm
  <2>4. Cardinality(part) \in Nat /\ Cardinality(part) # 0
    BY <2>1, <2>3, FS_CardinalityType, FS_EmptySet
  <2>5. ASSUME HasCall(e) PROVE \E p : part = {p}
    <3>1. ~(Cardinality(part) > 1)
      BY <2>5 DEF Fits
    <3>2. Cardinality(part) = 1
      BY <2>4, <3>1
    <3>. QED  BY <2>3, <3>2, FS_Singleton
  <2>. QED  BY <2>1, <2>3, <2>5
<1>5. HasCall(e) \/ ReadsMemory(e) => EffectsIn(w) \subseteq {<<>>}
  <2>. SUFFICES ASSUME HasCall(e) \/ ReadsMemory(e) PROVE EffectsIn(w) \subseteq {<<>>}
    OBVIOUS
  <2>1. ~NestedCall(Apply(Dummy, c.operands))
    BY DEF Fits
  <2>. QED  BY <2>1, NoCallInside, EffectsOutside
<1>6. CASE c.type \in {"assign", "push"}
  <2>1. w = c.operands[o] /\ at = part
    BY <1>1, <1>6, OperandsAre, WholeOf
  <2>2. Whole(d) = d.operands[o]
    BY <1>1, <1>2, <1>6, OperandsAre DEF Whole
  <2>3. Whole(d) = Grafted(w, at, e)
    BY <1>3, <2>1, <2>2
  <2>4. Mergeable(w, at, e)
    <3>. HIDE DEF w, at, part
    <3>. QED  BY <1>4, <1>5, <2>1 DEF Mergeable
  <2>. QED  BY <1>3, <1>4, <2>1, <2>3, <2>4
<1>7. CASE c.type \in {"store", "jump"}
  <2>. DEFINE label == <<c.type, 0>>
  <2>1. w = Apply(label, c.operands) /\ UsedOperands(c) = DOMAIN c.operands
    BY <1>7, WholeOf, OperandsAre
  <2>2. label[1] \notin {"reg", "mem"} /\ label[1] # "reg"
    BY <1>7
  <2>3. \A j \in DOMAIN c.operands : j # o => ReadsAt(c.operands[j], r) = {}
    BY <2>1 DEF Fits
  <2>4. /\ DOMAIN c.operands \subseteq Nat /\ IsFiniteSet(DOMAIN c.operands) /\ AreArgs(c.operands)
        /\ \A j \in DOMAIN c.operands : IsTerm(c.operands[j])
    BY OperandsAre, TermArgs
  <2>5. Whole(d) = Apply(label, d.operands)
    BY <1>2, <1>7 DEF Whole
  <2>. HIDE DEF label
  <2>6. Grafted(Apply(label, c.operands), ReadsAt(Apply(label, c.operands), r), e)
          = Apply(label, [c.operands EXCEPT ![o] = Grafted(c.operands[o], ReadsAt(c.operands[o], r), e)])
    BY <1>1, <1>3, <2>2, <2>3, <2>4, GraftedBelow
  <2>7. Whole(d) = Grafted(w, at, e)
    BY <2>1, <2>5, <2>6 DEF Fits
  <2>8. at = {<<o>> \o p : p \in part}
    <3>1. ReadsAt(Apply(label, c.operands), r) = InOperand(o, ReadsAt(c.operands[o], r))
      BY <1>1, <2>2, <2>3, <2>4, ReadsBelow
    <3>. QED  BY <2>1, <3>1 DEF InOperand
  <2>. HIDE DEF w, at, part
  <2>9. at # {} /\ (HasCall(e) => \E p \in at : at = {p})
    <3>1. at # {}
      <4>1. PICK p : p \in part
        BY <1>4
      <4>2. <<o>> \o p \in at
        BY <2>8, <4>1
      <4>. QED  BY <4>2
    <3>2. ASSUME HasCall(e) PROVE \E p \in at : at = {p}
      <4>1. PICK p : part = {p}
        BY <1>4, <3>2
      <4>2. at = {<<o>> \o p}
        BY <2>8, <4>1
      <4>. QED  BY <4>2
    <3>. QED  BY <3>1, <3>2
  <2>10. Mergeable(w, at, e)
    BY <1>5, <2>9 DEF Mergeable
  <2>. QED  BY <1>3, <2>7, <2>9, <2>10 DEF w, at
<1>. QED  BY <1>2, <1>6, <1>7

IsState(s) == AreValues(s) /\ IsStack(s.stack)

-----------------------------------------------------------------------------
(***************************************************************************)
(* What an instruction does to a state.                                    *)
(***************************************************************************)
Result(s, c) == IF c.type = "pop" THEN Popped(s) ELSE Computed(s, c)

StackAfter(s, c) ==
  IF c.type = "push" THEN <<Computed(s, c)>> \o s.stack
  ELSE IF c.type = "pop" /\ s.stack # <<>> THEN Tail(s.stack)
  ELSE SubSeq(s.stack, TakenFrom(s, c) + 1, Len(s.stack))

LEMMA ExecutedIs ==
  ASSUME NEW s, NEW c
  PROVE  LET t == Executed(s, c) IN
         /\ \A r \in Reg : r \in c.definitions => t.env[r] = Result(s, c)
         /\ \A r \in Reg : r \notin c.definitions => t.env[r] = s.env[r]
         /\ t.stack = StackAfter(s, c)
         /\ t.effects = s.effects + Cardinality(EffectsIn(Whole(c)))
         /\ t.events = s.events \cup Events(Whole(c), Computed(s, c), s.effects)
BY DEF Executed, Result, StackAfter

LEMMA Taken ==
  ASSUME NEW s, IsStack(s.stack), NEW c, HasShape(c)
  PROVE  /\ TakenFrom(s, c) \in 0 .. Len(s.stack)
         /\ c.params = 0 \/ c.collected => TakenFrom(s, c) = 0
         /\ c.type # "assign" => TakenFrom(s, c) = 0
<1>1. Len(s.stack) \in Nat /\ c.params \in Int /\ c.params >= -1
  BY DEF IsStack, HasShape, UnknownCount
<1>2. TakenFrom(s, c) \in 0 .. Len(s.stack)
  BY <1>1 DEF TakenFrom, ParametersTaken, UnknownCount
<1>3. c.params = 0 \/ c.collected => TakenFrom(s, c) = 0
  BY <1>1 DEF TakenFrom, ParametersTaken, UnknownCount
<1>4. c.type # "assign" => c.params = 0 \/ c.collected
  BY DEF HasShape
<1>. QED  BY <1>2, <1>3, <1>4

(* Only a call that has got no parameters yet takes any off the stack. *)
LEMMA Uncollected ==
  ASSUME NEW c, HasShape(c), ~(c.params = 0 \/ c.collected)
  PROVE  /\ c.type = "assign" /\ Whole(c) = c.operands[2]
         /\ \E l : l[1] = "call" /\ Whole(c) = Leaf(l)
         /\ EffectsIn(Whole(c)) = {<<>>} /\ RegistersOf(Whole(c)) = {}
         /\ Cardinality(EffectsIn(Whole(c))) = 1
         /\ Cardinality(Nested(Whole(c), <<>>)) = 0
<1>. DEFINE l == c.operands[2][<<>>]
            w == Whole(c)
<1>1. c.type = "assign" /\ c.operands[2] = Leaf(l) /\ l[1] = "call"
  BY DEF HasShape
<1>2. w = Leaf(l) /\ w = c.operands[2]
  BY <1>1 DEF Whole
<1>3. DOMAIN w = {<<>>} /\ w[<<>>] = l
  BY <1>2, LeafTree
<1>. HIDE DEF l, w
<1>4. EffectsIn(w) = {<<>>}
  BY <1>1, <1>3 DEF EffectsIn, Labelled
<1>5. RegistersOf(w) = {}
  BY <1>1, <1>3 DEF RegistersOf, ReadsAt, Register
<1>6. Cardinality({<<>>}) = 1 /\ Cardinality({}) = 0
  BY FS_Singleton, FS_EmptySet
<1>7. Nested(w, <<>>) = {}
  BY <1>4 DEF Nested
<1>. QED  BY <1>1, <1>2, <1>4, <1>5, <1>6, <1>7 DEF w

LEMMA ComputedPath ==
  ASSUME NEW s, IsState(s), NEW c, HasShape(c)
  PROVE  DOMAIN Computed(s, c) \subseteq Path /\ DOMAIN Result(s, c) \subseteq Path
<1>. DEFINE m == TakenFrom(s, c)
            args == [j \in 1 .. m |-> s.stack[j]]
<1>1. m \in 0 .. Len(s.stack) /\ Len(s.stack) \in Nat
  BY Taken DEF IsState, IsStack
<1>. HIDE DEF m
<1>2. ASSUME m = 0 PROVE DOMAIN Computed(s, c) \subseteq Path
  <2>1. Computed(s, c) = Value(Whole(c), s)
    BY <1>2 DEF Computed, m
  <2>2. DOMAIN Value(Whole(c), s) \subseteq Path
    BY WholeOf, ValueIs DEF IsState
  <2>. QED  BY <2>1, <2>2
<1>3. ASSUME m # 0 PROVE DOMAIN Computed(s, c) \subseteq Path
  <2>1. Computed(s, c) = Apply(Whole(c)[<<>>], args)
    BY <1>3 DEF Computed, m
  <2>2. \A j \in 1 .. m : j \in 1 .. Len(s.stack) /\ j \in Nat
    BY <1>1
  <2>3. DOMAIN args = 1 .. m /\ \A j \in 1 .. m : args[j] = s.stack[j]
    OBVIOUS
  <2>. HIDE DEF args
  <2>4. AreArgs(args)
    <3>1. DOMAIN args \subseteq Nat
      BY <2>2, <2>3
    <3>2. \A j \in DOMAIN args : DOMAIN args[j] \subseteq Path
      BY <2>2, <2>3 DEF IsState, IsStack
    <3>. QED  BY <3>1, <3>2 DEF AreArgs
  <2>5. DOMAIN Apply(Whole(c)[<<>>], args) \subseteq Path
    BY <2>4, ApplyIs
  <2>. QED  BY <2>1, <2>5
<1>4. DOMAIN Computed(s, c) \subseteq Path
  BY <1>2, <1>3
<1>5. DOMAIN Popped(s) \subseteq Path
  <2>1. CASE s.stack = <<>>
    <3>1. DOMAIN Popped(s) = {<<>>}
      BY <2>1, LeafTree DEF Popped
    <3>2. <<>> \in Path
      BY DEF Path
    <3>. QED  BY <3>1, <3>2
  <2>2. CASE s.stack # <<>>
    <3>1. Len(s.stack) >= 1 /\ Len(s.stack) \in Nat /\ Head(s.stack) = s.stack[1]
      BY <2>2, StackTail DEF IsState
    <3>2. DOMAIN s.stack[1] \subseteq Path
      BY <3>1 DEF IsState, IsStack
    <3>. QED  BY <2>2, <3>1, <3>2 DEF Popped
  <2>. QED  BY <2>1, <2>2
<1>. QED  BY <1>4, <1>5 DEF Result

LEMMA ExecutedState ==
  ASSUME NEW s, IsState(s), NEW c, HasShape(c)
  PROVE  IsState(Executed(s, c))
<1>. DEFINE t == Executed(s, c)
<1>1. /\ \A r \in Reg : r \in c.definitions => t.env[r] = Result(s, c)
      /\ \A r \in Reg : r \notin c.definitions => t.env[r] = s.env[r]
      /\ t.stack = StackAfter(s, c)
      /\ t.effects = s.effects + Cardinality(EffectsIn(Whole(c)))
      /\ t.events = s.events \cup Events(Whole(c), Computed(s, c), s.effects)
  BY ExecutedIs
<1>. HIDE DEF t
<1>2. DOMAIN Computed(s, c) \subseteq Path /\ DOMAIN Result(s, c) \subseteq Path
  BY ComputedPath
<1>3. ASSUME NEW r \in Reg PROVE DOMAIN t.env[r] \subseteq Path
  <2>1. DOMAIN s.env[r] \subseteq Path
    BY DEF IsState, AreValues
  <2>2. t.env[r] = Result(s, c) \/ t.env[r] = s.env[r]
    BY <1>1
  <2>. QED  BY <1>2, <2>1, <2>2
<1>4. t.effects \in Nat
  <2>1. Cardinality(EffectsIn(Whole(c))) \in Nat
    BY WholeOf, EffectsFinite
  <2>2. s.effects \in Nat
    BY DEF IsState, AreValues
  <2>. QED  BY <1>1, <2>1, <2>2
<1>5. IsStack(StackAfter(s, c))
  <2>1. IsStack(s.stack)
    BY DEF IsState
  <2>2. IsStack(<<Computed(s, c)>> \o s.stack)
    BY <1>2, <2>1, StackPushed
  <2>3. s.stack # <<>> => IsStack(Tail(s.stack))
    BY <2>1, StackTail
  <2>4. TakenFrom(s, c) \in 0 .. Len(s.stack)
    BY <2>1, Taken
  <2>5. IsStack(SubSeq(s.stack, TakenFrom(s, c) + 1, Len(s.stack)))
    BY <2>1, <2>4, StackRest
  <2>. QED  BY <2>2, <2>3, <2>5 DEF StackAfter
<1>. QED  BY <1>1, <1>3, <1>4, <1>5 DEF IsState, AreValues, t

(***************************************************************************)
(* Two states that differ in the registers D, in the values taken off the  *)
(* stack, and in the n effects X that one of them has had already.         *)
(***************************************************************************)
Apart(s, s2, D, a, b, n, X) ==
  /\ \A r \in Reg : r \notin D => s2.env[r] = s.env[r]
  /\ Lost(s.stack, s2.stack, a, b)
  /\ s.effects = s2.effects + n
  /\ s.events = s2.events \cup X

Unmoved(c, s2, D, a, b, n) ==
  /\ Used(c) \cap D = {}
  /\ n # 0 => EffectsIn(Whole(c)) = {} /\ ~ReadsMemory(Whole(c))
  /\ \/ a = 0 /\ b = 0
     \/ (c.params = 0 \/ c.collected) /\ (c.type = "pop" => Len(s2.stack) > b)

LEMMA ComputedApart ==
  ASSUME NEW s, IsState(s), NEW s2, IsState(s2), NEW c, HasShape(c),
         NEW D, NEW a \in Nat, NEW b \in Nat, NEW n \in Nat, NEW X,
         Apart(s, s2, D, a, b, n, X), Unmoved(c, s2, D, a, b, n)
  PROVE  /\ c.type # "pop" => Computed(s2, c) = Computed(s, c)
         /\ TakenFrom(s2, c) = TakenFrom(s, c)
         /\ ~(c.params = 0 \/ c.collected) => s2.stack = s.stack
<1>0. IsStack(s.stack) /\ IsStack(s2.stack) /\ AreValues(s) /\ AreValues(s2)
  BY DEF IsState
<1>1. CASE c.params = 0 \/ c.collected
  <2>1. TakenFrom(s, c) = 0 /\ TakenFrom(s2, c) = 0
    BY <1>0, <1>1, Taken
  <2>2. Computed(s, c) = Value(Whole(c), s) /\ Computed(s2, c) = Value(Whole(c), s2)
    BY <2>1 DEF Computed
  <2>3. ASSUME c.type # "pop" PROVE Value(Whole(c), s2) = Value(Whole(c), s)
    <3>1. ASSUME NEW x \in RegistersOf(Whole(c)) PROVE s2.env[x] = s.env[x]
      <4>1. x \in Used(c) /\ x \in Reg
        BY <2>3, WholeReads DEF RegistersOf
      <4>2. x \notin D
        BY <4>1 DEF Unmoved
      <4>. QED  BY <4>1, <4>2 DEF Apart
    <3>2. ReadsMemory(Whole(c)) => s2.effects = s.effects
      <4>1. ReadsMemory(Whole(c)) => n = 0
        BY DEF Unmoved
      <4>2. s.effects = s2.effects + n /\ s2.effects \in Nat
        BY <1>0 DEF Apart, AreValues
      <4>. QED  BY <4>1, <4>2
    <3>. QED  BY <3>1, <3>2, WholeOf, ValueSame
  <2>. QED  BY <1>1, <2>1, <2>2, <2>3
<1>2. CASE ~(c.params = 0 \/ c.collected)
  <2>1. a = 0 /\ b = 0
    BY <1>2 DEF Unmoved
  <2>2. Lost(s.stack, s2.stack, 0, 0)
    BY <2>1 DEF Apart
  <2>3. s.stack = s2.stack
    BY <1>0, <2>2, LostNothing
  <2>4. TakenFrom(s2, c) = TakenFrom(s, c)
    BY <2>3 DEF TakenFrom
  <2>5. Computed(s2, c) = Computed(s, c)
    <3>1. CASE TakenFrom(s, c) # 0
      BY <2>3, <2>4, <3>1 DEF Computed
    <3>2. CASE TakenFrom(s, c) = 0
      <4>1. Computed(s, c) = Value(Whole(c), s) /\ Computed(s2, c) = Value(Whole(c), s2)
        BY <2>4, <3>2 DEF Computed
      <4>2. EffectsIn(Whole(c)) = {<<>>} /\ RegistersOf(Whole(c)) = {}
        BY <1>2, Uncollected
      <4>3. n = 0
        BY <4>2 DEF Unmoved
      <4>4. s2.effects = s.effects
        BY <1>0, <4>3 DEF Apart, AreValues
      <4>5. Value(Whole(c), s2) = Value(Whole(c), s)
        BY <4>2, <4>4, WholeOf, ValueSame
      <4>. QED  BY <4>1, <4>5
    <3>. QED  BY <3>1, <3>2
  <2>. QED  BY <2>3, <2>4, <2>5
<1>. QED  BY <1>1, <1>2

LEMMA ExecutedApart ==
  ASSUME NEW s, IsState(s), NEW s2, IsState(s2), NEW c, HasShape(c),
         NEW D, NEW a \in Nat, NEW b \in Nat, NEW n \in Nat, NEW X,
         Apart(s, s2, D, a, b, n, X), Unmoved(c, s2, D, a, b, n)
  PROVE  Apart(Executed(s, c), Executed(s2, c), D \ c.definitions, a, b, n, X)
<1>. DEFINE t == Executed(s, c)
            t2 == Executed(s2, c)
            v == Computed(s, c)
            w == Whole(c)
<1>0. IsStack(s.stack) /\ IsStack(s2.stack) /\ AreValues(s) /\ AreValues(s2)
  BY DEF IsState
<1>1. /\ \A r \in Reg : r \in c.definitions => t.env[r] = Result(s, c)
      /\ \A r \in Reg : r \notin c.definitions => t.env[r] = s.env[r]
      /\ t.stack = StackAfter(s, c)
      /\ t.effects = s.effects + Cardinality(EffectsIn(Whole(c)))
      /\ t.events = s.events \cup Events(Whole(c), Computed(s, c), s.effects)
  BY ExecutedIs
<1>2. /\ \A r \in Reg : r \in c.definitions => t2.env[r] = Result(s2, c)
      /\ \A r \in Reg : r \notin c.definitions => t2.env[r] = s2.env[r]
      /\ t2.stack = StackAfter(s2, c)
      /\ t2.effects = s2.effects + Cardinality(EffectsIn(Whole(c)))
      /\ t2.events = s2.events \cup Events(Whole(c), Computed(s2, c), s2.effects)
  BY ExecutedIs
<1>3. /\ c.type # "pop" => Computed(s2, c) = v
      /\ TakenFrom(s2, c) = TakenFrom(s, c)
      /\ ~(c.params = 0 \/ c.collected) => s2.stack = s.stack
  BY ComputedApart
<1>4. /\ Lost(s.stack, s2.stack, a, b) /\ s.effects = s2.effects + n
      /\ s.events = s2.events \cup X
      /\ \A r \in Reg : r \notin D => s2.env[r] = s.env[r]
  BY DEF Apart
<1>5. DOMAIN v \subseteq Path
  BY ComputedPath
<1>. HIDE DEF t, t2, v
<1>6. a = 0 /\ b = 0 => s.stack = s2.stack
  <2>. SUFFICES ASSUME a = 0, b = 0 PROVE s.stack = s2.stack
    OBVIOUS
  <2>1. Lost(s.stack, s2.stack, 0, 0)
    BY <1>4
  <2>. QED  BY <1>0, <2>1, LostNothing
<1>7. ASSUME c.type = "pop"
      PROVE  Popped(s2) = Popped(s) /\ Lost(StackAfter(s, c), StackAfter(s2, c), a, b)
  <2>1. CASE a = 0 /\ b = 0
    <3>1. s.stack = s2.stack
      BY <1>6, <2>1
    <3>2. StackAfter(s, c) = StackAfter(s2, c) /\ Popped(s2) = Popped(s)
      BY <1>3, <1>7, <3>1 DEF StackAfter, Popped
    <3>3. IsStack(StackAfter(s, c))
      <4>1. IsState(t)
        BY ExecutedState DEF t
      <4>. QED  BY <1>1, <4>1 DEF IsState
    <3>4. 0 <= Len(StackAfter(s, c))
      BY <3>3 DEF IsStack
    <3>5. Lost(StackAfter(s, c), StackAfter(s2, c), 0, 0)
      BY <3>2, <3>3, <3>4, LostNothing
    <3>. QED  BY <2>1, <3>2, <3>5
  <2>2. CASE ~(a = 0 /\ b = 0)
    <3>1. Len(s2.stack) > b
      BY <1>7, <2>2 DEF Unmoved
    <3>2. b < Len(s2.stack)
      BY <1>0, <3>1 DEF IsStack
    <3>3. /\ s.stack # <<>> /\ s2.stack # <<>> /\ Head(s.stack) = Head(s2.stack)
          /\ Lost(Tail(s.stack), Tail(s2.stack), a, b)
      BY <1>0, <1>4, <3>2, LostPop
    <3>. QED  BY <1>7, <3>3 DEF Popped, StackAfter
  <2>. QED  BY <2>1, <2>2
<1>8. Lost(StackAfter(s, c), StackAfter(s2, c), a, b)
  <2>1. CASE c.type = "push"
    <3>1. StackAfter(s, c) = <<v>> \o s.stack /\ StackAfter(s2, c) = <<v>> \o s2.stack
      BY <1>3, <2>1 DEF StackAfter, v
    <3>. QED  BY <1>0, <1>4, <1>5, <3>1, LostPush
  <2>2. CASE c.type # "push" /\ c.type # "pop"
    <3>1. /\ StackAfter(s, c) = SubSeq(s.stack, TakenFrom(s, c) + 1, Len(s.stack))
          /\ StackAfter(s2, c) = SubSeq(s2.stack, TakenFrom(s2, c) + 1, Len(s2.stack))
      BY <2>2 DEF StackAfter
    <3>2. CASE a = 0 /\ b = 0
      <4>1. StackAfter(s, c) = StackAfter(s2, c)
        BY <1>3, <1>6, <3>1, <3>2
      <4>2. IsStack(StackAfter(s, c))
        <5>1. IsState(t)
          BY ExecutedState DEF t
        <5>. QED  BY <1>1, <5>1 DEF IsState
      <4>3. 0 <= Len(StackAfter(s, c))
        BY <4>2 DEF IsStack
      <4>4. Lost(StackAfter(s, c), StackAfter(s2, c), 0, 0)
        BY <4>1, <4>2, <4>3, LostNothing
      <4>. QED  BY <3>2, <4>4
    <3>3. CASE ~(a = 0 /\ b = 0)
      <4>1. c.params = 0 \/ c.collected
        BY <3>3 DEF Unmoved
      <4>2. TakenFrom(s, c) = 0 /\ TakenFrom(s2, c) = 0
        BY <1>0, <4>1, Taken
      <4>3. 0 \in 0 .. Len(s.stack) /\ 0 \in 0 .. Len(s2.stack)
        BY <1>0 DEF IsStack
      <4>4. SubSeq(s.stack, 0 + 1, Len(s.stack)) = s.stack
        BY <1>0, <4>3, StackRest
      <4>5. SubSeq(s2.stack, 0 + 1, Len(s2.stack)) = s2.stack
        BY <1>0, <4>3, StackRest
      <4>. QED  BY <1>4, <3>1, <4>2, <4>4, <4>5
    <3>. QED  BY <3>2, <3>3
  <2>. QED  BY <1>7, <2>1, <2>2
<1>9. t.effects = t2.effects + n
  <2>1. Cardinality(EffectsIn(Whole(c))) \in Nat
    BY WholeOf, EffectsFinite
  <2>2. s.effects \in Nat /\ s2.effects \in Nat
    BY <1>0 DEF AreValues
  <2>. QED  BY <1>1, <1>2, <1>4, <2>1, <2>2
<1>10. Events(w, Computed(s2, c), s2.effects) = Events(w, Computed(s, c), s.effects)
  <2>1. CASE EffectsIn(w) = {}
    BY <2>1 DEF Events
  <2>2. CASE EffectsIn(w) # {}
    <3>1. c.type # "pop"
      BY <2>2, PopQuiet
    <3>2. n = 0
      BY <2>2 DEF Unmoved
    <3>3. s2.effects = s.effects
      BY <1>0, <1>4, <3>2 DEF AreValues
    <3>. QED  BY <1>3, <3>1, <3>3 DEF v
  <2>. QED  BY <2>1, <2>2
<1>11. t.events = t2.events \cup X
  BY <1>1, <1>2, <1>4, <1>10 DEF w
<1>12. ASSUME NEW r \in Reg, r \notin D \ c.definitions PROVE t2.env[r] = t.env[r]
  <2>1. Result(s2, c) = Result(s, c)
    BY <1>3, <1>7 DEF Result, v
  <2>. QED  BY <1>1, <1>2, <1>4, <1>12, <2>1
<1>. QED  BY <1>1, <1>2, <1>8, <1>9, <1>11, <1>12 DEF Apart, t, t2

(***************************************************************************)
(* The states of a list, from the one before it on.                        *)
(***************************************************************************)
After(s, c) == IF c.deleted THEN s ELSE Executed(s, c)

LEMMA RunIs ==
  ASSUME NEW c, Len(c) \in Nat
  PROVE  /\ Run(c)[0] = Start
         /\ \A k \in 1 .. Len(c) : Run(c)[k] = After(Run(c)[k - 1], c[k])
<1>. DEFINE Is(f, m) ==
              f = [k \in 0 .. m |->
                     IF k = 0 THEN Start ELSE IF c[k].deleted THEN f[k - 1] ELSE Executed(f[k - 1], c[k])]
            T == {m \in Nat : ~\E f : Is(f, m)}
<1>1. T = {}
  <2>. SUFFICES ASSUME T # {} PROVE FALSE
    OBVIOUS
  <2>1. PICK m \in T : \A k \in T : m <= k
    <3>1. T \in SUBSET Nat
      OBVIOUS
    <3>. HIDE DEF T
    <3>. QED  BY <3>1, LeastNumber
  <2>2. CASE m = 0
    <3>1. Is([k \in 0 .. 0 |-> Start], 0)
      OBVIOUS
    <3>. QED  BY <2>2, <3>1
  <2>3. CASE m # 0
    <3>0. m \in Nat
      OBVIOUS
    <3>1. m - 1 \in Nat /\ m - 1 \notin T
      <4>. HIDE DEF T
      <4>. QED  BY <2>1, <2>3, <3>0
    <3>2. PICK f : Is(f, m - 1)
      BY <3>1
    <3>. DEFINE g == [k \in 0 .. m |->
                        IF k = 0 THEN Start
                        ELSE IF c[k].deleted THEN f[k - 1] ELSE Executed(f[k - 1], c[k])]
    <3>3. \A k \in 0 .. m - 1 : g[k] = f[k]
      BY <3>0, <3>2
    <3>4. \A k \in 0 .. m : g[k] = IF k = 0 THEN Start
                                   ELSE IF c[k].deleted THEN g[k - 1] ELSE Executed(g[k - 1], c[k])
      <4>1. \A k \in 0 .. m : k # 0 => k - 1 \in 0 .. m - 1
        BY <3>0
      <4>. QED  BY <3>3, <4>1
    <3>5. Is(g, m)
      <4>1. g = [k \in 0 .. m |-> g[k]]
        OBVIOUS
      <4>. HIDE DEF g
      <4>. QED  BY <3>4, <4>1
    <3>. QED  BY <3>5
  <2>. QED  BY <2>2, <2>3
<1>2. Len(c) \in Nat /\ Len(c) \notin T
  <2>. HIDE DEF T
  <2>. QED  BY <1>1
<1>3. \E f : Is(f, Len(c))
  BY <1>2
<1>4. Run(c) = CHOOSE f : Is(f, Len(c))
  BY DEF Run
<1>5. Is(Run(c), Len(c))
  <2>. HIDE DEF Is
  <2>. QED  BY <1>3, <1>4
<1>. DEFINE s == Run(c)
<1>6. Is(s, Len(c))
  BY <1>5
<1>. HIDE DEF s
<1>7. s[0] = Start
  BY <1>2, <1>6
<1>8. ASSUME NEW k \in 1 .. Len(c) PROVE s[k] = After(s[k - 1], c[k])
  <2>1. k \in 0 .. Len(c) /\ k # 0
    BY <1>2
  <2>. QED  BY <1>6, <2>1 DEF After
<1>. QED  BY <1>7, <1>8 DEF s

AreShaped(c) == Len(c) \in Nat /\ \A k \in 1 .. Len(c) : HasShape(c[k])

LEMMA StartState == IsState(Start)
<1>1. \A r \in Reg : DOMAIN Start.env[r] = {<<>>}
  BY LeafTree DEF Start
<1>2. <<>> \in Path
  BY DEF Path
<1>3. Start.effects = 0 /\ Start.stack = <<>>
  BY DEF Start
<1>4. IsStack(<<>>)
  BY DEF IsStack, IsList
<1>. QED  BY <1>1, <1>2, <1>3, <1>4 DEF IsState, AreValues

LEMMA RunStates ==
  ASSUME NEW c, AreShaped(c)
  PROVE  \A k \in 0 .. Len(c) : IsState(Run(c)[k])
<1>. DEFINE P == {k \in 0 .. Len(c) : IsState(Run(c)[k])}
            s == Run(c)
<1>0. Len(c) \in Nat /\ 0 \in Nat
  BY DEF AreShaped
<1>1. s[0] = Start /\ \A k \in 1 .. Len(c) : s[k] = After(s[k - 1], c[k])
  BY <1>0, RunIs
<1>2. 0 \in P
  BY <1>0, <1>1, StartState
<1>3. ASSUME NEW k \in 0 .. Len(c), k \in P, k < Len(c) PROVE k + 1 \in P
  <2>1. k + 1 \in 1 .. Len(c) /\ k + 1 \in 0 .. Len(c) /\ (k + 1) - 1 = k
    BY <1>0, <1>3
  <2>2. s[k + 1] = After(s[k], c[k + 1])
    BY <1>1, <2>1
  <2>3. HasShape(c[k + 1]) /\ IsState(s[k])
    BY <1>3, <2>1 DEF AreShaped
  <2>4. IsState(s[k + 1])
    BY <2>2, <2>3, ExecutedState DEF After
  <2>. QED  BY <2>1, <2>4
<1>. HIDE DEF P
<1>4. \A k \in 0 .. Len(c) : k \in P
  BY <1>0, <1>2, <1>3, Upward
<1>. QED  BY <1>4 DEF P

(***************************************************************************)
(* Two instructions that do the same.                                      *)
(***************************************************************************)
Alike(c, d) ==
  /\ d.type = c.type /\ d.operands = c.operands /\ d.params = c.params
  /\ d.definitions = c.definitions /\ d.deleted = c.deleted /\ d.collected = c.collected

LEMMA AlikeSame ==
  ASSUME NEW c, NEW d, Alike(c, d), NEW s
  PROVE  /\ After(s, d) = After(s, c) /\ Whole(d) = Whole(c) /\ Used(d) = Used(c)
         /\ Executed(s, d) = Executed(s, c)
<1>1. Whole(d) = Whole(c)
  BY DEF Alike, Whole
<1>2. TakenFrom(s, d) = TakenFrom(s, c)
  BY DEF Alike, TakenFrom
<1>3. Computed(s, d) = Computed(s, c)
  BY <1>1, <1>2 DEF Computed
<1>4. Executed(s, d) = Executed(s, c)
  BY <1>1, <1>2, <1>3 DEF Executed, Alike
<1>5. Used(d) = Used(c)
  BY DEF Used, UsedOperands, Alike
<1>. QED  BY <1>1, <1>4, <1>5 DEF After, Alike

AreAlike(c, d, m, n) == \A k \in m + 1 .. n : Alike(c[k], d[k])

LEMMA RunAlike ==
  ASSUME NEW c, NEW d, Len(c) \in Nat, Len(d) = Len(c),
         NEW m \in 0 .. Len(c), NEW n \in m .. Len(c),
         Run(d)[m] = Run(c)[m], AreAlike(c, d, m, n)
  PROVE  \A k \in m .. n : Run(d)[k] = Run(c)[k]
<1>. DEFINE s == Run(c)
            s2 == Run(d)
            P == {k \in m .. n : s2[k] = s[k]}
<1>0. m \in Nat /\ n \in Nat /\ m <= n /\ n <= Len(c)
  OBVIOUS
<1>1. \A k \in 1 .. Len(c) : s[k] = After(s[k - 1], c[k]) /\ s2[k] = After(s2[k - 1], d[k])
  BY RunIs
<1>. HIDE DEF s, s2
<1>2. m \in P
  BY DEF s, s2
<1>3. ASSUME NEW k \in m .. n, k \in P, k < n PROVE k + 1 \in P
  <2>1. k + 1 \in 1 .. Len(c) /\ k + 1 \in m + 1 .. n /\ k + 1 \in m .. n /\ (k + 1) - 1 = k
    BY <1>0, <1>3
  <2>2. s[k + 1] = After(s[k], c[k + 1]) /\ s2[k + 1] = After(s2[k], d[k + 1])
    BY <1>1, <2>1
  <2>3. After(s[k], d[k + 1]) = After(s[k], c[k + 1])
    BY <2>1, AlikeSame DEF AreAlike
  <2>. QED  BY <1>3, <2>1, <2>2, <2>3
<1>. HIDE DEF P
<1>4. \A k \in m .. n : k \in P
  BY <1>0, <1>2, <1>3, Upward
<1>. QED  BY <1>4 DEF P, s, s2

(* What is not defined in between is what it was. *)
LEMMA EnvKept ==
  ASSUME NEW c, AreShaped(c), NEW m \in 0 .. Len(c), NEW n \in m .. Len(c), NEW x \in Reg,
         \A k \in m + 1 .. n : ~c[k].deleted => x \notin c[k].definitions
  PROVE  \A k \in m .. n : Run(c)[k].env[x] = Run(c)[m].env[x]
<1>. DEFINE s == Run(c)
            P == {k \in m .. n : s[k].env[x] = s[m].env[x]}
<1>0. m \in Nat /\ n \in Nat /\ m <= n /\ n <= Len(c) /\ Len(c) \in Nat
  BY DEF AreShaped
<1>1. \A k \in 1 .. Len(c) : s[k] = After(s[k - 1], c[k])
  BY <1>0, RunIs
<1>. HIDE DEF s
<1>2. m \in P
  BY <1>0
<1>3. ASSUME NEW k \in m .. n, k \in P, k < n PROVE k + 1 \in P
  <2>1. k + 1 \in 1 .. Len(c) /\ k + 1 \in m + 1 .. n /\ k + 1 \in m .. n /\ (k + 1) - 1 = k
    BY <1>0, <1>3
  <2>2. s[k + 1] = After(s[k], c[k + 1])
    BY <1>1, <2>1
  <2>3. s[k + 1].env[x] = s[k].env[x]
    <3>1. CASE c[k + 1].deleted
      BY <2>2, <3>1 DEF After
    <3>2. CASE ~c[k + 1].deleted
      <4>1. x \notin c[k + 1].definitions
        BY <2>1, <3>2
      <4>2. s[k + 1] = Executed(s[k], c[k + 1])
        BY <2>2, <3>2 DEF After
      <4>. QED  BY <4>1, <4>2, ExecutedIs
    <3>. QED  BY <3>1, <3>2
  <2>. QED  BY <1>3, <2>1, <2>3
<1>. HIDE DEF P
<1>4. \A k \in m .. n : k \in P
  BY <1>0, <1>2, <1>3, Upward
<1>. QED  BY <1>4 DEF P, s

LEMMA EffectsKept ==
  ASSUME NEW c, AreShaped(c), NEW m \in 0 .. Len(c), NEW n \in m .. Len(c),
         \A k \in m + 1 .. n : ~c[k].deleted => EffectsIn(Whole(c[k])) = {}
  PROVE  \A k \in m .. n : Run(c)[k].effects = Run(c)[m].effects
<1>. DEFINE s == Run(c)
            P == {k \in m .. n : s[k].effects = s[m].effects}
<1>0. m \in Nat /\ n \in Nat /\ m <= n /\ n <= Len(c) /\ Len(c) \in Nat
  BY DEF AreShaped
<1>1. \A k \in 1 .. Len(c) : s[k] = After(s[k - 1], c[k])
  BY <1>0, RunIs
<1>2. \A k \in 0 .. Len(c) : IsState(s[k])
  BY RunStates
<1>. HIDE DEF s
<1>3. m \in P
  BY <1>0
<1>4. ASSUME NEW k \in m .. n, k \in P, k < n PROVE k + 1 \in P
  <2>1. k + 1 \in 1 .. Len(c) /\ k + 1 \in m + 1 .. n /\ k + 1 \in m .. n /\ (k + 1) - 1 = k
        /\ k \in 0 .. Len(c)
    BY <1>0, <1>4
  <2>2. s[k + 1] = After(s[k], c[k + 1])
    BY <1>1, <2>1
  <2>3. s[k + 1].effects = s[k].effects
    <3>1. CASE c[k + 1].deleted
      BY <2>2, <3>1 DEF After
    <3>2. CASE ~c[k + 1].deleted
      <4>1. EffectsIn(Whole(c[k + 1])) = {}
        BY <2>1, <3>2
      <4>2. Cardinality(EffectsIn(Whole(c[k + 1]))) = 0
        BY <4>1, FS_EmptySet
      <4>3. s[k + 1] = Executed(s[k], c[k + 1])
        BY <2>2, <3>2 DEF After
      <4>4. s[k + 1].effects = s[k].effects + Cardinality(EffectsIn(Whole(c[k + 1])))
        BY <4>3, ExecutedIs
      <4>5. s[k].effects \in Nat
        BY <1>2, <2>1 DEF IsState, AreValues
      <4>. QED  BY <4>2, <4>4, <4>5
    <3>. QED  BY <3>1, <3>2
  <2>. QED  BY <1>4, <2>1, <2>3
<1>. HIDE DEF P
<1>5. \A k \in m .. n : k \in P
  BY <1>0, <1>3, <1>4, Upward
<1>. QED  BY <1>5 DEF P, s

(* Fewer registers to differ in may be more. *)
LEMMA ApartIn ==
  ASSUME NEW s, NEW s2, NEW D, NEW E, NEW a, NEW b, NEW n, NEW X,
         Apart(s, s2, D, a, b, n, X), D \subseteq E
  PROVE  Apart(s, s2, E, a, b, n, X)
BY DEF Apart

LEMMA EqualApart ==
  ASSUME NEW s, IsState(s), NEW D
  PROVE  Apart(s, s, D, 0, 0, 0, {})
<1>1. IsStack(s.stack) /\ s.effects \in Nat /\ 0 <= Len(s.stack)
  BY DEF IsState, AreValues, IsStack
<1>2. Lost(s.stack, s.stack, 0, 0)
  BY <1>1, LostNothing
<1>. QED  BY <1>1, <1>2 DEF Apart

(***************************************************************************)
(* States stay apart as long as nothing depends on what they differ in.    *)
(* The registers they differ in may become fewer.                          *)
(***************************************************************************)
Unmoving(c, d, D, m, n, a, b, e) ==
  \A k \in m + 1 .. n :
    /\ Alike(c[k], d[k])
    /\ c[k].deleted => D[k - 1] \subseteq D[k]
    /\ ~c[k].deleted =>
         D[k - 1] \ c[k].definitions \subseteq D[k] /\ Unmoved(c[k], Run(d)[k - 1], D[k - 1], a, b, e)

LEMMA ApartOn ==
  ASSUME NEW c, AreShaped(c), NEW d, AreShaped(d), Len(d) = Len(c),
         NEW m \in 0 .. Len(c), NEW n \in m .. Len(c), NEW D,
         NEW a \in Nat, NEW b \in Nat, NEW e \in Nat, NEW X,
         Apart(Run(c)[m], Run(d)[m], D[m], a, b, e, X), Unmoving(c, d, D, m, n, a, b, e)
  PROVE  \A k \in m .. n : Apart(Run(c)[k], Run(d)[k], D[k], a, b, e, X)
<1>. DEFINE s == Run(c)
            s2 == Run(d)
            P == {k \in m .. n : Apart(s[k], s2[k], D[k], a, b, e, X)}
<1>0. m \in Nat /\ n \in Nat /\ m <= n /\ n <= Len(c) /\ Len(c) \in Nat /\ Len(d) \in Nat
  BY DEF AreShaped
<1>1. \A k \in 1 .. Len(c) : s[k] = After(s[k - 1], c[k]) /\ s2[k] = After(s2[k - 1], d[k])
  BY <1>0, RunIs
<1>2. \A k \in 0 .. Len(c) : IsState(s[k]) /\ IsState(s2[k])
  BY RunStates
<1>3. \A k \in m + 1 .. n :
        /\ Alike(c[k], d[k])
        /\ c[k].deleted => D[k - 1] \subseteq D[k]
        /\ ~c[k].deleted =>
             D[k - 1] \ c[k].definitions \subseteq D[k] /\ Unmoved(c[k], s2[k - 1], D[k - 1], a, b, e)
  BY DEF Unmoving
<1>4. m \in P
  BY <1>0
<1>. HIDE DEF s, s2
<1>5. ASSUME NEW k \in m .. n, k \in P, k < n PROVE k + 1 \in P
  <2>1. k + 1 \in 1 .. Len(c) /\ k + 1 \in m + 1 .. n /\ k + 1 \in m .. n /\ (k + 1) - 1 = k
        /\ k \in 0 .. Len(c)
    BY <1>0, <1>5
  <2>2. s[k + 1] = After(s[k], c[k + 1]) /\ s2[k + 1] = After(s2[k], d[k + 1])
    BY <1>1, <2>1
  <2>3. /\ Alike(c[k + 1], d[k + 1])
        /\ c[k + 1].deleted => D[k] \subseteq D[k + 1]
        /\ ~c[k + 1].deleted =>
             D[k] \ c[k + 1].definitions \subseteq D[k + 1] /\ Unmoved(c[k + 1], s2[k], D[k], a, b, e)
    BY <1>3, <2>1
  <2>4. s2[k + 1] = After(s2[k], c[k + 1])
    BY <2>2, <2>3, AlikeSame
  <2>5. Apart(s[k], s2[k], D[k], a, b, e, X) /\ IsState(s[k]) /\ IsState(s2[k])
    BY <1>2, <1>5, <2>1
  <2>6. Apart(s[k + 1], s2[k + 1], D[k + 1], a, b, e, X)
    <3>1. CASE c[k + 1].deleted
      <4>1. s[k + 1] = s[k] /\ s2[k + 1] = s2[k]
        BY <2>2, <2>4, <3>1 DEF After
      <4>. QED  BY <2>3, <2>5, <3>1, <4>1, ApartIn
    <3>2. CASE ~c[k + 1].deleted
      <4>1. s[k + 1] = Executed(s[k], c[k + 1]) /\ s2[k + 1] = Executed(s2[k], c[k + 1])
        BY <2>2, <2>4, <3>2 DEF After
      <4>2. HasShape(c[k + 1])
        BY <2>1 DEF AreShaped
      <4>3. Apart(s[k + 1], s2[k + 1], D[k] \ c[k + 1].definitions, a, b, e, X)
        BY <2>3, <2>5, <3>2, <4>1, <4>2, ExecutedApart
      <4>. QED  BY <2>3, <3>2, <4>3, ApartIn
    <3>. QED  BY <3>1, <3>2
  <2>. QED  BY <2>1, <2>6
<1>. HIDE DEF P
<1>6. \A k \in m .. n : k \in P
  BY <1>0, <1>4, <1>5, Upward
<1>. QED  BY <1>6 DEF P, s, s2

LEMMA SameMeaning ==
  ASSUME NEW c, AreShaped(c), NEW d, AreShaped(d), Len(d) = Len(c), NEW D, NEW out \in SUBSET Reg,
         Apart(Run(c)[Len(c)], Run(d)[Len(c)], D, 0, 0, 0, {}), D \cap out = {}
  PROVE  Meaning(d, out) = Meaning(c, out)
<1>. DEFINE s == Run(c)[Len(c)]
            s2 == Run(d)[Len(c)]
<1>1. Len(c) \in 0 .. Len(c) /\ Len(c) \in 0 .. Len(d)
  BY DEF AreShaped
<1>2. IsState(s) /\ IsState(s2)
  BY <1>1, RunStates
<1>. HIDE DEF s, s2
<1>3. Apart(s, s2, D, 0, 0, 0, {})
  BY DEF s, s2
<1>4. IsStack(s.stack) /\ IsStack(s2.stack) /\ Lost(s.stack, s2.stack, 0, 0)
  BY <1>2, <1>3 DEF IsState, Apart
<1>5. s.stack = s2.stack
  BY <1>4, LostNothing
<1>6. s.events = s2.events
  BY <1>3 DEF Apart
<1>7. \A r \in out : s2.env[r] = s.env[r]
  BY <1>3 DEF Apart
<1>8. [r \in out |-> s2.env[r]] = [r \in out |-> s.env[r]]
  BY <1>7
<1>9. Meaning(c, out) = [env |-> [r \in out |-> s.env[r]], stack |-> s.stack, events |-> s.events]
  BY DEF Meaning, s
<1>10. Meaning(d, out) = [env |-> [r \in out |-> s2.env[r]], stack |-> s2.stack, events |-> s2.events]
  BY DEF Meaning, s2
<1>. QED  BY <1>5, <1>6, <1>8, <1>9, <1>10

(***************************************************************************)
(* A register that nothing reads behind t before it is defined again; it   *)
(* may have been defined again since m.                                    *)
(***************************************************************************)
Stale(c, r, m, k) == {x \in {r} : ~\E l \in m + 1 .. k : ~c[l].deleted /\ r \in c[l].definitions}

Dead(c, r, m, t, out) ==
  /\ \A j \in t + 1 .. Len(c) : ~c[j].deleted /\ r \in Used(c[j]) => Stale(c, r, m, j - 1) = {}
  /\ r \in out => Stale(c, r, m, Len(c)) = {}

LEMMA DeadMeans ==
  ASSUME NEW c, AreShaped(c), NEW d, AreShaped(d), Len(d) = Len(c), NEW out \in SUBSET Reg,
         NEW r, NEW m \in Nat, NEW t \in m .. Len(c), AreAlike(c, d, t, Len(c)), Dead(c, r, m, t, out),
         Apart(Run(c)[t], Run(d)[t], Stale(c, r, m, t), 0, 0, 0, {})
  PROVE  Meaning(d, out) = Meaning(c, out)
<1>. DEFINE n == Len(c)
            D == [k \in 0 .. n |-> Stale(c, r, m, k)]
<1>0. n \in Nat /\ t \in 0 .. n /\ n \in t .. n /\ m <= t
  BY DEF AreShaped
<1>1. \A k \in 0 .. n : D[k] = Stale(c, r, m, k)
  OBVIOUS
<1>. HIDE DEF D
<1>2. ASSUME NEW k \in t + 1 .. n
      PROVE  /\ Alike(c[k], d[k])
             /\ c[k].deleted => D[k - 1] \subseteq D[k]
             /\ ~c[k].deleted =>
                  /\ D[k - 1] \ c[k].definitions \subseteq D[k]
                  /\ Unmoved(c[k], Run(d)[k - 1], D[k - 1], 0, 0, 0)
  <2>1. k \in 0 .. n /\ k - 1 \in 0 .. n
    BY <1>0
  <2>2. D[k] = Stale(c, r, m, k) /\ D[k - 1] = Stale(c, r, m, k - 1)
    BY <1>1, <2>1
  <2>3. \A l \in m + 1 .. k : l = k \/ l \in m + 1 .. k - 1
    BY <1>0
  <2>4. c[k].deleted => D[k - 1] \subseteq D[k]
    BY <2>2, <2>3 DEF Stale
  <2>5. D[k - 1] \ c[k].definitions \subseteq D[k]
    BY <2>2, <2>3 DEF Stale
  <2>6. ASSUME ~c[k].deleted PROVE Used(c[k]) \cap D[k - 1] = {}
    <3>1. r \in Used(c[k]) => D[k - 1] = {}
      BY <2>2, <2>6 DEF Dead
    <3>2. D[k - 1] \subseteq {r}
      BY <2>2 DEF Stale
    <3>. QED  BY <3>1, <3>2
  <2>7. ~c[k].deleted => Unmoved(c[k], Run(d)[k - 1], D[k - 1], 0, 0, 0)
    BY <2>6 DEF Unmoved
  <2>8. Alike(c[k], d[k])
    BY DEF AreAlike
  <2>. QED  BY <2>4, <2>5, <2>7, <2>8
<1>3. Unmoving(c, d, D, t, n, 0, 0, 0)
  BY <1>2 DEF Unmoving
<1>4. Apart(Run(c)[t], Run(d)[t], D[t], 0, 0, 0, {})
  BY <1>0, <1>1
<1>5. \A k \in t .. n : Apart(Run(c)[k], Run(d)[k], D[k], 0, 0, 0, {})
  BY <1>0, <1>3, <1>4, ApartOn
<1>6. Apart(Run(c)[n], Run(d)[n], Stale(c, r, m, n), 0, 0, 0, {})
  BY <1>0, <1>1, <1>5
<1>7. Stale(c, r, m, n) \cap out = {}
  <2>1. Stale(c, r, m, n) \subseteq {r}
    BY DEF Stale
  <2>. QED  BY <2>1 DEF Dead
<1>. QED  BY <1>6, <1>7, SameMeaning

-----------------------------------------------------------------------------
(***************************************************************************)
(* The stack of PUSHes and the stack of the program.  When the list has    *)
(* been run up to m there is for each place on st, at its height, the      *)
(* value that was pushed there.                                            *)
(***************************************************************************)
Holds(values, h, v) == h <= Len(values) /\ values[Len(values) - h + 1] = v

OnStack(s, c, p, h, m) ==
  /\ Len(s[p].stack) = h
  /\ \A i \in p .. m : Holds(s[i].stack, h, Value(c[p].operands[1], s[p - 1]))

StackMatches(s, c, st, m) ==
  /\ Len(s[m].stack) = Len(st)
  /\ \A j \in 1 .. Len(st) : OnStack(s, c, st[j], Len(st) - j + 1, m)

ArePlaces(st, m) == st \in Seq(1 .. m)

LEMMA PlacesMatch ==
  ASSUME NEW m \in Nat, NEW st, ArePlaces(st, m), NEW s, NEW c, NEW s2, NEW d,
         \A i \in 0 .. m : s2[i] = s[i],
         \A j \in 1 .. Len(st) : d[st[j]].operands = c[st[j]].operands,
         StackMatches(s, c, st, m)
  PROVE  StackMatches(s2, d, st, m)
<1>1. Len(s2[m].stack) = Len(st)
  BY DEF StackMatches
<1>2. ASSUME NEW j \in 1 .. Len(st) PROVE OnStack(s2, d, st[j], Len(st) - j + 1, m)
  <2>1. st[j] \in 1 .. m
    BY DEF ArePlaces
  <2>2. st[j] \in 0 .. m /\ st[j] - 1 \in 0 .. m /\ \A i \in st[j] .. m : i \in 0 .. m
    BY <2>1
  <2>3. OnStack(s, c, st[j], Len(st) - j + 1, m)
    BY DEF StackMatches
  <2>4. s2[st[j]] = s[st[j]] /\ s2[st[j] - 1] = s[st[j] - 1] /\ \A i \in st[j] .. m : s2[i] = s[i]
    BY <2>2
  <2>. QED  BY <2>3, <2>4 DEF OnStack
<1>. QED  BY <1>1, <1>2 DEF StackMatches

(* One more state in which the stack is the same. *)
LEMMA SameMatch ==
  ASSUME NEW m \in Nat, NEW st, ArePlaces(st, m), NEW s, NEW c,
         s[m + 1].stack = s[m].stack, StackMatches(s, c, st, m)
  PROVE  StackMatches(s, c, st, m + 1)
<1>1. Len(s[m + 1].stack) = Len(st)
  BY DEF StackMatches
<1>2. ASSUME NEW j \in 1 .. Len(st) PROVE OnStack(s, c, st[j], Len(st) - j + 1, m + 1)
  <2>1. st[j] \in 1 .. m
    BY DEF ArePlaces
  <2>2. OnStack(s, c, st[j], Len(st) - j + 1, m)
    BY DEF StackMatches
  <2>3. m \in st[j] .. m /\ \A i \in st[j] .. m + 1 : i \in st[j] .. m \/ i = m + 1
    BY <2>1
  <2>. QED  BY <2>2, <2>3 DEF OnStack
<1>. QED  BY <1>1, <1>2 DEF StackMatches

LEMMA PushMatch ==
  ASSUME NEW m \in Nat, NEW st, ArePlaces(st, m), NEW s, NEW c,
         IsStack(s[m].stack), NEW v, DOMAIN v \subseteq Path,
         v = Value(c[m + 1].operands[1], s[m]), s[m + 1].stack = <<v>> \o s[m].stack,
         StackMatches(s, c, st, m)
  PROVE  StackMatches(s, c, <<m + 1>> \o st, m + 1)
<1>. DEFINE more == <<m + 1>> \o st
            n == Len(st)
            old == s[m].stack
            new == s[m + 1].stack
<1>1. /\ n \in Nat /\ Len(more) = n + 1 /\ more[1] = m + 1
      /\ \A j \in 1 .. n : more[j + 1] = st[j] /\ st[j] \in 1 .. m
  BY DEF ArePlaces
<1>2. /\ Len(new) = Len(old) + 1 /\ new[1] = v /\ \A j \in 1 .. Len(old) : new[j + 1] = old[j]
  BY StackPushed
<1>3. Len(old) = n /\ \A j \in 1 .. n : OnStack(s, c, st[j], n - j + 1, m)
  BY DEF StackMatches
<1>. HIDE DEF more, n, old, new
<1>4. ASSUME NEW j \in 1 .. n + 1 PROVE OnStack(s, c, more[j], (n + 1) - j + 1, m + 1)
  <2>1. CASE j = 1
    <3>1. more[j] = m + 1 /\ (n + 1) - j + 1 = n + 1 /\ Len(new) = n + 1
      BY <1>1, <1>2, <1>3, <2>1
    <3>2. Holds(new, n + 1, v)
      <4>1. n + 1 <= Len(new) /\ Len(new) - (n + 1) + 1 = 1
        BY <1>1, <3>1
      <4>. QED  BY <1>2, <4>1 DEF Holds
    <3>3. \A i \in m + 1 .. m + 1 : i = m + 1
      OBVIOUS
    <3>4. (m + 1) - 1 = m
      OBVIOUS
    <3>5. Holds(s[m + 1].stack, n + 1, Value(c[m + 1].operands[1], s[(m + 1) - 1]))
      BY <3>2, <3>4 DEF new
    <3>6. Len(s[m + 1].stack) = n + 1
      BY <3>1 DEF new
    <3>7. OnStack(s, c, m + 1, n + 1, m + 1)
      BY <3>3, <3>5, <3>6 DEF OnStack
    <3>. QED  BY <3>1, <3>7
  <2>2. CASE j # 1
    <3>. DEFINE l == j - 1
                h == n - l + 1
                p == st[l]
    <3>1. l \in 1 .. n /\ l + 1 = j /\ (n + 1) - j + 1 = h
      BY <1>1, <2>2
    <3>2. more[j] = p /\ p \in 1 .. m /\ OnStack(s, c, p, h, m)
      BY <1>1, <1>3, <3>1
    <3>3. h \in 1 .. n
      BY <1>1, <3>1
    <3>. HIDE DEF l, p, h
    <3>4. m \in p .. m /\ \A i \in p .. m + 1 : i \in p .. m \/ i = m + 1
      BY <3>2
    <3>5. Holds(old, h, Value(c[p].operands[1], s[p - 1]))
      BY <3>2, <3>4 DEF OnStack, old
    <3>6. Len(old) - h + 1 \in 1 .. Len(old) /\ (Len(old) - h + 1) + 1 = (Len(old) + 1) - h + 1
      BY <1>1, <1>3, <3>3
    <3>7. new[(Len(old) - h + 1) + 1] = old[Len(old) - h + 1]
      BY <1>2, <3>6
    <3>8. h <= Len(new)
      BY <1>1, <1>2, <1>3, <3>3
    <3>9. Holds(new, h, Value(c[p].operands[1], s[p - 1]))
      BY <1>2, <3>5, <3>6, <3>7, <3>8 DEF Holds
    <3>10. OnStack(s, c, p, h, m + 1)
      BY <3>2, <3>4, <3>9 DEF OnStack, new
    <3>. QED  BY <3>1, <3>2, <3>10
  <2>. QED  BY <2>1, <2>2
<1>5. Len(new) = n + 1
  BY <1>2, <1>3
<1>. QED  BY <1>1, <1>4, <1>5 DEF StackMatches, more, new

LEMMA PopMatch ==
  ASSUME NEW m \in Nat, NEW st, ArePlaces(st, m), NEW s, NEW c,
         IsStack(s[m].stack),
         s[m + 1].stack = IF s[m].stack = <<>> THEN s[m].stack ELSE Tail(s[m].stack),
         StackMatches(s, c, st, m)
  PROVE  StackMatches(s, c, IF st = <<>> THEN st ELSE Tail(st), m + 1)
<1>. DEFINE old == s[m].stack
            new == s[m + 1].stack
            n == Len(st)
            t == Tail(st)
<1>1. n \in Nat /\ (st = <<>> <=> n = 0)
  BY DEF ArePlaces
<1>2. Len(old) = n /\ \A j \in 1 .. n : OnStack(s, c, st[j], n - j + 1, m)
  BY DEF StackMatches
<1>3. old = <<>> <=> n = 0
  BY <1>2, StackEmpty
<1>4. CASE n = 0
  <2>1. s[m + 1].stack = s[m].stack
    BY <1>3, <1>4
  <2>. QED  BY <1>1, <1>4, <2>1, SameMatch
<1>5. CASE n # 0
  <2>1. /\ Len(t) = n - 1 /\ \A j \in 1 .. n - 1 : t[j] = st[j + 1] /\ st[j + 1] \in 1 .. m
    BY <1>1, <1>5 DEF ArePlaces
  <2>2. new = Tail(old) /\ old # <<>>
    BY <1>3, <1>5
  <2>3. /\ Len(new) = n - 1 /\ \A j \in 1 .. n - 1 : new[j] = old[j + 1]
    BY <1>2, <2>2, StackTail
  <2>. HIDE DEF t, n, old, new
  <2>4. ASSUME NEW j \in 1 .. n - 1 PROVE OnStack(s, c, t[j], (n - 1) - j + 1, m + 1)
    <3>. DEFINE h == (n - 1) - j + 1
                p == t[j]
    <3>1. j + 1 \in 1 .. n /\ n - (j + 1) + 1 = h /\ h \in 1 .. n - 1
      BY <1>1
    <3>2. p = st[j + 1] /\ p \in 1 .. m
      BY <2>1
    <3>3. OnStack(s, c, p, h, m)
      BY <1>2, <3>1, <3>2
    <3>. HIDE DEF h, p
    <3>4. m \in p .. m /\ \A i \in p .. m + 1 : i \in p .. m \/ i = m + 1
      BY <3>2
    <3>5. Holds(old, h, Value(c[p].operands[1], s[p - 1]))
      BY <3>3, <3>4 DEF OnStack, old
    <3>6. (n - 1) - h + 1 \in 1 .. n - 1 /\ ((n - 1) - h + 1) + 1 = n - h + 1 /\ h <= n - 1
      BY <1>1, <3>1
    <3>7. new[(n - 1) - h + 1] = old[((n - 1) - h + 1) + 1]
      BY <2>3, <3>6
    <3>8. old[n - h + 1] = Value(c[p].operands[1], s[p - 1])
      BY <1>2, <3>5 DEF Holds
    <3>9. Holds(new, h, Value(c[p].operands[1], s[p - 1]))
      BY <2>3, <3>6, <3>7, <3>8 DEF Holds
    <3>10. OnStack(s, c, p, h, m + 1)
      BY <3>3, <3>4, <3>9 DEF OnStack, new
    <3>. QED  BY <3>10 DEF p, h
  <2>5. StackMatches(s, c, t, m + 1)
    BY <2>1, <2>3, <2>4 DEF StackMatches, new
  <2>. QED  BY <1>1, <1>5, <2>5 DEF t
<1>. QED  BY <1>4, <1>5

-----------------------------------------------------------------------------
(***************************************************************************)
(* What the invariant that the list keeps its meaning rests on.            *)
(***************************************************************************)
ShapeInv == \A k \in Item : HasShape(code[k])

(* The calls behind the item have got their parameters. *)
Full(c) == c.params = 0 \/ c.collected

FullInv ==
  phase # "chains" => \A k \in Item :
    ~code[k].deleted /\ (k < item \/ (k = item /\ phase = "instruction")) => Full(code[k])

(* The chains and mLast, of the instructions still to come, are complete. *)
Known(k) ==
  /\ \A u \in code[k].chain : u[1] \in code[k].definitions /\ u[2] \in Reached(k, u[1])
  /\ ~careless => \A r \in code[k].definitions : \A j \in Reached(k, r) :
                    r \in Used(code[j]) => <<r, j>> \in code[k].chain
  /\ \A r \in code[k].definitions :
       (\A j \in k + 1 .. EndOfNode(k) : r \notin code[j].definitions) => r \in code[k].last

KnownInv == \A k \in Item : (IF phase = "chains" THEN k < item ELSE k >= item) => Known(k)

(* Of a node the analysis has not come to, mUses and what is live are as   *)
(* they were.                                                              *)
NodeInv ==
  /\ liveOut[2] \subseteq Reg
  /\ phase = "chains" => \A k \in Item : code[k].uses = Used(code[k])
  /\ phase = "chains" \/ item <= cut =>
       /\ liveOut[1] = LiveIn(code, cut, liveOut[2])
       /\ \A k \in Item : k > cut => code[k].uses = Used(code[k])

StackRun == phase # "chains" /\ ~careless => StackMatches(Run(code), code, stack, item - 1)

ProgramInv ==
  ShapeInv /\ FullInv /\ KnownInv /\ NodeInv /\ StackRun /\ CarefulMeansSameProgram

-----------------------------------------------------------------------------
LEMMA RegisterLeaf ==
  ASSUME NEW r \in Reg, NEW e, e = Leaf(Register(r))
  PROVE  IsExpression(e) /\ RegistersOf(e) = {r} /\ EffectsIn(e) = {}
<1>1. DOMAIN e = {<<>>} /\ e[<<>>] = Register(r)
  BY LeafTree
<1>2. Register(r)[1] = "reg"
  BY DEF Register
<1>3. IsExpression(e)
  BY <1>2, LeafExpression
<1>4. \A x : Register(x) = Register(r) => x = r
  BY DEF Register
<1>5. RegistersOf(e) = {r}
  BY <1>1, <1>4 DEF RegistersOf, ReadsAt
<1>6. EffectsIn(e) = {}
  BY <1>1, <1>2 DEF EffectsIn, Labelled
<1>. QED  BY <1>3, <1>5, <1>6

LEMMA OperationExpression ==
  ASSUME NEW k, NEW s \in Sources
  PROVE  IsExpression(Operation(k, s))
<1>. DEFINE label == <<"op", k>>
            args == [j \in DOMAIN s |-> Leaf(s[j])]
<1>1. label[1] \notin {"reg", "mem", "store", "jump"}
  OBVIOUS
<1>2. s \in Seq({Memory} \cup {Register(r) : r \in Reg})
  BY SourcesAssumption
<1>3. DOMAIN s = 1 .. Len(s) /\ Len(s) \in Nat /\ \A j \in DOMAIN s : s[j] \in {Memory} \cup {Register(r) : r \in Reg}
  BY <1>2
<1>4. DOMAIN args = DOMAIN s /\ DOMAIN s \subseteq Nat
  BY <1>3
<1>5. IsFiniteSet(DOMAIN args)
  BY <1>3, <1>4, FS_Interval
<1>6. ASSUME NEW j \in DOMAIN args PROVE IsExpression(args[j])
  <2>1. args[j] = Leaf(s[j]) /\ s[j] \in {Memory} \cup {Register(r) : r \in Reg}
    BY <1>3
  <2>2. CASE s[j] = Memory
    <3>1. Memory[1] \notin {"store", "jump", "reg"}
      BY DEF Memory
    <3>. QED  BY <2>1, <2>2, <3>1, LeafExpression
  <2>3. CASE s[j] \in {Register(r) : r \in Reg}
    BY <2>1, <2>3, RegisterLeaf
  <2>. QED  BY <2>1, <2>2, <2>3
<1>. HIDE DEF label, args
<1>7. IsExpression(Apply(label, args))
  BY <1>1, <1>4, <1>5, <1>6, ApplyTerm DEF IsExpression
<1>. QED  BY <1>7 DEF Operation, label, args

LEMMA InstructionShape ==
  ASSUME NEW type \in Types, NEW operands, NEW params \in Int, params >= UnknownCount,
         DOMAIN operands = 1 .. (IF type \in {"assign", "store"} THEN 2 ELSE 1),
         \A o \in DOMAIN operands : IsExpression(operands[o]),
         type \in {"assign", "pop"} => \E r \in Reg : operands[1] = Leaf(Register(r)),
         params # 0 => /\ type = "assign"
                       /\ operands[2] = Leaf(operands[2][<<>>]) /\ operands[2][<<>>][1] = "call",
         NEW c, c = Instruction(type, operands, params)
  PROVE  HasShape(c) /\ c.uses = Used(c)
<1>. DEFINE x == [type |-> type, operands |-> operands]
<1>1. /\ c.type = type /\ c.operands = operands /\ c.uses = Used(x) /\ c.params = params
      /\ c.definitions = Defined(x)
  BY Zenon DEF Instruction
<1>2. x.type = type /\ x.operands = operands
  OBVIOUS
<1>. HIDE DEF x
<1>3. Used(c) = Used(x)
  BY <1>1, <1>2 DEF Used, UsedOperands
<1>4. /\ c.definitions = {} \/ \E r \in Reg : c.definitions = {r}
      /\ c.definitions # {} => type \in {"assign", "pop"}
  <2>1. CASE type \in {"assign", "pop"}
    <3>1. Defined(x) = RegistersOf(operands[1])
      BY <1>2, <2>1 DEF Defined
    <3>2. PICK r \in Reg : operands[1] = Leaf(Register(r))
      BY <2>1
    <3>3. RegistersOf(operands[1]) = {r}
      BY <3>2, RegisterLeaf
    <3>. QED  BY <1>1, <2>1, <3>1, <3>3
  <2>2. CASE type \notin {"assign", "pop"}
    BY <1>1, <1>2, <2>2 DEF Defined
  <2>. QED  BY <2>1, <2>2
<1>5. type = "pop" => EffectsIn(operands[1]) = {}
  BY RegisterLeaf
<1>6. Arity(c) = IF type \in {"assign", "store"} THEN 2 ELSE 1
  BY <1>1 DEF Arity
<1>. QED  BY <1>1, <1>3, <1>4, <1>5, <1>6 DEF HasShape

LEMMA MadeShape ==
  ASSUME NEW kinds \in SUBSET Kinds, NEW k, NEW c \in Instructions(kinds, k)
  PROVE  HasShape(c) /\ c.uses = Used(c)
<1>. DEFINE Ok(d) == HasShape(d) /\ d.uses = Used(d)
            registers == {Leaf(Register(r)) : r \in Reg}
            known == {UnknownCount} \cup 0 .. MaxParams
<1>0. 0 \in known /\ \A m \in known : m \in Int /\ m >= UnknownCount
  BY MaxParamsAssumption DEF UnknownCount
<1>1. \A e \in registers : IsExpression(e)
  BY RegisterLeaf
<1>2. ASSUME NEW type \in {"push", "pop", "jump"}, NEW e, IsExpression(e),
             type = "pop" => e \in registers
      PROVE  Ok(Unary(type, e))
  <2>. DEFINE ops == <<e>>
  <2>1. DOMAIN ops = 1 .. 1 /\ ops[1] = e /\ \A o \in DOMAIN ops : ops[o] = e
    OBVIOUS
  <2>2. type \in Types /\ type \notin {"assign", "store"}
    BY DEF Types
  <2>. HIDE DEF ops
  <2>3. Ok(Instruction(type, ops, 0))
    BY <1>0, <1>2, <2>1, <2>2, InstructionShape
  <2>. QED  BY <2>3 DEF ops, Unary
<1>3. ASSUME NEW type \in {"assign", "store"}, NEW d, IsExpression(d), NEW e, IsExpression(e),
             NEW m \in known, type = "assign" => d \in registers,
             m # 0 => type = "assign" /\ e = Leaf(e[<<>>]) /\ e[<<>>][1] = "call"
      PROVE  Ok(Instruction(type, <<d, e>>, m))
  <2>. DEFINE ops == <<d, e>>
  <2>1. DOMAIN ops = 1 .. 2 /\ ops[1] = d /\ ops[2] = e /\ \A o \in DOMAIN ops : ops[o] = d \/ ops[o] = e
    OBVIOUS
  <2>2. type \in Types /\ type # "pop"
    BY DEF Types
  <2>. HIDE DEF ops
  <2>3. \A o \in DOMAIN ops : IsExpression(ops[o])
    BY <1>3, <2>1
  <2>4. Ok(Instruction(type, ops, m))
    BY <1>0, <1>3, <2>1, <2>2, <2>3, InstructionShape
  <2>. QED  BY <2>4 DEF ops
<1>. HIDE DEF Ok, known
<1>4. \A d \in registers : \A e : IsExpression(e) => Ok(Assignment(d, e, 0))
  BY <1>0, <1>1, <1>3 DEF Assignment
<1>5. ASSUME NEW d \in registers, NEW m \in known PROVE Ok(Assignment(d, Leaf(<<"call", k>>), m))
  <2>. DEFINE l == <<"call", k>>
              e == Leaf(l)
  <2>1. l[1] = "call"
    OBVIOUS
  <2>2. e = Leaf(l) /\ e[<<>>] = l
    BY LeafTree
  <2>. HIDE DEF l, e
  <2>3. IsExpression(e)
    BY <2>1, <2>2, LeafExpression
  <2>4. Ok(Instruction("assign", <<d, e>>, m))
    BY <1>1, <1>3, <2>1, <2>2, <2>3
  <2>. QED  BY <2>4 DEF Assignment, e, l
<1>6. ASSUME NEW a \in registers, NEW e \in registers PROVE Ok(Store(a, e))
  <2>. DEFINE star == <<"*", 0>>
              args == <<a>>
  <2>1. DOMAIN args = {1} /\ (\A j \in DOMAIN args : args[j] = a) /\ star[1] \notin {"reg", "mem", "store", "jump"}
    OBVIOUS
  <2>2. IsFiniteSet(DOMAIN args) /\ DOMAIN args \subseteq Nat
    BY <2>1, FS_Singleton
  <2>. HIDE DEF star, args
  <2>3. \A j \in DOMAIN args : IsExpression(args[j]) /\ IsTerm(args[j])
    BY <1>1, <2>1 DEF IsExpression
  <2>4. IsExpression(Apply(star, args))
    BY <2>1, <2>2, <2>3, ApplyTerm
  <2>5. Ok(Instruction("store", <<Apply(star, args), e>>, 0))
    BY <1>0, <1>1, <1>3, <2>4
  <2>. QED  BY <2>5 DEF Store, star, args
<1>7. \A s \in Sources : IsExpression(Operation(k, s))
  BY OperationExpression
<1>8. \A e : IsExpression(e) => Ok(Unary("push", e)) /\ Ok(Unary("jump", e))
  BY <1>2
<1>9. \A e \in registers : Ok(Unary("pop", e))
  BY <1>1, <1>2
<1>. HIDE DEF registers
<1>10. ASSUME NEW kind \in Kinds, c \in Of(kind, k)
       PROVE  Ok(c)
  <2>1. CASE kind = "assign"
    BY <1>4, <1>7, <1>10, <2>1 DEF Of, registers
  <2>2. CASE kind = "copy"
    BY <1>1, <1>4, <1>10, <2>2 DEF Of, registers
  <2>3. CASE kind = "call"
    BY <1>5, <1>10, <2>3 DEF Of, registers, known
  <2>4. CASE kind = "store"
    BY <1>6, <1>10, <2>4 DEF Of, registers
  <2>5. CASE kind = "push"
    BY <1>1, <1>8, <1>10, <2>5 DEF Of, registers
  <2>6. CASE kind = "pop"
    BY <1>9, <1>10, <2>6 DEF Of, registers
  <2>7. CASE kind = "jump"
    BY <1>7, <1>8, <1>10, <2>7 DEF Of
  <2>. QED  BY <1>10, <2>1, <2>2, <2>3, <2>4, <2>5, <2>6, <2>7 DEF Kinds
<1>. QED  BY <1>10 DEF Instructions, Ok

LEMMA InitProgram ==
  ASSUME Init
  PROVE  ProgramInv
<1>1. PICK plan \in Plans : code \in InstructionLists(plan)
  BY DEF Init
<1>2. Len(plan) \in Nat /\ \A k \in 1 .. Len(plan) : plan[k] \in SUBSET Kinds
  BY PlansAssumption DEF Kinds
<1>3. /\ IsList(code, Len(plan))
      /\ \A k \in 1 .. Len(plan) : code[k] \in Instructions(plan[k], k) /\ IsNew(code[k])
  BY <1>1, ListsMade
<1>4. Item = 1 .. Len(plan)
  BY <1>2, <1>3, ListLength DEF Item
<1>5. \A k \in Item : HasShape(code[k]) /\ code[k].uses = Used(code[k])
  BY <1>2, <1>3, <1>4, MadeShape
<1>6. phase = "chains" /\ item = 1 /\ careless = FALSE
  BY DEF Init
<1>7. PICK out \in LiveOuts : liveOut = <<LiveIn(code, cut, out), out>> /\ meaning = Meaning(code, out)
  BY Zenon DEF Init
<1>8. liveOut[1] = LiveIn(code, cut, out) /\ liveOut[2] = out /\ out \subseteq Reg
  BY <1>7, LiveOutsAssumption
<1>9. CarefulMeansSameProgram
  BY <1>7, <1>8, Zenon DEF CarefulMeansSameProgram
<1>10. NodeInv
  BY <1>5, <1>8 DEF NodeInv
<1>11. KnownInv
  BY <1>4, <1>6 DEF KnownInv
<1>12. ShapeInv /\ FullInv /\ StackRun
  BY <1>5, <1>6 DEF ShapeInv, FullInv, StackRun
<1>. QED  BY <1>9, <1>10, <1>11, <1>12 DEF ProgramInv

-----------------------------------------------------------------------------
LEMMA Ready ==
  ASSUME IInv, ShapeInv
  PROVE  /\ Item = 1 .. Len(code) /\ Len(code) \in Nat /\ AreShaped(code) /\ IsList(code, Len(code))
         /\ item \in 1 .. Len(code) + 1 /\ item \in Nat
         /\ item - 1 \in 0 .. Len(code) /\ item - 1 \in Nat /\ (item - 1) + 1 = item
         /\ \A k \in Item : k >= item => ~code[k].deleted
         /\ ArePlaces(stack, item - 1)
         /\ cut \in Item
         /\ \A k \in 0 .. Len(code) : IsState(Run(code)[k])
<1>1. Item = 1 .. Len(code) /\ Len(code) \in Nat /\ IsList(code, Len(code))
  BY ItemIs DEF IInv, ListInv
<1>2. AreShaped(code)
  BY <1>1 DEF AreShaped, ShapeInv
<1>3. item \in 1 .. Len(code) + 1 /\ cut \in Item
  BY DEF IInv, TypeOK
<1>4. item \in Nat /\ item - 1 \in 0 .. Len(code) /\ item - 1 \in Nat /\ (item - 1) + 1 = item
  BY <1>1, <1>3
<1>5. ASSUME NEW k \in Item, k >= item PROVE ~code[k].deleted
  <2>1. ~(k < item)
    BY <1>1, <1>4, <1>5
  <2>. QED  BY <2>1 DEF IInv, TypeOK
<1>6. ArePlaces(stack, item - 1)
  <2>1. stack \in Seq(Item)
    BY DEF IInv, TypeOK
  <2>2. \A j \in 1 .. Len(stack) : stack[j] \in 1 .. item - 1
    <3>1. \A j \in 1 .. Len(stack) : stack[j] \in Item /\ stack[j] < item
      BY <2>1 DEF IInv, BehindInv
    <3>. QED  BY <1>1, <1>4, <3>1
  <2>3. stack \in [1 .. Len(stack) -> Item] /\ Len(stack) \in Nat
    BY <2>1
  <2>4. stack \in [1 .. Len(stack) -> 1 .. item - 1]
    BY <2>2, <2>3
  <2>. DEFINE S == 1 .. item - 1
              n == Len(stack)
  <2>5. n \in Nat /\ stack \in [1 .. n -> S]
    BY <2>3, <2>4
  <2>. HIDE DEF S, n
  <2>6. stack \in Seq(S)
    BY <2>5
  <2>. QED  BY <2>6 DEF ArePlaces, S
<1>7. \A k \in 0 .. Len(code) : IsState(Run(code)[k])
  BY <1>2, RunStates
<1>. QED  BY <1>1, <1>2, <1>3, <1>4, <1>5, <1>6, <1>7

(***************************************************************************)
(* Steps that do nothing to the list.                                      *)
(***************************************************************************)
LEMMA QuietProgram ==
  ASSUME IInv, ProgramInv, UNCHANGED <<code, cut, liveOut, careless, meaning>>,
         phase # "chains", phase' # "chains", item' \in Nat, item <= item',
         FullInv', StackRun'
  PROVE  ProgramInv'
<1>0. /\ Item' = Item /\ Item = 1 .. Len(code) /\ Len(code) \in Nat /\ item \in Nat /\ cut \in Nat
      /\ UNCHANGED <<code, cut, liveOut, careless, meaning>>
  BY Ready DEF ProgramInv, Item
<1>1. \A k \in Item : k >= item' => k >= item
  BY <1>0
<1>2. \A k \in Item : Known(k) => Known(k)'
  BY <1>0 DEF Known, Reached, EndOfNode
<1>3. KnownInv'
  BY <1>0, <1>1, <1>2 DEF ProgramInv, KnownInv
<1>4. item' <= cut => item <= cut
  BY <1>0
<1>5. NodeInv'
  BY <1>0, <1>4 DEF ProgramInv, NodeInv
<1>6. ShapeInv'
  BY <1>0 DEF ProgramInv, ShapeInv
<1>7. CarefulMeansSameProgram'
  BY <1>0 DEF ProgramInv, CarefulMeansSameProgram
<1>. QED  BY <1>3, <1>5, <1>6, <1>7 DEF ProgramInv

(* The phase goes on, or the analysis returns. *)
LEMMA GoOnProgram ==
  ASSUME IInv, ProgramInv, KeepDefinition \/ NoParameters \/ Return
  PROVE  ProgramInv'
<1>1. /\ UNCHANGED <<code, cut, liveOut, item, stack, careless, meaning>>
      /\ phase # "chains" /\ phase' # "chains"
      /\ phase' = "instruction" => phase = "parameters" /\ item \in Item /\ (~IsCall(item) \/ code[item].collected)
  BY Zenon DEF KeepDefinition, NoParameters, Return, AtItem
<1>2. Item' = Item /\ item \in Nat /\ item <= item' /\ item' \in Nat
  BY <1>1, Ready DEF ProgramInv, Item
<1>3. ASSUME phase' = "instruction" PROVE Full(code[item])
  <2>1. HasShape(code[item]) /\ (~IsCall(item) \/ code[item].collected)
    BY <1>1, <1>3 DEF ProgramInv, ShapeInv
  <2>. QED  BY <2>1 DEF HasShape, IsCall, Full
<1>4. FullInv'
  BY <1>1, <1>2, <1>3 DEF ProgramInv, FullInv, Full
<1>5. StackRun'
  BY <1>1 DEF ProgramInv, StackRun
<1>. QED  BY <1>1, <1>2, <1>4, <1>5, QuietProgram

(* What the instruction at the item does to the stack. *)
LEMMA StepStack ==
  ASSUME IInv, ShapeInv, NEW s, s = Run(code), item \in Item, Full(code[item])
  PROVE  LET c == code[item]
             v == Value(c.operands[1], s[item - 1]) IN
         /\ IsStack(s[item - 1].stack)
         /\ s[item] = Executed(s[item - 1], c)
         /\ Computed(s[item - 1], c) = Value(Whole(c), s[item - 1])
         /\ c.type = "push" => DOMAIN v \subseteq Path /\ s[item].stack = <<v>> \o s[item - 1].stack
         /\ c.type = "pop" =>
              s[item].stack = IF s[item - 1].stack = <<>> THEN s[item - 1].stack ELSE Tail(s[item - 1].stack)
         /\ c.type \notin {"push", "pop"} => s[item].stack = s[item - 1].stack
<1>. DEFINE c == code[item]
            t == s[item - 1]
            v == Value(c.operands[1], t)
<1>1. /\ Item = 1 .. Len(code) /\ Len(code) \in Nat /\ item \in Nat /\ item - 1 \in 0 .. Len(code)
      /\ ~c.deleted /\ IsState(t)
  BY Ready
<1>2. HasShape(c)
  BY DEF ShapeInv
<1>3. s[item] = Executed(t, c)
  <2>1. s[item] = After(t, c)
    BY <1>1, RunIs
  <2>. QED  BY <1>1, <2>1 DEF After
<1>. HIDE DEF c, t
<1>4. IsStack(t.stack)
  BY <1>1 DEF IsState
<1>5. TakenFrom(t, c) = 0
  BY <1>2, <1>4, Taken DEF Full, c
<1>6. Computed(t, c) = Value(Whole(c), t)
  BY <1>5 DEF Computed
<1>7. s[item].stack = StackAfter(t, c)
  BY <1>3, ExecutedIs
<1>8. SubSeq(t.stack, 0 + 1, Len(t.stack)) = t.stack
  <2>1. 0 \in 0 .. Len(t.stack)
    BY <1>4 DEF IsStack
  <2>. QED  BY <1>4, <2>1, StackRest
<1>9. c.type = "push" => DOMAIN v \subseteq Path /\ s[item].stack = <<v>> \o t.stack
  <2>. SUFFICES ASSUME c.type = "push" PROVE DOMAIN v \subseteq Path /\ s[item].stack = <<v>> \o t.stack
    OBVIOUS
  <2>1. Whole(c) = c.operands[1]
    BY <1>2, WholeOf
  <2>2. DOMAIN Computed(t, c) \subseteq Path
    BY <1>1, <1>2, ComputedPath
  <2>. QED  BY <1>6, <1>7, <2>1, <2>2 DEF StackAfter
<1>10. c.type = "pop" => s[item].stack = IF t.stack = <<>> THEN t.stack ELSE Tail(t.stack)
  BY <1>5, <1>7, <1>8 DEF StackAfter
<1>11. c.type \notin {"push", "pop"} => s[item].stack = t.stack
  BY <1>5, <1>7, <1>8 DEF StackAfter
<1>. QED  BY <1>3, <1>4, <1>6, <1>9, <1>10, <1>11 DEF c, t

(* An instruction that stays as it is. *)
LEMMA StayProgram ==
  ASSUME IInv, ProgramInv, LeaveAssignment \/ OnPush \/ OnPop \/ OnOther
  PROVE  ProgramInv'
<1>. DEFINE s == Run(code)
            m == item - 1
<1>1. /\ UNCHANGED <<code, cut, liveOut, careless, meaning>>
      /\ phase = "instruction" /\ phase' = "definitions" /\ item \in Item /\ item' = item + 1
      /\ ~code[item].deleted
      /\ stack' = IF code[item].type = "push" THEN <<item>> \o stack
                  ELSE IF code[item].type = "pop" THEN (IF stack = <<>> THEN stack ELSE Tail(stack))
                  ELSE stack
  BY Zenon DEF LeaveAssignment, OnPush, OnPop, OnOther, AtItem
<1>2. /\ Item' = Item /\ Item = 1 .. Len(code) /\ item \in Nat /\ item <= item' /\ item' \in Nat
      /\ m \in Nat /\ ArePlaces(stack, m) /\ m + 1 = item
  BY <1>1, Ready DEF ProgramInv, Item
<1>3. \A k \in Item : k < item' <=> k < item \/ k = item
  BY <1>1, <1>2
<1>4. FullInv'
  BY <1>1, <1>2, <1>3 DEF ProgramInv, FullInv, Full
<1>5. StackRun'
  <2>. SUFFICES ASSUME ~careless PROVE StackMatches(s, code, stack', item)
    <3>1. item' - 1 = item
      BY <1>1, <1>2
    <3>. QED  BY <1>1, <3>1 DEF StackRun
  <2>1. StackMatches(s, code, stack, m)
    BY <1>1 DEF ProgramInv, StackRun
  <2>2. Full(code[item])
    BY <1>1 DEF ProgramInv, FullInv
  <2>3. LET c == code[item]
            v == Value(c.operands[1], s[item - 1]) IN
        /\ IsStack(s[item - 1].stack)
        /\ c.type = "push" => DOMAIN v \subseteq Path /\ s[item].stack = <<v>> \o s[item - 1].stack
        /\ c.type = "pop" =>
             s[item].stack = IF s[item - 1].stack = <<>> THEN s[item - 1].stack ELSE Tail(s[item - 1].stack)
        /\ c.type \notin {"push", "pop"} => s[item].stack = s[item - 1].stack
    BY <1>1, <2>2, StepStack DEF ProgramInv
  <2>. HIDE DEF s
  <2>4. CASE code[item].type = "push"
    <3>. DEFINE v == Value(code[m + 1].operands[1], s[m])
    <3>1. IsStack(s[m].stack) /\ DOMAIN v \subseteq Path /\ s[m + 1].stack = <<v>> \o s[m].stack
      BY <1>2, <2>3, <2>4
    <3>. HIDE DEF v, m
    <3>2. StackMatches(s, code, <<m + 1>> \o stack, m + 1)
      BY <1>2, <2>1, <3>1, PushMatch DEF v
    <3>3. stack' = <<m + 1>> \o stack
      BY <1>1, <1>2, <2>4
    <3>. QED  BY <1>2, <3>2, <3>3
  <2>5. CASE code[item].type = "pop"
    <3>1. IsStack(s[m].stack) /\ s[m + 1].stack = IF s[m].stack = <<>> THEN s[m].stack ELSE Tail(s[m].stack)
      BY <1>2, <2>3, <2>5
    <3>. HIDE DEF m
    <3>2. StackMatches(s, code, IF stack = <<>> THEN stack ELSE Tail(stack), m + 1)
      BY <1>2, <2>1, <3>1, PopMatch
    <3>3. stack' = IF stack = <<>> THEN stack ELSE Tail(stack)
      BY <1>1, <2>5
    <3>. QED  BY <1>2, <3>2, <3>3
  <2>6. CASE code[item].type \notin {"push", "pop"}
    <3>1. s[m + 1].stack = s[m].stack
      BY <1>2, <2>3, <2>6
    <3>. HIDE DEF m
    <3>2. StackMatches(s, code, stack, m + 1)
      BY <1>2, <2>1, <3>1, SameMatch
    <3>3. stack' = stack
      BY <1>1, <2>6
    <3>. QED  BY <1>2, <3>2, <3>3
  <2>. QED  BY <2>4, <2>5, <2>6
<1>6. phase # "chains" /\ phase' # "chains"
  BY <1>1
<1>. QED  BY <1>1, <1>2, <1>4, <1>5, <1>6, QuietProgram

-----------------------------------------------------------------------------
LEMMA AlikeMeaning ==
  ASSUME NEW c, NEW d, Len(c) \in Nat, Len(d) = Len(c), AreAlike(c, d, 0, Len(c)), NEW out
  PROVE  Meaning(d, out) = Meaning(c, out)
<1>1. 0 \in 0 .. Len(c) /\ Len(c) \in 0 .. Len(c) /\ Run(d)[0] = Run(c)[0]
  BY RunIs
<1>2. Run(d)[Len(c)] = Run(c)[Len(c)]
  BY <1>1, RunAlike
<1>. QED  BY <1>2 DEF Meaning

LEMMA SameLiveIn ==
  ASSUME NEW c, NEW d, Len(c) \in Nat, Len(d) = Len(c), NEW at \in Nat, NEW out,
         \A k \in at + 1 .. Len(c) : d[k].uses = c[k].uses /\ d[k].definitions = c[k].definitions
  PROVE  LiveIn(d, at, out) = LiveIn(c, at, out)
<1>1. ASSUME NEW r \in Reg PROVE r \in LiveIn(d, at, out) <=> r \in LiveIn(c, at, out)
  <2>1. \A k \in at + 1 .. Len(c) : \A m \in at + 1 .. k - 1 : m \in at + 1 .. Len(c)
    OBVIOUS
  <2>2. \A k \in at + 1 .. Len(c) :
          (\A m \in at + 1 .. k - 1 : r \notin d[m].definitions)
             <=> (\A m \in at + 1 .. k - 1 : r \notin c[m].definitions)
    BY <2>1
  <2>. QED  BY <2>2 DEF LiveIn
<1>2. LiveIn(d, at, out) \subseteq Reg /\ LiveIn(c, at, out) \subseteq Reg
  BY DEF LiveIn
<1>. QED  BY <1>1, <1>2

LEMMA ReachedIs ==
  ASSUME IInv, ShapeInv, NEW k \in Item, NEW r, NEW j
  PROVE  /\ j \in Reached(k, r) <=> j \in k + 1 .. EndOfNode(k) /\ \A m \in k + 1 .. j - 1 : r \notin code[m].definitions
         /\ j \in Reached(k, r) => j \in Item /\ j > k
         /\ EndOfNode(k) \in Item /\ k <= EndOfNode(k)
<1>1. Item = 1 .. Len(code) /\ Len(code) \in Nat /\ cut \in Item
  BY Ready
<1>2. EndOfNode(k) \in Item /\ k <= EndOfNode(k)
  BY <1>1 DEF EndOfNode
<1>3. j \in k + 1 .. EndOfNode(k) => j \in Item /\ j > k
  BY <1>1, <1>2
<1>. QED  BY <1>2, <1>3 DEF Reached

(* A step that leaves what instructions define as it is. *)
LEMMA ReachedKept ==
  ASSUME IInv, ShapeInv, Len(code') = Len(code), cut' = cut, NEW k \in Item,
         \A j \in Item : j > k => code'[j].definitions = code[j].definitions
  PROVE  EndOfNode(k)' = EndOfNode(k) /\ \A r : Reached(k, r)' = Reached(k, r)
<1>1. Item = 1 .. Len(code) /\ Len(code) \in Nat
  BY Ready
<1>2. EndOfNode(k)' = EndOfNode(k)
  BY DEF EndOfNode
<1>3. \A m \in k + 1 .. EndOfNode(k) : m \in Item /\ m > k
  BY <1>1, ReachedIs
<1>4. \A j \in k + 1 .. EndOfNode(k) : \A m \in k + 1 .. j - 1 : m \in k + 1 .. EndOfNode(k)
  BY <1>1, ReachedIs
<1>5. ASSUME NEW r PROVE Reached(k, r)' = Reached(k, r)
  <2>1. \A j \in k + 1 .. EndOfNode(k) : \A m \in k + 1 .. j - 1 : code'[m].definitions = code[m].definitions
    BY <1>3, <1>4
  <2>. QED  BY <1>2, <2>1 DEF Reached
<1>. QED  BY <1>2, <1>5

LEMMA KnownKept ==
  ASSUME IInv, ShapeInv, Len(code') = Len(code), cut' = cut, NEW k \in Item,
         \A j \in Item : j >= k => code'[j].definitions = code[j].definitions,
         code'[k].chain = code[k].chain, code[k].last \subseteq code'[k].last,
         ~careless' => ~careless /\ \A r \in code[k].definitions : \A j \in Reached(k, r) :
                                      r \in Used(code'[j]) => r \in Used(code[j]),
         Known(k)
  PROVE  Known(k)'
<1>1. Item = 1 .. Len(code) /\ Len(code) \in Nat
  BY Ready
<1>2. EndOfNode(k)' = EndOfNode(k) /\ \A r : Reached(k, r)' = Reached(k, r)
  BY <1>1, ReachedKept
<1>3. \A m \in k + 1 .. EndOfNode(k) : m \in Item /\ m >= k
  BY <1>1, ReachedIs
<1>4. code'[k].definitions = code[k].definitions
  BY <1>1
<1>5. \A u \in code'[k].chain : u[1] \in code'[k].definitions /\ u[2] \in Reached(k, u[1])'
  BY <1>2, <1>4 DEF Known
<1>6. ~careless' => \A r \in code'[k].definitions : \A j \in Reached(k, r)' :
                      r \in Used(code'[j]) => <<r, j>> \in code'[k].chain
  BY <1>2, <1>4 DEF Known
<1>7. \A r \in code'[k].definitions :
        (\A j \in k + 1 .. EndOfNode(k)' : r \notin code'[j].definitions) => r \in code'[k].last
  BY <1>2, <1>3, <1>4 DEF Known
<1>. QED  BY <1>5, <1>6, <1>7 DEF Known

LEMMA AnalyzeProgram ==
  ASSUME IInv, ProgramInv, AnalyzeNodeList
  PROVE  ProgramInv'
<1>1. /\ phase = "chains" /\ item \notin Item /\ item' = 1 /\ phase' = "definitions"
      /\ UNCHANGED <<code, cut, liveOut, stack, careless, meaning>>
  BY Zenon DEF AnalyzeNodeList
<1>2. /\ Item' = Item /\ Item = 1 .. Len(code) /\ Len(code) \in Nat /\ item \in 1 .. Len(code) + 1
  BY <1>1, Ready DEF ProgramInv, Item
<1>3. \A k \in Item : k < item /\ ~(k < item')
  BY <1>1, <1>2
<1>4. \A k \in Item : Known(k) => Known(k)'
  BY <1>1, <1>2 DEF Known, Reached, EndOfNode
<1>5. KnownInv'
  BY <1>1, <1>2, <1>3, <1>4 DEF ProgramInv, KnownInv
<1>6. NodeInv'
  BY <1>1, <1>2 DEF ProgramInv, NodeInv
<1>7. FullInv'
  BY <1>1, <1>2, <1>3 DEF FullInv
<1>8. stack = <<>>
  BY <1>1 DEF IInv, BehindInv
<1>9. Run(code)[0].stack = <<>>
  <2>1. Start.stack = <<>>
    BY DEF Start
  <2>. QED  BY <1>2, <2>1, RunIs
<1>10. StackMatches(Run(code), code, <<>>, 0)
  BY <1>9 DEF StackMatches
<1>11. StackRun'
  BY <1>1, <1>8, <1>10 DEF StackRun
<1>12. ShapeInv' /\ CarefulMeansSameProgram'
  BY <1>1, <1>2 DEF ProgramInv, ShapeInv, CarefulMeansSameProgram
<1>. QED  BY <1>5, <1>6, <1>7, <1>11, <1>12 DEF ProgramInv

LEMMA FindChainsProgram ==
  ASSUME IInv, ProgramInv, FindChains
  PROVE  ProgramInv'
<1>. DEFINE c == code[item]
            chain == {u \in c.definitions \X Item :
                        u[2] \in Reached(item, u[1]) /\ u[1] \in code[u[2]].uses}
            last == {r \in c.definitions :
                       \A j \in item + 1 .. EndOfNode(item) : r \notin code[j].definitions}
            x == [c EXCEPT !.chain = chain, !.last = last]
<1>1. /\ phase = "chains" /\ item \in Item
      /\ code' = [code EXCEPT ![item].chain = chain, ![item].last = last]
      /\ item' = item + 1
      /\ UNCHANGED <<cut, liveOut, stack, phase, careless, meaning>>
  BY Zenon DEF FindChains
<1>2. /\ Item = 1 .. Len(code) /\ Len(code) \in Nat /\ item \in Nat /\ cut \in Item
      /\ IsInstruction(c) /\ IsList(code, Len(code)) /\ ListInv
  BY <1>1, ItemIs DEF IInv, ListInv, TypeOK
<1>3. code'[item] = x /\ \A k \in Item : k # item => code'[k] = code[k]
  BY <1>1, <1>2 DEF IsList
<1>4. Len(code') = Len(code) /\ Item' = Item
  <2>1. DOMAIN code' = DOMAIN code
    BY <1>1
  <2>2. DOMAIN code' = 1 .. Len(code)
    BY <1>2, <2>1, ListLength
  <2>. QED  BY <1>2, <2>1, <2>2 DEF Item
<1>5. /\ x.type = c.type /\ x.operands = c.operands /\ x.params = c.params /\ x.uses = c.uses
      /\ x.definitions = c.definitions /\ x.deleted = c.deleted /\ x.collected = c.collected
      /\ x.chain = chain /\ x.last = last
  BY <1>2 DEF IsInstruction, Fields
<1>. HIDE DEF x, c, chain, last
<1>6. \A k \in Item : Alike(code[k], code'[k]) /\ code'[k].uses = code[k].uses
  BY <1>3, <1>5 DEF Alike, c
<1>7. \A k \in Item : Used(code'[k]) = Used(code[k]) /\ code'[k].definitions = code[k].definitions
  BY <1>6, AlikeSame DEF Alike
<1>8. ASSUME NEW k \in Item, k < item PROVE Known(k)'
  <2>1. Known(k) /\ k # item
    BY <1>1, <1>2, <1>8 DEF ProgramInv, KnownInv
  <2>2. code'[k].chain = code[k].chain /\ code'[k].last = code[k].last
    BY <1>3, <2>1
  <2>3. \A r : \A j \in Reached(k, r) : j \in Item
    BY ReachedIs DEF ProgramInv
  <2>. QED  BY <1>1, <1>4, <1>7, <2>1, <2>2, <2>3, KnownKept DEF ProgramInv
<1>9. ASSUME NEW k \in Item, k = item PROVE Known(k)'
  <2>1. EndOfNode(k)' = EndOfNode(k) /\ \A r : Reached(k, r)' = Reached(k, r)
    BY <1>1, <1>4, <1>7, ReachedKept DEF ProgramInv
  <2>2. \A m \in k + 1 .. EndOfNode(k) : m \in Item
    BY <1>1, <1>2, ReachedIs, SMTT(30) DEF ProgramInv
  <2>3. code'[k].chain = chain /\ code'[k].last = last /\ code'[k].definitions = c.definitions
    BY <1>3, <1>5, <1>9
  <2>4. \A u \in chain : u[1] \in c.definitions /\ u[2] \in Reached(k, u[1])
    BY <1>9 DEF chain
  <2>5. ASSUME NEW r \in c.definitions, NEW j \in Reached(k, r), r \in Used(code'[j])
        PROVE  <<r, j>> \in chain
    <3>1. j \in Item
      BY ReachedIs DEF ProgramInv
    <3>2. r \in code[j].uses
      BY <1>1, <1>7, <2>5, <3>1 DEF ProgramInv, NodeInv
    <3>. QED  BY <1>9, <3>1, <3>2 DEF chain
  <2>6. \A r \in c.definitions :
          (\A j \in k + 1 .. EndOfNode(k) : r \notin code'[j].definitions) => r \in last
    BY <1>7, <1>9, <2>2 DEF last
  <2>. QED  BY <2>1, <2>3, <2>4, <2>5, <2>6 DEF Known
<1>10. KnownInv'
  <2>1. \A k \in Item : k < item' => k < item \/ k = item
    BY <1>1, <1>2
  <2>. QED  BY <1>1, <1>4, <1>8, <1>9, <2>1 DEF KnownInv
<1>11. NodeInv'
  <2>1. \A k \in cut + 1 .. Len(code) : k \in Item
    BY <1>2
  <2>2. LiveIn(code', cut, liveOut[2]) = LiveIn(code, cut, liveOut[2])
    BY <1>2, <1>4, <1>6, <1>7, <2>1, SameLiveIn
  <2>. QED  BY <1>1, <1>4, <1>6, <1>7, <2>2 DEF ProgramInv, NodeInv
<1>12. ShapeInv'
  <2>1. ASSUME NEW k \in Item PROVE HasShape(code'[k])
    <3>1. HasShape(code[k]) /\ Alike(code[k], code'[k])
      BY <1>6 DEF ProgramInv, ShapeInv
    <3>. QED  BY <3>1 DEF HasShape, Alike, Arity
  <2>. QED  BY <1>4, <2>1 DEF ShapeInv
<1>13. AreAlike(code, code', 0, Len(code))
  BY <1>2, <1>6 DEF AreAlike
<1>14. CarefulMeansSameProgram'
  <2>1. Meaning(code', liveOut[2]) = Meaning(code, liveOut[2])
    BY <1>2, <1>4, <1>13, AlikeMeaning
  <2>. QED  BY <1>1, <2>1 DEF ProgramInv, CarefulMeansSameProgram
<1>15. FullInv' /\ StackRun'
  BY <1>1 DEF FullInv, StackRun
<1>. QED  BY <1>10, <1>11, <1>12, <1>14, <1>15 DEF ProgramInv

-----------------------------------------------------------------------------
(***************************************************************************)
(* A definition that the chains and mLast say is not needed any more is    *)
(* not read behind t, in this node or the next, nor live at the end.       *)
(***************************************************************************)
LEMMA NotNeeded ==
  ASSUME IInv, ProgramInv, phase # "chains", ~careless, item \in Item,
         NEW r \in code[item].definitions, r \in Reg, NEW t \in item .. Len(code),
         \A j \in Item : j > t => <<r, j>> \notin code[item].chain,
         ~NeededLater(item, r)
  PROVE  Dead(code, r, item, t, liveOut[2])
<1>1. /\ Item = 1 .. Len(code) /\ Len(code) \in Nat /\ item \in Nat /\ cut \in Item
      /\ \A k \in Item : k >= item => ~code[k].deleted
  BY Ready DEF ProgramInv
<1>. DEFINE end == EndOfNode(item)
            Again(k) == \E l \in item + 1 .. k : ~code[l].deleted /\ r \in code[l].definitions
<1>2. Known(item)
  BY <1>1 DEF ProgramInv, KnownInv
<1>3. ASSUME NEW k \in Item, ~Again(k) PROVE \A l \in item + 1 .. k : r \notin code[l].definitions
  BY <1>1, <1>3
<1>4. end \in Item /\ item <= end /\ ((end = cut /\ item <= cut) \/ (end = Len(code) /\ item > cut))
  BY <1>1 DEF EndOfNode
<1>5. ASSUME \A l \in item + 1 .. end : r \notin code[l].definitions PROVE r \notin LiveOut(item)
  BY <1>2, <1>5 DEF Known, NeededLater
<1>6. ASSUME item <= cut
      PROVE  /\ LiveOut(item) = LiveIn(code, cut, liveOut[2])
             /\ \A k \in Item : k > cut => code[k].uses = Used(code[k])
  BY <1>6 DEF ProgramInv, NodeInv, LiveOut
<1>7. item > cut => LiveOut(item) = liveOut[2]
  BY <1>1 DEF LiveOut
<1>8. ASSUME NEW j \in t + 1 .. Len(code), r \in Used(code[j]) PROVE Again(j - 1)
  <2>. SUFFICES ASSUME ~Again(j - 1) PROVE FALSE
    OBVIOUS
  <2>0. j \in Item /\ j > t /\ j > item /\ j \in Nat
    BY <1>1
  <2>1. \A l \in item + 1 .. j - 1 : r \notin code[l].definitions
    <3>1. \A l \in item + 1 .. j - 1 : l \in Item /\ l >= item
      BY <1>1, <2>0
    <3>. QED  BY <1>1, <3>1
  <2>2. CASE j <= end
    <3>1. j \in item + 1 .. end
      BY <1>1, <1>4, <2>0, <2>2
    <3>2. j \in Reached(item, r)
      BY <2>1, <3>1 DEF Reached
    <3>3. <<r, j>> \in code[item].chain
      BY <1>2, <1>8, <3>2 DEF Known
    <3>. QED  BY <2>0, <3>3
  <2>3. CASE j > end
    <3>1. item <= cut /\ end = cut /\ j > cut
      BY <1>1, <1>4, <2>0, <2>3
    <3>2. \A l \in item + 1 .. end : l \in item + 1 .. j - 1
      BY <1>1, <2>0, <3>1
    <3>3. r \notin LiveIn(code, cut, liveOut[2])
      BY <1>5, <1>6, <2>1, <3>1, <3>2
    <3>4. j \in cut + 1 .. Len(code) /\ \A l \in cut + 1 .. j - 1 : l \in item + 1 .. j - 1
      BY <1>1, <2>0, <3>1
    <3>5. r \in code[j].uses
      BY <1>6, <1>8, <2>0, <3>1
    <3>. QED  BY <2>1, <3>3, <3>4, <3>5 DEF LiveIn
  <2>. QED  BY <1>1, <1>4, <2>0, <2>2, <2>3
<1>9. ASSUME r \in liveOut[2] PROVE Again(Len(code))
  <2>. SUFFICES ASSUME ~Again(Len(code)) PROVE FALSE
    OBVIOUS
  <2>1. \A l \in item + 1 .. Len(code) : r \notin code[l].definitions
    <3>1. \A l \in item + 1 .. Len(code) : l \in Item /\ l >= item
      BY <1>1
    <3>. QED  BY <1>1, <3>1
  <2>2. \A l \in item + 1 .. end : l \in item + 1 .. Len(code)
    BY <1>1, <1>4
  <2>3. r \notin LiveOut(item)
    BY <1>5, <2>1, <2>2
  <2>4. item <= cut
    BY <1>1, <1>4, <1>7, <1>9, <2>3
  <2>5. \A l \in cut + 1 .. Len(code) : l \in item + 1 .. Len(code)
    BY <1>1, <2>4
  <2>6. r \in LiveIn(code, cut, liveOut[2])
    BY <1>9, <2>1, <2>5 DEF LiveIn
  <2>. QED  BY <1>6, <2>3, <2>4, <2>6
<1>10. ASSUME NEW k, Again(k) PROVE Stale(code, r, item, k) = {}
  BY <1>10 DEF Stale
<1>. HIDE DEF Again
<1>. QED  BY <1>8, <1>9, <1>10 DEF Dead

(* Without an assignment that has no effect the state is the same, but for *)
(* what it defines. *)
LEMMA ApartDeleted ==
  ASSUME NEW s, IsState(s), NEW c, HasShape(c), Full(c), c.type = "assign", EffectsIn(Whole(c)) = {}
  PROVE  Apart(Executed(s, c), s, c.definitions, 0, 0, 0, {})
<1>. DEFINE t == Executed(s, c)
<1>1. /\ \A r \in Reg : r \notin c.definitions => t.env[r] = s.env[r]
      /\ t.stack = StackAfter(s, c)
      /\ t.effects = s.effects + Cardinality(EffectsIn(Whole(c)))
      /\ t.events = s.events \cup Events(Whole(c), Computed(s, c), s.effects)
  BY ExecutedIs
<1>. HIDE DEF t
<1>2. IsStack(s.stack) /\ s.effects \in Nat /\ Len(s.stack) \in Nat
  BY DEF IsState, AreValues, IsStack
<1>3. TakenFrom(s, c) = 0
  BY <1>2, Taken DEF Full
<1>4. SubSeq(s.stack, 0 + 1, Len(s.stack)) = s.stack
  BY <1>2, StackRest
<1>5. t.stack = s.stack
  BY <1>1, <1>3, <1>4 DEF StackAfter
<1>6. Lost(s.stack, s.stack, 0, 0)
  BY <1>2, LostNothing
<1>7. t.effects = s.effects + 0
  BY <1>1, FS_EmptySet
<1>8. Events(Whole(c), Computed(s, c), s.effects) = {}
  BY DEF Events
<1>. QED  BY <1>1, <1>5, <1>6, <1>7, <1>8 DEF Apart, t

(* Nor does it matter whether a call or a POP defines anything. *)
LEMMA ApartUndefined ==
  ASSUME NEW s, IsState(s), NEW c, HasShape(c), NEW d, HasShape(d),
         d.type = c.type, c.type \in {"assign", "pop"}, d.params = c.params, d.collected = c.collected,
         c.type = "assign" => d.operands[2] = c.operands[2], d.definitions = {}
  PROVE  Apart(Executed(s, c), Executed(s, d), c.definitions, 0, 0, 0, {})
<1>. DEFINE t == Executed(s, c)
            t2 == Executed(s, d)
<1>1. /\ \A r \in Reg : r \notin c.definitions => t.env[r] = s.env[r]
      /\ t.stack = StackAfter(s, c)
      /\ t.effects = s.effects + Cardinality(EffectsIn(Whole(c)))
      /\ t.events = s.events \cup Events(Whole(c), Computed(s, c), s.effects)
  BY ExecutedIs
<1>2. /\ \A r \in Reg : r \notin d.definitions => t2.env[r] = s.env[r]
      /\ t2.stack = StackAfter(s, d)
      /\ t2.effects = s.effects + Cardinality(EffectsIn(Whole(d)))
      /\ t2.events = s.events \cup Events(Whole(d), Computed(s, d), s.effects)
  BY ExecutedIs
<1>0. IsState(t)
  BY ExecutedState
<1>. HIDE DEF t, t2
<1>3. TakenFrom(s, d) = TakenFrom(s, c)
  BY DEF TakenFrom
<1>4. StackAfter(s, d) = StackAfter(s, c)
  BY <1>3 DEF StackAfter
<1>5. /\ EffectsIn(Whole(d)) = EffectsIn(Whole(c))
      /\ Events(Whole(d), Computed(s, d), s.effects) = Events(Whole(c), Computed(s, c), s.effects)
  <2>1. CASE c.type = "pop"
    <3>1. EffectsIn(Whole(d)) = {} /\ EffectsIn(Whole(c)) = {}
      BY <2>1, PopQuiet
    <3>2. \A v : Events(Whole(d), v, s.effects) = {} /\ Events(Whole(c), v, s.effects) = {}
      BY <3>1 DEF Events
    <3>. QED  BY <3>1, <3>2
  <2>2. CASE c.type = "assign"
    <3>1. Whole(d) = Whole(c)
      BY <2>2, WholeOf
    <3>2. Computed(s, d) = Computed(s, c)
      BY <1>3, <3>1 DEF Computed
    <3>. QED  BY <3>1, <3>2
  <2>. QED  BY <2>1, <2>2
<1>6. t.effects = t2.effects /\ t.events = t2.events /\ t.stack = t2.stack
  BY <1>1, <1>2, <1>4, <1>5
<1>7. t.effects = t2.effects + 0 /\ Lost(t.stack, t2.stack, 0, 0)
  <2>1. IsStack(t.stack) /\ t.effects \in Nat /\ 0 <= Len(t.stack)
    BY <1>0 DEF IsState, AreValues, IsStack
  <2>. QED  BY <1>6, <2>1, LostNothing
<1>8. \A r \in Reg : r \notin c.definitions => t2.env[r] = t.env[r]
  BY <1>1, <1>2
<1>. QED  BY <1>6, <1>7, <1>8 DEF Apart, t, t2

(***************************************************************************)
(* Of the list only what is at m is changed, and there the states are      *)
(* apart in a register that is dead.                                       *)
(***************************************************************************)
LEMMA DeadChange ==
  ASSUME NEW c, AreShaped(c), NEW d, AreShaped(d), Len(d) = Len(c), NEW out \in SUBSET Reg,
         NEW m \in 1 .. Len(c), AreAlike(c, d, 0, m - 1), AreAlike(c, d, m, Len(c)),
         NEW r, c[m].definitions = {r}, ~c[m].deleted, Dead(c, r, m, m, out),
         \/ /\ d[m].deleted /\ Full(c[m]) /\ c[m].type = "assign" /\ EffectsIn(Whole(c[m])) = {}
         \/ /\ ~d[m].deleted /\ d[m].type = c[m].type /\ c[m].type \in {"assign", "pop"}
            /\ d[m].params = c[m].params /\ d[m].collected = c[m].collected
            /\ c[m].type = "assign" => d[m].operands[2] = c[m].operands[2]
            /\ d[m].definitions = {}
  PROVE  Meaning(d, out) = Meaning(c, out)
<1>. DEFINE s == Run(c)
            s2 == Run(d)
<1>0. /\ Len(c) \in Nat /\ m \in Nat /\ m - 1 \in 0 .. Len(c) /\ 0 \in 0 .. Len(c) /\ m - 1 \in 0 .. m - 1
      /\ m \in m .. Len(c)
  BY DEF AreShaped
<1>1. s2[0] = s[0]
  BY <1>0, RunIs
<1>2. s2[m - 1] = s[m - 1]
  BY <1>0, <1>1, RunAlike
<1>3. s[m] = After(s[m - 1], c[m]) /\ s2[m] = After(s2[m - 1], d[m])
  BY <1>0, RunIs
<1>4. IsState(s[m - 1]) /\ HasShape(c[m]) /\ HasShape(d[m])
  BY <1>0, RunStates DEF AreShaped
<1>. HIDE DEF s, s2
<1>5. s[m] = Executed(s[m - 1], c[m])
  BY <1>3 DEF After
<1>6. Apart(s[m], s2[m], c[m].definitions, 0, 0, 0, {})
  <2>1. CASE /\ d[m].deleted /\ Full(c[m]) /\ c[m].type = "assign" /\ EffectsIn(Whole(c[m])) = {}
    <3>1. s2[m] = s[m - 1]
      BY <1>2, <1>3, <2>1 DEF After
    <3>. DEFINE x == c[m]
                p == s[m - 1]
    <3>2. /\ IsState(p) /\ HasShape(x) /\ Full(x) /\ x.type = "assign" /\ EffectsIn(Whole(x)) = {}
          /\ s[m] = Executed(p, x) /\ s2[m] = p
      BY <1>4, <1>5, <2>1, <3>1
    <3>. HIDE DEF x, p
    <3>3. Apart(s[m], s2[m], x.definitions, 0, 0, 0, {})
      BY <3>2, ApartDeleted
    <3>. QED  BY <3>3 DEF x
  <2>2. CASE /\ ~d[m].deleted /\ d[m].type = c[m].type /\ c[m].type \in {"assign", "pop"}
             /\ d[m].params = c[m].params /\ d[m].collected = c[m].collected
             /\ c[m].type = "assign" => d[m].operands[2] = c[m].operands[2]
             /\ d[m].definitions = {}
    <3>1. s2[m] = Executed(s[m - 1], d[m])
      BY <1>2, <1>3, <2>2 DEF After
    <3>. DEFINE x == c[m]
                y == d[m]
                p == s[m - 1]
    <3>2. /\ IsState(p) /\ HasShape(x) /\ HasShape(y)
          /\ y.type = x.type /\ x.type \in {"assign", "pop"}
          /\ y.params = x.params /\ y.collected = x.collected
          /\ x.type = "assign" => y.operands[2] = x.operands[2]
          /\ y.definitions = {}
          /\ s[m] = Executed(p, x) /\ s2[m] = Executed(p, y)
      BY <1>4, <1>5, <2>2, <3>1
    <3>. HIDE DEF x, y, p
    <3>3. Apart(s[m], s2[m], x.definitions, 0, 0, 0, {})
      BY <3>2, ApartUndefined
    <3>. QED  BY <3>3 DEF x
  <2>. QED  BY <2>1, <2>2
<1>7. Stale(c, r, m, m) = {r}
  BY <1>0 DEF Stale
<1>8. Apart(s[m], s2[m], Stale(c, r, m, m), 0, 0, 0, {})
  BY <1>6, <1>7
<1>. QED  BY <1>0, <1>8, DeadMeans DEF s, s2

(* Up to the item a list that is changed there or behind runs as before. *)
LEMMA RunBehind ==
  ASSUME IInv, ProgramInv, Len(code') = Len(code),
         \A k \in Item : k < item => Alike(code[k], code'[k])
  PROVE  /\ AreAlike(code, code', 0, item - 1)
         /\ \A i \in 0 .. item - 1 : Run(code')[i] = Run(code)[i]
         /\ phase # "chains" /\ ~careless => StackMatches(Run(code'), code', stack, item - 1)
<1>1. /\ Item = 1 .. Len(code) /\ Len(code) \in Nat /\ item \in 1 .. Len(code) + 1
      /\ item - 1 \in 0 .. Len(code) /\ item - 1 \in Nat /\ ArePlaces(stack, item - 1)
  BY Ready DEF ProgramInv
<1>2. AreAlike(code, code', 0, item - 1)
  BY <1>1 DEF AreAlike
<1>3. \A i \in 0 .. item - 1 : Run(code')[i] = Run(code)[i]
  <2>1. Run(code')[0] = Run(code)[0] /\ 0 \in 0 .. Len(code)
    BY <1>1, RunIs
  <2>. QED  BY <1>1, <1>2, <2>1, RunAlike
<1>4. ASSUME phase # "chains", ~careless PROVE StackMatches(Run(code'), code', stack, item - 1)
  <2>1. StackMatches(Run(code), code, stack, item - 1)
    BY <1>4 DEF ProgramInv, StackRun
  <2>2. \A j \in 1 .. Len(stack) : code'[stack[j]].operands = code[stack[j]].operands
    <3>1. \A j \in 1 .. Len(stack) : stack[j] \in 1 .. item - 1
      BY <1>1 DEF ArePlaces
    <3>2. \A k \in 1 .. item - 1 : k \in Item /\ k < item
      BY <1>1
    <3>. QED  BY <3>1, <3>2 DEF Alike
  <2>. QED  BY <1>1, <1>3, <2>1, <2>2, PlacesMatch
<1>. QED  BY <1>2, <1>3, <1>4

-----------------------------------------------------------------------------
(***************************************************************************)
(* What a step has to show that changes instructions.                      *)
(***************************************************************************)
LEMMA StepProgram ==
  ASSUME IInv, ProgramInv, phase # "chains", phase' # "chains", item \in Item,
         Len(code') = Len(code), Item' = Item, UNCHANGED <<cut, liveOut, meaning>>,
         item' \in Nat, item <= item',
         \A k \in Item : HasShape(code'[k]),
         \A k \in Item : k > item =>
           /\ code'[k].definitions = code[k].definitions /\ code'[k].chain = code[k].chain
           /\ code[k].last \subseteq code'[k].last,
         item <= cut => \A k \in Item : k > cut =>
           code'[k].uses = code[k].uses /\ Used(code'[k]) = Used(code[k]),
         ~careless' => ~careless /\ \A k \in Item : k > item =>
           \A r \in code[k].definitions : \A j \in Reached(k, r) :
             r \in Used(code'[j]) => r \in Used(code[j]),
         item' = item => \A k \in Item : k = item => Known(k)',
         FullInv', StackRun', CarefulMeansSameProgram'
  PROVE  ProgramInv'
<1>1. Item = 1 .. Len(code) /\ Len(code) \in Nat /\ item \in Nat /\ cut \in Item /\ ShapeInv
  BY Ready DEF ProgramInv
<1>2. ASSUME NEW k \in Item, k >= item' PROVE Known(k)'
  <2>1. CASE k = item
    <3>1. item' = item
      BY <1>1, <1>2, <2>1
    <3>. QED  BY <2>1, <3>1
  <2>2. CASE k # item
    <3>1. k > item /\ \A j \in Item : j >= k => j > item
      BY <1>1, <1>2, <2>2
    <3>2. Known(k)
      BY <1>1, <3>1 DEF ProgramInv, KnownInv
    <3>3. \A j \in Item : j >= k => code'[j].definitions = code[j].definitions
      BY <3>1
    <3>4. code'[k].chain = code[k].chain /\ code[k].last \subseteq code'[k].last
      BY <3>1
    <3>5. ~careless' => ~careless /\ \A r \in code[k].definitions : \A j \in Reached(k, r) :
                                      r \in Used(code'[j]) => r \in Used(code[j])
      BY <3>1
    <3>. QED  BY <1>1, <3>2, <3>3, <3>4, <3>5, KnownKept
  <2>. QED  BY <2>1, <2>2
<1>3. KnownInv'
  BY <1>2 DEF KnownInv
<1>4. NodeInv'
  <2>1. ASSUME item' <= cut
        PROVE  /\ liveOut[1] = LiveIn(code', cut, liveOut[2])
               /\ \A k \in Item : k > cut => code'[k].uses = Used(code'[k])
    <3>1. item <= cut
      BY <1>1, <2>1
    <3>2. \A k \in cut + 1 .. Len(code) : k \in Item /\ k > cut /\ k > item
      BY <1>1, <3>1
    <3>3. LiveIn(code', cut, liveOut[2]) = LiveIn(code, cut, liveOut[2])
      BY <1>1, <3>1, <3>2, SameLiveIn
    <3>. QED  BY <3>1, <3>3 DEF ProgramInv, NodeInv
  <2>. QED  BY <2>1 DEF ProgramInv, NodeInv
<1>5. ShapeInv'
  BY DEF ShapeInv
<1>. QED  BY <1>3, <1>4, <1>5 DEF ProgramInv

(* What becomes of an instruction whose definition goes. *)
LEMMA UndefinedShape ==
  ASSUME NEW c, HasShape(c), NEW x, x.type = c.type, x.params = c.params, x.collected = c.collected,
         x.definitions = {}, x.operands = [c.operands EXCEPT ![1] = Leaf(Dummy)],
         c.type \in {"assign", "pop"}
  PROVE  HasShape(x) /\ (c.type = "assign" => x.operands[2] = c.operands[2])
<1>1. Dummy[1] \notin {"store", "jump", "reg", "call"}
  BY DEF Dummy
<1>2. IsExpression(Leaf(Dummy))
  BY <1>1, LeafExpression
<1>3. EffectsIn(Leaf(Dummy)) = {}
  <2>1. ~HasCall(Leaf(Dummy))
    BY <1>1, LeafTree DEF HasCall, Labelled
  <2>. QED  BY <1>2, <2>1, OnlyCalls
<1>4. 1 \in DOMAIN c.operands /\ DOMAIN x.operands = DOMAIN c.operands
  BY OperandsAre
<1>. HIDE DEF Dummy
<1>5. x.operands[1] = Leaf(Dummy) /\ \A o \in DOMAIN c.operands : o # 1 => x.operands[o] = c.operands[o]
  BY <1>4
<1>6. c.type = "assign" => x.operands[2] = c.operands[2]
  <2>1. c.type = "assign" => 2 \in DOMAIN c.operands
    BY OperandsAre
  <2>. QED  BY <1>5, <2>1
<1>7. \A o \in DOMAIN x.operands : IsExpression(x.operands[o])
  BY <1>2, <1>4, <1>5, OperandsAre
<1>8. c.type = "pop" => EffectsIn(x.operands[1]) = {}
  BY <1>3, <1>5
<1>9. Arity(x) = Arity(c)
  BY SMTT(30) DEF Arity
<1>. QED  BY <1>4, <1>6, <1>7, <1>8, <1>9 DEF HasShape

LEMMA RemoveInstructionProgram ==
  ASSUME IInv, ProgramInv, RemoveInstruction
  PROVE  ProgramInv'
<1>. DEFINE c == code[item]
            x == [c EXCEPT !.operands = [c.operands EXCEPT ![1] = Leaf(Dummy)],
                           !.definitions = {}, !.deleted = TRUE]
            m == item - 1
<1>1. /\ phase = "definitions" /\ item \in Item /\ ~c.deleted
      /\ c.type = "assign" /\ ~IsCall(item) /\ Unused(item) # {}
      /\ code' = [code EXCEPT ![item].operands[1] = Leaf(Dummy),
                              ![item].definitions = {}, ![item].deleted = TRUE]
      /\ careless' = (careless \/ HasCall(c.operands[2]))
      /\ item' = item + 1
      /\ UNCHANGED <<cut, liveOut, stack, phase, meaning>>
  BY Zenon DEF RemoveInstruction, AtItem
<1>2. /\ Item = 1 .. Len(code) /\ Len(code) \in Nat /\ item \in Nat /\ IsList(code, Len(code))
      /\ AreShaped(code) /\ m \in Nat /\ m + 1 = item /\ ArePlaces(stack, m) /\ ListInv
  BY Ready DEF ProgramInv, IInv
<1>3. IsInstruction(c) /\ c.chain \subseteq Reg \X Item /\ HasShape(c)
  BY <1>1, <1>2 DEF IInv, ListInv, TypeOK, ProgramInv, ShapeInv
<1>4. code' = [code EXCEPT ![item] = x]
  BY <1>1
<1>5. code'[item] = x /\ \A k \in Item : k # item => code'[k] = code[k]
  BY <1>1, <1>2, <1>4 DEF IsList
<1>6. Len(code') = Len(code) /\ Item' = Item
  <2>1. DOMAIN code' = DOMAIN code
    BY <1>4
  <2>2. DOMAIN code' = 1 .. Len(code)
    BY <1>2, <2>1, ListLength
  <2>. QED  BY <1>2, <2>1, <2>2 DEF Item
<1>7. /\ x.type = c.type /\ x.operands = [c.operands EXCEPT ![1] = Leaf(Dummy)] /\ x.params = c.params
      /\ x.definitions = {} /\ x.deleted /\ x.collected = c.collected
  BY <1>3 DEF IsInstruction, Fields
<1>8. HasShape(x)
  BY <1>1, <1>3, <1>7, UndefinedShape
<1>. HIDE DEF x, c, m
<1>9. \A k \in Item : HasShape(code'[k])
  BY <1>5, <1>8 DEF ProgramInv, ShapeInv
<1>10. AreShaped(code')
  BY <1>2, <1>6, <1>9 DEF AreShaped
<1>11. \A k \in Item : k # item => Alike(code[k], code'[k]) /\ Used(code'[k]) = Used(code[k])
  BY <1>5 DEF Alike
<1>12. /\ AreAlike(code, code', 0, item - 1) /\ AreAlike(code, code', item, Len(code))
       /\ ~careless => StackMatches(Run(code'), code', stack, m)
  <2>1. \A k \in Item : k < item => Alike(code[k], code'[k])
    BY <1>2, <1>11
  <2>2. \A k \in item + 1 .. Len(code) : k \in Item /\ k # item
    BY <1>2
  <2>3. AreAlike(code, code', item, Len(code))
    BY <1>11, <2>2 DEF AreAlike
  <2>. QED  BY <1>1, <1>6, <2>1, <2>3, RunBehind DEF m
<1>13. PICK r \in Reg : c.definitions = {r}
  BY <1>1, <1>3 DEF HasShape, Unused, c
<1>14. /\ r \in code[item].definitions /\ ~NeededLater(item, r)
       /\ \A j \in Item : <<r, j>> \notin code[item].chain
  BY <1>1, <1>13 DEF Unused, c
<1>15. Full(c)
  BY <1>1, <1>3 DEF HasShape, Full, IsCall, c
<1>16. CarefulMeansSameProgram'
  <2>. SUFFICES ASSUME ~careless' PROVE Meaning(code', liveOut[2]) = meaning
    BY <1>1 DEF CarefulMeansSameProgram
  <2>1. ~careless /\ ~HasCall(c.operands[2])
    BY <1>1
  <2>2. EffectsIn(Whole(c)) = {}
    BY <1>1, <1>3, <2>1, WholeOf, OnlyCalls
  <2>3. item \in item .. Len(code) /\ item \in 1 .. Len(code)
    BY <1>1, <1>2
  <2>4. Dead(code, r, item, item, liveOut[2])
    BY <1>1, <1>14, <2>1, <2>3, NotNeeded
  <2>5. liveOut[2] \in SUBSET Reg
    BY DEF ProgramInv, NodeInv
  <2>6. /\ code'[item].deleted /\ Full(code[item]) /\ code[item].type = "assign"
        /\ EffectsIn(Whole(code[item])) = {} /\ ~code[item].deleted /\ code[item].definitions = {r}
    BY <1>1, <1>5, <1>7, <1>13, <1>15, <2>2 DEF c
  <2>7. Meaning(code', liveOut[2]) = Meaning(code, liveOut[2])
    BY <1>2, <1>6, <1>10, <1>12, <2>3, <2>4, <2>5, <2>6, DeadChange
  <2>. QED  BY <2>1, <2>7 DEF ProgramInv, CarefulMeansSameProgram
<1>17. FullInv'
  <2>1. \A k \in Item : k < item' => k = item \/ k < item
    BY <1>1, <1>2
  <2>2. ASSUME NEW k \in Item, ~code'[k].deleted, k < item' PROVE Full(code'[k])
    <3>1. k # item /\ k < item /\ code'[k] = code[k]
      BY <1>5, <1>7, <2>1, <2>2
    <3>. QED  BY <1>1, <2>2, <3>1 DEF ProgramInv, FullInv
  <2>. QED  BY <1>1, <1>6, <2>2 DEF FullInv
<1>18. StackRun'
  <2>. SUFFICES ASSUME ~careless' PROVE StackMatches(Run(code'), code', stack, item)
    <3>1. item' - 1 = item
      BY <1>1, <1>2
    <3>. QED  BY <1>1, <3>1 DEF StackRun
  <2>1. StackMatches(Run(code'), code', stack, m)
    BY <1>1, <1>12
  <2>2. Run(code')[item] = Run(code')[item - 1]
    <3>1. item \in 1 .. Len(code')
      BY <1>1, <1>2, <1>6
    <3>2. Run(code')[item] = After(Run(code')[item - 1], code'[item])
      BY <1>2, <1>6, <3>1, RunIs
    <3>. QED  BY <1>5, <1>7, <3>2 DEF After
  <2>3. Run(code')[m + 1].stack = Run(code')[m].stack
    BY <1>2, <2>2 DEF m
  <2>4. StackMatches(Run(code'), code', stack, m + 1)
    BY <1>2, <2>1, <2>3, SameMatch
  <2>. QED  BY <1>2, <2>4
<1>19. \A k \in Item : k > item => code'[k] = code[k] /\ k # item
  BY <1>2, <1>5
<1>20. item' \in Nat /\ item <= item' /\ item' # item /\ phase # "chains" /\ phase' # "chains"
  BY <1>1, <1>2
<1>21. item <= cut => \A k \in Item : k > cut => code'[k].uses = code[k].uses /\ Used(code'[k]) = Used(code[k])
  <2>1. cut \in Nat
    BY <1>2, Ready DEF ProgramInv
  <2>2. item <= cut => \A k \in Item : k > cut => k > item
    BY <1>2, <2>1
  <2>. QED  BY <1>19, <2>2
<1>22. ~careless' => ~careless /\ \A k \in Item : k > item =>
           \A y \in code[k].definitions : \A j \in Reached(k, y) :
             y \in Used(code'[j]) => y \in Used(code[j])
  <2>1. ~careless' => ~careless
    BY <1>1
  <2>2. \A k \in Item : \A y : \A j \in Reached(k, y) : j \in Item /\ j > k
    BY ReachedIs DEF ProgramInv
  <2>3. \A k, j \in Item : k > item /\ j > k => j > item
    BY <1>2
  <2>. QED  BY <1>19, <2>1, <2>2, <2>3
<1>. QED  BY <1>1, <1>6, <1>9, <1>16, <1>17, <1>18, <1>19, <1>20, <1>21, <1>22, StepProgram

LEMMA RemoveDefinitionProgram ==
  ASSUME IInv, ProgramInv, RemoveDefinition
  PROVE  ProgramInv'
<1>. DEFINE c == code[item]
            x == [c EXCEPT !.operands = [c.operands EXCEPT ![1] = Leaf(Dummy)], !.definitions = {}]
            m == item - 1
<1>1. /\ phase = "definitions" /\ item \in Item /\ ~c.deleted
      /\ c.type \in {"assign", "pop"} /\ Unused(item) # {}
      /\ code' = [code EXCEPT ![item].operands[1] = Leaf(Dummy), ![item].definitions = {}]
      /\ phase' = "parameters"
      /\ UNCHANGED <<cut, liveOut, item, stack, careless, meaning>>
  BY DEF RemoveDefinition, AtItem, IsCall
<1>2. /\ Item = 1 .. Len(code) /\ Len(code) \in Nat /\ item \in Nat /\ IsList(code, Len(code))
      /\ AreShaped(code) /\ m \in Nat /\ m + 1 = item /\ ArePlaces(stack, m) /\ ListInv
  BY Ready DEF ProgramInv, IInv
<1>3. IsInstruction(c) /\ c.chain \subseteq Reg \X Item /\ HasShape(c)
  BY <1>1, <1>2 DEF IInv, ListInv, TypeOK, ProgramInv, ShapeInv
<1>4. code' = [code EXCEPT ![item] = x]
  BY <1>1
<1>5. code'[item] = x /\ \A k \in Item : k # item => code'[k] = code[k]
  BY <1>1, <1>2, <1>4 DEF IsList
<1>6. Len(code') = Len(code) /\ Item' = Item
  <2>1. DOMAIN code' = DOMAIN code
    BY <1>4
  <2>2. DOMAIN code' = 1 .. Len(code)
    BY <1>2, <2>1, ListLength
  <2>. QED  BY <1>2, <2>1, <2>2 DEF Item
<1>7. /\ x.type = c.type /\ x.operands = [c.operands EXCEPT ![1] = Leaf(Dummy)] /\ x.params = c.params
      /\ x.definitions = {} /\ x.deleted = c.deleted /\ x.collected = c.collected /\ x.chain = c.chain
  BY <1>3 DEF IsInstruction, Fields
<1>8. HasShape(x) /\ (c.type = "assign" => x.operands[2] = c.operands[2])
  BY <1>1, <1>3, <1>7, UndefinedShape
<1>. HIDE DEF x, c, m
<1>9. \A k \in Item : HasShape(code'[k])
  BY <1>5, <1>8 DEF ProgramInv, ShapeInv
<1>10. AreShaped(code')
  BY <1>2, <1>6, <1>9 DEF AreShaped
<1>11. \A k \in Item : k # item => Alike(code[k], code'[k]) /\ Used(code'[k]) = Used(code[k])
  BY <1>5 DEF Alike
<1>12. /\ AreAlike(code, code', 0, item - 1) /\ AreAlike(code, code', item, Len(code))
       /\ ~careless => StackMatches(Run(code'), code', stack, m)
  <2>1. \A k \in Item : k < item => Alike(code[k], code'[k])
    BY <1>2, <1>11
  <2>2. \A k \in item + 1 .. Len(code) : k \in Item /\ k # item
    BY <1>2
  <2>3. AreAlike(code, code', item, Len(code))
    BY <1>11, <2>2 DEF AreAlike
  <2>. QED  BY <1>1, <1>6, <2>1, <2>3, RunBehind DEF m
<1>13. PICK r \in Reg : c.definitions = {r}
  BY <1>1, <1>3 DEF HasShape, Unused, c
<1>14. /\ r \in code[item].definitions /\ ~NeededLater(item, r)
       /\ \A j \in Item : <<r, j>> \notin code[item].chain
  BY <1>1, <1>13 DEF Unused, c
<1>15. c.chain = {}
  <2>1. Known(item)
    BY <1>1, <1>2 DEF ProgramInv, KnownInv
  <2>2. \A u \in c.chain : u = <<u[1], u[2]>> /\ u[2] \in Item /\ u[1] = r
    BY <1>3, <1>13, <2>1 DEF Known, c
  <2>. QED  BY <1>14, <2>2 DEF c
<1>16. CarefulMeansSameProgram'
  <2>. SUFFICES ASSUME ~careless PROVE Meaning(code', liveOut[2]) = meaning
    BY <1>1 DEF CarefulMeansSameProgram
  <2>3. item \in item .. Len(code) /\ item \in 1 .. Len(code)
    BY <1>1, <1>2
  <2>4. Dead(code, r, item, item, liveOut[2])
    BY <1>1, <1>14, <2>3, NotNeeded
  <2>5. liveOut[2] \in SUBSET Reg
    BY DEF ProgramInv, NodeInv
  <2>6. /\ ~code[item].deleted /\ code[item].definitions = {r}
        /\ ~code'[item].deleted /\ code'[item].type = code[item].type /\ code[item].type \in {"assign", "pop"}
        /\ code'[item].params = code[item].params /\ code'[item].collected = code[item].collected
        /\ code[item].type = "assign" => code'[item].operands[2] = code[item].operands[2]
        /\ code'[item].definitions = {}
    BY <1>1, <1>5, <1>7, <1>8, <1>13 DEF c
  <2>7. Meaning(code', liveOut[2]) = Meaning(code, liveOut[2])
    BY <1>2, <1>6, <1>10, <1>12, <2>3, <2>4, <2>5, <2>6, DeadChange, SMTT(30)
  <2>. QED  BY <2>7 DEF ProgramInv, CarefulMeansSameProgram
<1>17. FullInv'
  <2>2. ASSUME NEW k \in Item, ~code'[k].deleted, k < item PROVE Full(code'[k])
    <3>1. k # item /\ code'[k] = code[k]
      BY <1>2, <1>5, <2>2
    <3>. QED  BY <1>1, <2>2, <3>1 DEF ProgramInv, FullInv
  <2>. QED  BY <1>1, <1>6, <2>2 DEF FullInv
<1>18. StackRun'
  BY <1>1, <1>12 DEF StackRun, m
<1>19. \A k \in Item : k > item => code'[k] = code[k] /\ k # item
  BY <1>2, <1>5
<1>20. item' \in Nat /\ item <= item' /\ phase # "chains" /\ phase' # "chains"
  BY <1>1, <1>2
<1>21. item <= cut => \A k \in Item : k > cut => code'[k].uses = code[k].uses /\ Used(code'[k]) = Used(code[k])
  <2>1. cut \in Nat
    BY <1>2, Ready DEF ProgramInv
  <2>2. item <= cut => \A k \in Item : k > cut => k > item
    BY <1>2, <2>1
  <2>. QED  BY <1>19, <2>2
<1>22. ~careless' => ~careless /\ \A k \in Item : k > item =>
           \A y \in code[k].definitions : \A j \in Reached(k, y) :
             y \in Used(code'[j]) => y \in Used(code[j])
  <2>2. \A k \in Item : \A y : \A j \in Reached(k, y) : j \in Item /\ j > k
    BY ReachedIs DEF ProgramInv
  <2>3. \A k, j \in Item : k > item /\ j > k => j > item
    BY <1>2
  <2>. QED  BY <1>1, <1>19, <2>2, <2>3
<1>23. ASSUME NEW k \in Item, k = item PROVE Known(k)'
  BY <1>5, <1>7, <1>15, <1>23 DEF Known
<1>. QED  BY <1>1, <1>6, <1>9, <1>16, <1>17, <1>18, <1>19, <1>20, <1>21, <1>22, <1>23, StepProgram

-----------------------------------------------------------------------------
(***************************************************************************)
(* A definition is moved into its use.                                     *)
(***************************************************************************)
(* What takes nothing off the stack computes its value. *)
LEMMA FullComputed ==
  ASSUME NEW s, IsState(s), NEW c, HasShape(c), Full(c)
  PROVE  /\ Computed(s, c) = Value(Whole(c), s)
         /\ StackAfter(s, c) = IF c.type = "push" THEN <<Value(Whole(c), s)>> \o s.stack
                               ELSE IF c.type = "pop" /\ s.stack # <<>> THEN Tail(s.stack)
                               ELSE s.stack
<1>1. IsStack(s.stack)
  BY DEF IsState
<1>2. TakenFrom(s, c) = 0
  BY <1>1, Taken DEF Full
<1>3. Len(s.stack) \in Nat /\ 0 \in 0 .. Len(s.stack)
  BY <1>1 DEF IsStack
<1>4. SubSeq(s.stack, 0 + 1, Len(s.stack)) = s.stack
  BY <1>1, <1>3, StackRest
<1>5. Computed(s, c) = Value(Whole(c), s)
  BY <1>2 DEF Computed
<1>. QED  BY <1>2, <1>4, <1>5 DEF StackAfter

(* Without an assignment what it defines is missing, and its effects. *)
LEMMA ApartTaken ==
  ASSUME NEW s, IsState(s), NEW c, HasShape(c), Full(c), c.type = "assign"
  PROVE  LET e == Whole(c)
             t == Executed(s, c) IN
         /\ Apart(t, s, c.definitions, 0, 0, Cardinality(EffectsIn(e)), Events(e, Value(e, s), s.effects))
         /\ \A r \in Reg : r \in c.definitions => t.env[r] = Value(e, s)
<1>. DEFINE t == Executed(s, c)
            e == Whole(c)
<1>1. /\ \A r \in Reg : r \in c.definitions => t.env[r] = Result(s, c)
      /\ \A r \in Reg : r \notin c.definitions => t.env[r] = s.env[r]
      /\ t.stack = StackAfter(s, c)
      /\ t.effects = s.effects + Cardinality(EffectsIn(e))
      /\ t.events = s.events \cup Events(e, Computed(s, c), s.effects)
  BY ExecutedIs
<1>. HIDE DEF t, e
<1>2. IsStack(s.stack) /\ Len(s.stack) \in Nat
  BY DEF IsState, IsStack
<1>3. Computed(s, c) = Value(e, s) /\ StackAfter(s, c) = s.stack
  BY FullComputed DEF e
<1>4. Result(s, c) = Value(e, s)
  BY <1>3 DEF Result
<1>5. Lost(t.stack, s.stack, 0, 0)
  BY <1>1, <1>2, <1>3, LostNothing
<1>6. Apart(t, s, c.definitions, 0, 0, Cardinality(EffectsIn(e)), Events(e, Value(e, s), s.effects))
  BY <1>1, <1>3, <1>5 DEF Apart
<1>. QED  BY <1>1, <1>4, <1>6 DEF t, e

(* Where it is read the value is computed, and the effects catch up. *)
LEMMA ExecutedMerged ==
  ASSUME NEW s, IsState(s), NEW s2, IsState(s2), NEW s0, IsState(s0),
         NEW c, HasShape(c), NEW d, HasShape(d), NEW o, NEW r \in Reg, NEW e, IsExpression(e),
         Fits(c, o, r, e, d),
         d.definitions = c.definitions, d.params = c.params, d.collected = c.collected,
         Merged(Whole(c), ReadsAt(Whole(c), r), r, e, s, s2, s0),
         Apart(s, s2, {r}, 0, 0, Cardinality(EffectsIn(e)), Events(e, Value(e, s0), s0.effects))
  PROVE  Apart(Executed(s, c), Executed(s2, d), {r} \ c.definitions, 0, 0, 0, {})
<1>. DEFINE t == Executed(s, c)
            t2 == Executed(s2, d)
            w == Whole(c)
            at == ReadsAt(w, r)
            g == Grafted(w, at, e)
            n == Cardinality(EffectsIn(e))
            X == Events(e, Value(e, s0), s0.effects)
<1>1. /\ \A x \in Reg : x \in c.definitions => t.env[x] = Result(s, c)
      /\ \A x \in Reg : x \notin c.definitions => t.env[x] = s.env[x]
      /\ t.stack = StackAfter(s, c)
      /\ t.effects = s.effects + Cardinality(EffectsIn(w))
      /\ t.events = s.events \cup Events(w, Computed(s, c), s.effects)
  BY ExecutedIs
<1>2. /\ \A x \in Reg : x \in d.definitions => t2.env[x] = Result(s2, d)
      /\ \A x \in Reg : x \notin d.definitions => t2.env[x] = s2.env[x]
      /\ t2.stack = StackAfter(s2, d)
      /\ t2.effects = s2.effects + Cardinality(EffectsIn(Whole(d)))
      /\ t2.events = s2.events \cup Events(Whole(d), Computed(s2, d), s2.effects)
  BY ExecutedIs
<1>3. Whole(d) = g /\ Mergeable(w, at, e) /\ at # {} /\ IsTerm(w)
  BY WholeGrafted
<1>4. IsState(t) /\ IsState(t2)
  BY ExecutedState
<1>5. Full(c) /\ Full(d)
  <2>1. r \in RegistersOf(Whole(c))
    BY <1>3 DEF RegistersOf
  <2>2. Full(c)
    <3>. SUFFICES ASSUME ~Full(c) PROVE FALSE
      OBVIOUS
    <3>. QED  BY <2>1, Uncollected DEF Full
  <2>. QED  BY <2>2 DEF Full
<1>6. d.type = c.type /\ c.type # "pop"
  <2>1. o \in UsedOperands(c) /\ d.type = c.type
    BY DEF Fits
  <2>. QED  BY <2>1, OperandsAre
<1>7. AreValues(s) /\ AreValues(s2) /\ AreValues(s0)
  BY DEF IsState
<1>. HIDE DEF t, t2, w, at, g, n, X
<1>8. Merged(w, at, r, e, s, s2, s0) /\ Apart(s, s2, {r}, 0, 0, n, X)
  BY DEF w, at, n, X
<1>9. Value(g, s2) = Value(w, s)
  BY <1>3, <1>7, <1>8, ValueMerged DEF g
<1>10. Events(g, Value(w, s), s2.effects) = Events(w, Value(w, s), s.effects) \cup X
  BY <1>3, <1>7, <1>8, EventsMerged DEF g, X
<1>11. at \in SUBSET ReadsAt(w, r)
  BY DEF at
<1>12. Cardinality(EffectsIn(g)) = Cardinality(EffectsIn(w)) + n
  BY <1>3, <1>11, GraftedCounts DEF g, n, CountedApart
<1>13. /\ Computed(s, c) = Value(w, s)
       /\ StackAfter(s, c) = IF c.type = "push" THEN <<Value(w, s)>> \o s.stack ELSE s.stack
  BY <1>5, <1>6, FullComputed DEF w
<1>14. /\ Computed(s2, d) = Value(w, s)
       /\ StackAfter(s2, d) = IF c.type = "push" THEN <<Value(w, s)>> \o s2.stack ELSE s2.stack
  <2>1. /\ Computed(s2, d) = Value(Whole(d), s2)
        /\ StackAfter(s2, d) = IF d.type = "push" THEN <<Value(Whole(d), s2)>> \o s2.stack
                               ELSE IF d.type = "pop" /\ s2.stack # <<>> THEN Tail(s2.stack)
                               ELSE s2.stack
    BY <1>5, FullComputed
  <2>. QED  BY <1>3, <1>6, <1>9, <2>1
<1>15. IsStack(s.stack) /\ IsStack(s2.stack) /\ IsStack(t.stack)
  BY <1>4 DEF IsState
<1>16. s.stack = s2.stack
  BY <1>8, <1>15, LostNothing DEF Apart
<1>17. t.stack = t2.stack
  BY <1>1, <1>2, <1>13, <1>14, <1>16
<1>18. Lost(t.stack, t2.stack, 0, 0)
  <2>1. Len(t.stack) \in Nat
    BY <1>15 DEF IsStack
  <2>. QED  BY <1>15, <1>17, <2>1, LostNothing
<1>19. t.effects = t2.effects + 0
  <2>1. n \in Nat /\ Cardinality(EffectsIn(w)) \in Nat
    BY <1>3, EffectsFinite DEF n, IsExpression
  <2>2. s.effects = s2.effects + n /\ s2.effects \in Nat
    BY <1>7, <1>8 DEF Apart, AreValues
  <2>3. t2.effects = s2.effects + (Cardinality(EffectsIn(w)) + n)
    BY <1>2, <1>3, <1>12
  <2>4. t.effects = s.effects + Cardinality(EffectsIn(w))
    BY <1>1
  <2>. QED  BY <2>1, <2>2, <2>3, <2>4
<1>20. t.events = t2.events \cup {}
  <2>1. s.events = s2.events \cup X
    BY <1>8 DEF Apart
  <2>2. t.events = s.events \cup Events(w, Value(w, s), s.effects)
    BY <1>1, <1>13
  <2>3. t2.events = s2.events \cup Events(g, Value(w, s), s2.effects)
    BY <1>2, <1>3, <1>14
  <2>. QED  BY <1>10, <2>1, <2>2, <2>3
<1>21. ASSUME NEW x \in Reg, x \notin {r} \ c.definitions PROVE t2.env[x] = t.env[x]
  <2>1. CASE x \in c.definitions
    <3>1. Result(s, c) = Value(w, s) /\ Result(s2, d) = Value(w, s)
      BY <1>6, <1>13, <1>14 DEF Result
    <3>. QED  BY <1>1, <1>2, <2>1, <3>1
  <2>2. CASE x \notin c.definitions
    <3>1. x \notin {r}
      BY <1>21, <2>2
    <3>2. s2.env[x] = s.env[x]
      BY <1>8, <3>1 DEF Apart
    <3>. QED  BY <1>1, <1>2, <2>2, <3>2
  <2>. QED  BY <2>1, <2>2
<1>. QED  BY <1>18, <1>19, <1>20, <1>21 DEF Apart, t, t2

(* Nothing in between reads or defines what is moved, nor disturbs it. *)
Passed(c, m, t, r, e) ==
  \A k \in m + 1 .. t - 1 :
    /\ ~c[k].deleted /\ r \notin Used(c[k]) /\ r \notin c[k].definitions
    /\ c[k].definitions \cap RegistersOf(e) = {}
    /\ HasCall(e) \/ ReadsMemory(e) => EffectsIn(Whole(c[k])) = {}
    /\ HasCall(e) => ~ReadsMemory(Whole(c[k]))

Moves(c, d, m, t, o, r, e) ==
  /\ AreAlike(c, d, 0, m - 1) /\ AreAlike(c, d, m, t - 1) /\ AreAlike(c, d, t, Len(c))
  /\ c[m].type = "assign" /\ c[m].definitions = {r} /\ e = c[m].operands[2]
  /\ ~c[m].deleted /\ Full(c[m]) /\ d[m].deleted
  /\ Passed(c, m, t, r, e)
  /\ ~c[t].deleted /\ ~d[t].deleted /\ Fits(c[t], o, r, e, d[t])
  /\ d[t].definitions = c[t].definitions /\ d[t].params = c[t].params
  /\ d[t].collected = c[t].collected

Rejoins(c, d, s, s2, m, t, r, e) ==
  /\ s[t] = Executed(s[t - 1], c[t]) /\ s2[t] = Executed(s2[t - 1], d[t])
  /\ Apart(s[t - 1], s2[t - 1], {r}, 0, 0,
           Cardinality(EffectsIn(e)), Events(e, Value(e, s[m - 1]), s[m - 1].effects))
  /\ Merged(Whole(c[t]), ReadsAt(Whole(c[t]), r), r, e, s[t - 1], s2[t - 1], s[m - 1])

LEMMA MovedRun ==
  ASSUME NEW c, AreShaped(c), NEW d, AreShaped(d), Len(d) = Len(c),
         NEW m \in 1 .. Len(c), NEW t \in m + 1 .. Len(c), NEW o, NEW r \in Reg, NEW e,
         Moves(c, d, m, t, o, r, e), NEW s, s = Run(c), NEW s2, s2 = Run(d)
  PROVE  Rejoins(c, d, s, s2, m, t, r, e)
<1>0. /\ Len(c) \in Nat /\ m \in Nat /\ t \in Nat /\ m < t /\ t <= Len(c)
      /\ m - 1 \in 0 .. Len(c) /\ 0 \in 0 .. Len(c) /\ m - 1 \in 0 .. m - 1
      /\ m \in 0 .. Len(c) /\ t - 1 \in m .. Len(c) /\ t - 1 \in m .. t - 1 /\ t \in 1 .. Len(c)
      /\ t - 1 \in m - 1 .. Len(c) /\ t - 1 \in m - 1 .. t - 1
  BY DEF AreShaped
<1>1. /\ s2[0] = s[0]
      /\ \A k \in 1 .. Len(c) : s[k] = After(s[k - 1], c[k]) /\ s2[k] = After(s2[k - 1], d[k])
  BY <1>0, RunIs
<1>2. /\ c[m].type = "assign" /\ c[m].definitions = {r} /\ e = c[m].operands[2]
      /\ ~c[m].deleted /\ Full(c[m]) /\ d[m].deleted
      /\ ~c[t].deleted /\ ~d[t].deleted /\ Fits(c[t], o, r, e, d[t])
      /\ AreAlike(c, d, 0, m - 1) /\ AreAlike(c, d, m, t - 1) /\ Passed(c, m, t, r, e)
  BY DEF Moves
<1>3. \A i \in 0 .. m - 1 : s2[i] = s[i]
  <2>1. Run(d)[0] = Run(c)[0] /\ AreAlike(c, d, 0, m - 1)
    BY <1>1, <1>2
  <2>2. \A i \in 0 .. m - 1 : Run(d)[i] = Run(c)[i]
    BY <1>0, <2>1, RunAlike
  <2>. QED  BY <2>2
<1>4. s2[m] = s2[m - 1] /\ s[m] = Executed(s[m - 1], c[m])
      /\ s[t] = Executed(s[t - 1], c[t]) /\ s2[t] = Executed(s2[t - 1], d[t])
  BY <1>0, <1>1, <1>2 DEF After
<1>5. /\ \A k \in 0 .. Len(c) : IsState(s[k]) /\ IsState(s2[k])
      /\ \A k \in 1 .. Len(c) : HasShape(c[k]) /\ HasShape(d[k])
  BY RunStates DEF AreShaped
<1>. DEFINE x == c[m]
            y == c[t]
            z == d[t]
            s0 == s[m - 1]
            n == Cardinality(EffectsIn(e))
            X == Events(e, Value(e, s0), s0.effects)
            w == Whole(y)
            at == ReadsAt(w, r)
<1>6. HasShape(x) /\ HasShape(y) /\ HasShape(z) /\ IsState(s0)
  BY <1>0, <1>5
<1>7. Whole(x) = e /\ IsExpression(e)
  BY <1>2, <1>6, WholeOf
<1>8. x.type = "assign" /\ Full(x) /\ s[m] = Executed(s0, x) /\ s2[m] = s0 /\ x.definitions = {r}
  BY <1>0, <1>2, <1>3, <1>4
<1>9. Fits(y, o, r, e, z)
  BY <1>2
<1>. HIDE DEF x, y, z, s0
<1>10. /\ Apart(Executed(s0, x), s0, x.definitions, 0, 0, n, X)
       /\ Executed(s0, x).env[r] = Value(e, s0)
  <2>1. /\ Apart(Executed(s0, x), s0, x.definitions, 0, 0, Cardinality(EffectsIn(Whole(x))),
                 Events(Whole(x), Value(Whole(x), s0), s0.effects))
        /\ \A q \in Reg : q \in x.definitions => Executed(s0, x).env[q] = Value(Whole(x), s0)
    BY <1>6, <1>8, ApartTaken
  <2>. QED  BY <1>7, <1>8, <2>1
<1>11. n \in Nat
  BY <1>7, EffectsFinite DEF IsExpression
<1>. HIDE DEF n, X
<1>. DEFINE D == [k \in Nat |-> {r}]
<1>12. Apart(s[m], s2[m], D[m], 0, 0, n, X)
  BY <1>0, <1>8, <1>10
<1>13. Unmoving(c, d, D, m, t - 1, 0, 0, n)
  <2>. SUFFICES ASSUME NEW k \in m + 1 .. t - 1
                PROVE  /\ Alike(c[k], d[k])
                       /\ c[k].deleted => D[k - 1] \subseteq D[k]
                       /\ ~c[k].deleted =>
                            /\ D[k - 1] \ c[k].definitions \subseteq D[k]
                            /\ Unmoved(c[k], Run(d)[k - 1], D[k - 1], 0, 0, n)
    BY DEF Unmoving
  <2>1. k \in Nat /\ k - 1 \in Nat
    BY <1>0
  <2>2. Alike(c[k], d[k])
    BY <1>2 DEF AreAlike
  <2>3. D[k] = {r} /\ D[k - 1] = {r}
    BY <2>1
  <2>4. /\ ~c[k].deleted /\ r \notin Used(c[k])
        /\ HasCall(e) => EffectsIn(Whole(c[k])) = {} /\ ~ReadsMemory(Whole(c[k]))
    BY <1>2 DEF Passed
  <2>5. n # 0 => HasCall(e)
    <3>1. EffectsIn(e) = {} => n = 0
      BY FS_EmptySet DEF n
    <3>. QED  BY <1>7, <3>1, OnlyCalls
  <2>6. Unmoved(c[k], Run(d)[k - 1], {r}, 0, 0, n)
    BY <2>4, <2>5 DEF Unmoved
  <2>. QED  BY <2>2, <2>3, <2>6
<1>14. Apart(s[t - 1], s2[t - 1], {r}, 0, 0, n, X)
  <2>. HIDE DEF D
  <2>1. \A k \in m .. t - 1 : Apart(s[k], s2[k], D[k], 0, 0, n, X)
    <3>1. Apart(Run(c)[m], Run(d)[m], D[m], 0, 0, n, X)
      BY <1>12
    <3>2. \A k \in m .. t - 1 : Apart(Run(c)[k], Run(d)[k], D[k], 0, 0, n, X)
      BY <1>0, <1>11, <1>13, <3>1, ApartOn
    <3>. QED  BY <3>2
  <2>2. D[t - 1] = {r}
    BY <1>0 DEF D
  <2>. QED  BY <1>0, <2>1, <2>2
<1>15. at = ReadsAt(w, r) /\ Mergeable(w, at, e)
  BY <1>6, <1>7, <1>9, WholeGrafted
<1>16. \A q \in RegistersOf(w) : q # r => s2[t - 1].env[q] = s[t - 1].env[q]
  BY <1>14 DEF Apart, RegistersOf
<1>17. \A q \in RegistersOf(e) : s2[t - 1].env[q] = s0.env[q]
  <2>. SUFFICES ASSUME NEW q \in RegistersOf(e) PROVE s2[t - 1].env[q] = s2[m - 1].env[q]
    BY <1>0, <1>3 DEF s0
  <2>1. q \in Reg
    BY DEF RegistersOf
  <2>2. ASSUME NEW k \in (m - 1) + 1 .. t - 1, ~d[k].deleted PROVE q \notin d[k].definitions
    <3>1. k # m
      BY <1>2, <2>2
    <3>2. k \in m + 1 .. t - 1
      BY <1>0, <3>1
    <3>3. d[k].definitions = c[k].definitions
      BY <1>2, <3>2 DEF AreAlike, Alike
    <3>. QED  BY <1>2, <3>2, <3>3 DEF Passed
  <2>3. \A k \in m - 1 .. t - 1 : Run(d)[k].env[q] = Run(d)[m - 1].env[q]
    BY <1>0, <2>1, <2>2, EnvKept
  <2>. QED  BY <1>0, <2>3
<1>18. s[t - 1].env[r] = Value(e, s0)
  <2>. HIDE DEF D, w, at
  <2>1. ASSUME NEW k \in m + 1 .. t - 1, ~c[k].deleted PROVE r \notin c[k].definitions
    BY <1>2 DEF Passed
  <2>. DEFINE b == t - 1
  <2>3. m \in 0 .. Len(c) /\ b \in m .. Len(c) /\ \A k \in m + 1 .. b : ~c[k].deleted => r \notin c[k].definitions
    BY <1>0, <2>1
  <2>. HIDE DEF b
  <2>2. \A k \in m .. b : Run(c)[k].env[r] = Run(c)[m].env[r]
    BY <2>3, EnvKept
  <2>. USE DEF b
  <2>. QED  BY <1>0, <1>8, <1>10, <2>2
<1>19. s[t - 1].effects = s2[t - 1].effects + n
  BY <1>14 DEF Apart
<1>20. ASSUME HasCall(e) \/ ReadsMemory(e) PROVE s2[t - 1].effects = s0.effects
  <2>1. ASSUME NEW k \in (m - 1) + 1 .. t - 1, ~d[k].deleted PROVE EffectsIn(Whole(d[k])) = {}
    <3>1. k # m
      BY <1>2, <2>1
    <3>2. k \in m + 1 .. t - 1
      BY <1>0, <3>1
    <3>3. Alike(c[k], d[k])
      BY <1>2, <3>2 DEF AreAlike
    <3>4. Whole(d[k]) = Whole(c[k])
      BY <3>3, AlikeSame
    <3>5. EffectsIn(Whole(c[k])) = {}
      BY <1>2, <1>20, <3>2 DEF Passed
    <3>. QED  BY <3>4, <3>5
  <2>2. \A k \in m - 1 .. t - 1 : Run(d)[k].effects = Run(d)[m - 1].effects
    BY <1>0, <2>1, EffectsKept
  <2>. QED  BY <1>0, <1>3, <2>2 DEF s0
<1>21. Merged(w, at, r, e, s[t - 1], s2[t - 1], s0)
  <2>. HIDE DEF w, at
  <2>. QED  BY <1>15, <1>16, <1>17, <1>18, <1>19, <1>20 DEF Merged, n, at
<1>. QED  BY <1>4, <1>14, <1>21 DEF Rejoins, n, X, s0, w, at, y

LEMMA MovedChange ==
  ASSUME NEW c, AreShaped(c), NEW d, AreShaped(d), Len(d) = Len(c), NEW out \in SUBSET Reg,
         NEW m \in 1 .. Len(c), NEW t \in m + 1 .. Len(c), NEW o, NEW r \in Reg, NEW e,
         Moves(c, d, m, t, o, r, e), Dead(c, r, m, t, out)
  PROVE  Meaning(d, out) = Meaning(c, out)
<1>. DEFINE s == Run(c)
            s2 == Run(d)
            y == c[t]
            z == d[t]
            p == s[t - 1]
            p2 == s2[t - 1]
            s0 == s[m - 1]
<1>0. /\ Len(c) \in Nat /\ m \in Nat /\ t \in Nat /\ m < t /\ t <= Len(c)
      /\ m - 1 \in 0 .. Len(c) /\ t - 1 \in 0 .. Len(c) /\ t \in 1 .. Len(c) /\ t \in m .. Len(c)
  BY DEF AreShaped
<1>1. /\ s[t] = Executed(p, y) /\ s2[t] = Executed(p2, z)
      /\ Apart(p, p2, {r}, 0, 0, Cardinality(EffectsIn(e)), Events(e, Value(e, s0), s0.effects))
      /\ Merged(Whole(y), ReadsAt(Whole(y), r), r, e, p, p2, s0)
  <2>. HIDE DEF s, s2
  <2>1. s = Run(c) /\ s2 = Run(d)
    BY DEF s, s2
  <2>2. Rejoins(c, d, s, s2, m, t, r, e)
    BY <2>1, MovedRun
  <2>. QED  BY <2>2 DEF Rejoins
<1>2. IsState(p) /\ IsState(p2) /\ IsState(s0)
  BY <1>0, RunStates
<1>3. HasShape(y) /\ HasShape(z) /\ HasShape(c[m])
  BY <1>0 DEF AreShaped
<1>4. /\ Fits(y, o, r, e, z) /\ z.definitions = y.definitions
      /\ z.params = y.params /\ z.collected = y.collected
      /\ Passed(c, m, t, r, e) /\ AreAlike(c, d, t, Len(c))
      /\ c[m].type = "assign" /\ e = c[m].operands[2]
  BY DEF Moves
<1>5. IsExpression(e)
  BY <1>3, <1>4, WholeOf
<1>. HIDE DEF s, s2, y, z, p, p2, s0
<1>6. Apart(Executed(p, y), Executed(p2, z), {r} \ y.definitions, 0, 0, 0, {})
  BY <1>1, <1>2, <1>3, <1>4, <1>5, ExecutedMerged
<1>7. {r} \ y.definitions \subseteq Stale(c, r, m, t)
  <2>. SUFFICES ASSUME r \notin y.definitions, NEW l \in m + 1 .. t, r \in c[l].definitions PROVE FALSE
    BY DEF Stale
  <2>1. CASE l = t
    BY <2>1 DEF y
  <2>2. CASE l # t
    <3>1. l \in m + 1 .. t - 1
      BY <1>0, <2>2
    <3>. QED  BY <1>4, <3>1 DEF Passed
  <2>. QED  BY <2>1, <2>2
<1>8. Apart(Run(c)[t], Run(d)[t], Stale(c, r, m, t), 0, 0, 0, {})
  <2>1. Apart(s[t], s2[t], {r} \ y.definitions, 0, 0, 0, {})
    BY <1>1, <1>6
  <2>. QED  BY <1>7, <2>1, ApartIn DEF s, s2
<1>. QED  BY <1>0, <1>4, <1>8, DeadMeans

(* The instruction something is moved into. *)
LEMMA GraftedRegisters ==
  ASSUME NEW w, IsTerm(w), NEW e, IsTerm(e), NEW r, NEW at \in SUBSET ReadsAt(w, r)
  PROVE  RegistersOf(Grafted(w, at, e)) \subseteq RegistersOf(w) \cup RegistersOf(e)
<1>. DEFINE g == Grafted(w, at, e)
<1>1. /\ at \subseteq DOMAIN w /\ AreLeaves(w, at) /\ at \subseteq Path
      /\ \A q \in DOMAIN g : q \in DOMAIN w \ at \/ \E p \in at : \E s \in DOMAIN e : q = p \o s
      /\ \A q \in DOMAIN w \ at : q \in DOMAIN g /\ g[q] = w[q]
      /\ \A p \in at : \A s \in DOMAIN e : p \o s \in DOMAIN g /\ g[p \o s] = e[s]
      /\ DOMAIN g \subseteq Path /\ IsMap(g)
  BY TermGrafted
<1>. HIDE DEF g
<1>. SUFFICES ASSUME NEW x \in RegistersOf(g) PROVE x \in RegistersOf(w) \cup RegistersOf(e)
  BY DEF g
<1>2. x \in Reg /\ \E q \in DOMAIN g : g[q] = Register(x)
  BY DEF RegistersOf, ReadsAt
<1>3. PICK q \in DOMAIN g : g[q] = Register(x)
  BY <1>2
<1>4. CASE q \in DOMAIN w \ at
  <2>1. q \in ReadsAt(w, x)
    BY <1>1, <1>3, <1>4 DEF ReadsAt
  <2>. QED  BY <1>2, <2>1 DEF RegistersOf
<1>5. CASE \E p \in at : \E s \in DOMAIN e : q = p \o s
  <2>1. PICK p \in at, s \in DOMAIN e : q = p \o s
    BY <1>5
  <2>2. s \in ReadsAt(e, x)
    BY <1>1, <1>3, <2>1 DEF ReadsAt
  <2>. QED  BY <1>2, <2>2 DEF RegistersOf
<1>. QED  BY <1>1, <1>4, <1>5

LEMMA MergedShape ==
  ASSUME NEW a, HasShape(a), NEW o \in UsedOperands(a), NEW e, IsExpression(e), NEW r \in Reg,
         ReadsAt(a.operands[o], r) # {}, NEW at \in SUBSET ReadsAt(a.operands[o], r),
         NEW y, y.type = a.type, y.params = a.params, y.collected = a.collected,
         y.definitions = a.definitions, y.operands = [a.operands EXCEPT ![o] = Grafted(a.operands[o], at, e)]
  PROVE  HasShape(y) /\ Used(y) \subseteq Used(a) \cup RegistersOf(e)
<1>. DEFINE w == a.operands[o]
            g == Grafted(w, at, e)
<1>1. o \in DOMAIN a.operands /\ IsTerm(w) /\ IsExpression(w) /\ IsTerm(e)
      /\ a.type # "pop" /\ (a.type = "assign" => o = 2)
      /\ UsedOperands(a) \subseteq DOMAIN a.operands
  <2>1. UsedOperands(a) \subseteq DOMAIN a.operands /\ a.type # "pop" /\ (a.type = "assign" => o = 2)
    BY OperandsAre
  <2>2. o \in DOMAIN a.operands
    BY <2>1
  <2>. QED  BY <2>1, <2>2, OperandsAre DEF IsExpression
<1>2. IsExpression(g) /\ RegistersOf(g) \subseteq RegistersOf(w) \cup RegistersOf(e)
  BY <1>1, GraftedTerm, GraftedRegisters
<1>3. ~(a.params # 0 /\ ~a.collected)
  <2>. SUFFICES ASSUME a.params # 0 /\ ~a.collected PROVE FALSE
    OBVIOUS
  <2>1. a.type = "assign" /\ Whole(a) = a.operands[2] /\ RegistersOf(Whole(a)) = {}
    BY Uncollected
  <2>2. RegistersOf(w) = {}
    BY <1>1, <2>1
  <2>. QED  BY <2>2 DEF RegistersOf
<1>. HIDE DEF g
<1>4. /\ DOMAIN y.operands = DOMAIN a.operands
      /\ \A q \in DOMAIN a.operands : y.operands[q] = IF q = o THEN g ELSE a.operands[q]
  BY <1>1 DEF g
<1>5. Arity(y) = Arity(a)
  BY DEF Arity
<1>6. \A q \in DOMAIN y.operands : IsExpression(y.operands[q])
  BY <1>2, <1>4, OperandsAre
<1>7. HasShape(y)
  BY <1>1, <1>3, <1>4, <1>5, <1>6 DEF HasShape
<1>8. UsedOperands(y) = UsedOperands(a)
  BY DEF UsedOperands
<1>9. ASSUME NEW x \in Used(y) PROVE x \in Used(a) \cup RegistersOf(e)
  <2>1. PICK q \in UsedOperands(a) : x \in RegistersOf(y.operands[q])
    BY <1>8 DEF Used
  <2>2. q \in DOMAIN a.operands
    BY <1>1
  <2>3. x \in RegistersOf(a.operands[q]) \cup RegistersOf(e)
    BY <1>2, <1>4, <2>1, <2>2
  <2>. QED  BY <2>3 DEF Used
<1>. QED  BY <1>7, <1>9

LEMMA ReplaceUseProgram ==
  ASSUME IInv, ProgramInv, ReplaceUseWithDefinition
  PROVE  ProgramInv'
<1>1. AtItem("instruction") /\ item' = item + 1 /\ phase' = "definitions"
      /\ UNCHANGED <<cut, liveOut, stack, meaning>>
  BY Zenon DEF ReplaceUseWithDefinition
<1>2. PICK r \in Reg, t \in Item : \E o \in UsedOperands(code[t]) :
        /\ Movable(r, t)
        /\ Replaces(o, r, t)
        /\ LET e == code[item].operands[2]
               at == Replaced(code[t].operands[o], r)
           IN  /\ code' = [code EXCEPT
                    ![t].operands[o] = Substitute(@, [p \in at |-> e]),
                    ![t].uses = NewUses(r, t),
                    ![t].last = @ \cup code[item].last,
                    ![item].deleted = TRUE]
               /\ careless' = (careless \/ MoveIsCareless(r, t, o))
  BY Zenon DEF ReplaceUseWithDefinition
<1>3. PICK o \in UsedOperands(code[t]) :
        /\ Movable(r, t)
        /\ Replaces(o, r, t)
        /\ LET e == code[item].operands[2]
               at == Replaced(code[t].operands[o], r)
           IN  /\ code' = [code EXCEPT
                    ![t].operands[o] = Substitute(@, [p \in at |-> e]),
                    ![t].uses = NewUses(r, t),
                    ![t].last = @ \cup code[item].last,
                    ![item].deleted = TRUE]
               /\ careless' = (careless \/ MoveIsCareless(r, t, o))
  BY <1>2
<1>. DEFINE c == code[item]
            e == c.operands[2]
            a == code[t]
            at == Replaced(a.operands[o], r)
            new == Grafted(a.operands[o], at, e)
            m == item - 1
<1>4. /\ phase = "instruction" /\ item \in Item /\ Item = 1 .. Len(code) /\ Len(code) \in Nat
      /\ item \in Nat /\ ~c.deleted /\ IsList(code, Len(code))
      /\ IsInstruction(c) /\ IsInstruction(a)
  BY <1>1, AtItemIs, SMTT(30) DEF IInv, ListInv
<1>5. c.type = "assign" /\ c.chain = {<<r, t>>} /\ ~NeededLater(item, r)
  BY <1>3 DEF Movable
<1>6. /\ AreShaped(code) /\ m \in Nat /\ m + 1 = item /\ ArePlaces(stack, m) /\ cut \in Item
      /\ HasShape(c) /\ HasShape(a)
      /\ \A k \in Item : k >= item => ~code[k].deleted
  BY <1>4, Ready DEF ProgramInv, ShapeInv
<1>7. Known(item)
  BY <1>4 DEF ProgramInv, KnownInv
<1>8. r \in c.definitions /\ t \in Reached(item, r)
  <2>1. <<r, t>> \in c.chain /\ <<r, t>>[1] = r /\ <<r, t>>[2] = t
    BY <1>5
  <2>. QED  BY <1>7, <2>1 DEF Known
<1>9. /\ t > item /\ t # item /\ t \in Nat /\ t <= EndOfNode(item)
      /\ \A l \in item + 1 .. t - 1 : r \notin code[l].definitions
  <2>1. t \in item + 1 .. EndOfNode(item) /\ \A l \in item + 1 .. t - 1 : r \notin code[l].definitions
        /\ EndOfNode(item) \in Item
    BY <1>4, <1>8, ReachedIs DEF ProgramInv
  <2>. QED  BY <1>4, <2>1
<1>10. c.definitions = {r}
  BY <1>6, <1>8 DEF HasShape
<1>. DEFINE y == [a EXCEPT !.operands = [a.operands EXCEPT ![o] = new],
                           !.uses = NewUses(r, t), !.last = a.last \cup c.last]
            z == [c EXCEPT !.deleted = TRUE]
<1>11. \A k \in Item : code'[k] = IF k = item THEN z ELSE IF k = t THEN y ELSE code[k]
  <2>1. code' = [code EXCEPT ![t] = y, ![item].deleted = TRUE]
    BY <1>3 DEF Grafted
  <2>. HIDE DEF y
  <2>2. code' = [code EXCEPT ![t] = y, ![item] = z]
    BY <1>4, <1>9, <2>1 DEF IsList
  <2>. HIDE DEF z
  <2>. QED  BY <1>4, <1>9, <2>2 DEF IsList
<1>12. Item' = Item /\ Len(code') = Len(code)
  <2>1. DOMAIN code' = DOMAIN code
    BY <1>3
  <2>2. DOMAIN code' = 1 .. Len(code)
    BY <1>4, <2>1, SMTT(30)
  <2>. QED  BY <1>4, <2>1, <2>2 DEF Item
<1>13. /\ at \in SUBSET ReadsAt(a.operands[o], r)
       /\ ReadsAt(a.operands[o], r) # {}
  BY <1>3 DEF Replaced, Replaces
<1>. HIDE DEF c, a, new, at
<1>14. /\ y.type = a.type /\ y.operands = [a.operands EXCEPT ![o] = new] /\ y.params = a.params
       /\ y.definitions = a.definitions /\ y.chain = a.chain /\ y.deleted = a.deleted
       /\ y.collected = a.collected /\ a.last \subseteq y.last
       /\ z.type = c.type /\ z.operands = c.operands /\ z.params = c.params
       /\ z.definitions = c.definitions /\ z.collected = c.collected /\ z.deleted
  BY <1>4 DEF IsInstruction, Fields
<1>15. IsExpression(e)
  BY <1>5, <1>6, WholeOf
<1>. HIDE DEF y, z, m, e
<1>16. HasShape(z) /\ HasShape(y) /\ Used(y) \subseteq Used(a) \cup RegistersOf(e)
  <2>1. HasShape(z)
    BY <1>6, <1>14 DEF HasShape, Arity
  <2>2. y.operands = [a.operands EXCEPT ![o] = Grafted(a.operands[o], at, e)]
    BY <1>14 DEF new
  <2>3. o \in UsedOperands(a)
    BY DEF a
  <2>. QED  BY <1>6, <1>13, <1>14, <1>15, <2>1, <2>2, <2>3, MergedShape
<1>17. code'[item] = z /\ code'[t] = y /\ \A k \in Item : k # item /\ k # t => code'[k] = code[k]
  BY <1>4, <1>9, <1>11
<1>18. \A k \in Item : HasShape(code'[k])
  BY <1>16, <1>17 DEF ProgramInv, ShapeInv
<1>19. AreShaped(code')
  BY <1>4, <1>12, <1>18 DEF AreShaped
<1>20. \A k \in Item : k # item /\ k # t => Alike(code[k], code'[k]) /\ Used(code'[k]) = Used(code[k])
  BY <1>17 DEF Alike
<1>21. /\ AreAlike(code, code', 0, item - 1) /\ AreAlike(code, code', item, t - 1)
       /\ AreAlike(code, code', t, Len(code))
       /\ ~careless => StackMatches(Run(code'), code', stack, m)
  <2>1. \A k \in Item : k < item => Alike(code[k], code'[k])
    BY <1>4, <1>9, <1>20
  <2>2. \A k \in item + 1 .. t - 1 : k \in Item /\ k # item /\ k # t
    BY <1>4, <1>9
  <2>3. \A k \in t + 1 .. Len(code) : k \in Item /\ k # item /\ k # t
    BY <1>4, <1>9
  <2>4. AreAlike(code, code', item, t - 1) /\ AreAlike(code, code', t, Len(code))
    BY <1>20, <2>2, <2>3 DEF AreAlike
  <2>. QED  BY <1>4, <1>12, <2>1, <2>4, RunBehind DEF m
<1>22. \A k \in item + 1 .. t - 1 : k \in Item /\ k > item /\ k # t /\ ~code[k].deleted
  BY <1>4, <1>6, <1>9
<1>23. ~careless' => ~careless /\ ~MoveIsCareless(r, t, o)
  BY <1>3, Zenon
<1>24. ASSUME ~careless', NEW k \in item + 1 .. t - 1 PROVE ~Disturbs(k, e)
  BY <1>23, <1>24 DEF MoveIsCareless, e, c
<1>25. ASSUME ~careless'
       PROVE  /\ \A q \in UsedOperands(a) : ReadsAt(a.operands[q], r) = (IF q = o THEN at ELSE {})
              /\ ~(HasCall(e) /\ Cardinality(at) > 1)
              /\ ~((HasCall(e) \/ ReadsMemory(e)) /\ NestedCall(Apply(Dummy, a.operands)))
  <2>. HIDE DEF Dummy
  <2>. QED  BY <1>23, <1>25, Zenon DEF MoveIsCareless, e, c, a, at
<1>26. CarefulMeansSameProgram'
  <2>. SUFFICES ASSUME ~careless' PROVE Meaning(code', liveOut[2]) = meaning
    BY <1>1 DEF CarefulMeansSameProgram
  <2>1. Passed(code, item, t, r, e)
    <3>. SUFFICES ASSUME NEW k \in item + 1 .. t - 1
                  PROVE  /\ ~code[k].deleted /\ r \notin Used(code[k]) /\ r \notin code[k].definitions
                         /\ code[k].definitions \cap RegistersOf(e) = {}
                         /\ HasCall(e) \/ ReadsMemory(e) => EffectsIn(Whole(code[k])) = {}
                         /\ HasCall(e) => ~ReadsMemory(Whole(code[k]))
      BY DEF Passed
    <3>1. ~code[k].deleted /\ r \notin code[k].definitions /\ k \in Item /\ k # t
      BY <1>9, <1>22
    <3>2. r \notin Used(code[k])
      <4>1. k \in item + 1 .. EndOfNode(item) /\ \A l \in item + 1 .. k - 1 : l \in item + 1 .. t - 1
        <5>1. EndOfNode(item) \in Item
          BY <1>4, ReachedIs DEF ProgramInv
        <5>. QED  BY <1>4, <1>9, <5>1
      <4>2. k \in Reached(item, r)
        BY <1>9, <4>1 DEF Reached
      <4>3. r \in Used(code[k]) => <<r, k>> \in c.chain
        BY <1>7, <1>8, <1>23, <4>2 DEF Known, c
      <4>. QED  BY <1>5, <3>1, <4>3
    <3>3. /\ code[k].definitions \cap RegistersOf(e) = {}
          /\ HasCall(e) \/ ReadsMemory(e) => EffectsIn(Whole(code[k])) = {}
          /\ HasCall(e) => ~ReadsMemory(Whole(code[k]))
      BY <1>24, <3>1, Zenon DEF Disturbs
    <3>. QED  BY <3>1, <3>2, <3>3
  <2>2. Fits(a, o, r, e, y)
    <3>1. at = ReadsAt(a.operands[o], r) /\ o \in UsedOperands(a)
          /\ \A q \in UsedOperands(a) : q # o => ReadsAt(a.operands[q], r) = {}
      BY <1>25 DEF a
    <3>2. /\ HasCall(e) => ~(Cardinality(ReadsAt(a.operands[o], r)) > 1)
          /\ HasCall(e) \/ ReadsMemory(e) => ~NestedCall(Apply(Dummy, a.operands))
      BY <1>25, <3>1, Zenon
    <3>3. y.operands = [a.operands EXCEPT ![o] = Grafted(a.operands[o], ReadsAt(a.operands[o], r), e)]
      BY <1>14, <3>1 DEF new
    <3>. QED  BY <1>13, <1>14, <3>1, <3>2, <3>3, Zenon DEF Fits
  <2>3. Full(c)
    BY <1>4 DEF ProgramInv, FullInv, c
  <2>4. Moves(code, code', item, t, o, r, e)
    <3>1. /\ code[item] = c /\ code[t] = a /\ code'[item] = z /\ code'[t] = y /\ e = c.operands[2]
      BY <1>17 DEF c, a, e
    <3>2. ~a.deleted
      BY <1>6, <1>9 DEF a
    <3>. QED  BY <1>4, <1>5, <1>10, <1>14, <1>21, <2>1, <2>2, <2>3, <3>1, <3>2, Zenon DEF Moves
  <2>5. Dead(code, r, item, t, liveOut[2])
    <3>1. \A j \in Item : j > t => <<r, j>> \notin c.chain
      BY <1>5, <1>9
    <3>2. t \in item .. Len(code)
      BY <1>4, <1>9
    <3>. QED  BY <1>4, <1>5, <1>8, <1>23, <3>1, <3>2, NotNeeded DEF c
  <2>6. liveOut[2] \in SUBSET Reg
    BY DEF ProgramInv, NodeInv
  <2>7. item \in 1 .. Len(code) /\ t \in item + 1 .. Len(code)
    BY <1>4, <1>9
  <2>8. Meaning(code', liveOut[2]) = Meaning(code, liveOut[2])
    BY <1>6, <1>12, <1>19, <2>4, <2>5, <2>6, <2>7, MovedChange
  <2>. QED  BY <1>23, <2>8 DEF ProgramInv, CarefulMeansSameProgram
<1>27. FullInv'
  <2>1. \A k \in Item : k < item' => k = item \/ k < item
    BY <1>1, <1>4
  <2>2. ASSUME NEW k \in Item, ~code'[k].deleted, k < item' PROVE Full(code'[k])
    <3>1. k # item
      BY <1>14, <1>17, <2>2
    <3>2. k < item /\ k # t
      BY <1>4, <1>9, <2>1, <2>2, <3>1
    <3>3. code'[k] = code[k]
      BY <1>17, <3>1, <3>2
    <3>. QED  BY <1>4, <2>2, <3>2, <3>3 DEF ProgramInv, FullInv
  <2>. QED  BY <1>1, <1>12, <2>2 DEF FullInv
<1>28. StackRun'
  <2>. SUFFICES ASSUME ~careless' PROVE StackMatches(Run(code'), code', stack, item)
    <3>1. item' - 1 = item
      BY <1>1, <1>4
    <3>. QED  BY <1>1, <3>1 DEF StackRun
  <2>1. StackMatches(Run(code'), code', stack, m)
    BY <1>21, <1>23
  <2>2. Run(code')[item] = Run(code')[item - 1]
    <3>1. item \in 1 .. Len(code')
      BY <1>4, <1>12
    <3>2. Run(code')[item] = After(Run(code')[item - 1], code'[item])
      BY <1>4, <1>12, <3>1, RunIs
    <3>. QED  BY <1>14, <1>17, <3>2 DEF After
  <2>3. Run(code')[m + 1].stack = Run(code')[m].stack
    BY <1>6, <2>2 DEF m
  <2>4. StackMatches(Run(code'), code', stack, m + 1)
    BY <1>6, <2>1, <2>3, SameMatch
  <2>. QED  BY <1>6, <2>4
<1>29. \A k \in Item : k > item => k # item
  BY <1>4
<1>30. \A k \in Item : k > item =>
           /\ code'[k].definitions = code[k].definitions /\ code'[k].chain = code[k].chain
           /\ code[k].last \subseteq code'[k].last
  BY <1>14, <1>17, <1>29 DEF a
<1>31. item <= cut => \A k \in Item : k > cut => code'[k].uses = code[k].uses /\ Used(code'[k]) = Used(code[k])
  <2>. SUFFICES ASSUME item <= cut, NEW k \in Item, k > cut
                PROVE  code'[k].uses = code[k].uses /\ Used(code'[k]) = Used(code[k])
    OBVIOUS
  <2>1. t <= cut
    BY <1>9 DEF EndOfNode
  <2>2. k # item /\ k # t
    BY <1>4, <1>6, <1>9, <2>1
  <2>. QED  BY <1>17, <2>2
<1>32. ASSUME ~careless', NEW k \in Item, k > item, NEW x \in code[k].definitions, NEW j \in Reached(k, x),
              x \in Used(code'[j])
       PROVE  x \in Used(code[j])
  <2>1. j \in Item /\ j > k
    BY <1>32, ReachedIs DEF ProgramInv
  <2>2. j # item
    BY <1>4, <1>32, <2>1
  <2>3. CASE j = t
    <3>1. x \in Used(a) \cup RegistersOf(e)
      BY <1>16, <1>17, <1>32, <2>3
    <3>2. k \in item + 1 .. t - 1
      BY <1>4, <1>32, <2>1, <2>3
    <3>3. x \notin RegistersOf(e)
      BY <1>22, <1>24, <1>32, <3>2 DEF Disturbs
    <3>. QED  BY <2>3, <3>1, <3>3 DEF a
  <2>4. CASE j # t
    BY <1>17, <1>32, <2>1, <2>2, <2>4
  <2>. QED  BY <2>3, <2>4
<1>33. item' \in Nat /\ item <= item' /\ item' # item /\ phase # "chains" /\ phase' # "chains"
  BY <1>1, <1>4
<1>. QED  BY <1>1, <1>4, <1>12, <1>18, <1>23, <1>26, <1>27, <1>28, <1>30, <1>31, <1>32, <1>33, StepProgram

-----------------------------------------------------------------------------
(***************************************************************************)
(* A call gets its parameters: the last m of the PUSHes at the places st,  *)
(* which are not executed any more.                                        *)
(***************************************************************************)
Pushed(c, st, j) == c[st[j]].operands[1]
IsTaken(st, m, k) == \E j \in 1 .. m : st[j] = k

(* The PUSHes met before place i. *)
PushesAt(c, st, i) ==
  /\ ArePlaces(st, i - 1)
  /\ \A j \in 1 .. Len(st) :
       c[st[j]].type = "push" /\ ~c[st[j]].deleted /\ \A l \in 1 .. j - 1 : st[l] > st[j]
  /\ \A k \in 1 .. i - 1 : ~c[k].deleted => Full(c[k])
  /\ StackMatches(Run(c), c, st, i - 1)

(* Nothing that stays disturbs what is taken; K is the one with a call. *)
Undisturbed(c, st, i, m, K) ==
  /\ K \in 1 .. m /\ \A j \in 1 .. m : j # K => EffectsIn(Pushed(c, st, j)) = {}
  /\ \A j \in 1 .. m : \A k \in st[j] + 1 .. i - 1 : ~c[k].deleted =>
       /\ c[k].definitions \cap RegistersOf(Pushed(c, st, j)) = {}
       /\ HasCall(Pushed(c, st, j)) \/ ReadsMemory(Pushed(c, st, j)) => EffectsIn(Whole(c[k])) = {}
       /\ HasCall(Pushed(c, st, j)) /\ ~IsTaken(st, m, k) => ~ReadsMemory(Whole(c[k]))

Gathers(c, d, st, i, m) ==
  /\ \A k \in 1 .. i - 1 : IF IsTaken(st, m, k) THEN d[k].deleted ELSE Alike(c[k], d[k])
  /\ AreAlike(c, d, i, Len(c))
  /\ ~c[i].deleted /\ ~d[i].deleted /\ c[i].type = "assign" /\ d[i].type = "assign"
  /\ c[i].params # 0 /\ ~c[i].collected /\ d[i].collected /\ d[i].definitions = c[i].definitions
  /\ ParametersTaken(c[i].params, Len(st)) = m
  /\ d[i].operands[2] = Apply(c[i].operands[2][<<>>], [j \in 1 .. m |-> Pushed(c, st, j)])

(* A PUSH puts its operand on the stack. *)
PushedAt(c, st, s, j) ==
  LET p == st[j]
      e == Pushed(c, st, j) IN
  /\ p \in Nat /\ p - 1 \in Nat /\ p >= 1 /\ IsExpression(e) /\ c[p].definitions = {} /\ Whole(c[p]) = e
  /\ s[p].stack = <<Value(e, s[p - 1])>> \o s[p - 1].stack /\ DOMAIN Value(e, s[p - 1]) \subseteq Path
  /\ Len(s[p - 1].stack) = Len(st) - j
  /\ s[p].effects = s[p - 1].effects + Cardinality(EffectsIn(e))
  /\ s[p].events = s[p - 1].events \cup Events(e, Value(e, s[p - 1]), s[p - 1].effects)
  /\ \A r \in Reg : s[p].env[r] = s[p - 1].env[r]

LEMMA PushedIs ==
  ASSUME NEW c, AreShaped(c), NEW i \in 1 .. Len(c), NEW st, PushesAt(c, st, i),
         NEW j \in 1 .. Len(st), NEW s, s = Run(c)
  PROVE  PushedAt(c, st, s, j) /\ st[j] \in 1 .. i - 1
<1>. DEFINE p == st[j]
            x == c[p]
            t == s[p - 1]
            e == x.operands[1]
<1>0. Len(c) \in Nat /\ i \in Nat /\ i <= Len(c) /\ Len(st) \in Nat /\ j \in Nat
      /\ p \in 1 .. i - 1
  <2>1. st \in Seq(1 .. i - 1)
    BY DEF PushesAt, ArePlaces
  <2>. QED  BY <2>1 DEF AreShaped
<1>1. /\ p \in Nat /\ p >= 1 /\ p - 1 \in 0 .. Len(c) /\ p \in 1 .. Len(c) /\ p - 1 \in Nat
  BY <1>0
<1>2. IsState(t) /\ HasShape(x)
  BY <1>1, RunStates DEF AreShaped
<1>3. x.type = "push" /\ ~x.deleted /\ Full(x)
  BY <1>0 DEF PushesAt
<1>4. s[p] = After(t, x)
  BY <1>0, <1>1, RunIs
<1>5. Len(s[p].stack) = Len(st) - j + 1
  BY DEF PushesAt, StackMatches, OnStack
<1>. HIDE DEF t, x, p
<1>6. s[p] = Executed(t, x)
  BY <1>3, <1>4 DEF After
<1>7. Whole(x) = e /\ IsExpression(e)
  BY <1>2, <1>3, WholeOf
<1>8. x.definitions = {}
  BY <1>2, <1>3 DEF HasShape
<1>. HIDE DEF e
<1>9. Computed(t, x) = Value(e, t) /\ StackAfter(t, x) = <<Value(e, t)>> \o t.stack
  BY <1>2, <1>3, <1>7, FullComputed
<1>10. /\ \A r \in Reg : r \notin x.definitions => s[p].env[r] = t.env[r]
       /\ s[p].stack = StackAfter(t, x)
       /\ s[p].effects = t.effects + Cardinality(EffectsIn(Whole(x)))
       /\ s[p].events = t.events \cup Events(Whole(x), Computed(t, x), t.effects)
  BY <1>6, ExecutedIs
<1>11. DOMAIN Value(e, t) \subseteq Path
  BY <1>2, <1>7, ValueIs DEF IsState, IsExpression
<1>12. Len(t.stack) = Len(st) - j
  <2>1. IsStack(t.stack)
    BY <1>2 DEF IsState
  <2>2. Len(s[p].stack) = Len(t.stack) + 1 /\ Len(t.stack) \in Nat
    BY <1>9, <1>10, <1>11, <2>1, StackPushed DEF IsStack
  <2>. QED  BY <1>0, <1>5, <2>2, SMTT(30)
<1>13. Pushed(c, st, j) = e
  BY DEF Pushed, e, x, p
<1>14. PushedAt(c, st, s, j)
  BY <1>1, <1>7, <1>8, <1>9, <1>10, <1>11, <1>12, <1>13 DEF PushedAt, t, x, p
<1>. QED  BY <1>0, <1>14 DEF p

Collects(c, d, i, st, m, K) ==
  /\ AreShaped(c) /\ AreShaped(d) /\ Len(d) = Len(c) /\ i \in 1 .. Len(c) /\ m \in 1 .. Len(st)
  /\ PushesAt(c, st, i) /\ Undisturbed(c, st, i, m, K) /\ Gathers(c, d, st, i, m)

LEMMA GatheringIs ==
  ASSUME NEW c, NEW d, NEW i, NEW st, NEW m, NEW K, Collects(c, d, i, st, m, K)
  PROVE  /\ Len(c) \in Nat /\ i \in Nat /\ i >= 1 /\ i <= Len(c) /\ Len(st) \in Nat
         /\ m \in Nat /\ m >= 1 /\ m <= Len(st) /\ K \in Nat /\ K >= 1 /\ K <= m
         /\ \A j \in 1 .. Len(st) : st[j] \in Nat /\ st[j] >= 1 /\ st[j] <= i - 1
         /\ \A j, l \in 1 .. Len(st) : l < j => st[l] > st[j]
<1>1. i \in 1 .. Len(c) /\ Len(c) \in Nat /\ m \in 1 .. Len(st) /\ K \in 1 .. m
      /\ PushesAt(c, st, i)
  BY DEF Collects, AreShaped, Undisturbed
<1>2. st \in Seq(1 .. i - 1)
  BY <1>1 DEF PushesAt, ArePlaces
<1>3. Len(st) \in Nat /\ \A j \in 1 .. Len(st) : st[j] \in 1 .. i - 1
  <2>. DEFINE A == 1 .. i - 1
  <2>1. st \in Seq(A)
    BY <1>2
  <2>. HIDE DEF A
  <2>2. Len(st) \in Nat /\ \A j \in 1 .. Len(st) : st[j] \in A
    BY <2>1
  <2>. QED  BY <2>2 DEF A
<1>4. \A j \in 1 .. Len(st) : \A l \in 1 .. j - 1 : st[l] > st[j]
  BY <1>1 DEF PushesAt
<1>5. ASSUME NEW j \in 1 .. Len(st), NEW l \in 1 .. Len(st), l < j PROVE st[l] > st[j]
  <2>1. l \in 1 .. j - 1
    BY <1>3, <1>5
  <2>. QED  BY <1>4, <2>1
<1>. QED  BY <1>1, <1>3, <1>5

(* The first q of the PUSHes taken are met at k. *)
Met(st, m, q, k) ==
  q \in 0 .. m /\ (q < m => k < st[m - q]) /\ (q > 0 => st[m - q + 1] <= k)

Gathering(st, s, s2, m, K, n, X, k, q) ==
  /\ Met(st, m, q, k)
  /\ Apart(s[k], s2[k], {}, q, Len(st) - m,
           IF k >= st[K] THEN n ELSE 0, IF k >= st[K] THEN X ELSE {})

MovedEffects(c, st, s, K, n, X) ==
  LET e == Pushed(c, st, K)
      t == s[st[K] - 1]
  IN  n = Cardinality(EffectsIn(e)) /\ X = Events(e, Value(e, t), t.effects)

LEMMA GatherStart ==
  ASSUME NEW c, NEW d, NEW i, NEW st, NEW m, NEW K, Collects(c, d, i, st, m, K),
         NEW s, s = Run(c), NEW s2, s2 = Run(d), NEW n, NEW X
  PROVE  /\ \A l \in 0 .. st[m] - 1 : s2[l] = s[l]
         /\ Gathering(st, s, s2, m, K, n, X, st[m] - 1, 0)
<1>0. /\ Len(c) \in Nat /\ i \in Nat /\ i >= 1 /\ i <= Len(c) /\ Len(st) \in Nat
      /\ m \in Nat /\ m >= 1 /\ m <= Len(st) /\ K \in Nat /\ K >= 1 /\ K <= m
      /\ \A j \in 1 .. Len(st) : st[j] \in Nat /\ st[j] >= 1 /\ st[j] <= i - 1
      /\ \A j, l \in 1 .. Len(st) : l < j => st[l] > st[j]
  BY GatheringIs
<1>. DEFINE p == st[m]
            t == s[p - 1]
<1>1. /\ m \in 1 .. Len(st) /\ K \in 1 .. Len(st)
      /\ p \in Nat /\ p >= 1 /\ p <= i - 1 /\ p - 1 \in 0 .. Len(c) /\ 0 \in 0 .. Len(c)
      /\ p - 1 \in 0 .. p - 1 /\ p <= st[K]
  BY <1>0
<1>2. AreAlike(c, d, 0, p - 1)
  <2>. SUFFICES ASSUME NEW k \in 0 + 1 .. p - 1 PROVE Alike(c[k], d[k])
    BY DEF AreAlike
  <2>1. k \in 1 .. i - 1 /\ k < p
    <3>. HIDE DEF p
    <3>1. p \in Nat /\ p <= i - 1 /\ i \in Nat
      BY <1>0, <1>1
    <3>. QED  BY <3>1
  <2>2. ~IsTaken(st, m, k)
    <3>. SUFFICES ASSUME NEW j \in 1 .. m, st[j] = k PROVE FALSE
      BY DEF IsTaken
    <3>1. j \in 1 .. Len(st) /\ (j < m \/ j = m)
      BY <1>0
    <3>. QED  BY <1>0, <1>1, <2>1, <3>1
  <2>. QED  BY <2>1, <2>2 DEF Collects, Gathers
<1>3. AreShaped(c) /\ AreShaped(d) /\ Len(d) = Len(c) /\ PushesAt(c, st, i) /\ i \in 1 .. Len(c)
  BY DEF Collects
<1>4. \A l \in 0 .. p - 1 : s2[l] = s[l]
  <2>1. Run(d)[0] = Run(c)[0]
    BY <1>0, <1>3, RunIs
  <2>2. \A l \in 0 .. p - 1 : Run(d)[l] = Run(c)[l]
    BY <1>0, <1>1, <1>2, <1>3, <2>1, RunAlike
  <2>. QED  BY <2>2
<1>5. PushedAt(c, st, s, m)
  BY <1>1, <1>3, PushedIs
<1>6. Len(t.stack) = Len(st) - m
  BY <1>5 DEF PushedAt
<1>7. IsState(t) /\ s2[p - 1] = t
  BY <1>1, <1>3, <1>4, RunStates
<1>. HIDE DEF t
<1>8. Lost(t.stack, t.stack, 0, Len(st) - m)
  BY <1>0, <1>6, <1>7, LostNothing DEF IsState
<1>9. t.effects = t.effects + 0
  BY <1>7 DEF IsState, AreValues
<1>10. Apart(t, t, {}, 0, Len(st) - m, 0, {})
  BY <1>8, <1>9 DEF Apart
<1>11. ~(p - 1 >= st[K])
  BY <1>0, <1>1
<1>12. Apart(s[p - 1], s2[p - 1], {}, 0, Len(st) - m,
             IF p - 1 >= st[K] THEN n ELSE 0, IF p - 1 >= st[K] THEN X ELSE {})
  BY <1>7, <1>10, <1>11 DEF t
<1>13. Met(st, m, 0, p - 1)
  BY <1>0, <1>1 DEF Met
<1>. QED  BY <1>4, <1>12, <1>13 DEF Gathering

LEMMA GatherPush ==
  ASSUME NEW c, NEW d, NEW i, NEW st, NEW m, NEW K, Collects(c, d, i, st, m, K),
         NEW s, s = Run(c), NEW s2, s2 = Run(d), NEW n, NEW X, MovedEffects(c, st, s, K, n, X),
         NEW k \in 0 .. i - 2, NEW q, Gathering(st, s, s2, m, K, n, X, k, q), IsTaken(st, m, k + 1)
  PROVE  Gathering(st, s, s2, m, K, n, X, k + 1, q + 1)
<1>0. /\ Len(c) \in Nat /\ i \in Nat /\ i >= 1 /\ i <= Len(c) /\ Len(st) \in Nat
      /\ m \in Nat /\ m >= 1 /\ m <= Len(st) /\ K \in Nat /\ K >= 1 /\ K <= m
      /\ \A j \in 1 .. Len(st) : st[j] \in Nat /\ st[j] >= 1 /\ st[j] <= i - 1
      /\ \A j, l \in 1 .. Len(st) : l < j => st[l] > st[j]
  BY GatheringIs
<1>. DEFINE p == k + 1
            t == s[k]
            t2 == s2[k]
            b == Len(st) - m
<1>1. PICK j \in 1 .. m : st[j] = p
  BY DEF IsTaken
<1>2. /\ j \in 1 .. Len(st) /\ j \in Nat /\ K \in 1 .. Len(st) /\ k \in Nat /\ p \in Nat
      /\ p <= i - 1 /\ p \in 1 .. Len(c) /\ p - 1 = k /\ b \in Nat /\ k \in 0 .. Len(c)
      /\ p \in 1 .. i - 1
  BY <1>0
<1>3. q \in Nat /\ q <= m /\ (q < m => k < st[m - q]) /\ (q > 0 => st[m - q + 1] <= k)
  BY DEF Gathering, Met
<1>4. j = m - q /\ q < m
  <2>1. ~(q > 0 /\ j >= m - q + 1)
    <3>. SUFFICES ASSUME q > 0, j >= m - q + 1 PROVE FALSE
      OBVIOUS
    <3>. DEFINE l == m - q + 1
    <3>1. l \in 1 .. Len(st) /\ (j > l \/ j = l) /\ st[l] <= k
      BY <1>0, <1>2, <1>3
    <3>. HIDE DEF l
    <3>2. st[j] <= st[l]
      BY <1>0, <1>2, <3>1, SMTT(30)
    <3>. QED  BY <1>0, <1>1, <1>2, <3>1, <3>2
  <2>2. q < m
    BY <1>0, <1>2, <1>3, <2>1
  <2>3. j <= m - q
    BY <1>0, <1>2, <1>3, <2>1, <2>2
  <2>4. ~(j < m - q)
    <3>. SUFFICES ASSUME j < m - q PROVE FALSE
      OBVIOUS
    <3>. DEFINE l == m - q
    <3>1. l \in 1 .. Len(st) /\ j < l /\ k < st[l]
      BY <1>0, <1>2, <1>3, <2>2
    <3>. HIDE DEF l
    <3>2. st[j] > st[l]
      BY <1>0, <1>2, <3>1
    <3>. QED  BY <1>0, <1>1, <1>2, <3>1, <3>2
  <2>. QED  BY <1>0, <1>2, <1>3, <2>2, <2>3, <2>4
<1>5. Met(st, m, q + 1, p)
  <2>1. q + 1 \in 0 .. m /\ m - (q + 1) + 1 = j /\ m - (q + 1) = j - 1
    BY <1>0, <1>2, <1>3, <1>4
  <2>2. q + 1 < m => p < st[j - 1]
    <3>1. q + 1 < m => j - 1 \in 1 .. Len(st) /\ j - 1 < j
      BY <1>0, <1>2, <1>3, <1>4
    <3>. QED  BY <1>0, <1>1, <1>2, <3>1
  <2>. QED  BY <1>1, <1>2, <2>1, <2>2 DEF Met
<1>6. AreShaped(c) /\ AreShaped(d) /\ Len(d) = Len(c) /\ PushesAt(c, st, i) /\ i \in 1 .. Len(c)
      /\ d[p].deleted
  BY <1>2 DEF Collects, Gathers
<1>7. s2[p] = t2
  <2>1. s2[p] = After(s2[p - 1], d[p])
    BY <1>0, <1>2, <1>6, RunIs
  <2>. QED  BY <1>2, <1>6, <2>1 DEF After
<1>8. IsState(t) /\ IsState(t2)
  BY <1>2, <1>6, RunStates
<1>. DEFINE e == Pushed(c, st, j)
            v == Value(e, t)
<1>9. /\ IsExpression(e)
      /\ s[p].stack = <<v>> \o t.stack /\ DOMAIN v \subseteq Path
      /\ Len(t.stack) = Len(st) - j
      /\ s[p].effects = t.effects + Cardinality(EffectsIn(e))
      /\ s[p].events = t.events \cup Events(e, v, t.effects)
      /\ \A r \in Reg : s[p].env[r] = t.env[r]
  <2>1. PushedAt(c, st, s, j)
    BY <1>2, <1>6, PushedIs
  <2>. QED  BY <1>1, <1>2, <2>1 DEF PushedAt
<1>. DEFINE n1 == IF k >= st[K] THEN n ELSE 0
            X1 == IF k >= st[K] THEN X ELSE {}
            n2 == IF p >= st[K] THEN n ELSE 0
            X2 == IF p >= st[K] THEN X ELSE {}
            x == Cardinality(EffectsIn(e))
            E == Events(e, v, t.effects)
<1>10. Apart(t, t2, {}, q, b, n1, X1)
  BY DEF Gathering
<1>11. n2 = n1 + x /\ X2 = X1 \cup E /\ n1 \in Nat /\ x \in Nat
  <2>0. x \in Nat
    BY <1>9, EffectsFinite DEF IsExpression
  <2>1. CASE j = K
    <3>1. p >= st[K] /\ ~(k >= st[K])
      BY <1>1, <1>2, <2>1
    <3>2. n = x /\ X = E
      BY <1>1, <1>2, <2>1 DEF MovedEffects
    <3>. QED  BY <2>0, <3>1, <3>2
  <2>2. CASE j # K
    <3>1. EffectsIn(e) = {}
      BY <2>2 DEF Collects, Undisturbed
    <3>2. x = 0 /\ E = {}
      BY <3>1, FS_EmptySet DEF Events
    <3>3. st[j] # st[K] /\ st[K] \in Nat
      BY <1>0, <1>2, <2>2
    <3>4. p >= st[K] <=> k >= st[K]
      BY <1>1, <1>2, <3>3
    <3>5. n \in Nat
      <4>1. PushedAt(c, st, s, K)
        BY <1>2, <1>6, PushedIs
      <4>2. IsExpression(Pushed(c, st, K))
        BY <4>1 DEF PushedAt
      <4>. QED  BY <4>2, EffectsFinite DEF MovedEffects, IsExpression
    <3>. QED  BY <3>2, <3>4, <3>5
  <2>. QED  BY <2>1, <2>2
<1>. HIDE DEF t, t2, e, v, n1, X1, n2, X2, x, E, b
<1>12. IsStack(t.stack) /\ IsStack(t2.stack) /\ t2.effects \in Nat /\ Len(t2.stack) \in Nat
       /\ Len(t.stack) \in Nat
  BY <1>8 DEF IsState, AreValues, IsStack
<1>13. /\ \A r \in Reg : t2.env[r] = t.env[r]
       /\ Lost(t.stack, t2.stack, q, b)
       /\ t.effects = t2.effects + n1
       /\ t.events = t2.events \cup X1
  BY <1>10 DEF Apart
<1>14. Len(t2.stack) = b
  <2>1. Len(t.stack) = Len(t2.stack) + q
    BY <1>13 DEF Lost
  <2>. DEFINE x1 == Len(t.stack)
              x2 == Len(t2.stack)
              x3 == Len(st)
  <2>2. x1 = x2 + q /\ x1 \in Nat /\ x2 \in Nat /\ x3 \in Nat /\ x1 = x3 - j /\ j = m - q /\ b = x3 - m
        /\ q \in Nat /\ m \in Nat
    BY <1>0, <1>3, <1>4, <1>9, <1>12, <2>1 DEF b
  <2>. HIDE DEF x1, x2, x3
  <2>3. x2 = b
    BY <2>2
  <2>. QED  BY <2>3 DEF x2
<1>15. Lost(s[p].stack, t2.stack, q + 1, b)
  BY <1>2, <1>3, <1>9, <1>12, <1>13, <1>14, LostPush
<1>16. s[p].effects = t2.effects + n2
  BY <1>9, <1>11, <1>12, <1>13 DEF x
<1>17. s[p].events = t2.events \cup X2
  BY <1>9, <1>11, <1>13 DEF E
<1>18. \A r \in Reg : t2.env[r] = s[p].env[r]
  BY <1>9, <1>13
<1>19. Apart(s[p], s2[p], {}, q + 1, b, n2, X2)
  BY <1>7, <1>15, <1>16, <1>17, <1>18 DEF Apart
<1>. QED  BY <1>5, <1>19 DEF Gathering, n2, X2, b

LEMMA GatherPass ==
  ASSUME NEW c, NEW d, NEW i, NEW st, NEW m, NEW K, Collects(c, d, i, st, m, K),
         NEW s, s = Run(c), NEW s2, s2 = Run(d), NEW n, NEW X, MovedEffects(c, st, s, K, n, X),
         NEW k \in 0 .. i - 2, st[m] - 1 <= k, NEW q, Gathering(st, s, s2, m, K, n, X, k, q),
         ~IsTaken(st, m, k + 1)
  PROVE  Gathering(st, s, s2, m, K, n, X, k + 1, q)
<1>0. /\ Len(c) \in Nat /\ i \in Nat /\ i >= 1 /\ i <= Len(c) /\ Len(st) \in Nat
      /\ m \in Nat /\ m >= 1 /\ m <= Len(st) /\ K \in Nat /\ K >= 1 /\ K <= m
      /\ \A j \in 1 .. Len(st) : st[j] \in Nat /\ st[j] >= 1 /\ st[j] <= i - 1
      /\ \A j, l \in 1 .. Len(st) : l < j => st[l] > st[j]
  BY GatheringIs
<1>. DEFINE p == k + 1
            t == s[k]
            t2 == s2[k]
            b == Len(st) - m
            n1 == IF k >= st[K] THEN n ELSE 0
            X1 == IF k >= st[K] THEN X ELSE {}
            x == c[p]
            y == d[p]
<1>1. /\ K \in 1 .. Len(st) /\ m \in 1 .. Len(st) /\ k \in Nat /\ p \in Nat
      /\ p <= i - 1 /\ p \in 1 .. Len(c) /\ p - 1 = k /\ b \in Nat /\ k \in 0 .. Len(c)
      /\ p \in 1 .. i - 1 /\ p \in 0 .. Len(c)
  BY <1>0
<1>2. q \in Nat /\ q <= m /\ (q < m => k < st[m - q]) /\ (q > 0 => st[m - q + 1] <= k)
      /\ Apart(t, t2, {}, q, b, n1, X1)
  BY DEF Gathering, Met
<1>3. \A j \in 1 .. m : st[j] # p
  BY DEF IsTaken
<1>4. q > 0
  <2>. SUFFICES ASSUME q = 0 PROVE FALSE
    BY <1>2
  <2>1. k < st[m] /\ st[m] \in Nat
    BY <1>0, <1>1, <1>2
  <2>2. st[m] = p
    BY <1>1, <2>1
  <2>. QED  BY <1>0, <1>3, <2>2
<1>5. Met(st, m, q, p)
  <2>1. q < m => m - q \in 1 .. m /\ m - q \in 1 .. Len(st)
    BY <1>0, <1>2
  <2>2. q < m => p < st[m - q]
    <3>1. q < m => st[m - q] # p /\ st[m - q] \in Nat
      BY <1>0, <1>3, <2>1
    <3>. QED  BY <1>1, <1>2, <3>1
  <2>3. st[m - q + 1] <= p
    <3>. DEFINE l == m - q + 1
    <3>1. l \in 1 .. Len(st) /\ st[l] <= k
      BY <1>0, <1>2, <1>4
    <3>. HIDE DEF l
    <3>2. st[l] <= p
      BY <1>0, <1>1, <3>1
    <3>. QED  BY <3>2 DEF l
  <2>. QED  BY <1>0, <1>2, <2>2, <2>3 DEF Met
<1>6. AreShaped(c) /\ AreShaped(d) /\ Len(d) = Len(c) /\ PushesAt(c, st, i) /\ i \in 1 .. Len(c)
      /\ Alike(x, y)
  BY <1>1 DEF Collects, Gathers
<1>7. s[p] = After(t, x) /\ s2[p] = After(t2, y)
  <2>1. s[p] = After(s[p - 1], x) /\ s2[p] = After(s2[p - 1], y)
    BY <1>0, <1>1, <1>6, RunIs
  <2>. QED  BY <1>1, <2>1
<1>8. IsState(t) /\ IsState(t2) /\ IsState(s[p]) /\ HasShape(x)
  BY <1>1, <1>6, RunStates DEF AreShaped
<1>9. st[K] \in Nat /\ st[K] # p
  BY <1>0, <1>1, <1>3
<1>10. p >= st[K] <=> k >= st[K]
  BY <1>1, <1>9
<1>11. ~x.deleted => Full(x)
  BY <1>1, <1>6 DEF PushesAt
<1>12. IsExpression(Pushed(c, st, K))
  <2>1. PushedAt(c, st, s, K)
    BY <1>1, <1>6, PushedIs
  <2>. QED  BY <2>1 DEF PushedAt
<1>13. n1 \in Nat
  <2>1. n \in Nat
    BY <1>12, EffectsFinite DEF MovedEffects, IsExpression
  <2>. QED  BY <2>1
<1>14. ASSUME n1 # 0, ~x.deleted PROVE EffectsIn(Whole(x)) = {} /\ ~ReadsMemory(Whole(x))
  <2>1. k >= st[K] /\ n # 0
    BY <1>14
  <2>2. HasCall(Pushed(c, st, K))
    <3>1. EffectsIn(Pushed(c, st, K)) = {} => n = 0
      BY FS_EmptySet DEF MovedEffects
    <3>. QED  BY <1>12, <2>1, <3>1, OnlyCalls
  <2>3. p \in st[K] + 1 .. i - 1
    BY <1>0, <1>1, <1>9, <2>1
  <2>. QED  BY <1>0, <1>14, <2>2, <2>3 DEF Collects, Undisturbed
<1>15. ASSUME x.type = "pop", ~x.deleted PROVE Len(t2.stack) > b
  <2>. DEFINE j == m - q + 1
              h == Len(st) - j + 1
  <2>1. j \in 1 .. Len(st) /\ st[j] <= k /\ h = b + q /\ st[j] \in Nat
    BY <1>0, <1>1, <1>2, <1>4
  <2>. HIDE DEF j, x
  <2>2. p \in st[j] .. i - 1
    BY <1>0, <1>1, <2>1
  <2>3. StackMatches(s, c, st, i - 1)
    BY <1>6 DEF PushesAt
  <2>. HIDE DEF p
  <2>4. h <= Len(s[p].stack)
    <3>1. OnStack(s, c, st[j], h, i - 1)
      BY <2>1, <2>3 DEF StackMatches
    <3>. HIDE DEF h
    <3>2. Holds(s[p].stack, h, Value(c[st[j]].operands[1], s[st[j] - 1]))
      BY <2>2, <3>1 DEF OnStack
    <3>. QED  BY <3>2 DEF Holds
  <2>5. s[p] = Executed(t, x)
    BY <1>7, <1>15 DEF After
  <2>. HIDE DEF h, t, t2, b
  <2>6. s[p].stack = IF t.stack # <<>> THEN Tail(t.stack) ELSE t.stack
    <3>1. s[p].stack = StackAfter(t, x)
      BY <2>5, ExecutedIs
    <3>2. StackAfter(t, x) = IF x.type = "pop" /\ t.stack # <<>> THEN Tail(t.stack) ELSE t.stack
      BY <1>8, <1>11, <1>15, FullComputed
    <3>. QED  BY <1>15, <3>1, <3>2
  <2>7. IsStack(t.stack) /\ Len(t.stack) \in Nat /\ Len(t2.stack) \in Nat
    BY <1>8 DEF IsState, IsStack
  <2>8. Len(t.stack) = Len(t2.stack) + q
    BY <1>2 DEF Apart, Lost
  <2>9. CASE t.stack = <<>>
    <3>1. Len(s[p].stack) = 0
      BY <2>6, <2>7, <2>9, StackEmpty
    <3>. QED  BY <1>1, <1>2, <1>4, <2>1, <2>4, <3>1
  <2>10. CASE t.stack # <<>>
    <3>1. Len(s[p].stack) = Len(t.stack) - 1
      BY <2>6, <2>7, <2>10, StackTail
    <3>. QED  BY <1>1, <1>2, <2>1, <2>4, <2>7, <2>8, <3>1
  <2>. QED  BY <2>9, <2>10
<1>. HIDE DEF t, t2, n1, X1, x, y, b, p
<1>16. Apart(s[p], s2[p], {}, q, b, n1, X1)
  <2>1. CASE x.deleted
    <3>1. y.deleted
      BY <1>6, <2>1 DEF Alike
    <3>. QED  BY <1>2, <1>7, <2>1, <3>1 DEF After
  <2>2. CASE ~x.deleted
    <3>1. s[p] = Executed(t, x)
      BY <1>7, <2>2 DEF After
    <3>2. s2[p] = Executed(t2, x)
      <4>1. ~y.deleted
        BY <1>6, <2>2 DEF Alike
      <4>2. s2[p] = Executed(t2, y)
        BY <1>7, <4>1 DEF After
      <4>. QED  BY <1>6, <4>2, AlikeSame
    <3>. DEFINE D == {}
    <3>3. Unmoved(x, t2, D, q, b, n1)
      <4>1. x.params = 0 \/ x.collected
        BY <1>11, <2>2 DEF Full
      <4>. QED  BY <1>14, <1>15, <2>2, <4>1 DEF Unmoved
    <3>4. Apart(t, t2, D, q, b, n1, X1)
      BY <1>2
    <3>. HIDE DEF D
    <3>5. Apart(Executed(t, x), Executed(t2, x), D \ x.definitions, q, b, n1, X1)
      BY <1>1, <1>2, <1>8, <1>13, <3>3, <3>4, ExecutedApart
    <3>6. D \ x.definitions = {}
      BY DEF D
    <3>. QED  BY <3>1, <3>2, <3>5, <3>6
  <2>. QED  BY <2>1, <2>2
<1>. QED  BY <1>5, <1>10, <1>16 DEF Gathering, n1, X1, b, p

LEMMA GatherRun ==
  ASSUME NEW c, NEW d, NEW i, NEW st, NEW m, NEW K, Collects(c, d, i, st, m, K),
         NEW s, s = Run(c), NEW s2, s2 = Run(d), NEW n, NEW X, MovedEffects(c, st, s, K, n, X)
  PROVE  \A k \in st[m] - 1 .. i - 1 : \E q : Gathering(st, s, s2, m, K, n, X, k, q)
<1>0. /\ i \in Nat /\ i >= 1 /\ st[m] \in Nat /\ st[m] >= 1 /\ st[m] <= i - 1
  <2>1. m \in 1 .. Len(st)
    BY DEF Collects
  <2>. QED  BY <2>1, GatheringIs
<1>. DEFINE lo == st[m] - 1
            hi == i - 1
            P == {k \in lo .. hi : \E q : Gathering(st, s, s2, m, K, n, X, k, q)}
<1>1. lo \in Nat /\ hi \in Nat /\ lo \in lo .. hi
  BY <1>0
<1>2. lo \in P
  BY <1>1, GatherStart
<1>3. ASSUME NEW k \in lo .. hi, k \in P, k < hi PROVE k + 1 \in P
  <2>1. PICK q : Gathering(st, s, s2, m, K, n, X, k, q)
    BY <1>3
  <2>2. k \in 0 .. i - 2 /\ st[m] - 1 <= k /\ k + 1 \in lo .. hi
    BY <1>0, <1>3
  <2>. HIDE DEF lo, hi
  <2>3. CASE IsTaken(st, m, k + 1)
    <3>1. Gathering(st, s, s2, m, K, n, X, k + 1, q + 1)
      BY <2>1, <2>2, <2>3, GatherPush
    <3>. QED  BY <2>2, <3>1
  <2>4. CASE ~IsTaken(st, m, k + 1)
    <3>1. Gathering(st, s, s2, m, K, n, X, k + 1, q)
      BY <2>1, <2>2, <2>4, GatherPass
    <3>. QED  BY <2>2, <3>1
  <2>. QED  BY <2>3, <2>4
<1>. HIDE DEF P, lo, hi
<1>4. \A k \in lo .. hi : k \in P
  BY <1>1, <1>2, <1>3, Upward
<1>. QED  BY <1>4 DEF P, lo, hi

(* What was pushed is still on the stack and still what it was. *)
LEMMA TakenKept ==
  ASSUME NEW c, NEW d, NEW i, NEW st, NEW m, NEW K, Collects(c, d, i, st, m, K),
         NEW s, s = Run(c), NEW j \in 1 .. m, NEW e, e = Pushed(c, st, j), NEW g, g = s[st[j] - 1]
  PROVE  /\ IsExpression(e) /\ IsState(g)
         /\ \A x \in RegistersOf(e) : s[i - 1].env[x] = g.env[x]
         /\ HasCall(e) \/ ReadsMemory(e) =>
              s[i - 1].effects = g.effects + Cardinality(EffectsIn(e))
         /\ s[i - 1].stack[j] = Value(e, g)
<1>0. /\ Len(c) \in Nat /\ i \in Nat /\ i >= 1 /\ i <= Len(c) /\ Len(st) \in Nat
      /\ m \in Nat /\ m >= 1 /\ m <= Len(st) /\ K \in Nat /\ K >= 1 /\ K <= m
      /\ \A l \in 1 .. Len(st) : st[l] \in Nat /\ st[l] >= 1 /\ st[l] <= i - 1
  BY GatheringIs
<1>. DEFINE p == st[j]
            hi == i - 1
<1>1. j \in 1 .. Len(st) /\ j \in Nat
  BY <1>0
<1>2. p \in Nat /\ p >= 1 /\ p <= hi /\ hi \in Nat /\ hi <= Len(c)
  BY <1>0, <1>1
<1>3. AreShaped(c) /\ PushesAt(c, st, i) /\ i \in 1 .. Len(c)
  BY DEF Collects
<1>4. PushedAt(c, st, s, j)
  BY <1>1, <1>3, PushedIs
<1>5. /\ IsExpression(e) /\ c[p].definitions = {}
      /\ s[p].effects = g.effects + Cardinality(EffectsIn(e))
      /\ \A r \in Reg : s[p].env[r] = g.env[r]
  BY <1>4 DEF PushedAt
<1>6. \A k \in p + 1 .. hi : ~c[k].deleted =>
        /\ c[k].definitions \cap RegistersOf(e) = {}
        /\ HasCall(e) \/ ReadsMemory(e) => EffectsIn(Whole(c[k])) = {}
  BY DEF Collects, Undisturbed
<1>7. IsState(g)
  <2>1. p - 1 \in 0 .. Len(c)
    BY <1>2, <1>0
  <2>. QED  BY <1>3, <2>1, RunStates
<1>. DEFINE h == Len(st) - j + 1
            v == s[hi].stack
<1>8. Holds(v, h, Value(e, g))
  <2>1. StackMatches(s, c, st, hi)
    BY <1>3 DEF PushesAt
  <2>2. OnStack(s, c, p, h, hi)
    BY <1>1, <2>1 DEF StackMatches
  <2>3. hi \in p .. hi
    BY <1>2
  <2>. HIDE DEF p, h, hi
  <2>4. Holds(s[hi].stack, h, Value(c[p].operands[1], s[p - 1]))
    BY <2>2, <2>3 DEF OnStack
  <2>. QED  BY <2>4 DEF Pushed, p
<1>9. Len(v) = Len(st)
  BY <1>3 DEF PushesAt, StackMatches
<1>. HIDE DEF p, hi, v
<1>10. v[j] = Value(e, g)
  <2>1. v[Len(v) - h + 1] = Value(e, g)
    BY <1>8 DEF Holds
  <2>2. Len(v) - h + 1 = j
    BY <1>0, <1>1, <1>9
  <2>. QED  BY <2>1, <2>2
<1>11. p \in 0 .. Len(c) /\ hi \in p .. Len(c) /\ hi \in p .. hi
  BY <1>0, <1>2
<1>12. ASSUME NEW x \in RegistersOf(e) PROVE s[hi].env[x] = g.env[x]
  <2>1. x \in Reg
    BY DEF RegistersOf
  <2>2. \A k \in p + 1 .. hi : ~c[k].deleted => x \notin c[k].definitions
    BY <1>6
  <2>3. \A k \in p .. hi : Run(c)[k].env[x] = Run(c)[p].env[x]
    BY <1>3, <1>11, <2>1, <2>2, EnvKept
  <2>. QED  BY <1>5, <1>11, <2>1, <2>3
<1>13. ASSUME HasCall(e) \/ ReadsMemory(e)
       PROVE  s[hi].effects = g.effects + Cardinality(EffectsIn(e))
  <2>1. \A k \in p + 1 .. hi : ~c[k].deleted => EffectsIn(Whole(c[k])) = {}
    BY <1>6, <1>13
  <2>2. \A k \in p .. hi : Run(c)[k].effects = Run(c)[p].effects
    BY <1>3, <1>11, <2>1, EffectsKept
  <2>. QED  BY <1>5, <1>11, <2>2
<1>. QED  BY <1>5, <1>7, <1>10, <1>12, <1>13 DEF v, hi

(* All PUSHes are met when the call is reached. *)
LEMMA AllMet ==
  ASSUME NEW c, NEW d, NEW i, NEW st, NEW m, NEW K, Collects(c, d, i, st, m, K),
         NEW s, s = Run(c), NEW s2, s2 = Run(d), NEW n, NEW X, MovedEffects(c, st, s, K, n, X)
  PROVE  Apart(s[i - 1], s2[i - 1], {}, m, Len(st) - m, n, X)
<1>0. /\ i \in Nat /\ i >= 1 /\ Len(st) \in Nat
      /\ m \in Nat /\ m >= 1 /\ m <= Len(st) /\ K \in Nat /\ K >= 1 /\ K <= m
      /\ \A l \in 1 .. Len(st) : st[l] \in Nat /\ st[l] >= 1 /\ st[l] <= i - 1
  BY GatheringIs
<1>. DEFINE k == i - 1
<1>1. st[m] \in Nat /\ st[m] >= 1 /\ st[m] <= k /\ st[K] \in Nat /\ st[K] <= k /\ k \in Nat
  <2>1. m \in 1 .. Len(st) /\ K \in 1 .. Len(st)
    BY <1>0
  <2>. QED  BY <1>0, <2>1
<1>2. k \in st[m] - 1 .. i - 1
  BY <1>0, <1>1
<1>3. PICK q : Gathering(st, s, s2, m, K, n, X, k, q)
  BY <1>2, GatherRun
<1>4. q = m
  <2>1. q \in Nat /\ q <= m /\ (q < m => k < st[m - q])
    BY <1>0, <1>3 DEF Gathering, Met
  <2>. SUFFICES ASSUME q < m PROVE FALSE
    BY <1>0, <2>1
  <2>. DEFINE l == m - q
  <2>2. l \in 1 .. Len(st) /\ k < st[l]
    BY <1>0, <2>1
  <2>. HIDE DEF l
  <2>. QED  BY <1>0, <2>2
<1>5. k >= st[K]
  BY <1>1
<1>. HIDE DEF k
<1>6. Apart(s[k], s2[k], {}, q, Len(st) - m,
            IF k >= st[K] THEN n ELSE 0, IF k >= st[K] THEN X ELSE {})
  BY <1>3 DEF Gathering
<1>7. Apart(s[k], s2[k], {}, m, Len(st) - m, n, X)
  BY <1>4, <1>5, <1>6
<1>. QED  BY <1>7 DEF k

LEMMA GatheredIs ==
  ASSUME NEW c, NEW d, NEW i, NEW st, NEW m, NEW K, Collects(c, d, i, st, m, K),
         NEW s, s = Run(c), NEW s2, s2 = Run(d),
         NEW args, args = [j \in 1 .. m |-> Pushed(c, st, j)],
         NEW g, g = [j \in 1 .. m |-> s[st[j] - 1]]
  PROVE  Gathered(args, g, K, s2[i - 1])
<1>0. /\ i \in Nat /\ i >= 1 /\ Len(st) \in Nat /\ Len(c) \in Nat /\ i <= Len(c)
      /\ m \in Nat /\ m >= 1 /\ m <= Len(st) /\ K \in Nat /\ K >= 1 /\ K <= m
  BY GatheringIs
<1>. DEFINE t == s[i - 1]
            t2 == s2[i - 1]
            n == Cardinality(EffectsIn(args[K]))
            X == Events(args[K], Value(args[K], g[K]), g[K].effects)
<1>1. DOMAIN args = 1 .. m /\ K \in 1 .. m
  BY <1>0
<1>2. MovedEffects(c, st, s, K, n, X)
  BY <1>1 DEF MovedEffects
<1>. HIDE DEF n, X
<1>3. Apart(t, t2, {}, m, Len(st) - m, n, X)
  BY <1>2, AllMet
<1>4. ASSUME NEW j \in 1 .. m
      PROVE  /\ IsExpression(args[j]) /\ IsState(g[j])
             /\ \A x \in RegistersOf(args[j]) : t.env[x] = g[j].env[x]
             /\ HasCall(args[j]) \/ ReadsMemory(args[j]) =>
                  t.effects = g[j].effects + Cardinality(EffectsIn(args[j]))
  <2>. DEFINE e == args[j]
              gj == g[j]
  <2>1. e = Pushed(c, st, j) /\ gj = s[st[j] - 1]
    OBVIOUS
  <2>. HIDE DEF e, gj
  <2>2. /\ IsExpression(e) /\ IsState(gj)
        /\ \A x \in RegistersOf(e) : s[i - 1].env[x] = gj.env[x]
        /\ HasCall(e) \/ ReadsMemory(e) =>
             s[i - 1].effects = gj.effects + Cardinality(EffectsIn(e))
    BY <2>1, TakenKept
  <2>. QED  BY <2>2 DEF e, gj
<1>5. \A j \in 1 .. m : j # K => EffectsIn(args[j]) = {}
  BY DEF Collects, Undisturbed
<1>6. IsState(t2)
  <2>1. AreShaped(d) /\ i - 1 \in 0 .. Len(d)
    BY <1>0 DEF Collects
  <2>. QED  BY <2>1, RunStates
<1>. HIDE DEF t, t2
<1>7. t2.effects \in Nat /\ t.effects = t2.effects + n /\ \A r \in Reg : t2.env[r] = t.env[r]
  BY <1>3, <1>6 DEF Apart, IsState, AreValues
<1>8. AreParameters(args)
  <2>1. IsFiniteSet(1 .. m)
    BY <1>0, FS_Interval
  <2>. QED  BY <1>1, <1>4, <2>1 DEF AreParameters
<1>9. \A j \in 1 .. m : AreValues(g[j])
  BY <1>4 DEF IsState
<1>10. ASSUME NEW j \in 1 .. m, NEW x \in RegistersOf(args[j]) PROVE t2.env[x] = g[j].env[x]
  <2>1. x \in Reg
    BY DEF RegistersOf
  <2>. QED  BY <1>4, <1>7, <2>1
<1>11. n \in Nat
  BY <1>1, <1>4, EffectsFinite DEF n, IsExpression
<1>12. ASSUME HasCall(args[K]) \/ ReadsMemory(args[K]) PROVE t2.effects = g[K].effects
  <2>1. t.effects = g[K].effects + n
    BY <1>1, <1>4, <1>12 DEF n
  <2>2. g[K].effects \in Nat
    BY <1>1, <1>9 DEF AreValues
  <2>. QED  BY <1>7, <1>11, <2>1, <2>2
<1>13. ASSUME NEW j \in 1 .. m, j # K, ReadsMemory(args[j]) PROVE g[j].effects = t2.effects + n
  <2>1. Cardinality(EffectsIn(args[j])) = 0
    BY <1>5, <1>13, FS_EmptySet
  <2>2. t.effects = g[j].effects + 0
    BY <1>4, <1>13, <2>1
  <2>3. g[j].effects \in Nat
    BY <1>9 DEF AreValues
  <2>. QED  BY <1>7, <2>2, <2>3
<1>14. Gathered(args, g, K, t2)
  BY <1>1, <1>5, <1>8, <1>9, <1>10, <1>12, <1>13 DEF Gathered, n
<1>. QED  BY <1>14 DEF t2

(***************************************************************************)
(* With its parameters the call computes what it did with the stack, and   *)
(* the effects that were missing come before its own.                      *)
(***************************************************************************)
LEMMA CallCollected ==
  ASSUME NEW c, NEW d, NEW i, NEW st, NEW m, NEW K, Collects(c, d, i, st, m, K),
         NEW s, s = Run(c), NEW s2, s2 = Run(d)
  PROVE  Apart(s[i], s2[i], {}, 0, 0, 0, {})
<1>0. /\ i \in Nat /\ i >= 1 /\ Len(st) \in Nat /\ Len(c) \in Nat /\ i <= Len(c)
      /\ m \in Nat /\ m >= 1 /\ m <= Len(st) /\ K \in Nat /\ K >= 1 /\ K <= m
  BY GatheringIs
<1>. DEFINE t == s[i - 1]
            t2 == s2[i - 1]
            x == c[i]
            y == d[i]
            args == [j \in 1 .. m |-> Pushed(c, st, j)]
            g == [j \in 1 .. m |-> s[st[j] - 1]]
            label == x.operands[2][<<>>]
            a == Apply(label, args)
            values == [j \in DOMAIN args |-> Value(args[j], g[j])]
            v == Apply(label, values)
            n == Cardinality(EffectsIn(args[K]))
            X == Events(args[K], Value(args[K], g[K]), g[K].effects)
<1>1. /\ AreShaped(c) /\ AreShaped(d) /\ Len(d) = Len(c) /\ i \in 1 .. Len(c) /\ i - 1 \in 0 .. Len(c)
      /\ PushesAt(c, st, i)
  BY <1>0 DEF Collects
<1>2. /\ ~x.deleted /\ ~y.deleted /\ x.type = "assign" /\ y.type = "assign"
      /\ x.params # 0 /\ ~x.collected /\ y.collected /\ y.definitions = x.definitions
      /\ ParametersTaken(x.params, Len(st)) = m /\ y.operands[2] = a
  BY DEF Collects, Gathers
<1>3. IsState(t) /\ IsState(t2) /\ HasShape(x) /\ HasShape(y)
  BY <1>0, <1>1, RunStates DEF AreShaped
<1>4. s[i] = After(t, x) /\ s2[i] = After(t2, y)
  BY <1>0, <1>1, RunIs
<1>5. MovedEffects(c, st, s, K, n, X)
  BY <1>0 DEF MovedEffects
<1>6. Gathered(args, g, K, t2)
  <2>. HIDE DEF n, X
  <2>1. args = [j \in 1 .. m |-> Pushed(c, st, j)] /\ g = [j \in 1 .. m |-> s[st[j] - 1]]
    OBVIOUS
  <2>. HIDE DEF args, g
  <2>. QED  BY <2>1, GatheredIs
<1>7. ASSUME NEW j \in 1 .. m PROVE t.stack[j] = Value(args[j], g[j])
  <2>. DEFINE e == args[j]
              gj == g[j]
  <2>1. e = Pushed(c, st, j) /\ gj = s[st[j] - 1]
    OBVIOUS
  <2>. HIDE DEF e, gj
  <2>2. s[i - 1].stack[j] = Value(e, gj)
    BY <2>1, TakenKept
  <2>. QED  BY <2>2 DEF e, gj
<1>8. Len(t.stack) = Len(st)
  BY <1>1 DEF PushesAt, StackMatches
<1>9. DOMAIN args = 1 .. m
  OBVIOUS
<1>. HIDE DEF x, y, args, g, n, X, t, t2
<1>10. Apart(t, t2, {}, m, Len(st) - m, n, X)
  <2>1. Apart(s[i - 1], s2[i - 1], {}, m, Len(st) - m, n, X)
    BY <1>5, AllMet
  <2>. QED  BY <2>1 DEF t, t2
<1>11. s[i] = Executed(t, x) /\ s2[i] = Executed(t2, y)
  BY <1>2, <1>4 DEF After
<1>12. TakenFrom(t, x) = m
  BY <1>2, <1>8 DEF TakenFrom
<1>13. x.operands[2] = Leaf(label) /\ label[1] = "call" /\ Whole(x) = x.operands[2]
  BY <1>2, <1>3, WholeOf DEF HasShape
<1>14. Whole(y) = a
  BY <1>2, <1>3, WholeOf
<1>15. Computed(t, x) = v
  <2>1. Computed(t, x) = Apply(Whole(x)[<<>>], [j \in 1 .. m |-> t.stack[j]])
    BY <1>0, <1>12 DEF Computed
  <2>2. [j \in 1 .. m |-> t.stack[j]] = values
    BY <1>7, <1>9
  <2>3. Whole(x)[<<>>] = label
    BY <1>13
  <2>. HIDE DEF label, values
  <2>. QED  BY <2>1, <2>2, <2>3 DEF v
<1>. HIDE DEF label, a, values, v
<1>16. AreValues(t2) /\ IsStack(t.stack) /\ IsStack(t2.stack) /\ t2.effects \in Nat
       /\ Len(t.stack) \in Nat /\ Len(t2.stack) \in Nat
  BY <1>3 DEF IsState, AreValues, IsStack
<1>17. Value(a, t2) = v
  BY <1>6, <1>13, <1>16, ValueGathered DEF a, v, values
<1>18. Events(a, v, t2.effects) = {<<t2.effects + n + 1, v>>} \cup X
  <2>1. LET u == Apply(label, [j \in DOMAIN args |-> Value(args[j], g[j])])
            l == Cardinality(EffectsIn(args[K])) IN
        Events(Apply(label, args), u, t2.effects)
          = {<<t2.effects + l + 1, u>>} \cup Events(args[K], Value(args[K], g[K]), g[K].effects)
    BY <1>6, <1>13, <1>16, EventsGathered
  <2>. QED  BY <2>1 DEF a, v, values, n, X
<1>19. Cardinality(EffectsIn(a)) = n + 1 /\ n \in Nat
  <2>1. AreParameters(args) /\ K \in DOMAIN args /\ \A j \in DOMAIN args : j # K => EffectsIn(args[j]) = {}
    BY <1>6 DEF Gathered
  <2>2. CountedTogether(Apply(label, args), args, K, Cardinality(EffectsIn(args[K])))
    BY <1>13, <2>1, CallCountsAre
  <2>3. IsExpression(args[K])
    BY <2>1 DEF AreParameters
  <2>. QED  BY <2>2, <2>3, EffectsFinite DEF CountedTogether, a, n, IsExpression
<1>20. Cardinality(EffectsIn(Whole(x))) = 1 /\ Events(Whole(x), v, t.effects) = {<<t.effects + 1, v>>}
  <2>1. /\ EffectsIn(Whole(x)) = {<<>>} /\ Cardinality(EffectsIn(Whole(x))) = 1
        /\ Cardinality(Nested(Whole(x), <<>>)) = 0
    BY <1>2, <1>3, Uncollected
  <2>2. Subtree(v, <<>>) = v
    <3>1. DOMAIN v \subseteq Path
      BY <1>3, <1>15, ComputedPath
    <3>2. IsMap(v)
      BY DEF v, Apply, IsMap
    <3>. QED  BY <3>1, <3>2, SubtreeWhole
  <2>3. Events(Whole(x), v, t.effects)
          = {<<t.effects + Cardinality(Nested(Whole(x), <<>>)) + 1, Subtree(v, <<>>)>>}
    BY <2>1 DEF Events
  <2>4. t.effects + 0 + 1 = t.effects + 1
    <3>1. t.effects \in Nat
      BY <1>3 DEF IsState, AreValues
    <3>. QED  BY <3>1
  <2>. QED  BY <2>1, <2>2, <2>3, <2>4
<1>. DEFINE u == s[i]
            u2 == s2[i]
<1>21. /\ \A r \in Reg : r \in x.definitions => u.env[r] = Result(t, x)
       /\ \A r \in Reg : r \notin x.definitions => u.env[r] = t.env[r]
       /\ u.stack = StackAfter(t, x)
       /\ u.effects = t.effects + Cardinality(EffectsIn(Whole(x)))
       /\ u.events = t.events \cup Events(Whole(x), Computed(t, x), t.effects)
  BY <1>11, ExecutedIs
<1>22. /\ \A r \in Reg : r \in y.definitions => u2.env[r] = Result(t2, y)
       /\ \A r \in Reg : r \notin y.definitions => u2.env[r] = t2.env[r]
       /\ u2.stack = StackAfter(t2, y)
       /\ u2.effects = t2.effects + Cardinality(EffectsIn(Whole(y)))
       /\ u2.events = t2.events \cup Events(Whole(y), Computed(t2, y), t2.effects)
  BY <1>11, ExecutedIs
<1>. HIDE DEF u, u2
<1>23. Computed(t2, y) = v /\ StackAfter(t2, y) = t2.stack
  <2>1. Full(y)
    BY <1>2 DEF Full
  <2>. QED  BY <1>2, <1>3, <1>14, <1>17, <2>1, FullComputed
<1>24. Result(t, x) = v /\ Result(t2, y) = v
  BY <1>2, <1>15, <1>23 DEF Result
<1>25. /\ \A r \in Reg : t2.env[r] = t.env[r]
       /\ Lost(t.stack, t2.stack, m, Len(st) - m)
       /\ t.effects = t2.effects + n
       /\ t.events = t2.events \cup X
  BY <1>10 DEF Apart
<1>26. u.stack = u2.stack
  <2>. DEFINE b == Len(st) - m
  <2>1. StackAfter(t, x) = SubSeq(t.stack, m + 1, Len(t.stack))
    BY <1>2, <1>12 DEF StackAfter
  <2>2. b \in Nat /\ Len(t2.stack) = b
    <3>1. Len(t.stack) = Len(t2.stack) + m
      BY <1>25 DEF Lost
    <3>. QED  BY <1>0, <1>8, <1>16, <3>1
  <2>3. Lost(t.stack, t2.stack, m, b)
    BY <1>25
  <2>. HIDE DEF b
  <2>4. SubSeq(t.stack, m + 1, Len(t.stack)) = t2.stack
    BY <1>0, <1>16, <2>2, <2>3, LostTaken
  <2>. QED  BY <1>21, <1>22, <1>23, <2>1, <2>4
<1>27. Lost(u.stack, u2.stack, 0, 0)
  <2>1. u2.stack = t2.stack
    BY <1>22, <1>23
  <2>2. 0 <= Len(u.stack) /\ IsStack(u.stack) /\ IsStack(u2.stack)
    BY <1>16, <1>26, <2>1
  <2>. QED  BY <1>26, <2>2, LostNothing
<1>28. u.effects = u2.effects + 0
  BY <1>14, <1>16, <1>19, <1>20, <1>21, <1>22, <1>25
<1>29. u.events = u2.events \cup {}
  <2>1. u.events = (t2.events \cup X) \cup {<<t.effects + 1, v>>}
    BY <1>15, <1>20, <1>21, <1>25
  <2>2. u2.events = t2.events \cup ({<<t2.effects + n + 1, v>>} \cup X)
    BY <1>14, <1>18, <1>22, <1>23
  <2>. QED  BY <1>25, <2>1, <2>2
<1>30. \A r \in Reg : u2.env[r] = u.env[r]
  BY <1>2, <1>21, <1>22, <1>24, <1>25
<1>31. Apart(u, u2, {}, 0, 0, 0, {})
  BY <1>27, <1>28, <1>29, <1>30 DEF Apart
<1>. QED  BY <1>31 DEF u, u2

LEMMA CollectedMeans ==
  ASSUME NEW c, NEW d, NEW i, NEW st, NEW m, NEW K, Collects(c, d, i, st, m, K),
         NEW out \in SUBSET Reg
  PROVE  Meaning(d, out) = Meaning(c, out)
<1>. DEFINE D == [k \in Nat |-> {}]
            nothing == {}
<1>0. /\ i \in Nat /\ Len(c) \in Nat /\ i <= Len(c) /\ i \in 0 .. Len(c) /\ Len(c) \in i .. Len(c)
      /\ AreShaped(c) /\ AreShaped(d) /\ Len(d) = Len(c)
  <2>1. i \in Nat /\ Len(c) \in Nat /\ i <= Len(c)
    BY GatheringIs
  <2>. QED  BY <2>1 DEF Collects
<1>1. Apart(Run(c)[i], Run(d)[i], D[i], 0, 0, 0, {})
  BY <1>0, CallCollected
<1>2. Unmoving(c, d, D, i, Len(c), 0, 0, 0)
  <2>. SUFFICES ASSUME NEW k \in i + 1 .. Len(c)
                PROVE  /\ Alike(c[k], d[k])
                       /\ c[k].deleted => D[k - 1] \subseteq D[k]
                       /\ ~c[k].deleted =>
                            /\ D[k - 1] \ c[k].definitions \subseteq D[k]
                            /\ Unmoved(c[k], Run(d)[k - 1], D[k - 1], 0, 0, 0)
    BY DEF Unmoving
  <2>1. Alike(c[k], d[k])
    BY DEF Collects, Gathers, AreAlike
  <2>2. D[k] = {} /\ D[k - 1] = {}
    BY <1>0
  <2>. HIDE DEF D
  <2>3. Unmoved(c[k], Run(d)[k - 1], D[k - 1], 0, 0, 0)
    BY <2>2 DEF Unmoved
  <2>. QED  BY <2>1, <2>2, <2>3
<1>3. D[Len(c)] = nothing
  BY <1>0
<1>. HIDE DEF D, nothing
<1>4. \A k \in i .. Len(c) : Apart(Run(c)[k], Run(d)[k], D[k], 0, 0, 0, {})
  BY <1>0, <1>1, <1>2, ApartOn
<1>5. Apart(Run(c)[Len(c)], Run(d)[Len(c)], nothing, 0, 0, 0, {})
  BY <1>0, <1>3, <1>4
<1>6. nothing \cap out = {}
  BY DEF nothing
<1>. QED  BY <1>0, <1>5, <1>6, SameMeaning

(* The stack without what was taken. *)
LEMMA CollectedStack ==
  ASSUME NEW c, NEW d, NEW i, NEW st, NEW m, NEW K, Collects(c, d, i, st, m, K),
         NEW rest, rest = SubSeq(st, m + 1, Len(st))
  PROVE  StackMatches(Run(d), d, rest, i - 1)
<1>. DEFINE s == Run(c)
            s2 == Run(d)
            b == Len(st) - m
            e == Pushed(c, st, K)
            n == Cardinality(EffectsIn(e))
            X == Events(e, Value(e, s[st[K] - 1]), s[st[K] - 1].effects)
<1>0. /\ i \in Nat /\ i >= 1 /\ Len(st) \in Nat /\ Len(c) \in Nat /\ i <= Len(c)
      /\ m \in Nat /\ m >= 1 /\ m <= Len(st)
      /\ \A j \in 1 .. Len(st) : st[j] \in Nat /\ st[j] >= 1 /\ st[j] <= i - 1
      /\ \A j, l \in 1 .. Len(st) : l < j => st[l] > st[j]
  BY GatheringIs
<1>1. MovedEffects(c, st, s, K, n, X)
  BY DEF MovedEffects
<1>2. AreShaped(d) /\ AreShaped(c) /\ Len(d) = Len(c) /\ PushesAt(c, st, i)
  BY DEF Collects
<1>3. \A k \in 0 .. Len(c) : IsState(s[k]) /\ IsState(s2[k])
  BY <1>2, RunStates
<1>. HIDE DEF s, s2, e, n, X
<1>4. s = Run(c) /\ s2 = Run(d)
  BY DEF s, s2
<1>5. \A l \in 0 .. st[m] - 1 : s2[l] = s[l]
  BY <1>4, GatherStart
<1>6. \A k \in st[m] - 1 .. i - 1 : \E q : Gathering(st, s, s2, m, K, n, X, k, q)
  BY <1>1, <1>4, GatherRun
<1>7. Apart(s[i - 1], s2[i - 1], {}, m, b, n, X)
  BY <1>1, <1>4, AllMet
<1>8. m \in 1 .. Len(st) /\ st[m] \in Nat /\ st[m] >= 1 /\ st[m] <= i - 1 /\ b \in Nat
  BY <1>0
<1>9. Len(rest) = b /\ \A j \in 1 .. b : rest[j] = st[j + m]
  <2>. DEFINE A == 1 .. i - 1
  <2>1. st \in Seq(A)
    BY <1>2 DEF PushesAt, ArePlaces
  <2>. HIDE DEF A
  <2>2. Len(rest) = Len(st) - (m + 1) + 1
    BY <1>0, <2>1
  <2>3. \A j \in 1 .. Len(st) - (m + 1) + 1 : rest[j] = st[(m + 1) + j - 1]
    BY <1>0, <2>1
  <2>4. Len(st) - (m + 1) + 1 = b /\ \A j \in 1 .. b : (m + 1) + j - 1 = j + m
    BY <1>0
  <2>. QED  BY <2>2, <2>3, <2>4
<1>10. Len(s2[i - 1].stack) = b
  <2>1. Len(s[i - 1].stack) = Len(st)
    BY <1>2, <1>4 DEF PushesAt, StackMatches
  <2>2. Len(s[i - 1].stack) = Len(s2[i - 1].stack) + m
    BY <1>7 DEF Apart, Lost
  <2>3. IsState(s2[i - 1])
    BY <1>0, <1>3
  <2>4. Len(s2[i - 1].stack) \in Nat
    BY <2>3 DEF IsState, IsStack
  <2>. QED  BY <1>0, <2>1, <2>2, <2>4
<1>11. ASSUME NEW j \in 1 .. b PROVE OnStack(s2, d, rest[j], b - j + 1, i - 1)
  <2>. DEFINE l == j + m
              p == st[l]
              h == b - j + 1
  <2>1. l \in 1 .. Len(st) /\ m < l /\ h = Len(st) - l + 1 /\ h \in Nat /\ h >= 1 /\ h <= b /\ rest[j] = p
    BY <1>0, <1>9
  <2>. HIDE DEF l, h
  <2>2. p \in Nat /\ p >= 1 /\ p <= i - 1 /\ p < st[m]
    BY <1>0, <1>8, <2>1
  <2>3. ~IsTaken(st, m, p)
    <3>. SUFFICES ASSUME NEW q \in 1 .. m, st[q] = p PROVE FALSE
      BY DEF IsTaken
    <3>1. q \in 1 .. Len(st) /\ q < l
      <4>. HIDE DEF p
      <4>1. l \in Nat /\ m < l /\ l <= Len(st) /\ m \in Nat /\ Len(st) \in Nat
        BY <1>0, <2>1
      <4>. QED  BY <4>1
    <3>. QED  BY <1>0, <2>1, <2>2, <3>1, SMTT(30)
  <2>. DEFINE v == Value(c[p].operands[1], s[p - 1])
  <2>4. OnStack(s, c, p, h, i - 1)
    BY <1>2, <1>4, <2>1 DEF PushesAt, StackMatches
  <2>. HIDE DEF p
  <2>5. Len(s[p].stack) = h /\ \A k \in p .. i - 1 : Holds(s[k].stack, h, v)
    BY <2>4 DEF OnStack
  <2>6. s2[p] = s[p] /\ s2[p - 1] = s[p - 1]
    BY <1>5, <1>8, <2>2
  <2>7. d[p].operands = c[p].operands
    <3>1. p \in 1 .. i - 1
      BY <1>0, <2>2
    <3>. QED  BY <2>3, <3>1 DEF Collects, Gathers, Alike
  <2>8. Value(d[p].operands[1], s2[p - 1]) = v
    BY <2>6, <2>7
  <2>. HIDE DEF v
  <2>9. ASSUME NEW k \in p .. i - 1 PROVE Holds(s2[k].stack, h, v)
    <3>0. k \in Nat /\ k <= i - 1 /\ k \in 0 .. Len(c) /\ Holds(s[k].stack, h, v)
      BY <1>0, <2>2, <2>5
    <3>1. CASE k <= st[m] - 1
      <4>1. s2[k] = s[k]
        BY <1>5, <1>8, <3>0, <3>1
      <4>. QED  BY <3>0, <4>1
    <3>2. CASE ~(k <= st[m] - 1)
      <4>1. k \in st[m] - 1 .. i - 1
        BY <1>8, <3>0, <3>2
      <4>2. PICK q : Gathering(st, s, s2, m, K, n, X, k, q)
        BY <1>6, <4>1
      <4>. DEFINE old == s[k].stack
                  new == s2[k].stack
      <4>3. q \in Nat /\ Lost(old, new, q, b)
        BY <1>0, <4>2 DEF Gathering, Met, Apart
      <4>4. Len(old) \in Nat /\ Len(new) \in Nat
        BY <1>3, <3>0 DEF IsState, IsStack
      <4>. HIDE DEF old, new
      <4>5. h <= Len(old) /\ old[Len(old) - h + 1] = v
        BY <3>0 DEF Holds, old
      <4>6. Len(old) = Len(new) + q /\ b <= Len(new)
            /\ \A x \in 1 .. Len(new) : new[x] = old[IF x <= Len(new) - b THEN x ELSE x + q]
        BY <4>3 DEF Lost
      <4>7. h <= Len(new) /\ Len(new) - h + 1 \in 1 .. Len(new) /\ ~(Len(new) - h + 1 <= Len(new) - b)
            /\ (Len(new) - h + 1) + q = Len(old) - h + 1
        BY <1>8, <2>1, <4>3, <4>4, <4>6
      <4>8. new[Len(new) - h + 1] = old[Len(old) - h + 1]
        BY <4>6, <4>7
      <4>. QED  BY <4>5, <4>7, <4>8 DEF Holds, new
    <3>. QED  BY <3>1, <3>2
  <2>10. OnStack(s2, d, p, h, i - 1)
    BY <2>5, <2>6, <2>8, <2>9 DEF OnStack
  <2>. QED  BY <2>1, <2>10 DEF p, h
<1>12. StackMatches(s2, d, rest, i - 1)
  BY <1>9, <1>10, <1>11 DEF StackMatches
<1>. QED  BY <1>12 DEF s2

(* What is collected with care is not disturbed. *)
Places(st, m) == {st[j] : j \in 1 .. m}

LEMMA PlacesAre ==
  ASSUME NEW st, NEW m
  PROVE  \A k : k \in Places(st, m) <=> IsTaken(st, m, k)
BY DEF Places, IsTaken

LEMMA CarefulTaken ==
  ASSUME IInv, ProgramInv, phase # "chains", item \in Item, NEW m \in 1 .. Len(stack),
         ~CollectingIsCareless(Places(stack, m))
  PROVE  \E K : Undisturbed(code, stack, item, m, K)
<1>. DEFINE taken == Places(stack, m)
            e(j) == Pushed(code, stack, j)
<1>1. /\ Item = 1 .. Len(code) /\ Len(code) \in Nat /\ item \in Nat
      /\ ArePlaces(stack, item - 1) /\ item - 1 \in Nat
      /\ item \in 1 .. Len(code) + 1
  BY Ready DEF ProgramInv
<1>2. Len(stack) \in Nat /\ \A j \in 1 .. Len(stack) : stack[j] \in 1 .. item - 1
  <2>. DEFINE A == 1 .. item - 1
  <2>1. stack \in Seq(A)
    BY <1>1 DEF ArePlaces
  <2>. HIDE DEF A
  <2>2. Len(stack) \in Nat /\ \A j \in 1 .. Len(stack) : stack[j] \in A
    BY <2>1
  <2>. QED  BY <2>2 DEF A
<1>3. \A k : k \in taken <=> IsTaken(stack, m, k)
  BY PlacesAre
<1>. HIDE DEF taken
<1>4. ASSUME NEW j \in 1 .. m
      PROVE  /\ j \in 1 .. Len(stack) /\ stack[j] \in Item /\ stack[j] \in Nat /\ stack[j] \in taken
             /\ stack[j] < item
             /\ code[stack[j]].type = "push" /\ ~code[stack[j]].deleted
             /\ HasShape(code[stack[j]]) /\ IsExpression(e(j)) /\ Whole(code[stack[j]]) = e(j)
             /\ code[stack[j]].definitions = {}
             /\ \A l \in 1 .. j - 1 : stack[l] > stack[j]
  <2>1. j \in 1 .. Len(stack)
    BY <1>2
  <2>2. stack[j] \in 1 .. item - 1
    BY <1>2, <2>1
  <2>3. stack[j] \in Item /\ stack[j] \in Nat /\ stack[j] < item
    BY <1>1, <2>2
  <2>4. DOMAIN stack = 1 .. Len(stack)
    BY <1>1 DEF ArePlaces
  <2>5. /\ code[stack[j]].type = "push" /\ ~code[stack[j]].deleted
        /\ \A l \in 1 .. j - 1 : stack[l] > stack[j]
    BY <2>1, <2>4 DEF IInv, StackIsLive
  <2>6. HasShape(code[stack[j]])
    BY <2>3 DEF ProgramInv, ShapeInv
  <2>. DEFINE x == code[stack[j]]
  <2>7. HasShape(x) /\ x.type = "push"
    BY <2>5, <2>6
  <2>. HIDE DEF x
  <2>8. Whole(x) = x.operands[1] /\ IsExpression(Whole(x)) /\ x.definitions = {}
    BY <2>7, WholeOf DEF HasShape
  <2>9. Whole(code[stack[j]]) = e(j) /\ IsExpression(e(j)) /\ code[stack[j]].definitions = {}
    BY <2>8 DEF x, Pushed
  <2>10. stack[j] \in taken
    BY <1>3 DEF IsTaken
  <2>. QED  BY <2>1, <2>3, <2>5, <2>6, <2>9, <2>10
<1>5. ASSUME NEW j \in 1 .. m, NEW l \in 1 .. m, l # j PROVE stack[l] > stack[j] \/ stack[j] > stack[l]
  <2>1. l \in 1 .. j - 1 \/ j \in 1 .. l - 1
    BY <1>5
  <2>. QED  BY <1>4, <2>1
<1>6. ASSUME NEW j \in 1 .. m, HasCall(e(j)) \/ ReadsMemory(e(j)),
             NEW l \in 1 .. m, stack[l] > stack[j]
      PROVE  ~HasCall(e(l))
  <2>1. stack[j] \in taken /\ stack[l] \in taken
    BY <1>4
  <2>. QED  BY <1>6, <2>1 DEF CollectingIsCareless, Pushed, taken
<1>7. ASSUME NEW j \in 1 .. m, NEW k \in stack[j] + 1 .. item - 1, k \notin taken
      PROVE  ~Disturbs(k, e(j))
  <2>1. stack[j] \in taken
    BY <1>4
  <2>. QED  BY <1>7, <2>1 DEF CollectingIsCareless, Pushed, taken
<1>8. \E K \in 1 .. m : \A j \in 1 .. m : j # K => ~HasCall(e(j))
  <2>1. CASE \E K \in 1 .. m : HasCall(e(K))
    <3>1. PICK K \in 1 .. m : HasCall(e(K))
      BY <2>1
    <3>2. ASSUME NEW j \in 1 .. m, j # K, HasCall(e(j)) PROVE FALSE
      <4>. HIDE DEF e
      <4>1. stack[K] > stack[j] \/ stack[j] > stack[K]
        BY <1>5, <3>2
      <4>. QED  BY <1>6, <3>1, <3>2, <4>1
    <3>. QED  BY <3>2
  <2>2. CASE ~\E K \in 1 .. m : HasCall(e(K))
    <3>1. 1 \in 1 .. m
      BY <1>2
    <3>. QED  BY <2>2, <3>1
  <2>. QED  BY <2>1, <2>2
<1>9. PICK K \in 1 .. m : \A j \in 1 .. m : j # K => ~HasCall(e(j))
  BY <1>8
<1>10. ASSUME NEW j \in 1 .. m, j # K PROVE EffectsIn(e(j)) = {}
  BY <1>4, <1>9, <1>10, OnlyCalls
<1>11. ASSUME NEW j \in 1 .. m, NEW k \in stack[j] + 1 .. item - 1, ~code[k].deleted
       PROVE  /\ code[k].definitions \cap RegistersOf(e(j)) = {}
              /\ HasCall(e(j)) \/ ReadsMemory(e(j)) => EffectsIn(Whole(code[k])) = {}
              /\ HasCall(e(j)) /\ ~IsTaken(stack, m, k) => ~ReadsMemory(Whole(code[k]))
  <2>1. CASE k \in taken
    <3>1. IsTaken(stack, m, k)
      BY <1>3, <2>1
    <3>2. PICK l \in 1 .. m : stack[l] = k
      BY <3>1 DEF IsTaken
    <3>3. stack[l] > stack[j]
      <4>1. stack[j] \in Nat /\ k \in stack[j] + 1 .. item - 1
        BY <1>4
      <4>. QED  BY <1>1, <3>2, <4>1
    <3>4. code[k].definitions = {} /\ Whole(code[k]) = e(l) /\ IsExpression(e(l))
      BY <1>4, <3>2
    <3>5. HasCall(e(j)) \/ ReadsMemory(e(j)) => EffectsIn(Whole(code[k])) = {}
      <4>1. ASSUME HasCall(e(j)) \/ ReadsMemory(e(j)) PROVE EffectsIn(e(l)) = {}
        <5>1. ~HasCall(e(l))
          BY <1>6, <3>3, <4>1
        <5>. QED  BY <3>4, <5>1, OnlyCalls
      <4>. QED  BY <3>4, <4>1
    <3>. QED  BY <3>1, <3>4, <3>5
  <2>2. CASE k \notin taken
    <3>1. ~Disturbs(k, e(j))
      BY <1>7, <2>2
    <3>. HIDE DEF e
    <3>. QED  BY <1>11, <3>1, Zenon DEF Disturbs
  <2>. QED  BY <2>1, <2>2
<1>12. Undisturbed(code, stack, item, m, K)
  BY <1>10, <1>11 DEF Undisturbed
<1>. QED  BY <1>12

(* A call that takes nothing runs as before. *)
LEMMA NothingCollected ==
  ASSUME NEW s, NEW c, NEW d, TakenFrom(s, c) = 0, d.collected, d.type = c.type, Whole(d) = Whole(c),
         d.definitions = c.definitions
  PROVE  Executed(s, d) = Executed(s, c)
<1>1. TakenFrom(s, d) = 0
  BY DEF TakenFrom
<1>2. Computed(s, d) = Computed(s, c)
  BY <1>1 DEF Computed
<1>. QED  BY <1>1, <1>2 DEF Executed

(* A call that has got its parameters is still an instruction. *)
LEMMA CollectedShape ==
  ASSUME NEW c, HasShape(c), c.type = "assign", c.operands[2][<<>>][1] = "call",
         NEW args, DOMAIN args \subseteq Nat, IsFiniteSet(DOMAIN args),
         \A j \in DOMAIN args : IsExpression(args[j]),
         NEW d, d.type = c.type, d.params = c.params, d.definitions = c.definitions, d.collected,
         NEW e, e = c.operands[2] \/ e = Apply(c.operands[2][<<>>], args),
         d.operands = [c.operands EXCEPT ![2] = e]
  PROVE  HasShape(d)
<1>. DEFINE l == c.operands[2][<<>>]
<1>1. l[1] = "call"
  OBVIOUS
<1>. HIDE DEF l
<1>2. IsExpression(Apply(l, args))
  <2>1. \A j \in DOMAIN args : IsTerm(args[j])
    BY DEF IsExpression
  <2>. QED  BY <1>1, <2>1, ApplyTerm
<1>3. DOMAIN c.operands = {1, 2} /\ \A o \in DOMAIN c.operands : IsExpression(c.operands[o])
  BY OperandsAre
<1>4. IsExpression(e)
  BY <1>2, <1>3 DEF l
<1>5. \A o \in DOMAIN d.operands : IsExpression(d.operands[o])
  BY <1>3, <1>4
<1>6. DOMAIN d.operands = DOMAIN c.operands /\ Arity(d) = Arity(c)
  BY SMTT(30) DEF Arity
<1>. QED  BY <1>5, <1>6 DEF HasShape

LEMMA CollectParametersProgram ==
  ASSUME IInv, ProgramInv, CollectParameters
  PROVE  ProgramInv'
<1>. DEFINE m == ParametersTaken(code[item].params, Len(stack))
            taken == {stack[j] : j \in 1 .. m}
            pushed(k) == code[k].operands[1]
            args == [j \in 1 .. m |-> pushed(stack[j])]
            call(e) == IF m = 0 THEN e ELSE Apply(e[<<>>], args)
            x(c) == [c EXCEPT !.collected = TRUE, !.operands[2] = call(@)]
            y(c, k) == [c EXCEPT !.deleted = @ \/ k \in taken]
            w == item - 1
<1>1. /\ AtItem("parameters") /\ IsCall(item) /\ ~code[item].collected
      /\ code' = [k \in Item |-> IF k = item THEN x(code[k]) ELSE y(code[k], k)]
      /\ stack' = SubSeq(stack, m + 1, Len(stack))
      /\ careless' = (careless \/ CollectingIsCareless(taken))
      /\ phase' = "instruction"
      /\ UNCHANGED <<cut, liveOut, item, meaning>>
  BY ZenonT(40) DEF CollectParameters
<1>2. /\ phase = "parameters" /\ item \in Item /\ Item = 1 .. Len(code) /\ Len(code) \in Nat
      /\ item \in Nat /\ ~code[item].deleted /\ stack \in Seq(Item) /\ Len(stack) \in Nat
      /\ IsInstruction(code[item])
  BY <1>1, AtItemIs, LenProperties DEF AtItem
<1>3. m \in 0 .. Len(stack) /\ (m # 0 => code[item].params # 0)
  BY <1>2 DEF ParametersTaken, UnknownCount, IsInstruction
<1>4. \A k \in Item : IsInstruction(code[k]) /\ HasShape(code[k])
  BY <1>2 DEF IInv, ListInv, ProgramInv, ShapeInv
<1>5. /\ AreShaped(code) /\ w \in Nat /\ w + 1 = item /\ ArePlaces(stack, w) /\ cut \in Item
      /\ IsList(code, Len(code)) /\ \A k \in Item : k >= item => ~code[k].deleted
  BY Ready DEF ProgramInv
<1>6. \A j \in 1 .. Len(stack) :
        /\ stack[j] \in Item /\ stack[j] < item
        /\ code[stack[j]].type = "push" /\ ~code[stack[j]].deleted
        /\ \A l \in 1 .. j - 1 : stack[l] > stack[j]
  BY <1>2, ElementOfSeq, LenProperties DEF IInv, BehindInv, StackIsLive
<1>. HIDE DEF m
<1>7. taken = Places(stack, m) /\ \A k : k \in taken <=> IsTaken(stack, m, k)
  BY PlacesAre DEF Places
<1>8. \A k \in taken : k \in Item /\ k < item
  BY <1>2, <1>3, <1>6
<1>. HIDE DEF taken
<1>9. DOMAIN args = 1 .. m /\ \A j \in DOMAIN args : IsExpression(args[j])
  <2>1. ASSUME NEW j \in 1 .. m PROVE IsExpression(pushed(stack[j]))
    <3>1. j \in 1 .. Len(stack)
      BY <1>2, <1>3
    <3>. DEFINE p == code[stack[j]]
    <3>2. HasShape(p) /\ p.type = "push"
      BY <1>4, <1>6, <3>1
    <3>. HIDE DEF p
    <3>3. IsExpression(p.operands[1])
      BY <3>2, OperandsAre
    <3>. QED  BY <3>3 DEF p
  <2>. QED  BY <2>1
<1>10. DOMAIN args \subseteq Nat /\ IsFiniteSet(DOMAIN args)
  BY <1>2, <1>3, <1>9, FS_Interval
<1>. HIDE DEF args, w
<1>. DEFINE c == code[item]
            d == x(c)
<1>11. c.type = "assign" /\ c.operands[2][<<>>][1] = "call" /\ IsInstruction(c) /\ HasShape(c)
       /\ ~c.collected /\ ~c.deleted
  BY <1>1, <1>2, <1>4 DEF IsCall
<1>12. \A k \in Item : code'[k] = IF k = item THEN d ELSE y(code[k], k)
  BY <1>1
<1>. HIDE DEF c, call
<1>13. /\ d.type = c.type /\ d.chain = c.chain /\ d.uses = c.uses /\ d.deleted = c.deleted
       /\ d.params = c.params /\ d.definitions = c.definitions /\ d.last = c.last
       /\ d.operands = [c.operands EXCEPT ![2] = call(@)]
  BY <1>11 DEF IsInstruction, Fields
<1>14. d.collected
  BY <1>11 DEF IsInstruction, Fields
<1>. HIDE DEF d
<1>15. code'[item] = d
  BY <1>2, <1>12
<1>16. HasShape(d)
  <2>1. call(c.operands[2]) = c.operands[2] \/ call(c.operands[2]) = Apply(c.operands[2][<<>>], args)
    BY DEF call
  <2>2. d.operands = [c.operands EXCEPT ![2] = call(c.operands[2])]
    BY <1>13
  <2>. DEFINE e == call(c.operands[2])
  <2>. HIDE DEF e
  <2>3. (e = c.operands[2] \/ e = Apply(c.operands[2][<<>>], args)) /\ d.operands = [c.operands EXCEPT ![2] = e]
    BY <2>1, <2>2 DEF e
  <2>. QED  BY <1>9, <1>10, <1>11, <1>13, <1>14, <2>3, CollectedShape
<1>17. ASSUME NEW k \in Item, k # item
       PROVE  /\ code'[k].type = code[k].type /\ code'[k].operands = code[k].operands
              /\ code'[k].params = code[k].params /\ code'[k].definitions = code[k].definitions
              /\ code'[k].chain = code[k].chain /\ code'[k].last = code[k].last
              /\ code'[k].uses = code[k].uses /\ code'[k].collected = code[k].collected
              /\ Used(code'[k]) = Used(code[k]) /\ HasShape(code'[k])
              /\ code'[k].deleted = (code[k].deleted \/ k \in taken)
              /\ (k \notin taken => Alike(code[k], code'[k]))
              /\ (k \in taken => code'[k].deleted)
  <2>. DEFINE a == code[k]
              b == code'[k]
  <2>1. b = y(a, k) /\ IsInstruction(a) /\ HasShape(a)
    BY <1>4, <1>12, <1>17
  <2>. HIDE DEF a, b
  <2>2. /\ b.type = a.type /\ b.operands = a.operands /\ b.params = a.params
        /\ b.definitions = a.definitions /\ b.chain = a.chain /\ b.last = a.last
        /\ b.uses = a.uses /\ b.collected = a.collected
        /\ b.deleted = (a.deleted \/ k \in taken) /\ a.deleted \in BOOLEAN
    BY <2>1 DEF IsInstruction, Fields
  <2>3. Used(b) = Used(a)
    BY <2>2 DEF Used, UsedOperands
  <2>4. HasShape(b)
    BY <2>1, <2>2 DEF HasShape, Arity
  <2>5. k \notin taken => b.deleted = a.deleted
    BY <2>2, Zenon
  <2>6. k \in taken => b.deleted
    BY <2>2, Zenon
  <2>7. k \notin taken => Alike(a, b)
    BY <2>2, <2>5 DEF Alike
  <2>. QED  BY <2>2, <2>3, <2>4, <2>6, <2>7 DEF a, b
<1>18. Item' = Item /\ Len(code') = Len(code)
  <2>1. DOMAIN code' = 1 .. Len(code)
    BY <1>1, <1>2
  <2>2. IsList(code', Len(code))
    BY <1>1, <1>2, <2>1 DEF IsList
  <2>. QED  BY <1>1, <1>2, <2>1, <2>2, ListLength DEF Item
<1>19. \A k \in Item : HasShape(code'[k])
  BY <1>15, <1>16, <1>17
<1>20. AreShaped(code')
  BY <1>2, <1>18, <1>19 DEF AreShaped
<1>21. ~careless' => ~careless /\ ~CollectingIsCareless(taken)
  BY <1>1, Zenon
<1>22. \A k \in Item : k > item => k # item /\ k \notin taken /\ Alike(code[k], code'[k])
  <2>1. \A k \in Item : k > item => k # item /\ ~(k < item)
    BY <1>2
  <2>. QED  BY <1>8, <1>17, <2>1
<1>23. AreAlike(code, code', item, Len(code))
  <2>1. \A k \in item + 1 .. Len(code) : k \in Item /\ k > item
    BY <1>2
  <2>. QED  BY <1>22, <2>1 DEF AreAlike
<1>24. liveOut[2] \in SUBSET Reg
  BY DEF ProgramInv, NodeInv
<1>25. ~careless => StackMatches(Run(code), code, stack, w)
  BY <1>2 DEF ProgramInv, StackRun, w
<1>26. ASSUME m = 0, ~careless
       PROVE  /\ StackMatches(Run(code'), code', stack', w)
              /\ Meaning(code', liveOut[2]) = Meaning(code, liveOut[2])
  <2>1. \A k : k \notin taken
    <3>1. \A j : j \notin 1 .. m
      BY <1>26
    <3>. QED  BY <1>7, <3>1 DEF IsTaken
  <2>2. \A k \in Item : k < item => Alike(code[k], code'[k])
    BY <1>2, <1>17, <2>1
  <2>3. stack' = stack
    <3>1. m + 1 = 1
      BY <1>26
    <3>2. stack' = SubSeq(stack, m + 1, Len(stack))
      BY <1>1, Zenon
    <3>3. stack' = SubSeq(stack, 1, Len(stack))
      BY <3>1, <3>2
    <3>. QED  BY <1>2, <3>3
  <2>4. /\ \A i \in 0 .. item - 1 : Run(code')[i] = Run(code)[i]
        /\ StackMatches(Run(code'), code', stack, item - 1)
    BY <1>2, <1>18, <1>26, <2>2, RunBehind
  <2>. DEFINE s == Run(code)[item - 1]
              t == Run(code')[item - 1]
  <2>5. t = s /\ Len(s.stack) = Len(stack)
    <3>1. item - 1 \in 0 .. item - 1
      BY <1>2
    <3>2. t = s
      BY <2>4, <3>1
    <3>3. StackMatches(Run(code), code, stack, item - 1)
      BY <1>25, <1>26 DEF w
    <3>4. Len(Run(code)[item - 1].stack) = Len(stack)
      BY <3>3 DEF StackMatches
    <3>. QED  BY <3>2, <3>4
  <2>6. /\ item \in 1 .. Len(code) /\ item \in 1 .. Len(code')
        /\ Run(code)[item] = After(s, c) /\ Run(code')[item] = After(t, d)
    <3>1. item \in 1 .. Len(code) /\ Len(code') \in Nat
      BY <1>2, <1>18
    <3>. QED  BY <1>2, <1>15, <1>18, <3>1, RunIs DEF c
  <2>. HIDE DEF s, t
  <2>7. ParametersTaken(c.params, Len(stack)) = 0
    BY <1>26 DEF m, c
  <2>8. TakenFrom(s, c) = 0
    BY <1>11, <2>5, <2>7 DEF TakenFrom
  <2>9. Whole(d) = Whole(c)
    <3>1. call(c.operands[2]) = c.operands[2] /\ 2 \in DOMAIN c.operands
      BY <1>11, <1>26, OperandsAre DEF call
    <3>2. d.operands[2] = c.operands[2]
      BY <1>13, <3>1
    <3>. QED  BY <1>11, <1>13, <3>2 DEF Whole
  <2>10. Executed(s, d) = Executed(s, c)
    BY <1>13, <1>14, <2>8, <2>9, NothingCollected
  <2>11. Run(code')[item] = Run(code)[item]
    BY <1>11, <1>13, <2>5, <2>6, <2>10 DEF After
  <2>12. Run(code')[Len(code)] = Run(code)[Len(code)]
    <3>1. item \in 0 .. Len(code) /\ Len(code) \in item .. Len(code)
      BY <1>2
    <3>2. \A k \in item .. Len(code) : Run(code')[k] = Run(code)[k]
      BY <1>2, <1>18, <1>23, <2>11, <3>1, RunAlike
    <3>. QED  BY <3>1, <3>2
  <2>13. Meaning(code', liveOut[2]) = Meaning(code, liveOut[2])
    BY <1>18, <2>12 DEF Meaning
  <2>. QED  BY <2>3, <2>4, <2>13 DEF w
<1>27. ASSUME m # 0, ~careless, ~CollectingIsCareless(taken)
       PROVE  /\ StackMatches(Run(code'), code', stack', w)
              /\ Meaning(code', liveOut[2]) = Meaning(code, liveOut[2])
  <2>1. m \in 1 .. Len(stack) /\ phase # "chains"
    BY <1>2, <1>3, <1>27
  <2>2. PICK K : Undisturbed(code, stack, item, m, K)
    BY <1>2, <1>7, <1>27, <2>1, CarefulTaken
  <2>3. PushesAt(code, stack, item)
    <3>1. StackMatches(Run(code), code, stack, item - 1) /\ ArePlaces(stack, item - 1)
      BY <1>5, <1>25, <1>27 DEF w
    <3>2. \A k \in 1 .. item - 1 : ~code[k].deleted => Full(code[k])
      <4>1. \A k \in 1 .. item - 1 : k \in Item /\ k < item
        BY <1>2
      <4>. QED  BY <2>1, <4>1 DEF ProgramInv, FullInv
    <3>. QED  BY <1>6, <3>1, <3>2 DEF PushesAt
  <2>4. Gathers(code, code', stack, item, m)
    <3>1. \A k \in 1 .. item - 1 :
            IF IsTaken(stack, m, k) THEN code'[k].deleted ELSE Alike(code[k], code'[k])
      <4>1. \A k \in 1 .. item - 1 : k \in Item /\ k # item
        BY <1>2
      <4>. QED  BY <1>7, <1>17, <4>1
    <3>2. c.params # 0 /\ ParametersTaken(c.params, Len(stack)) = m
      BY <1>3, <1>27 DEF m, c
    <3>3. d.operands[2] = Apply(c.operands[2][<<>>], args)
      <4>1. call(c.operands[2]) = Apply(c.operands[2][<<>>], args)
        BY <1>27 DEF call
      <4>2. 2 \in DOMAIN c.operands
        BY <1>11, OperandsAre
      <4>. QED  BY <1>13, <4>1, <4>2
    <3>4. args = [j \in 1 .. m |-> Pushed(code, stack, j)]
      BY DEF args, Pushed
    <3>5. /\ ~code[item].deleted /\ ~code'[item].deleted /\ code[item].type = "assign"
          /\ code'[item].type = "assign" /\ code[item].params # 0 /\ ~code[item].collected
          /\ code'[item].collected /\ code'[item].definitions = code[item].definitions
          /\ ParametersTaken(code[item].params, Len(stack)) = m
          /\ code'[item].operands[2] =
               Apply(code[item].operands[2][<<>>], [j \in 1 .. m |-> Pushed(code, stack, j)])
      <4>1. ~d.deleted
        BY <1>11, <1>13
      <4>. QED  BY <1>11, <1>13, <1>14, <1>15, <3>2, <3>3, <3>4, <4>1 DEF c
    <3>. QED  BY <1>23, <3>1, <3>5, Zenon DEF Gathers
  <2>5. Collects(code, code', item, stack, m, K)
    <3>1. item \in 1 .. Len(code)
      BY <1>2
    <3>. QED  BY <1>5, <1>18, <1>20, <2>1, <2>2, <2>3, <2>4, <3>1 DEF Collects
  <2>6. Meaning(code', liveOut[2]) = Meaning(code, liveOut[2])
    BY <1>24, <2>5, CollectedMeans
  <2>7. StackMatches(Run(code'), code', stack', w)
    BY <1>1, <2>5, CollectedStack DEF w
  <2>. QED  BY <2>6, <2>7
<1>28. ~careless' => /\ StackMatches(Run(code'), code', stack', w)
                     /\ Meaning(code', liveOut[2]) = Meaning(code, liveOut[2])
  BY <1>21, <1>26, <1>27
<1>29. CarefulMeansSameProgram'
  BY <1>1, <1>21, <1>28 DEF ProgramInv, CarefulMeansSameProgram
<1>30. StackRun'
  BY <1>1, <1>28, ZenonT(40) DEF StackRun, w
<1>31. FullInv'
  <2>1. ASSUME NEW k \in Item, ~code'[k].deleted, k < item \/ k = item PROVE Full(code'[k])
    <3>1. CASE k = item
      BY <1>14, <1>15, <3>1 DEF Full
    <3>2. CASE k # item
      <4>1. k \notin taken /\ k < item
        BY <1>17, <2>1, <3>2
      <4>2. Alike(code[k], code'[k])
        BY <1>17, <3>2, <4>1
      <4>3. Full(code[k])
        BY <1>2, <2>1, <4>1, <4>2 DEF ProgramInv, FullInv, Alike
      <4>. QED  BY <4>2, <4>3 DEF Full, Alike
    <3>. QED  BY <3>1, <3>2
  <2>. QED  BY <1>1, <1>18, <2>1 DEF FullInv
<1>32. \A k \in Item : /\ code'[k].definitions = code[k].definitions /\ code'[k].chain = code[k].chain
                       /\ code'[k].last = code[k].last
  BY <1>13, <1>15, <1>17 DEF c
<1>33. item <= cut => \A k \in Item : k > cut => code'[k].uses = code[k].uses /\ Used(code'[k]) = Used(code[k])
  <2>1. cut \in Nat
    BY <1>2, <1>5
  <2>2. item <= cut => \A k \in Item : k > cut => k # item
    BY <1>2, <2>1
  <2>. QED  BY <1>17, <2>2
<1>34. ~careless' => ~careless /\ \A k \in Item : k >= item =>
           \A r \in code[k].definitions : \A j \in Reached(k, r) :
             r \in Used(code'[j]) => r \in Used(code[j])
  <2>1. \A k \in Item : \A r : \A j \in Reached(k, r) : j \in Item /\ j > k
    BY ReachedIs DEF ProgramInv
  <2>2. \A k, j \in Item : k >= item /\ j > k => j # item
    BY <1>2, SMTT(30)
  <2>. QED  BY <1>17, <1>21, <2>1, <2>2
<1>35. ASSUME NEW k \in Item, k = item PROVE Known(k)'
  <2>1. k >= item /\ Known(k)
    BY <1>2, <1>35 DEF ProgramInv, KnownInv
  <2>2. ~careless' => ~careless /\ \A r \in code[k].definitions : \A j \in Reached(k, r) :
                                      r \in Used(code'[j]) => r \in Used(code[j])
    BY <1>34, <2>1
  <2>. QED  BY <1>1, <1>18, <1>32, <2>1, <2>2, KnownKept DEF ProgramInv
<1>36. item' \in Nat /\ item <= item' /\ phase # "chains" /\ phase' # "chains"
  <2>1. item' = item /\ phase' = "instruction"
    BY <1>1, Zenon
  <2>. QED  BY <1>2, <2>1
<1>37. ~careless' => ~careless /\ \A k \in Item : k > item =>
           \A r \in code[k].definitions : \A j \in Reached(k, r) :
             r \in Used(code'[j]) => r \in Used(code[j])
  <2>1. \A k \in Item : k > item => k >= item
    BY <1>2
  <2>. QED  BY <1>34, <2>1
<1>. QED  BY <1>1, <1>2, <1>18, <1>19, <1>29, <1>30, <1>31, <1>32, <1>33, <1>35, <1>36, <1>37, StepProgram

LEMMA ProgramInductive == Spec => []ProgramInv
<1>1. Init => ProgramInv
  BY InitProgram
<1>2. IInv /\ ProgramInv /\ [Next]_vars => ProgramInv'
  <2>. SUFFICES ASSUME IInv, ProgramInv, [Next]_vars PROVE ProgramInv'
    OBVIOUS
  <2>1. CASE FindChains
    BY <2>1, FindChainsProgram
  <2>2. CASE AnalyzeNodeList
    BY <2>2, AnalyzeProgram
  <2>3. CASE RemoveInstruction
    BY <2>3, RemoveInstructionProgram
  <2>4. CASE RemoveDefinition
    BY <2>4, RemoveDefinitionProgram
  <2>5. CASE KeepDefinition \/ NoParameters \/ Return
    BY <2>5, GoOnProgram
  <2>6. CASE CollectParameters
    BY <2>6, CollectParametersProgram
  <2>7. CASE ReplaceUseWithDefinition
    BY <2>7, ReplaceUseProgram
  <2>8. CASE LeaveAssignment \/ OnPush \/ OnPop \/ OnOther
    BY <2>8, StayProgram
  <2>9. CASE UNCHANGED vars
    <3>1. UNCHANGED <<code, cut, liveOut, item, stack, phase, careless, meaning>>
      BY <2>9 DEF vars
    <3>2. ShapeInv' /\ FullInv'
      BY <3>1 DEF ProgramInv, ShapeInv, FullInv, Item
    <3>3. KnownInv'
      <4>1. \A k \in Item : \A r : Reached(k, r)' = Reached(k, r)
        BY <3>1 DEF Reached, EndOfNode
      <4>2. \A k \in Item : EndOfNode(k)' = EndOfNode(k)
        BY <3>1 DEF EndOfNode
      <4>3. \A k \in Item : Known(k) => Known(k)'
        BY <3>1, <4>1, <4>2 DEF Known
      <4>. QED  BY <3>1, <4>3 DEF ProgramInv, KnownInv, Item
    <3>4. NodeInv'
      BY <3>1 DEF ProgramInv, NodeInv, Item
    <3>5. StackRun' /\ CarefulMeansSameProgram'
      BY <3>1 DEF ProgramInv, StackRun, CarefulMeansSameProgram
    <3>. QED  BY <3>2, <3>3, <3>4, <3>5 DEF ProgramInv
  <2>. QED  BY <2>1, <2>2, <2>3, <2>4, <2>5, <2>6, <2>7, <2>8, <2>9 DEF Next
<1>. QED  BY <1>1, <1>2, Inductive, PTL DEF Spec

(* As long as nothing was moved past what it reads or what reads it, and   *)
(* no call was deleted with what it is part of, the list that              *)
(* DataFlowAnalysis leaves behind stores, calls and tests what it did      *)
(* before, in the same order, and leaves the same in the registers that    *)
(* are live after it and on the stack: at every step, for a list of any    *)
(* length with expressions of any depth.                                   *)
THEOREM Meant == Spec => []CarefulMeansSameProgram
BY ProgramInductive, PTL DEF ProgramInv
=============================================================================
