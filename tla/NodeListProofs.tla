------------------------------ MODULE NodeListProofs ------------------------------
(***************************************************************************)
(* For functions of every length: CreateList drops no instruction, the     *)
(* successors of every node it makes are nodes of its list, and they are   *)
(* where the instruction list says control goes.                           *)
(***************************************************************************)
EXTENDS NodeList, Basics, SequenceTheorems, FiniteSetTheorems

Kinds == {"LABEL", "OTHER", "JUMP", "CONDITIONAL_JUMP", "RETURN", "SWITCH"}

MachineInstruction == [kind : Kinds, addr : Nat, to : Seq(Nat)]

-----------------------------------------------------------------------------
(* A sequence of sequences is flattened one element after another. *)
LEMMA FlattenSteps ==
  ASSUME NEW S, NEW s \in Seq(S), Len(s) # 0
  PROVE  \E f : /\ FlattenSeq(s) = f[Len(s)]
                /\ \A i \in 1 .. Len(s) : f[i] = IF i = 1 THEN s[i] ELSE f[i - 1] \o s[i]
<1>. DEFINE n == Len(s)
            Def(f, k) == [i \in 1 .. k |-> IF i = 1 THEN s[i] ELSE f[i - 1] \o s[i]]
            flatten == CHOOSE f : f = Def(f, n)
<1>1. n \in Nat \ {0}
  OBVIOUS
<1>2. FlattenSeq(s) = flatten[n]
  BY DEF FlattenSeq
<1>. HIDE DEF n
<1>3. \E f : f = Def(f, n)
  <2>. DEFINE possible(k) == \E f : f = Def(f, k)
              T == {k \in 0 .. n : ~possible(k)}
  <2>1. possible(0)
    <3>. DEFINE f == [i \in 1 .. 0 |-> 0]
    <3>1. f = Def(f, 0)
      OBVIOUS
    <3>. QED  BY <3>1
  <2>2. ASSUME NEW k \in 1 .. n, possible(k - 1) PROVE possible(k)
    <3>1. PICK f : f = Def(f, k - 1)
      BY <2>2
    <3>. DEFINE value(i) == IF i = 1 THEN s[i] ELSE f[i - 1] \o s[i]
                g == [i \in 1 .. k |-> value(i)]
    <3>2. f = [i \in 1 .. k - 1 |-> value(i)]
      BY <3>1
    <3>. HIDE DEF value
    <3>3. \A i \in 1 .. k - 1 : i \in 1 .. k /\ g[i] = f[i]
      BY <1>1, <3>2
    <3>4. \A i \in 1 .. k : i # 1 => i - 1 \in 1 .. k - 1
      BY <1>1
    <3>5. \A i \in 1 .. k : value(i) = IF i = 1 THEN s[i] ELSE g[i - 1] \o s[i]
      BY <3>3, <3>4 DEF value
    <3>6. g = Def(g, k)
      BY <3>5
    <3>. QED  BY <3>6
  <2>. HIDE DEF possible
  <2>3. ASSUME ~possible(n) PROVE FALSE
    <3>1. T \in SUBSET Nat /\ T # {}
      BY <1>1, <2>3
    <3>2. PICK k \in T : \A j \in T : k <= j
      BY <3>1, LeastNumber, Zenon
    <3>3. k \in 0 .. n /\ ~possible(k)
      BY <3>2
    <3>4. k \in 1 .. n /\ k - 1 \in 0 .. n
      BY <1>1, <2>1, <3>3
    <3>5. k - 1 \notin T
      BY <1>1, <3>2, <3>4
    <3>. QED  BY <2>2, <3>3, <3>4, <3>5
  <2>. QED  BY <2>3 DEF possible
<1>4. flatten = Def(flatten, n)
  BY <1>3
<1>. HIDE DEF flatten
<1>5. \A i \in 1 .. n : flatten[i] = IF i = 1 THEN s[i] ELSE flatten[i - 1] \o s[i]
  BY <1>4
<1>. QED  BY <1>2, <1>5 DEF n

(* Flattening a sequence of sequences gives one of their elements. *)
LEMMA FlattenType ==
  ASSUME NEW S, NEW s \in Seq(Seq(S)), Len(s) # 0
  PROVE  FlattenSeq(s) \in Seq(S)
<1>. DEFINE n == Len(s)
<1>1. n \in Nat \ {0} /\ \A i \in 1 .. n : s[i] \in Seq(S)
  OBVIOUS
<1>2. PICK flatten : /\ FlattenSeq(s) = flatten[n]
                     /\ \A i \in 1 .. n : flatten[i] = IF i = 1 THEN s[i] ELSE flatten[i - 1] \o s[i]
  BY FlattenSteps
<1>. HIDE DEF n
<1>3. ASSUME NEW k \in 1 .. n, flatten[k] \notin Seq(S) PROVE FALSE
  <2>. DEFINE fits(j) == flatten[j] \in Seq(S)
              T == {j \in 1 .. n : ~fits(j)}
  <2>0. k \in 1 .. n /\ ~fits(k)
    BY <1>3
  <2>. HIDE DEF fits
  <2>1. T \in SUBSET Nat /\ T # {}
    <3>1. 1 .. n \subseteq Nat
      BY <1>1
    <3>. QED  BY <2>0, <3>1
  <2>2. PICK j \in T : \A i \in T : j <= i
    BY <2>1, LeastNumber, Zenon
  <2>3. j # 1
    BY <1>1, <1>2, <2>2 DEF fits
  <2>4. j - 1 \in 1 .. n /\ j - 1 \notin T
    BY <1>1, <2>2, <2>3
  <2>5. flatten[j] = flatten[j - 1] \o s[j]
    BY <1>1, <1>2, <2>2, <2>3
  <2>6. flatten[j - 1] \in Seq(S) /\ s[j] \in Seq(S)
    BY <1>1, <2>2, <2>4 DEF fits
  <2>7. flatten[j] \in Seq(S)
    BY <2>5, <2>6
  <2>. QED  BY <2>2, <2>7 DEF fits
<1>. QED  BY <1>1, <1>2, <1>3

LEMMA OperationType ==
  ASSUME NEW op \in Operations
  PROVE  \/ op.kind \in {"IGNORED", "CONDITIONAL"}
         \/ op.kind \in Kinds /\ op.to \in Seq(Nat)
<1>1. Address \cup {Elsewhere} \subseteq Nat
  BY MAssumption DEF Address, Elsewhere
<1>2. CASE op \in [kind : {"IGNORED", "OTHER", "CONDITIONAL", "RETURN"}, to : {<<>>}]
  <2>1. op.to = <<>> /\ op.kind \in {"IGNORED", "OTHER", "CONDITIONAL", "RETURN"}
    BY <1>2
  <2>. QED  BY <2>1 DEF Kinds
<1>3. CASE op \in [kind : {"JUMP", "CONDITIONAL_JUMP"}, to : {<<t>> : t \in Address \cup {Elsewhere}}]
  <2>1. op.to \in {<<t>> : t \in Address \cup {Elsewhere}} /\ op.kind \in {"JUMP", "CONDITIONAL_JUMP"}
    BY <1>3
  <2>2. PICK t \in Address \cup {Elsewhere} : op.to = <<t>>
    BY <2>1, Zenon
  <2>. QED  BY <1>1, <2>1, <2>2 DEF Kinds
<1>4. CASE op \in [kind : {"SWITCH"}, to : {st \in Address \X Address : st[1] <= st[2]}]
  <2>1. op.to \in {st \in Address \X Address : st[1] <= st[2]} /\ op.kind = "SWITCH"
    BY <1>4
  <2>2. op.to \in Address \X Address
    BY <2>1, Zenon
  <2>3. op.to = <<op.to[1], op.to[2]>> /\ op.to[1] \in Nat /\ op.to[2] \in Nat
    BY <1>1, <2>2
  <2>4. <<op.to[1], op.to[2]>> \in Seq(Nat)
    BY <2>3
  <2>. QED  BY <2>1, <2>3, <2>4, Zenon DEF Kinds
<1>. QED  BY <1>2, <1>3, <1>4 DEF Operations

(* What a front end makes is a sequence of instructions. *)
LEMMA InputType ==
  ASSUME NEW code \in [Address -> Operations], NEW named \in SUBSET Address
  PROVE  Instructions(code, named) \in Seq(MachineInstruction)
<1>1. Address = 1 .. M /\ M \in Nat /\ Address \subseteq Nat
  BY MAssumption DEF Address
<1>2. \A a : LabelAt(a, named) \in Seq(MachineInstruction)
  <2>. SUFFICES ASSUME NEW a PROVE LabelAt(a, named) \in Seq(MachineInstruction)
    OBVIOUS
  <2>1. CASE a \in named
    <3>1. Instruction("LABEL", a, <<>>) \in MachineInstruction
      BY <1>1, <2>1 DEF Instruction, MachineInstruction, Kinds
    <3>. QED  BY <2>1, <3>1 DEF LabelAt
  <2>2. CASE a \notin named
    BY <2>2 DEF LabelAt
  <2>. QED  BY <2>1, <2>2
<1>3. ASSUME NEW a \in Address PROVE Decoded(a, code[a], named) \in Seq(MachineInstruction)
  <2>1. \/ code[a].kind \in {"IGNORED", "CONDITIONAL"}
        \/ code[a].kind \in Kinds /\ code[a].to \in Seq(Nat)
    BY OperationType
  <2>2. CASE code[a].kind = "IGNORED"
    BY <2>2 DEF Decoded
  <2>3. CASE code[a].kind = "CONDITIONAL"
    <3>. DEFINE t == IF a = M THEN Elsewhere ELSE a + 1
    <3>1. t \in Nat /\ a \in Nat
      BY <1>1 DEF Elsewhere
    <3>. HIDE DEF t
    <3>2. /\ Instruction("CONDITIONAL_JUMP", a, <<t>>) \in MachineInstruction
          /\ Instruction("OTHER", a, <<>>) \in MachineInstruction
      BY <3>1 DEF Instruction, MachineInstruction, Kinds
    <3>3. LabelAt(a + 1, named) \in Seq(MachineInstruction)
      BY <1>2
    <3>4. Decoded(a, code[a], named) =
            <<Instruction("CONDITIONAL_JUMP", a, <<t>>), Instruction("OTHER", a, <<>>)>> \o LabelAt(a + 1, named)
      BY <2>3 DEF Decoded, t
    <3>. QED  BY <3>2, <3>3, <3>4
  <2>4. CASE code[a].kind \in Kinds /\ code[a].to \in Seq(Nat)
    <3>1. Instruction(code[a].kind, a, code[a].to) \in MachineInstruction
      BY <1>1, <2>4 DEF Instruction, MachineInstruction
    <3>2. Decoded(a, code[a], named) = <<Instruction(code[a].kind, a, code[a].to)>>
      BY <2>4 DEF Decoded, Kinds
    <3>. QED  BY <3>1, <3>2
  <2>. QED  BY <2>1, <2>2, <2>3, <2>4
<1>. DEFINE s == [a \in Address |-> LabelAt(a, named) \o Decoded(a, code[a], named)]
<1>4. s \in [1 .. M -> Seq(MachineInstruction)]
  BY <1>1, <1>2, <1>3
<1>5. s \in Seq(Seq(MachineInstruction)) /\ Len(s) # 0
  BY <1>1, <1>4, MAssumption
<1>. QED  BY <1>5, FlattenType DEF Instructions

-----------------------------------------------------------------------------
NodeTypes == Kinds \cup {"N_WAY", "FALL_THROUGH"}

NodeRecord ==
  [type : NodeTypes, first : Nat, last : Nat, address : Nat,
   to : Seq(Nat), succ : Seq(Nat), preds : Seq(Nat)]

LEMMA NodeFields ==
  ASSUME NEW n \in NodeRecord
  PROVE  /\ n.type \in NodeTypes /\ n.first \in Nat /\ n.last \in Nat /\ n.address \in Nat
         /\ n.to \in Seq(Nat) /\ n.succ \in Seq(Nat) /\ n.preds \in Seq(Nat)
BY DEF NodeRecord

InputInv == instr \in Seq(MachineInstruction)

(***************************************************************************)
(* Successors and predecessors are nodes, or not connected yet.            *)
(***************************************************************************)
Connected(nodes) ==
  /\ nodes \in Seq(NodeRecord)
  /\ \A n \in DOMAIN nodes :
       /\ Len(nodes[n].succ) = Len(nodes[n].to)
       /\ \A i \in DOMAIN nodes[n].succ : nodes[n].succ[i] \in DOMAIN nodes \cup {Null}
       /\ \A i \in DOMAIN nodes[n].preds : nodes[n].preds[i] \in DOMAIN nodes

NodeInv == Connected(node)

(***************************************************************************)
(* The list has every node made; until copies are made, in their order.    *)
(***************************************************************************)
ListInv ==
  /\ list \in Seq(Nat)
  /\ \A k \in DOMAIN list : list[k] \in DOMAIN node
  /\ \A n \in DOMAIN node : \E k \in DOMAIN list : list[k] = n
  /\ item \in 1 .. Len(list) + 1
  /\ phase \in {"cut", "connect", "share", "done", "crash"}
  /\ phase \in {"cut", "connect"} => Len(list) = Len(node) /\ \A k \in DOMAIN list : list[k] = k
  /\ phase = "cut" => item = 1

(***************************************************************************)
(* What lies before begin is in nodes, which follow each other, and a      *)
(* label is nowhere but at the beginning of one.                           *)
(***************************************************************************)
Begins(i) == \E n \in DOMAIN node : node[n].first = i

PlaceInv ==
  /\ begin \in Nat \ {0} /\ cur \in Nat /\ begin <= cur
  /\ \A i \in DOMAIN instr : i < begin => \E n \in DOMAIN node : i \in node[n].first .. node[n].last
  /\ \A n \in DOMAIN node :
       /\ node[n].first \in DOMAIN instr
       /\ node[n].first <= node[n].last /\ node[n].last < begin
       /\ node[n].address = instr[node[n].first].addr
       /\ \A i \in node[n].first + 1 .. node[n].last : instr[i].kind # "LABEL"
       /\ node[n].last + 1 = begin \/ Begins(node[n].last + 1)
  /\ \A i \in begin + 1 .. cur - 1 : instr[i].kind # "LABEL"

(***************************************************************************)
(* The addresses a node goes to are those of labels and of the instruction *)
(* that follows it.                                                        *)
(***************************************************************************)
Target(a, last) == \E i \in DOMAIN instr : instr[i].addr = a /\ (instr[i].kind = "LABEL" \/ i = last + 1)

TargetInv ==
  Proper => \A n \in DOMAIN node : \A j \in DOMAIN node[n].to : Target(node[n].to[j], node[n].last)

(***************************************************************************)
(* When the walk is over nothing is left between begin and the end.        *)
(***************************************************************************)
EndInv ==
  Proper => /\ cur <= Len(instr) + 1
            /\ cur = Len(instr) + 1 => begin = cur
            /\ phase # "cut" => cur = Len(instr) + 1

Linked(n) == \A i \in DOMAIN node[n].succ : node[n].succ[i] # Null

LinkInv ==
  Proper => /\ phase = "connect" => \A k \in 1 .. item - 1 : Linked(k)
            /\ phase \in {"share", "done", "crash"} => \A n \in DOMAIN node : Linked(n)

IInv == InputInv /\ NodeInv /\ ListInv /\ PlaceInv /\ TargetInv /\ EndInv /\ LinkInv

-----------------------------------------------------------------------------
(* The invariant gives the properties. *)
LEMMA InvType ==
  ASSUME IInv
  PROVE  TypeOK
<1>1. ToSet(list) \subseteq DOMAIN node
  BY DEF IInv, ListInv, ToSet
<1>2. ASSUME NEW n \in DOMAIN node
      PROVE  /\ ToSet(node[n].succ) \subseteq DOMAIN node \cup {Null}
             /\ ToSet(node[n].preds) \subseteq DOMAIN node
  BY DEF IInv, NodeInv, Connected, ToSet
<1>. QED  BY <1>1, <1>2 DEF IInv, NodeInv, Connected, ListInv, PlaceInv, TypeOK

LEMMA InvCovers ==
  ASSUME IInv
  PROVE  NothingDropped
<1>. SUFFICES ASSUME phase = "done", Proper, NEW i \in DOMAIN instr
              PROVE  \E n \in Nodes : i \in node[n].first .. node[n].last
  BY DEF NothingDropped
<1>1. i \in Nat /\ i <= Len(instr) /\ Len(instr) \in Nat
  BY DEF IInv, InputInv
<1>2. i < begin
  BY <1>1 DEF IInv, EndInv, PlaceInv
<1>3. PICK n \in DOMAIN node : i \in node[n].first .. node[n].last
  BY <1>2 DEF IInv, PlaceInv
<1>4. n \in Nodes
  BY DEF IInv, ListInv, Nodes, ToSet
<1>. QED  BY <1>3, <1>4

LEMMA InvConnected ==
  ASSUME IInv
  PROVE  AllConnected
<1>. SUFFICES ASSUME phase = "done", Proper, NEW n \in Nodes, NEW i \in DOMAIN node[n].succ
              PROVE  node[n].succ[i] \in Nodes
  BY DEF AllConnected, ToSet
<1>1. n \in DOMAIN node
  BY DEF IInv, ListInv, Nodes, ToSet
<1>2. node[n].succ[i] \in DOMAIN node
  BY <1>1 DEF IInv, NodeInv, Connected, LinkInv, Linked
<1>. QED  BY <1>2 DEF IInv, ListInv, Nodes, ToSet

LEMMA InitInv ==
  ASSUME Init
  PROVE  IInv
<1>1. instr \in Seq(MachineInstruction)
  BY InputType DEF Init
<1>2. /\ begin = 1 /\ cur = 2 /\ node = <<>> /\ list = <<>> /\ item = 1
      /\ phase = IF instr = <<>> THEN "done" ELSE "cut"
  BY Zenon DEF Init
<1>3. NodeInv /\ ListInv
  BY <1>2 DEF NodeInv, Connected, ListInv
<1>4. PlaceInv
  BY <1>1, <1>2 DEF PlaceInv
<1>5. Proper => phase = "cut" /\ Len(instr) >= 2
  <2>. SUFFICES ASSUME Proper PROVE phase = "cut" /\ Len(instr) >= 2
    OBVIOUS
  <2>1. instr # <<>> /\ ~IsTransfer(1) /\ instr[Len(instr)].kind \in {"JUMP", "RETURN", "SWITCH"}
    BY DEF Proper
  <2>2. Len(instr) \in Nat /\ Len(instr) # 0 /\ Len(instr) # 1
    <3>1. Len(instr) \in Nat /\ Len(instr) # 0
      BY <1>1, <2>1
    <3>2. Len(instr) # 1
      BY <2>1 DEF IsTransfer
    <3>. QED  BY <3>1, <3>2
  <2>3. phase = "cut"
    BY <1>2, <2>1, Zenon
  <2>4. \A k \in Nat : k # 0 /\ k # 1 => k >= 2
    OBVIOUS
  <2>. QED  BY <2>2, <2>3, <2>4, Zenon
<1>6. TargetInv /\ EndInv /\ LinkInv
  BY <1>1, <1>2, <1>5 DEF TargetInv, EndInv, LinkInv
<1>. QED  BY <1>1, <1>3, <1>4, <1>6 DEF IInv, InputInv

-----------------------------------------------------------------------------
(***************************************************************************)
(* A step of the switch that makes a node: from begin up to last, which    *)
(* goes to addresses.                                                      *)
(***************************************************************************)
LEMMA PushInv ==
  ASSUME IInv, phase = "cut",
         NEW type \in NodeTypes, NEW last \in Nat, NEW addresses \in Seq(Nat),
         Push(NewNode(type, last, addresses)),
         begin <= last, last <= Len(instr), begin \in DOMAIN instr,
         begin' = last + 1, cur' = cur + 1, cur \in {last, last + 1}, cur <= Len(instr),
         UNCHANGED <<input, item, phase>>,
         \A i \in begin + 1 .. last : instr[i].kind # "LABEL",
         Proper => \A j \in DOMAIN addresses : Target(addresses[j], last),
         Proper => (cur = Len(instr) => last = cur)
  PROVE  IInv'
<1>. DEFINE x == NewNode(type, last, addresses)
            L == Len(node)
<1>1. /\ instr \in Seq(MachineInstruction) /\ instr' = instr
      /\ node \in Seq(NodeRecord) /\ L \in Nat /\ DOMAIN node = 1 .. L
      /\ begin \in Nat \ {0} /\ cur \in Nat /\ begin <= cur
      /\ UNCHANGED <<item, phase>>
  BY DEF IInv, InputInv, NodeInv, Connected, PlaceInv, input
<1>2. /\ x \in NodeRecord /\ x.first = begin /\ x.last = last /\ x.to = addresses
      /\ x.address = instr[begin].addr
      /\ x.preds = <<>> /\ Len(x.succ) = Len(x.to) /\ \A i \in DOMAIN x.succ : x.succ[i] = Null
  <2>1. instr[begin] \in MachineInstruction
    BY <1>1
  <2>2. /\ [i \in DOMAIN addresses |-> Null] \in Seq(Nat)
        /\ Len([i \in DOMAIN addresses |-> Null]) = Len(addresses)
    BY DEF Null
  <2>3. x = [type |-> type, first |-> begin, last |-> last, address |-> instr[begin].addr,
             to |-> addresses, succ |-> [i \in DOMAIN addresses |-> Null], preds |-> <<>>]
    BY DEF NewNode
  <2>4. instr[begin].addr \in Nat
    BY <2>1 DEF MachineInstruction
  <2>5. <<>> \in Seq(Nat)
    OBVIOUS
  <2>. HIDE DEF x
  <2>6. x \in NodeRecord
    BY <1>1, <2>2, <2>3, <2>4, <2>5 DEF NodeRecord
  <2>7. \A i \in DOMAIN x.succ : x.succ[i] = Null
    BY <2>3
  <2>. QED  BY <2>2, <2>3, <2>6, <2>7
<1>3. /\ node' = Append(node, x) /\ list' = Append(list, L + 1)
  BY DEF Push
<1>. HIDE DEF x
<1>4. /\ node' \in Seq(NodeRecord) /\ Len(node') = L + 1 /\ DOMAIN node' = 1 .. L + 1
      /\ \A n \in 1 .. L : node'[n] = node[n]
      /\ node'[L + 1] = x
      /\ L + 1 \in 1 .. L + 1 /\ \A n \in 1 .. L : n \in 1 .. L + 1
      /\ \A n \in 1 .. L + 1 : n = L + 1 \/ n \in 1 .. L
  BY <1>1, <1>2, <1>3
<1>5. NodeInv'
  <2>. SUFFICES ASSUME NEW n \in 1 .. L + 1
                PROVE  /\ Len(node'[n].succ) = Len(node'[n].to)
                       /\ \A i \in DOMAIN node'[n].succ : node'[n].succ[i] \in 1 .. L + 1 \cup {Null}
                       /\ \A i \in DOMAIN node'[n].preds : node'[n].preds[i] \in 1 .. L + 1
    BY <1>4 DEF NodeInv, Connected
  <2>1. CASE n = L + 1
    BY <1>2, <1>4, <2>1
  <2>2. CASE n \in 1 .. L
    <3>1. /\ Len(node[n].succ) = Len(node[n].to)
          /\ \A i \in DOMAIN node[n].succ : node[n].succ[i] \in 1 .. L \cup {Null}
          /\ \A i \in DOMAIN node[n].preds : node[n].preds[i] \in 1 .. L
      BY <1>1, <2>2 DEF IInv, NodeInv, Connected
    <3>. HIDE DEF L
    <3>. QED  BY <1>4, <2>2, <3>1
  <2>. QED  BY <1>4, <2>1, <2>2
<1>6. ListInv'
  <2>1. /\ list \in Seq(Nat) /\ Len(list) = L /\ DOMAIN list = 1 .. L
        /\ \A k \in 1 .. L : list[k] = k
        /\ item = 1
    BY DEF IInv, ListInv
  <2>2. /\ list' \in Seq(Nat) /\ Len(list') = L + 1 /\ DOMAIN list' = 1 .. L + 1
        /\ \A k \in 1 .. L + 1 : list'[k] = k
    <3>1. \A k \in 1 .. L : list'[k] = list[k]
      BY <1>1, <1>3, <2>1
    <3>2. list' \in Seq(Nat) /\ Len(list') = L + 1 /\ DOMAIN list' = 1 .. L + 1 /\ list'[L + 1] = L + 1
      BY <1>1, <1>3, <2>1
    <3>. QED  BY <1>4, <2>1, <3>1, <3>2
  <2>3. /\ \A k \in DOMAIN list' : list'[k] \in DOMAIN node'
        /\ \A n \in DOMAIN node' : \E k \in DOMAIN list' : list'[k] = n
    BY <1>4, <2>2
  <2>. QED  BY <1>1, <1>4, <2>1, <2>2, <2>3 DEF IInv, ListInv
<1>7. PlaceInv'
  <2>1. begin' \in Nat \ {0} /\ cur' \in Nat /\ begin' <= cur'
    BY <1>1
  <2>2. ASSUME NEW i \in DOMAIN instr, i < begin'
        PROVE  \E n \in 1 .. L + 1 : i \in node'[n].first .. node'[n].last
    <3>1. i \in Nat
      BY <1>1
    <3>2. CASE i < begin
      <4>1. PICK n \in 1 .. L : i \in node[n].first .. node[n].last
        BY <1>1, <3>2 DEF IInv, PlaceInv
      <4>2. node'[n] = node[n] /\ n \in 1 .. L + 1
        BY <1>4
      <4>. QED  BY <4>1, <4>2
    <3>3. CASE i >= begin
      <4>1. i \in node'[L + 1].first .. node'[L + 1].last
        BY <1>1, <1>2, <1>4, <2>2, <3>1, <3>3
      <4>. QED  BY <1>4, <4>1
    <3>. QED  BY <1>1, <3>1, <3>2, <3>3
  <2>3. ASSUME NEW n \in 1 .. L + 1
        PROVE  /\ node'[n].first \in DOMAIN instr
               /\ node'[n].first <= node'[n].last /\ node'[n].last < begin'
               /\ node'[n].address = instr[node'[n].first].addr
               /\ \A i \in node'[n].first + 1 .. node'[n].last : instr[i].kind # "LABEL"
               /\ node'[n].last + 1 = begin' \/ \E m \in 1 .. L + 1 : node'[m].first = node'[n].last + 1
    <3>1. CASE n = L + 1
      BY <1>1, <1>2, <1>4, <3>1
    <3>2. CASE n \in 1 .. L
      <4>1. /\ node[n].first \in DOMAIN instr
            /\ node[n].first <= node[n].last /\ node[n].last < begin
            /\ node[n].address = instr[node[n].first].addr
            /\ \A i \in node[n].first + 1 .. node[n].last : instr[i].kind # "LABEL"
            /\ node[n].last + 1 = begin \/ \E m \in 1 .. L : node[m].first = node[n].last + 1
        BY <1>1, <3>2 DEF IInv, PlaceInv, Begins
      <4>2. node[n].last \in Nat /\ node'[n] = node[n]
        BY <1>1, <1>4, <3>2, NodeFields
      <4>3. \E m \in 1 .. L + 1 : node'[m].first = node'[n].last + 1
        <5>1. CASE node[n].last + 1 = begin
          <6>1. node'[L + 1].first = begin /\ L + 1 \in 1 .. L + 1
            BY <1>2, <1>4
          <6>. QED  BY <4>2, <5>1, <6>1
        <5>2. ASSUME NEW m \in 1 .. L, node[m].first = node[n].last + 1
              PROVE  m \in 1 .. L + 1 /\ node'[m].first = node'[n].last + 1
          BY <1>1, <1>4, <4>2, <5>2
        <5>. QED  BY <4>1, <5>1, <5>2
      <4>. QED  BY <1>1, <4>1, <4>2, <4>3
    <3>. QED  BY <1>1, <3>1, <3>2
  <2>4. \A i \in begin' + 1 .. cur' - 1 : instr[i].kind # "LABEL"
    BY <1>1
  <2>. QED  BY <1>1, <1>4, <2>1, <2>2, <2>3, <2>4 DEF PlaceInv, Begins
<1>8. Proper' <=> Proper
  BY <1>1 DEF Proper, IsTransfer
<1>9. TargetInv'
  <2>1. \A a, l : Target(a, l)' <=> Target(a, l)
    BY <1>1 DEF Target
  <2>. QED  BY <1>1, <1>2, <1>4, <1>8, <2>1 DEF IInv, TargetInv
<1>10. EndInv' /\ LinkInv'
  BY <1>1, <1>8 DEF IInv, EndInv, LinkInv
<1>. QED  BY <1>1, <1>5, <1>6, <1>7, <1>9, <1>10 DEF IInv, InputInv

LEMMA EndNodeInv ==
  ASSUME IInv, EndNode
  PROVE  IInv'
<1>. DEFINE i == instr[cur]
            type == CASE i.kind = "SWITCH" -> "N_WAY" [] OTHER -> i.kind
            addresses == CASE i.kind = "CONDITIONAL_JUMP" -> Append(i.to, AddressAfter(cur))
                           [] OTHER -> i.to
<1>1. /\ instr \in Seq(MachineInstruction)
      /\ phase = "cut" /\ cur <= Len(instr)
      /\ i.kind \in {"CONDITIONAL_JUMP", "JUMP", "RETURN", "SWITCH"}
      /\ begin' = cur + 1 /\ cur' = cur + 1
      /\ UNCHANGED <<input, item, phase>>
  BY DEF IInv, InputInv, EndNode, Cutting
<1>2. /\ begin \in Nat \ {0} /\ cur \in Nat /\ begin <= cur
      /\ \A k \in begin + 1 .. cur - 1 : instr[k].kind # "LABEL"
  BY DEF IInv, PlaceInv
<1>3. begin \in DOMAIN instr /\ cur \in DOMAIN instr /\ i \in MachineInstruction
  BY <1>1, <1>2
<1>4. Push(NewNode(type, cur, addresses))
  BY DEF EndNode, NodeUpToCur
<1>5. type \in NodeTypes
  BY <1>1 DEF NodeTypes, Kinds
<1>6. AddressAfter(cur) \in Nat /\ (cur # Len(instr) => AddressAfter(cur) = instr[cur + 1].addr)
  <2>1. CASE cur = Len(instr)
    BY <2>1 DEF AddressAfter, Elsewhere
  <2>2. CASE cur # Len(instr)
    <3>1. instr[cur + 1] \in MachineInstruction
      BY <1>1, <1>2, <2>2
    <3>. QED  BY <2>2, <3>1 DEF AddressAfter, MachineInstruction
  <2>. QED  BY <2>1, <2>2
<1>7. i.to \in Seq(Nat)
  BY <1>3 DEF MachineInstruction
<1>8. addresses \in Seq(Nat)
  BY <1>6, <1>7
<1>9. \A k \in begin + 1 .. cur : instr[k].kind # "LABEL"
  BY <1>1, <1>2
<1>10. ASSUME Proper, NEW j \in DOMAIN addresses
       PROVE  Target(addresses[j], cur)
  <2>1. ASSUME NEW k \in DOMAIN i.to PROVE Target(i.to[k], cur)
    <3>1. i.to[k] \in ToSet(instr[cur].to)
      BY DEF ToSet
    <3>. QED  BY <1>3, <1>10, <3>1 DEF Proper, Target
  <2>2. CASE i.kind # "CONDITIONAL_JUMP"
    BY <2>1, <2>2
  <2>3. CASE i.kind = "CONDITIONAL_JUMP"
    <3>1. cur # Len(instr)
      BY <1>10, <2>3 DEF Proper
    <3>2. cur + 1 \in DOMAIN instr
      BY <1>1, <1>2, <3>1
    <3>3. Target(AddressAfter(cur), cur)
      BY <1>6, <3>1, <3>2 DEF Target
    <3>4. addresses = Append(i.to, AddressAfter(cur))
      BY <2>3
    <3>5. (j \in DOMAIN i.to /\ addresses[j] = i.to[j]) \/ addresses[j] = AddressAfter(cur)
      BY <1>6, <1>7, <3>4
    <3>. QED  BY <2>1, <3>3, <3>5
  <2>. QED  BY <2>2, <2>3
<1>. HIDE DEF type, addresses
<1>. QED  BY <1>1, <1>2, <1>3, <1>4, <1>5, <1>8, <1>9, <1>10, PushInv

(* Nothing but cur changes. *)
LEMMA AdvanceInv ==
  ASSUME IInv, phase = "cut", cur' = cur + 1, UNCHANGED <<input, begin, node, list, item, phase>>,
         cur <= Len(instr), begin = cur \/ instr[cur].kind # "LABEL",
         Proper => cur # Len(instr)
  PROVE  IInv'
<1>1. /\ UNCHANGED <<instr, begin, node, list, item, phase>>
      /\ cur \in Nat /\ begin \in Nat /\ begin <= cur /\ Len(instr) \in Nat
  BY DEF IInv, InputInv, PlaceInv, input
<1>2. Proper' <=> Proper
  BY <1>1 DEF Proper, IsTransfer
<1>3. InputInv' /\ NodeInv' /\ ListInv'
  BY <1>1 DEF IInv, InputInv, NodeInv, Connected, ListInv
<1>4. TargetInv' /\ LinkInv'
  BY <1>1, <1>2 DEF IInv, TargetInv, Target, LinkInv, Linked
<1>5. EndInv'
  BY <1>1, <1>2 DEF IInv, EndInv
<1>6. \A i \in begin' + 1 .. cur' - 1 : instr'[i].kind # "LABEL"
  <2>. SUFFICES ASSUME NEW i \in begin + 1 .. cur PROVE instr[i].kind # "LABEL"
    BY <1>1
  <2>1. i \in begin + 1 .. cur - 1 \/ (i = cur /\ begin # cur)
    BY <1>1
  <2>. QED  BY <2>1 DEF IInv, PlaceInv
<1>7. PlaceInv'
  BY <1>1, <1>6 DEF IInv, PlaceInv, Begins
<1>. QED  BY <1>3, <1>4, <1>5, <1>7 DEF IInv

LEMMA MeetLabelInv ==
  ASSUME IInv, MeetLabel
  PROVE  IInv'
<1>1. /\ instr \in Seq(MachineInstruction)
      /\ phase = "cut" /\ cur <= Len(instr) /\ instr[cur].kind = "LABEL"
      /\ cur' = cur + 1 /\ UNCHANGED <<input, item, phase>>
  BY DEF IInv, InputInv, MeetLabel, Cutting
<1>2. /\ begin \in Nat \ {0} /\ cur \in Nat /\ begin <= cur
      /\ \A k \in begin + 1 .. cur - 1 : instr[k].kind # "LABEL"
  BY DEF IInv, PlaceInv
<1>3. Proper => cur # Len(instr)
  BY <1>1 DEF Proper
<1>4. CASE begin # cur
  <2>. DEFINE addresses == <<instr[cur].addr>>
  <2>1. Push(NewNode("FALL_THROUGH", cur - 1, addresses)) /\ begin' = (cur - 1) + 1
    BY <1>2, <1>4 DEF MeetLabel
  <2>2. cur \in DOMAIN instr /\ begin \in DOMAIN instr /\ cur - 1 \in Nat /\ begin <= cur - 1
        /\ cur - 1 <= Len(instr) /\ cur \in {cur - 1, cur - 1 + 1}
    BY <1>1, <1>2, <1>4
  <2>3. addresses \in Seq(Nat)
    <3>1. instr[cur] \in MachineInstruction
      BY <1>1, <2>2
    <3>. QED  BY <3>1 DEF MachineInstruction
  <2>4. \A j \in DOMAIN addresses : Target(addresses[j], cur - 1)
    BY <1>1, <2>2 DEF Target
  <2>5. "FALL_THROUGH" \in NodeTypes
    BY DEF NodeTypes
  <2>. HIDE DEF addresses
  <2>. QED  BY <1>1, <1>2, <1>3, <2>1, <2>2, <2>3, <2>4, <2>5, PushInv
<1>5. CASE begin = cur
  <2>1. UNCHANGED <<node, list, begin>>
    BY <1>5 DEF MeetLabel
  <2>. QED  BY <1>1, <1>3, <1>5, <2>1, AdvanceInv
<1>. QED  BY <1>4, <1>5

LEMMA SkipOtherInv ==
  ASSUME IInv, SkipOther
  PROVE  IInv'
<1>1. Proper => cur # Len(instr)
  BY DEF SkipOther, Proper
<1>. QED  BY <1>1, AdvanceInv DEF SkipOther, Cutting

-----------------------------------------------------------------------------
(***************************************************************************)
(* After the walk nodes are connected and copied, but stay where they are. *)
(***************************************************************************)
Same(n, m) == n.first = m.first /\ n.last = m.last /\ n.address = m.address /\ n.to = m.to

Extends(old, new) ==
  /\ \A n \in DOMAIN old : n \in DOMAIN new /\ Same(new[n], old[n])
  /\ \A n \in DOMAIN new : \E m \in DOMAIN old : Same(new[n], old[m])

LEMMA ExtendsKeeps ==
  ASSUME IInv, Extends(node, node'), UNCHANGED <<input, begin, cur>>
  PROVE  InputInv' /\ PlaceInv' /\ TargetInv' /\ (Proper' <=> Proper)
<1>1. UNCHANGED <<instr, begin, cur>>
  BY DEF input
<1>2. Proper' <=> Proper
  BY <1>1 DEF Proper, IsTransfer
<1>3. PlaceInv'
  <2>1. ASSUME NEW i \in DOMAIN instr, i < begin
        PROVE  \E n \in DOMAIN node' : i \in node'[n].first .. node'[n].last
    BY <2>1 DEF IInv, PlaceInv, Extends, Same
  <2>2. ASSUME NEW i, Begins(i) PROVE \E k \in DOMAIN node' : node'[k].first = i
    BY <2>2 DEF Begins, Extends, Same
  <2>3. ASSUME NEW n \in DOMAIN node'
        PROVE  /\ node'[n].first \in DOMAIN instr
               /\ node'[n].first <= node'[n].last /\ node'[n].last < begin
               /\ node'[n].address = instr[node'[n].first].addr
               /\ \A i \in node'[n].first + 1 .. node'[n].last : instr[i].kind # "LABEL"
               /\ node'[n].last + 1 = begin \/ \E k \in DOMAIN node' : node'[k].first = node'[n].last + 1
    <3>1. PICK m \in DOMAIN node : Same(node'[n], node[m])
      BY DEF Extends
    <3>2. /\ node[m].first \in DOMAIN instr
          /\ node[m].first <= node[m].last /\ node[m].last < begin
          /\ node[m].address = instr[node[m].first].addr
          /\ \A i \in node[m].first + 1 .. node[m].last : instr[i].kind # "LABEL"
          /\ node[m].last + 1 = begin \/ Begins(node[m].last + 1)
      BY DEF IInv, PlaceInv
    <3>3. /\ node'[n].first = node[m].first /\ node'[n].last = node[m].last
          /\ node'[n].address = node[m].address
      BY <3>1 DEF Same
    <3>4. node[m].last + 1 = begin \/ \E k \in DOMAIN node' : node'[k].first = node[m].last + 1
      BY <2>2, <3>2
    <3>. QED  BY <3>2, <3>3, <3>4
  <2>4. /\ begin \in Nat \ {0} /\ cur \in Nat /\ begin <= cur
        /\ \A i \in begin + 1 .. cur - 1 : instr[i].kind # "LABEL"
    BY DEF IInv, PlaceInv
  <2>. QED  BY <1>1, <2>1, <2>3, <2>4 DEF PlaceInv, Begins
<1>4. TargetInv'
  <2>. SUFFICES ASSUME Proper, NEW n \in DOMAIN node', NEW j \in DOMAIN node'[n].to
                PROVE  Target(node'[n].to[j], node'[n].last)
    BY <1>1, <1>2 DEF TargetInv, Target
  <2>1. PICK m \in DOMAIN node : Same(node'[n], node[m])
    BY DEF Extends
  <2>. QED  BY <2>1 DEF IInv, TargetInv, Same
<1>. QED  BY <1>1, <1>2, <1>3, <1>4 DEF IInv, InputInv

(* What a node goes to is an address where a node begins. *)
LEMMA TargetIsNode ==
  ASSUME IInv, Proper, phase # "cut", NEW n \in DOMAIN node, NEW j \in DOMAIN node[n].to
  PROVE  \E m \in DOMAIN node : node[m].address = node[n].to[j]
<1>1. PICK i \in DOMAIN instr : /\ instr[i].addr = node[n].to[j]
                                /\ instr[i].kind = "LABEL" \/ i = node[n].last + 1
  BY DEF IInv, TargetInv, Target
<1>2. i \in Nat /\ i <= Len(instr) /\ Len(instr) \in Nat
  BY DEF IInv, InputInv
<1>3. i < begin
  BY <1>2 DEF IInv, EndInv
<1>4. \E m \in DOMAIN node : node[m].first = i
  <2>1. CASE i = node[n].last + 1
    BY <1>2, <1>3, <2>1 DEF IInv, PlaceInv, Begins
  <2>2. CASE instr[i].kind = "LABEL"
    <3>1. PICK m \in DOMAIN node : i \in node[m].first .. node[m].last
      BY <1>3 DEF IInv, PlaceInv
    <3>2. node[m].first \in Nat /\ node[m].last \in Nat
      BY NodeFields DEF IInv, NodeInv, Connected
    <3>3. i \notin node[m].first + 1 .. node[m].last
      BY <2>2 DEF IInv, PlaceInv
    <3>. QED  BY <3>1, <3>2, <3>3
  <2>. QED  BY <1>1, <2>1, <2>2
<1>5. PICK m \in DOMAIN node : node[m].first = i
  BY <1>4
<1>6. node[m].address = instr[i].addr
  BY <1>5 DEF IInv, PlaceInv
<1>. QED  BY <1>1, <1>6

(* The Node_map finds a node where there is one. *)
LEMMA NodeAtIs ==
  ASSUME NodeInv, NEW a
  PROVE  /\ NodeAt(a) \in DOMAIN node \cup {Null}
         /\ (\E n \in DOMAIN node : node[n].address = a) => NodeAt(a) \in DOMAIN node
         /\ NodeAt(a) # Null => node[NodeAt(a)].address = a
<1>. DEFINE found == {n \in DOMAIN node : node[n].address = a}
            L == Len(node)
<1>1. L \in Nat /\ DOMAIN node = 1 .. L
  BY DEF NodeInv, Connected
<1>2. CASE found = {}
  BY <1>2 DEF NodeAt
<1>3. CASE found # {}
  <2>. DEFINE T == {k \in Nat : L - k \in found}
  <2>1. T \in SUBSET Nat /\ T # {}
    <3>1. PICK n \in found : TRUE
      BY <1>3
    <3>2. n \in 1 .. L
      BY <1>1
    <3>3. L - n \in Nat /\ L - (L - n) = n
      BY <1>1, <3>2
    <3>. HIDE DEF found
    <3>4. L - n \in T
      BY <3>1, <3>3
    <3>. QED  BY <3>4
  <2>2. PICK x \in T : \A y \in T : x <= y
    BY <2>1, LeastNumber, Zenon
  <2>3. \A m \in found : m \in 1 .. L
    BY <1>1
  <2>. HIDE DEF found
  <2>4. \A m \in found : m <= L - x
    <3>. SUFFICES ASSUME NEW m \in found PROVE m <= L - x
      OBVIOUS
    <3>1. m \in Nat /\ L - m \in Nat /\ L - (L - m) = m
      BY <1>1, <2>3
    <3>2. L - m \in T
      BY <3>1
    <3>3. x <= L - m /\ x \in Nat
      BY <2>2, <3>2
    <3>. QED  BY <1>1, <3>1, <3>3
  <2>5. \E n \in found : \A m \in found : m <= n
    BY <2>2, <2>4
  <2>6. NodeAt(a) = CHOOSE n \in found : \A m \in found : m <= n
    BY <1>3 DEF NodeAt, found
  <2>7. NodeAt(a) \in found
    BY <2>5, <2>6, Zenon
  <2>. QED  BY <2>7 DEF found
<1>. QED  BY <1>2, <1>3

LEMMA ConnectInv ==
  ASSUME IInv, Connect
  PROVE  IInv'
<1>. DEFINE n == list[item]
            L == Len(node)
            to == node[n].to
            found == [i \in DOMAIN to |-> NodeAt(to[i])]
            edges(m) == Cardinality({i \in DOMAIN found : found[i] = m})
            more(m) == [i \in 1 .. edges(m) |-> n]
<1>0. /\ phase = "connect" /\ item <= Len(list) /\ item' = item + 1
      /\ list' = list /\ phase' = phase
      /\ UNCHANGED <<input, begin, cur>>
  BY DEF Connect
<1>1. node' = [m \in DOMAIN node |->
                  [node[m] EXCEPT !.preds = @ \o more(m), !.succ = IF m = n THEN found ELSE @]]
  BY DEF Connect
<1>2. /\ node \in Seq(NodeRecord) /\ L \in Nat /\ DOMAIN node = 1 .. L
      /\ list \in Seq(Nat) /\ Len(list) = L
      /\ item \in 1 .. L /\ n = item /\ n \in 1 .. L
  <2>1. node \in Seq(NodeRecord) /\ Len(node) \in Nat /\ DOMAIN node = 1 .. Len(node)
    BY DEF IInv, NodeInv, Connected
  <2>2. list \in Seq(Nat) /\ Len(list) = Len(node) /\ \A k \in DOMAIN list : list[k] = k
    BY <1>0 DEF IInv, ListInv
  <2>3. item \in 1 .. Len(node)
    <3>1. item \in 1 .. Len(list) + 1
      BY DEF IInv, ListInv
    <3>. QED  BY <1>0, <2>1, <2>2, <3>1
  <2>4. list[item] = item
    BY <2>1, <2>2, <2>3
  <2>. QED  BY <2>1, <2>2, <2>3, <2>4
<1>3. to \in Seq(Nat)
  BY <1>2, NodeFields
<1>4. /\ found \in Seq(Nat) /\ Len(found) = Len(to) /\ DOMAIN found = DOMAIN to
      /\ \A i \in DOMAIN found : found[i] \in DOMAIN node \cup {Null}
  <2>. HIDE DEF to
  <2>1. \A i \in DOMAIN to : NodeAt(to[i]) \in DOMAIN node \cup {Null}
    BY NodeAtIs DEF IInv
  <2>2. \A i \in DOMAIN to : NodeAt(to[i]) \in Nat
    BY <1>2, <2>1 DEF Null
  <2>. QED  BY <1>3, <2>1, <2>2
<1>5. \A m : edges(m) \in Nat
  <2>. HIDE DEF found
  <2>. SUFFICES ASSUME NEW m PROVE Cardinality({i \in DOMAIN found : found[i] = m}) \in Nat
    OBVIOUS
  <2>1. DOMAIN found = 1 .. Len(found) /\ Len(found) \in Nat
    BY <1>4
  <2>2. IsFiniteSet(1 .. Len(found))
    BY <2>1, FS_Interval
  <2>3. IsFiniteSet({i \in DOMAIN found : found[i] = m})
    BY <2>1, <2>2, FS_Subset
  <2>. QED  BY <2>3, FS_CardinalityType
<1>. HIDE DEF edges
<1>6. \A m : /\ more(m) \in Seq(Nat) /\ Len(more(m)) = edges(m)
             /\ \A i \in DOMAIN more(m) : more(m)[i] = n
  BY <1>2, <1>5
<1>. HIDE DEF more, found
<1>7. DOMAIN node' = 1 .. L
  BY <1>1, <1>2
<1>8. ASSUME NEW m \in 1 .. L
      PROVE  /\ node'[m] \in NodeRecord /\ Same(node'[m], node[m])
             /\ node'[m].preds = node[m].preds \o more(m)
             /\ node'[m].succ = IF m = n THEN found ELSE node[m].succ
  <2>1. node'[m] = [node[m] EXCEPT !.preds = node[m].preds \o more(m),
                                   !.succ = IF m = n THEN found ELSE node[m].succ]
    BY <1>1, <1>2
  <2>2. /\ node[m] \in NodeRecord
        /\ node[m].preds \in Seq(Nat) /\ node[m].succ \in Seq(Nat)
    BY <1>2, NodeFields
  <2>3. node[m].preds \o more(m) \in Seq(Nat)
    BY <1>6, <2>2
  <2>4. (IF m = n THEN found ELSE node[m].succ) \in Seq(Nat)
    BY <1>4, <2>2
  <2>. QED  BY <2>1, <2>2, <2>3, <2>4 DEF NodeRecord, Same
<1>9. node' \in Seq(NodeRecord) /\ Len(node') = L
  <2>1. node' \in [1 .. L -> NodeRecord]
    BY <1>1, <1>2, <1>8
  <2>. QED  BY <1>2, <2>1
<1>10. NodeInv'
  <2>. SUFFICES ASSUME NEW m \in 1 .. L
                PROVE  /\ Len(node'[m].succ) = Len(node'[m].to)
                       /\ \A i \in DOMAIN node'[m].succ : node'[m].succ[i] \in 1 .. L \cup {Null}
                       /\ \A i \in DOMAIN node'[m].preds : node'[m].preds[i] \in 1 .. L
    BY <1>7, <1>9 DEF NodeInv, Connected
  <2>1. /\ Len(node[m].succ) = Len(node[m].to)
        /\ \A i \in DOMAIN node[m].succ : node[m].succ[i] \in 1 .. L \cup {Null}
        /\ \A i \in DOMAIN node[m].preds : node[m].preds[i] \in 1 .. L
        /\ node[m].preds \in Seq(Nat)
    <3>1. node[m].preds \in Seq(Nat)
      BY <1>2, NodeFields
    <3>. HIDE DEF L, n, to
    <3>. QED  BY <1>2, <3>1 DEF IInv, NodeInv, Connected
  <2>2. node'[m].to = node[m].to
    BY <1>8 DEF Same
  <2>3. Len(node'[m].succ) = Len(node'[m].to)
    BY <1>4, <1>8, <2>1, <2>2
  <2>4. \A i \in DOMAIN node'[m].succ : node'[m].succ[i] \in 1 .. L \cup {Null}
    BY <1>2, <1>4, <1>8, <2>1
  <2>5. ASSUME NEW i \in DOMAIN node'[m].preds PROVE node'[m].preds[i] \in 1 .. L
    <3>1. node'[m].preds = node[m].preds \o more(m)
      BY <1>8
    <3>. DEFINE a == node[m].preds
                b == more(m)
    <3>2. a \in Seq(Nat) /\ b \in Seq(Nat) /\ i \in 1 .. Len(a) + Len(b)
      BY <1>6, <2>1, <3>1
    <3>3. CASE i <= Len(a)
      <4>1. i \in DOMAIN a /\ (a \o b)[i] = a[i]
        BY <3>2, <3>3
      <4>. QED  BY <2>1, <3>1, <4>1
    <3>4. CASE i > Len(a)
      <4>1. i - Len(a) \in DOMAIN b /\ (a \o b)[i] = b[i - Len(a)]
        BY <3>2, <3>4
      <4>. QED  BY <1>2, <1>6, <3>1, <4>1
    <3>. QED  BY <3>2, <3>3, <3>4
  <2>. QED  BY <2>3, <2>4, <2>5
<1>11. ListInv'
  <2>1. list' = list /\ phase' = "connect" /\ item' \in 1 .. Len(list) + 1
    BY <1>0, <1>2
  <2>2. DOMAIN node' = DOMAIN node /\ Len(node') = Len(node)
    BY <1>2, <1>7, <1>9
  <2>. HIDE DEF L, n, to
  <2>. QED  BY <1>0, <2>1, <2>2 DEF IInv, ListInv
<1>12. Extends(node, node')
  BY <1>2, <1>7, <1>8 DEF Extends
<1>13. InputInv' /\ PlaceInv' /\ TargetInv' /\ (Proper' <=> Proper)
  BY <1>0, <1>12, ExtendsKeeps
<1>14. EndInv'
  BY <1>0, <1>13 DEF IInv, EndInv, input
<1>15. LinkInv'
  <2>. SUFFICES ASSUME Proper, NEW k \in 1 .. item, NEW i \in DOMAIN node'[k].succ
                PROVE  node'[k].succ[i] # Null
    <3>1. phase' = "connect" /\ item' - 1 = item
      BY <1>0, <1>2
    <3>. QED  BY <1>13, <3>1 DEF LinkInv, Linked
  <2>1. CASE k = item
    <3>1. node'[k].succ = found /\ i \in DOMAIN to
      BY <1>2, <1>4, <1>8, <2>1
    <3>2. \E m \in DOMAIN node : node[m].address = to[i]
      BY <1>0, <1>2, <3>1, TargetIsNode
    <3>3. NodeAt(to[i]) \in DOMAIN node
      BY <3>2, NodeAtIs DEF IInv
    <3>. QED  BY <1>2, <3>1, <3>3 DEF found, Null
  <2>2. CASE k # item
    <3>1. k \in 1 .. item - 1 /\ k \in 1 .. L
      BY <1>2, <2>2
    <3>2. node'[k].succ = node[k].succ
      BY <1>2, <1>8, <2>2, <3>1
    <3>. QED  BY <1>0, <3>1, <3>2 DEF IInv, LinkInv, Linked
  <2>. QED  BY <2>1, <2>2
<1>. QED  BY <1>10, <1>11, <1>13, <1>14, <1>15 DEF IInv

-----------------------------------------------------------------------------
AllLinked(nodes) == \A n \in DOMAIN nodes : \A i \in DOMAIN nodes[n].succ : nodes[n].succ[i] # Null

(* Every successor that is connected has the address the node goes to. *)
Addressed(nodes) ==
  \A n \in DOMAIN nodes : \A i \in DOMAIN nodes[n].succ :
    nodes[n].succ[i] # Null => nodes[nodes[n].succ[i]].address = nodes[n].to[i]

(* What is kept while copies of nodes are made. *)
Grown(old, new) ==
  /\ Connected(new)
  /\ Extends(old, new)
  /\ Len(old) <= Len(new)
  /\ AllLinked(old) => AllLinked(new)
  /\ Addressed(old) => Addressed(new)

LEMMA GrownTransitive ==
  ASSUME NEW a, NEW b, NEW c, Connected(a), Grown(a, b), Grown(b, c)
  PROVE  Grown(a, c)
<1>1. Len(a) \in Nat /\ Len(b) \in Nat /\ Len(c) \in Nat
  BY DEF Grown, Connected
<1>2. Extends(a, c)
  BY DEF Grown, Extends, Same
<1>. QED  BY <1>1, <1>2 DEF Grown

LEMMA CopyForGrows ==
  ASSUME NEW nodes, Connected(nodes), NEW n \in DOMAIN nodes, NEW p \in DOMAIN nodes
  PROVE  Grown(nodes, CopyFor(nodes, n, p))
<1>. DEFINE L == Len(nodes)
            copy == [nodes[n] EXCEPT !.preds = <<>>]
            made == Append(nodes, copy)
            succ == ReconnectSuccessor(nodes[p].succ, n, L + 1)
            new == CopyFor(nodes, n, p)
<1>1. /\ nodes \in Seq(NodeRecord) /\ L \in Nat /\ DOMAIN nodes = 1 .. L
      /\ n \in 1 .. L /\ p \in 1 .. L /\ L + 1 \in 1 .. L + 1
      /\ \A m \in 1 .. L : m \in 1 .. L + 1 /\ m # L + 1
      /\ \A m \in 1 .. L + 1 : m \in 1 .. L \/ m = L + 1
  BY DEF Connected
<1>2. ASSUME NEW m \in 1 .. L
      PROVE  /\ nodes[m] \in NodeRecord
             /\ nodes[m].succ \in Seq(Nat) /\ nodes[m].preds \in Seq(Nat)
             /\ Len(nodes[m].succ) = Len(nodes[m].to)
             /\ \A i \in DOMAIN nodes[m].succ : nodes[m].succ[i] \in 1 .. L \cup {Null}
             /\ \A i \in DOMAIN nodes[m].preds : nodes[m].preds[i] \in 1 .. L
  <2>. HIDE DEF L
  <2>1. nodes[m] \in NodeRecord
    BY <1>1
  <2>. QED  BY <1>1, <2>1, NodeFields DEF Connected
<1>3. /\ copy \in NodeRecord /\ Same(copy, nodes[n])
      /\ copy.succ = nodes[n].succ /\ copy.preds = <<>>
  <2>1. nodes[n] \in NodeRecord
    BY <1>1, <1>2
  <2>2. <<>> \in Seq(Nat)
    OBVIOUS
  <2>3. copy \in NodeRecord
    BY <2>1, <2>2 DEF NodeRecord
  <2>4. copy.preds = <<>>
    BY <2>1 DEF NodeRecord
  <2>5. Same(copy, nodes[n]) /\ copy.succ = nodes[n].succ
    BY <2>1 DEF NodeRecord, Same
  <2>. QED  BY <2>3, <2>4, <2>5
<1>4. /\ succ \in Seq(Nat) /\ Len(succ) = Len(nodes[p].succ) /\ DOMAIN succ = DOMAIN nodes[p].succ
      /\ \A i \in DOMAIN succ : \/ succ[i] = L + 1 /\ nodes[p].succ[i] = n
                               \/ succ[i] = nodes[p].succ[i]
  <2>. DEFINE s == nodes[p].succ
  <2>1. s \in Seq(Nat) /\ L + 1 \in Nat
    BY <1>1, <1>2
  <2>. HIDE DEF s, L
  <2>2. succ = [i \in DOMAIN s |-> IF s[i] = n THEN L + 1 ELSE s[i]]
    BY DEF ReconnectSuccessor, s
  <2>. HIDE DEF succ
  <2>. QED  BY <2>1, <2>2 DEF s
<1>. HIDE DEF copy, succ
<1>5. /\ made \in Seq(NodeRecord) /\ Len(made) = L + 1 /\ DOMAIN made = 1 .. L + 1
      /\ made[L + 1] = copy /\ \A m \in 1 .. L : made[m] = nodes[m]
  BY <1>1, <1>3
<1>6. new = [made EXCEPT ![p] = [made[p] EXCEPT !.succ = succ]]
  BY <1>1, <1>5 DEF CopyFor, copy, succ
<1>. HIDE DEF made
<1>7. /\ DOMAIN new = 1 .. L + 1
      /\ new[p] = [nodes[p] EXCEPT !.succ = succ]
      /\ new[L + 1] = copy
      /\ \A m \in 1 .. L : m # p => new[m] = nodes[m]
  BY <1>1, <1>5, <1>6
<1>8. /\ new[p] \in NodeRecord /\ Same(new[p], nodes[p])
      /\ new[p].succ = succ /\ new[p].preds = nodes[p].preds
  <2>1. nodes[p] \in NodeRecord
    BY <1>1, <1>2
  <2>. HIDE DEF new
  <2>. QED  BY <1>4, <1>7, <2>1 DEF NodeRecord, Same
<1>9. new \in Seq(NodeRecord) /\ Len(new) = L + 1
  <2>1. \A m \in 1 .. L + 1 : new[m] \in NodeRecord
    BY <1>1, <1>2, <1>3, <1>7, <1>8
  <2>2. new = [m \in 1 .. L + 1 |-> new[m]]
    BY <1>5, <1>6, <1>7
  <2>3. new \in [1 .. L + 1 -> NodeRecord]
    BY <2>1, <2>2
  <2>. QED  BY <1>1, <2>3
<1>. HIDE DEF new
<1>10. ASSUME NEW m \in 1 .. L + 1
       PROVE  \E k \in 1 .. L :
                /\ Same(new[m], nodes[k])
                /\ new[m].preds = <<>> \/ new[m].preds = nodes[k].preds
                /\ DOMAIN new[m].succ = DOMAIN nodes[k].succ
                /\ Len(new[m].succ) = Len(nodes[k].succ)
                /\ \A i \in DOMAIN new[m].succ : \/ new[m].succ[i] = L + 1 /\ nodes[k].succ[i] = n
                                                 \/ new[m].succ[i] = nodes[k].succ[i]
  <2>1. CASE m = L + 1
    BY <1>1, <1>3, <1>7, <2>1
  <2>2. CASE m = p
    BY <1>1, <1>4, <1>8, <2>2
  <2>3. CASE m \in 1 .. L /\ m # p
    <3>1. new[m] = nodes[m]
      BY <1>7, <2>3
    <3>. QED  BY <2>3, <3>1 DEF Same
  <2>. QED  BY <1>1, <2>1, <2>2, <2>3
<1>11. Connected(new)
  <2>. SUFFICES ASSUME NEW m \in 1 .. L + 1
                PROVE  /\ Len(new[m].succ) = Len(new[m].to)
                       /\ \A i \in DOMAIN new[m].succ : new[m].succ[i] \in 1 .. L + 1 \cup {Null}
                       /\ \A i \in DOMAIN new[m].preds : new[m].preds[i] \in 1 .. L + 1
    BY <1>7, <1>9 DEF Connected
  <2>1. PICK k \in 1 .. L :
                /\ Same(new[m], nodes[k])
                /\ new[m].preds = <<>> \/ new[m].preds = nodes[k].preds
                /\ DOMAIN new[m].succ = DOMAIN nodes[k].succ
                /\ Len(new[m].succ) = Len(nodes[k].succ)
                /\ \A i \in DOMAIN new[m].succ : \/ new[m].succ[i] = L + 1 /\ nodes[k].succ[i] = n
                                                 \/ new[m].succ[i] = nodes[k].succ[i]
    BY <1>10
  <2>2. Len(new[m].succ) = Len(new[m].to)
    BY <1>2, <2>1 DEF Same
  <2>3. \A i \in DOMAIN new[m].succ : new[m].succ[i] \in 1 .. L + 1 \cup {Null}
    BY <1>1, <1>2, <2>1
  <2>4. \A i \in DOMAIN new[m].preds : new[m].preds[i] \in 1 .. L + 1
    BY <1>1, <1>2, <2>1
  <2>. QED  BY <2>2, <2>3, <2>4
<1>12. Extends(nodes, new)
  <2>1. ASSUME NEW m \in 1 .. L PROVE Same(new[m], nodes[m])
    <3>1. CASE m = p
      BY <1>8, <3>1
    <3>2. CASE m # p
      BY <1>7, <3>2 DEF Same
    <3>. QED  BY <3>1, <3>2
  <2>. QED  BY <1>1, <1>7, <1>10, <2>1 DEF Extends
<1>13. ASSUME AllLinked(nodes) PROVE AllLinked(new)
  <2>. SUFFICES ASSUME NEW m \in 1 .. L + 1, NEW i \in DOMAIN new[m].succ
                PROVE  new[m].succ[i] # 0
    BY <1>7 DEF AllLinked, Null
  <2>1. PICK k \in 1 .. L :
                /\ DOMAIN new[m].succ = DOMAIN nodes[k].succ
                /\ new[m].succ[i] = L + 1 \/ new[m].succ[i] = nodes[k].succ[i]
    BY <1>10
  <2>2. nodes[k].succ[i] # 0
    BY <1>1, <1>13, <2>1 DEF AllLinked, Null
  <2>3. L + 1 # 0
    BY <1>1
  <2>. QED  BY <2>1, <2>2, <2>3
<1>14. ASSUME Addressed(nodes) PROVE Addressed(new)
  <2>. SUFFICES ASSUME NEW m \in 1 .. L + 1, NEW i \in DOMAIN new[m].succ, new[m].succ[i] # Null
                PROVE  new[new[m].succ[i]].address = new[m].to[i]
    BY <1>7 DEF Addressed
  <2>1. PICK k \in 1 .. L :
                /\ Same(new[m], nodes[k])
                /\ DOMAIN new[m].succ = DOMAIN nodes[k].succ
                /\ \/ new[m].succ[i] = L + 1 /\ nodes[k].succ[i] = n
                   \/ new[m].succ[i] = nodes[k].succ[i]
    BY <1>10
  <2>2. new[m].to = nodes[k].to /\ n # Null /\ k \in DOMAIN nodes /\ i \in DOMAIN nodes[k].succ
    BY <1>1, <2>1 DEF Same, Null
  <2>3. nodes[k].succ[i] # Null => nodes[nodes[k].succ[i]].address = nodes[k].to[i]
    BY <1>14, <2>2 DEF Addressed
  <2>4. CASE new[m].succ[i] = L + 1 /\ nodes[k].succ[i] = n
    <3>1. new[L + 1].address = nodes[n].address
      BY <1>3, <1>7 DEF Same
    <3>. QED  BY <2>2, <2>3, <2>4, <3>1
  <2>5. CASE new[m].succ[i] = nodes[k].succ[i]
    <3>1. nodes[k].succ[i] \in 1 .. L
      BY <1>2, <2>2, <2>5
    <3>2. new[nodes[k].succ[i]].address = nodes[nodes[k].succ[i]].address
      BY <1>1, <1>12, <3>1 DEF Extends, Same
    <3>. QED  BY <2>2, <2>3, <2>5, <3>2
  <2>. QED  BY <2>1, <2>4, <2>5
<1>. QED  BY <1>1, <1>9, <1>11, <1>12, <1>13, <1>14 DEF Grown, new

LEMMA CopiesGrow ==
  ASSUME NodeInv, NEW n \in DOMAIN node, Len(node[n].preds) # 0
  PROVE  Grown(node, Copies(n))
<1>. DEFINE preds == node[n].preds
            N == Len(preds)
            Def(f, k) == [i \in 1 .. k |-> IF i = 1 THEN node ELSE CopyFor(f[i - 1], n, preds[i])]
            go == CHOOSE f : f = Def(f, N)
<1>1. N \in Nat \ {0} /\ \A i \in 1 .. N : preds[i] \in DOMAIN node
  BY NodeFields DEF NodeInv, Connected
<1>2. Copies(n) = go[N]
  BY DEF Copies
<1>. HIDE DEF N, preds
<1>3. \E f : f = Def(f, N)
  <2>. DEFINE possible(k) == \E f : f = Def(f, k)
              T == {k \in 0 .. N : ~possible(k)}
  <2>1. possible(0)
    <3>. DEFINE f == [i \in 1 .. 0 |-> 0]
    <3>1. f = Def(f, 0)
      OBVIOUS
    <3>. QED  BY <3>1
  <2>2. ASSUME NEW k \in 1 .. N, possible(k - 1) PROVE possible(k)
    <3>1. PICK f : f = Def(f, k - 1)
      BY <2>2
    <3>. DEFINE value(i) == IF i = 1 THEN node ELSE CopyFor(f[i - 1], n, preds[i])
                g == [i \in 1 .. k |-> value(i)]
    <3>2. f = [i \in 1 .. k - 1 |-> value(i)]
      BY <3>1
    <3>. HIDE DEF value
    <3>3. \A i \in 1 .. k - 1 : i \in 1 .. k /\ g[i] = f[i]
      BY <1>1, <3>2
    <3>4. \A i \in 1 .. k : i # 1 => i - 1 \in 1 .. k - 1
      BY <1>1
    <3>5. \A i \in 1 .. k : value(i) = IF i = 1 THEN node ELSE CopyFor(g[i - 1], n, preds[i])
      BY <3>3, <3>4 DEF value
    <3>6. g = Def(g, k)
      BY <3>5
    <3>. QED  BY <3>6
  <2>. HIDE DEF possible
  <2>3. ASSUME ~possible(N) PROVE FALSE
    <3>1. T \in SUBSET Nat /\ T # {}
      BY <1>1, <2>3
    <3>2. PICK k \in T : \A j \in T : k <= j
      BY <3>1, LeastNumber, Zenon
    <3>3. k \in 0 .. N /\ ~possible(k)
      BY <3>2
    <3>4. k \in 1 .. N /\ k - 1 \in 0 .. N
      BY <1>1, <2>1, <3>3
    <3>5. k - 1 \notin T
      BY <1>1, <3>2, <3>4
    <3>. QED  BY <2>2, <3>3, <3>4, <3>5
  <2>. QED  BY <2>3 DEF possible
<1>4. go = Def(go, N)
  BY <1>3
<1>. HIDE DEF go
<1>5. Grown(node, node)
  <2>1. Len(node) <= Len(node)
    BY DEF NodeInv, Connected
  <2>. QED  BY <2>1 DEF Grown, NodeInv, Extends, Same
<1>6. ASSUME NEW k \in 1 .. N, ~Grown(node, go[k]) PROVE FALSE
  <2>. DEFINE T == {j \in 1 .. N : ~Grown(node, go[j])}
  <2>1. T \in SUBSET Nat /\ T # {}
    <3>1. 1 .. N \subseteq Nat
      BY <1>1
    <3>. QED  BY <1>6, <3>1
  <2>2. PICK j \in T : \A i \in T : j <= i
    BY <2>1, LeastNumber, Zenon
  <2>3. j # 1
    BY <1>1, <1>4, <1>5, <2>2
  <2>4. j - 1 \in 1 .. N /\ j - 1 \notin T
    BY <1>1, <2>2, <2>3
  <2>5. go[j] = CopyFor(go[j - 1], n, preds[j])
    BY <1>1, <1>4, <2>2, <2>3
  <2>6. Grown(node, go[j - 1])
    BY <2>4
  <2>7. n \in DOMAIN go[j - 1] /\ preds[j] \in DOMAIN go[j - 1] /\ Connected(go[j - 1])
    BY <1>1, <2>2, <2>6 DEF Grown, Extends
  <2>8. Grown(go[j - 1], go[j])
    BY <2>5, <2>7, CopyForGrows
  <2>9. Grown(node, go[j])
    BY <2>6, <2>8, GrownTransitive DEF NodeInv
  <2>. QED  BY <2>2, <2>9
<1>. QED  BY <1>1, <1>2, <1>6

(* A sequence put into another, before its k-th element. *)
LEMMA Inserted ==
  ASSUME NEW s \in Seq(Nat), NEW c \in Seq(Nat), NEW k \in 1 .. Len(s), NEW r,
         r = SubSeq(s, 1, k - 1) \o c \o SubSeq(s, k, Len(s))
  PROVE  r \in Seq(Nat) /\ Len(r) = Len(s) + Len(c) /\ Range(r) = Range(s) \cup Range(c)
<1>. DEFINE a == SubSeq(s, 1, k - 1)
            b == SubSeq(s, k, Len(s))
<1>1. Len(s) \in Nat /\ k \in Nat /\ k - 1 \in Int /\ \A i \in 1 .. Len(s) : s[i] \in Nat
  OBVIOUS
<1>2. a \in Seq(Nat) /\ b \in Seq(Nat)
  <2>1. \A i \in 1 .. k - 1 : s[i] \in Nat
    BY <1>1
  <2>2. \A i \in k .. Len(s) : s[i] \in Nat
    BY <1>1
  <2>. QED  BY <1>1, <2>1, <2>2, SubSeqProperties
<1>3. a \o b = s
  <2>1. k - 1 \in 1 - 1 .. Len(s) /\ Len(s) \in k - 1 .. Len(s) /\ 1 \in 1 .. Len(s) + 1 /\ k - 1 + 1 = k
    BY <1>1
  <2>2. SubSeq(s, 1, k - 1) \o SubSeq(s, k - 1 + 1, Len(s)) = SubSeq(s, 1, Len(s))
    BY <2>1, ConcatAdjacentSubSeq
  <2>. QED  BY <2>1, <2>2, SubSeqFull
<1>. HIDE DEF a, b
<1>4. r = (a \o c) \o b /\ a \o c \in Seq(Nat)
  BY <1>2, ConcatProperties DEF a, b
<1>5. /\ Len(a) \in Nat /\ Len(b) \in Nat /\ Len(c) \in Nat
      /\ Len(a \o b) = Len(a) + Len(b) /\ Len(a \o c) = Len(a) + Len(c)
  BY <1>2, ConcatProperties, LenProperties
<1>6. Len((a \o c) \o b) = Len(a \o c) + Len(b) /\ (a \o c) \o b \in Seq(Nat)
  BY <1>2, <1>4, ConcatProperties, Zenon
<1>7. Len(r) = Len(s) + Len(c) /\ r \in Seq(Nat)
  <2>. DEFINE d == a \o c
  <2>1. r = d \o b /\ Len(d \o b) = Len(d) + Len(b) /\ Len(d) = Len(a) + Len(c) /\ Len(s) = Len(a) + Len(b)
    BY <1>3, <1>4, <1>5, <1>6, Zenon
  <2>. HIDE DEF d
  <2>2. Len(r) = Len(a) + Len(c) + Len(b)
    BY <2>1
  <2>3. Len(a) + Len(c) + Len(b) = (Len(a) + Len(b)) + Len(c)
    BY <1>5
  <2>4. r \in Seq(Nat)
    BY <1>4, <1>6
  <2>. QED  BY <2>1, <2>2, <2>3, <2>4
<1>8. /\ Range((a \o c) \o b) = Range(a \o c) \cup Range(b)
      /\ Range(a \o c) = Range(a) \cup Range(c)
      /\ Range(a \o b) = Range(a) \cup Range(b)
  <2>1. \A x, y \in Seq(Nat) : Range(x \o y) = Range(x) \cup Range(y)
    BY RangeConcatenation
  <2>. QED  BY <1>2, <1>4, <2>1, Zenon
<1>. QED  BY <1>3, <1>4, <1>7, <1>8, Zenon

LEMMA ShareInv ==
  ASSUME IInv, Share
  PROVE  IInv'
<1>. DEFINE n == list[item]
            shares == node[n].address \in shared /\ Len(node[n].preds) > 1
            L == Len(node)
            new == Len(node') - Len(node)
            fresh == [k \in 1 .. new |-> Len(node) + k]
<1>1. /\ phase = "share" /\ item <= Len(list)
      /\ UNCHANGED <<input, begin, cur>>
  BY DEF Share
<1>2. /\ NodeInv /\ L \in Nat /\ DOMAIN node = 1 .. L
      /\ list \in Seq(Nat) /\ Len(list) \in Nat /\ item \in 1 .. Len(list) /\ n \in DOMAIN node
  <2>1. NodeInv /\ L \in Nat /\ DOMAIN node = 1 .. L
    BY DEF IInv, NodeInv, Connected
  <2>2. list \in Seq(Nat) /\ item \in 1 .. Len(list) + 1 /\ \A k \in DOMAIN list : list[k] \in DOMAIN node
    BY DEF IInv, ListInv
  <2>3. item \in 1 .. Len(list)
    BY <1>1, <2>2
  <2>. QED  BY <2>1, <2>2, <2>3
<1>3. CASE shares /\ CannotCopy(n)
  <2>1. phase' = "crash" /\ UNCHANGED <<node, list, item>>
    BY <1>3 DEF Share
  <2>2. Extends(node, node')
    BY <2>1 DEF Extends, Same
  <2>3. InputInv' /\ PlaceInv' /\ TargetInv' /\ (Proper' <=> Proper)
    BY <1>1, <2>2, ExtendsKeeps
  <2>4. NodeInv'
    BY <1>2, <2>1 DEF NodeInv, Connected
  <2>5. ListInv'
    BY <1>1, <2>1 DEF IInv, ListInv
  <2>6. EndInv' /\ LinkInv'
    BY <1>1, <2>1, <2>3 DEF IInv, EndInv, LinkInv, Linked, input
  <2>. QED  BY <2>3, <2>4, <2>5, <2>6 DEF IInv
<1>4. CASE ~(shares /\ CannotCopy(n))
  <2>1. /\ phase' = phase
        /\ node' = IF shares THEN Copies(n) ELSE node
        /\ list' = SubSeq(list, 1, item - 1) \o fresh \o SubSeq(list, item, Len(list))
        /\ item' = item + new + 1
    BY <1>4 DEF Share
  <2>2. Grown(node, node')
    <3>1. CASE shares
      <4>1. Len(node[n].preds) # 0
        BY <3>1
      <4>. QED  BY <1>2, <2>1, <3>1, <4>1, CopiesGrow
    <3>2. CASE ~shares
      <4>1. node' = node
        BY <2>1, <3>2
      <4>2. Len(node) <= Len(node')
        BY <1>2, <4>1
      <4>. QED  BY <1>2, <4>1, <4>2 DEF Grown, NodeInv, Extends, Same
    <3>. QED  BY <3>1, <3>2
  <2>. HIDE DEF shares, n
  <2>3. NodeInv'
    BY <2>2 DEF Grown, NodeInv, Connected
  <2>4. InputInv' /\ PlaceInv' /\ TargetInv' /\ (Proper' <=> Proper)
    BY <1>1, <2>2, ExtendsKeeps DEF Grown
  <2>5. /\ new \in Nat /\ Len(node') = L + new /\ DOMAIN node' = 1 .. L + new
        /\ fresh \in Seq(Nat) /\ Len(fresh) = new /\ DOMAIN fresh = 1 .. new
        /\ \A k \in 1 .. new : fresh[k] = L + k
    <3>1. Len(node') \in Nat /\ L <= Len(node') /\ DOMAIN node' = 1 .. Len(node')
      BY <2>2 DEF Grown, Connected
    <3>2. new \in Nat /\ Len(node') = L + new
      BY <1>2, <3>1
    <3>. HIDE DEF new
    <3>. QED  BY <1>2, <3>1, <3>2
  <2>. HIDE DEF new, fresh
  <2>6. list' \in Seq(Nat) /\ Len(list') = Len(list) + new /\ Range(list') = Range(list) \cup Range(fresh)
    <3>. HIDE DEF L
    <3>1. list' = SubSeq(list, 1, item - 1) \o fresh \o SubSeq(list, item, Len(list))
      BY <2>1
    <3>2. fresh \in Seq(Nat) /\ Len(fresh) = new
      BY <2>5
    <3>. QED  BY <1>2, <3>1, <3>2, Inserted
  <2>7. ListInv'
    <3>. HIDE DEF L
    <3>1. ASSUME NEW k \in DOMAIN list' PROVE list'[k] \in DOMAIN node'
      <4>1. list'[k] \in Range(list) \/ list'[k] \in Range(fresh)
        BY <2>6 DEF Range
      <4>2. CASE list'[k] \in Range(list)
        <5>1. list'[k] \in 1 .. L
          BY <1>2, <4>2 DEF IInv, ListInv, Range
        <5>. QED  BY <1>2, <2>5, <5>1
      <4>3. CASE list'[k] \in Range(fresh)
        <5>1. PICK j \in 1 .. new : list'[k] = L + j
          BY <2>5, <4>3 DEF Range
        <5>. QED  BY <1>2, <2>5, <5>1
      <4>. QED  BY <4>1, <4>2, <4>3
    <3>2. ASSUME NEW m \in DOMAIN node' PROVE \E k \in DOMAIN list' : list'[k] = m
      <4>1. CASE m \in 1 .. L
        <5>1. m \in Range(list)
          BY <1>2, <4>1 DEF IInv, ListInv, Range
        <5>. QED  BY <2>6, <5>1 DEF Range
      <4>2. CASE m \notin 1 .. L
        <5>1. m - L \in 1 .. new /\ L + (m - L) = m
          BY <1>2, <2>5, <4>2
        <5>2. m \in Range(fresh)
          BY <2>5, <5>1 DEF Range
        <5>. QED  BY <2>6, <5>2 DEF Range
      <4>. QED  BY <4>1, <4>2
    <3>3. item' \in 1 .. Len(list') + 1
      <4>1. item' = item + new + 1 /\ new \in Nat /\ Len(list') = Len(list) + new
        BY <2>1, <2>5, <2>6
      <4>. QED  BY <1>2, <4>1
    <3>. QED  BY <1>1, <2>1, <2>6, <3>1, <3>2, <3>3 DEF ListInv
  <2>8. EndInv'
    BY <1>1, <2>1, <2>4 DEF IInv, EndInv, input
  <2>9. LinkInv'
    <3>. SUFFICES ASSUME Proper PROVE AllLinked(node')
      BY <1>1, <2>1, <2>4 DEF LinkInv, Linked, AllLinked
    <3>1. AllLinked(node)
      BY <1>1 DEF IInv, LinkInv, Linked, AllLinked
    <3>. QED  BY <2>2, <3>1 DEF Grown
  <2>. QED  BY <2>3, <2>4, <2>7, <2>8, <2>9 DEF IInv
<1>. QED  BY <1>3, <1>4

-----------------------------------------------------------------------------
(* What neither makes nor changes a node, nor moves begin and cur. *)
LEMMA TurnInv ==
  ASSUME IInv, UNCHANGED <<input, begin, cur, node, list>>,
         \/ EndCutting \/ EndConnecting \/ Done \/ UNCHANGED vars
  PROVE  IInv'
<1>1. UNCHANGED <<instr, begin, cur, node, list>>
  BY DEF input
<1>2. Extends(node, node')
  BY <1>1 DEF Extends, Same
<1>3. InputInv' /\ PlaceInv' /\ TargetInv' /\ (Proper' <=> Proper)
  BY <1>2, ExtendsKeeps
<1>4. NodeInv'
  BY <1>1 DEF IInv, NodeInv, Connected
<1>5. ListInv'
  <2>1. /\ item' \in 1 .. Len(list) + 1
        /\ phase' \in {"cut", "connect", "share", "done", "crash"}
        /\ phase' \in {"cut", "connect"} => phase \in {"cut", "connect"}
        /\ phase' = "cut" => phase = "cut" /\ item' = item
    BY DEF IInv, ListInv, EndCutting, EndConnecting, Done, vars
  <2>. QED  BY <1>1, <2>1 DEF IInv, ListInv
<1>6. EndInv'
  <2>1. Proper /\ phase' # "cut" => cur = Len(instr) + 1
    <3>1. cur \in Nat /\ Len(instr) \in Nat
      BY DEF IInv, InputInv, PlaceInv
    <3>. QED  BY <3>1 DEF IInv, EndInv, EndCutting, EndConnecting, Done, vars
  <2>. QED  BY <1>1, <1>3, <2>1 DEF IInv, EndInv
<1>7. LinkInv'
  <2>1. CASE EndCutting
    <3>1. phase' = "connect" /\ item' = 1
      BY <2>1 DEF IInv, ListInv, EndCutting
    <3>. QED  BY <3>1 DEF LinkInv
  <2>2. CASE EndConnecting
    <3>1. phase = "connect" /\ item > Len(list) /\ phase' = "share"
      BY <2>2 DEF EndConnecting
    <3>2. item - 1 = Len(node) /\ DOMAIN node = 1 .. Len(node)
      BY <3>1 DEF IInv, ListInv, NodeInv, Connected
    <3>. QED  BY <1>1, <1>3, <3>1, <3>2 DEF IInv, LinkInv, Linked
  <2>3. CASE Done \/ UNCHANGED vars
    BY <1>1, <1>3, <2>3 DEF IInv, LinkInv, Linked, Done, vars
  <2>. QED  BY <2>1, <2>2, <2>3
<1>. QED  BY <1>3, <1>4, <1>5, <1>6, <1>7 DEF IInv

LEMMA NextInv ==
  ASSUME IInv, [Next]_vars
  PROVE  IInv'
<1>1. CASE EndCutting \/ EndConnecting \/ Done \/ UNCHANGED vars
  <2>1. UNCHANGED <<input, begin, cur, node, list>>
    BY <1>1 DEF EndCutting, EndConnecting, Done, vars, input
  <2>. QED  BY <1>1, <2>1, TurnInv
<1>. QED  BY <1>1, EndNodeInv, MeetLabelInv, SkipOtherInv, ConnectInv, ShareInv DEF Next

(***************************************************************************)
(* The node list is well formed at every step: what nodes, lists and       *)
(* iterators of CreateList refer to is there.                              *)
(***************************************************************************)
THEOREM TypeCorrect == Spec => []TypeOK
<1>1. IInv => TypeOK
  BY InvType
<1>. QED  BY <1>1, InitInv, NextInv, PTL DEF Spec

(***************************************************************************)
(* Every instruction of a proper function is in a node when CreateList is  *)
(* done, however long the function is.                                     *)
(***************************************************************************)
THEOREM Covers == Spec => []NothingDropped
<1>1. IInv => NothingDropped
  BY InvCovers
<1>. QED  BY <1>1, InitInv, NextInv, PTL DEF Spec

(***************************************************************************)
(* Of a proper function, every successor of every node, copies included,   *)
(* is a node of the list.                                                  *)
(***************************************************************************)
THEOREM Connects == Spec => []AllConnected
<1>1. IInv => AllConnected
  BY InvConnected
<1>. QED  BY <1>1, InitInv, NextInv, PTL DEF Spec

-----------------------------------------------------------------------------
(***************************************************************************)
(* What a front end makes is in the order of addresses, and of one address *)
(* first the labels.  Two others of one address are a condition and what   *)
(* it guards.                                                              *)
(***************************************************************************)
InOrder(x, y) ==
  /\ x.addr <= y.addr
  /\ x.addr = y.addr /\ y.kind = "LABEL" => x.kind = "LABEL"

IsPair(x, y) == x.kind = "CONDITIONAL_JUMP" /\ y.kind = "OTHER"

Listing(s) ==
  /\ \A i, j \in DOMAIN s : i < j =>
       /\ InOrder(s[i], s[j])
       /\ s[i].addr = s[j].addr /\ s[i].kind # "LABEL" => j = i + 1 /\ IsPair(s[i], s[j])
  /\ \A i \in DOMAIN s : s[i].kind \in {"LABEL", "OTHER"} => s[i].to = <<>>

(* Two listings make one if the second has later addresses, or the same as *)
(* labels of the first.                                                    *)
LEMMA Joined ==
  ASSUME NEW s \in Seq(MachineInstruction), NEW p \in Seq(MachineInstruction),
         Listing(s), Listing(p),
         \A i \in DOMAIN s, j \in DOMAIN p :
           /\ s[i].addr <= p[j].addr
           /\ s[i].addr = p[j].addr => s[i].kind = "LABEL"
  PROVE  /\ s \o p \in Seq(MachineInstruction) /\ Listing(s \o p)
         /\ \A i \in DOMAIN (s \o p) :
              (\E k \in DOMAIN s : (s \o p)[i] = s[k]) \/ (\E k \in DOMAIN p : (s \o p)[i] = p[k])
<1>. DEFINE q == s \o p
            a == Len(s)
            b == Len(p)
<1>1. /\ q \in Seq(MachineInstruction) /\ DOMAIN q = 1 .. a + b /\ a \in Nat /\ b \in Nat
      /\ DOMAIN s = 1 .. a /\ DOMAIN p = 1 .. b
      /\ \A i \in 1 .. a : q[i] = s[i]
      /\ \A i \in 1 .. b : q[a + i] = p[i]
  OBVIOUS
<1>. HIDE DEF q, a, b
<1>2. ASSUME NEW i \in 1 .. a + b
      PROVE  (i \in 1 .. a /\ q[i] = s[i]) \/ (i - a \in 1 .. b /\ q[i] = p[i - a])
  <2>1. CASE i <= a
    BY <1>1, <2>1
  <2>2. CASE i > a
    <3>1. i - a \in 1 .. b /\ i = a + (i - a)
      BY <1>1, <2>2
    <3>. QED  BY <1>1, <3>1
  <2>. QED  BY <1>1, <2>1, <2>2
<1>3. ASSUME NEW i \in 1 .. a + b, NEW j \in 1 .. a + b, i < j
      PROVE  /\ InOrder(q[i], q[j])
             /\ q[i].addr = q[j].addr /\ q[i].kind # "LABEL" => j = i + 1 /\ IsPair(q[i], q[j])
  <2>1. CASE j <= a
    <3>1. i \in 1 .. a /\ j \in 1 .. a
      BY <1>1, <1>3, <2>1
    <3>. QED  BY <1>1, <1>3, <3>1 DEF Listing
  <2>2. CASE i > a
    <3>1. i - a \in 1 .. b /\ j - a \in 1 .. b /\ i - a < j - a
      BY <1>1, <1>3, <2>2
    <3>2. q[i] = p[i - a] /\ q[j] = p[j - a]
      BY <1>1, <1>2, <1>3, <2>2
    <3>3. j - a = (i - a) + 1 => j = i + 1
      BY <1>1
    <3>4. /\ InOrder(p[i - a], p[j - a])
          /\ p[i - a].addr = p[j - a].addr /\ p[i - a].kind # "LABEL" =>
               j - a = (i - a) + 1 /\ IsPair(p[i - a], p[j - a])
      BY <1>1, <3>1 DEF Listing
    <3>. QED  BY <3>2, <3>3, <3>4, Zenon
  <2>3. CASE i <= a /\ j > a
    <3>1. i \in 1 .. a /\ j - a \in 1 .. b
      BY <1>1, <2>3
    <3>2. q[i] = s[i] /\ q[j] = p[j - a]
      BY <1>1, <1>2, <2>3
    <3>3. s[i].addr <= p[j - a].addr /\ (s[i].addr = p[j - a].addr => s[i].kind = "LABEL")
      BY <1>1, <3>1
    <3>. QED  BY <3>2, <3>3 DEF InOrder
  <2>. QED  BY <1>1, <2>1, <2>2, <2>3
<1>4. Listing(q)
  <2>1. ASSUME NEW i \in 1 .. a + b, q[i].kind \in {"LABEL", "OTHER"} PROVE q[i].to = <<>>
    <3>1. CASE i \in 1 .. a /\ q[i] = s[i]
      BY <1>1, <2>1, <3>1 DEF Listing
    <3>2. CASE i - a \in 1 .. b /\ q[i] = p[i - a]
      BY <1>1, <2>1, <3>2, Zenon DEF Listing
    <3>. QED  BY <1>2, <3>1, <3>2
  <2>. QED  BY <1>1, <1>3, <2>1 DEF Listing
<1>5. \A i \in DOMAIN q : (\E k \in DOMAIN s : q[i] = s[k]) \/ (\E k \in DOMAIN p : q[i] = p[k])
  BY <1>1, <1>2
<1>. QED  BY <1>1, <1>4, <1>5 DEF q

LEMMA OperationTo ==
  ASSUME NEW op \in Operations, op.kind = "OTHER"
  PROVE  op.to = <<>>
BY DEF Operations

(* The instructions made of the machine instruction at a, its label too. *)
Made(a, code, named) == LabelAt(a, named) \o Decoded(a, code[a], named)

(* s has addresses from a up to b only, and of b only labels. *)
Between(s, a, b) ==
  /\ s \in Seq(MachineInstruction) /\ Listing(s)
  /\ \A i \in DOMAIN s : /\ a <= s[i].addr /\ s[i].addr <= b
                         /\ s[i].addr = b => s[i].kind = "LABEL"

LEMMA AddressesOf ==
  ASSUME NEW s \in Seq(MachineInstruction), NEW i \in DOMAIN s
  PROVE  /\ s[i] \in MachineInstruction /\ s[i].kind \in Kinds /\ s[i].addr \in Nat
         /\ s[i].to \in Seq(Nat)
<1>1. s[i] \in MachineInstruction
  OBVIOUS
<1>. QED  BY <1>1 DEF MachineInstruction

LEMMA JoinedBetween ==
  ASSUME NEW a \in Nat, NEW b \in Nat, NEW c \in Nat, a <= b, b <= c,
         NEW s, NEW p, Between(s, a, b), Between(p, b, c)
  PROVE  Between(s \o p, a, c)
<1>1. \A i \in DOMAIN s : s[i].addr \in Nat
  BY AddressesOf DEF Between
<1>2. \A i \in DOMAIN p : p[i].addr \in Nat
  BY AddressesOf DEF Between
<1>3. /\ \A i \in DOMAIN s : a <= s[i].addr /\ s[i].addr <= b /\ (s[i].addr = b => s[i].kind = "LABEL")
      /\ \A i \in DOMAIN p : b <= p[i].addr /\ p[i].addr <= c /\ (p[i].addr = c => p[i].kind = "LABEL")
      /\ s \in Seq(MachineInstruction) /\ p \in Seq(MachineInstruction) /\ Listing(s) /\ Listing(p)
  BY DEF Between
<1>4. \A i \in DOMAIN s, j \in DOMAIN p :
        /\ s[i].addr <= p[j].addr
        /\ s[i].addr = p[j].addr => s[i].kind = "LABEL"
  BY <1>1, <1>2, <1>3
<1>. DEFINE q == s \o p
<1>5. /\ q \in Seq(MachineInstruction) /\ Listing(q)
      /\ \A i \in DOMAIN q : (\E k \in DOMAIN s : q[i] = s[k]) \/ (\E k \in DOMAIN p : q[i] = p[k])
  BY <1>3, <1>4, Joined
<1>. HIDE DEF q
<1>6. \A i \in DOMAIN s : a <= s[i].addr /\ s[i].addr <= c /\ (s[i].addr = c => s[i].kind = "LABEL")
  BY <1>1, <1>3
<1>7. \A i \in DOMAIN p : a <= p[i].addr /\ p[i].addr <= c /\ (p[i].addr = c => p[i].kind = "LABEL")
  BY <1>2, <1>3
<1>8. Between(q, a, c)
  BY <1>5, <1>6, <1>7 DEF Between
<1>. QED  BY <1>8 DEF q

LEMMA LabelsBetween ==
  ASSUME NEW a \in Nat, NEW named
  PROVE  Between(LabelAt(a, named), a, a)
<1>1. CASE a \in named
  <2>. DEFINE x == Instruction("LABEL", a, <<>>)
              s == <<x>>
  <2>1. x \in MachineInstruction /\ x.kind = "LABEL" /\ x.addr = a /\ x.to = <<>>
    BY DEF Instruction, MachineInstruction, Kinds
  <2>. HIDE DEF x
  <2>2. s \in Seq(MachineInstruction) /\ DOMAIN s = {1} /\ s[1] = x
    BY <2>1
  <2>. HIDE DEF s
  <2>3. Between(s, a, a)
    BY <2>1, <2>2 DEF Between, Listing
  <2>. QED  BY <1>1, <2>3 DEF LabelAt, s, x
<1>2. CASE a \notin named
  <2>1. LabelAt(a, named) = <<>>
    BY <1>2 DEF LabelAt
  <2>. QED  BY <2>1 DEF Between, Listing
<1>. QED  BY <1>1, <1>2

LEMMA DecodedBetween ==
  ASSUME NEW code \in [Address -> Operations], NEW named, NEW a \in Address
  PROVE  Between(Decoded(a, code[a], named), a, a + 1)
<1>1. a \in Nat /\ a \in 1 .. M /\ M \in Nat
  BY MAssumption DEF Address
<1>2. code[a] \in Operations
  OBVIOUS
<1>3. \/ code[a].kind \in {"IGNORED", "CONDITIONAL"}
      \/ code[a].kind \in Kinds /\ code[a].to \in Seq(Nat)
  BY OperationType
<1>4. CASE code[a].kind = "IGNORED"
  <2>1. Decoded(a, code[a], named) = <<>>
    BY <1>4 DEF Decoded
  <2>. QED  BY <2>1 DEF Between, Listing
<1>5. CASE code[a].kind = "CONDITIONAL"
  <2>. DEFINE t == IF a = M THEN Elsewhere ELSE a + 1
              x == Instruction("CONDITIONAL_JUMP", a, <<t>>)
              y == Instruction("OTHER", a, <<>>)
              s == <<x, y>>
  <2>1. t \in Nat
    BY <1>1 DEF Elsewhere
  <2>. HIDE DEF t
  <2>2. /\ x \in MachineInstruction /\ x.kind = "CONDITIONAL_JUMP" /\ x.addr = a
        /\ y \in MachineInstruction /\ y.kind = "OTHER" /\ y.addr = a /\ y.to = <<>>
    BY <1>1, <2>1 DEF Instruction, MachineInstruction, Kinds
  <2>. HIDE DEF x, y
  <2>3. s \in Seq(MachineInstruction) /\ DOMAIN s = {1, 2} /\ s[1] = x /\ s[2] = y
    BY <2>2
  <2>. HIDE DEF s
  <2>4. Listing(s)
    BY <1>1, <2>2, <2>3 DEF Listing, InOrder, IsPair
  <2>5. Between(s, a, a + 1)
    BY <1>1, <2>2, <2>3, <2>4 DEF Between
  <2>6. Between(LabelAt(a + 1, named), a + 1, a + 1)
    BY <1>1, LabelsBetween
  <2>7. Between(s \o LabelAt(a + 1, named), a, a + 1)
    BY <1>1, <2>5, <2>6, JoinedBetween
  <2>8. Decoded(a, code[a], named) = s \o LabelAt(a + 1, named)
    BY <1>5 DEF Decoded, s, x, y, t
  <2>. QED  BY <2>7, <2>8
<1>6. CASE code[a].kind \in Kinds /\ code[a].to \in Seq(Nat)
  <2>. DEFINE x == Instruction(code[a].kind, a, code[a].to)
              s == <<x>>
  <2>1. x \in MachineInstruction /\ x.kind = code[a].kind /\ x.addr = a /\ x.to = code[a].to
    BY <1>1, <1>6 DEF Instruction, MachineInstruction
  <2>2. x.kind \in {"LABEL", "OTHER"} => x.to = <<>>
    <3>1. code[a].kind # "LABEL"
      BY <1>2 DEF Operations
    <3>. QED  BY <2>1, <3>1, OperationTo
  <2>. HIDE DEF x
  <2>3. s \in Seq(MachineInstruction) /\ DOMAIN s = {1} /\ s[1] = x
    BY <2>1
  <2>. HIDE DEF s
  <2>4. Between(s, a, a + 1)
    BY <1>1, <2>1, <2>2, <2>3 DEF Between, Listing
  <2>5. Decoded(a, code[a], named) = s
    BY <1>6 DEF Decoded, Kinds, s, x
  <2>. QED  BY <2>4, <2>5
<1>. QED  BY <1>3, <1>4, <1>5, <1>6

LEMMA MadeBetween ==
  ASSUME NEW code \in [Address -> Operations], NEW named, NEW a \in Address
  PROVE  Between(Made(a, code, named), a, a + 1)
<1>1. a \in Nat
  BY DEF Address
<1>. QED  BY <1>1, LabelsBetween, DecodedBetween, JoinedBetween DEF Made

(* What a front end makes is such a list. *)
LEMMA InstructionsListed ==
  ASSUME NEW code \in [Address -> Operations], NEW named
  PROVE  Listing(Instructions(code, named))
<1>1. Address = 1 .. M /\ M \in Nat \ {0}
  BY MAssumption DEF Address
<1>. DEFINE s == [a \in Address |-> LabelAt(a, named) \o Decoded(a, code[a], named)]
            Part(a) == Between(s[a], a, a + 1)
<1>2. ASSUME NEW a \in 1 .. M PROVE Part(a) /\ s[a] \in Seq(MachineInstruction)
  <2>1. s[a] = Made(a, code, named)
    BY <1>1 DEF Made
  <2>2. Between(Made(a, code, named), a, a + 1)
    BY <1>1, MadeBetween
  <2>. HIDE DEF s
  <2>. QED  BY <2>1, <2>2, Zenon DEF Between
<1>3. s \in Seq(Seq(MachineInstruction)) /\ Len(s) = M /\ Len(s) # 0
  <2>1. s = [a \in 1 .. M |-> s[a]]
    BY <1>1
  <2>. HIDE DEF s
  <2>2. s \in [1 .. M -> Seq(MachineInstruction)]
    BY <1>2, <2>1
  <2>. QED  BY <1>1, <2>2
<1>4. FlattenSeq(s) = Instructions(code, named)
  BY DEF Instructions
<1>. HIDE DEF s
<1>5. PICK f : /\ FlattenSeq(s) = f[M]
               /\ \A i \in 1 .. M : f[i] = IF i = 1 THEN s[i] ELSE f[i - 1] \o s[i]
  <2>. DEFINE S == Seq(MachineInstruction)
  <2>1. s \in Seq(S) /\ Len(s) # 0
    BY <1>3
  <2>. HIDE DEF S
  <2>2. \E f : /\ FlattenSeq(s) = f[Len(s)]
               /\ \A i \in 1 .. Len(s) : f[i] = IF i = 1 THEN s[i] ELSE f[i - 1] \o s[i]
    BY <2>1, FlattenSteps
  <2>. QED  BY <1>3, <2>2
<1>. DEFINE Fits(k) == Between(f[k], 1, k + 1)
            T == {k \in 1 .. M : ~Fits(k)}
<1>6. ASSUME NEW k \in 1 .. M, ~Fits(k) PROVE FALSE
  <2>. HIDE DEF Fits
  <2>1. T \in SUBSET Nat /\ T # {}
    <3>1. 1 .. M \subseteq Nat
      BY <1>1
    <3>. QED  BY <1>6, <3>1
  <2>2. PICK j \in T : \A i \in T : j <= i
    BY <2>1, LeastNumber, Zenon
  <2>3. j \in 1 .. M /\ ~Fits(j) /\ Part(j)
    BY <1>2, <2>2
  <2>4. j # 1
    <3>. SUFFICES ASSUME j = 1 PROVE FALSE
      OBVIOUS
    <3>1. f[1] = s[1] /\ Between(s[1], 1, 1 + 1)
      BY <1>5, <2>3
    <3>. QED  BY <2>3, <3>1, Zenon DEF Fits
  <2>5. j - 1 \in 1 .. M /\ j - 1 \notin T
    BY <1>1, <2>2, <2>3, <2>4
  <2>6. f[j] = f[j - 1] \o s[j]
    BY <1>5, <2>3, <2>4
  <2>7. Between(f[j - 1], 1, j)
    <3>1. Fits(j - 1) /\ (j - 1) + 1 = j
      BY <1>1, <2>3, <2>5
    <3>. QED  BY <3>1 DEF Fits
  <2>8. 1 \in Nat /\ j \in Nat /\ j + 1 \in Nat /\ 1 <= j /\ j <= j + 1
    BY <1>1, <2>3
  <2>9. Between(f[j - 1] \o s[j], 1, j + 1)
    BY <2>3, <2>7, <2>8, JoinedBetween
  <2>. QED  BY <2>3, <2>6, <2>9 DEF Fits
<1>7. Fits(M)
  BY <1>1, <1>6
<1>. QED  BY <1>4, <1>5, <1>7, Zenon DEF Between

-----------------------------------------------------------------------------
(***************************************************************************)
(* A node begins where control can arrive, is left at its end only, and    *)
(* goes where its last instruction says.                                   *)
(***************************************************************************)
Starts(i) == i = 1 \/ instr[i].kind = "LABEL" \/ IsTransfer(i - 1)

LeavesAs(last, to) ==
  IF IsTransfer(last)
  THEN to = IF instr[last].kind = "CONDITIONAL_JUMP" THEN Append(instr[last].to, AddressAfter(last))
            ELSE instr[last].to
  ELSE last < Len(instr) /\ instr[last + 1].kind = "LABEL" /\ to = <<instr[last + 1].addr>>

Cut(n) ==
  /\ Starts(n.first)
  /\ \A i \in n.first .. n.last - 1 : ~IsTransfer(i)
  /\ LeavesAs(n.last, n.to)

CutInv ==
  Proper => /\ \A n \in DOMAIN node : Cut(node[n])
            /\ begin \in DOMAIN instr => Starts(begin)
            /\ \A i \in begin .. cur - 1 : ~IsTransfer(i)

FlowInv == Listing(instr) /\ CutInv /\ Addressed(node)

-----------------------------------------------------------------------------
LEMMA InitFlow ==
  ASSUME Init
  PROVE  FlowInv
<1>1. Listing(instr)
  BY InstructionsListed DEF Init
<1>2. begin = 1 /\ cur = 2 /\ node = <<>>
  BY Zenon DEF Init
<1>3. CutInv
  <2>. SUFFICES ASSUME Proper, NEW i \in begin .. cur - 1 PROVE ~IsTransfer(i)
    BY <1>2 DEF CutInv, Starts
  <2>1. i = 1
    BY <1>2
  <2>. QED  BY <2>1 DEF Proper
<1>4. Addressed(node)
  BY <1>2 DEF Addressed
<1>. QED  BY <1>1, <1>3, <1>4 DEF FlowInv

(* What is said of the instruction list stays so. *)
LEMMA SameInput ==
  ASSUME instr' = instr
  PROVE  /\ Listing(instr)' <=> Listing(instr)
         /\ Proper' <=> Proper
         /\ \A i : Starts(i)' <=> Starts(i)
         /\ \A i : IsTransfer(i)' <=> IsTransfer(i)
         /\ \A n : Cut(node[n])' <=> Cut(node'[n])
<1>1. \A i : IsTransfer(i)' <=> IsTransfer(i)
  BY DEF IsTransfer
<1>2. \A i : Starts(i)' <=> Starts(i)
  BY DEF Starts, IsTransfer
<1>3. \A n : Cut(node[n])' <=> Cut(node'[n])
  BY DEF Cut, Starts, LeavesAs, IsTransfer, AddressAfter, Elsewhere
<1>6. Proper' <=> Proper
  BY DEF Proper, IsTransfer
<1>7. Listing(instr)' <=> Listing(instr)
  OBVIOUS
<1>. QED  BY <1>1, <1>2, <1>3, <1>6, <1>7

LEMMA PushFlow ==
  ASSUME IInv, FlowInv,
         NEW type, NEW last \in Nat, NEW addresses \in Seq(Nat),
         Push(NewNode(type, last, addresses)),
         begin \in DOMAIN instr, begin' = last + 1, cur' = cur + 1, cur \in {last, last + 1},
         UNCHANGED input,
         Proper => /\ LeavesAs(last, addresses)
                   /\ \A i \in begin .. last - 1 : ~IsTransfer(i)
                   /\ last + 1 \in DOMAIN instr => Starts(last + 1)
                   /\ cur = last + 1 => ~IsTransfer(cur)
  PROVE  FlowInv'
<1>. DEFINE x == NewNode(type, last, addresses)
            L == Len(node)
<1>1. /\ instr' = instr /\ begin \in Nat /\ cur \in Nat
      /\ node \in Seq(NodeRecord) /\ L \in Nat /\ DOMAIN node = 1 .. L
  BY DEF IInv, InputInv, NodeInv, Connected, PlaceInv, input
<1>2. /\ x.first = begin /\ x.last = last /\ x.to = addresses
      /\ \A i \in DOMAIN x.succ : x.succ[i] = Null
  BY DEF NewNode
<1>3. node' = Append(node, x)
  BY DEF Push
<1>. HIDE DEF x
<1>4. /\ DOMAIN node' = 1 .. L + 1 /\ node'[L + 1] = x
      /\ \A n \in 1 .. L : node'[n] = node[n]
      /\ \A n \in 1 .. L + 1 : n = L + 1 \/ n \in 1 .. L
  BY <1>1, <1>3
<1>5. ASSUME Proper
      PROVE  /\ \A n \in 1 .. L + 1 : Cut(node'[n])
             /\ last + 1 \in DOMAIN instr => Starts(last + 1)
             /\ \A i \in last + 1 .. cur : ~IsTransfer(i)
  <2>1. Cut(x)
    BY <1>2, <1>5 DEF FlowInv, CutInv, Cut
  <2>2. \A n \in 1 .. L : Cut(node[n])
    BY <1>1, <1>5 DEF FlowInv, CutInv
  <2>3. \A n \in 1 .. L + 1 : Cut(node'[n])
    BY <1>4, <2>1, <2>2
  <2>4. ASSUME NEW i \in last + 1 .. cur PROVE ~IsTransfer(i)
    <3>1. i = cur /\ cur = last + 1
      BY <1>1
    <3>. QED  BY <1>5, <3>1
  <2>. QED  BY <1>5, <2>3, <2>4
<1>6. CutInv'
  <2>1. \A n \in DOMAIN node' : Cut(node[n])' <=> Cut(node'[n])
    BY <1>1, SameInput
  <2>2. begin' = last + 1 /\ cur' - 1 = cur
    BY <1>1
  <2>. QED  BY <1>1, <1>4, <1>5, <2>1, <2>2, SameInput DEF CutInv
<1>7. Addressed(node)'
  <2>. SUFFICES ASSUME NEW n \in 1 .. L + 1, NEW i \in DOMAIN node'[n].succ, node'[n].succ[i] # Null
                PROVE  node'[node'[n].succ[i]].address = node'[n].to[i]
    BY <1>4 DEF Addressed
  <2>1. n \in 1 .. L /\ node'[n] = node[n]
    BY <1>2, <1>4
  <2>2. node[n].succ[i] \in 1 .. L
    BY <1>1, <2>1 DEF IInv, NodeInv, Connected
  <2>3. node[node[n].succ[i]].address = node[n].to[i]
    BY <1>1, <2>1 DEF FlowInv, Addressed
  <2>. QED  BY <1>4, <2>1, <2>2, <2>3
<1>8. Listing(instr)'
  BY <1>1 DEF FlowInv
<1>. QED  BY <1>6, <1>7, <1>8 DEF FlowInv

LEMMA EndNodeFlow ==
  ASSUME IInv, FlowInv, EndNode
  PROVE  FlowInv'
<1>. DEFINE i == instr[cur]
            type == CASE i.kind = "SWITCH" -> "N_WAY" [] OTHER -> i.kind
            addresses == CASE i.kind = "CONDITIONAL_JUMP" -> Append(i.to, AddressAfter(cur))
                           [] OTHER -> i.to
<1>1. /\ cur <= Len(instr)
      /\ i.kind \in {"CONDITIONAL_JUMP", "JUMP", "RETURN", "SWITCH"}
      /\ begin' = cur + 1 /\ cur' = cur + 1
      /\ UNCHANGED input
  BY DEF EndNode, Cutting
<1>2. /\ begin \in Nat \ {0} /\ cur \in Nat /\ begin <= cur /\ instr \in Seq(MachineInstruction)
  BY DEF IInv, InputInv, PlaceInv
<1>3. begin \in DOMAIN instr /\ cur \in DOMAIN instr
  BY <1>1, <1>2
<1>4. Push(NewNode(type, cur, addresses))
  BY DEF EndNode, NodeUpToCur
<1>5. i.to \in Seq(Nat) /\ AddressAfter(cur) \in Nat
  <2>1. i.to \in Seq(Nat)
    BY <1>2, <1>3, AddressesOf
  <2>2. CASE cur = Len(instr)
    BY <2>1, <2>2 DEF AddressAfter, Elsewhere
  <2>3. CASE cur # Len(instr)
    <3>1. cur + 1 \in DOMAIN instr
      BY <1>1, <1>2, <2>3
    <3>. QED  BY <1>2, <2>1, <2>3, <3>1, AddressesOf DEF AddressAfter
  <2>. QED  BY <2>2, <2>3
<1>6. addresses \in Seq(Nat)
  BY <1>5
<1>7. IsTransfer(cur)
  BY <1>1 DEF IsTransfer
<1>8. LeavesAs(cur, addresses)
  BY <1>7 DEF LeavesAs
<1>9. Starts(cur + 1)
  <2>1. (cur + 1) - 1 = cur
    BY <1>2
  <2>. QED  BY <1>7, <2>1 DEF Starts
<1>10. Proper => \A k \in begin .. cur - 1 : ~IsTransfer(k)
  BY DEF FlowInv, CutInv
<1>11. cur # cur + 1
  BY <1>2
<1>. HIDE DEF type, addresses
<1>. QED  BY <1>1, <1>2, <1>3, <1>4, <1>6, <1>8, <1>9, <1>10, <1>11, PushFlow

(* Nothing but cur changes. *)
LEMMA AdvanceFlow ==
  ASSUME IInv, FlowInv, cur' = cur + 1, UNCHANGED <<input, begin, node>>, ~IsTransfer(cur)
  PROVE  FlowInv'
<1>1. instr' = instr /\ begin' = begin /\ node' = node /\ cur \in Nat /\ begin \in Nat
  BY DEF IInv, PlaceInv, input
<1>2. ASSUME Proper, NEW i \in begin .. cur PROVE ~IsTransfer(i)
  <2>1. i = cur \/ i \in begin .. cur - 1
    BY <1>1
  <2>. QED  BY <1>2, <2>1 DEF FlowInv, CutInv
<1>3. cur' - 1 = cur
  BY <1>1
<1>4. \A n \in DOMAIN node : Cut(node[n])' <=> Cut(node'[n])
  BY <1>1, SameInput
<1>5. CutInv'
  BY <1>1, <1>2, <1>3, <1>4, SameInput DEF FlowInv, CutInv
<1>. QED  BY <1>1, <1>5 DEF FlowInv, Addressed

LEMMA MeetLabelFlow ==
  ASSUME IInv, FlowInv, MeetLabel
  PROVE  FlowInv'
<1>1. /\ cur <= Len(instr) /\ instr[cur].kind = "LABEL"
      /\ cur' = cur + 1 /\ UNCHANGED input
  BY DEF MeetLabel, Cutting
<1>2. /\ begin \in Nat \ {0} /\ cur \in Nat /\ begin <= cur /\ instr \in Seq(MachineInstruction)
  BY DEF IInv, InputInv, PlaceInv
<1>3. ~IsTransfer(cur)
  BY <1>1 DEF IsTransfer
<1>4. CASE begin # cur
  <2>. DEFINE addresses == <<instr[cur].addr>>
              last == cur - 1
  <2>1. Push(NewNode("FALL_THROUGH", last, addresses))
    BY <1>4 DEF MeetLabel
  <2>2. /\ cur \in DOMAIN instr /\ begin \in DOMAIN instr /\ last \in Nat
        /\ cur = last + 1 /\ last < Len(instr) /\ last \in begin .. cur - 1
    BY <1>1, <1>2, <1>4
  <2>3. begin' = last + 1
    BY <1>4, <2>2 DEF MeetLabel
  <2>4. addresses \in Seq(Nat)
    BY <1>2, <2>2, AddressesOf
  <2>5. Proper => \A i \in begin .. last : ~IsTransfer(i)
    BY DEF FlowInv, CutInv
  <2>. HIDE DEF last
  <2>6. Proper => ~IsTransfer(last) /\ \A i \in begin .. last - 1 : ~IsTransfer(i)
    BY <1>2, <2>2, <2>5
  <2>7. Proper => LeavesAs(last, addresses)
    BY <1>1, <2>2, <2>6 DEF LeavesAs
  <2>8. Starts(last + 1)
    BY <1>1, <2>2 DEF Starts
  <2>. HIDE DEF addresses
  <2>. QED  BY <1>1, <1>3, <2>1, <2>2, <2>3, <2>4, <2>6, <2>7, <2>8, PushFlow
<1>5. CASE begin = cur
  <2>1. UNCHANGED <<node, list, begin>>
    BY <1>5 DEF MeetLabel
  <2>. QED  BY <1>1, <1>3, <2>1, AdvanceFlow
<1>. QED  BY <1>4, <1>5

LEMMA SkipOtherFlow ==
  ASSUME IInv, FlowInv, SkipOther
  PROVE  FlowInv'
<1>1. ~IsTransfer(cur)
  BY DEF SkipOther, IsTransfer
<1>. QED  BY <1>1, AdvanceFlow DEF SkipOther

LEMMA ExtendsFlow ==
  ASSUME IInv, FlowInv, Extends(node, node'), Addressed(node'), UNCHANGED <<input, begin, cur>>
  PROVE  FlowInv'
<1>1. UNCHANGED <<instr, begin, cur>>
  BY DEF input
<1>2. CutInv'
  <2>1. ASSUME Proper, NEW n \in DOMAIN node' PROVE Cut(node'[n])
    <3>1. PICK m \in DOMAIN node : Same(node'[n], node[m])
      BY DEF Extends
    <3>. QED  BY <2>1, <3>1 DEF FlowInv, CutInv, Cut, Same
  <2>2. \A n \in DOMAIN node' : Cut(node[n])' <=> Cut(node'[n])
    BY <1>1, SameInput
  <2>. QED  BY <1>1, <2>1, <2>2, SameInput DEF FlowInv, CutInv
<1>. QED  BY <1>1, <1>2 DEF FlowInv, Addressed

LEMMA ConnectFlow ==
  ASSUME IInv, FlowInv, Connect
  PROVE  FlowInv'
<1>. DEFINE n == list[item]
            to == node[n].to
            found == [i \in DOMAIN to |-> NodeAt(to[i])]
            edges(m) == Cardinality({i \in DOMAIN found : found[i] = m})
            more(m) == [i \in 1 .. edges(m) |-> n]
<1>1. UNCHANGED <<input, begin, cur>> /\ node \in Seq(NodeRecord)
  BY DEF Connect, IInv, NodeInv, Connected
<1>2. node' = [m \in DOMAIN node |->
                  [node[m] EXCEPT !.preds = @ \o more(m), !.succ = IF m = n THEN found ELSE @]]
  BY DEF Connect
<1>. HIDE DEF more, found
<1>3. /\ DOMAIN node' = DOMAIN node
      /\ \A m \in DOMAIN node : /\ Same(node'[m], node[m])
                                /\ node'[m].succ = IF m = n THEN found ELSE node[m].succ
  <2>. HIDE DEF n
  <2>. SUFFICES ASSUME NEW m \in DOMAIN node
                PROVE  /\ Same(node'[m], node[m])
                       /\ node'[m].succ = IF m = n THEN found ELSE node[m].succ
    BY <1>2
  <2>1. node'[m] = [node[m] EXCEPT !.preds = node[m].preds \o more(m),
                                   !.succ = IF m = n THEN found ELSE node[m].succ]
    BY <1>2
  <2>2. node[m] \in NodeRecord
    BY <1>1
  <2>. QED  BY <2>1, <2>2 DEF NodeRecord, Same
<1>4. Extends(node, node')
  BY <1>3 DEF Extends
<1>5. Addressed(node')
  <2>. SUFFICES ASSUME NEW m \in DOMAIN node, NEW i \in DOMAIN node'[m].succ, node'[m].succ[i] # Null
                PROVE  node'[node'[m].succ[i]].address = node'[m].to[i]
    BY <1>3 DEF Addressed
  <2>1. node[node'[m].succ[i]].address = node[m].to[i] /\ node'[m].succ[i] \in DOMAIN node
    <3>1. CASE m = n
      <4>1. i \in DOMAIN to /\ node'[m].succ[i] = NodeAt(to[i])
        BY <1>3, <3>1 DEF found
      <4>. QED  BY <3>1, <4>1, NodeAtIs DEF IInv
    <3>2. CASE m # n
      <4>1. node'[m].succ = node[m].succ
        BY <1>3, <3>2
      <4>. QED  BY <4>1 DEF FlowInv, Addressed, IInv, NodeInv, Connected
    <3>. QED  BY <3>1, <3>2
  <2>2. node'[m].to = node[m].to /\ node'[node'[m].succ[i]].address = node[node'[m].succ[i]].address
    BY <1>3, <2>1 DEF Same
  <2>. QED  BY <2>1, <2>2
<1>. QED  BY <1>1, <1>4, <1>5, ExtendsFlow

LEMMA ShareFlow ==
  ASSUME IInv, FlowInv, Share
  PROVE  FlowInv'
<1>1. UNCHANGED <<input, begin, cur>>
  BY DEF Share
<1>. DEFINE n == list[item]
<1>2. node' = node \/ (node' = Copies(n) /\ Len(node[n].preds) > 1)
  BY DEF Share
<1>3. n \in DOMAIN node
  <2>1. item \in DOMAIN list
    BY DEF Share, IInv, ListInv
  <2>. QED  BY <2>1 DEF IInv, ListInv
<1>. HIDE DEF n
<1>4. CASE node' = node
  BY <1>1, <1>4, ExtendsFlow DEF Extends, Same, FlowInv
<1>5. CASE node' = Copies(n) /\ Len(node[n].preds) > 1
  <2>1. Len(node[n].preds) # 0
    BY <1>5
  <2>2. Grown(node, node')
    BY <1>3, <1>5, <2>1, CopiesGrow DEF IInv
  <2>. QED  BY <1>1, <2>2, ExtendsFlow DEF Grown, FlowInv
<1>. QED  BY <1>2, <1>4, <1>5

LEMMA NextFlow ==
  ASSUME IInv, FlowInv, [Next]_vars
  PROVE  FlowInv'
<1>1. CASE EndCutting \/ EndConnecting \/ Done \/ UNCHANGED vars
  <2>1. UNCHANGED <<input, begin, cur, node>>
    BY <1>1 DEF EndCutting, EndConnecting, Done, vars, input
  <2>. QED  BY <2>1, ExtendsFlow DEF Extends, Same, FlowInv
<1>. QED  BY <1>1, EndNodeFlow, MeetLabelFlow, SkipOtherFlow, ConnectFlow, ShareFlow DEF Next

-----------------------------------------------------------------------------
(* Behind every instruction is one that is no label, and one such is first. *)
LEMMA PastLabelsIs ==
  ASSUME instr \in Seq(MachineInstruction), Proper, NEW i \in DOMAIN instr
  PROVE  /\ PastLabels(i) \in i .. Len(instr) /\ instr[PastLabels(i)].kind # "LABEL"
         /\ \A k \in i .. PastLabels(i) - 1 : instr[k].kind = "LABEL"
<1>. DEFINE N == Len(instr)
            T == {j \in i .. N : instr[j].kind # "LABEL"}
<1>1. N \in Nat /\ i \in 1 .. N /\ DOMAIN instr = 1 .. N
  OBVIOUS
<1>2. instr[N].kind # "LABEL"
  BY DEF Proper
<1>. HIDE DEF N
<1>3. T \in SUBSET Nat /\ T # {}
  <2>1. N \in i .. N /\ i .. N \subseteq Nat
    BY <1>1
  <2>. QED  BY <1>2, <2>1
<1>4. PICK j \in T : \A k \in T : j <= k
  BY <1>3, LeastNumber, Zenon
<1>5. ASSUME NEW k \in i .. j - 1 PROVE instr[k].kind = "LABEL"
  <2>1. k \in i .. N /\ ~(j <= k)
    BY <1>1, <1>4
  <2>. QED  BY <1>4, <2>1
<1>6. \E q \in i .. Len(instr) :
        instr[q].kind # "LABEL" /\ \A k \in i .. q - 1 : instr[k].kind = "LABEL"
  BY <1>4, <1>5 DEF N
<1>. QED  BY <1>6, Zenon DEF PastLabels

(* Labels do nothing. *)
LEMMA OverLabels ==
  ASSUME instr \in Seq(MachineInstruction), Proper, NEW i \in DOMAIN instr, NEW j \in DOMAIN instr,
         i <= j, \A k \in i .. j - 1 : instr[k].kind = "LABEL"
  PROVE  PastLabels(i) = PastLabels(j)
<1>. DEFINE p == PastLabels(i)
            q == PastLabels(j)
<1>1. /\ p \in i .. Len(instr) /\ instr[p].kind # "LABEL"
      /\ \A k \in i .. p - 1 : instr[k].kind = "LABEL"
      /\ q \in j .. Len(instr) /\ instr[q].kind # "LABEL"
      /\ \A k \in j .. q - 1 : instr[k].kind = "LABEL"
  BY PastLabelsIs
<1>2. i \in Nat /\ j \in Nat /\ Len(instr) \in Nat
  OBVIOUS
<1>. HIDE DEF p, q
<1>3. p \in Nat /\ q \in Nat
  BY <1>1, <1>2
<1>4. ~(p < j)
  BY <1>1, <1>2, <1>3
<1>5. ~(p < q)
  <2>. SUFFICES ASSUME p < q PROVE FALSE
    OBVIOUS
  <2>1. p \in j .. q - 1
    BY <1>2, <1>3, <1>4
  <2>. QED  BY <1>1, <2>1
<1>6. ~(q < p)
  <2>. SUFFICES ASSUME q < p PROVE FALSE
    OBVIOUS
  <2>1. q \in i .. p - 1
    BY <1>1, <1>2, <1>3
  <2>. QED  BY <1>1, <2>1
<1>7. p = q
  BY <1>3, <1>5, <1>6
<1>. QED  BY <1>7 DEF p, q

LEMMA FirstAtIs ==
  ASSUME instr \in Seq(MachineInstruction), NEW k \in DOMAIN instr
  PROVE  /\ FirstAt(instr[k].addr) \in DOMAIN instr
         /\ instr[FirstAt(instr[k].addr)].addr = instr[k].addr
         /\ FirstAt(instr[k].addr) <= k
<1>. DEFINE a == instr[k].addr
            T == {i \in DOMAIN instr : instr[i].addr = a}
<1>1. T \in SUBSET Nat /\ k \in T
  OBVIOUS
<1>2. PICK i \in T : \A j \in T : i <= j
  BY <1>1, LeastNumber, Zenon
<1>3. ASSUME NEW j \in 1 .. i - 1 PROVE instr[j].addr # a
  <2>1. j \in DOMAIN instr /\ ~(i <= j)
    BY <1>2
  <2>. QED  BY <1>2, <2>1
<1>4. \E q \in DOMAIN instr : instr[q].addr = a /\ \A j \in 1 .. q - 1 : instr[j].addr # a
  BY <1>2, <1>3
<1>. DEFINE f == FirstAt(a)
<1>5. f \in DOMAIN instr /\ instr[f].addr = a /\ \A j \in 1 .. f - 1 : instr[j].addr # a
  BY <1>4, Zenon DEF FirstAt
<1>. HIDE DEF f
<1>6. ~(k < f)
  BY <1>5
<1>7. f <= k
  BY <1>5, <1>6
<1>. QED  BY <1>5, <1>7 DEF f

-----------------------------------------------------------------------------
(* Two labels of one address have nothing but labels between them. *)
LEMMA SameLabels ==
  ASSUME instr \in Seq(MachineInstruction), Listing(instr), Proper,
         NEW i \in DOMAIN instr, NEW j \in DOMAIN instr,
         instr[i].kind = "LABEL", instr[j].kind = "LABEL", instr[i].addr = instr[j].addr
  PROVE  PastLabels(i) = PastLabels(j)
<1>1. ASSUME NEW f \in DOMAIN instr, NEW g \in DOMAIN instr, f < g,
             instr[g].kind = "LABEL", instr[f].addr = instr[g].addr, instr[f].kind = "LABEL"
      PROVE  PastLabels(f) = PastLabels(g)
  <2>1. ASSUME NEW k \in f .. g - 1 PROVE instr[k].kind = "LABEL"
    <3>1. k \in DOMAIN instr /\ k < g /\ (k = f \/ f < k)
      BY <1>1
    <3>2. instr[f].addr \in Nat /\ instr[k].addr \in Nat /\ instr[g].addr \in Nat
      BY <3>1, AddressesOf
    <3>3. InOrder(instr[k], instr[g]) /\ (k = f \/ InOrder(instr[f], instr[k]))
      BY <3>1 DEF Listing
    <3>. QED  BY <1>1, <3>2, <3>3 DEF InOrder
  <2>. QED  BY <1>1, <2>1, OverLabels
<1>2. i < j \/ j < i \/ i = j
  OBVIOUS
<1>. QED  BY <1>1, <1>2

(* Of one address: a label comes first. *)
LEMMA LabelFirst ==
  ASSUME instr \in Seq(MachineInstruction), Listing(instr),
         NEW i \in DOMAIN instr, NEW j \in DOMAIN instr,
         instr[i].kind = "LABEL", instr[j].kind # "LABEL", instr[i].addr = instr[j].addr
  PROVE  i < j
<1>1. i # j
  OBVIOUS
<1>2. ~(j < i)
  BY DEF Listing, InOrder
<1>. QED  BY <1>1, <1>2

(* What lies between two of one address has this address. *)
LEMMA BetweenSame ==
  ASSUME instr \in Seq(MachineInstruction), Listing(instr),
         NEW i \in DOMAIN instr, NEW j \in DOMAIN instr, NEW k \in i .. j,
         instr[i].addr = instr[j].addr
  PROVE  k \in DOMAIN instr /\ instr[k].addr = instr[i].addr
<1>1. k \in DOMAIN instr /\ (i < k \/ i = k) /\ (k < j \/ k = j)
  OBVIOUS
<1>2. instr[i].addr \in Nat /\ instr[k].addr \in Nat
  BY <1>1, AddressesOf
<1>3. instr[i].addr <= instr[k].addr /\ instr[k].addr <= instr[j].addr
  BY <1>1, <1>2 DEF Listing, InOrder
<1>. QED  BY <1>1, <1>2, <1>3

(* A condition is followed by what it guards, and preceded by no condition *)
(* or transfer.                                                            *)
LEMMA PairIs ==
  ASSUME instr \in Seq(MachineInstruction), Listing(instr), Proper,
         NEW i \in DOMAIN instr, NEW j \in DOMAIN instr, i < j,
         instr[i].addr = instr[j].addr, instr[i].kind # "LABEL"
  PROVE  /\ j = i + 1 /\ i > 1
         /\ instr[i].kind = "CONDITIONAL_JUMP" /\ instr[j].kind = "OTHER"
         /\ instr[i - 1].kind = "OTHER"
<1>1. j = i + 1 /\ instr[i].kind = "CONDITIONAL_JUMP" /\ instr[j].kind = "OTHER"
  BY DEF Listing, IsPair
<1>2. i # 1
  BY <1>1 DEF Proper, IsTransfer
<1>3. i \in 2 .. Len(instr) - 1
  BY <1>1, <1>2
<1>4. instr[i - 1].kind = "OTHER"
  BY <1>1, <1>3 DEF Proper
<1>. QED  BY <1>1, <1>3, <1>4

(***************************************************************************)
(* Where a label has the address, a node that begins there begins with a   *)
(* label.                                                                  *)
(***************************************************************************)
LEMMA StartsAtLabel ==
  ASSUME instr \in Seq(MachineInstruction), Listing(instr), Proper,
         NEW k \in DOMAIN instr, NEW f \in DOMAIN instr,
         instr[k].kind = "LABEL", instr[k].addr = instr[f].addr, Starts(f)
  PROVE  instr[f].kind = "LABEL"
<1>. SUFFICES ASSUME instr[f].kind # "LABEL" PROVE FALSE
  OBVIOUS
<1>1. k < f
  BY LabelFirst
<1>2. f # 1 /\ IsTransfer(f - 1)
  BY <1>1 DEF Starts
<1>3. f - 1 \in k .. f /\ f - 1 < f
  BY <1>1
<1>4. f - 1 \in DOMAIN instr /\ instr[f - 1].addr = instr[f].addr
  BY <1>3, BetweenSame
<1>5. instr[f - 1].kind # "LABEL"
  BY <1>2 DEF IsTransfer
<1>6. instr[f - 1 - 1].kind = "OTHER"
  BY <1>3, <1>4, <1>5, PairIs
<1>7. k # f - 1
  BY <1>5
<1>8. f - 1 - 1 \in k .. f
  BY <1>1, <1>7
<1>9. f - 1 - 1 \in DOMAIN instr /\ instr[f - 1 - 1].addr = instr[f].addr
  BY <1>8, BetweenSame
<1>10. f = (f - 1 - 1) + 1
  BY <1>6, <1>9, PairIs
<1>. QED  BY <1>10

(***************************************************************************)
(* A node that begins where a conditional jump falls through to begins     *)
(* with this instruction, unless that is a label.                          *)
(***************************************************************************)
LEMMA StartsBehind ==
  ASSUME instr \in Seq(MachineInstruction), Listing(instr), Proper,
         NEW l \in DOMAIN instr, l < Len(instr), instr[l].kind = "CONDITIONAL_JUMP",
         instr[l + 1].kind # "LABEL",
         NEW f \in DOMAIN instr, instr[f].addr = instr[l + 1].addr, Starts(f)
  PROVE  f = l + 1
<1>1. l + 1 \in DOMAIN instr /\ l \in Nat /\ f \in Nat
  OBVIOUS
<1>2. instr[f].kind # "LABEL"
  <2>. SUFFICES ASSUME instr[f].kind = "LABEL" PROVE FALSE
    OBVIOUS
  <2>1. f < l + 1 /\ f # l
    BY <1>1, LabelFirst
  <2>2. l \in f .. l + 1 /\ l - 1 \in f .. l + 1 /\ l < l + 1 /\ l - 1 < l + 1
    BY <1>1, <2>1
  <2>3. instr[l].addr = instr[l + 1].addr
    BY <1>1, <2>2, BetweenSame
  <2>4. l - 1 \in DOMAIN instr /\ instr[l - 1].addr = instr[l + 1].addr
    BY <1>1, <2>2, BetweenSame
  <2>5. instr[l - 1].kind = "OTHER"
    BY <1>1, <2>2, <2>3, PairIs
  <2>6. l + 1 = (l - 1) + 1
    BY <1>1, <2>2, <2>4, <2>5, PairIs
  <2>. QED  BY <1>1, <2>6
<1>3. ~(f < l + 1)
  <2>. SUFFICES ASSUME f < l + 1 PROVE FALSE
    OBVIOUS
  <2>1. l + 1 = f + 1 /\ f > 1 /\ instr[f - 1].kind = "OTHER"
    BY <1>1, <1>2, PairIs
  <2>. QED  BY <1>2, <2>1 DEF Starts, IsTransfer
<1>4. ~(l + 1 < f)
  <2>. SUFFICES ASSUME l + 1 < f PROVE FALSE
    OBVIOUS
  <2>1. instr[l + 1 - 1].kind = "OTHER"
    BY <1>1, PairIs
  <2>2. l + 1 - 1 = l
    BY <1>1
  <2>. QED  BY <2>1, <2>2
<1>. QED  BY <1>1, <1>3, <1>4

-----------------------------------------------------------------------------
(* Where a node that has the address of a label leads to. *)
LEMMA ToTarget ==
  ASSUME IInv, FlowInv, Proper, NEW s \in DOMAIN node, NEW k \in DOMAIN instr,
         instr[k].kind = "LABEL", node[s].address = instr[k].addr
  PROVE  PastLabels(node[s].first) = PastLabels(FirstAt(instr[k].addr))
<1>. DEFINE f == node[s].first
            e == FirstAt(instr[k].addr)
<1>1. instr \in Seq(MachineInstruction) /\ Listing(instr)
  BY DEF IInv, InputInv, FlowInv
<1>2. f \in DOMAIN instr /\ instr[f].addr = instr[k].addr /\ Starts(f)
  BY DEF IInv, PlaceInv, FlowInv, CutInv, Cut
<1>3. e \in DOMAIN instr /\ instr[e].addr = instr[k].addr /\ e <= k
  BY <1>1, FirstAtIs
<1>. HIDE DEF f, e
<1>4. instr[f].kind = "LABEL"
  BY <1>1, <1>2, StartsAtLabel
<1>5. instr[e].kind = "LABEL"
  <2>. SUFFICES ASSUME instr[e].kind # "LABEL" PROVE FALSE
    OBVIOUS
  <2>1. k < e
    BY <1>1, <1>3, LabelFirst
  <2>. QED  BY <1>1, <1>3, <2>1
<1>6. PastLabels(f) = PastLabels(e)
  BY <1>1, <1>2, <1>3, <1>4, <1>5, SameLabels
<1>. QED  BY <1>6 DEF f, e

(* Where a node that has the address behind a node leads to. *)
LEMMA ToFollower ==
  ASSUME IInv, FlowInv, Proper, NEW s \in DOMAIN node, NEW l \in DOMAIN instr, l < Len(instr),
         instr[l].kind = "CONDITIONAL_JUMP" \/ instr[l + 1].kind = "LABEL",
         node[s].address = instr[l + 1].addr
  PROVE  PastLabels(node[s].first) = PastLabels(l + 1)
<1>. DEFINE f == node[s].first
<1>1. instr \in Seq(MachineInstruction) /\ Listing(instr)
  BY DEF IInv, InputInv, FlowInv
<1>2. f \in DOMAIN instr /\ instr[f].addr = instr[l + 1].addr /\ Starts(f)
  BY DEF IInv, PlaceInv, FlowInv, CutInv, Cut
<1>3. l + 1 \in DOMAIN instr
  BY <1>1
<1>. HIDE DEF f
<1>4. CASE instr[l + 1].kind = "LABEL"
  <2>1. instr[f].kind = "LABEL"
    BY <1>1, <1>2, <1>3, <1>4, StartsAtLabel
  <2>2. PastLabels(f) = PastLabels(l + 1)
    BY <1>1, <1>2, <1>3, <1>4, <2>1, SameLabels
  <2>. QED  BY <2>2 DEF f
<1>5. CASE instr[l + 1].kind # "LABEL"
  <2>1. f = l + 1
    BY <1>1, <1>2, <1>5, StartsBehind
  <2>. QED  BY <2>1 DEF f
<1>. QED  BY <1>4, <1>5

(* What is no transfer is followed by the next. *)
LEMMA FollowsNext ==
  ASSUME instr \in Seq(MachineInstruction), Listing(instr), NEW i \in DOMAIN instr, ~IsTransfer(i)
  PROVE  instr[i].to = <<>> /\ Follow(i) = {i + 1}
<1>1. instr[i].kind \in {"LABEL", "OTHER"}
  <2>1. instr[i].kind \in Kinds
    BY AddressesOf
  <2>. QED  BY <2>1 DEF Kinds, IsTransfer
<1>2. instr[i].to = <<>>
  BY <1>1 DEF Listing
<1>3. ToSet(instr[i].to) = {}
  BY <1>2 DEF ToSet
<1>4. {FirstAt(a) : a \in ToSet(instr[i].to)} = {}
  BY <1>3
<1>. QED  BY <1>1, <1>2, <1>4 DEF Follow

LEMMA InvSameFlow ==
  ASSUME IInv, FlowInv
  PROVE  SameFlow
<1>. SUFFICES ASSUME phase = "done", Proper, NEW n \in DOMAIN node
              PROVE  /\ {PastLabels(node[s].first) : s \in ToSet(node[n].succ) \ {Null}}
                          = {PastLabels(i) : i \in Follow(node[n].last)}
                     /\ \A i \in node[n].first .. node[n].last - 1 : Follow(i) = {i + 1}
  <2>1. Nodes \subseteq DOMAIN node
    BY DEF IInv, ListInv, Nodes, ToSet
  <2>. QED  BY <2>1 DEF SameFlow
<1>. DEFINE succ == node[n].succ
            to == node[n].to
            l == node[n].last
            N == Len(instr)
            reached == {PastLabels(node[s].first) : s \in ToSet(succ) \ {Null}}
<1>1. instr \in Seq(MachineInstruction) /\ Listing(instr) /\ N \in Nat /\ DOMAIN instr = 1 .. N
  BY DEF IInv, InputInv, FlowInv
<1>2. /\ node[n].first \in DOMAIN instr /\ l \in DOMAIN instr /\ node[n].first <= l
      /\ succ \in Seq(Nat) /\ to \in Seq(Nat)
  <2>1. node[n].last \in Nat /\ node[n].succ \in Seq(Nat) /\ node[n].to \in Seq(Nat)
    BY NodeFields DEF IInv, NodeInv, Connected
  <2>2. node[n].first \in DOMAIN instr /\ node[n].first <= l /\ l < begin /\ begin = N + 1
    BY DEF IInv, PlaceInv, EndInv
  <2>. QED  BY <1>1, <2>1, <2>2
<1>3. Cut(node[n])
  BY DEF FlowInv, CutInv
<1>4. DOMAIN succ = DOMAIN to
  <2>1. Len(succ) = Len(to)
    BY DEF IInv, NodeInv, Connected
  <2>. QED  BY <1>2, <2>1
<1>5. ASSUME NEW i \in DOMAIN to
      PROVE  succ[i] \in DOMAIN node /\ succ[i] # Null /\ node[succ[i]].address = to[i]
  BY <1>4 DEF IInv, NodeInv, Connected, LinkInv, Linked, FlowInv, Addressed
<1>6. \A i \in node[n].first .. l - 1 : Follow(i) = {i + 1}
  <2>. SUFFICES ASSUME NEW i \in node[n].first .. l - 1 PROVE Follow(i) = {i + 1}
    OBVIOUS
  <2>1. i \in DOMAIN instr
    BY <1>1, <1>2
  <2>2. ~IsTransfer(i)
    BY <1>3 DEF Cut
  <2>. QED  BY <1>1, <2>1, <2>2, FollowsNext
<1>. DEFINE past(i) == PastLabels(node[succ[i]].first)
<1>7. reached = {past(i) : i \in DOMAIN to}
  <2>1. ToSet(succ) \ {Null} = {succ[i] : i \in DOMAIN to}
    BY <1>4, <1>5 DEF ToSet
  <2>. QED  BY <2>1
<1>8. ASSUME NEW i \in DOMAIN to, to[i] \in ToSet(instr[l].to)
      PROVE  past(i) = PastLabels(FirstAt(to[i]))
  <2>1. PICK k \in DOMAIN instr : instr[k].kind = "LABEL" /\ instr[k].addr = to[i]
    BY <1>2, <1>8 DEF Proper
  <2>. QED  BY <1>5, <2>1, ToTarget
<1>9. ASSUME NEW i \in DOMAIN to, l < N, to[i] = instr[l + 1].addr,
             instr[l].kind = "CONDITIONAL_JUMP" \/ instr[l + 1].kind = "LABEL"
      PROVE  past(i) = PastLabels(l + 1)
  BY <1>2, <1>5, <1>9, ToFollower
<1>. HIDE DEF past, reached, N
<1>10. CASE IsTransfer(l) /\ instr[l].kind # "CONDITIONAL_JUMP"
  <2>1. to = instr[l].to
    BY <1>3, <1>10 DEF Cut, LeavesAs
  <2>2. Follow(l) = {FirstAt(to[i]) : i \in DOMAIN to}
    <3>1. instr[l].kind \in {"JUMP", "RETURN", "SWITCH"}
      BY <1>10 DEF IsTransfer
    <3>2. ToSet(instr[l].to) = {to[i] : i \in DOMAIN to}
      BY <2>1 DEF ToSet
    <3>. HIDE DEF to, l
    <3>. QED  BY <3>1, <3>2 DEF Follow
  <2>3. \A i \in DOMAIN to : past(i) = PastLabels(FirstAt(to[i]))
    BY <1>8, <2>1 DEF ToSet
  <2>. HIDE DEF to, l, succ
  <2>4. reached = {PastLabels(i) : i \in Follow(l)}
    BY <1>7, <2>2, <2>3
  <2>. QED  BY <1>6, <2>4 DEF reached, l, succ
<1>11. CASE instr[l].kind = "CONDITIONAL_JUMP"
  <2>. DEFINE st == instr[l].to
  <2>1. l < N
    <3>1. l # N
      BY <1>11 DEF Proper, N
    <3>. QED  BY <1>1, <1>2, <3>1
  <2>2. to = Append(st, instr[l + 1].addr)
    <3>1. AddressAfter(l) = instr[l + 1].addr
      BY <1>1, <2>1 DEF AddressAfter, N
    <3>. QED  BY <1>3, <1>11, <3>1 DEF Cut, LeavesAs, IsTransfer
  <2>3. st \in Seq(Nat)
    BY <1>1, <1>2, AddressesOf
  <2>4. /\ DOMAIN to = DOMAIN st \cup {Len(st) + 1}
        /\ \A i \in DOMAIN st : to[i] = st[i]
        /\ to[Len(st) + 1] = instr[l + 1].addr
    <3>. HIDE DEF to, st
    <3>. QED  BY <2>2, <2>3
  <2>5. Follow(l) = {FirstAt(st[i]) : i \in DOMAIN st} \cup {l + 1}
    <3>1. ToSet(st) = {st[i] : i \in DOMAIN st}
      BY DEF ToSet
    <3>2. {FirstAt(a) : a \in ToSet(st)} = {FirstAt(st[i]) : i \in DOMAIN st}
      BY <3>1
    <3>. QED  BY <1>11, <3>2 DEF Follow
  <2>6. \A i \in DOMAIN st : past(i) = PastLabels(FirstAt(st[i]))
    BY <1>8, <2>4 DEF ToSet
  <2>7. past(Len(st) + 1) = PastLabels(l + 1)
    BY <1>9, <1>11, <2>1, <2>4
  <2>. HIDE DEF to, l, succ, st
  <2>8. reached = {PastLabels(i) : i \in Follow(l)}
    BY <1>7, <2>4, <2>5, <2>6, <2>7
  <2>. QED  BY <1>6, <2>8 DEF reached, l, succ
<1>12. CASE ~IsTransfer(l)
  <2>1. l < N /\ instr[l + 1].kind = "LABEL" /\ to = <<instr[l + 1].addr>>
    BY <1>3, <1>12 DEF Cut, LeavesAs, N
  <2>2. Follow(l) = {l + 1}
    BY <1>1, <1>2, <1>12, FollowsNext
  <2>3. DOMAIN to = {1} /\ to[1] = instr[l + 1].addr
    <3>. HIDE DEF to
    <3>. QED  BY <2>1
  <2>4. past(1) = PastLabels(l + 1)
    BY <1>9, <2>1, <2>3
  <2>. HIDE DEF to, l, succ
  <2>5. reached = {PastLabels(i) : i \in Follow(l)}
    BY <1>7, <2>2, <2>3, <2>4
  <2>. QED  BY <1>6, <2>5 DEF reached, l, succ
<1>. QED  BY <1>10, <1>11, <1>12

(***************************************************************************)
(* The nodes of a proper function, copies included, are left where its     *)
(* instructions say and for where they say, and nowhere in between.        *)
(***************************************************************************)
THEOREM Flows == Spec => []SameFlow
<1>. DEFINE FInv == IInv /\ FlowInv
<1>1. Init => FInv
  BY InitInv, InitFlow
<1>2. FInv /\ [Next]_vars => FInv'
  BY NextInv, NextFlow
<1>3. FInv => SameFlow
  BY InvSameFlow
<1>. QED  BY <1>1, <1>2, <1>3, PTL DEF Spec
=============================================================================
