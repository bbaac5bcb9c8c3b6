-------------------------------- MODULE NodeList --------------------------------
(***************************************************************************)
(* Node::CreateList with ConnectSuccessors and CreateSharedNodes           *)
(* (src/node.cpp): the instruction list of a function is cut into nodes,   *)
(* successors are looked up by address, and a node whose comment has       *)
(* D:SharedNode is copied for all its predecessors but the first.          *)
(*                                                                         *)
(* The input is what a front end makes of M machine instructions: a label  *)
(* at each address IDA has a name for, and no, one or several instructions *)
(* with the address of the one they come from.  The ARM front end makes    *)
(* two of a conditionally executed instruction, and a label behind them.   *)
(***************************************************************************)
EXTENDS Integers, FiniteSets, SequencesExt

CONSTANT M    (* bound on the machine instructions of the function *)

ASSUME MAssumption == M \in Nat \ {0}

Address == 1 .. M

Elsewhere == 0    (* INVALID_ADDR, and every address outside the function *)

Null == 0         (* the Node_ptr of an unconnected successor *)

VARIABLES
  instr,     (* the instruction list                                      *)
  shared,    (* the addresses with a D:SharedNode comment                 *)
  begin,     (* begin and cur of CreateList                               *)
  cur,
  node,      (* every node made; a Node_ptr is an index into it           *)
  list,      (* nodes                                                     *)
  item,      (* the iterator of ConnectSuccessors and CreateSharedNodes   *)
  phase      (* where CreateList is; "crash": a null pointer was followed *)

input == <<instr, shared>>
vars == <<instr, shared, begin, cur, node, list, item, phase>>

-----------------------------------------------------------------------------
Instruction(kind, a, to) == [kind |-> kind, addr |-> a, to |-> to]

Operations ==
  [kind : {"IGNORED", "OTHER", "CONDITIONAL", "RETURN"}, to : {<<>>}]
    \cup [kind : {"JUMP", "CONDITIONAL_JUMP"}, to : {<<t>> : t \in Address \cup {Elsewhere}}]
    \cup [kind : {"SWITCH"}, to : {st \in Address \X Address : st[1] <= st[2]}]

(* CreateLocalCodeLabel: only where there is a name. *)
LabelAt(a, named) == IF a \in named THEN <<Instruction("LABEL", a, <<>>)>> ELSE <<>>

(* InsertConditional jumps over the instruction, to the label InsertLabel  *)
(* puts behind it.                                                         *)
Decoded(a, op, named) ==
  CASE op.kind = "IGNORED"     -> <<>>
    [] op.kind = "CONDITIONAL" ->
         <<Instruction("CONDITIONAL_JUMP", a, <<IF a = M THEN Elsewhere ELSE a + 1>>),
           Instruction("OTHER", a, <<>>)>> \o LabelAt(a + 1, named)
    [] OTHER -> <<Instruction(op.kind, a, op.to)>>

Instructions(code, named) ==
  FlattenSeq([a \in Address |-> LabelAt(a, named) \o Decoded(a, code[a], named)])

Init ==
  /\ \E code \in [Address -> Operations], named \in SUBSET Address :
       /\ \A a \in Address : ToSet(code[a].to) \subseteq named \cup {Elsewhere}
       /\ instr = Instructions(code, named)
       /\ shared \in {{}} \cup {{a} : a \in named}
  /\ begin = 1
  /\ cur = 2    (* begin = cur++ *)
  /\ node = <<>>
  /\ list = <<>>
  /\ item = 1
  /\ phase = IF instr = <<>> THEN "done" ELSE "cut"

-----------------------------------------------------------------------------
(* The instructions from begin up to last; the successors are not yet      *)
(* connected.                                                              *)
NewNode(type, last, addresses) ==
  [type |-> type, first |-> begin, last |-> last, address |-> instr[begin].addr,
   to |-> addresses, succ |-> [i \in DOMAIN addresses |-> Null], preds |-> <<>>]

(* Slip: the follower is asked for before cur++. *)
AddressAfterOwn(i) == instr[i].addr

AddressAfter(i) == IF i = Len(instr) THEN Elsewhere ELSE instr[i + 1].addr

(* The switch statement, for the cases that end a node after cur. *)
NodeUpToCur ==
  LET i == instr[cur] IN
  NewNode(CASE i.kind = "SWITCH" -> "N_WAY" [] OTHER -> i.kind, cur,
          CASE i.kind = "CONDITIONAL_JUMP" -> Append(i.to, AddressAfter(cur))
            [] OTHER -> i.to)

Push(n) ==
  /\ node' = Append(node, n)
  /\ list' = Append(list, Len(node) + 1)

Cutting == phase = "cut" /\ cur <= Len(instr)

EndNode ==
  /\ Cutting
  /\ instr[cur].kind \in {"CONDITIONAL_JUMP", "JUMP", "RETURN", "SWITCH"}
  /\ Push(NodeUpToCur)
  /\ cur' = cur + 1
  /\ begin' = cur + 1
  /\ UNCHANGED <<input, item, phase>>

(* Slip: cur is increased before the node is created. *)
MeetLabelTooLate ==
  /\ Cutting
  /\ instr[cur].kind = "LABEL"
  /\ IF begin # cur
     THEN Push(NewNode("FALL_THROUGH", cur, <<instr[cur].addr>>)) /\ begin' = cur
     ELSE UNCHANGED <<node, list, begin>>
  /\ cur' = cur + 1
  /\ UNCHANGED <<input, item, phase>>

(* Slip: a label starts a node and ends none. *)
MeetLabelWithoutNode ==
  /\ Cutting
  /\ instr[cur].kind = "LABEL"
  /\ begin' = cur
  /\ cur' = cur + 1
  /\ UNCHANGED <<input, node, list, item, phase>>

(* A label, or the case OnSwitchInfo made of one. *)
MeetLabel ==
  /\ Cutting
  /\ instr[cur].kind = "LABEL"
  /\ IF begin # cur
     THEN Push(NewNode("FALL_THROUGH", cur - 1, <<instr[cur].addr>>)) /\ begin' = cur
     ELSE UNCHANGED <<node, list, begin>>
  /\ cur' = cur + 1
  /\ UNCHANGED <<input, item, phase>>

(* Slip: the default case does not advance. *)
SkipOtherStays ==
  /\ Cutting
  /\ instr[cur].kind = "OTHER"
  /\ UNCHANGED vars

SkipOther ==
  /\ Cutting
  /\ instr[cur].kind = "OTHER"
  /\ cur' = cur + 1
  /\ UNCHANGED <<input, begin, node, list, item, phase>>

EndCutting ==
  /\ phase = "cut"
  /\ cur > Len(instr)
  /\ phase' = "connect"
  /\ UNCHANGED <<input, begin, cur, node, list, item>>

-----------------------------------------------------------------------------
(* The Node_map, which has the last node of an address. *)
NodeAt(a) ==
  LET found == {n \in DOMAIN node : node[n].address = a} IN
  IF found = {} THEN Null ELSE CHOOSE n \in found : \A m \in found : m <= n

Connect ==
  /\ phase = "connect"
  /\ item <= Len(list)
  /\ LET n     == list[item]
         found == [i \in DOMAIN node[n].to |-> NodeAt(node[n].to[i])]
         edges(m) == Cardinality({i \in DOMAIN found : found[i] = m})
     IN  node' = [m \in DOMAIN node |->
                    [node[m] EXCEPT !.preds = @ \o [i \in 1 .. edges(m) |-> n],
                                    !.succ = IF m = n THEN found ELSE @]]
  /\ item' = item + 1
  /\ UNCHANGED <<input, begin, cur, list, phase>>

EndConnecting ==
  /\ phase = "connect"
  /\ item > Len(list)
  /\ item' = 1
  /\ phase' = "share"
  /\ UNCHANGED <<input, begin, cur, node, list>>

-----------------------------------------------------------------------------
(* Slip: every successor is led to the copy. *)
ReconnectEverySuccessor(succ, old, new) == [i \in DOMAIN succ |-> new]

ReconnectSuccessor(succ, old, new) ==
  [i \in DOMAIN succ |-> IF succ[i] = old THEN new ELSE succ[i]]

(* A copy of n with its successors as they are by now, whose mPreds is      *)
(* empty, and to which predecessor p is led.                               *)
CopyFor(nodes, n, p) ==
  LET made == Append(nodes, [nodes[n] EXCEPT !.preds = <<>>])
  IN  [made EXCEPT ![p].succ = ReconnectSuccessor(@, n, Len(made))]

(* The loop over mPreds but the first. *)
Copies(n) ==
  LET go[k \in 1 .. Len(node[n].preds)] ==
        IF k = 1 THEN node ELSE CopyFor(go[k - 1], n, node[n].preds[k])
  IN  go[Len(node[n].preds)]

(* N_WAY has no Copy, and CopySuccessors asks every successor for its      *)
(* address.                                                                *)
CannotCopy(n) == node[n].type = "N_WAY" \/ Null \in ToSet(node[n].succ)

Share ==
  /\ phase = "share"
  /\ item <= Len(list)
  /\ LET n == list[item]
         shares == node[n].address \in shared /\ Len(node[n].preds) > 1
     IN  IF shares /\ CannotCopy(n)
         THEN /\ phase' = "crash"
              /\ UNCHANGED <<node, list, item>>
         ELSE /\ phase' = phase
              /\ node' = IF shares THEN Copies(n) ELSE node
              /\ LET new == Len(node') - Len(node) IN
                 /\ list' = SubSeq(list, 1, item - 1) \o [k \in 1 .. new |-> Len(node) + k]
                              \o SubSeq(list, item, Len(list))
                 /\ item' = item + new + 1
  /\ UNCHANGED <<input, begin, cur>>

Done ==
  /\ phase = "share"
  /\ item > Len(list)
  /\ phase' = "done"
  /\ UNCHANGED <<input, begin, cur, node, list, item>>

Next == EndNode \/ MeetLabel \/ SkipOther \/ EndCutting \/ Connect \/ EndConnecting
          \/ Share \/ Done

Spec == Init /\ [][Next]_vars /\ WF_vars(Next)

-----------------------------------------------------------------------------
TypeOK ==
  /\ begin <= cur
  /\ ToSet(list) \subseteq DOMAIN node
  /\ \A n \in DOMAIN node :
       /\ node[n].first <= node[n].last
       /\ node[n].last < begin
       /\ Len(node[n].succ) = Len(node[n].to)
       /\ ToSet(node[n].succ) \subseteq DOMAIN node \cup {Null}
       /\ ToSet(node[n].preds) \subseteq DOMAIN node
  /\ item \in 1 .. Len(list) + 1
  /\ phase \in {"cut", "connect", "share", "done", "crash"}

(***************************************************************************)
(* The control flow of the instruction list itself.                        *)
(***************************************************************************)
IsTransfer(i) == instr[i].kind \in {"CONDITIONAL_JUMP", "JUMP", "RETURN", "SWITCH"}

FirstAt(a) == CHOOSE i \in DOMAIN instr : instr[i].addr = a /\ \A j \in 1 .. i - 1 : instr[j].addr # a

Follow(i) ==
  {FirstAt(a) : a \in ToSet(instr[i].to)}
    \cup IF instr[i].kind \in {"JUMP", "RETURN", "SWITCH"} THEN {} ELSE {i + 1}

(* A label does nothing: where the control really gets from i.             *)
PastLabels(i) == CHOOSE j \in i .. Len(instr) :
  instr[j].kind # "LABEL" /\ \A k \in i .. j - 1 : instr[k].kind = "LABEL"

(***************************************************************************)
(* What the passes take for granted of a front end: the list begins with   *)
(* something other than a transfer and ends with one that is not           *)
(* conditional; a transfer goes to labels only; and no transfer leads to   *)
(* the condition of a conditionally executed instruction, whose two parts  *)
(* would be two nodes with one address.                                    *)
(***************************************************************************)
Proper ==
  /\ instr # <<>>
  /\ ~IsTransfer(1)
  /\ instr[Len(instr)].kind \in {"JUMP", "RETURN", "SWITCH"}
  /\ \A i \in DOMAIN instr : \A a \in ToSet(instr[i].to) :
       \E j \in DOMAIN instr : instr[j].kind = "LABEL" /\ instr[j].addr = a
  /\ \A i \in 2 .. Len(instr) - 1 :
       instr[i].kind = "CONDITIONAL_JUMP" /\ instr[i + 1].addr = instr[i].addr =>
         instr[i - 1].kind = "OTHER"

Nodes == ToSet(list)

(* Every instruction of the list is in a node. *)
NothingDropped ==
  phase = "done" /\ Proper =>
    \A i \in DOMAIN instr : \E n \in Nodes : i \in node[n].first .. node[n].last

(* The nodes, the copied ones too, are left where the instruction list     *)
(* says and for where it says, and nowhere in between.                     *)
SameFlow ==
  phase = "done" /\ Proper =>
    \A n \in Nodes :
      /\ {PastLabels(node[s].first) : s \in ToSet(node[n].succ) \ {Null}}
           = {PastLabels(i) : i \in Follow(node[n].last)}
      /\ \A i \in node[n].first .. node[n].last - 1 : Follow(i) = {i + 1}

(* FindDominators and the later passes follow every successor unasked.     *)
AllConnected == phase = "done" /\ Proper => \A n \in Nodes : ToSet(node[n].succ) \subseteq Nodes

Terminates == <>(phase \in {"done", "crash"})
=============================================================================
