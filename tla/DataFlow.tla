-------------------------------- MODULE DataFlow --------------------------------
(***************************************************************************)
(* Definition-use chains and data flow analysis (src/instruction.cpp,      *)
(* src/usedefine.cpp, src/dataflow.cpp): an assignment that is never used  *)
(* is removed, one that is used once is moved into the instruction that    *)
(* uses it, and the operands of PUSHes are moved into the call they are    *)
(* the parameters of.                                                      *)
(*                                                                         *)
(* The list of instructions is cut into two nodes, of which the second     *)
(* follows the first.  An instruction stays at its place in the list and   *)
(* is marked, as TO_BE_DELETED does; the erase pool takes it off the list  *)
(* when the analysis goes on to the next node or ends.                     *)
(***************************************************************************)
EXTENDS Integers, FiniteSets, SequencesExt

CONSTANTS
  Reg,        (* registers                                                *)
  Plans,      (* what kinds of instruction there may be at each place     *)
  Sources,    (* what is assigned: the leaves of an operation, in order   *)
  MaxParams,  (* bound on the parameters of a call                        *)
  Cuts,       (* where the first node may end, but for the end            *)
  LiveOuts    (* what may be live after the second node                   *)

ASSUME PlansAssumption ==
  Plans \subseteq Seq(SUBSET {"assign", "copy", "call", "store", "push", "pop", "jump"})
ASSUME MaxParamsAssumption == MaxParams \in Nat
ASSUME LiveOutsAssumption == LiveOuts \subseteq SUBSET Reg

VARIABLES
  code,      (* the instructions                                          *)
  cut,       (* the last instruction of the first node                    *)
  liveOut,   (* mLiveOut of the two nodes                                 *)
  item,      (* Iterator()                                                *)
  stack,     (* Stack(): the PUSHes met, by their places                  *)
  phase,     (* what is done with the item                                *)
  careless,  (* history: something was moved that should have stayed      *)
  meaning    (* history: what the list did before                         *)

vars == <<code, cut, liveOut, item, stack, phase, careless, meaning>>

Item == DOMAIN code

(* The parameters of a call that nobody knows the number of are all there is. *)
UnknownCount == -1
ParametersTaken(params, depth) ==
  IF params = UnknownCount \/ params > depth THEN depth ELSE params

-----------------------------------------------------------------------------
(* An expression is a tree: a function from the paths of its nodes to      *)
(* their labels.  Operations, calls and their results stand for            *)
(* themselves: nothing is known of two but whether they are the same.      *)
Register(r) == <<"reg", r>>
Memory == <<"mem", 0>>
Dummy == <<"dummy", 0>>

ASSUME SourcesAssumption == Sources \subseteq Seq({Memory} \cup {Register(r) : r \in Reg})

Leaf(label) == [p \in {<<>>} |-> label]

Apply(label, args) ==
  [p \in {<<>>} \cup UNION {{<<j>> \o q : q \in DOMAIN args[j]} : j \in DOMAIN args} |->
     IF p = <<>> THEN label ELSE args[p[1]][Tail(p)]]

(* Each leaf of e in the domain of by is replaced by the tree given there. *)
Substitute(e, by) ==
  LET kept == DOMAIN e \ DOMAIN by IN
  [q \in kept \cup UNION {{p \o s : s \in DOMAIN by[p]} : p \in DOMAIN by} |->
     IF q \in kept THEN e[q]
     ELSE LET p == CHOOSE p \in DOMAIN by : IsPrefix(p, q)
          IN  by[p][SubSeq(q, Len(p) + 1, Len(q))]]

Subtree(e, p) ==
  [q \in {SubSeq(s, Len(p) + 1, Len(s)) : s \in {s \in DOMAIN e : IsPrefix(p, s)}} |-> e[p \o q]]

Labelled(e, tags) == {p \in DOMAIN e : e[p][1] \in tags}
ReadsAt(e, r) == {p \in DOMAIN e : e[p] = Register(r)}
RegistersOf(e) == {r \in Reg : ReadsAt(e, r) # {}}
HasCall(e) == Labelled(e, {"call"}) # {}
ReadsMemory(e) == Labelled(e, {"mem"}) # {}

-----------------------------------------------------------------------------
(* OperandType: what is stored through is used, not defined. *)
UsedOperands(c) ==
  CASE c.type = "assign" -> {2}
    [] c.type = "store" -> {1, 2}
    [] c.type \in {"push", "jump"} -> {1}
    [] c.type = "pop" -> {}

(* UsesAndDefintionsVisitor, for one instruction. *)
Used(c) == UNION {RegistersOf(c.operands[o]) : o \in UsedOperands(c)}
Defined(c) == IF c.type \in {"assign", "pop"} THEN RegistersOf(c.operands[1]) ELSE {}

Instruction(type, operands, params) ==
  LET c == [type |-> type, operands |-> operands] IN
  [type |-> type, operands |-> operands, params |-> params,
   uses |-> Used(c), definitions |-> Defined(c),
   last |-> {}, chain |-> {}, deleted |-> FALSE, collected |-> FALSE]

Operation(k, leaves) == Apply(<<"op", k>>, [j \in DOMAIN leaves |-> Leaf(leaves[j])])

Assignment(d, e, params) == Instruction("assign", <<d, e>>, params)
Unary(type, e) == Instruction(type, <<e>>, 0)
Store(a, e) == Instruction("store", <<Apply(<<"*", 0>>, <<a>>), e>>, 0)

Of(kind, k) ==
  LET registers == {Leaf(Register(r)) : r \in Reg} IN
  CASE kind = "assign" -> {Assignment(d, Operation(k, s), 0) : d \in registers, s \in Sources}
    [] kind = "copy" -> {Assignment(d, e, 0) : d, e \in registers}
    [] kind = "call" -> {Assignment(d, Leaf(<<"call", k>>), m) :
                           d \in registers, m \in {UnknownCount} \cup 0 .. MaxParams}
    [] kind = "store" -> {Store(a, e) : a, e \in registers}
    [] kind = "push" -> {Unary("push", e) : e \in registers}
    [] kind = "pop" -> {Unary("pop", d) : d \in registers}
    [] kind = "jump" -> {Unary("jump", Operation(k, s)) : s \in Sources}

Instructions(kinds, k) == UNION {Of(kind, k) : kind \in kinds}

InstructionLists(plan) ==
  LET lists[k \in 0 .. Len(plan)] ==
        IF k = 0 THEN {<<>>} ELSE {Append(l, c) : l \in lists[k - 1], c \in Instructions(plan[k], k)}
  IN  lists[Len(plan)]

(* An instruction that transfers control is the last of its node. *)
Proper(c, at) == \A k \in DOMAIN c : c[k].type = "jump" => k \in {at, Len(c)}

(* Node::Uses and LiveRegisterAnalysis for the node that follows. *)
LiveIn(c, at, out) ==
  {r \in Reg :
     \/ \E k \in at + 1 .. Len(c) :
          r \in c[k].uses /\ \A m \in at + 1 .. k - 1 : r \notin c[m].definitions
     \/ r \in out /\ \A k \in at + 1 .. Len(c) : r \notin c[k].definitions}

EndOfNode(k) == IF k <= cut THEN cut ELSE Len(code)
LiveOut(k) == liveOut[IF k <= cut THEN 1 ELSE 2]

-----------------------------------------------------------------------------
(* What the list does, with every operation uninterpreted: what is stored, *)
(* called and tested, in which order, and what is in the registers then.   *)
(* Memory is what it was after the effects so far.  Calls within an        *)
(* instruction come first.                                                 *)
EffectsIn(e) == Labelled(e, {"call", "store", "jump"})

(* The effects in e that come before what is at p, and those it contains.  *)
Before(e, p) == {q \in EffectsIn(e) : ~IsPrefix(q, p)}
Nested(e, p) == {q \in EffectsIn(e) : q # p /\ IsPrefix(p, q)}

Inputs(e, s) ==
  [p \in Labelled(e, {"reg", "mem"}) |->
     IF e[p][1] = "reg" THEN s.env[e[p][2]]
     ELSE Leaf(<<"mem", s.effects + Cardinality(Before(e, p))>>)]

Value(e, s) == Substitute(e, Inputs(e, s))

(* The effects in e, in their order, after n others; v is the value of e.  *)
Events(e, v, n) ==
  {<<n + Cardinality(Nested(e, p)) + 1, Subtree(v, p)>> : p \in EffectsIn(e)}

(* The whole of an instruction as one tree; a call that has not got its    *)
(* parameters yet takes them off the stack.                                *)
Whole(c) ==
  IF c.type = "assign" THEN c.operands[2]
  ELSE IF c.type = "push" THEN c.operands[1]
  ELSE Apply(<<c.type, 0>>, c.operands)

TakenFrom(s, c) == IF c.collected THEN 0 ELSE ParametersTaken(c.params, Len(s.stack))

Computed(s, c) ==
  LET m == TakenFrom(s, c) IN
  IF m = 0 THEN Value(Whole(c), s) ELSE Apply(Whole(c)[<<>>], [j \in 1 .. m |-> s.stack[j]])

Popped(s) == IF s.stack = <<>> THEN Leaf(<<"bottom", 0>>) ELSE Head(s.stack)

Executed(s, c) ==
  LET v == Computed(s, c)
      result == IF c.type = "pop" THEN Popped(s) ELSE v
  IN  [env |-> [r \in Reg |-> IF r \in c.definitions THEN result ELSE s.env[r]],
       stack |-> IF c.type = "push" THEN <<v>> \o s.stack
                 ELSE IF c.type = "pop" /\ s.stack # <<>> THEN Tail(s.stack)
                 ELSE SubSeq(s.stack, TakenFrom(s, c) + 1, Len(s.stack)),
       effects |-> s.effects + Cardinality(EffectsIn(Whole(c))),
       events |-> s.events \cup Events(Whole(c), v, s.effects)]

(* The states before the list, and behind each of its instructions.        *)
Start == [env |-> [r \in Reg |-> Leaf(<<"entry", r>>)], stack |-> <<>>, effects |-> 0, events |-> {}]

Run(c) ==
  LET s[k \in 0 .. Len(c)] ==
        IF k = 0 THEN Start ELSE IF c[k].deleted THEN s[k - 1] ELSE Executed(s[k - 1], c[k])
  IN  s

Meaning(c, out) ==
  LET s == Run(c)[Len(c)]
  IN  [env |-> [r \in out |-> s.env[r]], stack |-> s.stack, events |-> s.events]

-----------------------------------------------------------------------------
Init ==
  /\ \E plan \in Plans : code \in InstructionLists(plan)
  /\ cut \in Item \cap (Cuts \cup {Len(code)})
  /\ Proper(code, cut)
  /\ \E out \in LiveOuts :
       /\ liveOut = <<LiveIn(code, cut, out), out>>
       /\ meaning = Meaning(code, out)
  /\ item = 1
  /\ stack = <<>>
  /\ phase = "chains"
  /\ careless = FALSE

-----------------------------------------------------------------------------
(* FindDefintionUseChains: the instructions of the node a definition       *)
(* reaches, the one that redefines the register included.                  *)
Reached(k, r) ==
  {j \in k + 1 .. EndOfNode(k) : \A m \in k + 1 .. j - 1 : r \notin code[m].definitions}

FindChains ==
  /\ phase = "chains"
  /\ item \in Item
  /\ code' = [code EXCEPT
       ![item].chain = {u \in code[item].definitions \X Item :
                          u[2] \in Reached(item, u[1]) /\ u[1] \in code[u[2]].uses},
       ![item].last = {r \in code[item].definitions :
                         \A j \in item + 1 .. EndOfNode(item) : r \notin code[j].definitions}]
  /\ item' = item + 1
  /\ UNCHANGED <<cut, liveOut, stack, phase, careless, meaning>>

(* Slip: the walk starts before the first instruction. *)
AnalyzeNodeListFromZero ==
  /\ phase = "chains"
  /\ item \notin Item
  /\ item' = 0
  /\ phase' = "definitions"
  /\ UNCHANGED <<code, cut, liveOut, stack, careless, meaning>>

AnalyzeNodeList ==
  /\ phase = "chains"
  /\ item \notin Item
  /\ item' = 1
  /\ phase' = "definitions"
  /\ UNCHANGED <<code, cut, liveOut, stack, careless, meaning>>

-----------------------------------------------------------------------------
NeededLater(k, r) == r \in code[k].last /\ r \in LiveOut(k)

Unused(k) ==
  {r \in code[k].definitions : (\A j \in Item : <<r, j>> \notin code[k].chain) /\ ~NeededLater(k, r)}

(* Only what lies behind the item is ever deleted (TypeOK), so that the    *)
(* walk never comes to an instruction it has to skip.                      *)
AtItem(p) == phase = p /\ item \in Item /\ ~code[item].deleted

IsCall(k) == code[k].type = "assign" /\ code[k].operands[2][<<>>][1] = "call"

(* A call deeper in what is assigned is removed with it. *)
RemoveInstruction ==
  /\ AtItem("definitions")
  /\ code[item].type = "assign" /\ ~IsCall(item)
  /\ Unused(item) # {}
  /\ code' = [code EXCEPT ![item].operands[1] = Leaf(Dummy),
                          ![item].definitions = {}, ![item].deleted = TRUE]
  /\ careless' = (careless \/ HasCall(code[item].operands[2]))
  /\ item' = item + 1
  /\ UNCHANGED <<cut, liveOut, stack, phase, meaning>>

(* Of a call or a POP only what it defines goes. *)
RemoveDefinition ==
  /\ AtItem("definitions")
  /\ code[item].type = "pop" \/ IsCall(item)
  /\ Unused(item) # {}
  /\ code' = [code EXCEPT ![item].operands[1] = Leaf(Dummy), ![item].definitions = {}]
  /\ phase' = "parameters"
  /\ UNCHANGED <<cut, liveOut, item, stack, careless, meaning>>

KeepDefinition ==
  /\ AtItem("definitions")
  /\ Unused(item) = {}
  /\ phase' = "parameters"
  /\ UNCHANGED <<code, cut, liveOut, item, stack, careless, meaning>>

-----------------------------------------------------------------------------
(* What moving e past instruction m could change. *)
Disturbs(m, e) ==
  /\ ~code[m].deleted
  /\ \/ code[m].definitions \cap RegistersOf(e) # {}
     \/ (HasCall(e) \/ ReadsMemory(e)) /\ EffectsIn(Whole(code[m])) # {}
     \/ HasCall(e) /\ ReadsMemory(Whole(code[m]))

NestedCall(e) == \E p \in Labelled(e, {"call"}) : p # <<>>

CollectingIsCareless(taken) ==
  \E k \in taken :
    LET e == code[k].operands[1] IN
    \/ \E between \in (k + 1 .. item - 1) \ taken : Disturbs(between, e)
    \/ /\ HasCall(e) \/ ReadsMemory(e)
       /\ \E later \in taken : later > k /\ HasCall(code[later].operands[1])

(* Slip: what was taken stays on the stack. *)
CollectParametersAgain ==
  /\ AtItem("parameters")
  /\ IsCall(item) /\ ~code[item].collected
  /\ LET m == ParametersTaken(code[item].params, Len(stack))
         pushed(k) == code[k].operands[1]
     IN  code' = [k \in Item |->
           IF k = item
           THEN [code[k] EXCEPT !.collected = TRUE,
                   !.operands[2] = IF m = 0 THEN @
                                   ELSE Apply(@[<<>>], [j \in 1 .. m |-> pushed(stack[j])])]
           ELSE [code[k] EXCEPT !.deleted = @ \/ \E j \in 1 .. m : stack[j] = k]]
  /\ phase' = "instruction"
  /\ UNCHANGED <<cut, liveOut, item, stack, careless, meaning>>

(* The last PUSHes met become the parameters. *)
CollectParameters ==
  /\ AtItem("parameters")
  /\ IsCall(item) /\ ~code[item].collected
  /\ LET m == ParametersTaken(code[item].params, Len(stack))
         taken == {stack[j] : j \in 1 .. m}
         pushed(k) == code[k].operands[1]
     IN  /\ code' = [k \in Item |->
              IF k = item
              THEN [code[k] EXCEPT !.collected = TRUE,
                      !.operands[2] = IF m = 0 THEN @
                                      ELSE Apply(@[<<>>], [j \in 1 .. m |-> pushed(stack[j])])]
              ELSE [code[k] EXCEPT !.deleted = @ \/ k \in taken]]
         /\ stack' = SubSeq(stack, m + 1, Len(stack))
         /\ careless' = (careless \/ CollectingIsCareless(taken))
  /\ phase' = "instruction"
  /\ UNCHANGED <<cut, liveOut, item, meaning>>

NoParameters ==
  /\ AtItem("parameters")
  /\ ~IsCall(item) \/ code[item].collected
  /\ phase' = "instruction"
  /\ UNCHANGED <<code, cut, liveOut, item, stack, careless, meaning>>

-----------------------------------------------------------------------------
(* ReplaceRegisterExpressionHelper::Replace goes on to the next child of a *)
(* node unless that child was the register: of two such children only the  *)
(* first is replaced, and nothing behind it is looked at.                  *)
Replaced(e, r) ==
  {p \in ReadsAt(e, r) :
     \A k \in 1 .. Len(p) : \A j \in 1 .. p[k] - 1 : Append(SubSeq(p, 1, k - 1), j) \notin ReadsAt(e, r)}

IsRegisterDefinedBetweenAddresses(r, from, to) ==
  \E k \in from + 1 .. to - 1 : r \in code[k].definitions

(* Only registers that the target reads already are looked for. *)
IsRegisterDefinedBetweenAssignmentAndTarget(t, operand, reg, e, from) ==
  \E r \in RegistersOf(e) \ {reg} :
    ReadsAt(operand, r) # {} /\ IsRegisterDefinedBetweenAddresses(r, from, t)

(* Slip: one of several uses is enough. *)
MovableToAny(r, t) ==
  /\ code[item].type = "assign"
  /\ <<r, t>> \in code[item].chain
  /\ ~NeededLater(item, r)
  /\ IsCall(item) => t = item + 1

(* The tests before the loop over the operands of the target. *)
Movable(r, t) ==
  /\ code[item].type = "assign"
  /\ code[item].chain = {<<r, t>>}
  /\ ~NeededLater(item, r)
  /\ IsCall(item) => t = item + 1

(* The operand in which the register is replaced. *)
Replaces(o, r, t) ==
  LET fits(q) ==
        /\ q \in UsedOperands(code[t])
        /\ ReadsAt(code[t].operands[q], r) # {}
        /\ ~IsRegisterDefinedBetweenAssignmentAndTarget(
              t, code[t].operands[q], r, code[item].operands[2], item)
  IN  fits(o) /\ \A q \in 1 .. o - 1 : ~fits(q)

(* Slip: the register replaced still counts as used. *)
NewUsesKeepsOld(r, t) == code[t].uses \cup code[item].uses

NewUses(r, t) == (code[t].uses \ {r}) \cup code[item].uses

MoveIsCareless(r, t, o) ==
  LET e == code[item].operands[2]
      at == Replaced(code[t].operands[o], r)
  IN  \/ \E q \in UsedOperands(code[t]) : ReadsAt(code[t].operands[q], r) # (IF q = o THEN at ELSE {})
      \/ HasCall(e) /\ Cardinality(at) > 1
      \/ \E between \in item + 1 .. t - 1 : Disturbs(between, e)
      \/ (HasCall(e) \/ ReadsMemory(e)) /\ NestedCall(Apply(Dummy, code[t].operands))

ReplaceUseWithDefinition ==
  /\ AtItem("instruction")
  /\ \E r \in Reg, t \in Item : \E o \in UsedOperands(code[t]) :
       /\ Movable(r, t)
       /\ Replaces(o, r, t)
       /\ LET e == code[item].operands[2]
              at == Replaced(code[t].operands[o], r)
          IN  /\ code' = [code EXCEPT
                   ![t].operands[o] = Substitute(@, [p \in at |-> e]),
                   ![t].uses = NewUses(r, t),
                   ![t].last = @ \cup code[item].last,
                   ![item].deleted = TRUE]
              /\ careless' = (careless \/ MoveIsCareless(r, t, o))
  /\ item' = item + 1
  /\ phase' = "definitions"
  /\ UNCHANGED <<cut, liveOut, stack, meaning>>

LeaveAssignment ==
  /\ AtItem("instruction")
  /\ code[item].type = "assign"
  /\ ~\E r \in Reg, t \in Item : Movable(r, t) /\ \E o \in UsedOperands(code[t]) : Replaces(o, r, t)
  /\ item' = item + 1
  /\ phase' = "definitions"
  /\ UNCHANGED <<code, cut, liveOut, stack, careless, meaning>>

OnPush ==
  /\ AtItem("instruction")
  /\ code[item].type = "push"
  /\ stack' = <<item>> \o stack
  /\ item' = item + 1
  /\ phase' = "definitions"
  /\ UNCHANGED <<code, cut, liveOut, careless, meaning>>

OnPop ==
  /\ AtItem("instruction")
  /\ code[item].type = "pop"
  /\ stack' = IF stack = <<>> THEN stack ELSE Tail(stack)
  /\ item' = item + 1
  /\ phase' = "definitions"
  /\ UNCHANGED <<code, cut, liveOut, careless, meaning>>

OnOther ==
  /\ AtItem("instruction")
  /\ code[item].type \in {"store", "jump"}
  /\ item' = item + 1
  /\ phase' = "definitions"
  /\ UNCHANGED <<code, cut, liveOut, stack, careless, meaning>>

Return ==
  /\ phase = "definitions"
  /\ item \notin Item
  /\ phase' = "done"
  /\ UNCHANGED <<code, cut, liveOut, item, stack, careless, meaning>>

Next ==
  \/ FindChains \/ AnalyzeNodeList
  \/ RemoveInstruction \/ RemoveDefinition \/ KeepDefinition
  \/ CollectParameters \/ NoParameters
  \/ ReplaceUseWithDefinition \/ LeaveAssignment \/ OnPush \/ OnPop \/ OnOther
  \/ Return

Spec == Init /\ [][Next]_vars

-----------------------------------------------------------------------------
(* The types; and what is deleted lies behind the item. *)
TypeOK ==
  /\ item \in 1 .. Len(code) + 1
  /\ cut \in Item
  /\ stack \in Seq(Item)
  /\ phase \in {"chains", "definitions", "parameters", "instruction", "done"}
  /\ careless \in BOOLEAN
  /\ \A k \in Item :
       /\ code[k].definitions \subseteq Reg /\ code[k].uses \subseteq Reg
       /\ code[k].last \subseteq Reg
       /\ code[k].deleted => k < item
       /\ code[k].chain \subseteq Reg \X Item

(* As long as nothing is moved past what it reads, and no call is removed  *)
(* with what it is part of, the list does what it did before.              *)
CarefulMeansSameProgram == ~careless => Meaning(code, liveOut[2]) = meaning

(* The stack holds PUSHes that are still in the list, the last one on top: *)
(* no PUSH becomes a parameter twice.                                      *)
StackIsLive ==
  \A j \in DOMAIN stack :
    /\ code[stack[j]].type = "push" /\ ~code[stack[j]].deleted
    /\ \A l \in 1 .. j - 1 : stack[l] > stack[j]

(* The registers an instruction reads, but for those in parameters of      *)
(* calls: CollectParameters and Replace leave these out of mUses.          *)
ReadsOutsideCalls(e, r) ==
  {p \in ReadsAt(e, r) : \A q \in Labelled(e, {"call"}) : ~IsPrefix(q, p)}

UsedOutsideCalls(c) ==
  {r \in Reg : \E o \in UsedOperands(c) : ReadsOutsideCalls(c.operands[o], r) # {}}

(* mUses keeps up with the operands, parameters of calls excepted.         *)
UsesAreExact ==
  ~careless => \A k \in Item : ~code[k].deleted => code[k].uses = UsedOutsideCalls(code[k])

(* A call is never lost.  The comment on RemoveDefinition wants an         *)
(* instruction kept whose second operand contains one.                     *)
CallsStay ==
  \A k \in Item : code[k].deleted /\ code[k].definitions = {} /\ code[k].type = "assign" =>
    ~HasCall(code[k].operands[2])
=============================================================================
