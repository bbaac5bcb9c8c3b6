---------------------------------- MODULE X86 ----------------------------------
(***************************************************************************)
(* The x86 front end (src/ida-x86.cpp): MakeLowLevelList makes a list of   *)
(* labels and machine instructions of the lines of a function, and one     *)
(* walk over the list puts abstract instructions in their place.  Some of  *)
(* them stand for one machine instruction; some for an idiom, which the    *)
(* handler of its first instruction looks for ahead.  A conditional jump   *)
(* gets its condition from mFlagUpdate, the last instruction that was seen *)
(* to set the flags.                                                       *)
(*                                                                         *)
(* Nothing is taken off the list during the walk: Erase marks, and the     *)
(* erase pool removes when the walk is over.  Insert puts in front of the  *)
(* iterator, so what is inserted is not walked over.                       *)
(*                                                                         *)
(* The address of a line is its number.  Code is 16 bits wide: operands    *)
(* with a SIB byte, and names the disassembler has for data, are left out. *)
(***************************************************************************)
EXTENDS X86Machine

CONSTANT
  Programs,   (* functions: [code, void, starts, idiom], code a sequence of *)
              (* lines [name, kind, insn]                                   *)
  Large       (* a stack change above it is taken for an error (0x100)      *)

ASSUME LargeAssumption == Large \in Nat

VARIABLES
  program,          (* the function                                         *)
  al,               (* the number of register al: 8 in src/x86.hpp, 16 in   *)
                    (* the headers of the disassembler                      *)
  list,             (* Instructions()                                       *)
  item,             (* Iterator()                                           *)
  mFlagUpdate,      (* an instruction, or the null instruction              *)
  mFlagUpdateItem,  (* its place in the list, or 0 for the end of it        *)
  phase,            (* "walk", "done", or "undefined"                       *)
  careless          (* history: what the handlers disregarded               *)

vars == <<program, al, list, item, mFlagUpdate, mFlagUpdateItem, phase, careless>>

-----------------------------------------------------------------------------
(***************************************************************************)
(* Instructions of the list.                                               *)
(***************************************************************************)
LowLevel(ea, i)           == [type |-> "LOW_LEVEL", ea |-> ea, insn |-> i]
Label(ea, l)              == [type |-> "LABEL", ea |-> ea, name |-> l]
Assignment(ea, to, e)     == [type |-> "ASSIGNMENT", ea |-> ea, to |-> to, from |-> e]
ConditionalJump(ea, e, t) == [type |-> "CONDITIONAL_JUMP", ea |-> ea, cond |-> e, target |-> t]
Jump(ea, t)               == [type |-> "JUMP", ea |-> ea, target |-> t]
Push(ea, e)               == [type |-> "PUSH", ea |-> ea, operand |-> e]
Pop(ea, e)                == [type |-> "POP", ea |-> ea, operand |-> e]
Return(ea, e)             == [type |-> "RETURN", ea |-> ea, operand |-> e]
Switch(ea, e)             == [type |-> "SWITCH", ea |-> ea, operand |-> e]
Case(ea, cs)              == [type |-> "CASE", ea |-> ea, cases |-> cs]
Marked(e)                 == [type |-> "TO_BE_DELETED", ea |-> e.ea]

NullInsn == [itype |-> "null", ops |-> <<Void, Void>>, dtype |-> "word", rep |-> FALSE]

Code    == program.code
Insn(a) == Code[a].insn
IsCode(a) == a \in DOMAIN Code /\ Code[a].kind \in {"code", "convertible"}

(* Every line, as labels and machine instructions.                         *)
Lines(code) ==
  FlattenSeq([a \in DOMAIN code |->
    (IF code[a].name = "" THEN <<>> ELSE <<Label(a, code[a].name)>>)
    \o (IF code[a].kind \in {"code", "convertible"} THEN <<LowLevel(a, code[a].insn)>> ELSE <<>>)])

(* The list ends at bytes that cannot be made an instruction.              *)
MakeLowLevelList(code) ==
  LET Lost == {a \in DOMAIN code : code[a].kind = "unknown"} IN
  Lines(IF Lost = {} THEN code ELSE SubSeq(code, 1, CHOOSE a \in Lost : \A b \in Lost : a <= b))

-----------------------------------------------------------------------------
(***************************************************************************)
(* Expressions for operands (FromOperand).                                 *)
(***************************************************************************)
Referred(i, e) == IF i.itype \in {"lea", "les"} THEN Unary("&", e) ELSE e

FromPhrase(p) ==
  LET rs == PhraseRegisters(p) IN
  IF Len(rs) = 2 THEN Binary(Reg(rs[1]), "+", Reg(rs[2])) ELSE Reg(rs[1])

(* The registers of a displacement have the numbers they have in 32 bit    *)
(* code, and of 5 and 7 those they have in 16 bit code.                    *)
FromDisplacement(p, d) ==
  Binary(Reg(<<"ax", "cx", "dx", "bx", "none", "di", "si", "bx">>[p + 1]), "+", Imm(d))

Pointed(i, e) == IF i.itype # "lea" THEN Unary("*", e) ELSE e

FromOperand(i, n) ==
  LET o == i.ops[n] IN
  CASE o[1] = "stkvar" -> IF i.itype = "lea" THEN Unary("&", o) ELSE o
    [] o[1] = "mem"    -> Referred(i, o)
    [] o[1] = "phrase" -> Pointed(i, FromPhrase(o[2]))
    [] o[1] = "displ"  -> Pointed(i, FromDisplacement(o[2], o[3]))
    [] OTHER           -> o

AssignFromBinaryExpression(i, ea, op, second) ==
  Assignment(ea, FromOperand(i, 1), Binary(FromOperand(i, 1), op, second))

CreateCondition(i, op) == Binary(FromOperand(i, 1), op, FromOperand(i, 2))

Equals(a, b) == a[1] \in {"reg", "mem", "near", "phrase", "displ", "imm"} /\ a = b

IsReg(o) == o[1] = "reg"
IsImm(o) == o[1] = "imm"

(* A register by its number; and the register eight further on, which is   *)
(* its low byte if al is number 8.                                         *)
Number(r) ==
  IF r \in Nameless THEN 29
  ELSE LET W == <<"ax", "cx", "dx", "bx", "sp", "bp", "si", "di">>
           B == <<"al", "cl", "dl", "bl", "ah", "ch", "dh", "bh">>
       IN  IF r \in Words THEN (CHOOSE k \in 1 .. 8 : W[k] = r) - 1
           ELSE al + (CHOOSE k \in 1 .. 8 : B[k] = r) - 1

IsByteOf(o, r) == IsReg(o) /\ Number(o[2]) = Number(r) + 8

-----------------------------------------------------------------------------
(***************************************************************************)
(* What the walk sees and does.                                            *)
(***************************************************************************)
Here    == list[item]
Ea      == Here.ea
This    == Here.insn
At(types) == phase = "walk" /\ item <= Len(list) /\ Here.type = "LOW_LEVEL" /\ This.itype \in types

(* GetInstructions: the machine instructions from here on, labels skipped, *)
(* up to the first instruction of another type.                            *)
Ahead ==
  LET Open == {k \in item .. Len(list) : list[k].type \notin {"LOW_LEVEL", "LABEL"}}
      stop == IF Open = {} THEN Len(list) ELSE (CHOOSE k \in Open : \A m \in Open : k <= m) - 1
  IN  SelectSeq(SubSeq(list, item, stop), LAMBDA e : e.type = "LOW_LEVEL")

GetInstructions(n) == Len(Ahead) >= n

IsInsn(k, itype) == k <= Len(Ahead) /\ Ahead[k].insn.itype = itype
Op(k, n)     == Ahead[k].insn.ops[n]
Ops(k, a, b) == Ahead[k].insn.ops = <<a, b>>
Rep(k)       == Ahead[k].insn.rep

Walking == UNCHANGED <<program, al, phase>>

(* Slip: what is inserted comes behind what is erased. *)
EmitBehind(out, n) ==
  LET last == IF item + n <= Len(list) THEN item + n - 1 ELSE Len(list) IN
  /\ list' = [k \in 1 .. Len(list) + Len(out) |->
       IF k < item THEN list[k]
       ELSE IF k <= last THEN Marked(list[k])
       ELSE IF k <= last + Len(out) THEN out[k - last] ELSE list[k - Len(out)]]
  /\ item' = item + Len(out) + 1
  /\ Walking

(* Insert(out), then EraseInstructions(n): labels are counted too. *)
Emit(out, n) ==
  /\ list' = [k \in 1 .. Len(list) + Len(out) |->
       IF k < item THEN list[k]
       ELSE IF k < item + Len(out) THEN out[k - item + 1]
       ELSE IF k < item + Len(out) + n THEN Marked(list[k - Len(out)])
       ELSE list[k - Len(out)]]
  /\ item' = item + Len(out) + 1
  /\ Walking

(* Slip: the instruction that is replaced stays on the list. *)
ReplaceKeeps(e) == Emit(<<e>>, 0)

Replace(e) == Emit(<<e>>, 1)

NoFlags == UNCHANGED <<mFlagUpdate, mFlagUpdateItem>>

FlagsFrom(i, k) == mFlagUpdate' = i @@ [ea |-> Ea] /\ mFlagUpdateItem' = k

(* The handler is left without a change. *)
Stays == item' = item + 1 /\ UNCHANGED <<list, careless>> /\ NoFlags /\ Walking

Disregards(reasons) == careless' = careless \cup {<<Ea, r>> : r \in reasons}

-----------------------------------------------------------------------------
(***************************************************************************)
(* What a handler disregards.  Each is a way for the program to be one the *)
(* handler was not written for; most of them the handler could have seen.  *)
(***************************************************************************)
OperandRegisters(o) ==
  CASE o[1] = "reg"                -> {Whole(o[2])}
    [] o[1] \in {"phrase", "displ"} -> ToSet(PhraseRegisters(o[2]))
    [] OTHER                       -> {}

IsSwitch(i) == i.itype = "jmpni" /\ "info" \in DOMAIN i

Implied(i) ==
  CASE i.itype \in {"movs", "cmps"}                 -> {"si", "di", "cx"}
    [] i.itype = "scas"                             -> {"ax", "di", "cx"}
    [] i.itype \in {"cwd", "cdq", "cbw", "mul", "imul", "div", "idiv"} -> {"ax", "dx"}
    [] i.itype \in {"call", "jmpni"}                -> {"ax"}
    [] i.itype \in {"retn", "retf"}                 -> IF program.void THEN {} ELSE {"ax"}
    [] OTHER                                        -> {}

Mentions(i) == OperandRegisters(i.ops[1]) \cup OperandRegisters(i.ops[2]) \cup Implied(i)

Writes(i) ==
  IF i.itype \in Moves \cup Arithmetic \cup Sets \cup {"pop"}
  THEN IF IsReg(i.ops[1]) THEN {Whole(i.ops[1][2])} ELSE {"memory"}
  ELSE IF i.itype = "xchg" THEN OperandRegisters(i.ops[1]) \cup OperandRegisters(i.ops[2])
  ELSE IF i.itype \in Tests THEN {} ELSE Implied(i)

Position(l) == {a \in DOMAIN Code : Code[a].name = l}

Targets(i) ==
  {o[2] : o \in {o \in ToSet(i.ops) : o[1] = "near"}} \cup (IF IsSwitch(i) THEN ToSet(i.info.xrefs) ELSE {})

LoopsBack == \E a \in DOMAIN Code : IsCode(a) /\ \E l \in Targets(Insn(a)) : \E b \in Position(l) : b <= a

LaterThan(a) == {b \in DOMAIN Code : IsCode(b) /\ (b > a \/ LoopsBack)}

(* The idiom of n instructions leaves in registers rs something else than  *)
(* the machine does, and they are read.                                    *)
Clobbers(n, rs) ==
  IF \E b \in LaterThan(Ahead[n].ea) : Mentions(Insn(b)) \cap rs # {} THEN {"clobber"} ELSE {}

(* A label is in the middle of the idiom of n instructions. *)
Labelled(n) ==
  IF \E k \in item .. Len(list) : list[k].type = "LABEL" /\ list[k].ea > Ea /\ list[k].ea <= Ahead[n].ea
  THEN {"label"} ELSE {}

If(reason, c) == IF c THEN {reason} ELSE {}

(* The lines from a to b run one after the other, with no other way in. *)
Straight(a, b) ==
  \A c \in a + 1 .. b :
    /\ Code[c].name = ""
    /\ IsCode(c) /\ c < b => Insn(c).itype \notin {"jmp", "jmpni", "retn", "retf"}

SetsFlags == (Arithmetic \cup Tests \cup {"cmps"})

(* The flags at a are not those of mFlagUpdate, or its operands are not    *)
(* any more what they were.                                                *)
Stale(a) ==
  LET f == mFlagUpdate.ea
      between == {b \in f + 1 .. a - 1 : IsCode(b)}
      used == OperandRegisters(mFlagUpdate.ops[1]) \cup OperandRegisters(mFlagUpdate.ops[2])
              \cup If("memory", \E n \in 1 .. 2 : mFlagUpdate.ops[n][1] \notin {"reg", "imm", "void"})
  IN  If("flags", \/ ~Straight(f, a)
                  \/ \E b \in between : Insn(b).itype \in SetsFlags \/ Writes(Insn(b)) \cap used # {})

Ordered == {"jl", "jge", "jle", "jg", "js", "jns"}

(* The sign of a comparison is not kept. *)
SignLost(i) ==
  If("sign", \/ i.itype \in {"ja", "jb", "jbe", "jnb", "setnb"}
             \/ i.itype \in {"js", "jns"} /\ mFlagUpdate.itype = "cmp"
             \/ i.itype \in Ordered /\ (IsByte(mFlagUpdate.ops[1]) \/ IsByte(mFlagUpdate.ops[2])))

(* What a single instruction is read as, whatever is around it. *)
Misread(i) ==
  If("sign", i.itype \in {"movsx", "sar", "div", "cbw"})
  \cup If("base", \E n \in 1 .. 2 : i.ops[n][1] = "displ" /\ i.ops[n][2] \notin {5, 7})
  \cup If("pointer", i.itype = "les" /\ i.ops[2][1] = "mem")

Overlooked(code) ==
  UNION {{<<a, r>> : r \in Misread(code[a].insn) \cup If("truncated", code[a].kind = "unknown")}
         : a \in DOMAIN code}

-----------------------------------------------------------------------------
Init ==
  /\ program \in Programs
  /\ al \in {8, 16}
  /\ list = MakeLowLevelList(program.code)
  /\ item = 1
  /\ mFlagUpdate = NullInsn /\ mFlagUpdateItem = 0
  /\ phase = "walk"
  /\ careless = Overlooked(program.code)

(* AnalyzeInstruction on what is not a machine instruction. *)
Skip ==
  /\ phase = "walk" /\ item <= Len(list) /\ Here.type # "LOW_LEVEL"
  /\ Stays

Finish ==
  /\ phase = "walk" /\ item > Len(list)
  /\ phase' = "done"
  /\ UNCHANGED <<program, al, list, item, careless>> /\ NoFlags

-----------------------------------------------------------------------------
(***************************************************************************)
(* One machine instruction for one abstract instruction.                   *)
(***************************************************************************)
Operation ==
  [add |-> "+", sub |-> "-", shl |-> "<<", sar |-> ">>", shr |-> ">>",
   inc |-> "+", dec |-> "-", not |-> "~", neg |-> "-"]

OnArithmetic ==
  /\ At({"add", "sub"})
  /\ Replace(AssignFromBinaryExpression(This, Ea, Operation[This.itype], FromOperand(This, 2)))
  /\ FlagsFrom(This, item) /\ UNCHANGED careless

OnIncDec ==
  /\ At({"inc", "dec"})
  /\ Replace(AssignFromBinaryExpression(This, Ea, Operation[This.itype], Imm(1)))
  /\ FlagsFrom(This, item) /\ UNCHANGED careless

OnNot ==
  /\ At({"not"})
  /\ Replace(Assignment(Ea, FromOperand(This, 1), Unary("~", FromOperand(This, 1))))
  /\ FlagsFrom(This, item) /\ UNCHANGED careless

OnShift ==
  /\ At({"shl", "sar", "shr"})
  /\ Replace(AssignFromBinaryExpression(This, Ea, Operation[This.itype], FromOperand(This, 2)))
  /\ NoFlags /\ UNCHANGED careless

OnAnd ==
  /\ At({"and"})
  /\ IF This.ops[2] = Imm(0)
     THEN Replace(Assignment(Ea, FromOperand(This, 1), Imm(0))) /\ NoFlags
     ELSE /\ Replace(AssignFromBinaryExpression(This, Ea, "&", FromOperand(This, 2)))
          /\ FlagsFrom(This, item)
  /\ UNCHANGED careless

(* cmp and test are erased; the flags come from no place in the list. *)
OnCmpTest ==
  /\ At({"cmp", "test"})
  /\ Emit(<<>>, 1) /\ FlagsFrom(This, 0) /\ UNCHANGED careless

OnErased ==
  /\ At({"enter", "leave", "nop"})
  /\ Emit(<<>>, 1) /\ NoFlags /\ UNCHANGED careless

OnJmp ==
  /\ At({"jmp", "jmpni"}) /\ ~IsSwitch(This)
  /\ Replace(Jump(Ea, This.ops[1])) /\ NoFlags /\ UNCHANGED careless

OnPop ==
  /\ At({"pop"})
  /\ Replace(Pop(Ea, FromOperand(This, 1))) /\ NoFlags /\ UNCHANGED careless

OnReturn ==
  /\ At({"retn", "retf"})
  /\ Replace(Return(Ea, IF program.void THEN Void ELSE Reg("ax")))
  /\ NoFlags /\ UNCHANGED careless

OnCbw ==
  /\ At({"cbw"})
  /\ Replace(Assignment(Ea, Reg("ax"), Reg("al"))) /\ NoFlags /\ UNCHANGED careless

SignOfAx == Ternary(Binary(Reg("ax"), "<", Imm(0)), Imm(-1), Imm(0))

(* xchg of the two bytes of a register, taken to be ax. *)
OnXchg ==
  LET a == This.ops[1]  b == This.ops[2] IN
  /\ At({"xchg"})
  /\ IF IsByte(a) /\ IsByte(b) /\ Number(a[2]) % 4 = Number(b[2]) % 4
     THEN /\ Emit(<<Assignment(Ea, Reg("ax"), Library("bswap_16", <<Reg("ax")>>))>>, 1)
          /\ Disregards(If("swap", {a[2], b[2]} # {"al", "ah"}))
          /\ NoFlags
     ELSE Stays

Before(a) == IF a > 1 /\ Code[a].name = "" /\ IsCode(a - 1) THEN Insn(a - 1).itype ELSE "null"

(* The remainder comes first, because the quotient goes to ax. *)
OnDiv ==
  /\ At({"div", "idiv"})
  /\ Emit(<<Assignment(Ea, Reg("dx"), Binary(FromOperand(This, 1), "%", FromOperand(This, 2))),
            AssignFromBinaryExpression(This, Ea, "/", FromOperand(This, 2))>>, 1)
  /\ Disregards(If("dividend", Before(Ea) \notin {"cwd", "cdq"})
                \cup If("operand", "dx" \in OperandRegisters(This.ops[2])))
  /\ NoFlags

(* The high half of a product is dropped. *)
OnMul ==
  /\ At({"mul", "imul"})
  /\ Emit(<<AssignFromBinaryExpression(This, Ea, "*", FromOperand(This, 2))>>, 1)
  /\ Disregards(Clobbers(1, {"dx"})) /\ NoFlags

(* Instructions no handler is for, and those whose handler knows them only *)
(* as the beginning of an idiom.                                           *)
OnUnhandled ==
  /\ At({"sbb", "scas", "movs", "cmps"})
  /\ Stays

-----------------------------------------------------------------------------
(***************************************************************************)
(* Moves.                                                                  *)
(***************************************************************************)
IsMemcpy ==
  /\ GetInstructions(6)
  /\ Ops(1, Reg("ax"), Reg("cx"))
  /\ IsInsn(2, "shr") /\ Ops(2, Reg("cx"), Imm(2))
  /\ IsInsn(3, "movs") /\ Rep(3)
  /\ IsInsn(4, "mov") /\ Ops(4, Reg("cx"), Reg("ax"))
  /\ IsInsn(5, "and") /\ Ops(5, Reg("cx"), Imm(3))
  /\ IsInsn(6, "movs") /\ Rep(6)

Memcpy(n) == Assignment(Ea, Reg("di"), Library("memcpy", <<Reg("di"), Reg("si"), n>>))

TryMemcpy ==
  /\ At({"mov"}) /\ IsMemcpy
  /\ Emit(<<Memcpy(Reg("cx"))>>, 6)
  /\ Disregards(Labelled(6) \cup Clobbers(6, {"ax", "cx", "si", "di"})
                \cup If("movs", Ahead[3].insn.dtype # "dword" \/ Ahead[6].insn.dtype # "byte"))
  /\ NoFlags

(* The movs that follows the repeated one and is counted in. *)
Counted(k) == k <= Len(Ahead) /\ IsInsn(k, "movs") /\ Ahead[k].insn.dtype \in {"byte", "word"}

SumBytes(k, last) == FoldLeft(LAMBDA n, e : n + Bytes[e.insn.dtype], 0, SubSeq(Ahead, k, last))

IsMemcpy4(first) ==
  /\ GetInstructions(5)
  /\ Op(first, 1) = Reg("cx") /\ IsImm(Op(first, 2))
  /\ IsInsn(first + 1, "movs") /\ Rep(first + 1)

Memcpy4(first) ==
  LET more == IF ~Counted(first + 2) THEN 0 ELSE IF ~Counted(first + 3) THEN 1 ELSE 2
      used == first + 1 + more
      tail == SumBytes(first + 2, used)
  IN  /\ Emit(<<Memcpy(<<"imm", 4 * Op(first, 2)[2] + tail>>)>>, used)
      /\ Disregards(Labelled(used) \cup Clobbers(used, {"cx", "si", "di"})
           \cup If("movs", \/ ~IsInsn(first, "mov") \/ Ahead[first + 1].insn.dtype # "dword"
                           \/ \E k \in first + 2 .. used : Rep(k)))

TryMemcpy4 ==
  /\ At({"mov"}) /\ ~IsMemcpy /\ IsMemcpy4(1)
  /\ Memcpy4(1) /\ NoFlags

Halves(r) == IF r \in DOMAIN HighByte
             THEN CHOOSE l \in DOMAIN LowByte : LowByte[l] = HighByte[r] ELSE r

(* The value field of an operand that is not an immediate is zero too. *)
TryHighByteAssign(i) ==
  /\ i.itype = "mov" /\ IsReg(i.ops[1]) /\ i.ops[1][2] \in DOMAIN HighByte
  /\ i.ops[2] = Imm(0) \/ ~IsImm(i.ops[2])
  /\ LET r == i.ops[1][2] IN Emit(<<Assignment(Ea, Reg(HighByte[r]), Reg(Halves(r)))>>, 1)
  /\ Disregards(If("high byte", ~IsImm(i.ops[2])))

TryLowByteAssign1(i) ==
  /\ i.itype = "mov" /\ IsReg(i.ops[1]) /\ i.ops[1][2] \in DOMAIN LowByte
  /\ LET r == Reg(LowByte[i.ops[1][2]]) IN
     Emit(<<Assignment(Ea, r, Binary(Binary(r, "&", Imm(Size - Half)), "|", FromOperand(i, 2)))>>, 1)
  /\ UNCHANGED careless

OnMov ==
  LET HighZero == This.ops[2] = Imm(0) \/ ~IsImm(This.ops[2])
      Named(S) == This.itype = "mov" /\ IsReg(This.ops[1]) /\ This.ops[1][2] \in DOMAIN S IN
  /\ At({"mov", "les", "lea", "movsx", "movzx"})
  /\ This.itype = "mov" => ~IsMemcpy /\ ~IsMemcpy4(1)
  /\ \/ TryHighByteAssign(This)
     \/ TryLowByteAssign1(This)
     \/ /\ ~(Named(HighByte) /\ HighZero) /\ ~Named(LowByte)
        /\ Replace(Assignment(Ea, FromOperand(This, 1), FromOperand(This, 2)))
        /\ UNCHANGED careless
  /\ NoFlags

-----------------------------------------------------------------------------
(***************************************************************************)
(* Idioms of arithmetic.                                                   *)
(***************************************************************************)
IsNegSbb ==
  /\ IsReg(This.ops[1]) /\ GetInstructions(3)
  /\ IsInsn(2, "sbb") /\ Ops(2, This.ops[1], This.ops[1])

TryNegSbb ==
  LET r == This.ops[1]
      masked == IsInsn(3, "and") /\ (Op(3, 1) = r \/ IsByteOf(Op(3, 1), r[2])) IN
  /\ IF masked
     THEN /\ Emit(<<Assignment(Ea, r, Ternary(r, FromOperand(Ahead[3].insn, 2), Imm(0)))>>, 3)
          /\ Disregards(Labelled(3) \cup If("byte", Op(3, 1) # r)
               \cup If("operand", OperandRegisters(r) \cap OperandRegisters(Op(3, 2)) # {}))
     ELSE /\ Emit(<<Assignment(Ea, r, Ternary(r, Imm(-1), Imm(0)))>>, 2)
          /\ Disregards(Labelled(2))
  /\ NoFlags

OnNeg ==
  /\ At({"neg"})
  /\ IF IsNegSbb THEN TryNegSbb
     ELSE /\ Replace(Assignment(Ea, FromOperand(This, 1), Unary("-", FromOperand(This, 1))))
          /\ FlagsFrom(This, item) /\ UNCHANGED careless

(* The fourth is taken for the label the jump goes to, and erased.         *)
IsAbsMacro ==
  LET r == This.ops[1] IN
  /\ GetInstructions(4)
  /\ IsInsn(2, "jge") /\ IsInsn(3, "neg")
  /\ IsReg(r) /\ This.ops[2] = r /\ Op(3, 1) = r

ReferencesTo(l) == {a \in DOMAIN Code : IsCode(a) /\ l \in Targets(Insn(a))}

TryAbsMacro ==
  LET r == This.ops[1]  fourth == list[item + 3] IN
  /\ At({"or"}) /\ IsAbsMacro
  /\ Emit(<<Assignment(Ea, r, Library("abs", <<r>>))>>, 4)
  /\ Disregards(If("label",
       \/ fourth.type # "LABEL"
       \/ fourth.type = "LABEL" /\ (Op(2, 1) # Near(fourth.name) \/ Cardinality(ReferencesTo(fourth.name)) > 1)))
  /\ NoFlags

OnOr ==
  LET a == This.ops[1]  b == This.ops[2] IN
  /\ At({"or"}) /\ ~IsAbsMacro
  /\ IF a[1] \in {"mem", "displ"} /\ b = Imm(-1)
     THEN Replace(Assignment(Ea, FromOperand(This, 1), Imm(-1)))
     ELSE Replace(AssignFromBinaryExpression(This, Ea, "|", FromOperand(This, 2)))
  /\ FlagsFrom(This, item) /\ UNCHANGED careless

IsXorCmpSet ==
  LET r == This.ops[1] IN
  /\ GetInstructions(3)
  /\ r \in {Reg("ax"), Reg("bx"), Reg("cx"), Reg("dx")}
  /\ IsInsn(2, "cmp") /\ (IsInsn(3, "setz") \/ IsInsn(3, "setnz"))
  /\ IsByteOf(Op(3, 1), r[2])

Relation == [jz |-> "==", jnz |-> "!=", jl |-> "<", jge |-> ">=", jle |-> "<=", jg |-> ">",
             jb |-> "<", jnb |-> ">=", jbe |-> "<=", ja |-> ">", js |-> "<", jns |-> ">=",
             setz |-> "==", setnz |-> "!=", setnb |-> ">="]

TryXorCmpSet ==
  LET a == This.ops[1] IN
  /\ Emit(<<Assignment(Ea, a, CreateCondition(Ahead[2].insn, Relation[Ahead[3].insn.itype]))>>, 3)
  /\ Disregards(Labelled(3) \cup If("operand", Whole(a[2]) \in Mentions(Ahead[2].insn)))

OnXor ==
  LET a == This.ops[1]  b == This.ops[2] IN
  /\ At({"xor"})
  /\ IF Equals(a, b) /\ IsXorCmpSet
     THEN TryXorCmpSet /\ FlagsFrom(This, mFlagUpdateItem)
     ELSE /\ IF Equals(a, b) THEN Replace(Assignment(Ea, FromOperand(This, 1), Imm(0)))
             ELSE Replace(AssignFromBinaryExpression(This, Ea, "xor", FromOperand(This, 2)))
          /\ FlagsFrom(This, item) /\ UNCHANGED careless

IsAbsAX ==
  /\ GetInstructions(3)
  /\ IsInsn(2, "xor") /\ Ops(2, Reg("ax"), Reg("dx"))
  /\ IsInsn(3, "sub") /\ Ops(3, Reg("ax"), Reg("dx"))

TryAbsAX ==
  /\ Emit(<<Assignment(Ea, Reg("dx"), SignOfAx),
            Assignment(Ea, Reg("ax"), Library("abs", <<Reg("ax")>>))>>, 3)
  /\ Disregards(Labelled(3))

OnCwd ==
  /\ At({"cwd"})
  /\ IF IsAbsAX THEN TryAbsAX
     ELSE Replace(Assignment(Ea, Reg("dx"), SignOfAx)) /\ UNCHANGED careless
  /\ NoFlags

(* The division that follows is left to OnDiv. *)
OnCdq ==
  /\ At({"cdq"})
  /\ IF GetInstructions(2) /\ IsInsn(2, "idiv")
     THEN Emit(<<>>, 1) /\ Disregards(Labelled(2)) /\ NoFlags
     ELSE Stays

-----------------------------------------------------------------------------
(***************************************************************************)
(* Flags.                                                                  *)
(***************************************************************************)
FlagIs(types) == mFlagUpdate.itype \in types

SameOperands == Equals(mFlagUpdate.ops[1], mFlagUpdate.ops[2])

(* Slip: after a subtraction every condition is taken for one on the result. *)
JumpConditionAny(i) ==
  IF FlagIs({"dec", "add", "sub"}) THEN Binary(FromOperand(mFlagUpdate, 1), Relation[i.itype], Imm(0))
  ELSE IF FlagIs({"cmp"}) THEN CreateCondition(mFlagUpdate, Relation[i.itype]) ELSE Void

(* The condition the code finds for a jump, or Void. *)
JumpCondition(i) ==
  LET op == Relation[i.itype]
      Zero(e) == Binary(e, op, Imm(0))
      first == FromOperand(mFlagUpdate, 1) IN
  IF FlagIs({"dec", "add", "sub"})
  THEN IF i.itype \in {"jz", "jnz", "js", "jns"} THEN Zero(first) ELSE Void
  ELSE IF FlagIs({"cmp"}) THEN CreateCondition(mFlagUpdate, op)
  ELSE IF FlagIs({"or"})
  THEN IF i.itype \in {"jz", "jnz", "jge", "jl", "jle", "jg"} /\ SameOperands THEN Zero(first) ELSE Void
  ELSE IF FlagIs({"test"})
  THEN IF SameOperands THEN Zero(first) ELSE Zero(Binary(first, "&", FromOperand(mFlagUpdate, 2)))
  ELSE Void

OnConditionalJump ==
  LET e == JumpCondition(This) IN
  /\ At(Jumps)
  /\ IF e = Void THEN Stays
     ELSE /\ list' = LET put == [k \in 1 .. Len(list) + 1 |->
                                   IF k < item THEN list[k]
                                   ELSE IF k = item THEN ConditionalJump(Ea, e, This.ops[1])
                                   ELSE IF k = item + 1 THEN Marked(Here) ELSE list[k - 1]]
                     IN  IF FlagIs({"or"}) THEN [put EXCEPT ![mFlagUpdateItem] = Marked(@)] ELSE put
          /\ item' = item + 2
          /\ Disregards(Stale(Ea) \cup SignLost(This))
          /\ NoFlags /\ Walking

OnSet ==
  /\ At(Sets)
  /\ IF ~FlagIs({"cmp"}) THEN Stays
     ELSE /\ Replace(Assignment(Ea, FromOperand(This, 1), CreateCondition(mFlagUpdate, Relation[This.itype])))
          /\ Disregards(Stale(Ea) \cup SignLost(This))
          /\ NoFlags

-----------------------------------------------------------------------------
(***************************************************************************)
(* Pushes and strings.                                                     *)
(***************************************************************************)
IsProlog ==
  /\ GetInstructions(5)
  /\ This.ops[1] = Reg("bp")
  /\ IsInsn(2, "mov") /\ Ops(2, Reg("bp"), Reg("sp"))

(* prologue_size: a push of a stack variable is passed over without being  *)
(* counted, but what is erased is counted from the front.                  *)
PrologueSize ==
  LET base == IF IsInsn(3, "sub") /\ Op(3, 1) = Reg("sp") /\ IsImm(Op(3, 2)) THEN 3 ELSE 2
      Pushed(k) == IsInsn(k, "push") /\ ~IsImm(Op(k, 1))
      saved == {k \in base + 1 .. 5 : /\ \A m \in base + 1 .. k : Pushed(m)
                                      /\ Op(k, 1)[1] # "stkvar"}
  IN  base + Cardinality(saved)

TryProlog ==
  /\ At({"push"}) /\ IsProlog
  /\ Emit(<<>>, PrologueSize)
  /\ Disregards(Labelled(PrologueSize)
       \cup If("prolog", \E k \in 3 .. PrologueSize : IsInsn(k, "push") /\ Op(k, 1) \notin {Reg("si"), Reg("di")}))
  /\ NoFlags

IsPushPop == GetInstructions(2) /\ IsInsn(2, "pop") /\ IsReg(Op(2, 1))

TryPushPop ==
  /\ At({"push"}) /\ ~IsProlog /\ IsPushPop
  /\ Emit(IF Op(2, 1)[2] \in Nameless THEN <<>>
          ELSE <<Assignment(Ea, Op(2, 1), FromOperand(This, 1))>>, 2)
  /\ Disregards(Labelled(2)) /\ NoFlags

OnLowLevelPush ==
  /\ At({"push"}) /\ ~IsProlog /\ ~IsPushPop
  /\ IF This.ops[1] = Reg("cs") THEN Emit(<<>>, 1) ELSE Replace(Push(Ea, FromOperand(This, 1)))
  /\ NoFlags /\ UNCHANGED careless

(* Slip: the last two instructions are looked for the other way round. *)
IsStrlenSwapped == GetInstructions(6) /\ IsInsn(3, "scas") /\ IsInsn(5, "dec") /\ IsInsn(6, "not")

IsStrlen ==
  /\ GetInstructions(6)
  /\ IsInsn(2, "mov") /\ Ops(2, Reg("cx"), Imm(-1))
  /\ IsInsn(3, "scas")
  /\ IsInsn(4, "mov") /\ Ops(4, Reg("ax"), Reg("cx"))
  /\ IsInsn(5, "not") /\ Op(5, 1) = Reg("ax")
  /\ IsInsn(6, "dec") /\ Op(6, 1) = Reg("ax")

(* ax was set to zero, and nothing has used it since. *)
AlIsZero(a) ==
  \E b \in 1 .. a - 1 :
    /\ IsCode(b) /\ Insn(b).itype = "xor" /\ Insn(b).ops = <<Reg("ax"), Reg("ax")>>
    /\ Straight(b, a)
    /\ \A c \in b + 1 .. a - 1 : IsCode(c) => "ax" \notin Mentions(Insn(c))

TryStrlen ==
  /\ Emit(<<Assignment(Ea, Reg("ax"), Library("strlen", <<Reg("di")>>))>>, 6)
  /\ Disregards(Labelled(6) \cup Clobbers(6, {"cx", "di"}) \cup If("al", ~AlIsZero(Ea)))

IsStrcmp ==
  /\ GetInstructions(4)
  /\ \/ IsInsn(2, "xor") /\ Ops(2, Reg("ax"), Reg("ax"))
     \/ IsInsn(2, "test") /\ Ops(2, Reg("al"), Imm(0))
  /\ IsInsn(3, "cmps") /\ Rep(3) /\ Ahead[3].insn.dtype = "byte"
  /\ IsInsn(4, "jz")

Compare == Library("strncmp", <<Reg("di"), Reg("si"), Reg("cx")>>)

(* The fifth and sixth of the four instructions asked for are read: what   *)
(* is found there is not defined.                                          *)
TryStrcmpWithLiteral ==
  /\ \/ /\ Emit(<<Assignment(Ea, Reg("ax"), Compare)>>, 6)
        /\ Disregards({"outside"})
     \/ /\ Emit(<<ConditionalJump(Ea, Binary(Compare, "==", Imm(0)), Op(4, 1))>>, 4)
        /\ Disregards(Labelled(4) \cup Clobbers(4, {"cx", "si", "di"})
                      \cup (IF IsInsn(2, "xor") THEN Clobbers(4, {"ax"}) ELSE {}))
  /\ NoFlags

OnCld ==
  /\ At({"cld"})
  /\ IF IsStrlen THEN TryStrlen /\ NoFlags
     ELSE IF IsMemcpy4(2) THEN Memcpy4(2) /\ NoFlags
     ELSE IF IsStrcmp THEN TryStrcmpWithLiteral
     ELSE Stays

-----------------------------------------------------------------------------
(***************************************************************************)
(* Calls.  The callee is [name, arity, void, cdecl, typed, params]: what   *)
(* it takes, and the parameters a D:FuncArgs comment or its frame gives.   *)
(***************************************************************************)
OnCall ==
  LET f == This.callee
      IsNext(k, itype) == k <= Len(list) /\ list[k].type = "LOW_LEVEL" /\ list[k].insn.itype = itype
      next  == list[item + 1].insn
      pop   == IsNext(item + 1, "pop") /\ IsReg(next.ops[1]) /\ next.ops[1] # Reg("bp")
      again == pop /\ IsNext(item + 2, "pop") /\ list[item + 2].insn.ops[1] = next.ops[1]
      add   == /\ IsNext(item + 1, "add") /\ next.ops[1] = Reg("sp") /\ IsImm(next.ops[2])
               /\ next.dtype \in {"word", "dword"} /\ next.ops[2][2] <= Large
      used  == IF ~f.cdecl THEN 0 ELSE IF again THEN 2 ELSE IF pop \/ add THEN 1 ELSE 0
      count == IF ~f.cdecl THEN f.params ELSE IF pop THEN used
               ELSE IF add THEN next.ops[2][2] \div Bytes[next.dtype] ELSE 0 IN
  /\ At({"call"})
  /\ IF ~f.typed THEN Stays
     ELSE /\ Emit(<<Assignment(Ea, IF f.void THEN Void ELSE Reg("ax"), <<"call", f, count>>)>>, 1 + used)
          /\ Disregards(If("arity", count # f.arity)
                        \cup (IF f.cdecl /\ pop THEN Clobbers(1 + used, {next.ops[1][2]}) ELSE {}))
          /\ NoFlags

-----------------------------------------------------------------------------
(***************************************************************************)
(* Switches.  A jump through a table has info = [header, ncases, xrefs,    *)
(* table, default]: how many lines in front of the jump belong to it, how  *)
(* many cases it has, the labels it refers to in the order the references  *)
(* are listed in, and which of them is for which value.                    *)
(***************************************************************************)
(* ExtractCases: the comment the disassembler puts on the label. *)
ExtractCases(info, l) ==
  IF l = info.default THEN {-1} ELSE {v \in DOMAIN info.table : info.table[v] = l}

LabelPosition(l) == {k \in item .. Len(list) : list[k].type = "LABEL" /\ list[k].name = l}

(* The labels one walk onward finds, looking for one after the other.      *)
FoundCases(info) ==
  LET last == IF info.ncases < Len(info.xrefs) THEN info.ncases ELSE Len(info.xrefs)
      Of(j) == LabelPosition(info.xrefs[j])
      InOrder(n) == /\ \A j \in 1 .. n : Of(j) # {}
                    /\ \A j \in 1 .. n - 1 : \A k \in Of(j), m \in Of(j + 1) : k < m
      found == CHOOSE n \in 0 .. last : InOrder(n) /\ (n = last \/ ~InOrder(n + 1))
  IN  UNION {Of(j) : j \in 1 .. found}

(* The header is a test for a value beyond the table, and what computes    *)
(* the address of its entry in bx.                                         *)
PlainHeader(info) ==
  LET start == Ea - info.header IN
  /\ info.header >= 2
  /\ Insn(start).itype = "cmp" /\ Insn(start).ops = <<Reg("ax"), Imm(Cardinality(DOMAIN info.table) - 1)>>
  /\ Insn(start + 1).itype = "ja" /\ Insn(start + 1).ops[1] = Near(info.default)
  /\ \A a \in start .. Ea - 1 : IsCode(a)
  /\ \A a \in start + 2 .. Ea - 1 : Insn(a).itype \in Moves \cup Arithmetic /\ Writes(Insn(a)) = {"bx"}

OnSwitchInfo ==
  LET info  == This.info
      start == Ea - info.header
      Kept  == {k \in 1 .. item : list[k].ea < start}
      cases == FoundCases(info)
      Put(k) == (IF k = item THEN <<Switch(Ea, Reg("ax"))>> ELSE <<>>)
                \o (IF k \in cases
                    THEN <<Case(list[k].ea, ExtractCases(info, list[k].name)), Marked(list[k])>>
                    ELSE IF k <= item /\ k \notin Kept THEN <<Marked(list[k])>> ELSE <<list[k]>>)
  IN
  /\ At({"jmpni"}) /\ IsSwitch(This)
  /\ IF Kept = {} THEN phase' = "undefined" /\ UNCHANGED <<list, item, careless>>
     ELSE /\ list' = FlattenSeq([k \in DOMAIN list |-> Put(k)])
          /\ item' = item + 2
          /\ careless' = {c \in careless : c[1] < start} \cup
               {<<Ea, r>> : r \in
                  If("cases", \/ ~PlainHeader(info)
                              \/ Cardinality(cases) < Cardinality({info.default} \cup {info.table[v] : v \in DOMAIN info.table}))
                  \cup If("label", \E k \in 1 .. item : k \notin Kept /\ list[k].type = "LABEL")
                  \cup Clobbers(1, {"bx"})}
          /\ UNCHANGED phase
  /\ UNCHANGED <<program, al>> /\ NoFlags

-----------------------------------------------------------------------------
Next ==
  \/ Skip \/ Finish \/ OnSwitchInfo
  \/ OnArithmetic \/ OnIncDec \/ OnNot \/ OnShift \/ OnAnd \/ OnOr \/ TryAbsMacro \/ OnXor
  \/ OnNeg \/ OnCmpTest \/ OnErased \/ OnJmp \/ OnPop \/ OnReturn \/ OnCbw \/ OnCwd \/ OnCdq
  \/ OnXchg \/ OnDiv \/ OnMul \/ OnUnhandled \/ TryMemcpy \/ TryMemcpy4 \/ OnMov
  \/ OnConditionalJump \/ OnSet \/ TryProlog \/ TryPushPop \/ OnLowLevelPush \/ OnCld \/ OnCall

Spec == Init /\ [][Next]_vars

-----------------------------------------------------------------------------
(***************************************************************************)
(* Both programs run.                                                      *)
(***************************************************************************)
Fuel == 200

Goto(l, c, target) ==
  LET at == {k \in DOMAIN l : l[k].type = "LABEL" /\ target = Near(l[k].name)} IN
  IF at = {} THEN [c EXCEPT !.exit = <<"out", target>>]
  ELSE [c EXCEPT !.pc = CHOOSE k \in at : TRUE]

Selected(l, c, v) ==
  LET Of(x) == {k \in DOMAIN l : l[k].type = "CASE" /\ x \in l[k].cases} IN
  IF Of(v) # {} THEN [c EXCEPT !.pc = CHOOSE k \in Of(v) : TRUE]
  ELSE IF Of(-1) # {} THEN [c EXCEPT !.pc = CHOOSE k \in Of(-1) : TRUE]
  ELSE [c EXCEPT !.exit = <<"wild">>]

Machine(l, c, i) ==
  LET ax == c.s.reg["ax"]  next == [c EXCEPT !.pc = @ + 1] IN
  IF i.itype \in {"retn", "retf"}
  THEN [c EXCEPT !.exit = <<"return", IF program.void THEN 0 ELSE ax>>]
  ELSE IF IsSwitch(i)
  THEN IF ax \in DOMAIN i.info.table THEN Goto(l, c, Near(i.info.table[ax])) ELSE [c EXCEPT !.exit = <<"wild">>]
  ELSE IF i.itype \in {"jmp", "jmpni"} THEN Goto(l, c, i.ops[1])
  ELSE IF i.itype \in Jumps THEN IF Holds(i.itype, c.s.flags) THEN Goto(l, c, i.ops[1]) ELSE next
  ELSE [next EXCEPT !.s = Execute(c.s, i)]

Step(l, c) ==
  LET e == l[c.pc]  next == [c EXCEPT !.pc = @ + 1] IN
  CASE e.type \in {"LABEL", "CASE", "TO_BE_DELETED"} -> next
    [] e.type = "LOW_LEVEL"        -> Machine(l, c, e.insn)
    [] e.type = "ASSIGNMENT"       -> [next EXCEPT !.s = Assigned(c.s, e.to, e.from)]
    [] e.type = "PUSH"             -> [next EXCEPT !.s.stack = Append(@, Value(c.s, e.operand))]
    [] e.type = "POP"              -> [next EXCEPT !.s = Execute(c.s, [itype |-> "pop", ops |-> <<e.operand, Void>>])]
    [] e.type = "RETURN"           -> [c EXCEPT !.exit = <<"return", Value(c.s, e.operand)>>]
    [] e.type = "JUMP"             -> Goto(l, c, e.target)
    [] e.type = "SWITCH"           -> Selected(l, c, Value(c.s, e.operand))
    [] e.type = "CONDITIONAL_JUMP" -> IF Value(c.s, e.cond) # 0 THEN Goto(l, c, e.target) ELSE next

RECURSIVE Run(_, _)
Run(l, c) ==
  IF c.exit # <<>> THEN c
  ELSE IF c.pc > Len(l) THEN [c EXCEPT !.exit = <<"end">>]
  ELSE IF c.fuel = 0 THEN [c EXCEPT !.exit = <<"forever">>]
  ELSE Run(l, [Step(l, c) EXCEPT !.fuel = @ - 1])

(* What can be seen of a run: how it ends, the calls and copies it makes,  *)
(* and the memory it leaves.                                               *)
Outcome(l, start) ==
  LET c == Run(l, [s |-> Start(start), pc |-> 1, exit |-> <<>>, fuel |-> Fuel]) IN
  IF c.exit[1] = "forever" THEN c.exit ELSE <<c.exit, c.s.trace, c.s.mem>>

-----------------------------------------------------------------------------
Types == {"LOW_LEVEL", "LABEL", "ASSIGNMENT", "CONDITIONAL_JUMP", "JUMP", "PUSH", "POP",
          "RETURN", "SWITCH", "CASE", "TO_BE_DELETED"}

(* Addresses never go down along the list, which the backward walk of      *)
(* OnSwitchInfo relies on; in front of the iterator only what no handler   *)
(* was for is a machine instruction; the flags come from a place in the    *)
(* list that the walk has been at.                                         *)
TypeOK ==
  /\ phase \in {"walk", "done", "undefined"}
  /\ item \in 1 .. Len(list) + 1
  /\ mFlagUpdateItem \in 0 .. item - 1
  /\ \A k \in DOMAIN list : list[k].type \in Types /\ list[k].ea \in DOMAIN Code
  /\ \A k \in 1 .. Len(list) - 1 : list[k].ea <= list[k + 1].ea

Complete == phase = "done" /\ \A k \in DOMAIN list : list[k].type # "LOW_LEVEL"

(* Definition-use chains name an instruction by its address               *)
(* (src/dataflow.cpp, 423).  When the walk is over no two instructions that *)
(* compute something have one address, the two assignments that stand for a *)
(* division or for abs excepted: OnDiv, TryAbsAX.                           *)
AddressesTellApart ==
  phase = "done" =>
    \A j, k \in DOMAIN list :
      /\ j < k /\ list[j].ea = list[k].ea
      /\ {list[j].type, list[k].type} \cap {"LABEL", "CASE", "TO_BE_DELETED"} = {}
      => /\ list[j].type = "ASSIGNMENT" /\ list[j].to = Reg("dx")
         /\ list[k].type = "ASSIGNMENT" /\ list[k].to = Reg("ax")

(* If the handlers disregarded nothing and left no machine instruction,    *)
(* the abstract program does from every start what the machine does: it    *)
(* makes the same calls and copies, leaves the same memory and ends the    *)
(* same way (AnalyzeFunction).                                             *)
CarefulMeansSameProgram ==
  Complete /\ careless = {} =>
    \A s \in program.starts : Outcome(list, s) = Outcome(Lines(Code), s)

(* An idiom written as the comment in its handler writes it, with nothing  *)
(* in its way, is converted as a whole, and nothing is disregarded: the    *)
(* handlers accept what they are for.                                      *)
IdiomsConvert ==
  phase = "done" /\ al \in program.idiom => Complete /\ careless = {}
=============================================================================
