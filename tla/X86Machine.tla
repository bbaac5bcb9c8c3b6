------------------------------ MODULE X86Machine ------------------------------
(***************************************************************************)
(* What the machine instructions the x86 front end reads do, and what the  *)
(* abstract instructions it writes do.  Neither is code of the repository: *)
(* this is the yardstick for module X86, where both programs are run from  *)
(* the same start and have to come to the same end.                        *)
(*                                                                         *)
(* The mode is 16 bits.  A word has two bytes and a byte two bits here, so *)
(* that a run has sixteen values, with a sign, a carry and a high and a    *)
(* low half.  Calls and copies are kept in a trace.  The frame is not      *)
(* modelled: sp and bp have no value, and the stack holds what PUSH put on *)
(* it and nothing else.                                                    *)
(***************************************************************************)
EXTENDS Integers, SequencesExt, Bitwise

Half == 4             \* values of a byte
Size == Half * Half   \* values of a word
Word == 0 .. Size - 1

(* Operands of instructions and leaves of expressions.                     *)
Reg(r)      == <<"reg", r>>
Imm(v)      == <<"imm", v % Size>>
Mem(a)      == <<"mem", a>>
Phrase(p)   == <<"phrase", p>>
Displ(p, d) == <<"displ", p, d>>
StkVar(v)   == <<"stkvar", v>>
Near(l)     == <<"near", l>>     \* the label named l
Void        == <<"void">>

Words == {"ax", "cx", "dx", "bx", "sp", "bp", "si", "di"}
LowByte  == [al |-> "ax", cl |-> "cx", dl |-> "dx", bl |-> "bx"]
HighByte == [ah |-> "ax", ch |-> "cx", dh |-> "dx", bh |-> "bx"]
Nameless == {"cs", "es", "none"}    \* read as zero, and not kept

Whole(r) == IF r \in DOMAIN LowByte THEN LowByte[r]
            ELSE IF r \in DOMAIN HighByte THEN HighByte[r] ELSE r

IsByte(o) == o[1] = "reg" /\ Whole(o[2]) # o[2]

Width(o) == IF IsByte(o) THEN Half ELSE Size

Signed(v, w) == IF 2 * v >= w THEN v - w ELSE v

(* The registers of an address, by the number the processor codes them by. *)
PhraseRegisters(p) ==
  <<<<"bx", "si">>, <<"bx", "di">>, <<"bp", "si">>, <<"bp", "di">>,
    <<"si">>, <<"di">>, <<"bp">>, <<"bx">>>>[p + 1]

-----------------------------------------------------------------------------
(* State: registers and a stack variable, memory, stack, flags, trace.     *)
Start(regs) ==
  [reg   |-> [r \in Words \cup {"var"} |-> IF r \in DOMAIN regs THEN regs[r] ELSE 0],
   mem   |-> [a \in Word |-> (5 * a + 3) % Size],
   stack |-> <<>>,
   flags |-> [zf |-> FALSE, sf |-> FALSE, lt |-> FALSE, cf |-> FALSE],
   trace |-> <<>>]

(* The address in a memory operand, or -1. *)
Address(s, o) ==
  LET rs == PhraseRegisters(o[2])
      base == s.reg[rs[1]] + (IF Len(rs) = 2 THEN s.reg[rs[2]] ELSE 0) IN
  CASE o[1] = "mem"    -> o[2]
    [] o[1] = "phrase" -> base % Size
    [] o[1] = "displ"  -> (base + o[3]) % Size
    [] OTHER           -> -1

Read(s, o) ==
  CASE o[1] = "imm"    -> o[2]
    [] o[1] = "stkvar" -> s.reg["var"]
    [] o[1] = "reg"    -> IF o[2] \in DOMAIN LowByte THEN s.reg[LowByte[o[2]]] % Half
                          ELSE IF o[2] \in DOMAIN HighByte THEN s.reg[HighByte[o[2]]] \div Half
                          ELSE IF o[2] \in Nameless THEN 0 ELSE s.reg[o[2]]
    [] o[1] = "void"   -> 0
    [] o[1] = "near"   -> 0
    [] OTHER           -> s.mem[Address(s, o)]

Write(s, o, v) ==
  CASE o[1] = "stkvar" -> [s EXCEPT !.reg["var"] = v % Size]
    [] o[1] = "reg"    ->
         IF o[2] \in DOMAIN LowByte
         THEN [s EXCEPT !.reg[LowByte[o[2]]] = (@ \div Half) * Half + (v % Half)]
         ELSE IF o[2] \in DOMAIN HighByte
         THEN [s EXCEPT !.reg[HighByte[o[2]]] = ((v % Half) * Half) + (@ % Half)]
         ELSE IF o[2] \in Nameless \cup {"sp", "bp"} THEN s
         ELSE [s EXCEPT !.reg[o[2]] = v % Size]
    [] o[1] = "void"   -> s
    [] OTHER           -> [s EXCEPT !.mem[Address(s, o)] = v % Size]

(* Division truncates; by zero it gives zero, here and there.              *)
Quot(x, y) ==
  IF y = 0 THEN 0
  ELSE LET q == (IF x < 0 THEN -x ELSE x) \div (IF y < 0 THEN -y ELSE y) IN
       IF (x < 0) = (y < 0) THEN q ELSE -q

Rem(x, y) == IF y = 0 THEN 0 ELSE x - y * Quot(x, y)

(* Functions of the C library and of the program, of which only the        *)
(* arguments matter.                                                       *)
Strlen(d)         == (d + 1) % 3
Strncmp(d, s, n)  == ((d + 2 * s + n) % 3) - 1
Result(args)      == FoldLeft(LAMBDA n, v : n + v, 3, args) % Size

(* n bytes are copied from s to d.  Two copies of which the second goes on *)
(* where the first stopped are one.                                        *)
Copied(s, d, from, n) ==
  LET t == s.trace  last == t[Len(t)] IN
  IF n = 0 THEN s
  ELSE IF /\ t # <<>> /\ last[1] = "copy"
          /\ d = (last[2] + last[4]) % Size /\ from = (last[3] + last[4]) % Size
  THEN [s EXCEPT !.trace[Len(t)] = <<"copy", last[2], last[3], last[4] + n>>]
  ELSE [s EXCEPT !.trace = Append(@, <<"copy", d, from, n>>)]

Top(s, n) == SubSeq(s.stack, Len(s.stack) - n + 1, Len(s.stack))

Drop(s, n) ==
  [s EXCEPT !.stack = IF Len(@) <= n THEN <<>> ELSE SubSeq(@, 1, Len(@) - n)]

(* f = [name, arity, void, ...] is called with the n topmost parameters,   *)
(* and leaves them.                                                        *)
Called(s, f, n) ==
  LET args == Top(s, IF n <= Len(s.stack) THEN n ELSE Len(s.stack))
      t    == [s EXCEPT !.trace = Append(@, <<"call", f.name, args, s.mem>>)]
  IN  IF f.void THEN t ELSE [t EXCEPT !.reg["ax"] = Result(args)]

-----------------------------------------------------------------------------
(***************************************************************************)
(* Machine instructions.                                                   *)
(***************************************************************************)
(* Of x and y, the values of the operands, or the addresses for lea.       *)
Computed(s, i, x, y) ==
  CASE i.itype \in {"mov", "movzx", "les", "lea"} -> y
    [] i.itype = "movsx"            -> Signed(y, Width(i.ops[2]))
    [] i.itype = "add"              -> x + y
    [] i.itype \in {"sub", "cmp"}   -> x - y
    [] i.itype = "sbb"              -> x - y - (IF s.flags.cf THEN 1 ELSE 0)
    [] i.itype = "inc"              -> x + 1
    [] i.itype = "dec"              -> x - 1
    [] i.itype = "neg"              -> -x
    [] i.itype = "not"              -> -1 - x
    [] i.itype \in {"and", "test"}  -> x & y
    [] i.itype = "or"               -> x | y
    [] i.itype = "xor"              -> x ^^ y
    [] i.itype = "shl"              -> x * 2^y
    [] i.itype = "shr"              -> x \div 2^y
    [] i.itype = "sar"              -> Signed(x, Width(i.ops[1])) \div 2^y
    [] OTHER                        -> 0

(* r is the result, cut to the width w of the first operand.               *)
Flags(s, i, x, y, r, w) ==
  LET sx == Signed(x, w)  sy == Signed(y, w)
      sum == CASE i.itype = "add"             -> sx + sy
               [] i.itype \in {"sub", "cmp"}  -> sx - sy
               [] i.itype = "inc"             -> sx + 1
               [] i.itype = "dec"             -> sx - 1
               [] i.itype = "neg"             -> -sx
               [] OTHER                       -> Signed(r, w)
  IN  [zf |-> r = 0, sf |-> 2 * r >= w, lt |-> sum < 0,
       cf |-> CASE i.itype = "add"               -> x + y >= w
                [] i.itype \in {"sub", "cmp"}    -> x < y
                [] i.itype \in {"inc", "dec"}    -> s.flags.cf
                [] i.itype = "neg"               -> x # 0
                [] OTHER                         -> FALSE]

Moves      == {"mov", "movzx", "movsx", "lea", "les", "not"}
Arithmetic == {"add", "sub", "sbb", "inc", "dec", "neg", "and", "or", "xor", "shl", "shr", "sar"}
Tests      == {"cmp", "test"}

Jumps == {"jz", "jnz", "jl", "jge", "jle", "jg", "jb", "jnb", "jbe", "ja", "js", "jns"}
Sets  == {"setz", "setnz", "setnb"}

(* A conditional jump is taken, a set sets one. *)
Holds(itype, f) ==
  CASE itype \in {"jz", "setz"}   -> f.zf     [] itype \in {"jnz", "setnz"} -> ~f.zf
    [] itype = "jl"  -> f.lt                  [] itype = "jge" -> ~f.lt
    [] itype = "jle" -> f.lt \/ f.zf          [] itype = "jg"  -> ~(f.lt \/ f.zf)
    [] itype = "jb"  -> f.cf                  [] itype \in {"jnb", "setnb"} -> ~f.cf
    [] itype = "jbe" -> f.cf \/ f.zf          [] itype = "ja"  -> ~(f.cf \/ f.zf)
    [] itype = "js"  -> f.sf                  [] itype = "jns" -> ~f.sf

Bytes == [byte |-> 1, word |-> 2, dword |-> 4]

(* movs, once or cx times. *)
Moved(s, i) ==
  LET n == Bytes[i.dtype] * (IF i.rep THEN s.reg["cx"] ELSE 1)
      t == Copied(s, s.reg["di"], s.reg["si"], n)
  IN  [t EXCEPT !.reg["di"] = (@ + n) % Size, !.reg["si"] = (@ + n) % Size,
                !.reg["cx"] = IF i.rep THEN 0 ELSE @]

(* repne scasb: past the first byte that is al. *)
Scanned(s) ==
  LET n == IF s.reg["ax"] % Half = 0 THEN Strlen(s.reg["di"]) + 1 ELSE Size - 1 IN
  [s EXCEPT !.reg["cx"] = IF @ <= n THEN 0 ELSE @ - n, !.reg["di"] = (@ + n) % Size]

(* repe cmpsb. *)
Compared(s) ==
  LET c == Strncmp(s.reg["di"], s.reg["si"], s.reg["cx"]) IN
  [s EXCEPT !.flags = [zf |-> c = 0, sf |-> c < 0, lt |-> c < 0, cf |-> c < 0],
            !.reg["cx"] = 0]

Divided(s, i, y) ==
  LET hi == s.reg["dx"]  lo == s.reg["ax"]
      n  == IF i.itype = "idiv" THEN Signed(hi, Size) * Size + lo ELSE hi * Size + lo
      d  == IF i.itype = "idiv" THEN Signed(y, Size) ELSE y
  IN  [s EXCEPT !.reg["ax"] = Quot(n, d) % Size, !.reg["dx"] = Rem(n, d) % Size]

WithFlags(s, f) == [s EXCEPT !.flags = f]

(* What an instruction writes to operands, in this order.                  *)
Written(s, i, x, y) ==
  LET a == i.ops[1]  b == i.ops[2]  r == Computed(s, i, x, y) % Width(a)  ax == Reg("ax")  dx == Reg("dx") IN
  CASE i.itype \in Moves \cup Arithmetic -> <<<<a, r>>>>
    [] i.itype \in {"mul", "imul"} -> <<<<dx, (x * y) \div Size>>, <<ax, x * y>>>>
    [] i.itype \in {"cwd", "cdq"}  -> <<<<dx, IF Signed(s.reg["ax"], Size) < 0 THEN Size - 1 ELSE 0>>>>
    [] i.itype = "cbw"    -> <<<<ax, Signed(s.reg["ax"] % Half, Half)>>>>
    [] i.itype = "xchg"   -> <<<<a, y>>, <<b, x>>>>
    [] i.itype \in Sets   -> <<<<a, IF Holds(i.itype, s.flags) THEN 1 ELSE 0>>>>
    [] i.itype = "pop"    -> <<<<a, IF s.stack = <<>> THEN 0 ELSE Last(s.stack)>>>>
    [] OTHER              -> <<<<Void, 0>>>>

Effect(s, i, x, y) ==
  CASE i.itype \in {"add", "sub"} /\ i.ops[1] = Reg("sp") ->
         IF i.itype = "add" THEN Drop(s, y \div Bytes[i.dtype]) ELSE s
    [] i.itype \in (Arithmetic \cup Tests) ->
         LET w == Width(i.ops[1]) IN WithFlags(s, Flags(s, i, x, y, Computed(s, i, x, y) % w, w))
    [] i.itype \in {"div", "idiv"} -> Divided(s, i, y)
    [] i.itype = "push" -> IF i.ops[1] = Reg("cs") THEN s ELSE [s EXCEPT !.stack = Append(@, x)]
    [] i.itype = "pop"  -> Drop(s, 1)
    [] i.itype = "call" -> LET t == Called(s, i.callee, i.callee.arity) IN
                           IF i.callee.cdecl THEN t ELSE Drop(t, i.callee.arity)
    [] i.itype = "movs" -> Moved(s, i)
    [] i.itype = "scas" -> Scanned(s)
    [] i.itype = "cmps" -> Compared(s)
    [] OTHER            -> s

Execute(s, i) ==
  LET v == [n \in 1 .. 2 |-> IF i.itype = "lea" THEN Address(s, i.ops[n]) ELSE Read(s, i.ops[n])]
      w == Written(s, i, v[1], v[2])
  IN  FoldLeft(LAMBDA t, p : Write(t, p[1], p[2]), Effect(s, i, v[1], v[2]), w)

-----------------------------------------------------------------------------
(***************************************************************************)
(* Expressions, read as C reads them: comparisons and division with sign,  *)
(* bytes and shifts without.                                               *)
(***************************************************************************)
Library(f, es)   == <<"apply", f, es>>
Unary(op, e)     == <<"apply", op, <<e>>>>
Binary(l, op, r) == <<"apply", op, <<l, r>>>>
Ternary(c, t, f) == <<"apply", "?", <<c, t, f>>>>

Is(c) == IF c THEN 1 ELSE 0

Apply1(s, op, e, x) ==
  CASE op = "&"        -> Address(s, e)
    [] op = "*"        -> s.mem[x]
    [] op = "-"        -> (-x) % Size
    [] op = "~"        -> Size - 1 - x
    [] op = "abs"      -> IF Signed(x, Size) < 0 THEN (-x) % Size ELSE x
    [] op = "strlen"   -> Strlen(x)
    [] op = "bswap_16" -> (x % Half) * Half + x \div Half

Apply2(op, x, y) ==
  LET sx == Signed(x, Size)  sy == Signed(y, Size) IN
  CASE op = "+"  -> (x + y) % Size      [] op = "-"   -> (x - y) % Size
    [] op = "*"  -> (x * y) % Size      [] op = "&"   -> x & y
    [] op = "|"  -> x | y               [] op = "xor" -> x ^^ y
    [] op = "/"  -> Quot(sx, sy) % Size [] op = "%"   -> Rem(sx, sy) % Size
    [] op = "<<" -> (x * 2^y) % Size    [] op = ">>"  -> x \div 2^y
    [] op = "==" -> Is(x = y)           [] op = "!="  -> Is(x # y)
    [] op = "<"  -> Is(sx < sy)         [] op = ">="  -> Is(sx >= sy)
    [] op = "<=" -> Is(sx <= sy)        [] op = ">"   -> Is(sx > sy)

Apply3(op, x, y, z) ==
  CASE op = "?"       -> IF x # 0 THEN y ELSE z
    [] op = "strncmp" -> Strncmp(x, y, z) % Size
    [] op = "memcpy"  -> x

Apply(s, e, v) ==
  CASE Len(v) = 1 -> Apply1(s, e[2], e[3][1], v[1])
    [] Len(v) = 2 -> Apply2(e[2], v[1], v[2])
    [] Len(v) = 3 -> Apply3(e[2], v[1], v[2], v[3])

RECURSIVE Value(_, _)
Value(s, e) ==
  IF e[1] = "apply" THEN Apply(s, e, [k \in DOMAIN e[3] |-> Value(s, e[3][k])]) ELSE Read(s, e)

(* An assignment of an expression; of a library call that copies; of a     *)
(* call of f, of which the front end knows n parameters.                   *)
Assigned(s, to, e) ==
  LET copy == e[1] = "apply" /\ e[2] = "memcpy"
      v == [k \in 1 .. 4 |-> CASE k = 1 /\ e[1] # "call" -> Value(s, e)
                              [] k > 1 /\ copy          -> Value(s, e[3][k - 1])
                              [] OTHER                  -> 0]
      t == IF e[1] = "call" THEN Drop(Called(s, e[2], e[3]), e[3])
           ELSE IF copy THEN Copied(s, v[2], v[3], v[4]) ELSE s
      x == IF e[1] = "call" THEN t.reg["ax"] ELSE v[1]
  IN  IF to[1] = "apply" THEN [t EXCEPT !.mem[Value(s, to[3][1])] = x] ELSE Write(t, to, x)
=============================================================================
