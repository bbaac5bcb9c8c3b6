--------------------------------- MODULE MCX86 ---------------------------------
(***************************************************************************)
(* Small functions for the x86 front end: the idioms its comments name, as *)
(* written there and with one line more, one less or one with a label; a   *)
(* setter of flags and a jump, with something or nothing in between; calls *)
(* with every way to clean up; operands; switches.                         *)
(***************************************************************************)
EXTENDS X86

ax == Reg("ax")  bx == Reg("bx")  cx == Reg("cx")  dx == Reg("dx")
si == Reg("si")  di == Reg("di")  bp == Reg("bp")  sp == Reg("sp")
al0 == Reg("al") ah == Reg("ah")  dl == Reg("dl")

I(t, a, b)  == [itype |-> t, ops |-> <<a, b>>, dtype |-> "word", rep |-> FALSE]
I1(t, a)    == I(t, a, Void)
I0(t)       == I(t, Void, Void)
Movs(d)     == [I0("movs") EXCEPT !.dtype = d]
RepMovs(d)  == [Movs(d) EXCEPT !.rep = TRUE]
RepCmps     == [I0("cmps") EXCEPT !.dtype = "byte", !.rep = TRUE]
RepScas     == [I0("scas") EXCEPT !.dtype = "byte", !.rep = TRUE]

Line(i)     == [name |-> "", kind |-> "code", insn |-> i]
Named(l, i) == [Line(i) EXCEPT !.name = l]
As(k, i)    == [Line(i) EXCEPT !.kind = k]
Body(is)    == [k \in DOMAIN is |-> Line(is[k])]

MCStarts ==
  {[ax |-> 0,  bx |-> 0,  cx |-> 0, dx |-> 0,  si |-> 1, di |-> 2],
   [ax |-> 3,  bx |-> 2,  cx |-> 7, dx |-> 5,  si |-> 4, di |-> 9],
   [ax |-> 1,  bx |-> 1,  cx |-> 2, dx |-> 9,  si |-> 8, di |-> 3],
   [ax |-> 9,  bx |-> 2,  cx |-> 5, dx |-> 15, si |-> 6, di |-> 6],
   [ax |-> 2,  bx |-> 14, cx |-> 9, dx |-> 2,  si |-> 0, di |-> 7],
   [ax |-> 12, bx |-> 11, cx |-> 3, dx |-> 0,  si |-> 2, di |-> 12]}

(* The function of lines w that stores o in the end. *)
Function(w, o, void, idiom) ==
  [code   |-> w \o <<Named("end", I("mov", Mem(0), o)), Line(I0("retn"))>>,
   void   |-> void, starts |-> MCStarts, idiom |-> idiom]

W(is, o, idiom) == [lines |-> Body(is), out |-> o, idiom |-> idiom]
Both == {8, 16}

Idioms ==
  {W(<<I1("neg", ax), I("sbb", ax, ax), I("and", ax, Imm(6))>>, ax, Both),
   W(<<I1("neg", ax), I("sbb", ax, ax), I("and", al0, Imm(2))>>, ax, {}),
   W(<<I1("neg", dx), I("sbb", dx, dx), I("mov", cx, dx)>>, dx, Both),
   W(<<I("mov", ax, cx), I("shr", cx, Imm(2)), RepMovs("dword"), I("mov", cx, ax), I("and", cx, Imm(3)),
       RepMovs("byte")>>, dx, Both),
   W(<<I0("cld"), I("mov", cx, Imm(1)), RepMovs("dword"), Movs("word"), Movs("byte")>>, ax, Both),
   W(<<I("mov", cx, Imm(2)), RepMovs("dword"), Movs("word"), I1("dec", bx), I1("inc", ax)>>, ax, Both),
   W(<<I("mov", cx, Imm(1)), RepMovs("word"), I1("dec", bx)>>, ax, {}),
   W(<<I1("push", bp), I("mov", bp, sp), I("sub", sp, Imm(4)), I1("push", di), I1("push", si), I1("pop", si),
       I1("pop", di)>>, bx, Both),
   W(<<I1("push", bp), I("mov", bp, sp), I1("push", StkVar(0)), I1("push", si), I1("push", ax),
       I1("pop", bx)>>, bx, {}),
   W(<<I1("push", ax), I1("pop", bx)>>, bx, Both),
   W(<<I1("push", Reg("cs")), I1("pop", Reg("es"))>>, bx, Both),
   W(<<I1("push", Reg("cs")), I1("push", Imm(3)), I1("push", ax), I1("nop", Void), I1("pop", cx), I1("pop", dx)>>, dx, Both),
   W(<<I("mov", ah, Imm(0))>>, ax, Both),
   W(<<I("mov", ah, Reg("bl"))>>, ax, {}),
   W(<<I("mov", ah, Imm(2))>>, ax, Both),
   W(<<I("mov", Reg("bl"), Imm(3)), I("mov", Reg("bh"), Imm(0))>>, bx, Both),
   W(<<I("xor", dx, dx), I("cmp", ax, bx), I1("setz", dl)>>, dx, {8}),
   W(<<I("xor", cx, cx), I("cmp", cx, ax), I1("setnz", Reg("cl"))>>, cx, {}),
   W(<<I0("cwd"), I("xor", ax, dx), I("sub", ax, dx)>>, ax, Both),
   W(<<I0("cwd"), I("idiv", ax, bx)>>, ax, Both),
   W(<<I0("cdq"), I("idiv", ax, cx)>>, dx, Both),
   W(<<I0("cdq"), I("idiv", ax, dx)>>, dx, {}),
   W(<<I0("cbw")>>, ax, {}),
   W(<<I("xor", dx, dx), I("div", ax, bx)>>, ax, {}),
   W(<<I("mul", ax, bx)>>, ax, Both),
   W(<<I("mul", ax, bx)>>, dx, {}),
   W(<<I("xor", ax, ax), I0("cld"), I("mov", cx, Imm(-1)), RepScas, I("mov", ax, cx), I1("not", ax),
       I1("dec", ax)>>, ax, Both),
   W(<<I("xchg", al0, ah)>>, ax, Both),
   W(<<I("xchg", Reg("bl"), Reg("bh"))>>, bx, {}),
   W(<<I("xchg", ax, bx)>>, bx, {})}

AbsMacro ==
  [lines |-> <<Line(I("or", ax, ax)), Line(I1("jge", Near("pos"))), Line(I1("neg", ax)),
               Named("pos", I("mov", bx, ax))>>, out |-> bx, idiom |-> Both]

AbsElsewhere ==
  [lines |-> <<Line(I("or", ax, ax)), Line(I1("jge", Near("end"))), Line(I1("neg", ax)),
               Line(I1("inc", ax))>>, out |-> ax, idiom |-> {}]

Strcmp ==
  [lines |-> <<Line(I0("cld")), Line(I("test", al0, Imm(0))), Line(RepCmps), Line(I1("jz", Near("end"))),
               Line(I("mov", ax, Imm(5)))>>, out |-> ax, idiom |-> {}]

Strcmp6 ==
  [lines |-> <<Line(I0("cld")), Line(I("xor", ax, ax)), Line(RepCmps), Line(I1("jz", Near("end"))),
               Line(I("sbb", ax, ax)), Line(I("or", al0, Imm(1)))>>, out |-> ax, idiom |-> {}]

Windows == Idioms \cup {AbsMacro, AbsElsewhere, Strcmp, Strcmp6}

Voided(w) == w.out # ax \/ w.lines[1].insn.itype = "cld"

(* A way in at line k. *)
Entered(w, k) ==
  Body(<<I("cmp", bx, Imm(2)), I1("jz", Near("way"))>>)
  \o [w EXCEPT ![k] = [@ EXCEPT !.name = "way"]]

Without(w, k) == [m \in 1 .. Len(w) - 1 |-> IF m < k THEN w[m] ELSE w[m + 1]]
With(w, k, l) == SubSeq(w, 1, k - 1) \o <<l>> \o SubSeq(w, k, Len(w))

Varied ==
  UNION {
    {Function(w.lines, w.out, Voided(w), w.idiom)}
    \cup {Function(Without(w.lines, k), w.out, TRUE, {}) : k \in DOMAIN w.lines}
    \cup {Function(Entered(w.lines, k), w.out, TRUE, {}) : k \in {k \in DOMAIN w.lines : w.lines[k].name = ""}}
    \cup {Function(With(w.lines, k, Line(I("mov", cx, bx))), w.out, TRUE, {}) : k \in DOMAIN w.lines}
    : w \in Windows}

-----------------------------------------------------------------------------
Setters ==
  {I("cmp", ax, bx), I("test", ax, ax), I("test", ax, Imm(2)), I("or", ax, ax), I("or", ax, bx), I1("dec", ax),
   I("add", ax, bx), I("sub", ax, Imm(3)), I1("inc", ax), I1("neg", ax), I("and", ax, Imm(0)), I("and", ax, bx),
   I("xor", ax, bx), I1("not", ax), I("cmp", al0, Imm(2)), I("cmp", Phrase(7), Imm(4))}

Between ==
  {<<>>, Body(<<I("mov", ax, Imm(3))>>), Body(<<I("shl", cx, Imm(1))>>), Body(<<I("mov", Mem(2), Imm(7))>>),
   <<Named("in", I("mov", cx, Imm(1)))>>}

Jumped ==
  {Function(<<Line(f)>> \o b \o Body(<<I1(j, Near("end")), I("mov", cx, Imm(5))>>), cx, TRUE, {})
   : f \in Setters, b \in Between, j \in Jumps}

AndSet ==
  {Function(<<Line(f)>> \o b \o Body(<<I1(j, Reg("cl"))>>), cx, TRUE, {})
   : f \in {I("cmp", ax, bx), I("sub", ax, bx)}, b \in Between, j \in Sets}

Looped ==
  {Function(<<Line(I("mov", bx, Imm(0))), Named("top", I("add", bx, ax)), Line(f), Line(I1("jnz", Near("top")))>>,
            bx, FALSE, {}) : f \in {I1("dec", ax), I1("inc", ax), I("cmp", bx, Imm(4))}}

-----------------------------------------------------------------------------
Callee(arity, params, void, cdecl, typed) ==
  [name |-> "f", arity |-> arity, params |-> params, void |-> void, cdecl |-> cdecl, typed |-> typed]

Call(f) == I0("call") @@ [callee |-> f]

Cleanups ==
  {<<>>, Body(<<I1("pop", cx)>>), Body(<<I1("pop", cx), I1("pop", cx)>>), Body(<<I1("pop", cx), I1("pop", dx)>>),
   Body(<<I("add", sp, Imm(2))>>), Body(<<I("add", sp, Imm(4))>>), Body(<<I("add", sp, Imm(14))>>),
   Body(<<[I("add", sp, Imm(8)) EXCEPT !.dtype = "dword"]>>), <<Named("in", I1("pop", cx))>>}

Called1 ==
  {Function(Body(<<I1("push", si), I1("push", ax), I1("push", bx), Call(f)>>) \o c, ax, v, {})
   : f \in {Callee(2, 2, FALSE, TRUE, TRUE), Callee(1, 1, TRUE, TRUE, TRUE), Callee(2, 2, FALSE, FALSE, TRUE),
            Callee(2, 1, FALSE, FALSE, TRUE), Callee(1, 1, FALSE, TRUE, FALSE)},
     c \in Cleanups, v \in {FALSE}}

-----------------------------------------------------------------------------
Operands ==
  {I("mov", cx, Phrase(p)) : p \in {0, 1, 4, 5, 7}}
  \cup {I("mov", cx, Displ(p, 3)) : p \in {4, 5, 7}} \cup {I("mov", Displ(7, 2), cx), I("add", Mem(3), cx)}
  \cup {I("lea", cx, o) : o \in {Phrase(1), Displ(5, 2), Mem(6)}}
  \cup {I("les", cx, o) : o \in {Phrase(4), Mem(6)}}
  \cup {I("movzx", cx, al0), I("movsx", cx, al0), I("sar", cx, Imm(1)), I("shr", cx, Imm(1)), I("or", Mem(5), Imm(-1)),
        I("mov", StkVar(0), cx), I1("jmp", Near("end")), I1("jmp", Near("far")), I1("jmpni", bx), I0("leave")}

Single ==
  {Function(Body(<<I("mov", StkVar(0), ax), i, I("add", cx, StkVar(0))>>), cx, FALSE, {}) : i \in Operands}
  \cup {Function(<<As(k, I1("inc", cx)), Line(I("add", cx, ax))>>, cx, TRUE, {})
        : k \in {"ignored", "convertible", "unknown", "data"}}

-----------------------------------------------------------------------------
Table == (0 :> "zero") @@ (1 :> "other") @@ (2 :> "two")

Jmpni(n, header, xrefs) ==
  I1("jmpni", bx) @@ [info |-> [header |-> header, ncases |-> n, xrefs |-> xrefs, table |-> Table,
                                default |-> "other"]]

Arms ==
  <<Named("zero", I("mov", cx, Imm(1))), Line(I1("jmp", Near("end"))),
    Named("two", I("mov", cx, Imm(2))), Line(I1("jmp", Near("end"))),
    Named("other", I("mov", cx, Imm(3)))>>

Switched ==
  {Function(p \o Body(<<I("cmp", ax, Imm(2)), I1("ja", Near("other")), I("mov", bx, ax), I("shl", bx, Imm(1)),
                   Jmpni(n, h, x)>>) \o Arms, o, TRUE, {})
   : p \in {<<>>, Body(<<I("mov", dx, ax)>>), <<Line(I("mov", dx, ax)), Named("in", I0("nop"))>>}, n \in {2, 3}, h \in {2, 4, 5},
     x \in {<<"zero", "two", "other">>, <<"two", "zero", "other">>, <<"zero", "two">>}, o \in {cx, bx}}

MCPrograms == Varied \cup Jumped \cup AndSet \cup Looped \cup Called1 \cup Single \cup Switched
=============================================================================
