------------------------------ MODULE MCStructure ------------------------------
(***************************************************************************)
(* Structure on the graphs of up to three blocks; on those of four and     *)
(* five in which a conditional jump has no other instruction with it, any  *)
(* or the next block follows it and the last block returns; and on a few:  *)
(* three that compilers make by putting the test of a loop below its body, *)
(* and an if with nothing but a goto in it.                                *)
(***************************************************************************)
EXTENDS Structure

Shape(t, succ, w) == [type |-> t, succ |-> succ, work |-> w]

Fall(a)       == Shape("FALL_THROUGH", <<a + 1>>, TRUE)
Return(w)     == Shape("RETURN", <<>>, w)
Jump(b)       == Shape("JUMP", <<b>>, TRUE)
Cond(b, c, w) == Shape("CONDITIONAL_JUMP", <<b, c>>, w)

(* Not dead at a glance, and nothing that would be joined at once. *)
WaysInto(p, b) == Cardinality({<<a, i>> \in (DOMAIN p) \X {1, 2} : i \in DOMAIN p[a].succ /\ p[a].succ[i] = b})

Irreducible(p) ==
  /\ \A b \in 2 .. Len(p) : WaysInto(p, b) > 0
  /\ \A a \in DOMAIN p :
       p[a].type \in {"JUMP", "FALL_THROUGH"} =>
         p[p[a].succ[1]].type = "RETURN" \/ WaysInto(p, p[a].succ[1]) > 1

(* Block a of n, its conditional jump followed by a block of `next`. *)
AnyEnd(a, n, next, works) ==
  {Jump(b) : b \in 1 .. n} \cup {Return(w) : w \in works}
    \cup {Fall(b) : b \in {a} \cap (1 .. n - 1)}
    \cup {Cond(b, c, w) : b \in 1 .. n, c \in next, w \in works}

Small ==
  {<<a, b>> : a \in AnyEnd(1, 2, 1 .. 2, BOOLEAN), b \in AnyEnd(2, 2, 1 .. 2, BOOLEAN)}
    \cup {<<a, b, c>> : a \in AnyEnd(1, 3, 1 .. 3, BOOLEAN), b \in AnyEnd(2, 3, 1 .. 3, BOOLEAN),
                        c \in AnyEnd(3, 3, 1 .. 3, BOOLEAN)}

Larger ==
  LET Four(a) == AnyEnd(a, 4, 1 .. 4, {FALSE})
      Five(a) == AnyEnd(a, 5, {a + 1}, {FALSE})
  IN  {<<a, b, c, Return(FALSE)>> : a \in Four(1), b \in Four(2), c \in Four(3)}
        \cup {<<a, b, c, d, Return(FALSE)>> : a \in Five(1), b \in Five(2), c \in Five(3), d \in Five(4)}

Picked ==
  { <<Jump(3), Fall(2), Cond(2, 4, FALSE), Cond(2, 5, TRUE), Return(FALSE)>>,
    <<Jump(3), Jump(3), Cond(5, 4, FALSE), Cond(2, 5, TRUE), Return(FALSE)>>,
    <<Jump(3), Cond(6, 3, TRUE), Cond(2, 4, FALSE), Fall(4), Jump(2), Return(FALSE)>>,
    <<Cond(3, 2, FALSE), Jump(4), Shape("JUMP", <<4>>, FALSE), Return(FALSE)>> }

MCPrograms == {p \in Small \cup Larger \cup Picked : Irreducible(p)}
===============================================================================
