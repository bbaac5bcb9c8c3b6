-------------------------------- MODULE Structure --------------------------------
(***************************************************************************)
(* ControlFlowAnalysis::StructureLoops and what it calls: the loops that   *)
(* FindLoops found (module Loops) become while and do-while statements     *)
(* that hold their nodes, inner ones first; then StructureIfs looks for    *)
(* if statements in the nodes of the loop, and last in mNodeList.  The     *)
(* reduction of module Collate runs again inside of StructureIfs.          *)
(*                                                                         *)
(* A statement is an instruction of the node that takes the place of its   *)
(* header: a while or do-while has a list of nodes of its own, an if has   *)
(* one or two nodes whose instructions src/codegen.cpp prints between its  *)
(* braces.  The two stub nodes of a loop are its continue and its break.   *)
(*                                                                         *)
(* As in Collate an instruction is the number of its block, labels and     *)
(* gotos are left to the graph, and FindDominators is taken for exact: it  *)
(* has run on the list at hand before every look at predecessors or        *)
(* dominators.  The expression of a statement and that of the jump it was  *)
(* taken from are one object, which a negation changes in both.            *)
(***************************************************************************)
EXTENDS Integers, FiniteSets, SequencesExt

CONSTANTS
  N,        (* bound on the number of blocks                              *)
  Programs  (* what each of the blocks ends in, and if it does anything   *)

ASSUME NAssumption == N \in Nat \ {0}

VARIABLES
  main,       (* mNodeList                                                *)
  statements, (* the statements of each loop                              *)
  node,       (* every node made, by its number                           *)
  loops,      (* mLoops, with the condition of the statement made from it *)
  l,          (* the loop at hand; Len(loops) + 1 after the last one      *)
  phase,      (* "loop", or the part of StructureIfs that runs, or how    *)
              (* the analysis ended                                       *)
  matches,    (* i of StructureIfs                                        *)
  meaning,    (* history: what the program did before any structuring     *)
  careless    (* history: what made the statements another program        *)

vars == <<main, statements, node, loops, l, phase, matches, meaning, careless>>

(* The list StructureIfs works on. *)
blocks == IF l <= Len(loops) THEN statements[l] ELSE main

C == INSTANCE Collate WITH list <- blocks, made <- Len(node)
M == INSTANCE Collate WITH list <- main, made <- Len(node)

Loop == loops[l]

-----------------------------------------------------------------------------
(***************************************************************************)
(* What the statements do: which block's instructions or test come next.   *)
(* A node runs its instructions, then goes to a successor.                 *)
(***************************************************************************)
Do(b) == [kind |-> "do", block |-> b]

If(c, yes, no) == [kind |-> "if", cond |-> c, yes |-> yes, no |-> no]

(* The printed nodes: those of the list, of the loops and of the ifs in    *)
(* printed nodes.                                                          *)
Printed ==
  LET Inside(item) ==
        CASE item.kind \in {"while", "do while"} -> ToSet(statements[item.loop])
          [] item.kind = "if"                    -> {item.yes, item.no} \ {0}
          [] OTHER                               -> {}
      grow[k \in 0 .. Len(node)] ==
        IF k = 0 THEN ToSet(main)
        ELSE LET before == grow[k - 1] IN
             before \cup UNION {Inside(item) : item \in UNION {ToSet(node[n].body) : n \in before}}
  IN  grow[Len(node)]

Places == UNION {{<<n, k>> : k \in DOMAIN node[n].body} : n \in Printed}

Item(place) == node[place[1]].body[place[2]]

IsLoop(place, lp) == Item(place).kind \in {"while", "do while"} /\ Item(place).loop = lp

LoopPlace(lp) == CHOOSE place \in Places : IsLoop(place, lp)

IfPlace(n) == CHOOSE p \in Places : Item(p).kind = "if" /\ n \in {Item(p).yes, Item(p).no}

(* The first printed node of a loop: the stubs print nothing, and a loop    *)
(* with nothing else goes straight to its next test.                       *)
Body(lp) ==
  LET type(n) == node[n].type
      real    == SelectSeq(statements[lp], LAMBDA n : type(n) \notin {"LOOP_CONTINUE", "LOOP_BREAK"})
  IN  IF real # <<>> THEN real[1]
      ELSE CHOOSE n \in ToSet(statements[lp]) : type(n) = "LOOP_CONTINUE"

(* The condition of while(address), for what stands there in the case of a *)
(* goto: it holds.                                                         *)
Always == [first |-> C!Yes, on |-> <<>>]

(* Control before the k-th instruction of n. *)
At(n, k) ==
  LET Fuel == 4 * Len(node)
      go[f \in 0 .. Fuel, m \in DOMAIN node, j \in Nat] ==
        IF f = 0 THEN <<"forever">>
        ELSE IF j <= Len(node[m].body) THEN
          LET item == node[m].body[j] IN
          CASE item.kind = "do"       -> C!Do(item.block)
            [] item.kind = "if"       -> C!If(item.cond.first)
            [] item.kind = "while"    -> C!If(loops[item.loop].cond.first)
            [] item.kind = "do while" -> go[f - 1, Body(item.loop), 1]
            [] item.kind = "return"   -> <<"return">>
        ELSE CASE node[m].type = "CONDITIONAL_JUMP" -> C!If(node[m].cond.first)
               [] node[m].type = "RETURN"           -> <<"return">>
               [] node[m].type = "LOOP_CONTINUE"    ->
                    IF loops[node[m].loop].cond = Always THEN go[f - 1, Body(node[m].loop), 1]
                    ELSE C!If(loops[node[m].loop].cond.first)
               [] node[m].type = "LOOP_BREAK" ->
                    LET place == LoopPlace(node[m].loop) IN go[f - 1, place[1], place[2] + 1]
               [] node[m].type = "TO_BE_DELETED" ->
                    LET place == IfPlace(m) IN go[f - 1, place[1], place[2] + 1]
               [] OTHER -> go[f - 1, node[m].succ[1], 1]
  IN  go[Fuel, n, k]

Behind(place) == At(place[1], place[2] + 1)

AfterLoop(lp, verdict) == IF verdict = C!Yes THEN At(Body(lp), 1) ELSE Behind(LoopPlace(lp))

Tests(c) == DOMAIN c.on

(* The test at the end of a do-while that was made in the tail just before *)
(* has the same outcome.                                                   *)
AfterJump(n, b, v) ==
  LET s    == node[n].succ[IF node[n].cond.on[b][v] = C!Yes THEN 1 ELSE 2]
      loop == node[s].loop
  IN  IF node[s].type = "LOOP_CONTINUE" /\ b \in Tests(loops[loop].cond)
      THEN AfterLoop(loop, loops[loop].cond.on[b][v]) ELSE At(s, 1)

Jumps == {n \in Printed : node[n].type = "CONDITIONAL_JUMP"}

AfterTest(b, v) ==
  LET On(c, After(_)) == IF c.on[b][v] \in {C!Yes, C!No} THEN After(c.on[b][v]) ELSE C!If(c.on[b][v]) IN
  IF \E n \in Jumps : b \in Tests(node[n].cond)
  THEN LET n == CHOOSE m \in Jumps : b \in Tests(node[m].cond)
       IN  On(node[n].cond, LAMBDA x : AfterJump(n, b, v))
  ELSE LET p    == CHOOSE q \in Places :
                     \/ Item(q).kind = "if" /\ b \in Tests(Item(q).cond)
                     \/ Item(q).kind \in {"while", "do while"} /\ b \in Tests(loops[Item(q).loop].cond)
           item == Item(p)
       IN  IF item.kind # "if" THEN On(loops[item.loop].cond, LAMBDA x : AfterLoop(item.loop, x))
           ELSE On(item.cond, LAMBDA x : IF x = C!Yes THEN At(item.yes, 1)
                                         ELSE IF item.no # 0 THEN At(item.no, 1) ELSE Behind(p))

Meaning ==
  LET conditions == {node[n].cond : n \in Jumps}
                      \cup {Item(p).cond : p \in {q \in Places : Item(q).kind = "if"}}
                      \cup {loops[Item(p).loop].cond :
                              p \in {q \in Places : Item(q).kind \in {"while", "do while"}}}
  IN  {<<C!Start, At(main[1], 1)>>}
        \cup {<<C!Do(Item(p).block), Behind(p)>> : p \in {q \in Places : Item(q).kind = "do"}}
        \cup {<<C!Took(b, v), AfterTest(b, v)>> : b \in UNION {Tests(c) : c \in conditions}, v \in BOOLEAN}

-----------------------------------------------------------------------------
(***************************************************************************)
(* FindLoops, as module Loops has it, in one step.                         *)
(***************************************************************************)
Succ(n) == node[n].succ
Addr(n) == node[n].addr

RECURSIVE Gather(_, _)
Gather(workList, nodes) ==
  IF workList = <<>> THEN nodes
  ELSE LET top  == Last(workList)
           more == SelectSeq(main, LAMBDA p : top \in ToSet(Succ(p)) /\ p \notin ToSet(nodes))
       IN  Gather(Front(workList) \o more, nodes \o more)

FindNaturalLoopForEdge(h, t) ==
  LET order == IF h = t THEN <<h>> ELSE Gather(<<t>>, <<h, t>>) IN
  [header |-> h, tail |-> t, order |-> order, nodes |-> ToSet(order), cond |-> C!NoTest]

Found ==
  LET edges == FlattenSeq([k \in 1 .. Len(main) - 1 |->
                 [i \in DOMAIN Succ(main[k + 1]) |-> <<Succ(main[k + 1])[i], main[k + 1]>>]])
      back  == SelectSeq(edges, LAMBDA e : M!DominatesNode(e[1], e[2]))
  IN  [k \in DOMAIN back |-> FindNaturalLoopForEdge(back[k][1], back[k][2])]

L == INSTANCE Loops WITH MaxSuccessors <- 2, succ <- 0, n <- 0, i <- 0,
       header <- 0, tail <- 0, nodes <- {}, workList <- <<>>, p <- 0

-----------------------------------------------------------------------------
(***************************************************************************)
(* A list in which run() finds nothing to reduce any more.  Its blocks     *)
(* have the order of their addresses; what follows a conditional jump need *)
(* not be the next one, as a goto that stood there is skipped by now.      *)
(***************************************************************************)
Made(b, shape) ==
  [addr |-> b, type |-> shape.type, body |-> IF shape.work THEN <<Do(b)>> ELSE <<>>,
   cond |-> IF shape.type = "CONDITIONAL_JUMP" THEN C!Test(b) ELSE C!NoTest,
   succ |-> shape.succ, loop |-> 0]

Init ==
  /\ \E program \in Programs :
       /\ main = [b \in DOMAIN program |-> b]
       /\ node = [b \in DOMAIN program |-> Made(b, program[b])]
  /\ \A n \in DOMAIN node : M!ExprPattern(n) = "none" /\ M!NodePattern(n) = "none"
  /\ M!ReachedWithout(0) = ToSet(main)
  /\ loops = <<>>
  /\ statements = <<>>
  /\ l = 1
  /\ phase = "find"
  /\ matches = 0
  /\ meaning = {}
  /\ careless = {}

FindLoops ==
  /\ phase = "find"
  /\ \E sorted \in {L!MergeSort(Found)} : loops' = L!Reversed(sorted)
  /\ statements' = [k \in DOMAIN loops' |-> <<>>]
  /\ phase' = IF loops' = <<>> THEN "expr" ELSE "loop"
  /\ meaning' = Meaning
  /\ UNCHANGED <<main, node, l, matches, careless>>

Closed(list, nodes) == \A n \in ToSet(list) : ToSet(nodes[n].succ) \subseteq ToSet(list)

Reasons(why) == careless' = careless \cup {r \in DOMAIN why : why[r]}

-----------------------------------------------------------------------------
(***************************************************************************)
(* StructureLoops.                                                         *)
(***************************************************************************)
RECURSIVE Breadth(_, _, _)
Breadth(q, visited, barrier) ==
  IF q = <<>> THEN visited
  ELSE IF Head(q) \in ToSet(visited) \cup barrier THEN Breadth(Tail(q), visited, barrier)
  ELSE Breadth(Tail(q) \o Succ(Head(q)), Append(visited, Head(q)), barrier)

(* mPostDominators, in which mNodeList.back() is the only way out.         *)
Exit == Last(main)

PostDominates(d, n) ==
  d = n \/ (n # Exit /\ Exit \notin ToSet(Breadth(<<n>>, <<>>, {d})))

(* Slip: the search ends at the first post-dominator, in the loop or not.  *)
BreakNodeFirst ==
  LET h    == Loop.header
      fits == SelectSeq(Breadth(<<h>>, <<>>, {}), LAMBDA n : n # h /\ n \in ToSet(main) /\ PostDominates(n, h))
  IN  IF fits = <<>> \/ Addr(fits[1]) \in {Addr(m) : m \in Loop.nodes} THEN 0 ELSE fits[1]

(* find_imm_post_dominator; 0 is the null pointer. *)
BreakNode ==
  LET h    == Loop.header
      fits == SelectSeq(Breadth(<<h>>, <<>>, {}), LAMBDA n :
                /\ n # h /\ n \in ToSet(main) /\ PostDominates(n, h)
                /\ Addr(n) \notin {Addr(m) : m \in Loop.nodes})
  IN  IF fits = <<>> THEN 0 ELSE fits[1]

IsWhile(brk) ==
  LET h == Loop.header IN
  /\ Len(Succ(h)) = 2
  /\ \E s \in ToSet(Succ(h)) : (brk # 0 /\ Addr(s) = Addr(brk)) \/ ~M!DominatesNode(h, s)

(* collect_stray_loop_nodes *)
WithStrays(brk) ==
  Loop.order \o SelectSeq(Breadth(<<Loop.header>>, <<>>, {brk}), LAMBDA n :
                  n \notin Loop.nodes /\ M!DominatesNode(Loop.header, n))

(* The nodes of mNodeList that have the addresses of these. *)
AtAddresses(order) ==
  LET at == [k \in DOMAIN order |-> SelectSeq(main, LAMBDA n : Addr(n) = Addr(order[k]))] IN
  FlattenSeq([k \in DOMAIN at |-> SelectSeq(at[k], LAMBDA n : \A j \in 1 .. k - 1 : at[j] # at[k])])

SortByAddress(list, nodes) ==
  LET before(j, k) == \/ nodes[list[j]].addr < nodes[list[k]].addr
                      \/ nodes[list[j]].addr = nodes[list[k]].addr /\ j < k
      order == SortSeq([k \in DOMAIN list |-> k], before)
  IN  [k \in DOMAIN list |-> list[order[k]]]

(* Node `new` stands for the loop in mNodeList, `moved` go into its        *)
(* statements, and the next two numbers are those of its stubs.            *)
WhileNode    == Len(node) + 1
ContinueStub == Len(node) + 2
BreakStub    == Len(node) + 3

Stub(type, addr) ==
  [addr |-> addr, type |-> type, body |-> <<>>, cond |-> C!NoTest, succ |-> <<>>, loop |-> l]

(* Successors of a node that goes into the loop. *)
WhileSuccessors(brk, s) ==
  [i \in DOMAIN s |-> CASE s[i] = Loop.header -> ContinueStub
                        [] s[i] = brk         -> BreakStub
                        [] OTHER              -> s[i]]

(* A node with the header for both successors comes to have two breaks: of *)
(* the stub, which is not in the loop, at its second look.                 *)
DoWhileSuccessors(brk, inside, s) ==
  [i \in DOMAIN s |-> IF s[i] = Loop.header /\ s # <<Loop.header, Loop.header>> THEN ContinueStub
                      ELSE IF s[i] \in inside \ {Loop.header} THEN s[i] ELSE BreakStub]

(* The nodes once some are in the loop, where their successors are those   *)
(* of inLoop: whatever comes to the header from outside comes to the node  *)
(* that stands for the loop.                                               *)
WithLoop(old, brk, body, inLoop) ==
  LET inside == ToSet(WithStrays(brk))
      succ(n) == IF n \in DOMAIN inLoop THEN inLoop[n]
                 ELSE IF n \in ToSet(main) \ inside
                 THEN C!ReconnectSuccessor(Succ(n), Loop.header, WhileNode)
                 ELSE Succ(n)
  IN  [n \in DOMAIN node |-> [old[n] EXCEPT !.succ = succ(n)]]
        \o << [Stub("FALL_THROUGH", Addr(Loop.header)) EXCEPT !.body = body, !.succ = <<brk>>, !.loop = 0],
              Stub("LOOP_CONTINUE", Addr(Loop.header)), Stub("LOOP_BREAK", Addr(brk)) >>

(* Slip: RemoveDeletedNodes is not called, and a while's header stays.     *)
ReducedByStatements(moved) ==
  LET at == CHOOSE k \in DOMAIN main : main[k] = Loop.header IN
  SelectSeq(InsertAt(main, at, WhileNode), LAMBDA n : n \notin ToSet(moved))

(* mNodeList without the nodes that are in the loop now. *)
Reduced(moved) ==
  LET at == CHOOSE k \in DOMAIN main : main[k] = Loop.header IN
  SelectSeq(InsertAt(main, at, WhileNode), LAMBDA n : n # Loop.header /\ n \notin ToSet(moved))

(* FindDominators for mNodeList, then StructureIfs for the loop. *)
ThenIfs ==
  /\ phase' = IF Closed(main', node') /\ Closed(statements'[l], node') THEN "expr" ELSE "undefined"
  /\ matches' = 0
  /\ UNCHANGED <<l, meaning>>

(* An outer loop may end in the header of an inner one, which has its       *)
(* statement for last instruction now.                                     *)
TailIsWhile ==
  LET t == Loop.tail IN
  /\ node[t].type = "TO_BE_DELETED" /\ node[t].body # <<>>
  /\ \E k \in 1 .. l - 1 : Last(node[t].body) = [kind |-> "while", loop |-> k] /\ loops[k].header = t

InMain == Loop.header \in ToSet(main) /\ (Loop.tail \in ToSet(main) \/ TailIsWhile)

(* Control leaves the loop for another place than the one behind it.       *)
Leaves(brk, moved) ==
  \E n \in ToSet(moved) : ~(ToSet(Succ(n)) \subseteq ToSet(WithStrays(brk)) \cup {brk})

(* Control comes into the loop without passing its header: to a stray node *)
(* that can be reached from behind the loop too.                           *)
Entered(moved) ==
  \E n \in ToSet(main) \ ({Loop.header} \cup ToSet(moved)) :
    ToSet(Succ(n)) \cap (ToSet(moved) \ {Loop.header}) # {}

AtLoop == phase = "loop" /\ InMain

(* The condition holds for staying in the loop.  The header is deleted; it *)
(* has got the statement too, which is how it still looks to an outer loop.*)
StructureWhileLoop ==
  /\ AtLoop
  /\ LET h     == Loop.header
         brk   == BreakNode
         moved == SelectSeq(AtAddresses(WithStrays(brk)), LAMBDA n : n # h)
         body  == Append(node[h].body, [kind |-> "while", loop |-> l])
         old   == [node EXCEPT ![h].type = "TO_BE_DELETED", ![h].body = body]
         c     == IF Addr(Succ(h)[1]) = Addr(brk) THEN C!Not(node[h].cond) ELSE node[h].cond
         into  == ToSet(Succ(h)) \ {brk}
     IN  /\ brk # 0
         /\ IsWhile(brk)
         /\ loops' = [loops EXCEPT ![l].cond = c]
         /\ node' = WithLoop(old, brk, body,
                           [n \in ToSet(moved) |-> WhileSuccessors(brk, Succ(n))])
         /\ main' = Reduced(moved)
         /\ statements' = [statements EXCEPT ![l] = moved \o <<ContinueStub, BreakStub>>]
         /\ Reasons([work  |-> node[h].body # <<>>,
                     exit  |-> Cardinality(into) # 1 \/ brk \notin ToSet(Succ(h)),
                     door  |-> \E e \in into, n \in ToSet(moved) : Addr(n) < Addr(e),
                     leaves |-> Leaves(brk, moved),
                     entered |-> Entered(moved)])
  /\ ThenIfs

(* The first operand of the last instruction of the tail: a condition, an  *)
(* address, or anything at all, which is taken for an address here.        *)
Operand ==
  LET t == Loop.tail IN
  IF TailIsWhile THEN loops[Last(node[t].body).loop].cond
  ELSE IF node[t].type = "CONDITIONAL_JUMP" THEN node[t].cond ELSE Always

(* The condition negated in the statement and in the jump it came from.    *)
StructureDoWhileLoop ==
  /\ AtLoop
  /\ LET h     == Loop.header
         t     == Loop.tail
         brk   == BreakNode
         moved == AtAddresses(WithStrays(brk))
         exits == Succ(t)[1] # h
         c     == IF exits THEN C!Not(Operand) ELSE Operand
         old   == IF node[t].type = "CONDITIONAL_JUMP" THEN [node EXCEPT ![t].cond = c] ELSE node
     IN  /\ brk # 0
         /\ ~IsWhile(brk)
         /\ loops' = [k \in DOMAIN loops |->
                        IF k = l \/ (TailIsWhile /\ k = Last(node[t].body).loop)
                        THEN [loops[k] EXCEPT !.cond = c] ELSE loops[k]]
         /\ node' = WithLoop(old, brk, <<[kind |-> "do while", loop |-> l]>>,
                           [n \in ToSet(moved) |-> DoWhileSuccessors(brk, ToSet(WithStrays(brk)), Succ(n))])
         /\ main' = Reduced(moved)
         /\ statements' = [statements EXCEPT ![l] = SortByAddress(moved \o <<ContinueStub, BreakStub>>, node')]
         /\ Reasons([negated |-> exits,
                     door    |-> \E n \in ToSet(moved) : Addr(n) < Addr(h),
                     again   |-> \E n \in ToSet(moved) \ {t} : h \in ToSet(Succ(n)),
                     leaves  |-> Leaves(brk, moved),
                     entered |-> Entered(moved)])
  /\ ThenIfs

(* breakNode->Address() of a null pointer. *)
NoBreakNode ==
  /\ AtLoop
  /\ BreakNode = 0
  /\ phase' = "crashed"
  /\ UNCHANGED <<main, statements, node, loops, l, matches, meaning, careless>>

(* An earlier loop has taken the header or the tail, or had the same       *)
(* header: the code goes on with bitsets that count the nodes of another   *)
(* list.                                                                   *)
NodesGone ==
  /\ phase = "loop"
  /\ ~InMain
  /\ phase' = "stale"
  /\ UNCHANGED <<main, statements, node, loops, l, matches, meaning, careless>>

-----------------------------------------------------------------------------
(***************************************************************************)
(* StructureIfs: rounds of three passes, each of which rewrites the first  *)
(* node it finds something at.                                             *)
(***************************************************************************)
Replace(nodes, list) ==
  /\ node' = nodes
  /\ IF l <= Len(loops) THEN statements' = [statements EXCEPT ![l] = list] /\ main' = main
     ELSE main' = list /\ UNCHANGED statements
  /\ UNCHANGED <<loops, l, meaning>>

Mark(nodes, D) ==
  [n \in DOMAIN nodes |-> IF n \in D THEN [nodes[n] EXCEPT !.type = "TO_BE_DELETED"] ELSE nodes[n]]

Thereafter(next) ==
  phase' = IF Closed(blocks', node') THEN next ELSE "undefined"

Fold(n, f) ==
  LET nodes == Mark([node EXCEPT ![n].cond = f.cond, ![n].succ = f.succ], f.gone) IN
  Replace(nodes, C!RemoveDeletedNodes(blocks, nodes))

CollateExpr ==
  /\ phase = "expr"
  /\ \E k \in DOMAIN blocks :
       /\ C!ExprPattern(blocks[k]) # "none"
       /\ \A j \in 1 .. k - 1 : C!ExprPattern(blocks[j]) = "none"
       /\ Fold(blocks[k], C!ExprFolded(blocks[k]))
  /\ matches' = 1
  /\ UNCHANGED careless
  /\ Thereafter("if")

NoExpr ==
  /\ phase = "expr"
  /\ \A n \in ToSet(blocks) : C!ExprPattern(n) = "none"
  /\ matches' = 0
  /\ phase' = "if"
  /\ UNCHANGED <<main, statements, node, loops, l, meaning, careless>>

-----------------------------------------------------------------------------
OneWay(n) == Len(Succ(n)) = 1

(* d is run after the jump of n or not at all. *)
Arm(n, d) == C!DominatesNode(n, d) /\ C!PredecessorCount(d) = 1

(* Slip: that both arms lead to the same node is not asked.                *)
IsIfElseAnywhere(n) ==
  Len(Succ(n)) = 2 /\ \A s \in ToSet(Succ(n)) : OneWay(s) /\ Arm(n, s)

IsIfElse(n) ==
  /\ Len(Succ(n)) = 2
  /\ \A s \in ToSet(Succ(n)) : OneWay(s) /\ Arm(n, s)
  /\ Succ(Succ(n)[1]) = Succ(Succ(n)[2])

IsIf(n) ==
  /\ Len(Succ(n)) = 2
  /\ OneWay(Succ(n)[1]) /\ Arm(n, Succ(n)[1])
  /\ Succ(Succ(n)[1]) = <<Succ(n)[2]>>

IsReverseReturn(n) ==
  /\ Len(Succ(n)) = 2
  /\ OneWay(Succ(n)[2]) /\ Arm(n, Succ(n)[2])
  /\ node[Succ(Succ(n)[2])[1]].type = "RETURN"

IsReverseIf(n) ==
  /\ Len(Succ(n)) = 2
  /\ Arm(n, Succ(n)[2])
  /\ node[Succ(n)[2]].type \in {"FALL_THROUGH", "JUMP"}
  /\ Addr(Succ(n)[1]) = Addr(Succ(Succ(n)[2])[1])

IfPattern(n) ==
  IF IsIfElse(n) THEN "if else"
  ELSE IF IsIf(n) THEN "if"
  ELSE IF IsReverseReturn(n) THEN "reverse return"
  ELSE IF IsReverseIf(n) THEN "reverse if" ELSE "none"

FirstIf(n, p) ==
  \E k \in DOMAIN blocks :
    /\ n = blocks[k]
    /\ IfPattern(n) = p
    /\ \A j \in 1 .. k - 1 : IfPattern(blocks[j]) = "none"

(* A new node takes the place of n, with the statement for a jump, and     *)
(* goes on to `follower`.                                                  *)
StructureAs(old, n, statement, follower, why) ==
  LET new   == Len(node) + 1
      arms  == {statement.yes, statement.no} \ {0}
      with  == [node[n] EXCEPT !.type = "FALL_THROUGH", !.cond = C!NoTest, !.succ = <<follower>>,
                               !.body = Append(@, statement)]
      after == [m \in DOMAIN old |->
                  IF m \in ToSet(blocks) THEN [old[m] EXCEPT !.succ = C!ReconnectSuccessor(@, n, new)]
                  ELSE old[m]]
      nodes == Mark(Append(after, with), arms \cup {n})
      at    == CHOOSE k \in DOMAIN blocks : blocks[k] = n
  IN  /\ Replace(nodes, C!RemoveDeletedNodes(InsertAt(blocks, at, new), nodes))
      /\ matches' = matches + 1
      /\ careless' = careless \cup why \cup {w \in {"itself"} : follower = n}

(* The first node's instructions are looked at for a label when its goto   *)
(* is gone: there may be none left.                                        *)
StructureIfElse ==
  /\ phase = "if"
  /\ \E n \in ToSet(blocks) :
       LET yes == Succ(n)[1] IN
       /\ FirstIf(n, "if else")
       /\ StructureAs(node, n, If(node[n].cond, yes, Succ(n)[2]), Succ(yes)[1],
                      {w \in {"empty"} : node[yes].body = <<>>})
       /\ IF node[yes].body = <<>> THEN phase' = "undefined" ELSE Thereafter("node")

StructureIf ==
  /\ phase = "if"
  /\ \E n \in ToSet(blocks) :
       /\ FirstIf(n, "if")
       /\ StructureAs(node, n, If(node[n].cond, Succ(n)[1], 0), Succ(n)[2], {})
  /\ Thereafter("node")

(* A return is put where control went on to the one of another node.       *)
StructureReverseReturn ==
  /\ phase = "if"
  /\ \E n \in ToSet(blocks) :
       LET yes == Succ(n)[2] IN
       /\ FirstIf(n, "reverse return")
       /\ StructureAs([node EXCEPT ![yes].body = Append(@, [kind |-> "return"])],
                      n, If(C!Not(node[n].cond), yes, 0), Succ(n)[1],
                      {w \in {"epilogue"} : node[Succ(yes)[1]].body # <<>>})
  /\ Thereafter("node")

StructureReverseIf ==
  /\ phase = "if"
  /\ \E n \in ToSet(blocks) :
       /\ FirstIf(n, "reverse if")
       /\ StructureAs(node, n, If(C!Not(node[n].cond), Succ(n)[2], 0), Succ(n)[1], {})
  /\ Thereafter("node")

NoIf ==
  /\ phase = "if"
  /\ \A n \in ToSet(blocks) : IfPattern(n) = "none"
  /\ phase' = "node"
  /\ UNCHANGED <<main, statements, node, loops, l, matches, meaning, careless>>

-----------------------------------------------------------------------------
CollateNode ==
  /\ phase = "node"
  /\ \E k \in DOMAIN blocks :
       LET n == blocks[k]  f == Succ(n)[1]  new == Len(node) + 1
           with  == [C!Joined(n, f) EXCEPT !.addr = Addr(n)]
           after == [m \in DOMAIN node |->
                       IF m \in ToSet(blocks) THEN [node[m] EXCEPT !.succ = C!ReconnectSuccessor(@, n, new)]
                       ELSE node[m]]
           nodes == Mark(Append(after, with), {n, f})
       IN  /\ C!NodePattern(n) # "none"
           /\ \A j \in 1 .. k - 1 : C!NodePattern(blocks[j]) = "none"
           /\ IF C!NodePattern(n) = "Skip" THEN Fold(n, C!Skipped(n))
              ELSE Replace(nodes, C!RemoveDeletedNodes(InsertAt(blocks, k, new), nodes))
  /\ matches' = matches + 1
  /\ UNCHANGED careless
  /\ Thereafter("expr")

Again ==
  /\ phase = "node"
  /\ \A n \in ToSet(blocks) : C!NodePattern(n) = "none"
  /\ matches # 0
  /\ phase' = "expr"
  /\ UNCHANGED <<main, statements, node, loops, l, matches, meaning, careless>>

(* StructureIfs returns.  The statements of the loop are sorted.           *)
NextLoop ==
  /\ phase = "node"
  /\ \A n \in ToSet(blocks) : C!NodePattern(n) = "none"
  /\ matches = 0
  /\ IF l <= Len(loops)
     THEN /\ statements' = [statements EXCEPT ![l] = SortByAddress(@, node)]
          /\ l' = l + 1
          /\ phase' = IF l = Len(loops) THEN "expr" ELSE "loop"
     ELSE /\ phase' = "done"
          /\ UNCHANGED <<statements, l>>
  /\ UNCHANGED <<main, node, loops, matches, meaning, careless>>

Next ==
  \/ FindLoops
  \/ StructureWhileLoop \/ StructureDoWhileLoop \/ NoBreakNode \/ NodesGone
  \/ CollateExpr \/ NoExpr
  \/ StructureIfElse \/ StructureIf \/ StructureReverseReturn \/ StructureReverseIf \/ NoIf
  \/ CollateNode \/ Again \/ NextLoop

Spec == Init /\ [][Next]_vars /\ WF_vars(Next)

-----------------------------------------------------------------------------
(* The list at hand and the statements of every loop hold nodes that are   *)
(* not deleted and know their successors, whatever FindLoops found and     *)
(* however loops, ifs and foldings followed each other.                    *)
TypeOK ==
  /\ \A n \in ToSet(main) \cup UNION {ToSet(statements[k]) : k \in DOMAIN statements} :
       /\ n \in DOMAIN node
       /\ node[n].type # "TO_BE_DELETED"
       /\ ToSet(Succ(n)) \subseteq DOMAIN node
  /\ l \in 1 .. Len(loops) + 1
  /\ phase \in {"find", "loop", "expr", "if", "node", "done", "undefined", "crashed", "stale"}
  /\ matches \in 0 .. 3

(* The while, do-while and if statements that StructureLoops leaves make   *)
(* the tests and run the instructions of the graph it was given, after     *)
(* the same outcomes, and no pass is left with a pointer to a node that is *)
(* off the list; but for what is counted as careless.                      *)
CarefulMeansSameProgram ==
  careless = {} => phase # "undefined" /\ (phase = "done" => Meaning = meaning)

(* find_imm_post_dominator finds a break node, and StructureWhileLoop and  *)
(* StructureDoWhileLoop do not follow a null pointer, unless the last node *)
(* of the function is in the loop itself or is not reached from its header.*)
CrashMeansNoWayOut ==
  phase = "crashed" =>
    \/ Addr(Exit) \in {Addr(m) : m \in Loop.nodes}
    \/ Exit \notin ToSet(Breadth(<<Loop.header>>, <<>>, {}))
=============================================================================
