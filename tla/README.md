# Desquirr in TLA+

Desquirr is a decompiler plugin for IDA Pro. It turns the machine instructions of
one function into a list of abstract instructions, cuts that list into nodes of a
flow graph, simplifies the nodes by data flow analysis, rewrites the graph until
`if`s and loops can be read off it, and prints C-like code. This directory holds TLA+ models
of its algorithms, TLC configurations that check them on small
instances, and proofs of some of their properties for instances of every size.

Desquirr is one thread of control. Nothing is persisted, sent or scheduled; what
makes it hard is different. Its passes update graphs and bit sets *in place while
they walk them*. They run one after the other on what the previous one left in
the nodes (bit sets, numbers, predecessor lists). And they hold pointers and
iterators into lists other passes cut pieces out of. A wrong step shows much later, as C
code that says something else than the program.

## The system

`run()` in `src/desquirr.cpp` drives everything for one function:

| Step | Code | State it works on |
|---|---|---|
| instruction list | front end: `ida-x86.cpp` or `ida-arm.cpp` | list of `Instruction`s; last flag-setting instruction |
| node list | `Node::CreateList` | `Node`s, successor addresses and pointers, `mPreds` |
| uses and definitions | `UpdateUsesAndDefinitions` | `BoolArray`s of instructions and nodes |
| live registers | `Node::LiveRegisterAnalysis` | `mLiveIn`, `mLiveOut` |
| DU chains | `Instruction::FindDefintionUseChains` | `mDuChain`, last definitions |
| data flow | `DataFlowAnalysis` | all of these, stack of `PUSH`es, `ErasePool` |
| dominators | `ControlFlowAnalysis::FindDominators` | `domId`, `mPreds`, `mDominators`, `mPostDominators` |
| reduction | `CollateExpr::Run`, `CollateNode::Run`, `FindDominators` after each, until neither matches | graph and conditions |
| structure | `FindLoops`, `StructureLoops` (`StructureIfs` within), `StructureSwitches` | loops, new `while`/`do`/`if` nodes |
| output | `GenerateCode` | none |

The components, what they keep, and what makes each correct:

- **Node list** (`node.cpp`, `node.hpp`). Operations: `CreateList`,
  `ConnectSuccessors`, `CreateSharedNodes`. Correct when no instruction is lost,
  every successor is found, and the graph has the flow of the list.
- **Uses and definitions, DU chains, live registers** (`usedefine.cpp`,
  `instruction.cpp`, `node.cpp`). Correct when exactly the registers a later use
  reads are live, and a chain has exactly the uses its definition reaches.
- **Data flow** (`dataflow.cpp`). Moves a definition to its use, deletes unused
  definitions, gathers call parameters. Correct when every use reads the
  value it read before.
- **Control flow** (`controlflow.cpp`). Dominators, loops, structuring. Correct
  when the bit sets are dominance, a loop's nodes are the natural loop, and the
  structured program runs as the graph did.
- **Graph reduction** (`collateexpr.cpp`, `collatenode.cpp`). Correct when the
  graph goes on making the same tests and running the same instructions, no
  node points to a deleted one, and the rewriting ends.
- **Negation of conditions** (`expression.hpp`). Correct when the negated
  condition is the opposite and tests the same things in the same order.
- **x86 and ARM front ends** (`ida-x86.cpp`, `ida-arm.cpp`). The flags protocol, the
  idiom windows, switch tables, conditionally executed instructions. Correct when the
  abstract instructions do what the machine's do: a condition compares what the
  flags were set from, an idiom is put in place of just the instructions it was made of.
- **Erase pool** (`instruction.hpp`). Deferred deletion, so that iterators stay
  valid. Correct when nothing is erased twice or used after it is erased.
- **Expression printing** (`expression.hpp`, `codegen.cpp`). Correct when the
  printed text parses to the tree.
- **IDA wrappers, plugin driver**. Input and output.

`PROJECT.json` lists each with its state of modelling, and every hazard at its
line.

## The modules

| Module | Code | What it is |
|---|---|---|
| `NodeList` | `Node::CreateList` and what it calls | one action per case of the switch, per node connected, per node shared |
| `NodeListProofs` | | theorems about it |
| `LiveRegisters` | `Node::LiveRegisterAnalysis` | one action per node visited and per walk |
| `Saturation` | what a caller of such a pass relies on | the abstract specification that `LiveRegisters` and `Dominators` implement |
| `LiveRegistersProofs` | | theorems about `LiveRegisters` |
| `Dominators` | `ControlFlowAnalysis::FindDominators` | one action per node visited, walk and call |
| `DominatorsProofs` | | theorems about it |
| `Loops` | `ControlFlowAnalysis::FindLoops`, `FindNaturalLoopForEdge` | one action per edge, node popped and predecessor |
| `LoopsProofs` | | theorems about it |
| `Collate` | `CollateExpr::Run`, `CollateNode::Run`, loop of `run()` | one action per pattern |
| `CollateProofs` | | theorems about its graph, what is left of it, and what the program does |
| `DataFlow` | `FindDefintionUseChains`, `DataFlowAnalysis`, uses and definitions of instructions | one action per instruction and stage of the analysis |
| `DataFlowProofs` | | theorems about `DataFlow` |
| `Basics` | | induction over numbers by a set, existence of recursive functions, paths, trees and stacks, for the other modules of theorems |
| `Structure` | `StructureLoops`, `StructureIfs` and what they call | one action per kind of loop statement, of `if`, and of collate pass |
| `X86` | `MakeLowLevelList`, `OnLowLevel` and its handlers, `OnSwitchInfo` | one action per handler or idiom |
| `X86Machine` | none: the processor and the meaning of the abstract instructions | the yardstick of `X86` |
| `Negation` | `ExpressionNegationHelper` | one action per negation or folding of a condition |
| `NegationProofs` | | theorems about `Negation` |
| `Printing` | `GenerateCode` of expressions, read back with the grammar of C | `Negation` with the text of its conditions |
| `MC*` | | instances for TLC |

Comments that begin with `Slip:` introduce a variant of the definition below
them with a plausible programming mistake in it. They are no part of the
specifications. Put in place of the definition, each makes TLC find a violation
of the property it was written for.

### NodeList

`instr` is the instruction list. Init takes every list a front end can make of `M`
machine instructions: labels at any set of addresses, instructions that yield no,
one or two list elements (`D:Ignore`; ARM conditional execution), jumps to any
label or out of the function, switches over two labels. A `Node_ptr` is an index into `node`, which keeps
also the nodes that are not in `list` (yet). `begin` and `cur` are the code's
iterators: `EndNode`, `MeetLabel` and `SkipOther` are the cases of the switch,
including that the first instruction is never looked at. `Connect` is
`ConnectSuccessorsHelper` for one node; `NodeAt` is the map, in which the last
node of an address wins. `Share` copies a node for all its predecessors but the
first, with the predecessor list as it was at connection time. In phase `crash` the
code follows a null pointer.

The properties are about lists that are `Proper`: the first instruction is
not a transfer, the last is an unconditional one, jumps go to labels, and none
goes to a conditionally executed instruction. Without the last condition
`SameFlow` does not hold: label, condition and guarded instruction have one
address, the map keeps the node of the last, and the jump skips the condition.
Without the first two, code is dropped or there is no node at all. These are
listed under the hazards.

- `NothingDropped`: every instruction is in a node.
- `AllConnected`: no null successor is left.
- `SameFlow`: each node, copied ones too, is left to where its last
  instruction leads, and nowhere in between.
- `Terminates`.

Bounds: `M = 3` instructions, at most one shared address, two cases in a switch.
That has loops, a node with two predecessors that is copied, the same target for both
sides of a branch, a node that is its own predecessor and shared, and two labels
at one address.

### LiveRegisters

The iterator, the flag and the two `BoolArray`s of each node, with the graph and
the uses and definitions arbitrary and fixed. A `BoolArray` is a set. The reference,
`LiveAtEntry`, is the least set of nodes closed backwards from the uses,
written as an intersection so that it needs no recursion.

- `NothingSpurious`: at every moment, only live registers are marked.
- `NothingMissed`: on return, all of them are. `InLiveOut` is what keeps
  `RemoveUnusedDefinition` from deleting a definition another node reads.
- `CollectsLive`: the pass implements `Saturation`. Seen from its caller it collects, in
  whatever order and steps, bits that are live and nothing else, gives none back, and returns
  when it has all of them. The mapping `Abstract` takes the live bits for the `goal` and the marked ones
  for what it has `got`. How the list is walked is not part of the promise, so a better order
  would not break it.
- `Terminates`.

Bounds: every graph on three nodes, one register. The bits of a `BoolArray` never
mix, so one stands for all. Three nodes in an unfavourable order need three walks.

### Dominators

`dom`, `pdom`, `preds` are the nodes' fields; the iterator and the flag are as in
the code. `Reconnect` stands for whatever a collate pass does between two calls:
one edge is redirected, all fields stay, and the function starts again. `Dominates` is
the reference: what cannot be reached from the entry without it.

- `ClearsWrong`: every call implements `Saturation`, whatever the previous one left behind
  and however the graph has changed since. The `goal` are the bits that are `Wrong`, which are those of
  pairs without dominance, and what it has `got` are the bits `Cleared`. So within a call no
  bit is set again, though a node's post-dominators are computed from all bits and not
  from its own; no true dominator is ever missing (`NeverTooFew`, a lemma); and on return
  nothing wrong is left. `Calls` is `Saturation` for any number of calls.
- `DominatorsExact`, `PostDominatorsExact`: on return the sets are dominance
  from the first node and post-dominance to the last. That the last node of the list
  is the exit is the code's assumption (a FIXME there), and the property is relative to it.
- `EveryCallReturns`: weak fairness is on the function's own steps only;
  nothing obliges `run()` to call it again.

Bounds: every graph on four nodes with at most two successors each: loops with two
entries, unreachable nodes, orders that need several walks. The last node starts with at most
one, since no node follows it to fall through to; a redirection does not change that. The
proofs need neither bound.

### Loops

`n` and `i` are the iterator and index of `FindLoops`, `nodes` and `workList`
the loop and the stack of `FindNaturalLoopForEdge`, `node` and `p` the node whose `mPreds` it
walks. `Dominates` stands for the test of `mDominators`: `Dominators` shows that
`FindDominators` leaves dominance there, with every node dominating an unreachable one.
The references are the natural loop of an edge (the least set with both ends that is
closed under the predecessors of all but the header), and cycles. `MergeSort` is the merge
sort of the GNU `std::list`.

- `HeaderDominatesLoop`: while a loop is gathered, nothing gets in that can be come to
  without its header.
- `LoopIsNatural`: what is returned is the natural loop of the edge.
- `LoopsNest`: in a graph all of whose nodes can be reached, loops with different
  headers are nested or disjoint.
- `CyclesAreInLoops`: in a reducible graph, every cycle is in a loop; but for one of
  the entry alone, which the walk skips.
- `InnerFirst`: inner loops come before the ones around them, for up to three loops and for any
  number of which each is in the next.
  `loop_compare` is no strict weak order (a set includes itself, and most sets do
  not include each other either way), so the standard promises nothing. With
  four loops on four nodes TLC finds an outer loop left in front of an inner one: 2 to
  itself, 3 to itself twice, and 4 back to 2.
- `Terminates`.

Bounds: every graph on four nodes in which the first falls through to the second and
the others have at most two successors, in either order: two nested loops and two side by
side, loops with one header, loops of one node, one loop found twice, loops through
unreachable nodes and through the entry, and graphs that are not reducible. Nodes
have distinct addresses, so that the comparison by address is one by node.

### Collate

A node is its type, the blocks whose instructions it has, its condition and its
successors. A condition is kept as its short-circuit evaluation (which test
first, what after either outcome), so that `Meaning` can compare programs
independently of how the graph is cut: which instructions or test come after the
start, after each block, and after either outcome of each test. `meaning`
is that of the graph before any rewriting.

The patterns of `CollateExpr::Run` are tried per node in the code's order,
`FirstMatch` picks the first node of the list with one. The second pattern
of `CollateNode::Run` is left out: whatever fits it fits the first. Predecessors
and dominance are read off the graph, since `FindDominators` runs before each pass
and is exact (`Dominators`). When a listed node points to a deleted one the next
`FindDominators` combines bit sets of different sizes, which boost leaves undefined:
phase `undefined`.

The code deletes some nodes that have another way in: the diamond pattern does
not look at predecessor counts, a node joined with its follower may be the
follower's successor, and the entry has a way in that `mPreds` does not count. The
history variable `careless` says that this has happened.

- `CarefulMeansSameProgram`: until then, every rewriting keeps the program.
- `CarefulMeansDefined`: and leaves a graph `FindDominators` can walk.
- `NothingLeft`, `Terminates`: the loop of `run()` ends, with nothing left to match.
- `JoinReconnects` (violated, `MCCollateJoin.cfg`): joining the head of a do-while
  loop with its tail leaves the new node pointing to the deleted head. All
  nodes are reachable in this run, so nothing about it is dead code.

Bounds: every list of four blocks, with or without instructions besides the jump.
Each of the patterns, two foldings in a row, a join that makes way for a folding and the
reverse occur.

### Structure

`main` is `mNodeList`, `statements` are the lists of nodes of the loop statements, `node` is
every node ever made, and `loops` is `mLoops` with the condition of the statement made of
each. `FindLoops` is one step here (`Loops` has it in detail, `InnerFirst` says in which
order its result is). `StructureWhileLoop` and `StructureDoWhileLoop` take the nodes of a
loop, and those only it leads to, off the list and put a node with the statement and two
stubs in their place. Then `StructureIfs` runs on the statement's nodes, and in the end on
the list: rounds of `CollateExpr`, one of the four `if` patterns, and `CollateNode`. Init
takes the lists in which the loop of `run()` finds nothing more to reduce, all of whose
nodes can be reached.

`Meaning` is that of `Collate`, extended by the statements: which instructions or test come
after the start, after each block and after either outcome of each test. The
expression of a statement and that of the jump it was taken from are one object, so a negation changes
both. Besides `done`, the analysis may end as `crashed` (a null break node is followed),
`stale` (an earlier loop took the header or the tail off the list, or has the same header)
or `undefined` (a node points to one that is off the list).

- `CarefulMeansSameProgram`: the statements do what the graph did, and nothing undefined
  happens, but for what is counted as `careless`. The reasons are:
  `work` (the header of a `while` has instructions besides its test, which then run once),
  `exit` (not just one of the header's successors is the break node),
  `door` and `again` (a body whose first node in text order is not where the header leads to, or that
  goes to the header from elsewhere than its tail), `leaves` and `entered` (the loop has another exit, or
  a stray node another entry), `negated` (the jump of a do-while's tail is printed with the negated
  condition), `empty` (the first arm of an if-else has no instruction), `epilogue` (a return
  is copied without what its node does before), `itself` (an `if` followed by its own
  node). Each is necessary: without any of them TLC finds another program.
- `CrashMeansNoWayOut`: a null break node is followed only where the last node of the
  function is in the loop or out of its reach.
- `TypeOK`: no list holds a deleted node or one with an unknown successor.

A node goes to its successor in the model: where the text of a list of statements needs
a `goto`, and in which order it is printed, is left out. So are the value a function
returns, and that a shared condition is also seen by an outer statement other than
by way of the tail or a `while`. A tail that is no conditional jump has an address for its first operand, which
is taken for a condition that holds. `StructureSwitches` only writes messages;
`StructureBreakContinue` is never called.

Bounds: every list of up to three blocks, with or without work; those of four and five whose
conditional jumps are bare and that return at the end; and four more with a test below the
body or an arm with nothing in it. Nested loops, loops with two tails, loops without an exit,
ifs in loops, loops in ifs, and ifs whose making lets others be made occur.

### DataFlow

`code` is the instruction list, cut into one node or into two that follow each other; `item` is
`Iterator()`, `stack` is `Stack()`, which the code does not empty between nodes. `phase`
says what is done next with the item: its unused definitions, the parameters of its calls, and the
handler for its type. An instruction keeps its place, by which a chain names it, and a deleted
one is marked, as `MarkForDeletion` does; the erase pool takes it off the list later.

Expressions are trees of registers, memory, operations and calls. `Meaning` runs the list
with all operations uninterpreted: which stores, calls and tests happen in which order, with
which values, what is in the live registers and what is on the stack at the end. Memory has
the value it had after the last effect, calls within an instruction come first, and a call
without collected parameters takes them off the stack. `meaning` is that of the
list before the analysis.

The code moves definitions further than it may. It looks for redefinitions only
of registers the target mentions, moves loads over stores and calls, replaces one use of a
register that is read twice, and moves on an assignment a call was moved into. The history variable
`careless` says that this has happened.

- `CarefulMeansSameProgram`: until then, the list does what it did. This needs the chains
  to be right, the live-out sets to be those of the original list although the list changes, and
  `mUses` and the last-definition flags to be handed on to the target.
- `StackIsLive`: on the stack are `PUSH`es that are still in the list, so none becomes a
  parameter twice.
- `UsesAreExact`: until then, `mUses` are the registers the operands read; but for the parameters
  of calls, which are never added to them, wherever the call is moved.
- `CallsStay` (violated, `MCDataFlowCalls.cfg`): after `eax = f(); ebx = eax + 1` the call moves into
  the addition, and when `ebx` is not used the whole instruction goes. `RemoveDefinition` looks
  for a call at the root of the operand only.

The model is of x86, where parameters are on the stack, with calls of named functions; of instructions with
different addresses; and without `TryBorlandThrow`. Left out too is what the code has commented out.
No action skips a deleted instruction: all of them lie behind the item, which `TypeOK` says.

Bounds: lists of four instructions around moving and removing and of five around pushing and calling, two
registers of which one may be live at the end, the list whole or cut after the third instruction, calls
with up to two or an unknown number of parameters. Moves into a target that moves on in its turn,
registers read twice, redefinitions between definition and use, parameters pushed in the other node
all occur.

### X86

`list` is `Instructions()`, `item` is `Iterator()`; `mFlagUpdate` and `mFlagUpdateItem` are
the last instruction seen to set the flags and its place in the list. Each action is the handler
that `OnLowLevel` calls for the instruction at the iterator, with all it tries first, in the code's
order. `Ahead` is `GetInstructions`: the machine instructions that follow, whatever labels are
between them. Erased elements are marked and stay, inserted ones come in front of the
iterator.

Correctness is a matter of the two programs: `X86Machine` says what the machine instructions do
and what the abstract ones do, and the properties run both from six different
starts. A byte has two bits there, so a word has sixteen values with a sign, a carry and
two halves. Register `al` has number 8 in `x86.hpp` and 16 in the headers of the disassembler; the
code uses both, and `al` is either.

- `CarefulMeansSameProgram`: once every instruction was handled, both programs make the same
  calls and copies, leave the same memory and end the same way, unless the
  handlers disregarded something. What they may disregard is `careless`: the flags a
  condition is made of are those of another path, or the operands have changed (`flags`);
  signedness (`sign`); a register an idiom leaves in another state, which is read later
  (`clobber`); a label within an idiom (`label`); operands the idiom does not
  check (`operand`, `byte`, `al`, `swap`, `high byte`, `movs`, `outside`, `dividend`); a base register (`base`), a
  far pointer (`pointer`); a prologue whose pushes are counted wrong (`prolog`); the number of a
  call's parameters (`arity`); a switch table whose header is not the plain one or some of whose labels are
  not found (`cases`); bytes the disassembler did not make code of (`truncated`).
- `IdiomsConvert`: the idioms as the comments write them are converted whole, and
  are not `careless`. `MCX86` lists with each idiom
  with which of the two numbers of `al` (8 and 16) it is right. Without this property `careless` could excuse everything.
- `AddressesTellApart`: when the walk is over, no two instructions have one address but the two
  assignments that stand for a division or for `abs`. `DataFlow` relies on it.
- `TypeOK`: addresses never go down along the list, and the flags come from a place the walk
  has been at.

Left out: operands with a SIB byte and 32 bit code, memory operands of byte size, the
names, enumerations and structure offsets the disassembler has for data; the frame (`sp` and
`bp` have no value). `TryLowByteAssign` is never called, `TryBorlandClass` never succeeds,
`TryXchgMov` and `TryBorlandThrow` are compiled out.

Bounds: each idiom as it is, with each line left out, with a label at each line and a jump to it,
and with another instruction put in at each place; every setter of flags with every conditional
jump and five things in between; `setcc`; loops; calls with every calling
convention and every way of cleaning up; every kind of operand; switches whose labels are in order
or not, with and without a header. `Large = 8` stands for `0x100`, which a word of four bits cannot hold.

### Negation and Printing

Expressions are trees, the three ways a condition changes are the actions, and
`jumps` is what the original jumps did, for every value of the leaves: taken or not,
and which comparisons in which order. The conditions are those the front ends make, and those
into which data flow analysis moved some arithmetic: operators that are not in the table of
negations, unary minus, a ternary.

`Printing` adds the text. `GenerateCode` gives the tokens and the parentheses, by the code's table
of precedences; `Read` is the grammar of C.

- `ConditionIsFaithful`: any series of negations and foldings agrees with `jumps`.
- `PrintsAsMeant`: the text printed for the condition is one expression of C and
  agrees with `jumps`, too. Counted as careless are a second operand with the precedence of its operator,
  which gets no parentheses (`a - (b - c)`), and the operator `xor` the front ends make.
- `NegationIsOpposite` (violated, `MCNegationNested.cfg`): `(a == b) != 0`, which
  data flow makes of a `setz` and a test of its result, negates to `(a != b) == 0`. The
  visitor goes into the operands of a comparison.

Bounds: up to three comparisons (two when nested), leaves with values -1, 0, 1: less,
equal and greater all occur. Overflow of the decompiled program's own
arithmetic is not looked at.

## Runs

| Run | Result | States (about) |
|---|---|---|
| `MCNodeList.cfg` | passes | 670,000 |
| `MCLiveRegisters.cfg` | passes | 377,000 |
| `MCDominators.cfg` | passes | 257,000 |
| `MCLoops.cfg` | passes | 367,000 |
| `MCCollate.cfg` | passes | 223,000 |
| `MCStructure.cfg` | passes | 45,000 |
| `MCDataFlow.cfg` | passes | 1,116,000 |
| `MCX86.cfg` | passes | 30,000 |
| `MCNegation.cfg` | passes | 68,000 |
| `MCCollateJoin.cfg` | `JoinReconnects` violated | |
| `MCDataFlowCalls.cfg` | `CallsStay` violated | |
| `MCNegationNested.cfg` | `NegationIsOpposite` violated | |

Deadlock is checked in `Negation` only: the others model functions that return.

Fairness is weak fairness of the next step (of the function's own steps in
`Dominators`): one thread, no waiting, nothing that can preempt it for ever.
`DataFlow` and `X86` assume none and have no liveness property: their walks only go forward.
`Structure` has the fairness but no liveness property either: it may stop as `crashed` or
`undefined`, and its loop is the one of `Collate`, for which `Terminates` is checked.

## Proofs

The proofs hold for every number of nodes, every graph and (for `LiveRegisters`)
every set of registers. The assumptions are `N \in Nat \ {0}` and, in `Loops`,
`MaxSuccessors \in Nat`; in `Dominators` `MaxSuccessors` is arbitrary. `DataFlow` assumes that
`Plans` are sequences of sets of kinds of instructions, that `Sources` are sequences of leaves for memory and
registers, and that `MaxParams` is a natural number; registers are arbitrary. `Negation` assumes that the
values of leaves are integers and that `MaxTests \in Nat \ {0}`. Those about `NodeList` hold for functions of every length `M`.

**NodeList.** What lies before `begin` is in nodes; a label is nowhere but at the beginning of
one, and a node ends where another begins (`PlaceInv`). Since a proper list ends with a transfer,
`begin` is behind its end when the walk is over (`EndInv`), which gives `NothingDropped`. The addresses a
node goes to are those of labels and of the instruction behind it (`TargetInv`). Both
begin a node then, so `ConnectSuccessors` finds one for each (`TargetIsNode`, `LinkInv`). A copy leads to
nodes if its original does, and redirecting a predecessor puts a node in the place of a
node (`CopyForGrows`). The recursions of `FlattenSeq` and of the loop over `mPreds` are unfolded with
`LeastNumber`: of a set of numbers, one is the least. It stands for induction, whose theorems in the
library the provers cannot use.

**NodeList, the flow.** `SameFlow` rests on a second invariant (`FlowInv`). The list a front end makes is in the order
of addresses, labels first, and two others of one address are a condition and what it guards
(`Listing`, which `JoinedBetween` builds up along `FlattenSeq`). A node begins at the first instruction, at a label or behind a
transfer, is left at its end only and goes where its last instruction says (`CutInv`); a
successor has the address it is looked up by, and a copy has that of its original (`Addressed`). What
remains is that an address names one place: a node with the address of a label begins with a label
(`StartsAtLabel`), and one with the address behind a conditional jump begins there (`StartsBehind`).
Both use what `Proper` says of conditionally executed instructions.

**LiveRegisters.** `NothingSpurious` is inductive with the types: a bit is added
because a successor has it or the node uses it, and the set of live
nodes is closed under just that. `NothingMissed` is not: it speaks of the return
only. The strengthening says that as long as `changed` is false, every node the walk has passed
satisfies its two equations with the current values (the updates are in
place, so a later one could spoil it; but it would have set `changed`), and that
`liveIn` is at all times at least what its equation gives from `liveOut`. When a
whole walk changes nothing, the marked nodes are closed backwards, and the live ones
are the least such set. That no bit is taken away (`OnlyGrows`) follows from the same invariant: a new
`liveOut` contains the old one, hence so does the new `liveIn`.

The refinement puts these together. `VisitNode` and `NextPass` are a `Collect`, which asks that
no bit goes (`OnlyGrows`) and that all are live afterwards (`NothingSpurious`); `Return` is
`Finish`, which asks that none is missing (`NothingMissed`). The goal never moves, since nothing
assigns to graph, uses and definitions.

**Dominators.** `NeverTooFew` is carried by an inductive lower bound: every true
dominator of a node dominates each of its predecessors, so no intersection removes it;
likewise backwards. This needs `preds` to be the inverse of `succ`, which holds only because it is
cleared in each call (`PredsInv`), and the entry's and exit's sets to be singletons
(`RootsInv`). Exactness adds the walk argument of `LiveRegisters`: without a change the nodes passed
satisfy their equation. The nodes that lack `d` in their set are then
closed under edges avoiding `d`, so all that can be reached without `d` lack it.

For `Saturation` it remains that no step sets a bit. Forwards that is plain, as a node's
set is intersected with others. Backwards the code starts from all bits, so that it rests
on what the set was computed from before: `ShrinkInv`, that its equation never gives
more than what is there, holds since the sets of the successors only shrink. A step is then a `Collect`, by the lower bound;
`Return` is `Finish`, by exactness; `Reconnect` is `Again`.

**Loops.** `HeaderDominatesLoop` and the inclusion of `nodes` in the natural loop are inductive
once it is known that the header is never looked behind (`StackInv`): what
dominates a node dominates its predecessors. The converse inclusion needs to know that no
predecessor is lost sight of (`PendingInv`): one that is not in the loop yet leads to
a node on the stack, or to the node being walked, at a place the iterator has not
passed. With the stack empty, `nodes` is then closed, and the natural loop is the least closed
set.

**Nesting of loops.** What is in `mLoops` are natural loops of back edges (`TrueInv`), and the loop of
each edge the walk has passed is among them (`FoundInv`); the sort neither loses nor makes a loop.
When all nodes can be reached, two headers that dominate one node are ordered by
dominance (`DominatorsInOrder`), and a loop whose header lies in another and is
dominated by the other header lies inside (`InsideOther`). That gives `LoopsNest`. For
`CyclesAreInLoops` let a node be in no loop. The nodes ahead of it along forward edges are left by no
back edge (`BackEdgesStayAhead`), so that a cycle through the node would have
forward edges only, which a reducible graph does not have.

**Order of the loops.** `InnerFirst` is a matter of the sort. The merge and the sort are recursive functions;
that there are such functions follows from `Recursion`, of module `Basics`. What they make of
lists of every length is then proved by taking the least part for which it fails:
the elements and their number stay, and where both lists have the outer loops
first, so has the merge (`IsMerge`), provided that the second has one element only or that all
are comparable (`Easy`). Up to three elements, all parts are cut before their
last element, so that the former always holds (`Halves`).

**Collate, the graph.** The lists of every number of blocks are meant here, with every jump. An invariant of the
nodes (`NodesInv`: each listed node has the successors its type asks for, all of them numbers
that exist) comes first. A fold asks of a pattern only that its new successors are ones the node or a
deleted node had (`Foldable`), and each of the six patterns gives that; so they are proved in one place
(`FoldInv`). `Closed`, that no listed node leads to one off the list, holds until the phase is
`undefined` (`WalkInv`). It is kept when what goes has no other way in, since a node that is led to by
one edge only is led to by no other node. `made` stays below `2 * N` because each join takes two nodes off the
list and puts one on. `MatchInv` says that with `matches` at zero the expression pass has just found
nothing in this very graph; with the test of `run()` this gives `NothingLeft`.

**Collate, the program.** `CarefulMeansSameProgram` is carried by `OnceInv`: every block is in one node and at one
place there, so is every test, and a condition that is evaluated comes to an end or to another test.
Then `AfterDo` and `AfterTest`, which choose a node, can have chosen only one. What is hard is `Enter`, which passes
control on through empty nodes, in a bounded recursion that ends in `Forever`. `EnterIs` takes the bound
out of it: an empty node enters as the next one does (`EntersAs`), and nodes
that pass control on among themselves only enter as `Forever` (`Trapped`). A rewriting is compared with the
graph before it through the set of nodes whose `Enter` it has changed: such a node is empty, and its successor
has changed too, so the set is a trap in both graphs, and all of it enters as
`Forever` before and after. The set is empty (`FoldEnters`, `JoinEnters`). The rest is local. For a
pattern: the condition it makes leads, after every outcome of every test, where the
two it is made of lead (`Faithful`, one lemma for each pattern). For a join: what comes after the last instruction
of the first node is the first one of the second. That `careless` is false is used where the pattern
would otherwise take a node away from another one that leads to it.

**DataFlow.** For every program (`Plans`, `Sources`), `StackIsLive` and `TypeOK` are inductive together with
`ListInv` (the list stays one of instructions, of the same length) and `BehindInv` (what is on
the stack lies behind the iterator, so the instruction at the iterator, which a step may
delete, is not on it). A call that collects deletes what it takes, and as places descend
from the top of the stack, none of it is left below. The program the walk starts from is defined by
recursion over its places; `OneMorePlace` gives it a closed form, again by `LeastNumber`.

**DataFlow, the uses.** `UsesAreExact` needs that a use which a chain names is still there when the walk comes
to the definition, since `Replace` takes the register off `mUses` and puts the definition's uses there, whatever
the operands are. This is `NeedInv`. It holds when the chains are made (`ReachInv`), and since no use is in two
chains (`ApartInv`: two definitions of one register, and the second ends what the first reaches) moving one
definition takes nothing from the chains of others. A use lies behind its definition (`AheadInv`), so it
is not deleted yet. Expressions are functions from paths to labels, so that
what a replacement does to them is a matter of prefixes of paths instead of induction
over trees: `GraftedTree` says that the result is a tree, `GraftedCalls` what lies under a call in it,
and `GraftedReads` which registers it reads. `TreesInv` (registers are leaves, the operands that an
instruction uses exist) makes these applicable. That `careless` is false is used for one thing: that
`Replace` found every read of the register.

**DataFlow, the program.** `CarefulMeansSameProgram` (theorem `Meant`) is carried by `ProgramInv`. Instructions have
their shape: finite trees for operands, at most one register defined, and only a call may still
want parameters (`ShapeInv`). Behind the item nothing does (`FullInv`). Of the instructions still to
come, the chain names every use its definition reaches in its node (until something is careless), and `mLast` is set if nothing there redefines it
(`KnownInv`). As long as the analysis is in the first node, the second is as the live-out set of the first
saw it (`NodeInv`): the analysis changes only the node it is in. Where the run of the list has come to the item,
the stack of values has one entry for each place on `Stack()`, and each is the value that the operand
of that `PUSH` had where the `PUSH` stands (`StackRun`). All of these are needed: without `FullInv` another
call could take, when the list runs, what `CollectParameters` gives to this one; without `StackRun` what a call
takes when it runs need not be what it is given.

A step is then a change to a list of any length, and two runs are compared. `Apart` says how two states
differ: in the values of some registers, by some entries of the stack, by a number of effects and by a set of events. An
instruction that does not look at the difference keeps it (`ExecutedApart`).
- A definition that is not used (`DeadChange`): the runs differ in its register only, up to where it is
  redefined or the list ends (`Dead`), which the empty chain and `NeededLater` imply (`NotNeeded`). For a
  definition in the first node this goes through what the second node reads.
- A definition that moves (`MovedChange`): between its old place and its new one the runs differ in the register, and if
  there is a call in it, in the effects and their numbers too. At the target both come together
  again (`Rejoins`): the value of a tree with another one grafted into it is the value of the tree
  with the value of the other one for the register (`SubstituteGrafted`), if memory is read and calls are made
  between the same effects as before (`GraftedCounts`). This is where each of the four conditions in
  `MoveIsCareless` is used.
- A call that collects (`CallCollected`, `CollectedMeans`): from the lowest of the `PUSH`es it takes, the runs differ by what has been
  pushed so far, more with every `PUSH` passed (`GatherPush`) and no less with any other
  instruction (`GatherPass`), which neither changes what was pushed nor pops it, since it would not be on
  `Stack()` then. At the call the values are the ones on the stack.

That trees have any depth costs no induction over them: substitution, application and subtrees are
characterized by the paths in them (`Filled`, `Applied` of `Basics`), and effects are
counted as sets of paths. The run of a list is a function on its places, which `RunIs` unfolds
and `Upward` and `LeastNumber` go along.

**Negation.** The trees are those of a depth of at most `MaxTests + 2`, and what is done with them is defined
by functions on this set. `TreesDef`, `VisitedDef`, `EvaluatedDef` and `TestedDef` say that these
functions exist, by `Recursion` along the level at which a tree appears first. The
invariant says, besides `ConditionIsFaithful`, that the condition is `Reversible`: negated it makes
the same tests with the opposite outcome, and negated twice it is itself. A junction is if its
operands are (`DeMorgan`, `JunctionReversible`). A comparison is if negation leaves its operands alone
(`ComparisonReversible`), which is so for what the front ends compare and for what data flow analysis moves there,
since the operators are not in the table and the visitor does not go below a unary
operator or a ternary (`ConditionsReversible`). The theorems assume that no comparison is compared in
its turn (`~Nested`). With one, `NegationIsOpposite` is violated, as the run shows.

| Theorem | States |
|---|---|
| `TypeCorrect` of `NodeListProofs`, `LiveRegistersProofs`, `DominatorsProofs`, `LoopsProofs`, `CollateProofs`, `DataFlowProofs` | `TypeOK` |
| `NodeListProofs!Covers`, `Connects`, `Flows` | `NothingDropped`, `AllConnected`, `SameFlow` |
| `SpuriousFree`, `Complete`, `Monotone` | `NothingSpurious`, `NothingMissed`, `OnlyGrows` |
| `Implements` | `CollectsLive`: `LiveRegisters` implements `Saturation` |
| `DominatorsComplete`, `DominatorsCorrect`, `PostDominatorsCorrect` | `NeverTooFew`, `DominatorsExact`, `PostDominatorsExact` |
| `Clears` | `ClearsWrong`: `Dominators` implements `Saturation`, call by call |
| `Dominated`, `Natural` | `HeaderDominatesLoop`, `LoopIsNatural` |
| `Nest`, `Cycles`, `First` | `LoopsNest`, `CyclesAreInLoops`, `InnerFirst` |
| `Defined`, `Finished` | `CarefulMeansDefined`, `NothingLeft` of `Collate` |
| `CollateProofs!Meant` | `CarefulMeansSameProgram` of `Collate` |
| `DataFlowProofs!Live`, `Exact`, `Meant` | `StackIsLive`, `UsesAreExact`, `CarefulMeansSameProgram` of `DataFlow` |
| `ConditionFaithful` | `ConditionIsFaithful`, unless comparisons are nested |
| `NegationOpposite` | `NegationIsOpposite`, unless comparisons are nested |

Only model-checked: termination everywhere (the proof system has no proofs of
liveness under fairness), and all of `Structure`, `X86` and `Printing`. The programs, texts and
graphs these work on are given a meaning by recursion over data, about which
the proof system has no induction but the one over numbers; `Structure`, `X86` and `Printing` use
recursive operators besides, and `X86Machine` the module `Bitwise`, which the provers
cannot read.

## Not modelled

- **ARM front end**. Of one instruction it makes one or several assignments, without
  looking ahead. The labels and conditional jumps around a conditionally executed instruction are the
  input of `NodeList`; the operands, `ldm`, `stm` and calls would have to be compared with a
  description of the processor that the repository does not have, and keep no state
  but the flags. Register parameters of ARM calls are left out of `DataFlow` with them.
- **Uses and definitions of nodes**. An arbitrary input of `LiveRegisters`, which is more than
  `UpdateUsesAndDefinitions` can produce; those of instructions are in `DataFlow`.
- **Branches in `DataFlow`**. Its nodes follow each other. What another node may read is the
  live-out set, which `LiveRegisters` shows to be right for every graph. Instructions that share
  an address are left out: `AddressesTellApart` says that the x86 front end makes next to none.
- **Erase pool**. That elements stay in the list until it is destroyed is in `DataFlow` and `X86`; the
  destructor is not, since nothing reads the marked elements any more.
- **Text**. Literals, calls, casts, types, labels, `goto`s and indentation.
- **`Node::Copy` of a switch** is phase `crash` of `NodeList`; no document says what should
  happen, so there is no property about it.
- **IDA wrappers, plugin driver, functions**. Menus, dialogs, dumps and calls into the IDA SDK.
  `comment_get_int` (`idapro.cpp`), which has no return at its end, is listed under the hazards.

Worth proving next: what is said of `Printing`, for which the reader of the text has to become a function
on the texts of a bounded length, and `TypeOK` of `Structure`, without the recursive operators.
