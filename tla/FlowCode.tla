------------------------------ MODULE FlowCode ------------------------------
(***************************************************************************)
(* The code that iteration is compiled to, instruction by instruction, and *)
(* the contexts it is compiled in: a finer view of the flow graph than     *)
(* BlockGraph has (src/src/IRBuilderEx.cpp, src/src/Utility.cpp) and of    *)
(* EntryPoint, with the depths, values and iterator storages that decide   *)
(* where a loop goes back to (src/src/EntryPoint.cpp).                     *)
(*                                                                         *)
(* Code under construction is a record: the instructions of every block,   *)
(* the blocks inserted into the function, the number of memory slots (one  *)
(* per alloca and per virtual register), the iterator storages (each a     *)
(* function from node ids to slots) and the exception that ended it all.   *)
(* "heads" is history: the blocks a loop over an array starts at.          *)
(***************************************************************************)
EXTENDS Integers, Sequences, SequencesExt

NoCode == [blocks |-> <<>>, inserted |-> {}, slots |-> 0, storages |-> <<>>,
           heads |-> {}, error |-> "none"]

\* An operand is a constant or the content of a slot.
Constant(value) == [slot |-> 0, value |-> value]
Slot(s) == [slot |-> s, value |-> <<>>]

Set(to, from) == [op |-> "set", to |-> to, from |-> from]
Compute(to, operator, left, right) ==
  [op |-> "compute", to |-> to, operator |-> operator, left |-> left,
   right |-> right]
Zero(to) == [op |-> "zero", to |-> to]
Increment(to) == [op |-> "increment", to |-> to]
Character(to, text, at) ==
  [op |-> "character", to |-> to, text |-> text, at |-> at]
Jump(to) == [op |-> "jump", to |-> to]
If(of, yes, no) == [op |-> "if", of |-> of, yes |-> yes, no |-> no]
IfIndex(at, relation, bound, yes, no) ==
  [op |-> "ifIndex", at |-> at, relation |-> relation, bound |-> bound,
   yes |-> yes, no |-> no]
Ret(of) == [op |-> "ret", of |-> of]
\* A store of something into a place for something else.
Misfit == [op |-> "misfit"]

Branches == {"jump", "if", "ifIndex"}
Terminators == Branches \cup {"ret"}

\* The first exception is the one that is seen.
Throw(code, what) ==
  [code EXCEPT !.error = IF @ = "none" THEN what ELSE @]

AddBlock(code) == [code EXCEPT !.blocks = Append(@, <<>>)]

InsertBlock(code, b) == [code EXCEPT !.inserted = @ \cup {b}]

Emit(code, b, instruction) ==
  [code EXCEPT !.blocks[b] = Append(@, instruction)]

\* alloca, or the result of an instruction; a new slot holds nothing yet.
AddSlot(code) == [code EXCEPT !.slots = @ + 1]

EmitInto(code, b, instruction) == Emit(AddSlot(code), b, instruction)

Closed(code, b) ==
  code.blocks[b] # <<>> /\ Last(code.blocks[b]).op \in Branches

LinkBlocks(code, b, to) ==
  IF Closed(code, b) THEN Throw(code, "linkBlocks") ELSE Emit(code, b, Jump(to))

\* What verifyFunction checks: an inserted block ends with its only
\* terminator, which goes to inserted blocks, and what is stored fits.
Targets(instruction) ==
  CASE instruction.op = "jump" -> {instruction.to}
    [] instruction.op \in {"if", "ifIndex"} -> {instruction.yes, instruction.no}
    [] OTHER -> {}

Verified(code) ==
  \A b \in code.inserted :
    LET block == code.blocks[b] IN
    /\ block # <<>>
    /\ \A i \in DOMAIN block :
         /\ block[i].op \in Terminators <=> i = Len(block)
         /\ block[i] # Misfit
    /\ Targets(Last(block)) \subseteq code.inserted

-----------------------------------------------------------------------------
(* Contexts.  Every copy is one deeper than its original.                  *)

NoEntry == [block |-> 0, depth |-> 0, values |-> <<>>]

\* The context the body of an exported function is built in.
RootContext(functions, block) ==
  [block |-> block, depth |-> 3, functions |-> functions,
   scopes |-> <<[name |-> "term", entry |-> NoEntry]>>,
   locals |-> [name \in {} |-> NoEntry], values |-> <<>>, storage |-> 0]

Deeper(ep) == [ep EXCEPT !.depth = @ + 1]

WithBlock(ep, block) == [Deeper(ep) EXCEPT !.block = block]
WithLocals(ep, locals) == [Deeper(ep) EXCEPT !.locals = locals]
WithValues(ep, values) == [Deeper(ep) EXCEPT !.values = values]
WithStorage(ep, storage) == [Deeper(ep) EXCEPT !.storage = storage]
WithDepth(ep, depth) == [ep EXCEPT !.depth = depth]

WithName(ep, name) ==
  [Deeper(ep) EXCEPT !.scopes =
     Append(@, [name |-> name, entry |-> Last(@).entry])]

MarkEntry(ep) ==
  [Deeper(ep) EXCEPT !.scopes[Len(ep.scopes)].entry =
     [block |-> ep.block, depth |-> ep.depth, values |-> ep.values]]

\* The entry frozen last, or the context itself.
EntryOf(ep) ==
  IF Last(ep.scopes).entry.block # 0 THEN Last(ep.scopes).entry
  ELSE [block |-> ep.block, depth |-> ep.depth, values |-> ep.values]

ByName(ep, name) ==
  LET i == SelectLastInSeq(ep.scopes, LAMBDA s : s.name = name)
  IN  IF i = 0 THEN NoEntry ELSE ep.scopes[i].entry
=============================================================================
