----------------------------- MODULE EntryPoint -----------------------------
(***************************************************************************)
(* The immutable compilation context every Node::build receives and hands  *)
(* on (src/include/EntryPoint.h, src/src/EntryPoint.cpp).  The C++ object  *)
(* keeps a chain of parents; byName only ever looks at the (name, entry)   *)
(* pairs of that chain, so the chain is the sequence of those pairs,       *)
(* innermost last.                                                         *)
(***************************************************************************)
EXTENDS Naturals, Sequences

CONSTANTS
  Name,   \* identifiers; a qualified name is the sequence of its segments
  Type    \* the instances of llvm-backed types, known by their name

Reps == {"scalar", "reference", "without"}

\* A value as the code generator tells values apart: its C++ class and type.
Value == [rep: Reps, type: Type]

NoValue == [rep |-> "none", type |-> "none"]

\* What markEntry freezes: the block and the call's values at a body's start.
Entry == [block: Nat, values: Seq(Value)]

NoEntry == [block |-> 0, values |-> <<>>]

Scope == [name: Name, entry: Entry]

\* The chain has at least the root.
EP == [block: Nat, scopes: Seq(Scope) \ {<<>>},
       locals: [Name -> Value \cup {NoValue}]]

RootName == <<"term">>

\* The context main.cpp builds every exported function in.
RootEP(block) ==
  [block |-> block, scopes |-> <<[name |-> RootName, entry |-> NoEntry]>>,
   locals |-> [n \in Name |-> NoValue]]

\* Mutant: the copy keeps the block of the original.
WithBlockForgotten(ep, block) == ep

WithBlock(ep, block) == [ep EXCEPT !.block = block]

WithLocals(ep, locals) == [ep EXCEPT !.locals = locals]

\* withName keeps the entry of the enclosing scope ...
WithName(ep, name) ==
  [ep EXCEPT !.scopes =
     Append(@, [name |-> name, entry |-> @[Len(@)].entry])]

\* ... until markEntry replaces it with the context as it is now.
MarkEntry(ep, values) ==
  [ep EXCEPT !.scopes =
     [@ EXCEPT ![Len(@)].entry = [block |-> ep.block, values |-> values]]]

\* Mutant: the name is not looked at.
ByNameInnermost(ep, name) == ep.scopes[Len(ep.scopes)].entry

\* The innermost enclosing scope of that name, or nothing.
ByName(ep, name) ==
  LET found == {i \in DOMAIN ep.scopes : ep.scopes[i].name = name} IN
  IF found = {} THEN NoEntry
  ELSE LET i == CHOOSE i \in found : \A j \in found : j <= i
       IN  ep.scopes[i].entry
=============================================================================
