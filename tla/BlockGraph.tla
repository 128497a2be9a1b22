----------------------------- MODULE BlockGraph -----------------------------
(***************************************************************************)
(* The flow graph of the LLVM function under construction, as the code     *)
(* generator manipulates it: basic blocks are appended, inserted into the  *)
(* function at most once, filled with instructions and closed by one       *)
(* terminator (src/src/Utility.cpp, src/src/IRBuilderEx.cpp).              *)
(*                                                                         *)
(* A graph is a sequence of blocks; a block is known by its index.         *)
(* Instructions are abstracted to the two facts the verifier looks at: the *)
(* kind of the LAST instruction of the block and whether anything was ever *)
(* put behind a terminator or built from operands of the wrong type.       *)
(***************************************************************************)
EXTENDS Naturals, Sequences, FiniteSets

\* What the block was created for.
Roles == {"alloc", "body", "true", "false", "merge", "junction",
          "function", "consumer", "entry"}

\* "open" stands for every instruction that is not a terminator.
Terminators == {"br", "cond", "ret"}

Block == [role: Roles, inserted: BOOLEAN, last: Terminators \cup {"open"},
          targets: SUBSET Nat, malformed: BOOLEAN]

\* llvm::BasicBlock::Create: with the function as an argument the block is
\* inserted at once, without it insertBlock has to do so later.
NewBlock(role, inserted) ==
  [role |-> role, inserted |-> inserted, last |-> "open", targets |-> {},
   malformed |-> FALSE]

AddBlocks(graph, role, inserted, n) ==
  graph \o [i \in 1..n |-> NewBlock(role, inserted)]

InsertBlock(graph, b) == [graph EXCEPT ![b].inserted = TRUE]

\* An instruction appended behind whatever the block ends with.
Emit(graph, b) ==
  [graph EXCEPT ![b].malformed = @ \/ graph[b].last # "open",
                ![b].last = "open"]

\* The same for an instruction whose operands LLVM requires to agree.
EmitTyped(graph, b, agree) ==
  [graph EXCEPT ![b].malformed = @ \/ graph[b].last # "open" \/ ~agree,
                ![b].last = "open"]

\* createCondBr, createRet and CreateBr append a terminator unconditionally.
Terminate(graph, b, kind, targets, agree) ==
  [graph EXCEPT ![b].malformed = @ \/ graph[b].last # "open" \/ ~agree,
                ![b].last = kind,
                ![b].targets = @ \cup targets]

\* linkBlocks throws when the source already ends with a branch.
Linkable(graph, b) == graph[b].last \notin {"br", "cond"}

\* Mutant: source and target exchanged.
LinkBlocksSwapped(graph, b, t) == Terminate(graph, t, "br", {b}, TRUE)

LinkBlocks(graph, b, t) == Terminate(graph, b, "br", {t}, TRUE)

\* Mutant: every result is linked to the target of one of them.
LinkEachToOne(graph, I, from, to, insert) ==
  [b \in 1..Len(graph) |->
     IF b \notin {from[i] : i \in I} THEN graph[b]
     ELSE [graph[b] EXCEPT !.inserted = @ \/ insert, !.last = "br",
                           !.targets = @ \cup {to[CHOOSE i \in I : TRUE]}]]

\* Mutant: insertBlock is forgotten.
LinkEachUninserted(graph, I, from, to, insert) ==
  [b \in 1..Len(graph) |->
     IF b \notin {from[i] : i \in I} THEN graph[b]
     ELSE [graph[b] EXCEPT
             !.last = "br",
             !.targets = @ \cup {to[i] : i \in {j \in I : from[j] = b}}]]

\* The loops that link a set I of results: end i of the loop writes to block
\* from[i] (a store, when emitting) and links it to block to[i].  Two ends in
\* one block put the second behind the branch of the first.
LinkEach(graph, I, from, to, insert) ==
  [b \in 1..Len(graph) |->
     LET mine == {i \in I : from[i] = b} IN
     IF mine = {} THEN graph[b]
     ELSE [graph[b] EXCEPT
             !.inserted = @ \/ insert,
             !.malformed = @ \/ graph[b].last # "open" \/ Cardinality(mine) > 1,
             !.last = "br",
             !.targets = @ \cup {to[i] : i \in mine}]]

\* Without a store in between, linkBlocks meets the earlier branch itself.
EachLinkable(graph, I, from) ==
  \A i \in I : /\ Linkable(graph, from[i])
               /\ \A j \in I : from[i] = from[j] => i = j

\* verifyModule: every block of the function ends with its only terminator
\* and branches to blocks of the same function.
Verified(graph) ==
  \A b \in DOMAIN graph : graph[b].inserted =>
     /\ ~graph[b].malformed
     /\ graph[b].last \in Terminators
     /\ \A t \in graph[b].targets : graph[t].inserted
=============================================================================
