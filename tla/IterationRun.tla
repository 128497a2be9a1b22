---------------------------- MODULE IterationRun ----------------------------
(***************************************************************************)
(* A compiled program runs: one action per instruction of FlowCode, on the *)
(* memory the allocas and virtual registers stand for.  The instructions   *)
(* are LLVM's, so that the actions model no code of the repository but     *)
(* what its output does.                                                   *)
(***************************************************************************)
EXTENDS IterationSyntax

CONSTANT Programs   \* what the checked programs were Prepared to, by name

\* LLVM accepts what a program became.
IsValid(made) == made.error = "none" /\ Verified(made)

\* Programs are compiled once; those that do not compile return nothing.
Prepared(trees) ==
  [p \in DOMAIN trees |->
    LET made == Compile(VisitProgram(trees[p]))
    IN  [code |-> made,
         meaning |-> IF IsValid(made) THEN Meaning(trees[p]) ELSE <<>>]]

VARIABLES
  program,   \* the name of the program that runs
  code,      \* and what it was compiled to
  block,     \* where: a block of its code
  next,      \* and the instruction in it that comes next
  memory,    \* what the slots written so far hold
  met,       \* history: where an index stood when its loop last went round
  status,    \* "running", "returned" or "rejected"
  result     \* what was returned

vars == <<program, code, block, next, memory, met, status, result>>

\* A program runs if it is accepted.
Init ==
  /\ program \in DOMAIN Programs
  /\ code = Programs[program].code
  /\ block = 1 /\ next = 1
  /\ memory = [slot \in {} |-> <<>>] /\ met = [b \in {} |-> 0]
  /\ status = IF IsValid(code) THEN "running" ELSE "rejected"
  /\ result = <<>>

-----------------------------------------------------------------------------
Instruction == code.blocks[block][next]

\* The slots an instruction reads.
Reads(i) ==
  CASE i.op = "set" -> {i.from.slot}
    [] i.op = "compute" -> {i.left.slot, i.right.slot}
    [] i.op = "increment" -> {i.to}
    [] i.op \in {"character", "ifIndex"} -> {i.at}
    [] i.op \in {"if", "ret"} -> {i.of.slot}
    [] OTHER -> {}

\* What is read has been written before, and a character is one of the text or
\* the terminator behind it.  What happens otherwise is undefined, and the
\* program stops.
Defined ==
  /\ Reads(Instruction) \ {0} \subseteq DOMAIN memory
  /\ Instruction.op = "character" =>
       memory[Instruction.at] \in 0 .. Len(Instruction.text)

Executes(op) ==
  /\ status = "running"
  /\ Instruction.op = op
  /\ Defined

Content(operand) == IF operand.slot = 0 THEN operand.value
                    ELSE memory[operand.slot]

Write(slot, value) ==
  /\ memory' = (slot :> value) @@ memory
  /\ next' = next + 1
  /\ UNCHANGED <<program, code, block, met, status, result>>

\* A block is entered at its first instruction; a loop that goes round again
\* is at the index it is at.
GoTo(b) ==
  /\ block' = b /\ next' = 1
  /\ met' = FoldSet(LAMBDA h, all :
                      IF h.block = b /\ h.index \in DOMAIN memory
                      THEN (h.index :> memory[h.index]) @@ all ELSE all,
                    met, code.heads)
  /\ UNCHANGED <<program, code, memory, status, result>>

SetSlot ==
  /\ Executes("set")
  /\ Write(Instruction.to, Content(Instruction.from))

ComputeSlot ==
  /\ Executes("compute")
  /\ Write(Instruction.to, EvalBinary(Instruction.operator,
                                      Content(Instruction.left),
                                      Content(Instruction.right)))

ZeroIndex == Executes("zero") /\ Write(Instruction.to, 0)

AdvanceIndex ==
  /\ Executes("increment")
  /\ Write(Instruction.to, memory[Instruction.to] + 1)

ReadCharacter ==
  /\ Executes("character")
  /\ Write(Instruction.to,
           IF memory[Instruction.at] = Len(Instruction.text) THEN Nul
           ELSE <<Instruction.text[memory[Instruction.at] + 1]>>)

TakeJump == Executes("jump") /\ GoTo(Instruction.to)

TakeBranch ==
  /\ Executes("if")
  /\ GoTo(IF Content(Instruction.of) THEN Instruction.yes ELSE Instruction.no)

TakeIndexBranch ==
  /\ Executes("ifIndex")
  /\ LET index == memory[Instruction.at]
         holds == IF Instruction.relation = "=" THEN index = Instruction.bound
                  ELSE index < Instruction.bound
     IN  GoTo(IF holds THEN Instruction.yes ELSE Instruction.no)

Return ==
  /\ Executes("ret")
  /\ status' = "returned" /\ result' = Content(Instruction.of)
  /\ UNCHANGED <<program, code, block, next, memory, met>>

Execute == SetSlot \/ ComputeSlot \/ ZeroIndex \/ AdvanceIndex \/ ReadCharacter
             \/ TakeJump \/ TakeBranch \/ TakeIndexBranch \/ Return

Stop == status # "running" /\ UNCHANGED vars

Next == Execute \/ Stop

\* The processor does not stop by itself.
Spec == Init /\ [][Next]_vars /\ WF_vars(Execute)

-----------------------------------------------------------------------------
TypeOK ==
  /\ program \in DOMAIN Programs
  /\ block \in code.inserted
  /\ next \in DOMAIN code.blocks[block]
  /\ DOMAIN memory \subseteq 1..code.slots
  /\ DOMAIN met \subseteq {h.index : h \in code.heads}
  /\ status \in {"running", "returned", "rejected"}

\* The programs compile, and LLVM accepts the functions they become.
Accepted == status # "rejected"

\* Whatever a program iterates over, and however its loops are nested or
\* abandoned half way: what it returns is made of every element it asked for,
\* once, in order, and of nothing else.
ReturnsItsMeaning ==
  status = "returned" => result = Programs[program].meaning

\* No index, element or argument is read before it was written, on any path
\* the branches of the loops leave open.
NothingIsUndefined == status = "running" => Defined

\* A loop that goes round either starts anew at its first element or has gone
\* on by exactly one: nothing is skipped and nothing seen twice.
GoesOnByOne ==
  [][\A h \in code.heads :
       block' = h.block /\ next' = 1 =>
         \/ met'[h.index] = 0
         \/ h.index \in DOMAIN met /\ met'[h.index] = met[h.index] + 1]_vars

\* Everything finite that is iterated over comes to its end.
LoopsEnd == <>(status = "returned")
=============================================================================
