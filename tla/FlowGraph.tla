------------------------------ MODULE FlowGraph ------------------------------
(***************************************************************************)
(* What the code generator promises, without nodes, values or a call       *)
(* stack: the LLVM function of an exported function grows from its first   *)
(* block at ends that are still to be continued.  An end is closed once,   *)
(* by a branch to blocks that are new or back to one where an invocation   *)
(* starts; what is new is an end itself or returns; and a module is        *)
(* complete when no end is left.                                           *)
(***************************************************************************)
EXTENDS Naturals, FiniteSets

VARIABLES
  count,     \* the blocks so far are 1 to count
  ends,      \* those that somebody is still to continue
  edges,     \* the branches, from a block to a block
  heads,     \* the blocks of invocations, to which tail calls may jump
  returns,   \* the blocks that return from the exported function
  outcome    \* "running", "built" or "failed"

vars == <<count, ends, edges, heads, returns, outcome>>

\* The alloc block branches to the one the body starts in.
Init ==
  /\ count = 2 /\ ends = {2} /\ edges = {<<1, 2>>}
  /\ heads = {} /\ returns = {} /\ outcome = "running"

Generating == outcome = "running" /\ UNCHANGED outcome

\* A condition: two ends for one.
Branch(e) ==
  /\ Generating
  /\ count' = count + 2
  /\ ends' = (ends \ {e}) \cup {count + 1, count + 2}
  /\ edges' = edges \cup {<<e, count + 1>>, <<e, count + 2>>}
  /\ UNCHANGED <<heads, returns>>

\* A call: the callee starts in a block of its own.
Enter(e) ==
  /\ Generating
  /\ count' = count + 1
  /\ ends' = (ends \ {e}) \cup {count + 1}
  /\ edges' = edges \cup {<<e, count + 1>>}
  /\ heads' = heads \cup {count + 1}
  /\ UNCHANGED returns

\* Some ends go on in n new blocks, none of which is left out.
Join(closed, n) ==
  /\ Generating
  /\ count' = count + n
  /\ \E to \in [closed -> count + 1 .. count + n] :
       /\ \A b \in count + 1 .. count + n : \E e \in closed : to[e] = b
       /\ edges' = edges \cup {<<e, to[e]>> : e \in closed}
  /\ ends' = (ends \ closed) \cup (count + 1 .. count + n)
  /\ UNCHANGED <<heads, returns>>

\* A tail call: back to where a running invocation started.
Jump(e, h) ==
  /\ Generating
  /\ ends' = ends \ {e}
  /\ edges' = edges \cup {<<e, h>>}
  /\ UNCHANGED <<count, heads, returns>>

\* The exported function returns, in a block of its own.
Exit(e) ==
  /\ Generating
  /\ count' = count + 1
  /\ ends' = ends \ {e}
  /\ edges' = edges \cup {<<e, count + 1>>}
  /\ returns' = returns \cup {count + 1}
  /\ UNCHANGED heads

\* Nothing is left to be continued, and LLVM accepts the module.
Complete ==
  /\ outcome = "running" /\ ends = {}
  /\ outcome' = "built"
  /\ UNCHANGED <<count, ends, edges, heads, returns>>

\* An exception: nobody continues anything.
Fail ==
  /\ outcome = "running"
  /\ outcome' = "failed" /\ ends' = {}
  /\ UNCHANGED <<count, edges, heads, returns>>

Next ==
  \/ \E e \in ends : Branch(e) \/ Enter(e) \/ Exit(e) \/ \E h \in heads : Jump(e, h)
  \/ \E closed \in SUBSET ends : \E n \in 1 .. Cardinality(closed) : Join(closed, n)
  \/ Complete \/ Fail

Spec == Init /\ [][Next]_vars
=============================================================================
