# A TLA+ model of the fluenc compiler

`fcc` compiles the language fluenc to native code: it scans a directory for
`.fc` files, turns each one into a graph of nodes, asks the graph of every
exported function to build itself into LLVM IR, writes an object file for each
file with exported functions and links them.  This directory models the parts of the
compiler that decide something: the code generator, checked with TLC on real
programs (most of them from the test suite, `test/main.cpp`); iteration, from
syntax tree to running code, against an interpreter; structures, their names,
their base types and their way to C and back, checked over everything a program
can do with them; and the incremental build driver, checked over runs, edits,
failures and kills, and shown to implement a driver that knows which files a job
uses.  TLAPS proves facts about the first and the last two.

Paths in this document are relative to the repository.

## 1. Inventory

### The system's parts

| part | code | state it keeps | operations |
|---|---|---|---|
| build driver | `src/main.cpp` | the jobs (module, times of source and object), the list of objects to link | scan, analyze, isStale, processUses, build, write, link |
| visitor | `src/Visitor.cpp` | namespace, the consumer of the expression (alpha), the consumer of the enclosing block (beta) | one visit per syntax rule |
| node graph | `src/nodes/*` | immutable after the visitor; what changes is the flow graph | `build(entryPoint, values)` returns a vector of results |
| compilation context | `src/EntryPoint.cpp` | block, chain of parents with names and frozen entries, locals, depth, iterator storage | with..., markEntry, byName |
| value stack | `src/Stack.cpp` | a vector of values | push, pop, require, request |
| flow graph | `src/Utility.cpp`, `src/IRBuilderEx.cpp` | the blocks of the LLVM function | insertBlock, linkBlocks, one method per instruction |
| call machinery | `FunctionCallProxyNode`, `StackSegmentNode`, `JunctionNode`, `FunctionCallNode`, `FunctionNode`, `ImportedFunctionNode` | - | tail-call test, evaluation of arguments, overload resolution, inlining, joining of results |
| branching | `ConditionalNode`, `ReturnNode`, the terminators | - | branch, merge per type |
| types | `src/types/*`, `include/types/*` | singletons and caches of composite types | compatibility |
| lazy values, iteration | `LazyEvaluationNode`, `ExpansionNode`, `ContinuationNode`, the array nodes, `src/values/*`, `src/IteratorStorage.cpp` | iterator storage, depth | generate, expand, continue, assign |
| value transfer | `src/ValueHelper.cpp`, `ReferenceSinkNode`, the `clone`s | the allocas of the function | copy, clone, transfer |
| names of types | `qualifiedNames` in `src/Visitor.cpp`, `src/DzTypeName.cpp` | the table of the declared types | declare, resolve |
| user types | `InstantiationNode`, `Prototype`, the prototype providers | - | resolve fields over the base types |
| C interop | `src/InteropHelper.cpp`, `ImportedFunctionNode` | a block of memory per structure passed | write, call, read |
| diagnostics | `src/exceptions/*`, `src/CompilerException.cpp` | position and message | thrown, printed by the driver |

### How they interact

Everything inside a process is synchronous and in one thread; what outlives a
process are the object files and their times, which the next run judges by.
The driver calls the visitor for
each file, keeps the modules, and calls `build` of the exported functions.  The
visitor turns a tree inside out: every node knows who consumes its value, so
building a node means building the rest of the function behind it.  A node
hands its consumer a context and a stack of values, both by value; it gets back
every *open end* of the flow graph with the values it carries.  Nothing is
shared between two branches except the flow graph itself, which is the only
thing that is mutated, through the block in a context.  A function has no code
of its own: every call builds the body of the callee again, in the block of the
call.  Two things connect an outer and an inner build: the chain of named
scopes (a recursive call finds its own running invocation there and jumps back
to it) and the results on the way back, which are grouped by the address of
their type in a `std::multimap`.

### What is hard

* **Who writes to a block.**  A continuation is built once per result, contexts
  are copied into every branch, and nobody owns a block: `linkBlocks` throws, or
  the verifier complains, if two copies end up writing to one block or if one is
  forgotten.
* **Multiple results.**  A call of a function with branches returns several
  results with several types; results are merged by conditionals, joined by
  junctions, passed through by calls, dropped if they carry something else than
  one value.
* **Tail calls.**  Two separate tests decide that a call becomes a jump, by
  unqualified name, types and number of values; one of them looks at the wrong
  values (see Findings).
* **Order.**  Groups of results come in the order in which type singletons lie
  in memory, which differs between processes.
* **Termination.**  Since every call is inlined, the compilation of a recursive
  function ends only because the recursion is recognised as a jump.
* **Incremental builds.**  Whether an object can be kept is decided from file
  times and the uses as they are now; sources change during and between runs,
  jobs fail one by one, a run can be killed while it writes, and uses form any
  graph, also a cyclic one.
* **Loops without a loop.**  An array is a chain of branches on an index, an
  iterator function a return with a way to go on, and a loop is closed by a tail
  call that finds, by depth, the head to jump to.  Which index a literal has,
  where it is set to zero and which of several nested loops goes on next is
  decided while branches are copied into each other.
* **Values that are not in memory.**  Functions, strings, arrays and tuples are
  values of the compiler.  Where branches meet or a loop goes on, only what is in
  allocas can be replaced.
* **Structures.**  A structure inherits fields and fits parameters through any
  acyclic graph of base types; `with` derives a structure that shares storage with
  the original; jumps overwrite structures in place.
* **Errors.**  A program with a fault has to be rejected in one of four places:
  by resolution, by a value of the wrong kind, by `linkBlocks`, by the verifier.

`PROJECT.json` lists every hazard at its line, with the properties that cover it, or why
none does: some are left out of the property they are about (torn objects and edits during
a run, of `LinkIsCurrent`), and for some the program that shows them is in no run (section 3).

### What makes each part correct

* flow graph: each block belongs to one open end or is closed; nothing dangles;
  everything inserted is reachable; only jumps of tail calls go backwards.
* calls: a jump lands in the function that resolution would pick; only calls in
  tail position jump; the continuation runs in the caller's scopes and locals,
  and once per type.
* resolution: a call that does not resolve, or not uniquely, is an error.
* iteration: a program returns what its meaning over lists is: every element that
  is asked for, once, in order; loops go on by one element and end; nothing is
  read before it was written.
* structures: a field has the value it was given, else its default; a call runs
  the overload for the nearest base type; a callee changes no structure of its
  callers; what C reads is what was written.
* build driver: a job is compiled exactly when something it uses is newer than
  its object, from every module it needs, once; what is linked is complete and
  is what compiling the current sources would give; a failure is not forgotten.
* compilation as a whole: it ends; a correct program becomes a module the
  verifier accepts; a faulty one does not.

## 2. The modules

| module | models | built on |
|---|---|---|
| `BlockGraph` | the flow graph and its primitives | - |
| `EntryPoint` | the compilation context | - |
| `FlowGraph` | what the code generator promises: a function grows at its open ends until none is left | - |
| `CallResolution` | compatibility, scoring, `findFunction`, the tail-call tests | `EntryPoint` |
| `CodeGen` | `build` of the nodes as a state machine | `BlockGraph`, `CallResolution`, `FlowGraph` (as `Flow`) |
| `Visitor` | from syntax trees to nodes (for runs only: recursion over data) | `CodeGen`, `TypeNames` |
| `MCCodeGen` | programs and the constants of the runs | `Visitor` |
| `CodeGenProofs` | type correctness of `CodeGen`, proved | `CodeGen` |
| `CodeGenFlow` | the shape of the generated flow graph, proved | `CodeGenProofs` |
| `CodeGenEnds` | that every end is continued, once, and not after it is closed, so that `CodeGen` implements `FlowGraph`, proved | `CodeGenFlow` |
| `CodeGenContexts` | where tail calls land, and that callers go on in their scope, proved | `CodeGenProofs` |
| `FlowCode` | the flow graph again, with its instructions, and contexts with depth, values and iterator storage (operators) | - |
| `Iteration` | `build`, `generate`, `clone` and `transferValue` for lazy values, tuples, strings, functions, structures (operators) | `FlowCode` |
| `IterationSyntax` | from syntax trees to those nodes, and an interpreter of the trees | `Iteration` |
| `IterationRun` | the compiled program running, one action per instruction | `IterationSyntax` |
| `MCIteration` | the programs of the iteration runs | `IterationRun` |
| `TypeNames` | which type a written name is, in which namespace (operators) | - |
| `Prototypes` | fields and compatibility over the base types, resolution for one structure (operators) | `TypeNames` |
| `StructValues` | a program at work with structures: instantiation, `with`, calls, jumps, returns | `Prototypes` |
| `Interop` | structures that are passed to C and come back | `StructValues` |
| `MCStructValues` | programs for the runs of `Interop` and `StructValues` | `Interop` |
| `StructValuesProofs` | types, storage, instantiation, resolution and the way to C, proved | `Interop` |
| `Make` | what the driver promises: one decision per job, from the files it uses | - |
| `BuildDriver` | `main.cpp`: scan, staleness, merging, building, linking, over many runs | `Make` (as `Promise`) |
| `MCBuildDriver` | directories for the runs of `BuildDriver` | `BuildDriver` |
| `BuildDriverProofs` | types, staleness, merging and linking, proved | `BuildDriver` |
| `BuildDriverRefinement` | that `BuildDriver` implements `Make`, proved | `BuildDriverProofs` |
| `BuildDriverHistory` | what runs have to do with earlier runs, proved | `BuildDriverRefinement` |

`CodeGen` and `BuildDriver` meet in one place: whether `root->build` throws, or the verifier
rejects what it built, is decided by `CodeGen` and is a free choice
(`Build`, `BuildFails`, `VerifyFails`) in `BuildDriver`.

### CodeGen: state and actions

The C++ recursion is made explicit.  `pc = "build"` means that `node->build(ep,
values)` has been called; `pc = "return"` that the innermost call has returned
`results`.  `frames` is the C++ stack: each frame is a call that waits, with the
local variables that are live.

| frame | waiting in | for |
|---|---|---|
| `global` | `MemberAccessNode::build` | the value of a global |
| `ifTrue`, `ifFalse` | `ConditionalNode::build` | the first, the second branch |
| `junction` | `FunctionCallProxyNode::regularCall` and `JunctionNode::build` | the results of the call |
| `argument` | `StackSegmentNode::build`, the accumulate | the results of one argument |
| `each` | every loop "for each result, build the consumer" | the results of one consumer |
| `function` | `FunctionCallNode::regularCall` | the results of the callee's body |

There is one action per build method and one per return into a frame.  A throw
in C++ ends the compilation (`pc = "thrown"`, `error` names the exception); the
driver never continues with a module after one.

What is abstracted:

* `scopes` is the chain of `(m_name, m_entry)` pairs of the parents, all that
  `byName` ever looks at; depth, iterator storage and values of a context only
  matter to lazy and expanded values.  `markEntry` freezes block and values.
* A block keeps the kind of its last instruction, its targets and whether
  something was put behind a terminator or built from operands that do not
  agree: all that `linkBlocks` and the verifier ask.
* Values are their C++ class and type.  Instructions other than terminators are
  one kind.
* Arguments are built from the first to the last: `std::sort` in
  `StackSegmentNode` compares `order`, which is the same for all arguments in
  this fragment, and libstdc++ sorts up to 16 elements by insertion, which is
  stable.
* The evaluated and the unevaluated segment of a proxy are the same, because a
  `LazyEvaluationNode` hands values that are not lazy to its consumer.
* `address` is chosen once, from `Layout`: it orders the groups of results.
* `pop` of an empty stack is undefined in C++; it ends the model with the error
  `underflow`, which the runs treat like every other error.
* Scores are at most the number of arguments, so the `int8_t` they are summed in
  cannot overflow below 128 arguments.

Lazy values and iteration, tuples, user types, strings, values that are
functions, the chained return and iterator functions are left to `Iteration`;
the programs of these runs do not use them.

### Iteration: code, meaning and run

`CodeGen` follows the compiler through one program step by step, which is needed
where the question is in what state it leaves the flow graph.  For iteration the
question is what the compiled program does, so here the compiler is a function,
`Compile(VisitProgram(tree))`, one operator for every `build`, `generate`,
`clone` and `transferValue`, and the state machine is the program it returns.

| state | stands for |
|---|---|
| `program`, `code` | the tree that was compiled and the code it became |
| `block`, `next` | the next instruction |
| `memory` | what was stored in allocas and virtual registers so far |
| `status`, `result` | running, returned with a value, or never accepted |
| `met` | history: where an index stood when its loop last went round |

There is one action per kind of instruction; the instructions are LLVM's, so that
the actions model no code of the repository, but what it emits.  `Meaning(tree)`
is an interpreter of the same trees: an iterator is the list of its elements,
`->` concatenates, an expansion is the rest of a list, a structure is its fields.
It has no blocks, jumps, indices or storage.

The correspondence is by name: `BuildReturn` is `ReturnNode::build`, `Digest` is
`LazyEvaluationNode::digestDepth`, `AssignFrom` is `LazyValue::assignFrom`,
`Transfer` is `ValueHelper::transferValue`, `OutermostLoop` and `OutermostOf` are
the two `findTailCallTarget`s.  What is abstracted:

* A number is the sequence of the literals it is the sum of, compared by its
  length: order and number of the elements met show in every result.
* Groups of results come in the order they are met, not by address (`CodeGen`
  has the addresses); there are no namespaces, imports and globals.
* Iterator types are told apart by identity, as in the source, where two
  different ones fit with score 1 and iterators and arrays fit each other with
  0 ("For now", `IteratorType.cpp:37`).  Other composite types are equal when
  their elements are: that the caches keyed by hashes see to it is taken for
  granted.  A type that is written in a program is a new object each time; no
  program passes on a function that itself takes a function.
* A string is a text to iterate over.  Where one is transferred, its address is
  stored into its own characters, which the verifier rejects (`Misfit`).
* What is not defined in C++ or LLVM (a slot that is read before it is written, a
  character behind the text) stops the program, `NothingIsUndefined`.
* Programs are compiled once, when the constants are evaluated (`Prepared`).

### StructValues: state and actions

What `CodeGen` follows is the compiler; here the compiled program is followed
instead, because what matters about a structure is which alloca each field is in
and what is stored there, and every node emits exactly the loads and stores its
action performs.  `memory` is what the allocas hold, `frames` the running
invocations with the overload that runs, its argument and what it has bound,
`error` the exception that ended the compilation.  An exception is thrown when
the compiler reaches what the action stands for; a program is one way through
its code.

| action | code |
|---|---|
| `Instantiate` | `InstantiationNode::build` with a `Prototype`: every field gets an alloca |
| `With` | the same with a `WithPrototype`: a value of the field's type is stored where the original has it, one of another type gets an alloca |
| `Call` | the copy of `ReferenceSinkNode`, `findFunction`, the inlined body |
| `Jump` | `tryCreateTailCall` succeeds: `transferValue` into the argument of the running invocation |
| `TailCall` | it does not: a regular call whose result is returned |
| `Return`, `End` | one result, which `JunctionNode` passes as it is; the end of `main` |

The program has one function per level, with the overloads of
`Overloads[program]`; each calls its own function only in tail position and
otherwise the next one.  Structures and overloads are declared in namespaces;
base types, parameters and instantiations are written names, resolved by
`ResolveType` where they stand.  The overloads are a set: where their order decides which
exception a lookup throws, any of them may be (`ResolutionErrors`).  What is abstracted or left out: fields are scalars (no nested
structures, arrays, lazy values); defaults are literals, which is why `Fields` takes
them as values; the written type of a field is not looked at by any of this
code; hierarchies are acyclic, since `Prototype::fields` does not end on others;
a call has one argument (several are summed up in `CallResolution`).

`Interop` adds `Import(f, v)`: an imported function is called with a structure and
returns one, which is passed on to the function of the next level.  C is external:
it returns the block it was given or one of its own, with any values.  A block is
a set of pieces, scalars with their place; a field is read from its place if the
piece there is of its type, else as any value, since what is in memory there is
not known.  A structure inside a structure, which becomes a pointer to a block of
its own, is not modelled.

### BuildDriver: state and actions

`pc` says where `main` is: `idle` (no process), `scan` and `create` (the
directory loop, `analyze` and `createJob`), `next` (the accumulate over the
jobs), `stale` (`isStale`), `merge` (`processUses`), `build`, `open` and `emit`
(one job).  `dir` and `objects` are the file system, the only thing a run
leaves to the next; `jobs`, `objectFiles` and `success` are the locals of
`main`, `processed` is the set both recursions share, and `stack` their running
calls: a frame holds the uses its loop has still to visit and the modules it
has collected.

| action | code |
|---|---|
| `Start`, `Analyze`, `CreateJob` | the directory loop: the content is read first, the two times later |
| `NextJob` | no roots: skipped; no object: stale; else `isStale` |
| `StaleVisit`, `StaleReturn` | one call of the recursive `isStale`, its end |
| `MergeVisit`, `MergeReturn` | one call of the recursive `processUses`, its end |
| `MissingUse` | both throw what nobody catches when a use has no job |
| `Build`, `BuildFails`, `VerifyFails` | the roots are built: without an error, with a `CompilerException` (caught), with a module the verifier rejects (not caught) |
| `Open`, `Emit` | the object is truncated, later it is complete |
| `BuildFailed`, `Link` | the end of `main` |
| `Edit`, `Create`, `Delete`, `Kill` | the user and the system |

What is abstracted:

* A source's content is the set of files it uses and whether it has roots;
  `version` tells the edits apart.  A module is a bag of files, because
  `ModuleInfo::functions` is a multimap.  Uses are visited in any order, jobs too
  (`std::unordered_map`).
* An object records the versions it was made from and when they were read;
  nothing in the driver looks at that, only the properties do.  So do `failed`
  and `killed`, which are history variables.
* The clock moves only when a file is written, by nothing or by one (`Stamps`):
  times are coarse and only their order matters.  `file_time_type()` is 0, before
  every time of a file.
* Files are created and deleted only between runs.  Deleting a file between
  `analyze` and `createJob` would end the run like `Kill`.
* The linker reads the objects it is given; a failure of it is not modelled,
  since `main` does not look at its result.

`Make` is the same driver as a user would describe it: for each job there is one
step, `Skip`, `Keep` or `Compile`, that looks at the files the job uses, directly or
not (`Reach`), and decides; a job is compiled from exactly the modules of `Reach`.  `ImplementsMake` says that `BuildDriver` does what `Make` does, under
the mapping in `Promise` (`Phase`, `Undecided`): the steps of the two searches map
to stuttering, their ends to the decision.

## 3. The runs

| run | question | expected |
|---|---|---|
| `codegen_tests` | do the test suite's programs compile into a well-formed flow graph, and does any of twenty faulty ones get through? | passes |
| `codegen_sum` | does a call only jump in tail position? | violated, see Findings |
| `codegen_absolute_name` | does a jump land in the function resolution picks? | violated, see Findings |
| `structs` | do structures keep their values, also on the way to C and back, and do calls find their overload? | passes |
| `structs_diamond` | is an assigned field read back if it is inherited twice? | violated, see Findings |
| `structs_shape` | does a tail call stay in the overload of its argument? | violated, see Findings |
| `iteration` | does a program that iterates return what its meaning is, and end? | passes |
| `iteration_restarted` | also an iterator function with a state, behind an array? | violated, see Findings |
| `iteration_branches` | also if the branches return different functions? | violated, see Findings |
| `driver_edits` | is what is linked complete and current, whatever earlier runs did? | passes |
| `driver_uses` | is the right set of jobs compiled, from the right modules, on any graph of uses, as `Make` would? | passes |
| `driver_ends` | does every run end? | passes |

`codegen_tests` compiles ten programs and twenty faulty ones, under every order of
the type singletons that matters.  The ten are
`Maximum`, `Loop`, `DoubleDispatch`, `Nullable`, `Conditions`, `Forever`,
`Namespaces`, `Overloads`, `Arities`, `Spin`.  They exercise: branches in
callees, joins of several types and of `nothing`, calls in conditions and in
arguments, statements whose value is dropped, imports with and without a value,
tail recursion with and without work after it, mutual recursion, recursion
without an end, overloads with exact and inexact scores, globals and locals of
one name, relative and absolute qualified names.  It checks `TypeOK` and

* `EndsAreOwnedOnce`, `NothingDangles`: every open block is held by exactly one
  pending piece of work, in the state, in a frame or in a result;
* `MergesOpenEnds`: the results a conditional merges, those that carry one value, are
  those that are still to be continued; what it forgets has returned already;
* `ImplementsFlowGraph`: every step of the code generator is one of `FlowGraph`, where an
  end is split by a condition, entered by a call, joined with others, closed by a jump back
  to a running invocation or by the return of the exported function, or changes
  nothing that `FlowGraph` sees, and the module is built when no end is left;
* `NothingIsLinkedTwice`, `ClosedForGood`: `linkBlocks` never throws, and what ends in
  a branch is not touched any more;
* `NoUnreachableBlocks`, `OnlyTailCallsGoBack`: the shape of the flow graph;
* `CallersScopeIsRestored`, `OneContinuationPerType`: what a continuation sees
  and how often it is built;
* `OneValueEach`: unless there is only one, the results of a callee carry one value each,
  which is what junctions need;
* `JumpsLandInTheCallee`, `JumpsOnlyInTailPosition`: tail calls;
* `TestsAreBuilt`: the compilation of one of the ten ends with a verified module;
* `FaultsAreFound`: none of the twenty becomes a module.  Each has one fault:
  undeclared names, unresolved and ambiguous calls, operands, conditions and results of
  the wrong type, `nothing` where a value is needed, a void import as an operand,
  values passed to an import that does not take them, mutual recursion over
  alternating types that never becomes a jump.

`structs` lets six programs (`chain`; `shortcut`, two base types of which
one is a base of the other; `mixed` and `unfit`, two unrelated ones; `scoped`, one
name declared in several namespaces; `interop`, imports of structures that fit,
that have their fields elsewhere, or with a field without a type; each with the overloads
that make a difference) do anything with up to four allocas, two structures per
invocation and two levels.  It checks `TypeOK` and

* `FieldsReadBack`, `RejectedForAReason`: an instantiation is rejected exactly if
  it is incomplete or names an unknown field; otherwise the function it is passed
  to reads what was assigned, or the default of the nearest declaration;
* `CallersStructsAreKept`: no step changes a structure of a waiting invocation, though
  `with` and jumps store in place (within one invocation `with` does change the
  original; no document says whether it may);
* `CellsKeepTheirType`: an alloca never gets a value of another type;
* `NearestOverload`: resolution against `Distance`, which defines how near a base
  type is without a search;
* `JumpsStayInTheOverload`: a jump goes where resolution would;
* `ArrivesAsItIs`: of a structure that has exactly the fields an import's parameter
  declares, C reads what was written.  It says nothing of a derived structure: the
  fields of base types come after a structure's own, so C finds other fields where it
  looks for those of the base.

The hierarchies of `structs_diamond` and `structs_shape` are outside these six.

`iteration` compiles and runs sixteen programs (thirteen of them from
`test/main.cpp`) and every combination of a source of elements (an array, a text, a
generator or a function that returns an array), a chain of up to two iterator
functions and a consumer: a sum, one that stops at the first or third element, a fold over a
function, a pair with another array, an iterator function over such a pair.
It checks `TypeOK` and

* `Accepted`: the program compiles and what it becomes passes LLVM's verifier;
* `ReturnsItsMeaning`: what it returns is what the interpreter of lists returns;
* `NothingIsUndefined`: no slot, index or character is read that was not written;
* `GoesOnByOne`: a loop that goes round has gone on by one element or starts again;
* `LoopsEnd`: it ends.

Programs are closed, so each of them has one run; the variety is in the programs.  What
can be on the right of a pair is restricted to what has no state but its index
(`Pairable`); what happens otherwise is in the findings.

`driver_edits` runs the driver any number of times over two files that may
appear, disappear and change between a program and a library, with two edits at
any point, any job failing and a kill at any step.  It checks `TypeOK` and

* `LinkIsCurrent`: an object that is linked is whole and is what compiling the
  sources this run has read would give, though objects may date from runs that
  failed or were killed.  Two exceptions are part of the property because the
  code lets them happen and no document promises otherwise: an object whose
  writing was killed (it is torn but newer than its sources, so the next run
  links it), and an edit between the reading of a source and the end of the
  writing of the object (only times are compared);
* `LinkIsComplete`: the linker gets the objects of all files with roots;
* `FailureIsRemembered`: an old object is not linked while its sources are the
  ones the last compilation failed on.

`driver_uses` starts from every graph over at most three files in which one is a
program, with self-use, cycles, shared files and uses of missing files, and
checks `FreshIsFresh`, `OnlyStaleIsBuilt` and `ModuleIsComplete` against `Reach`,
which defines what a file uses, directly or not, without a search, and that the
driver implements `Make` (`ImplementsMake`).
`driver_ends` checks `RunsEnd` with two files that use each other or themselves.

**Bounds.**  `MaxEdits` and `MaxClock` bound edits and times; two edits of two
files are enough for an edit before and one during a run, equal times, and a
file that is deleted and created again.  Runs, failures and kills are not
bounded.  In `driver_uses` edits leave the uses as they are, since the graph is
arbitrary from the start, and the three files are symmetric: no property and no
constant names one of them (the contents are closed under permutation).

Four allocas are enough for a structure of two fields and its copy in a call, or
for one of one field, its copy and what `with` makes of that; two
levels for a caller and a callee that jumps.

Sources of one to four elements have a first, a last and a middle one, chains of two
iterator functions one inside the other, and pairs sources of different lengths.

For the code generator: the state machine is deterministic except for the program and the
layout, so a run is a set of complete compilations, not a truncated search.  The
only bound is `MaxFrames = 40`, the depth of nested builds; the deepest
successful compilation of the runs stays below it, which is what `TestsAreBuilt`
shows (exceeding it is the error `stackOverflow`).

**Fairness.**  The compiler is one thread and never waits: weak fairness of
`Step`, the disjunction of all actions but the final stuttering, says that the
process keeps running.  Likewise `WF_vars(Driver)`: the driver never waits for
anything, so a run that is not killed goes on; nobody has to start it or to
edit anything, so `User` has no fairness.  `WF_vars(Execute)`: the processor that runs
a compiled program does not stop before the program does.

### Findings

1. *A call in the middle of an expression may lose its continuation*
   (`codegen_sum`).  `FunctionCallProxyNode::build` decides "Tail call" (comment
   at `src/nodes/FunctionCallProxyNode.cpp:119`) by comparing the values of the
   enclosing invocation with the values pending in the expression instead of
   with the position of the call.  In `f(n) = f(n + 1) + n` the pending operand
   fits, so the addition and the return are never built.
2. *An absolute name may jump to a namespaced function*
   (`codegen_absolute_name`).  Scopes carry unqualified names, so inside
   `Foo::noNamespace` the call `::noNamespace()` finds its own invocation;
   `test/main.cpp:2685` requires that an absolute name means the global one.
3. *A field that is inherited twice does not keep its value* (`structs_diamond`).
   `Prototype::fields` (`src/types/Prototype.cpp:50`) appends the fields of every
   base type, so with two paths to one base its fields exist twice; the first
   takes the assigned value, the second is what a callee reads.  Test scenario35
   reads back an inherited field, the test `compatibility` declares such a hierarchy.
4. *A tail call may run the overload of another structure* (`structs_shape`).
   Structures whose fields have the same types fit with 0
   (`src/types/UserType.cpp:79`), which `tryCreateTailCall` takes for the running
   overload; `README.md:38` says that overloads are resolved by the real type.
5. *An iterator function behind an array starts again for every element*
   (`iteration_restarted`).  In `add([x, y], sums(s, [a, b, c]))` the right side is
   built anew for each result of the left one, with the arguments of the first call
   (`src/values/IteratorValue.cpp:15`); only the index of the array survives.
   `README.md:34` says that iterators can be stacked.
6. *Branches that return different functions return the first*
   (`iteration_branches`).  A function value has no memory: `JunctionNode::join`
   merges the two results into a clone of the first, and the consumer calls that one on
   both paths (`src/nodes/JunctionNode.cpp:106`), while `README.md:38` says that
   different branches may return different values.

Other programs that go wrong are kept in `MCIteration` (`Wrong`), with a line each on
what they are.  To see one, put its name into `RestartedPrograms` and the property
into `IterationRestarted.cfg`:

| program | fails |
|---|---|
| `same`, `joined` | `GoesOnByOne` |
| `reset`, `replaced` | `ReturnsItsMeaning` |
| `unset` | `NothingIsUndefined` |
| `shorter` | `GoesOnByOne`, `LoopsEnd` |
| `mixed`, `empty`, `texts`, `shadowed` | `Accepted` |

Two more are in `MCStructValues`; they violate `NearestOverload` when they are the
`Program` of a copy of `StructsDiamond.cfg`.  In `uneven` a parameter of type `any`
ties with one of a base type, because the score of `any` is where the last search path
ended, plus one (`src/types/Prototype.cpp:74`); `test/main.cpp:2476` wants it after all
base types.  In `namesakes` two structures of one name in different namespaces fit
each other, because `src/types/Prototype.cpp:83` compares tags only.  And where an
import's return type has a field without a declared type, `InteropHelper.cpp:43` uses the
type before anything has thrown `MissingTypeDeclarationException`; `Import` lets the
program end there.

## 4. What is proved

`CodeGenProofs` proves `TypeCorrect == Spec => []TypeOK` for every set of nodes
closed under consumers, every set of functions, units and layouts, and every
bound.  The assumptions are those of `CodeGen`: nodes have the shape their
constructor gives them and a segment stands in front of a call (`NodeAssumption`,
`src/Visitor.cpp:450`), functions and units refer to nodes
and functions of the set (`UnitAssumption`), the names and types the code
generator itself uses exist (`NameAssumption`, `TypeAssumption`), singletons
have distinct addresses (`LayoutAssumption`), and `Inner`, the nodes that are built in
front of another terminator than that of the exported function, holds the arguments,
the bodies of the other functions and the values of globals (`InnerAssumption`, which is
how `Visitor.cpp` builds them: `src/Visitor.cpp:260`, `274`, `441`, `656`).

`TypeOK` is inductive as it stands, because it types the frames exactly
(`Frame`): without the fact that an argument frame's index is one of its
segment's arguments, or that a context has at least one scope, a step would
leave the types.  The proof has one lemma per operator (what `LinkEach`,
`ByName`, `FindFunction`, `Enumerations`... return), one per way a step can end
(`ThrowStep`, `BuildStep`, `ReturnStep`, `BuildEachStep`) and one per action.

`CodeGenFlow` proves, under the same assumptions,
`JumpsCorrect == Spec => []OnlyTailCallsGoBack` and
`ReachCorrect == Spec => []NoUnreachableBlocks`: whatever the program, code without
recursion is generated free of loops, and every inserted block is reached.  Neither is
inductive.  That a branch goes forward depends on its block being older than its target,
hence on what the contexts know: `FlowInv` says of every context that is left anywhere
(the current one, in results, in frames) that an earlier block branches to its block
(`Reached`) and that what `markEntry` froze in its scopes is the block of a function; so
a tail call jumps to one, and whatever is inserted when a context is continued is reached.
The graph only grows (`Grows`: roles and branches stay), so all this stays true of
contexts nobody touches.  Every action but `TailCall` is an instance of `Extends` (new
blocks, new branches to them alone), which `ExtendsSound` deals with once.

`CodeGenEnds` proves `EndsCorrect == Spec => []EndsAreOwnedOnce`,
`LinkBlocksCorrect == Spec => []NothingIsLinkedTwice` and `ClosedCorrect == Spec =>
ClosedForGood`.  `EndsInv` says what each frame holds, apart from the results of its own
(`Todo`: results it still continues; `Done`: results it hands on), that no block occurs
twice in all of these together with the current context or results (`Owned`), and which
of the blocks are open (`StackEnds`).  What is to be continued always is.  What is handed
on is open too, unless it is a `ret` block of the exported function: its terminator
returns a result in a block that ends already, and an expression that goes on
from there would write behind it.  That this does not happen needs the place in the
program: below a frame that continues what is built (`Nested`: an argument, the body
of a function, a junction, a global), only nodes of `Inner` are built, and these
have another terminator.  `Writes` says of each operation which blocks it writes to and
which it closes; an action preserves the invariant because it writes to what it holds
and hands on only that, or blocks it has just created.

It proves three more, each for compilations in which a condition on what is left on the
stack holds throughout.  The two conditions are properties of their own: `codegen_tests`
checks that all its programs obey them, the faulty ones included.

* `DanglingCorrect == Spec /\ []MergesOpenEnds => []NothingDangles`.  A conditional hands on
  the results that carry one value and forgets the others (`src/nodes/ConditionalNode.cpp:70`).
  The condition is that it forgets just those whose block is a `ret` block of the exported
  function, and no other result.  `HeldInv` says that every open block is in a frame, is the
  one that is built in, or is that of a result.  It holds for every operation but the
  merge: what an operation takes out of the frames it continues, closes or hands on.
* `ContinuationsCorrect == Spec /\ []OneValueEach => []OneContinuationPerType`.  A junction
  joins the results of one value, per type, and passes on those with another number of
  values as they are.  Two of these with equal values would be continued twice; the
  condition is that there are none beside others, and that a global has one result.
* `FlowGraphCorrect == Spec /\ []MergesOpenEnds => ImplementsFlowGraph`.  The refinement
  mapping sees of a state the number of its blocks, the blocks that are held (`OpenEnds`),
  the branches, the blocks of invocations, the returns and how it ended.  By `EndsInv` and
  `HeldInv` what is held is what is open, ret blocks aside (`OpenEnds` of a
  running generator are its open blocks, `Seen`), so it is enough to know what each
  operation does to the graph: the lemmas `...Shows` say it of the primitives of
  `BlockGraph`, the lemmas `...Shown` of the actions.  A step that neither opens nor
  closes a block is a stutter; a join (`JoinedShown`) maps to one with as many new blocks as
  there are types, none of which is left out.  For `Complete` it has to be shown that
  an accepted module has no end: an open block that is inserted makes the verifier refuse the
  module, one that is not does so only through a branch to it, hence every block needs an
  earlier one that branches to it (`ReachInv`, `VerifiedIsClosed`).  `ReachInv` is itself proved from the steps of `FlowGraph`
  (`FlowReaches`), whose new blocks all have a branch to them.

Without `MergesOpenEnds` the last one is not true of every set of nodes: a conditional that
forgets an end leaves a block without a terminator, and what stops it is LLVM's verifier.

`CodeGenContexts` proves two properties that not every program has, each for the programs
that obey a condition on their text (on the nodes of the unit):

* `JumpsLandCorrect == Spec => [](IsUnmistakable(unit) => JumpsLandInTheCallee)`.  A call
  looks for its target among the names of the scopes around it, which are simple names,
  while overload resolution goes by qualified ones.  The condition is that no name of a
  call is that of a local or a branch, and that the names a call by a function's simple
  name tries before its qualified one belong to no function.  `ContextInv` says that every
  scope of a context left anywhere is a branch, or was entered for a function that
  resolution picked for the values in its entry; equal types are scored equally
  (`AlikeScores`), so it is picked for the values of the jump too.  All programs of the
  runs obey the condition but `Namespaces`, which has the property nevertheless,
  `CallsALocal`, which does not compile, and the one of `codegen_absolute_name`, which
  lacks the property.
* `ScopeCorrect == Spec => [](ArgumentsArePure(unit) => CallersScopeIsRestored)`.  The
  condition is that what calls, their arguments and globals consist of declares no local
  and has no `if`, which the grammar allows there; all programs of the runs obey it.  (An
  unmerged conditional hands on the scopes of its branches.)  `RestoreInv` says which
  frames expect results in a context like their own (`Demands`), and that what is above
  one was started in such a context and consists of nodes that hand theirs on.

`BuildDriverProofs` proves, for any set of files and contents, every graph of
uses, and any number of edits, failures and kills (assumptions:
`ContentsAssumption`, `BoundsAssumption`, which only type the constants):

* `TypeCorrect == Spec => []TypeOK`.  `TypeOK` is not inductive: that `Link` finds
  the objects it is given needs `ObjectsExist` (an object that `createJob` saw, or
  that is in `objectFiles`, exists, since a run deletes none), and the steps of a
  job need `ControlOK` (what is in hand at each `pc`).
* `StalenessCorrect == Spec => []FreshIsFresh` and
  `MergeCorrect == Spec => []ModuleIsComplete`.  The argument is that of a
  depth-first search: what is used by something processed is processed or in the
  `left` of some running call (`SearchOK`), so once nothing is left the processed
  set is closed under use; it contains the job and stays within `Reach`, hence it
  is `Reach`.  `StaleOK` adds that nothing processed is newer than the object.
  `MergeOK` adds that the results of the running calls are sets that share out
  the processed files without overlap, so inserting one into the other never
  duplicates a module.
* `CompilesOnlyStale == Spec => []OnlyStaleIsBuilt`, from the same invariant.
* `LinkCorrect == Spec => LinkIsComplete`.  `ListOK`: while no job has failed, each
  job with roots is still to come, in work or in `objectFiles`.

`BuildDriverRefinement` proves `Refinement == Spec => ImplementsMake`, under the same
assumptions: every step of the driver is a step of `Make` or changes nothing that
`Make` sees.  It needs the invariants above (that the end of a search is a decision by
`Reach` is `StalenessCorrect` and `MergeCorrect`, that the linked objects are those that are
ready is `ListOK`) and that a job in work is not on the list any more (`TakenOnce`).

`BuildDriverHistory` proves, again under the same assumptions, what relates a run to
those before it, of which it knows nothing but times:
`FailureCorrect == Spec => []FailureIsRemembered` and
`CurrentCorrect == Spec => LinkIsCurrent`.  The invariant is about the versions of a
source that are around (`Held`): what the file has and what a run has read, each with the
time a run takes for its own.  A step only forgets such versions, adds new ones or
makes their time later (`Grows`), so it is enough to say things about them that stay true
then:

* `FailedOK`: for one of the versions a compilation failed on, every copy that is around
  is newer than the object (that is why it was compiled, and nothing has touched the object
  since);
* `OriginOK`: what an object was made from was closed under use and the least such set, as
  far as these versions are still around, and any other version of these files is from
  after it was read;
* `LinkedOK`: what is to be linked was made in this run or is not stale.

`TimesOK`, `VersionsOK` and `DecidedOnce` connect them to the run: what it has read is
still so or was edited, and each job is decided about once.

`StructValuesProofs` proves, of `InteropSpec`, for every set of programs, every set of
values an instantiation can be given and every bound:

* `TypeCorrect == InteropSpec => []TypeOK`;
* `CallersCorrect == InteropSpec => CallersStructsAreKept`.  `StructInv` is inductive
  together with `TypeOK`: no cell is known to two running invocations.  A copy is made of
  new cells, `with` and jumps write to cells of the running invocation only, and what is
  returned comes from an invocation that is gone (`ApartKept`);
* `CellsCorrect == InteropSpec => CellsKeepTheirType`.  `with` compares the types itself;
  a jump is only made if all types agree, because a comparison of prototypes never
  yields 0 (`CompatibilityType`);
* `ArrivesCorrect == InteropSpec => []ArrivesAsItIs`: the places of the fields increase
  (`OffsetsStep`), whatever the sizes are, so no two fields of a block overlap;
* `RejectionCorrect == InteropSpec /\ DistinctFields => []RejectedForAReason` and
  `ReadBackCorrect == InteropSpec /\ DistinctFields => FieldsReadBack`, for the programs
  in which no structure has two fields of one name, inherited ones included
  (`DistinctFields`).  For others they are false: `structs_diamond` shows it, and the
  proofs show that nothing else goes wrong;
* `JumpsCorrect == InteropSpec /\ SizesResolveAlike => JumpsStayInTheOverload`, for the
  programs in which structures of one size go to the same overload, of those that are
  instantiated or returned by C (`Made`).  A jump is made if the fields have equal types,
  so there are equally many, and `ShapeInv` says that every structure is one of `Made` with
  as many fields as its prototype has and that the running overload is the one its argument
  was resolved to.  Without the hypothesis it is false: `structs_shape`;
* `NearestCorrect == InteropSpec /\ OverloadsApart => NearestOverload`.  The hypothesis is
  that among the structures that are made and their base types only the one a parameter
  means has its last segment for a name, which is all that the code compares, and that one
  overload at most takes `any`, with no structure of more than one base type where there is
  one: a search that fails scores the length of its last path, which may be a short one.
  Then what the search scores is the number of steps to the base type on the shortest way
  (`SearchIsNearest`, against `Within`, by induction along the height), and a search that
  fails goes further than any that succeeds (`MissIsFurther`).  The programs `namesakes` and
  `uneven` in `MCStructValues` violate the property, each without one of the two parts.

The last two hypotheses hold of all six programs of `structs`, and of none of those that
violate the property in question.

The assumptions say what the code takes for granted: every base type is a structure,
hierarchies are acyclic, and a name that is instantiated means a structure or nothing
(`ProgramAssumption`; the code casts the type unchecked), the parameters and
results of imports are structures (`ImportAssumption`), a scalar is not the marker of a
missing default or type (`ScalarAssumption`), assigned values are scalars
(`AssignmentAssumption`), and every type has a size (`SizeAssumption`).

The fields of a structure, the search among its base types, the best of its branches, what
is within a number of steps, the concatenation of sequences and the places of fields are recursive functions, and a
recursive function is a `CHOOSE` to the prover: nothing is known of it until it is shown
that there is one.  The library's induction theorems cannot be used here, since they take
an operator; but that a set of numbers has a least member can (`LeastNumber`), and it gives
`RankInduction`, for a set of the members of which something holds, and
`RecursionExists`, for steps that depend on members of lower rank.  The rank is the height in the
hierarchy, or an index.

### Only model-checked

Of `CodeGen`, besides `FaultsAreFound`, which is about the programs of the run:

* `MergesOpenEnds` and `OneValueEach`, the conditions of `DanglingCorrect`,
  `FlowGraphCorrect` and `ContinuationsCorrect`.  They depend on how many values a program
  leaves on the stack.  An invariant for every program has to type the stack between nodes,
  which the code does not.
* `JumpsOnlyInTailPosition`: false for some programs (see Findings), those that recurse
  with work left to do; what the others have in common is a matter of their call graph.

All properties of structures that the runs check are proved, some of them for the
programs that have what the hypothesis says.

`Visitor`, `Iteration` and `IterationSyntax` (recursion over data, written with
`RECURSIVE` operators, which the prover does not take); termination
(`TestsAreBuilt`, `RunsEnd`, `LoopsEnd`: liveness is out of the prover's reach).
All safety properties of the driver that the runs check are proved.

## 5. Plan

Done: the code generator's core, iteration, functions as values, structures with names
and C interop, the build driver and that it
implements `Make`, and the abstract `FlowGraph` that the code generator implements.  What would come next:

1. a discipline of the value stack, as a condition on the syntax of a program, from which
   `MergesOpenEnds` and `OneValueEach` follow;
2. structures inside structures, in `StructValues` and `Interop`.

## 6. Not modelled

* The parser, which is generated, and its grammar; `src/toml.hpp`, a vendored library
  of 16 001 lines, which is 60% of the lines of the implementation.
* The project file (`project.toml`), which is read into paths and a name.
* Metadata, messages and positions of diagnostics, the unescaping of characters: text
  in, text out.
* Hierarchies of structures with a cycle: `Prototype::fields` does not end on them.
* Sums of scores beyond 127 (`int8_t`), which take 128 arguments.

`PROJECT.json` has a line for each component.
