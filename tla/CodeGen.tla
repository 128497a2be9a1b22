------------------------------ MODULE CodeGen ------------------------------
(***************************************************************************)
(* The code generator: Node::build over the continuation-passing node      *)
(* graph of one exported function (src/src/nodes).  build(entryPoint,      *)
(* values) returns a vector of results, each an open end of the flow graph *)
(* with the values it carries.  The C++ recursion is an explicit stack of  *)
(* frames: a step either enters the build of a node or returns a vector of *)
(* results to the frame on top.                                            *)
(*                                                                         *)
(* Modelled: scalar programs with functions, imports, overloads, globals,  *)
(* locals, namespaces, `nothing', conditionals and calls of every kind.    *)
(* Lazy values, structures, tuples, strings and function values are not,   *)
(* and neither is a chained return.                                        *)
(***************************************************************************)
EXTENDS BlockGraph, CallResolution, SequencesExt

CONSTANTS
  Node,       \* the nodes of all the units, closed under their consumers
  Function,   \* the functions of all the units
  Unit,       \* what may be compiled: the functions a module sees, its
              \* globals and the body and return type of the exported function
  Inner,      \* the nodes of functions, globals and arguments: those that do
              \* not end in the terminator of the exported function
  Layout,     \* where the type singletons may lie in memory
  MaxFrames   \* bound: nested build() calls the C++ stack has room for

VARIABLES
  unit,       \* the unit being compiled
  address,    \* where the type singletons lie; std::multimap sorts by it
  pc,         \* "build": entering node; "return": results go to the top frame
  node, ep, values,   \* the node entered and the arguments of its build
  results,    \* the vector the last build returned
  frames,     \* the build calls waiting for a result, innermost last
  graph,      \* the flow graph generated so far
  inlined,    \* history: which function a function block was created for
  error       \* the exception that ended the compilation

vars == <<unit, address, pc, node, ep, values, results, frames, graph,
          inlined, error>>

-----------------------------------------------------------------------------
Result == [ep: EP, values: Seq(Value)]

NodeKinds == {"literal", "member", "local", "binary", "stackFrame",
              "referenceSink", "conditional", "return", "terminator",
              "exportTerminator", "proxy", "segment", "call"}

WithConsumer == {"literal", "member", "local", "binary", "stackFrame",
                 "referenceSink", "return", "proxy"}

TerminatorNode == [kind |-> "terminator"]

\* The shape of every node: its consumers are nodes again.
IsNode(n) ==
  /\ n.kind \in NodeKinds
  /\ n.kind \in WithConsumer => n.consumer \in Node
  /\ n.kind = "literal" => n.value \in Value
  /\ n.kind \in {"member", "proxy", "call"} => n.names \in Seq(Name)
  /\ n.kind = "local" => n.name \in Name
  /\ n.kind = "binary" => n.op \in {"arithmetic", "relational"}
  /\ n.kind = "conditional" => n.ifTrue \in Node /\ n.ifFalse \in Node
  /\ n.kind = "proxy" => n.segment \in Node
  /\ n.kind = "segment" => /\ n.arguments \in Seq(Node)
                           /\ n.call \in Node /\ n.call.kind = "call"

IsFunction(f) ==
  /\ f.key \in Name /\ f.name \in Name
  /\ f.attribute \in {"none", "import"}
  /\ f.params \in Seq([name: Name, type: Type])
  /\ f.body \in Node
  /\ f.returns \in Type \cup {"void"}

IsUnit(u) ==
  /\ u.functions \subseteq Function
  /\ u.globals \subseteq [name: Name, value: Node]
  /\ u.body \in Node
  /\ u.returns \in Type

ASSUME NodeAssumption == /\ TerminatorNode \in Node
                         /\ \A n \in Node : IsNode(n)

ASSUME UnitAssumption == /\ \A f \in Function : IsFunction(f)
                         /\ \A u \in Unit : IsUnit(u)

\* Only the body of the exported function is built with its terminator.
IsInner(n) ==
  /\ n.kind # "exportTerminator"
  /\ n.kind \in WithConsumer => n.consumer \in Inner
  /\ n.kind = "conditional" => n.ifTrue \in Inner /\ n.ifFalse \in Inner

ASSUME InnerAssumption ==
  /\ \A n \in Inner : IsInner(n)
  /\ \A n \in Node :
       /\ n.kind = "proxy" => n.segment \in Inner
       /\ n.kind = "segment" => n.arguments \in Seq(Inner) /\ n.call \in Inner
  /\ \A f \in Function : f.body \in Inner
  /\ \A u \in Unit : \A g \in u.globals : g.value \in Inner

ASSUME NameAssumption ==
  {RootName, <<"ifTrue">>, <<"ifFalse">>} \subseteq Name

ASSUME TypeAssumption == {"bool", "any", "without"} \subseteq Type

\* Different singletons have different addresses.
ASSUME LayoutAssumption ==
  \A l \in Layout : /\ l \in [Type -> Nat]
                    /\ \A t, u \in Type : l[t] = l[u] => t = u

ASSUME BoundAssumption == MaxFrames \in Nat

-----------------------------------------------------------------------------
Scalar(type) == [rep |-> "scalar", type |-> type]

Reference(type) == [rep |-> "reference", type |-> type]

\* A local read or a value stored goes through memory unless it is `nothing'.
InMemory(v) == v.rep # "without"

\* The enumerations of S in the order of a rank: the order in which a loop
\* over a vector (rank = index) or over a multimap (rank = key) meets S.
Enumerations(S, rank) ==
  {o \in [1..Cardinality(S) -> S] :
     /\ \A s \in S : \E i \in 1..Cardinality(S) : o[i] = s
     /\ \A i, j \in 1..Cardinality(S) : i < j => rank[o[i]] < rank[o[j]]}

Throw(what) ==
  /\ pc' = "thrown" /\ error' = what
  /\ UNCHANGED <<node, ep, values, results, frames, graph, inlined>>

\* Enter n->build(e, vs).
Build(n, e, vs) ==
  /\ pc' = "build" /\ node' = n /\ ep' = e /\ values' = vs
  /\ results' = <<>>
  /\ UNCHANGED error

\* return rs;
Return(rs) ==
  /\ pc' = "return" /\ results' = rs
  /\ UNCHANGED <<node, ep, values, error>>

Push(frame) == frames' = Append(frames, frame)

\* for (auto &r : todo) for (auto &c : n->build(r)) results.push_back(c), with
\* prefix put under the values of c, in place of the lowest `keep' frames.
BuildEach(below, n, e, prefix, todo, done) ==
  IF todo = <<>>
  THEN Return(done) /\ frames' = below
  ELSE /\ Build(n, todo[1].ep, todo[1].values)
       /\ frames' = Append(below, [kind |-> "each", node |-> n, ep |-> e,
                                   prefix |-> prefix, todo |-> Tail(todo),
                                   done |-> done])

\* A pop of an empty std::vector: undefined, stands for the crash.
Underflow == Throw("underflow")

Entering(kind) ==
  pc = "build" /\ node.kind = kind /\ Len(frames) <= MaxFrames

Returning(kind) ==
  pc = "return" /\ frames # <<>> /\ Last(frames).kind = kind

-----------------------------------------------------------------------------
(* Nodes that produce, move or consume values.                             *)

\* IntegralLiteralNode, BooleanLiteralNode, NothingNode.
Literal ==
  /\ Entering("literal")
  /\ Build(node.consumer, ep, Append(values, node.value))
  /\ UNCHANGED <<frames, graph, inlined>>

IsGlobal(name) == \E g \in unit.globals : g.name = name

\* The first of the node's names that is a local or a global.
Declared ==
  {k \in DOMAIN node.names :
     /\ Shadowed(ep, node.names[k]) \/ IsGlobal(node.names[k])
     /\ \A l \in 1..k-1 : ~ Shadowed(ep, node.names[l])
                          /\ ~ IsGlobal(node.names[l])}

\* Mutant: what locals.find returned is used without comparing it with end().
MemberUnchecked ==
  /\ Entering("member")
  /\ Build(node.consumer, ep, Append(values, ep.locals[node.names[1]]))
  /\ UNCHANGED <<frames, graph, inlined>>

\* A reference is loaded, any other local is pushed as it is; a global is
\* built here and the consumer runs for each of its results.  (No name here
\* is that of a function that is not called: that would be a function value.)
Member ==
  /\ Entering("member")
  /\ \/ \E k \in Declared :
          LET local == ep.locals[node.names[k]] IN
          /\ Shadowed(ep, node.names[k])
          /\ IF local.rep = "reference"
             THEN /\ Build(node.consumer, ep,
                           Append(values, Scalar(local.type)))
                  /\ graph' = Emit(graph, ep.block)
             ELSE /\ Build(node.consumer, ep, Append(values, local))
                  /\ UNCHANGED graph
          /\ UNCHANGED <<frames, inlined>>
     \/ \E k \in Declared, g \in unit.globals :
          /\ ~ Shadowed(ep, node.names[k]) /\ g.name = node.names[k]
          /\ Build(g.value, ep, values)
          /\ Push([kind |-> "global", node |-> node.consumer, ep |-> ep])
          /\ UNCHANGED <<graph, inlined>>
     \/ /\ Declared = {}
        /\ Throw("UndeclaredIdentifierException")

ReturnGlobal ==
  /\ Returning("global")
  /\ BuildEach(Front(frames), Last(frames).node, Last(frames).ep, <<>>,
               results, <<>>)
  /\ UNCHANGED <<graph, inlined>>

Local ==
  /\ Entering("local")
  /\ IF values = <<>> THEN Underflow
     ELSE /\ Build(node.consumer,
                   WithLocals(ep, [ep.locals EXCEPT ![node.name] = Last(values)]),
                   Front(values))
          /\ UNCHANGED <<frames, graph, inlined>>

\* The left operand was pushed last.
Binary ==
  /\ Entering("binary")
  /\ LET left == values[Len(values)]
         right == values[Len(values) - 1]
     IN  IF values = <<>> THEN Underflow
         ELSE IF left.rep # "scalar" THEN Throw("InvalidTypeException")
         ELSE IF Len(values) = 1 THEN Underflow
         ELSE IF right.rep # "scalar" THEN Throw("InvalidTypeException")
         ELSE /\ Build(node.consumer, ep,
                       Append(SubSeq(values, 1, Len(values) - 2),
                              Scalar(IF node.op = "arithmetic"
                                     THEN left.type ELSE "bool")))
              /\ graph' = EmitTyped(graph, ep.block, left.type = right.type)
              /\ UNCHANGED <<frames, inlined>>

\* BlockStackFrameNode: an expression statement drops its value.
StackFrame ==
  /\ Entering("stackFrame")
  /\ Build(node.consumer, ep, <<>>)
  /\ UNCHANGED <<frames, graph, inlined>>

\* makeReference: an argument gets storage of its own.
ReferenceSink ==
  /\ Entering("referenceSink")
  /\ IF values = <<>> THEN Underflow
     ELSE /\ IF InMemory(Last(values))
             THEN /\ Build(node.consumer, ep,
                           Append(Front(values), Reference(Last(values).type)))
                  /\ graph' = Emit(graph, ep.block)
             ELSE /\ Build(node.consumer, ep, values)
                  /\ UNCHANGED graph
          /\ UNCHANGED <<frames, inlined>>

ReturnStatement ==
  /\ Entering("return")
  /\ IF values = <<>> THEN Underflow
     ELSE /\ Build(node.consumer, ep, values)
          /\ graph' = LET g == InsertBlock(graph, ep.block) IN
                      IF Last(values).rep = "scalar" THEN Emit(g, ep.block)
                      ELSE g
          /\ UNCHANGED <<frames, inlined>>

Terminator ==
  /\ Entering("terminator")
  /\ Return(<<[ep |-> ep, values |-> values]>>)
  /\ UNCHANGED <<frames, graph, inlined>>

\* A block of its own for the ret of an exported function.
ExportTerminator ==
  /\ Entering("exportTerminator")
  /\ LET b == Len(graph) + 1
         linked == LinkBlocks(AddBlocks(InsertBlock(graph, ep.block),
                                        "entry", TRUE, 1), ep.block, b)
     IN  IF ~ Linkable(graph, ep.block) THEN Throw("linkBlocks")
         ELSE IF values = <<>> THEN Underflow
         ELSE IF Last(values).rep # "scalar" THEN Throw("InvalidTypeException")
         ELSE /\ graph' = Terminate(linked, b, "ret", {},
                                    Last(values).type = unit.returns)
              /\ Return(<<[ep |-> WithBlock(ep, b), values |-> Front(values)]>>)
              /\ UNCHANGED <<frames, inlined>>

-----------------------------------------------------------------------------
(* ConditionalNode.                                                        *)

\* Both branches get the values under the condition; true is built first.
Conditional ==
  /\ Entering("conditional")
  /\ LET true == Len(graph) + 1
         false == Len(graph) + 2
         created == AddBlocks(AddBlocks(InsertBlock(graph, ep.block),
                                        "true", FALSE, 1), "false", FALSE, 1)
     IN  IF values = <<>> THEN Underflow
         ELSE IF Last(values).rep # "scalar" THEN Throw("InvalidTypeException")
         ELSE /\ graph' = Terminate(created, ep.block, "cond", {true, false},
                                    Last(values).type = "bool")
              /\ Build(node.ifTrue,
                       WithBlock(WithName(ep, <<"ifTrue">>), true),
                       Front(values))
              /\ Push([kind |-> "ifTrue", node |-> node.ifFalse, ep |-> ep,
                       block |-> false, values |-> Front(values)])
              /\ UNCHANGED inlined

ReturnIfTrue ==
  /\ Returning("ifTrue")
  /\ LET f == Last(frames) IN
     /\ Build(f.node, WithBlock(WithName(f.ep, <<"ifFalse">>), f.block),
              f.values)
     /\ frames' = Append(Front(frames),
                         [kind |-> "ifFalse", ep |-> f.ep, values |-> f.values,
                          done |-> results])
  /\ UNCHANGED <<graph, inlined>>

\* Mutant: the last result is left out.
SinglesButTheLast(rs) == {i \in 1..Len(rs)-1 : Len(rs[i].values) = 1}

Singles(rs) == {i \in DOMAIN rs : Len(rs[i].values) = 1}

TypeOf(r) == r.values[1].type

TypesOf(rs) == {TypeOf(rs[i]) : i \in Singles(rs)}

\* The results that carry one scalar are merged, one block per type; the
\* others are forgotten, and one that is no scalar prevents all merging.
ReturnIfFalse ==
  /\ Returning("ifFalse")
  /\ LET f == Last(frames)
         rs == f.done \o results
     IN  IF \E i \in Singles(rs) : rs[i].values[1].rep # "scalar"
         THEN Return(rs) /\ UNCHANGED graph
         ELSE \E o \in Enumerations(TypesOf(rs), address) :
                LET merge(i) == Len(graph) +
                                (CHOOSE j \in DOMAIN o : o[j] = TypeOf(rs[i]))
                IN  /\ graph' = AddBlocks(
                           LinkEach(graph, Singles(rs),
                                    [i \in Singles(rs) |-> rs[i].ep.block],
                                    [i \in Singles(rs) |-> merge(i)], FALSE),
                           "merge", TRUE, Len(o))
                    /\ Return([j \in 1..Len(o) |->
                                 [ep |-> WithBlock(f.ep, Len(graph) + j),
                                  values |-> Append(f.values, Scalar(o[j]))]])
  /\ frames' = Front(frames)
  /\ UNCHANGED inlined

-----------------------------------------------------------------------------
(* FunctionCallProxyNode, JunctionNode and StackSegmentNode: a call joins  *)
(* the results of its callee per type before the continuation sees them.   *)

\* `Tail call': the results of the segment are returned as they are, the
\* consumer is not built.
ProxyTailPath ==
  /\ Entering("proxy")
  /\ ProxyTakesTailPath(ep, node.names, values)
  /\ Build(node.segment, ep, values)
  /\ UNCHANGED <<frames, graph, inlined>>

\* Mutant: the values below the call are not set aside.
RegularCallWithValues ==
  /\ Entering("proxy")
  /\ ~ ProxyTakesTailPath(ep, node.names, values)
  /\ Build(node.segment, ep, values)
  /\ Push([kind |-> "junction", node |-> node.consumer, ep |-> ep,
           values |-> values])
  /\ UNCHANGED <<graph, inlined>>

ProxyRegularCall ==
  /\ Entering("proxy")
  /\ ~ ProxyTakesTailPath(ep, node.names, values)
  /\ Build(node.segment, ep, <<>>)
  /\ Push([kind |-> "junction", node |-> node.consumer, ep |-> ep,
           values |-> values])
  /\ UNCHANGED <<graph, inlined>>

\* Mutant: nothing is joined.
JunctionWithoutJoin ==
  /\ Returning("junction")
  /\ LET f == Last(frames) IN
     BuildEach(Front(frames), f.node, f.ep, <<>>,
               [i \in DOMAIN results |->
                  [results[i] EXCEPT !.values = f.values \o @]], <<>>)
  /\ UNCHANGED <<graph, inlined>>

\* Results without exactly one value pass; of the others those of one type
\* are joined in a junction block, and one alone keeps its own block.
ReturnJunction ==
  /\ Returning("junction")
  /\ LET f == Last(frames)
         rs == results
         group(t) == {i \in Singles(rs) : TypeOf(rs[i]) = t}
         first(t) == CHOOSE i \in group(t) : \A j \in group(t) : i <= j
         several == {t \in TypesOf(rs) : Cardinality(group(t)) > 1}
         joined == {i \in Singles(rs) : TypeOf(rs[i]) \in several}
         bare == {i \in joined : ~ InMemory(rs[first(TypeOf(rs[i]))].values[1])}
         from == [i \in joined |-> rs[i].ep.block]
     IN  \E o \in Enumerations(TypesOf(rs), address),
            p \in Enumerations(DOMAIN rs \ Singles(rs), [i \in DOMAIN rs |-> i]) :
           LET junction(t) ==
                 Len(graph) + Cardinality({u \in several : address[u] <= address[t]})
               output(t) ==
                 [ep |-> IF t \in several THEN WithBlock(f.ep, junction(t))
                         ELSE rs[first(t)].ep,
                  values |-> Append(f.values, rs[first(t)].values[1])]
           IN  IF ~ EachLinkable(graph, bare, from) THEN Throw("linkBlocks")
               ELSE /\ graph' = AddBlocks(
                           LinkEach(graph, joined, from,
                                    [i \in joined |-> junction(TypeOf(rs[i]))],
                                    TRUE),
                           "junction", FALSE, Cardinality(several))
                    /\ BuildEach(Front(frames), f.node, f.ep, <<>>,
                                 [j \in 1..Len(p) |-> rs[p[j]]]
                                   \o [j \in 1..Len(o) |-> output(o[j])], <<>>)
                    /\ UNCHANGED inlined

\* The arguments are built one after the other, each from every result of
\* the previous ones, and the first argument ends on top.
Segment ==
  /\ Entering("segment")
  /\ LET start == [ep |-> ep, values |-> <<>>] IN
     IF node.arguments = <<>>
     THEN BuildEach(frames, node.call, ep, values, <<start>>, <<>>)
     ELSE /\ Build(node.arguments[1], ep, <<>>)
          /\ Push([kind |-> "argument", node |-> node, ep |-> ep,
                   values |-> values, index |-> 1, todo |-> <<start>>,
                   done |-> <<>>])
  /\ UNCHANGED <<graph, inlined>>

ReturnArgument ==
  /\ Returning("argument")
  /\ LET f == Last(frames)
         done == f.done \o [j \in 1..Len(results) |->
                   [ep |-> results[j].ep,
                    values |-> results[j].values \o f.todo[1].values]]
         next(index, todo, rest) ==
           /\ Build(f.node.arguments[index], todo[1].ep, <<>>)
           /\ frames' = Append(Front(frames),
                               [f EXCEPT !.index = index, !.todo = todo,
                                         !.done = rest])
     IN  IF Len(f.todo) > 1 THEN next(f.index, Tail(f.todo), done)
         ELSE IF f.index < Len(f.node.arguments) /\ done # <<>>
         THEN next(f.index + 1, done, <<>>)
         ELSE BuildEach(Front(frames), f.node.call, f.ep, f.values, done, <<>>)
  /\ UNCHANGED <<graph, inlined>>

\* One more result of a loop over consumers.
ReturnEach ==
  /\ Returning("each")
  /\ LET f == Last(frames) IN
     BuildEach(Front(frames), f.node, f.ep, f.prefix, f.todo,
               f.done \o [j \in 1..Len(results) |->
                            [results[j] EXCEPT !.values = f.prefix \o @]])
  /\ UNCHANGED <<graph, inlined>>

-----------------------------------------------------------------------------
(* FunctionCallNode, FunctionNode and ImportedFunctionNode.                *)

\* The arguments are stored into those of the running invocation.
TailCall ==
  /\ Entering("call")
  /\ LET target == TailCallTarget(ep, node.names, values)
         stores == \E i \in DOMAIN values : InMemory(values[i])
         inserted == InsertBlock(graph, ep.block)
         stored == IF stores THEN Emit(inserted, ep.block) ELSE inserted
     IN  /\ target # NoEntry
         /\ IF ~ Linkable(stored, ep.block) THEN Throw("linkBlocks")
            ELSE /\ graph' = LinkBlocks(stored, ep.block, target.block)
                 /\ Return(<<>>)
                 /\ UNCHANGED <<frames, inlined>>

NotATailCall ==
  /\ Entering("call")
  /\ TailCallTarget(ep, node.names, values) = NoEntry

CallFails ==
  /\ NotATailCall
  /\ LET what == ResolutionError(ep, unit.functions, node.names, values) IN
     IF what # "none" THEN Throw(what)
     ELSE ~ Linkable(graph, ep.block) /\ Throw("linkBlocks")

\* regularCall puts the callee into a block of its own.
FunctionBlock ==
  LinkBlocks(AddBlocks(InsertBlock(graph, ep.block), "function", FALSE, 1),
             ep.block, Len(graph) + 1)

\* The arguments become locals, on top of those of the caller.
WithArguments(locals, params, vs) ==
  [n \in Name |->
     LET mine == {i \in DOMAIN params : params[i].name = n} IN
     IF mine = {} THEN locals[n]
     ELSE vs[Len(vs) + 1 - (CHOOSE i \in mine : \A j \in mine : j <= i)]]

CallFunction ==
  /\ NotATailCall /\ Linkable(graph, ep.block)
  /\ \E f \in FindFunction(ep, unit.functions, node.names, values) :
       LET callee == WithBlock(ep, Len(graph) + 1) IN
       /\ f.attribute = "none"
       /\ graph' = FunctionBlock
       /\ inlined' = inlined \cup {<<Len(graph) + 1, f>>}
       /\ Build(f.body,
                WithLocals(MarkEntry(WithName(callee, f.name), values),
                           WithArguments(ep.locals, f.params, values)),
                <<>>)
       /\ Push([kind |-> "function", ep |-> callee])

\* The call instruction goes into the function block.  Only references are
\* passed on, any other argument is skipped: the call then does not fit the
\* callee.  A void function pushes nothing.
CallImport ==
  /\ NotATailCall /\ Linkable(graph, ep.block)
  /\ \E f \in FindFunction(ep, unit.functions, node.names, values) :
       /\ f.attribute = "import"
       /\ graph' = EmitTyped(FunctionBlock, Len(graph) + 1,
                             \A i \in DOMAIN f.params :
                               /\ ArgumentScore(f, values, i) = 0
                               /\ values[Len(values) + 1 - i].rep = "reference")
       /\ inlined' = inlined \cup {<<Len(graph) + 1, f>>}
       /\ Return(<<[ep |-> WithBlock(ep, Len(graph) + 1),
                    values |-> IF f.returns = "void" THEN <<>>
                               ELSE <<Scalar(f.returns)>>]>>)
       /\ UNCHANGED frames

\* Mutant: the context of the callee is handed to the continuation.
ReturnFunctionInCallee ==
  /\ Returning("function")
  /\ Return(results) /\ frames' = Front(frames)
  /\ UNCHANGED <<graph, inlined>>

\* Every result of the body leaves it through a block of its own.
ReturnFunction ==
  /\ Returning("function")
  /\ LET f == Last(frames)
         I == DOMAIN results
         from == [i \in I |-> results[i].ep.block]
     IN  IF ~ EachLinkable(graph, I, from) THEN Throw("linkBlocks")
         ELSE /\ graph' = AddBlocks(
                     LinkEach(graph, I, from, [i \in I |-> Len(graph) + i], TRUE),
                     "consumer", FALSE, Len(results))
              /\ Return([i \in 1..Len(results) |->
                           [ep |-> WithBlock(f.ep, Len(graph) + i),
                            values |-> results[i].values]])
              /\ frames' = Front(frames)
              /\ UNCHANGED inlined

-----------------------------------------------------------------------------
(* ExportedFunctionNode and the driver around it.                          *)

\* The alloc block links to the block the body starts in.
Init ==
  /\ unit \in Unit
  /\ address \in Layout
  /\ pc = "build" /\ node = unit.body
  /\ ep = RootEP(2) /\ values = <<>> /\ results = <<>> /\ frames = <<>>
  /\ graph = LinkBlocks(AddBlocks(AddBlocks(<<>>, "alloc", TRUE, 1),
                                  "body", FALSE, 1), 1, 2)
  /\ inlined = {}
  /\ error = "none"

Finish ==
  /\ pc = "return" /\ frames = <<>>
  /\ IF Verified(graph)
     THEN pc' = "built" /\ UNCHANGED error
     ELSE pc' = "thrown" /\ error' = "verifyModule"
  /\ UNCHANGED <<node, ep, values, results, frames, graph, inlined>>

\* The C++ stack is exhausted.
Overflow ==
  /\ pc = "build" /\ Len(frames) > MaxFrames
  /\ Throw("stackOverflow")

Compiled == pc \in {"built", "thrown"}

Stop == Compiled /\ UNCHANGED <<pc, node, ep, values, results, frames, graph,
                                inlined, error>>

Produce == Literal \/ Member \/ ReturnGlobal \/ Local \/ Binary \/ StackFrame
             \/ ReferenceSink \/ ReturnStatement

Leave == Terminator \/ ExportTerminator

Branch == Conditional \/ ReturnIfTrue \/ ReturnIfFalse

Prepare == ProxyTailPath \/ ProxyRegularCall \/ Segment \/ ReturnArgument
             \/ ReturnJunction \/ ReturnEach

Invoke == TailCall \/ CallFails \/ CallFunction \/ CallImport \/ ReturnFunction

Step == Produce \/ Leave \/ Branch \/ Prepare \/ Invoke \/ Finish \/ Overflow

Next == (Step \/ Stop) /\ UNCHANGED <<unit, address>>

\* The compiler is one thread: while a step is possible it is taken.
Spec == Init /\ [][Next]_vars /\ WF_vars(Step /\ UNCHANGED <<unit, address>>)

-----------------------------------------------------------------------------
(* Properties.                                                             *)

\* An argument being built: which, from what is left of todo (the first is
\* under construction), and the results so far.
ArgumentFrame ==
  {f \in [kind: {"argument"}, node: Node, ep: EP, values: Seq(Value), index: Nat,
          todo: Seq(Result) \ {<<>>}, done: Seq(Result)] :
     f.node.kind = "segment" /\ f.index \in DOMAIN f.node.arguments}

\* What a frame keeps: the C++ locals that are live during the nested build.
Frame ==
  [kind: {"global"}, node: Node, ep: EP]
    \cup [kind: {"junction"}, node: Node, ep: EP, values: Seq(Value)]
    \cup [kind: {"ifTrue"}, node: Node, ep: EP, values: Seq(Value), block: Nat]
    \cup [kind: {"ifFalse"}, ep: EP, values: Seq(Value), done: Seq(Result)]
    \cup ArgumentFrame
    \cup [kind: {"each"}, node: Node, ep: EP, prefix: Seq(Value),
          todo: Seq(Result), done: Seq(Result)]
    \cup [kind: {"function"}, ep: EP]

Errors == {"none", "underflow", "linkBlocks", "verifyModule", "stackOverflow",
           "InvalidTypeException", "UndeclaredIdentifierException",
           "FunctionNotFoundException", "AmbiguousFunctionException",
           "InvalidFunctionPointerTypeException"}

\* The type invariant.
TypeOK ==
  /\ unit \in Unit
  /\ address \in [Type -> Nat]
  /\ pc \in {"build", "return", "built", "thrown"}
  /\ node \in Node /\ ep \in EP /\ values \in Seq(Value)
  /\ results \in Seq(Result)
  /\ frames \in Seq(Frame)
  /\ graph \in Seq(Block)
  /\ inlined \subseteq Nat \X Function
  /\ error \in Errors

\* The open ends of the flow graph: every block somebody is still going to
\* write to, with the place that holds it.  The entry blocks of the exported
\* function's terminators stay in the results but are finished.
Running == pc \in {"build", "return"}

HeldBy(place, rs) ==
  {[place |-> place, index |-> i, block |-> rs[i].ep.block] :
     i \in {j \in DOMAIN rs : graph[rs[j].ep.block].role # "entry"}}

HeldByFrame(k) ==
  LET f == frames[k] IN
  CASE f.kind = "ifTrue" ->
         {[place |-> <<k, "branch">>, index |-> 1, block |-> f.block]}
    [] f.kind = "ifFalse" -> HeldBy(<<k, "done">>, f.done)
    [] f.kind = "each" ->
         HeldBy(<<k, "todo">>, f.todo) \cup HeldBy(<<k, "done">>, f.done)
    [] f.kind = "argument" -> \* the first of todo is what is being built
         HeldBy(<<k, "todo">>, Tail(f.todo)) \cup HeldBy(<<k, "done">>, f.done)
    [] OTHER -> {}

Ends ==
  (UNION {HeldByFrame(k) : k \in DOMAIN frames})
    \cup IF pc = "build"
         THEN {[place |-> <<0, "now">>, index |-> 1, block |-> ep.block]}
         ELSE HeldBy(<<0, "results">>, results)

\* A block is continued by at most one result, and none that is still to be
\* continued is closed: although a continuation is built once per result and
\* contexts are copied freely, no two of the copies ever write to one block.
\* (What linkBlocks' exception and the LLVM verifier would stumble over.)
EndsAreOwnedOnce ==
  Running =>
    /\ \A x, y \in Ends : x.block = y.block => x = y
    /\ \A x \in Ends : graph[x.block].last = "open"

\* What is closed is done with: nothing is ever put behind the terminator of a
\* block, and none gets a second one.  (The ret blocks of the exported function
\* are the business of its results.)
ClosedForGood ==
  [][\A b \in DOMAIN graph :
       graph[b].last # "open" /\ graph[b].role # "entry" =>
         graph'[b] = graph[b]]_vars

\* The exception of linkBlocks (Utility.cpp:22) is never thrown: the block it is
\* to link is not linked yet, whichever results it is called for.
NothingIsLinkedTwice == error # "linkBlocks"

\* ConditionalNode.cpp:70: merging takes the results that carry one value and
\* forgets the others.  Those are just the results that somebody is still to
\* continue; the others are finished, the ret blocks of the exported function.
MergesOpenEnds ==
  Returning("ifFalse") =>
    LET rs == Last(frames).done \o results IN
    \/ \E i \in Singles(rs) : rs[i].values[1].rep # "scalar"
    \/ \A i \in DOMAIN rs : i \in Singles(rs) <=> graph[rs[i].ep.block].role # "entry"

\* What FlowGraph sees: an end for every block that somebody holds, while the
\* generator runs.
OpenEnds == IF Running THEN {x.block : x \in Ends} ELSE {}

Edges(g) == UNION {{b} \X g[b].targets : b \in DOMAIN g}

Heads(g) == {b \in DOMAIN g : g[b].role = "function"}

Exits(g) == {b \in DOMAIN g : g[b].last = "ret"}

Outcome == IF Running THEN "running" ELSE IF pc = "built" THEN "built" ELSE "failed"

Flow == INSTANCE FlowGraph WITH
  count <- Len(graph), ends <- OpenEnds, edges <- Edges(graph),
  heads <- Heads(graph), returns <- Exits(graph), outcome <- Outcome

\* Whatever nodes there are and whatever is on the stack, the flow graph grows
\* as FlowGraph says: what is generated continues one end, or joins some, and
\* loses none; and a module is built when none is left.
ImplementsFlowGraph == Flow!Spec

\* No result is lost on the way: a block that belongs to the function and is
\* not closed yet is held by somebody who will close it.
NothingDangles ==
  Running => \A b \in DOMAIN graph :
    graph[b].inserted /\ graph[b].last = "open" => \E x \in Ends : x.block = b

\* Everything inserted is reached from alloc, block 1: each block has an
\* earlier one that branches to it.
NoUnreachableBlocks ==
  \A b \in 2..Len(graph) : graph[b].inserted =>
    \E p \in 1..b-1 : b \in graph[p].targets

\* The loops of the generated code are the tail calls: no other branch goes
\* backwards, so code without recursion is free of loops.
OnlyTailCallsGoBack ==
  \A b \in DOMAIN graph : \A t \in graph[b].targets :
    t <= b => graph[t].role = "function"

\* What waits for the continuation of a call or of an argument has the scopes
\* and locals of the caller, however deep the callee's body nested its own.
CallersScopeIsRestored ==
  \A k \in DOMAIN frames : frames[k].kind \in {"argument", "each"} =>
    \A r \in Range(frames[k].todo) \cup Range(frames[k].done) :
      frames[k].kind = "argument" \/ r \in Range(frames[k].todo) =>
        /\ r.ep.scopes = frames[k].ep.scopes
        /\ r.ep.locals = frames[k].ep.locals

\* JunctionNode: whatever the number of branches of the callee, what follows a
\* call is generated once per type, not once per branch.
OneContinuationPerType ==
  \A k \in DOMAIN frames :
    frames[k].kind = "each" /\ frames[k].node.kind # "call" =>
      \A i, j \in DOMAIN frames[k].todo :
        i # j => frames[k].todo[i].values # frames[k].todo[j].values

\* What a program has to be like for that: the results of a callee carry one
\* value each (whatever lay below the call was set aside), unless there is only
\* one (as of a void function), and a global has one result.
OneValueEach ==
  /\ Returning("junction") =>
       Len(results) <= 1 \/ Singles(results) = DOMAIN results
  /\ Returning("global") => Len(results) <= 1

\* When a call becomes a jump, it goes to an invocation of the very function
\* that overload resolution would have picked for these arguments.
JumpsLandInTheCallee ==
  pc = "build" /\ node.kind = "call" =>
    LET target == TailCallTarget(ep, node.names, values) IN
    target # NoEntry =>
      \E f \in FindFunction(ep, unit.functions, node.names, values) :
        <<target.block, f>> \in inlined

\* FunctionCallProxyNode.cpp:119, "Tail call": a call becomes a jump only in
\* tail position, where from the jump up to the end of the invocation it
\* restarts nothing is left to do but to return its value.
ReturnsAtOnce(block) ==
  \E k \in DOMAIN frames :
    /\ frames[k].kind = "function" /\ frames[k].ep.block = block
    /\ \A l \in k+1..Len(frames) :
         frames[l].kind = "junction" => frames[l].node.kind = "return"

JumpsOnlyInTailPosition ==
  /\ pc = "build" /\ node.kind = "proxy" =>
       (ProxyTakesTailPath(ep, node.names, values) =>
          node.consumer.kind = "return")
  /\ pc = "build" /\ node.kind = "call" =>
       LET target == TailCallTarget(ep, node.names, values) IN
       target # NoEntry => ReturnsAtOnce(target.block)
=============================================================================
