----------------------------- MODULE MCCodeGen -----------------------------
(***************************************************************************)
(* Programs for the code generator, most of them from src/test/main.cpp,   *)
(* as syntax trees, and the constants of CodeGen derived from them.        *)
(***************************************************************************)
EXTENDS Visitor

AnInt == [is |-> "literal", value |-> Scalar("int")]
ALong == [is |-> "literal", value |-> Scalar("long")]
ABool == [is |-> "literal", value |-> Scalar("bool")]
ANothing == [is |-> "literal", value |-> [rep |-> "without", type |-> "without"]]

Get(name) == [is |-> "member", name |-> name]
Let(name, e) == [is |-> "let", name |-> name, value |-> e]
Plus(a, b) == [is |-> "binary", op |-> "arithmetic", left |-> a, right |-> b]
Less(a, b) == [is |-> "binary", op |-> "relational", left |-> a, right |-> b]
CallOf(name, arguments) ==
  [is |-> "call", name |-> name, arguments |-> arguments]
Body(statements, e) == [statements |-> statements, return |-> e]
If(e, block) == [is |-> "if", condition |-> e, block |-> block]
IfReturn(e, value) == If(e, Body(<<>>, value))

\* Identifiers.
a == <<"a">>
b == <<"b">>
f == <<"f">>
g == <<"g">>
h == <<"h">>

Parameter(name, type) == [name |-> name, type |-> type]

FunctionIn(ns, name, params, block) ==
  [namespaces |-> ns, name |-> name, params |-> params, attribute |-> "none",
   block |-> block, returns |-> "void"]

FunctionOf(name, params, block) == FunctionIn(<<>>, name, params, block)

Import(name, params, returns) ==
  [namespaces |-> <<>>, name |-> name, params |-> params,
   attribute |-> "import", returns |-> returns]

Global(ns, name, e) == [namespaces |-> ns, name |-> name, value |-> e]

Program(functions, main) ==
  [functions |-> functions, globals |-> {}, main |-> main, returns |-> "int"]

-----------------------------------------------------------------------------
\* scenario14 max, called in an expression with a local.
Maximum ==
  Program({FunctionOf(f, <<Parameter(a, "int"), Parameter(b, "int")>>,
             Body(<<IfReturn(Less(Get(b), Get(a)), Get(a))>>, Get(b)))},
          Body(<<Let(g, CallOf(f, <<AnInt, AnInt>>))>>, Plus(Get(g), AnInt)))

\* scenario15: a loop, and something left to do after it.
Loop ==
  Program({FunctionOf(f, <<Parameter(a, "int"), Parameter(b, "int")>>,
             Body(<<IfReturn(Less(Get(a), Get(b)),
                             CallOf(f, <<Plus(Get(a), AnInt), Get(b)>>))>>,
                  Get(a)))},
          Body(<<>>, Plus(CallOf(f, <<AnInt, AnInt>>), AnInt)))

\* scenario16: producer returns an int or a long, consumer is overloaded.
DoubleDispatch ==
  Program({FunctionOf(f, <<Parameter(a, "int")>>, Body(<<>>, AnInt)),
           FunctionOf(f, <<Parameter(a, "long")>>, Body(<<>>, AnInt)),
           FunctionOf(g, <<Parameter(a, "int")>>,
             Body(<<IfReturn(Less(AnInt, Get(a)), AnInt)>>, ALong))},
          Body(<<>>, Plus(CallOf(f, <<CallOf(g, <<AnInt>>)>>),
                          CallOf(f, <<CallOf(g, <<AnInt>>)>>))))

\* scenario34 with a branch: nothing, two ints or a long, each dispatched.
Nullable ==
  Program({FunctionOf(g, <<Parameter(a, "int")>>,
             Body(<<IfReturn(Less(Get(a), AnInt), ANothing),
                    IfReturn(Less(AnInt, Get(a)), AnInt),
                    IfReturn(Less(AnInt, AnInt), ANothing)>>, AnInt)),
           FunctionOf(f, <<Parameter(a, "without")>>, Body(<<>>, AnInt)),
           FunctionOf(f, <<Parameter(a, "int")>>, Body(<<>>, Get(a)))},
          Body(<<>>, CallOf(f, <<CallOf(g, <<AnInt>>)>>)))

\* scenario25 and scenario28: calls in conditions, an exported function with
\* two returns, a call as a statement; and a void import.
Conditions ==
  Program({FunctionOf(f, <<Parameter(a, "int")>>,
             Body(<<IfReturn(Less(AnInt, Get(a)), AnInt)>>, AnInt)),
           FunctionOf(g, <<Parameter(a, "int")>>,
             Body(<<IfReturn(Less(CallOf(f, <<Get(a)>>), AnInt), AnInt),
                    CallOf(h, <<Get(a)>>)>>, Get(a))),
           Import(h, <<Parameter(a, "int")>>, "void")},
          Body(<<IfReturn(Less(CallOf(g, <<AnInt>>), AnInt), AnInt),
                 CallOf(f, <<AnInt>>)>>, CallOf(g, <<AnInt>>)))

\* scenario23: recursion without an end.
Forever ==
  Program({FunctionOf(g, <<Parameter(b, "long")>>, Body(<<>>, AnInt)),
           FunctionOf(f, <<Parameter(a, "int"), Parameter(b, "long")>>,
             Body(<<>>, CallOf(f, <<CallOf(g, <<Get(b)>>), Get(b)>>)))},
          Body(<<>>, CallOf(f, <<AnInt, ALong>>)))

\* scenario72 to 77: namespaced functions and globals, absolute names.
Namespaces ==
  [Program({FunctionIn(<<"Foo">>, f, <<>>,
              Body(<<>>, Plus(Get(a), CallOf(<<"", "g">>, <<>>)))),
            FunctionIn(<<"Foo">>, g, <<>>, Body(<<>>, Get(<<"", "a">>))),
            FunctionIn(<<"Foo">>, h, <<>>,
              Body(<<>>, Plus(CallOf(f, <<>>), CallOf(g, <<>>)))),
            FunctionOf(g, <<>>, Body(<<>>, AnInt))},
           Body(<<>>, CallOf(<<"Foo", "h">>, <<>>)))
   EXCEPT !.globals = {Global(<<>>, a, AnInt), Global(<<"Foo">>, a, AnInt)}]

\* Overloads that differ in their number of inexact arguments, an import
\* among the callees, and mutual recursion in tail position.
Overloads ==
  Program({FunctionOf(f, <<Parameter(a, "any"), Parameter(b, "int")>>,
             Body(<<IfReturn(Less(Get(b), AnInt), AnInt)>>,
                  CallOf(g, <<Get(b)>>))),
           FunctionOf(f, <<Parameter(a, "any"), Parameter(b, "any")>>,
             Body(<<>>, CallOf(h, <<Get(a)>>))),
           FunctionOf(g, <<Parameter(a, "int")>>,
             Body(<<>>, CallOf(f, <<ALong, Get(a)>>))),
           Import(h, <<Parameter(a, "long")>>, "int")},
          Body(<<>>, Plus(CallOf(f, <<ALong, AnInt>>), CallOf(f, <<ALong, ABool>>))))

\* scenario9: an overload with another number of arguments is called in the
\* middle of an expression.
Arities ==
  Program({FunctionOf(f, <<Parameter(a, "int"), Parameter(b, "int")>>,
             Body(<<>>, Plus(CallOf(f, <<Get(a)>>), Get(b)))),
           FunctionOf(f, <<Parameter(a, "int")>>, Body(<<>>, Get(a)))},
          Body(<<>>, CallOf(f, <<AnInt, AnInt>>)))

\* A function without arguments that calls itself.
Spin ==
  Program({FunctionOf(f, <<>>,
             Body(<<IfReturn(Less(CallOf(g, <<>>), AnInt), AnInt)>>, CallOf(f, <<>>))),
           Import(g, <<>>, "int")},
          Body(<<>>, Plus(CallOf(f, <<>>), AnInt)))

TestPrograms == {Maximum, Loop, DoubleDispatch, Nullable, Conditions, Forever,
                 Namespaces, Overloads, Arities, Spin}

-----------------------------------------------------------------------------
\* Programs with a fault.
Main(e) == Body(<<>>, e)

Undeclared == Program({}, Main(Get(a)))

NotFound == Program({FunctionOf(f, <<Parameter(a, "int")>>, Main(AnInt))},
                    Main(CallOf(f, <<ALong>>)))

\* The branch that returns nothing has no consumer.
Unhandled ==
  Program({FunctionOf(f, <<Parameter(a, "int")>>, Main(Get(a))),
           FunctionOf(g, <<Parameter(a, "int")>>,
             Body(<<IfReturn(Less(Get(a), AnInt), ANothing)>>, AnInt))},
          Main(CallOf(f, <<CallOf(g, <<AnInt>>)>>)))

Tie ==
  Program({FunctionOf(f, <<Parameter(a, "any"), Parameter(b, "int")>>, Main(AnInt)),
           FunctionOf(f, <<Parameter(a, "int"), Parameter(b, "any")>>, Main(AnInt))},
          Main(CallOf(f, <<AnInt, AnInt>>)))

CallsALocal ==
  Program({FunctionOf(f, <<>>, Main(AnInt))},
          Body(<<Let(f, AnInt)>>, CallOf(f, <<>>)))

NothingPlusOne == Program({}, Main(Plus(ANothing, AnInt)))
OnePlusNothing == Program({}, Main(Plus(AnInt, ANothing)))
ReturnsNothing == Program({}, Main(ANothing))
BranchesOnNothing == Program({}, Body(<<IfReturn(ANothing, AnInt)>>, AnInt))

\* A void call has no value to go on with.
VoidImport == Import(g, <<>>, "void")
ReturnsVoid == Program({VoidImport}, Main(CallOf(g, <<>>)))
OnePlusVoid == Program({VoidImport}, Main(Plus(AnInt, CallOf(g, <<>>))))
VoidPlusOne == Program({VoidImport}, Main(Plus(CallOf(g, <<>>), AnInt)))
BranchesOnVoid ==
  Program({VoidImport}, Body(<<IfReturn(CallOf(g, <<>>), AnInt)>>, AnInt))
LetVoid == Program({VoidImport}, Body(<<Let(a, CallOf(g, <<>>))>>, AnInt))
PassesVoid ==
  Program({VoidImport, FunctionOf(f, <<Parameter(a, "int")>>, Main(Get(a)))},
          Main(CallOf(f, <<CallOf(g, <<>>)>>)))

\* What only the LLVM verifier finds.
MixedOperands == Program({}, Main(Plus(AnInt, ALong)))
WrongReturn == Program({}, Main(ALong))
WrongCondition == Program({}, Body(<<IfReturn(AnInt, AnInt)>>, AnInt))
PassesNothing ==
  Program({Import(g, <<Parameter(a, "without")>>, "int")},
          Main(CallOf(g, <<ANothing>>)))

\* Two overloads that call each other with ever new scopes.
PingPong ==
  Program({FunctionOf(f, <<Parameter(a, "int")>>, Main(CallOf(f, <<ALong>>))),
           FunctionOf(f, <<Parameter(a, "long")>>, Main(CallOf(f, <<AnInt>>)))},
          Main(CallOf(f, <<AnInt>>)))

FaultyPrograms ==
  {Undeclared, NotFound, Unhandled, Tie, CallsALocal, NothingPlusOne,
   OnePlusNothing, ReturnsNothing, BranchesOnNothing, ReturnsVoid, OnePlusVoid,
   VoidPlusOne, BranchesOnVoid, LetVoid, PassesVoid, MixedOperands, WrongReturn,
   WrongCondition, PassesNothing, PingPong}

-----------------------------------------------------------------------------
\* Programs that are compiled to something else than they say.

\* f(n) = n + f(n - 1), recursive but not in tail position.
Sum ==
  Program({FunctionOf(f, <<Parameter(a, "int")>>,
             Body(<<IfReturn(Less(Get(a), AnInt), AnInt)>>,
                  Plus(CallOf(f, <<Plus(Get(a), AnInt)>>), Get(a))))},
          Main(CallOf(f, <<AnInt>>)))

\* scenario74, with the call of ::g inside of Foo::g.
AbsoluteName ==
  Program({FunctionIn(<<"Foo">>, g, <<>>, Main(CallOf(<<"", "g">>, <<>>))),
           FunctionOf(g, <<>>, Main(AnInt))},
          Main(CallOf(<<"Foo", "g">>, <<>>)))

-----------------------------------------------------------------------------
NamesIn(units) ==
  {RootName, <<"ifTrue">>, <<"ifFalse">>}
    \cup UNION {{fn.key, fn.name} \cup {fn.params[i].name : i \in DOMAIN fn.params} :
                  fn \in UNION {u.functions : u \in units}}
    \cup {gl.name : gl \in UNION {u.globals : u \in units}}
    \cup UNION {IF n.kind \in {"member", "proxy", "call"}
                THEN Range(n.names)
                ELSE IF n.kind = "local" THEN {n.name} ELSE {} :
                  n \in NodesOf(units)}

MCTypes == {"int", "long", "bool", "any", "without"}

\* Two layouts that disagree on the order of any two types.
Rank == [int |-> 1, long |-> 2, bool |-> 3, any |-> 4, without |-> 5]
MCLayouts == {[t \in MCTypes |-> Rank[t]], [t \in MCTypes |-> 6 - Rank[t]]}

FunctionsOf(units) == UNION {u.functions : u \in units}
AllNodes(units) == NodesOf(units) \cup {TerminatorNode}

\* What a terminator consumes, not that of the exported function.
InnerNodes(units) ==
  {TerminatorNode}
    \cup UNION {NodesFrom(fn.body) : fn \in FunctionsOf(units)}
    \cup UNION {NodesFrom(gl.value) : gl \in UNION {u.globals : u \in units}}
    \cup UNION {NodesFrom(n.segment) : n \in {m \in NodesOf(units) : m.kind = "proxy"}}

TestUnits == {VisitProgram(p) : p \in TestPrograms}
TestFunctions == FunctionsOf(TestUnits)
TestNodes == AllNodes(TestUnits)
TestNames == NamesIn(TestUnits)

FaultyUnits == {VisitProgram(p) : p \in FaultyPrograms}
FaultyFunctions == FunctionsOf(FaultyUnits)
FaultyNodes == AllNodes(FaultyUnits)
FaultyNames == NamesIn(FaultyUnits)

SumUnits == {VisitProgram(Sum)}
SumFunctions == FunctionsOf(SumUnits)
SumNodes == AllNodes(SumUnits)
SumInner == InnerNodes(SumUnits)
SumNames == NamesIn(SumUnits)

AbsoluteUnits == {VisitProgram(AbsoluteName)}
AbsoluteFunctions == FunctionsOf(AbsoluteUnits)
AbsoluteNodes == AllNodes(AbsoluteUnits)
AbsoluteInner == InnerNodes(AbsoluteUnits)
AbsoluteNames == NamesIn(AbsoluteUnits)

CheckedUnits == TestUnits \cup FaultyUnits
CheckedFunctions == FunctionsOf(CheckedUnits)
CheckedNodes == AllNodes(CheckedUnits)
CheckedInner == InnerNodes(CheckedUnits)
CheckedNames == NamesIn(CheckedUnits)

-----------------------------------------------------------------------------
\* The programs of the test suite compile: no exception, no crash, and the
\* LLVM verifier accepts the module; although every call is inlined, that ends.
TestsAreBuilt == unit \in TestUnits => <>(pc = "built")

\* A program with a fault never becomes a module, whatever fault it is: an
\* unresolved or ambiguous call, a `nothing' nobody accepts (README.md, No
\* "null" value), operands or a return value of the wrong type.
FaultsAreFound == pc = "built" => unit \notin FaultyUnits
=============================================================================
