---------------------------- MODULE MCIteration ----------------------------
(***************************************************************************)
(* Programs that iterate: those of the tests (test/main.cpp, by the number *)
(* of the scenario), all ways to combine the sources of elements with the  *)
(* functions that consume them, and the ones that go wrong.                *)
(***************************************************************************)
EXTENDS IterationRun

-----------------------------------------------------------------------------
(* Syntax.                                                                 *)

Lit(v) == [is |-> "literal", value |-> v]
Member(name) == [is |-> "member", name |-> <<name>>]
Field(name, field) == [is |-> "member", name |-> <<name, field>>]
Binary(operator, left, right) ==
  [is |-> "binary", operator |-> operator, left |-> left, right |-> right]
Plus(left, right) == Binary("+", left, right)
Equals(left, right) == Binary("=", left, right)
Let(name, value) == [is |-> "let", name |-> name, value |-> value]
StructOf(value) ==
  [is |-> "instantiation",
   fields |-> <<[name |-> "values", value |-> value]>>]
ArrayOfStructs(id, values) ==
  [is |-> "array", id |-> id,
   elements |-> [i \in DOMAIN values |-> StructOf(values[i])]]
Spread(name) == [is |-> "expansion", of |-> Member(name)]
Array(id, elements) ==
  [is |-> "array", id |-> id,
   elements |-> [i \in DOMAIN elements |-> Lit(elements[i])]]
Text(id, characters) == [is |-> "string", id |-> id, text |-> characters]
Call(name, arguments) == [is |-> "call", name |-> name, arguments |-> arguments]

Block(statements, value) ==
  [statements |-> statements,
   return |-> [value |-> value, chained |-> FALSE]]
Returns(value) == Block(<<>>, value)
Chained(statements, value, name, arguments) ==
  [statements |-> statements,
   return |-> [value |-> value, chained |-> TRUE, name |-> name,
               arguments |-> arguments]]
When(condition, value) ==
  [is |-> "if", condition |-> condition, block |-> Returns(value)]

Parameter(name, type) == [is |-> "plain", name |-> name, type |-> type]
Number(name) == Parameter(name, BuiltinType("int"))
Structure(name) == Parameter(name, CompositeType("struct", <<>>))
\* function (int, int) name
Operation(name) ==
  Parameter(name, CompositeType("function", <<BuiltinType("int"), BuiltinType("int")>>))
\* (first, ...rest)
FirstOf(first, rest) ==
  [is |-> "tuple", parameters |-> <<first, Parameter(rest, IteratorType(0))>>]
Several(first, rest) == FirstOf(Number(first), rest)
Function(name, parameters, block1) ==
  [name |-> name, parameters |-> parameters, block |-> block1]
Program(functions, main) == [functions |-> functions, main |-> main]

-----------------------------------------------------------------------------
(* Functions that take elements one by one, and those that produce them.   *)

Sum == <<
  Function("sum", <<Number("product"), Number("v")>>,
           Returns(Plus(Member("product"), Member("v")))),
  Function("sum", <<Number("product"), Several("v", "vs")>>,
           Returns(Call("sum", <<Plus(Member("product"), Member("v")),
                                 Spread("vs")>>)))>>

First == <<
  Function("first", <<Number("v")>>, Returns(Member("v"))),
  Function("first", <<Several("v", "vs")>>, Returns(Member("v")))>>

\* Goes on until it has what it looks for.
ElementAt ==
  LET found == When(Equals(Member("i"), Member("index")), Member("item")) IN <<
  Function("elementAt", <<Number("index"), Number("i"), Number("item")>>,
           Block(<<found>>, Lit("none"))),
  Function("elementAt",
           <<Number("index"), Number("i"), Several("item", "items")>>,
           Block(<<found>>,
                 Call("elementAt", <<Member("index"), Plus(Member("i"), Lit("1")),
                                     Spread("items")>>)))>>

AddOne ==
  LET next1 == Plus(Member("v"), Lit("one")) IN <<
  Function("addOne", <<Number("v")>>, Returns(next1)),
  Function("addOne", <<Several("v", "vs")>>,
           Chained(<<>>, next1, "addOne", <<Spread("vs")>>))>>

AddAll ==
  LET next1 == Plus(Member("v"), Member("addend")) IN <<
  Function("addAll", <<Number("addend"), Number("v")>>, Returns(next1)),
  Function("addAll", <<Number("addend"), Several("v", "vs")>>,
           Chained(<<>>, next1, "addAll", <<Member("addend"), Spread("vs")>>))>>

\* The sums up to each of the elements.
Sums ==
  LET next1 == Plus(Member("product"), Member("v")) IN <<
  Function("sums", <<Number("product"), Number("v")>>, Returns(next1)),
  Function("sums", <<Number("product"), Several("v", "vs")>>,
           Chained(<<Let("result", next1)>>, Member("result"), "sums",
                   <<Member("result"), Spread("vs")>>))>>

\* Two iterators at once, until one of them is at its last.
Add ==
  LET both == Plus(Member("left"), Member("right")) IN <<
  Function("add", <<Number("left"), Number("right")>>, Returns(both)),
  Function("add", <<Several("left", "lefts"), Several("right", "rights")>>,
           Chained(<<>>, both, "add", <<Spread("lefts"), Spread("rights")>>)),
  Function("add", <<Several("left", "lefts"), Number("right")>>, Returns(both)),
  Function("add", <<Number("left"), Several("right", "rights")>>, Returns(both))>>

NumbersBelow == <<
  Function("numbersBelow", <<Number("i"), Number("number")>>,
    Chained(<<When(Equals(Member("i"), Member("number")), Member("i"))>>,
            Member("i"), "numbersBelow",
            <<Plus(Member("i"), Lit("1")), Member("number")>>))>>

CreateArray ==
  <<Function("createArray", <<>>, Returns(Array("created", <<"a", "b", "c">>)))>>

\* A loop in a loop: the table is searched for every one of the indexes.
Lookup ==
  LET table == Let("table", Array("table", <<"x", "y">>))
      found == Plus(Member("product"),
                    Call("elementAt", <<Member("index"), Lit("0"),
                                        Member("table")>>))
  IN  <<Function("foo", <<Number("product"), Number("index")>>,
                 Block(<<table>>, found)),
        Function("foo", <<Number("product"), Several("index", "indexes")>>,
                 Block(<<table>>, Call("foo", <<found, Spread("indexes")>>)))>>

\* Functions as values, in the fields of structures, and of every element.
Operations ==
  LET invoked == Call("invoke", <<Member("v1"), Member("v2"), Field("s", "values")>>)
      applied == Call("fp", <<Member("v1"), Member("v2")>>)
  IN  <<
  Function("add2", <<Number("v1"), Number("v2")>>,
           Returns(Plus(Member("v1"), Member("v2")))),
  Function("flip", <<Number("v1"), Number("v2")>>,
           Returns(Plus(Member("v2"), Member("v1")))),
  Function("invoke", <<Number("v1"), Number("v2"), Operation("fp")>>, Returns(applied)),
  Function("each", <<Number("v1"), Number("v2"), Structure("s")>>, Returns(invoked)),
  Function("each", <<Number("v1"), Number("v2"), FirstOf(Structure("s"), "structs")>>,
           Chained(<<>>, invoked, "each",
                   <<Member("v1"), Member("v2"), Spread("structs")>>)),
  Function("createStructs", <<>>,
           Returns(ArrayOfStructs("structs", <<Member("add2"), Member("flip")>>)))>>

\* The function is an argument of every round.
Fold ==
  LET folded == Call("fp", <<Member("product"), Member("v")>>) IN <<
  Function("fold", <<Number("product"), Operation("fp"), Number("v")>>,
           Returns(folded)),
  Function("fold", <<Number("product"), Operation("fp"), Several("v", "vs")>>,
           Returns(Call("fold", <<folded, Member("fp"), Spread("vs")>>)))>>

Functions ==
  Sum \o First \o ElementAt \o AddOne \o AddAll \o Sums \o Add \o NumbersBelow
    \o CreateArray \o Lookup \o Operations \o Fold

SumOf(e) == Returns(Call("sum", <<Lit("0"), e>>))
Main(main) == Program(Functions, main)

\* A number, counted in ones.
RECURSIVE Count(_)
Count(n) == IF n = 1 THEN Lit("1") ELSE Plus(Count(n - 1), Lit("1"))

Letters == <<"a", "b", "c", "d">>
ArrayOf(id, n) == Array(id, SubSeq(Letters, 1, n))
ABC == ArrayOf("abc", 3)
XYZ == Array("xyz", <<"x", "y", "z">>)
XY == Array("xy", <<"x", "y">>)

\* A structure is replaced, with the values it holds, until they are large.
Grow(limit, more) ==
  LET total == Call("sum", <<Lit("0"), Field("s", "values")>>) IN
  Program(Functions \o
    <<Function("createStruct", <<>>, Returns(StructOf(ABC))),
      Function("grow", <<Structure("s")>>,
        Block(<<[is |-> "if",
                 condition |-> Binary("<", total, Count(limit)),
                 block |-> Returns(Call("grow", <<StructOf(more)>>))]>>,
              total))>>,
    Returns(Call("grow", <<Call("createStruct", <<>>)>>)))

TestPrograms ==
  [scenario37 |-> Main(SumOf(Call("numbersBelow", <<Count(1), Count(4)>>))),
   scenario38 |-> Main(SumOf(ABC)),
   scenario40 |-> Main(SumOf(Call("createArray", <<>>))),
   scenario42 |-> Main(SumOf(Call("addOne", <<ABC>>))),
   scenario44 |->
     Program(<<Function("foo", <<Parameter("item", BuiltinType("without"))>>,
                        Returns(Lit("23")))>>,
             Returns(Call("foo", <<Array("empty", <<>>)>>))),
   scenario61 |->
     Grow(20, Call("addAll", <<Count(2), Field("s", "values")>>)),
   scenario62 |->
     Grow(5, Call("addAll", <<Lit("1"), XYZ>>)),
   scenario65 |->
     LET invoked(f) == Call("invoke", <<Lit("3"), Lit("4"), Member(f)>>)
     IN  Main(Returns(Plus(invoked("add2"), invoked("flip")))),
   scenario66 |->
     Main(SumOf(Call("each", <<Lit("3"), Lit("4"), Call("createStructs", <<>>)>>))),
   scenario67 |-> Main(SumOf(Call("sums", <<Lit("0"), ABC>>))),
   scenario68 |-> Main(SumOf(Call("add", <<ABC, XYZ>>))),
   scenario69 |-> Main(SumOf(Call("add", <<Call("addOne", <<ABC>>),
                                           Call("addOne", <<XYZ>>)>>))),
   scenario70 |->
     Main(Returns(Call("foo",
       <<Lit("p"), [is |-> "array", id |-> "at",
                    elements |-> <<Count(2), Count(1), Count(2)>>]>>))),
   lengths |->
     Program(Functions \o
       <<Function("pick", <<Number("x")>>,
                  Block(<<When(Equals(Member("x"), Count(2)), Text("two", <<"a", "b">>))>>,
                        Text("three", <<"a", "b", "c">>)))>>,
       SumOf(Call("pick", <<Count(2)>>))),
   twice |-> Main(Block(<<Let("t", ABC)>>,
                        Call("sum", <<Call("sum", <<Lit("0"), Member("t")>>),
                                      Member("t")>>))),
   abandoned |-> Main(Returns(Plus(Call("first", <<Call("addOne", <<ABC>>)>>),
                                   Call("first", <<XYZ>>))))]

-----------------------------------------------------------------------------
(* Every source with every consumer.                                       *)

Sources ==
  [kind : {"array", "text", "generated", "function"}, size : 1..4,
   through : {"nothing", "addOne", "sums", "both"}]

Elements(s) ==
  CASE s.kind = "array" -> ArrayOf("elements", s.size)
    [] s.kind = "text" -> Text("elements", SubSeq(Letters, 1, s.size - 1))
    [] s.kind = "generated" -> Call("numbersBelow", <<Count(1), Count(s.size)>>)
    [] s.kind = "function" -> Call("createArray", <<>>)

Source(s) ==
  CASE s.through = "nothing" -> Elements(s)
    [] s.through = "addOne" -> Call("addOne", <<Elements(s)>>)
    [] s.through = "sums" -> Call("sums", <<Lit("s"), Elements(s)>>)
    [] s.through = "both" ->
         Call("sums", <<Lit("s"), Call("addOne", <<Elements(s)>>)>>)

Consumed(s, by) ==
  CASE by = "sum" -> SumOf(Source(s))
    [] by = "first" -> Returns(Call("first", <<Source(s)>>))
    [] by = "third" ->
         Returns(Call("elementAt", <<Count(3), Count(1), Source(s)>>))
    [] by = "fold" ->
         Returns(Call("fold", <<Lit("0"), Member("flip"), Source(s)>>))
    [] by = "add" -> SumOf(Call("add", <<XY, Source(s)>>))
    [] by = "sumOfAdd" ->
         SumOf(Call("addOne", <<Call("add", <<XYZ, Source(s)>>)>>))

\* On the right of a pair only what keeps nothing but its place.
Pairable ==
  {s \in Sources : s.kind # "generated" /\ s.through \in {"nothing", "addOne"}}

\* The tests and all combinations.
Combinations ==
  ({"sum", "first", "third", "fold"} \X Sources) \cup ({"add", "sumOfAdd"} \X Pairable)

CheckedPrograms ==
  LET trees == [p \in Combinations \cup ((DOMAIN TestPrograms) \X {"test"}) |->
                  IF p[1] \in DOMAIN TestPrograms THEN TestPrograms[p[1]]
                  ELSE Main(Consumed(p[2], p[1]))]
  IN  Prepared(trees)

-----------------------------------------------------------------------------
(* What goes wrong, one program for each flaw.                             *)

\* same: one literal on both sides of a pair.
\* reset: an array behind a text.
\* unset: an array behind a generator.
\* restarted: a running sum behind an array.
\* joined: two branches that return an array each.
\* shorter: fewer values take the place of more.
\* mixed: an element that is a number on one path and a structure on another.
\* empty: nothing has a name.
\* branches: two branches that return a function each.
\* replaced: a function that is replaced in a tail call.
\* texts: two branches that return texts of one length.
\* shadowed: a local with the name of a function a callee calls.
Wrong ==
  [same |-> Main(Block(<<Let("t", ABC)>>,
     Call("sum", <<Lit("0"), Call("add", <<Member("t"), Member("t")>>)>>))),
   reset |-> Main(SumOf(Call("add", <<Text("text", <<"a", "b", "c">>), XYZ>>))),
   unset |-> Main(SumOf(Call("add",
     <<Call("numbersBelow", <<Count(1), Count(4)>>), XYZ>>))),
   restarted |-> Main(SumOf(Call("add",
     <<XY, Call("sums", <<Lit("s"), ABC>>)>>))),
   joined |->
     Program(Functions \o
       <<Function("pick", <<Number("x")>>,
                  Block(<<When(Equals(Member("x"), Count(1)), ABC)>>, XYZ))>>,
       SumOf(Call("pick", <<Count(1)>>))),
   shorter |-> Grow(5, Call("addAll", <<Count(3), XY>>)),
   mixed |->
     Program(<<Function("pick", <<Number("x")>>,
                 Block(<<When(Equals(Member("x"), Count(1)), StructOf(Lit("s")))>>,
                       Lit("n"))),
               Function("size", <<Number("v")>>, Returns(Member("v"))),
               Function("size", <<Structure("v")>>, Returns(Field("v", "values")))>>,
             Returns(Call("size", <<[is |-> "array", id |-> "mixed",
                                     elements |-> <<Call("pick", <<Count(1)>>)>>]>>))),
   branches |->
     Program(Functions \o
       <<Function("pick", <<Number("x")>>,
           Block(<<When(Equals(Member("x"), Count(1)), Member("add2"))>>, Member("flip")))>>,
       Returns(Call("invoke", <<Lit("3"), Lit("4"), Call("pick", <<Count(2)>>)>>))),
   replaced |->
     Program(Functions \o
       <<Function("again", <<Number("x"), Operation("fp")>>,
           Block(<<When(Equals(Member("x"), Count(2)),
                        Call("fp", <<Lit("3"), Lit("4")>>))>>,
                 Call("again", <<Count(2), Member("flip")>>)))>>,
       Returns(Call("again", <<Count(1), Member("add2")>>))),
   texts |->
     Program(Functions \o
       <<Function("pick", <<Number("x")>>,
                  Block(<<When(Equals(Member("x"), Count(2)), Text("one", <<"a", "b">>))>>,
                        Text("other", <<"c", "d">>)))>>,
       SumOf(Call("pick", <<Count(2)>>))),
   shadowed |->
     Program(Functions \o
       <<Function("total", <<Number("v")>>, SumOf(Array("total", <<"x", "y">>)))>>,
       Block(<<Let("sum", Lit("0"))>>, Call("total", <<Lit("1")>>))),
   empty |->
     Program(<<Function("foo", <<Parameter("item", BuiltinType("without"))>>,
                        Returns(Lit("23")))>>,
             Block(<<Let("nothing", Array("empty", <<>>))>>,
                   Call("foo", <<Member("nothing")>>)))]

BranchesPrograms ==
  LET trees == [p \in {"branches"} |-> Wrong[p]] IN Prepared(trees)

RestartedPrograms ==
  LET trees == [p \in {"restarted"} |-> Wrong[p]] IN Prepared(trees)
=============================================================================
