-------------------------- MODULE IterationSyntax --------------------------
(***************************************************************************)
(* The syntax trees of programs that iterate: the graph of nodes the       *)
(* visitor makes of them (src/src/Visitor.cpp) and, next to it, what they  *)
(* mean: an interpreter that knows lists and no blocks, jumps or indices.  *)
(*                                                                         *)
(* Numbers are abstracted to the sequence of the literals they are the sum *)
(* of, compared by their length, so that the order and the number of times *)
(* elements are met show in every result.                                  *)
(***************************************************************************)
EXTENDS Iteration

RECURSIVE Visit(_, _, _), VisitStatements(_, _, _, _), ContainsIterator(_),
          Eval(_, _, _), EvalStatements(_, _, _, _), Bind(_, _)

\* The character behind every text.
Nul == <<"nul">>

TerminatorNode == [kind |-> "terminator"]
NoChain == [kind |-> "none"]

\* Every argument is a program of its own that ends in a reference.
VisitCall(e, type, alpha) ==
  LET sink == [kind |-> "sink", next |-> TerminatorNode]
      call == [kind |-> "call", name |-> e.name]
  IN  [kind |-> "proxy", name |-> e.name, next |-> alpha,
       segment |-> [kind |-> "segment",
                    arguments |-> [i \in DOMAIN e.arguments |->
                                     Visit(e.arguments[i], type, sink)],
                    call |-> [kind |-> "evaluation", next |-> call]]]

\* Mutant: the elements are numbered from the end.
VisitArrayBackwards(e, type, alpha) ==
  IF e.elements = <<>> THEN [kind |-> "empty"] ELSE
  [kind |-> "array", id |-> e.id, size |-> Len(e.elements), next |-> alpha,
   elements |->
     FoldLeft(LAMBDA next, i :
                Visit(e.elements[i], type,
                      [kind |-> "sink",
                       next |-> [kind |-> "indexSink",
                                 index |-> Len(e.elements) - i,
                                 next |-> next]]),
              TerminatorNode, [i \in DOMAIN e.elements |-> i])]

\* The last element is evaluated first; the empty array (EmptyArrayNode) is
\* built without its consumer.
VisitArray(e, type, alpha) ==
  IF e.elements = <<>> THEN [kind |-> "empty"] ELSE
  [kind |-> "array", id |-> e.id, size |-> Len(e.elements), next |-> alpha,
   elements |->
     FoldLeft(LAMBDA next, i :
                Visit(e.elements[i], type,
                      [kind |-> "sink",
                       next |-> [kind |-> "indexSink", index |-> i - 1,
                                 next |-> next]]),
              TerminatorNode, [i \in DOMAIN e.elements |-> i])]

Visit(e, type, alpha) ==
  CASE e.is = "literal" ->
         [kind |-> "literal", value |-> <<e.value>>, next |-> alpha]
    [] e.is = "string" ->
         [kind |-> "string", id |-> e.id, text |-> e.text, next |-> alpha]
    [] e.is = "member" -> [kind |-> "member", name |-> e.name, next |-> alpha]
    [] e.is = "let" ->
         Visit(e.value, type, [kind |-> "local", name |-> e.name, next |-> alpha])
    [] e.is = "binary" -> \* the right operand is evaluated first
         Visit(e.right, type,
               Visit(e.left, type, [kind |-> "binary", operator |-> e.operator,
                                    next |-> alpha]))
    [] e.is = "instantiation" ->
         FoldLeft(LAMBDA next, field : Visit(field.value, type, next),
                  [kind |-> "instantiation", next |-> alpha,
                   fields |-> [i \in DOMAIN e.fields |-> e.fields[i].name]],
                  e.fields)
    [] e.is = "expansion" ->
         Visit(e.of, type, [kind |-> "expansion", next |-> alpha])
    [] e.is = "array" -> VisitArray(e, type, alpha)
    [] e.is = "call" -> VisitCall(e, type, alpha)

\* What follows `->' is evaluated only when the next element is asked for; the
\* name of the function in front of its arguments is not looked at.
VisitReturn(ret, type, alpha) ==
  LET chain == IF ~ ret.chained THEN NoChain
               ELSE FoldLeft(LAMBDA next, e : Visit(e, type, next),
                             [kind |-> "continuation"], ret.arguments)
  IN  Visit(ret.value, type,
            [kind |-> "return", type |-> type, chain |-> chain, next |-> alpha])

VisitStatements(statements, ret, type, alpha) ==
  IF statements = <<>> THEN VisitReturn(ret, type, alpha)
  ELSE LET e == Head(statements)
           rest == [kind |-> "frame",
                    next |-> VisitStatements(Tail(statements), ret, type, alpha)]
       IN  IF e.is # "if" THEN Visit(e, type, rest)
           ELSE Visit(e.condition, type,
                  [kind |-> "conditional", ifFalse |-> rest,
                   ifTrue |-> VisitStatements(e.block.statements,
                                              e.block.return, type, alpha)])

\* A chained return anywhere in the block.
ContainsIterator(block) ==
  \/ block.return.chained
  \/ \E i \in DOMAIN block.statements :
       LET e == block.statements[i]
       IN  e.is = "if" /\ ContainsIterator(e.block)

VisitBlock(block, type, alpha) ==
  VisitStatements(block.statements, block.return, type, alpha)

\* Every function has an iterator type of its own.
VisitProgram(p) ==
  [functions |->
     [i \in DOMAIN p.functions |->
        LET f == p.functions[i] IN
        [name |-> f.name, parameters |-> f.parameters,
         attribute |-> IF ContainsIterator(f.block) THEN "iterator" ELSE "none",
         body |-> VisitBlock(f.block, IteratorType(-i), TerminatorNode)]],
   main |-> VisitBlock(p.main, IteratorType(0), [kind |-> "exportTerminator"])]

-----------------------------------------------------------------------------
(* What a program means.  Whatever is iterated over is the list of its     *)
(* elements; a list of one element is that element.  Elements are numbers  *)
(* and functions, or they are structures.                                  *)

List(elements) == [elements |-> elements, structs |-> <<>>]
Structs(structs) == [elements |-> <<>>, structs |-> structs]

Element1(v) == v.elements[1]

Size(v) == Len(v.elements) + Len(v.structs)

HeadOf(v) == IF v.structs = <<>> THEN List(<<Head(v.elements)>>)
             ELSE Structs(<<Head(v.structs)>>)
TailOf(v) == IF v.structs = <<>> THEN List(Tail(v.elements))
             ELSE Structs(Tail(v.structs))
Concat(v, w) == [elements |-> v.elements \o w.elements,
                 structs |-> v.structs \o w.structs]

EvalBinary(operator, left, right) ==
  CASE operator = "+" -> left \o right
    [] operator = "<" -> Len(left) < Len(right)
    [] operator = "=" -> Len(left) = Len(right)

\* A parameter in parentheses takes a list apart that has more than one
\* element, any other takes a single one.
Accepts(p, v) ==
  CASE p.is = "tuple" -> Size(v) > 1
    [] p.type.tag = "struct" -> Len(v.structs) = 1
    [] p.type.tag = "without" -> v = List(<<>>)
    [] OTHER -> Len(v.elements) = 1

Bind(p, v) ==
  IF p.is = "tuple"
  THEN Bind(p.parameters[1], HeadOf(v)) @@ Bind(p.parameters[2], TailOf(v))
  ELSE (<<p.name>> :> v) @@
         IF Len(v.structs) # 1 THEN [name \in {} |-> v]
         ELSE FoldLeft(LAMBDA all, field :
                         (<<p.name, field.name>> :> field.value) @@ all,
                       [name \in {} |-> v], v.structs[1])

\* What the name is bound to, or the function that takes the values.
Called(name, values, env, fs) ==
  IF <<name>> \in DOMAIN env THEN Element1(env[<<name>>])
  ELSE CHOOSE f \in Range(fs) :
         /\ f.name = name
         /\ Len(f.parameters) = Len(values)
         /\ \A k \in DOMAIN values : Accepts(f.parameters[k], values[k])

Apply(f, values, fs) ==
  LET env == FoldLeft(LAMBDA all, k : Bind(f.parameters[k], values[k]) @@ all,
                      [n \in {} |-> values[1]], [k \in DOMAIN values |-> k])
  IN  EvalStatements(f.block.statements, f.block.return, env, fs)

EvalAll(es, env, fs) == [i \in DOMAIN es |-> Eval(es[i], env, fs)]

EvalCall(e, env, fs) ==
  LET values == EvalAll(e.arguments, env, fs)
  IN  Apply(Called(e.name, values, env, fs), values, fs)

Eval(e, env, fs) ==
  CASE e.is = "literal" -> List(<< <<e.value>> >>)
    [] e.is = "string" ->
         List(IF e.text = <<>> THEN <<Nul>>
              ELSE [i \in DOMAIN e.text |-> <<e.text[i]>>])
    [] e.is = "member" ->
         IF e.name \in DOMAIN env THEN env[e.name]
         ELSE List(<<SelectSeq(fs, LAMBDA f : <<f.name>> = e.name)[1]>>)
    [] e.is = "binary" ->
         List(<<EvalBinary(e.operator, Element1(Eval(e.left, env, fs)),
                           Element1(Eval(e.right, env, fs)))>>)
    [] e.is = "array" ->
         FoldLeft(Concat, List(<<>>), EvalAll(e.elements, env, fs))
    [] e.is = "instantiation" ->
         Structs(<<[i \in DOMAIN e.fields |->
                      [name |-> e.fields[i].name,
                       value |-> Eval(e.fields[i].value, env, fs)]]>>)
    [] e.is = "expansion" -> Eval(e.of, env, fs)
    [] e.is = "call" -> EvalCall(e, env, fs)

EvalReturn(ret, env, fs) ==
  LET v == Eval(ret.value, env, fs)
  IN  IF ~ ret.chained THEN v ELSE Concat(v, EvalCall(ret, env, fs))

EvalStatements(statements, ret, env, fs) ==
  IF statements = <<>> THEN EvalReturn(ret, env, fs)
  ELSE LET e == Head(statements)
           rest(inner) == EvalStatements(Tail(statements), ret, inner, fs)
       IN  CASE e.is = "let" ->
                  rest((<<e.name>> :> Eval(e.value, env, fs)) @@ env)
             [] e.is = "if" ->
                  IF Element1(Eval(e.condition, env, fs))
                  THEN EvalStatements(e.block.statements, e.block.return, env, fs)
                  ELSE rest(env)
             [] OTHER -> rest(env)

\* The value the exported function of a program returns.
Meaning(p) ==
  Element1(EvalStatements(p.main.statements, p.main.return,
                          [name \in {} |-> List(<<>>)], p.functions))
=============================================================================
