------------------------------ MODULE Visitor ------------------------------
(***************************************************************************)
(* From the syntax tree to the node graph (src/src/Visitor.cpp).  A visit  *)
(* gets the node that consumes the value (m_alpha) and, for a conditional, *)
(* the consumer of the enclosing block (m_beta); it returns the node to    *)
(* start from, so the tree is turned inside out.                           *)
(*                                                                         *)
(* A syntax tree is a record with the field "is".  A conditional is only   *)
(* met as a statement, where m_beta is set.  Only runs use this module:    *)
(* its recursion is over the tree, which is data.                          *)
(***************************************************************************)
EXTENDS CodeGen, TypeNames

RECURSIVE VisitExpression(_, _, _), VisitStatements(_, _, _, _)

\* Every argument is a program of its own that ends in a reference.
VisitCall(e, ns, alpha) ==
  LET names == QualifiedNames(ns, e.name)
      sink == [kind |-> "referenceSink", consumer |-> TerminatorNode]
  IN  [kind |-> "proxy", names |-> names, consumer |-> alpha,
       segment |->
         [kind |-> "segment",
          arguments |-> [i \in DOMAIN e.arguments |->
                           VisitExpression(e.arguments[i], ns, sink)],
          call |-> [kind |-> "call", names |-> names]]]

\* The right operand is evaluated first.
VisitBinary(e, ns, alpha) ==
  LET binary == [kind |-> "binary", op |-> e.op, consumer |-> alpha]
  IN  VisitExpression(e.right, ns, VisitExpression(e.left, ns, binary))

VisitExpression(e, ns, alpha) ==
  CASE e.is = "literal" ->
         [kind |-> "literal", value |-> e.value, consumer |-> alpha]
    [] e.is = "member" ->
         [kind |-> "member", names |-> QualifiedNames(ns, e.name),
          consumer |-> alpha]
    [] e.is = "let" ->
         VisitExpression(e.value, ns,
                         [kind |-> "local", name |-> e.name, consumer |-> alpha])
    [] e.is = "binary" -> VisitBinary(e, ns, alpha)
    [] e.is = "call" -> VisitCall(e, ns, alpha)

VisitReturn(e, ns, alpha) ==
  VisitExpression(e, ns, [kind |-> "return", consumer |-> alpha])

\* The statements are folded from the last one; the block of a conditional
\* goes on with the consumer of the block around it, its other branch with
\* the statements that follow.
VisitStatements(statements, ret, ns, alpha) ==
  IF statements = <<>> THEN VisitReturn(ret, ns, alpha)
  ELSE LET e == Head(statements)
           rest == [kind |-> "stackFrame",
                    consumer |-> VisitStatements(Tail(statements), ret, ns, alpha)]
       IN  IF e.is # "if" THEN VisitExpression(e, ns, rest)
           ELSE VisitExpression(e.condition, ns,
                  [kind |-> "conditional", ifFalse |-> rest,
                   ifTrue |-> VisitStatements(e.block.statements, e.block.return,
                                              ns, alpha)])

VisitBlock(block, ns, alpha) ==
  VisitStatements(block.statements, block.return, ns, alpha)

\* The callable that populateInstructions files under its qualified name.
VisitFunction(f) ==
  [key |-> QualifiedNames(f.namespaces, f.name)[1], name |-> f.name,
   attribute |-> f.attribute, params |-> f.params,
   body |-> IF f.attribute = "import" THEN TerminatorNode
            ELSE VisitBlock(f.block, f.namespaces, TerminatorNode),
   returns |-> f.returns]

VisitGlobal(g) ==
  [name |-> QualifiedNames(g.namespaces, g.name)[1],
   value |-> VisitExpression(g.value, g.namespaces, TerminatorNode)]

\* A module with one exported function.
VisitProgram(p) ==
  [functions |-> {VisitFunction(f) : f \in p.functions},
   globals |-> {VisitGlobal(g) : g \in p.globals},
   body |-> VisitBlock(p.main, <<>>, [kind |-> "exportTerminator"]),
   returns |-> p.returns]

-----------------------------------------------------------------------------
RECURSIVE NodesFrom(_)

Children(n) ==
  CASE n.kind \in WithConsumer \ {"proxy"} -> {n.consumer}
    [] n.kind = "proxy" -> {n.consumer, n.segment}
    [] n.kind = "conditional" -> {n.ifTrue, n.ifFalse}
    [] n.kind = "segment" ->
         {n.call} \cup {n.arguments[i] : i \in DOMAIN n.arguments}
    [] OTHER -> {}

NodesFrom(n) == {n} \cup UNION {NodesFrom(m) : m \in Children(n)}

NodesOf(units) ==
  UNION {NodesFrom(u.body) \cup UNION {NodesFrom(f.body) : f \in u.functions}
           \cup UNION {NodesFrom(g.value) : g \in u.globals} : u \in units}
=============================================================================
