--------------------------- MODULE CodeGenProofs ---------------------------
(***************************************************************************)
(* Type correctness of the code generator, for every program, every order  *)
(* of the type singletons and every bound: THEOREM TypeCorrect.  TypeOK is *)
(* inductive as it stands.  The lemmas say of every operator the actions   *)
(* are built from which set its result is in; then there is one lemma per  *)
(* group of actions.                                                       *)
(***************************************************************************)
EXTENDS CodeGen, TLAPS, FiniteSetTheorems, WellFoundedInduction

-----------------------------------------------------------------------------
(* Numbers, sequences.                                                     *)

\* A set of numbers that is not empty has a least element.
LEMMA LeastNumber ==
  ASSUME NEW S \in SUBSET Nat, S # {}
  PROVE  \E n \in S : \A m \in S : n <= m
<1>1. PICK n \in S : \A m \in S : ~ (<<m, n>> \in OpToRel(<, Nat))
  BY WFMin, NatLessThanWellFounded, Zenon
<1>2. ASSUME NEW m \in S PROVE n <= m
  <2>1. <<m, n>> \in Nat \X Nat /\ <<m, n>>[1] = m /\ <<m, n>>[2] = n
    OBVIOUS
  <2>2. ~ (m < n)
    BY <2>1, <1>1, Zenon DEF OpToRel
  <2> QED BY <2>2
<1> QED BY <1>2

\* A set of numbers with an upper bound has a greatest element.
LEMMA GreatestNumber ==
  ASSUME NEW k \in Nat, NEW S \in SUBSET (0..k), S # {}
  PROVE  \E n \in S : \A m \in S : m <= n
<1> DEFINE T == {k - m : m \in S}
<1>1. T \in SUBSET Nat /\ T # {}
  <2>1. PICK s \in S : TRUE
    OBVIOUS
  <2>2. k - s \in T
    OBVIOUS
  <2>3. \A m \in S : k - m \in Nat
    OBVIOUS
  <2> QED BY <2>2, <2>3, Zenon
<1>2. PICK d \in T : \A c \in T : d <= c
  BY <1>1, LeastNumber, Zenon
<1>3. PICK n \in S : d = k - n
  BY <1>2
<1>4. ASSUME NEW m \in S PROVE m <= n
  <2>1. d <= k - m
    BY <1>2
  <2> QED BY <2>1, <1>3
<1> QED BY <1>4

\* Replacing an element of a sequence, wherever it is.
LEMMA ExceptType ==
  ASSUME NEW S, NEW s \in Seq(S), NEW i, NEW x, i \in DOMAIN s => x \in S
  PROVE  [s EXCEPT ![i] = x] \in Seq(S)
<1>1. PICK n \in Nat : s \in [1..n -> S]
  OBVIOUS
<1>2. [s EXCEPT ![i] = x] \in [1..n -> S]
  BY <1>1
<1> QED BY <1>2

\* Front and Last undo Append.
LEMMA FrontLastType ==
  ASSUME NEW S, NEW s \in Seq(S), s # <<>>
  PROVE  Front(s) \in Seq(S) /\ Last(s) \in S
BY DEF Front, Last

-----------------------------------------------------------------------------
(* BlockGraph: every operation turns a graph into a graph.                 *)

LEMMA InsertBlockType ==
  ASSUME NEW g \in Seq(Block), NEW b
  PROVE  InsertBlock(g, b) \in Seq(Block)
<1> DEFINE r == [g[b] EXCEPT !.inserted = TRUE]
<1>1. InsertBlock(g, b) = [g EXCEPT ![b] = r]
  BY DEF InsertBlock
<1>2. ASSUME b \in DOMAIN g PROVE r \in Block
  <2>1. g[b] \in Block
    BY <1>2
  <2> QED BY <2>1, Zenon DEF Block
<1> QED BY <1>1, <1>2, ExceptType

LEMMA EmitTypedType ==
  ASSUME NEW g \in Seq(Block), NEW b, NEW agree \in BOOLEAN
  PROVE  EmitTyped(g, b, agree) \in Seq(Block)
<1> DEFINE r == [g[b] EXCEPT
                   !.malformed = @ \/ g[b].last # "open" \/ ~agree,
                   !.last = "open"]
<1>1. EmitTyped(g, b, agree) = [g EXCEPT ![b] = r]
  BY DEF EmitTyped
<1>2. ASSUME b \in DOMAIN g PROVE r \in Block
  <2>1. g[b] \in Block
    BY <1>2
  <2>2. (g[b].malformed \/ g[b].last # "open" \/ ~agree) \in BOOLEAN
    OBVIOUS
  <2> QED BY <2>1, <2>2, Zenon DEF Block
<1> QED BY <1>1, <1>2, ExceptType

LEMMA EmitType ==
  ASSUME NEW g \in Seq(Block), NEW b
  PROVE  Emit(g, b) \in Seq(Block)
<1> DEFINE r == [g[b] EXCEPT !.malformed = @ \/ g[b].last # "open",
                             !.last = "open"]
<1>1. Emit(g, b) = [g EXCEPT ![b] = r]
  BY DEF Emit
<1>2. ASSUME b \in DOMAIN g PROVE r \in Block
  <2>1. g[b] \in Block
    BY <1>2
  <2>2. (g[b].malformed \/ g[b].last # "open") \in BOOLEAN
    OBVIOUS
  <2> QED BY <2>1, <2>2, Zenon DEF Block
<1> QED BY <1>1, <1>2, ExceptType

LEMMA TerminateType ==
  ASSUME NEW g \in Seq(Block), NEW b, NEW kind \in Terminators,
         NEW targets \in SUBSET Nat, NEW agree \in BOOLEAN
  PROVE  Terminate(g, b, kind, targets, agree) \in Seq(Block)
<1> DEFINE r == [g[b] EXCEPT
                   !.malformed = @ \/ g[b].last # "open" \/ ~agree,
                   !.last = kind, !.targets = @ \cup targets]
<1>1. Terminate(g, b, kind, targets, agree) = [g EXCEPT ![b] = r]
  BY DEF Terminate
<1>2. ASSUME b \in DOMAIN g PROVE r \in Block
  <2>1. g[b] \in Block
    BY <1>2
  <2>2. (g[b].malformed \/ g[b].last # "open" \/ ~agree) \in BOOLEAN
    OBVIOUS
  <2>3. (g[b].targets \cup targets) \in SUBSET Nat
    BY <2>1 DEF Block
  <2> QED BY <2>1, <2>2, <2>3, Zenon DEF Block
<1> QED BY <1>1, <1>2, ExceptType

LEMMA LinkBlocksType ==
  ASSUME NEW g \in Seq(Block), NEW b, NEW t \in Nat
  PROVE  LinkBlocks(g, b, t) \in Seq(Block)
BY TerminateType DEF LinkBlocks, Terminators

LEMMA AddBlocksType ==
  ASSUME NEW g \in Seq(Block), NEW role \in Roles, NEW inserted \in BOOLEAN,
         NEW n \in Nat
  PROVE  AddBlocks(g, role, inserted, n) \in Seq(Block)
<1>1. NewBlock(role, inserted) \in Block
  BY Zenon DEF NewBlock, Block
<1>2. [i \in 1..n |-> NewBlock(role, inserted)] \in Seq(Block)
  BY <1>1
<1> QED BY <1>2 DEF AddBlocks

LEMMA LinkEachType ==
  ASSUME NEW g \in Seq(Block), NEW I, NEW from, NEW to,
         \A i \in I : to[i] \in Nat, NEW insert \in BOOLEAN
  PROVE  LinkEach(g, I, from, to, insert) \in Seq(Block)
<1> DEFINE mine(b) == {i \in I : from[i] = b}
           linked(b) == [g[b] EXCEPT
              !.inserted = @ \/ insert,
              !.malformed = @ \/ g[b].last # "open" \/ Cardinality(mine(b)) > 1,
              !.last = "br",
              !.targets = @ \cup {to[i] : i \in mine(b)}]
<1>1. ASSUME NEW b \in 1..Len(g) PROVE linked(b) \in Block
  <2>1. g[b] \in Block
    OBVIOUS
  <2>2. (g[b].malformed \/ g[b].last # "open" \/ Cardinality(mine(b)) > 1)
          \in BOOLEAN
    BY Zenon
  <2>3. (g[b].inserted \/ insert) \in BOOLEAN
    BY Zenon
  <2>4. (g[b].targets \cup {to[i] : i \in mine(b)}) \in SUBSET Nat
    BY <2>1 DEF Block
  <2>5. "br" \in Terminators \cup {"open"}
    BY DEF Terminators
  <2> HIDE DEF mine
  <2> QED BY <2>1, <2>2, <2>3, <2>4, <2>5, Zenon DEF Block
<1>2. ASSUME NEW b \in 1..Len(g) PROVE g[b] \in Block
  OBVIOUS
<1>3. LinkEach(g, I, from, to, insert) =
        [b \in 1..Len(g) |-> IF mine(b) = {} THEN g[b] ELSE linked(b)]
  BY Zenon DEF LinkEach
<1> HIDE DEF mine, linked
<1>4. \A b \in 1..Len(g) :
        (IF mine(b) = {} THEN g[b] ELSE linked(b)) \in Block
  BY <1>1, <1>2
<1> QED BY <1>3, <1>4

-----------------------------------------------------------------------------
(* EntryPoint: every operation turns a context into a context.             *)

LEMMA NoEntryType == NoEntry \in Entry
BY DEF NoEntry, Entry

LEMMA RootEPType ==
  ASSUME NEW b \in Nat
  PROVE  RootEP(b) \in EP
<1>1. [name |-> RootName, entry |-> NoEntry] \in Scope
  BY NoEntryType, NameAssumption DEF Scope
<1>2. <<[name |-> RootName, entry |-> NoEntry]>> \in Seq(Scope) \ {<<>>}
  BY <1>1
<1>3. [n \in Name |-> NoValue] \in [Name -> Value \cup {NoValue}]
  OBVIOUS
<1> QED BY <1>2, <1>3 DEF RootEP, EP

LEMMA WithBlockType ==
  ASSUME NEW e \in EP, NEW b \in Nat
  PROVE  WithBlock(e, b) \in EP
BY DEF WithBlock, EP

LEMMA WithLocalsType ==
  ASSUME NEW e \in EP, NEW l \in [Name -> Value \cup {NoValue}]
  PROVE  WithLocals(e, l) \in EP
BY DEF WithLocals, EP

LEMMA WithNameType ==
  ASSUME NEW e \in EP, NEW n \in Name
  PROVE  WithName(e, n) \in EP
<1> DEFINE x == [name |-> n, entry |-> e.scopes[Len(e.scopes)].entry]
<1>1. e.scopes \in Seq(Scope) /\ e.scopes # <<>>
  BY DEF EP
<1>2. e.scopes[Len(e.scopes)] \in Scope
  BY <1>1
<1>3. x \in Scope
  BY <1>2 DEF Scope
<1>4. Append(e.scopes, x) \in Seq(Scope) \ {<<>>}
  BY <1>1, <1>3
<1>5. WithName(e, n) = [e EXCEPT !.scopes = Append(e.scopes, x)]
  BY DEF WithName
<1> HIDE DEF x
<1> QED BY <1>4, <1>5 DEF EP

LEMMA MarkEntryType ==
  ASSUME NEW e \in EP, NEW vs \in Seq(Value)
  PROVE  MarkEntry(e, vs) \in EP
<1> DEFINE l == Len(e.scopes)
           x == [e.scopes[l] EXCEPT !.entry = [block |-> e.block, values |-> vs]]
           s == [e.scopes EXCEPT ![l] = x]
<1>1. e.scopes \in Seq(Scope) /\ e.scopes # <<>> /\ e.block \in Nat
  BY DEF EP
<1>2. l \in DOMAIN e.scopes /\ e.scopes[l] \in Scope
  BY <1>1
<1>3. [block |-> e.block, values |-> vs] \in Entry
  BY <1>1 DEF Entry
<1>4. x \in Scope
  BY <1>2, <1>3 DEF Scope
<1> HIDE DEF x
<1>5. s \in Seq(Scope)
  BY <1>1, <1>4, ExceptType
<1>6. Len(s) = l /\ s # <<>>
  BY <1>1, <1>2
<1>7. MarkEntry(e, vs) = [e EXCEPT !.scopes = s]
  BY DEF MarkEntry, x
<1> HIDE DEF s
<1> QED BY <1>5, <1>6, <1>7 DEF EP

\* What a lookup by name finds is always an entry (of some scope, or none).
LEMMA ByNameType ==
  ASSUME NEW e \in EP, NEW n
  PROVE  ByName(e, n) \in Entry
<1> DEFINE found == {i \in DOMAIN e.scopes : e.scopes[i].name = n}
           innermost == CHOOSE i \in found : \A j \in found : j <= i
<1>1. e.scopes \in Seq(Scope)
  BY DEF EP
<1>2. CASE found = {}
  BY <1>2, NoEntryType DEF ByName
<1>3. CASE found # {}
  <2>1. Len(e.scopes) \in Nat /\ found \in SUBSET (0..Len(e.scopes))
    BY <1>1
  <2>2. \E i \in found : \A j \in found : j <= i
    BY <1>3, <2>1, GreatestNumber, Zenon
  <2>3. innermost \in found
    BY <2>2, Zenon
  <2>4. ByName(e, n) = e.scopes[innermost].entry
    BY <1>3 DEF ByName
  <2> HIDE DEF innermost
  <2>5. e.scopes[innermost] \in Scope
    BY <1>1, <2>3
  <2> QED BY <2>4, <2>5 DEF Scope
<1> QED BY <1>2, <1>3

-----------------------------------------------------------------------------
(* CallResolution.                                                         *)

LEMMA TailCallTargetType ==
  ASSUME NEW e \in EP, NEW names, NEW vs
  PROVE  TailCallTarget(e, names, vs) \in Entry
BY ByNameType, NoEntryType DEF TailCallTarget

LEMMA ResolutionErrorType ==
  ASSUME NEW e, NEW fs, NEW names, NEW vs
  PROVE  ResolutionError(e, fs, names, vs) \in Errors
BY DEF ResolutionError, Errors

\* Overload resolution finds one of the functions it is given, and one with
\* as many parameters as there are values.
LEMMA FindFunctionType ==
  ASSUME NEW e, NEW fs, NEW names, NEW vs,
         NEW f \in FindFunction(e, fs, names, vs)
  PROVE  f \in fs /\ Len(f.params) = Len(vs)
<1>1. PICK name : f \in Viable(fs, name, vs)
  <2> DEFINE here == Viable(fs, names[StopsAt(e, fs, names, vs)], vs)
  <2>1. f \in {g \in here : \A h \in here :
                 SignatureCompatibility(g, vs) <= SignatureCompatibility(h, vs)}
    BY Zenon DEF FindFunction
  <2>2. f \in here
    BY <2>1, Zenon
  <2> QED BY <2>2
<1>2. f \in fs /\ SignatureCompatibility(f, vs) >= 0
  BY <1>1, Zenon DEF Viable
<1>3. ASSUME Len(f.params) # Len(vs) PROVE FALSE
  <2>1. SignatureCompatibility(f, vs) = -1
    BY <1>3, Zenon DEF SignatureCompatibility
  <2> QED BY <1>2, <2>1
<1> QED BY <1>2, <1>3

-----------------------------------------------------------------------------
(* The ways a step ends.                                                   *)

\* What a frame holds, by its kind.
LEMMA FrameType ==
  ASSUME NEW f \in Frame
  PROVE  /\ f.ep \in EP
         /\ f.kind \in {"global", "junction", "ifTrue", "each"} =>
              f.node \in Node
         /\ f.kind \in {"junction", "ifTrue", "ifFalse"} =>
              f.values \in Seq(Value)
         /\ f.kind = "ifTrue" => f.block \in Nat
         /\ f.kind = "argument" => f \in ArgumentFrame
         /\ f.kind = "each" => f.prefix \in Seq(Value)
         /\ f.kind = "each" => f.todo \in Seq(Result)
         /\ f.kind \in {"ifFalse", "each"} => f.done \in Seq(Result)
BY DEF Frame, ArgumentFrame

\* The frame on top when results are returned to it.
LEMMA ReturningType ==
  ASSUME TypeOK, NEW kind, Returning(kind)
  PROVE  /\ Front(frames) \in Seq(Frame)
         /\ Last(frames) \in Frame /\ Last(frames).kind = kind
BY FrontLastType DEF TypeOK, Returning

LEMMA ThrowStep ==
  ASSUME TypeOK, UNCHANGED <<unit, address>>, NEW what \in Errors, Throw(what)
  PROVE  TypeOK'
BY DEF TypeOK, Throw

LEMMA UnderflowStep ==
  ASSUME TypeOK, UNCHANGED <<unit, address>>, Underflow
  PROVE  TypeOK'
BY ThrowStep DEF Underflow, Errors

LEMMA BuildStep ==
  ASSUME TypeOK, UNCHANGED <<unit, address>>,
         NEW n \in Node, NEW e \in EP, NEW vs \in Seq(Value), Build(n, e, vs),
         frames' \in Seq(Frame), graph' \in Seq(Block),
         inlined' \subseteq Nat \X Function
  PROVE  TypeOK'
BY DEF TypeOK, Build

LEMMA ReturnStep ==
  ASSUME TypeOK, UNCHANGED <<unit, address>>,
         NEW rs \in Seq(Result), Return(rs),
         frames' \in Seq(Frame), graph' \in Seq(Block),
         inlined' \subseteq Nat \X Function
  PROVE  TypeOK'
BY DEF TypeOK, Return

LEMMA BuildEachStep ==
  ASSUME TypeOK, UNCHANGED <<unit, address>>,
         NEW below \in Seq(Frame), NEW n \in Node, NEW e \in EP,
         NEW prefix \in Seq(Value), NEW todo \in Seq(Result),
         NEW done \in Seq(Result),
         BuildEach(below, n, e, prefix, todo, done),
         graph' \in Seq(Block), inlined' \subseteq Nat \X Function
  PROVE  TypeOK'
<1>1. CASE todo = <<>>
  BY <1>1, ReturnStep DEF BuildEach
<1>2. CASE todo # <<>>
  <2> DEFINE f == [kind |-> "each", node |-> n, ep |-> e, prefix |-> prefix,
                   todo |-> Tail(todo), done |-> done]
  <2>1. Build(n, todo[1].ep, todo[1].values) /\ frames' = Append(below, f)
    BY <1>2 DEF BuildEach
  <2>2. todo[1] \in Result /\ Tail(todo) \in Seq(Result)
    BY <1>2
  <2>3. todo[1].ep \in EP /\ todo[1].values \in Seq(Value)
    BY <2>2 DEF Result
  <2>4. f \in Frame
    BY <2>2 DEF Frame
  <2> HIDE DEF f
  <2>5. frames' \in Seq(Frame)
    BY <2>1, <2>4
  <2> QED BY <2>1, <2>3, <2>5, BuildStep
<1> QED BY <1>1, <1>2

-----------------------------------------------------------------------------
(* The actions.                                                            *)

LEMMA ScalarType ==
  ASSUME NEW t \in Type
  PROVE  Scalar(t) \in Value /\ Reference(t) \in Value
BY DEF Scalar, Reference, Value, Reps

\* A stack that is not empty, and what is under its top.
LEMMA TopType ==
  ASSUME TypeOK, values # <<>>
  PROVE  /\ Last(values) \in Value /\ Last(values).type \in Type
         /\ Front(values) \in Seq(Value)
<1>1. Last(values) \in Value /\ Front(values) \in Seq(Value)
  BY FrontLastType DEF TypeOK
<1> QED BY <1>1 DEF Value

\* A local that is declared is a value.
LEMMA ShadowedType ==
  ASSUME NEW e \in EP, NEW n \in Name, Shadowed(e, n)
  PROVE  e.locals[n] \in Value /\ e.locals[n].type \in Type
<1>1. e.locals[n] \in Value \cup {NoValue}
  BY DEF EP
<1>2. e.locals[n] \in Value
  BY <1>1 DEF Shadowed
<1> QED BY <1>2 DEF Value

LEMMA LiteralType ==
  ASSUME TypeOK, UNCHANGED <<unit, address>>, Literal
  PROVE  TypeOK'
<1>1. node.consumer \in Node /\ node.value \in Value
  BY NodeAssumption DEF TypeOK, Literal, Entering, IsNode, WithConsumer
<1>2. Append(values, node.value) \in Seq(Value)
  BY <1>1 DEF TypeOK
<1> QED BY <1>1, <1>2, BuildStep DEF TypeOK, Literal

LEMMA MemberType ==
  ASSUME TypeOK, UNCHANGED <<unit, address>>, Member
  PROVE  TypeOK'
<1>1. node.consumer \in Node /\ node.names \in Seq(Name)
  BY NodeAssumption DEF TypeOK, Member, Entering, IsNode, WithConsumer
<1>2. \A k \in Declared : k \in DOMAIN node.names /\ node.names[k] \in Name
  BY <1>1 DEF Declared
<1>3. ASSUME NEW k \in Declared, Shadowed(ep, node.names[k]),
             ep.locals[node.names[k]].rep = "reference",
             Build(node.consumer, ep,
                   Append(values, Scalar(ep.locals[node.names[k]].type))),
             graph' = Emit(graph, ep.block), UNCHANGED <<frames, inlined>>
      PROVE  TypeOK'
  <2>1. Scalar(ep.locals[node.names[k]].type) \in Value
    BY <1>2, <1>3, ShadowedType, ScalarType DEF TypeOK
  <2>2. Append(values, Scalar(ep.locals[node.names[k]].type)) \in Seq(Value)
    BY <2>1 DEF TypeOK
  <2>3. graph' \in Seq(Block)
    BY <1>3, EmitType DEF TypeOK
  <2> QED BY <1>1, <1>3, <2>2, <2>3, BuildStep DEF TypeOK
<1>4. ASSUME NEW k \in Declared, Shadowed(ep, node.names[k]),
             Build(node.consumer, ep, Append(values, ep.locals[node.names[k]])),
             UNCHANGED <<graph, frames, inlined>>
      PROVE  TypeOK'
  <2>1. ep.locals[node.names[k]] \in Value
    BY <1>2, <1>4, ShadowedType DEF TypeOK
  <2>2. Append(values, ep.locals[node.names[k]]) \in Seq(Value)
    BY <2>1 DEF TypeOK
  <2> QED BY <1>1, <1>4, <2>2, BuildStep DEF TypeOK
<1>5. ASSUME NEW g \in unit.globals, Build(g.value, ep, values),
             Push([kind |-> "global", node |-> node.consumer, ep |-> ep]),
             UNCHANGED <<graph, inlined>>
      PROVE  TypeOK'
  <2>1. g.value \in Node
    BY UnitAssumption DEF TypeOK, IsUnit
  <2>2. [kind |-> "global", node |-> node.consumer, ep |-> ep] \in Frame
    BY <1>1 DEF TypeOK, Frame
  <2>3. frames' \in Seq(Frame)
    BY <1>5, <2>2 DEF TypeOK, Push
  <2> QED BY <1>5, <2>1, <2>3, BuildStep DEF TypeOK
<1>6. ASSUME Throw("UndeclaredIdentifierException") PROVE TypeOK'
  BY <1>6, ThrowStep DEF Errors
<1> QED BY <1>3, <1>4, <1>5, <1>6, Zenon DEF Member

LEMMA ReturnGlobalType ==
  ASSUME TypeOK, UNCHANGED <<unit, address>>, ReturnGlobal
  PROVE  TypeOK'
<1>1. Returning("global")
  BY DEF ReturnGlobal
<1>2. /\ Front(frames) \in Seq(Frame) /\ Last(frames).node \in Node
      /\ Last(frames).ep \in EP
  BY <1>1, ReturningType, FrameType
<1>3. <<>> \in Seq(Value) /\ <<>> \in Seq(Result)
  OBVIOUS
<1> QED BY <1>2, <1>3, BuildEachStep DEF TypeOK, ReturnGlobal

LEMMA LocalType ==
  ASSUME TypeOK, UNCHANGED <<unit, address>>, Local
  PROVE  TypeOK'
<1>1. CASE values = <<>>
  BY <1>1, UnderflowStep DEF Local
<1>2. CASE values # <<>>
  <2> DEFINE l == [ep.locals EXCEPT ![node.name] = Last(values)]
  <2>1. node.consumer \in Node
    BY NodeAssumption DEF TypeOK, Local, Entering, IsNode, WithConsumer
  <2>2. l \in [Name -> Value \cup {NoValue}]
    BY <1>2, TopType DEF TypeOK, EP
  <2>3. Build(node.consumer, WithLocals(ep, l), Front(values))
          /\ UNCHANGED <<frames, graph, inlined>>
    BY <1>2 DEF Local
  <2> HIDE DEF l
  <2>4. WithLocals(ep, l) \in EP
    BY <2>2, WithLocalsType DEF TypeOK
  <2> QED BY <1>2, <2>1, <2>3, <2>4, TopType, BuildStep DEF TypeOK
<1> QED BY <1>1, <1>2

LEMMA BinaryType ==
  ASSUME TypeOK, UNCHANGED <<unit, address>>, Binary
  PROVE  TypeOK'
<1> DEFINE left == values[Len(values)]
           right == values[Len(values) - 1]
           out == Scalar(IF node.op = "arithmetic" THEN left.type ELSE "bool")
           vs == Append(SubSeq(values, 1, Len(values) - 2), out)
<1>1. ASSUME Throw("InvalidTypeException") PROVE TypeOK'
  BY <1>1, ThrowStep DEF Errors
<1>2. ASSUME values # <<>>, Len(values) # 1, Build(node.consumer, ep, vs),
             graph' = EmitTyped(graph, ep.block, left.type = right.type),
             UNCHANGED <<frames, inlined>>
      PROVE  TypeOK'
  <2>1. node.consumer \in Node
    BY NodeAssumption DEF TypeOK, Binary, Entering, IsNode, WithConsumer
  <2>2. left \in Value
    BY <1>2 DEF TypeOK
  <2>3. out \in Value
    BY <2>2, ScalarType, TypeAssumption DEF Value
  <2>4. SubSeq(values, 1, Len(values) - 2) \in Seq(Value)
    BY <1>2 DEF TypeOK
  <2> HIDE DEF out
  <2>5. vs \in Seq(Value)
    BY <2>3, <2>4
  <2> HIDE DEF vs
  <2>6. (left.type = right.type) \in BOOLEAN
    OBVIOUS
  <2>7. graph' \in Seq(Block)
    BY <1>2, <2>6, EmitTypedType, Zenon DEF TypeOK
  <2> QED BY <1>2, <2>1, <2>5, <2>7, BuildStep DEF TypeOK
<1>3. ASSUME Underflow PROVE TypeOK'
  BY <1>3, UnderflowStep
<1> QED BY <1>1, <1>2, <1>3, Zenon DEF Binary

LEMMA StackFrameType ==
  ASSUME TypeOK, UNCHANGED <<unit, address>>, StackFrame
  PROVE  TypeOK'
<1>1. node.consumer \in Node /\ <<>> \in Seq(Value)
  BY NodeAssumption DEF TypeOK, StackFrame, Entering, IsNode, WithConsumer
<1> QED BY <1>1, BuildStep DEF TypeOK, StackFrame

LEMMA ReferenceSinkType ==
  ASSUME TypeOK, UNCHANGED <<unit, address>>, ReferenceSink
  PROVE  TypeOK'
<1>1. node.consumer \in Node
  BY NodeAssumption DEF TypeOK, ReferenceSink, Entering, IsNode, WithConsumer
<1>2. CASE values = <<>>
  BY <1>2, UnderflowStep DEF ReferenceSink
<1>3. CASE values # <<>> /\ InMemory(Last(values))
  <2> DEFINE vs == Append(Front(values), Reference(Last(values).type))
  <2>1. vs \in Seq(Value)
    BY <1>3, TopType, ScalarType
  <2>2. /\ Build(node.consumer, ep, vs) /\ graph' = Emit(graph, ep.block)
        /\ UNCHANGED <<frames, inlined>>
    BY <1>3 DEF ReferenceSink
  <2> HIDE DEF vs
  <2> QED BY <1>1, <2>1, <2>2, EmitType, BuildStep DEF TypeOK
<1>4. CASE values # <<>> /\ ~ InMemory(Last(values))
  BY <1>1, <1>4, BuildStep DEF TypeOK, ReferenceSink
<1> QED BY <1>2, <1>3, <1>4

LEMMA ReturnStatementType ==
  ASSUME TypeOK, UNCHANGED <<unit, address>>, ReturnStatement
  PROVE  TypeOK'
<1>1. node.consumer \in Node
  BY NodeAssumption DEF TypeOK, ReturnStatement, Entering, IsNode, WithConsumer
<1>2. CASE values = <<>>
  BY <1>2, UnderflowStep DEF ReturnStatement
<1>3. CASE values # <<>>
  <2>1. graph' \in Seq(Block)
    BY <1>3, InsertBlockType, EmitType DEF TypeOK, ReturnStatement
  <2> QED BY <1>1, <1>3, <2>1, BuildStep DEF TypeOK, ReturnStatement
<1> QED BY <1>2, <1>3

LEMMA ProduceType ==
  ASSUME TypeOK, UNCHANGED <<unit, address>>, Produce
  PROVE  TypeOK'
BY LiteralType, MemberType, ReturnGlobalType, LocalType, BinaryType,
   StackFrameType, ReferenceSinkType, ReturnStatementType, Zenon DEF Produce

LEMMA TerminatorType ==
  ASSUME TypeOK, UNCHANGED <<unit, address>>, Terminator
  PROVE  TypeOK'
<1>1. [ep |-> ep, values |-> values] \in Result
  BY DEF TypeOK, Result
<1>2. <<[ep |-> ep, values |-> values]>> \in Seq(Result)
  BY <1>1
<1> QED BY <1>2, ReturnStep DEF TypeOK, Terminator

LEMMA ExportTerminatorType ==
  ASSUME TypeOK, UNCHANGED <<unit, address>>, ExportTerminator
  PROVE  TypeOK'
<1> DEFINE b == Len(graph) + 1
           added == AddBlocks(InsertBlock(graph, ep.block), "entry", TRUE, 1)
           linked == LinkBlocks(added, ep.block, b)
           agree == Last(values).type = unit.returns
           rs == <<[ep |-> WithBlock(ep, b), values |-> Front(values)]>>
<1>1. ASSUME Throw("linkBlocks") \/ Throw("InvalidTypeException")
      PROVE  TypeOK'
  BY <1>1, ThrowStep DEF Errors
<1>2. ASSUME values # <<>>, graph' = Terminate(linked, b, "ret", {}, agree),
             Return(rs), UNCHANGED <<frames, inlined>>
      PROVE  TypeOK'
  <2>1. b \in Nat
    BY DEF TypeOK
  <2>2. "entry" \in Roles /\ "ret" \in Terminators
    BY DEF Roles, Terminators
  <2> HIDE DEF b
  <2>3. added \in Seq(Block)
    BY <2>2, InsertBlockType, AddBlocksType DEF TypeOK
  <2> HIDE DEF added
  <2>4. linked \in Seq(Block)
    BY <2>1, <2>3, LinkBlocksType
  <2>5. agree \in BOOLEAN
    OBVIOUS
  <2> HIDE DEF linked, agree
  <2>6. graph' \in Seq(Block)
    BY <1>2, <2>2, <2>4, <2>5, TerminateType
  <2>7. WithBlock(ep, b) \in EP
    BY <2>1, WithBlockType DEF TypeOK
  <2>8. [ep |-> WithBlock(ep, b), values |-> Front(values)] \in Result
    BY <1>2, <2>7, TopType DEF Result
  <2>9. rs \in Seq(Result)
    BY <2>8
  <2> QED BY <1>2, <2>6, <2>9, ReturnStep DEF TypeOK
<1>3. ASSUME Underflow PROVE TypeOK'
  BY <1>3, UnderflowStep
<1> QED BY <1>1, <1>2, <1>3, Zenon DEF ExportTerminator

LEMMA LeaveType ==
  ASSUME TypeOK, UNCHANGED <<unit, address>>, Leave
  PROVE  TypeOK'
BY TerminatorType, ExportTerminatorType DEF Leave

-----------------------------------------------------------------------------
LEMMA ConditionalType ==
  ASSUME TypeOK, UNCHANGED <<unit, address>>, Conditional
  PROVE  TypeOK'
<1> DEFINE true == Len(graph) + 1
           false == Len(graph) + 2
           one == AddBlocks(InsertBlock(graph, ep.block), "true", FALSE, 1)
           created == AddBlocks(one, "false", FALSE, 1)
           agree == Last(values).type = "bool"
           e == WithBlock(WithName(ep, <<"ifTrue">>), true)
           f == [kind |-> "ifTrue", node |-> node.ifFalse, ep |-> ep,
                 block |-> false, values |-> Front(values)]
<1>1. ASSUME Throw("InvalidTypeException") PROVE TypeOK'
  BY <1>1, ThrowStep DEF Errors
<1>2. ASSUME values # <<>>,
             graph' = Terminate(created, ep.block, "cond", {true, false}, agree),
             Build(node.ifTrue, e, Front(values)), Push(f), UNCHANGED inlined
      PROVE  TypeOK'
  <2>1. node.ifTrue \in Node /\ node.ifFalse \in Node
    BY NodeAssumption DEF TypeOK, Conditional, Entering, IsNode
  <2>2. true \in Nat /\ false \in Nat /\ {true, false} \in SUBSET Nat
    BY DEF TypeOK
  <2>3. one \in Seq(Block)
    BY InsertBlockType, AddBlocksType DEF TypeOK, Roles
  <2> HIDE DEF one
  <2>4. created \in Seq(Block)
    BY <2>3, AddBlocksType DEF Roles
  <2>5. agree \in BOOLEAN /\ "cond" \in Terminators
    BY DEF Terminators
  <2> HIDE DEF created, agree, true, false
  <2>6. graph' \in Seq(Block)
    BY <1>2, <2>2, <2>4, <2>5, TerminateType
  <2>7. e \in EP
    BY <2>2, WithNameType, WithBlockType, NameAssumption DEF TypeOK
  <2>8. f \in Frame
    BY <1>2, <2>1, <2>2, TopType DEF TypeOK, Frame
  <2> HIDE DEF e, f
  <2>9. frames' \in Seq(Frame)
    BY <1>2, <2>8 DEF TypeOK, Push
  <2> QED BY <1>2, <2>1, <2>6, <2>7, <2>9, TopType, BuildStep DEF TypeOK
<1>3. ASSUME Underflow PROVE TypeOK'
  BY <1>3, UnderflowStep
<1> QED BY <1>1, <1>2, <1>3, Zenon DEF Conditional

LEMMA ReturnIfTrueType ==
  ASSUME TypeOK, UNCHANGED <<unit, address>>, ReturnIfTrue
  PROVE  TypeOK'
<1> DEFINE f == Last(frames)
           e == WithBlock(WithName(f.ep, <<"ifFalse">>), f.block)
           h == [kind |-> "ifFalse", ep |-> f.ep, values |-> f.values,
                 done |-> results]
<1>1. Returning("ifTrue") /\ Build(f.node, e, f.values)
        /\ frames' = Append(Front(frames), h)
  BY DEF ReturnIfTrue
<1>2. f \in Frame /\ f.kind = "ifTrue" /\ Front(frames) \in Seq(Frame)
  BY <1>1, ReturningType
<1> HIDE DEF f
<1>3. /\ f.ep \in EP /\ f.node \in Node /\ f.block \in Nat
      /\ f.values \in Seq(Value)
  BY <1>2, FrameType
<1>4. e \in EP
  BY <1>3, WithNameType, WithBlockType, NameAssumption
<1>5. h \in Frame
  BY <1>3 DEF TypeOK, Frame
<1> HIDE DEF e, h
<1>6. frames' \in Seq(Frame)
  BY <1>1, <1>2, <1>5
<1> QED BY <1>1, <1>3, <1>4, <1>6, BuildStep DEF TypeOK, ReturnIfTrue

\* What is true of the results that carry one value.
LEMMA SinglesType ==
  ASSUME NEW rs \in Seq(Result)
  PROVE  /\ Singles(rs) \subseteq 1..Len(rs)
         /\ TypesOf(rs) \subseteq Type
         /\ \A i \in Singles(rs) : /\ rs[i] \in Result
                                   /\ rs[i].values[1] \in Value
                                   /\ TypeOf(rs[i]) \in TypesOf(rs)
         /\ IsFiniteSet(Singles(rs)) /\ IsFiniteSet(TypesOf(rs))
<1>1. Singles(rs) \subseteq 1..Len(rs)
  BY DEF Singles
<1>2. ASSUME NEW i \in Singles(rs)
      PROVE  rs[i] \in Result /\ rs[i].values[1] \in Value
  <2>1. rs[i] \in Result /\ Len(rs[i].values) = 1
    BY <1>2 DEF Singles
  <2> QED BY <2>1 DEF Result
<1>3. TypesOf(rs) \subseteq Type
  BY <1>2 DEF TypesOf, TypeOf, Value
<1>4. \A i \in Singles(rs) : TypeOf(rs[i]) \in TypesOf(rs)
  BY DEF TypesOf
<1>5. IsFiniteSet(Singles(rs))
  BY <1>1, FS_Interval, FS_Subset
<1>6. IsFiniteSet(TypesOf(rs))
  <2> DEFINE type == [i \in Singles(rs) |-> TypeOf(rs[i])]
  <2>1. type \in Surjection(Singles(rs), TypesOf(rs))
    BY DEF TypesOf, Surjection
  <2> QED BY <1>5, <2>1, FS_Surjection, Zenon
<1> QED BY <1>1, <1>2, <1>3, <1>4, <1>5, <1>6

\* An enumeration of a finite set is a sequence, and it meets every element.
LEMMA EnumerationType ==
  ASSUME NEW S, IsFiniteSet(S), NEW rank, NEW o \in Enumerations(S, rank)
  PROVE  /\ o \in Seq(S)
         /\ \A s \in S : \E i \in 1..Len(o) : o[i] = s
<1>1. Cardinality(S) \in Nat
  BY FS_CardinalityType
<1>2. o \in [1..Cardinality(S) -> S]
        /\ \A s \in S : \E i \in 1..Cardinality(S) : o[i] = s
  BY DEF Enumerations
<1>3. o \in Seq(S) /\ Len(o) = Cardinality(S)
  BY <1>1, <1>2
<1> QED BY <1>2, <1>3

LEMMA ReturnIfFalseType ==
  ASSUME TypeOK, UNCHANGED <<unit, address>>, ReturnIfFalse
  PROVE  TypeOK'
<1> DEFINE f == Last(frames)
           rs == f.done \o results
           merge(o, i) == Len(graph) +
                            (CHOOSE j \in DOMAIN o : o[j] = TypeOf(rs[i]))
           to(o) == [i \in Singles(rs) |-> merge(o, i)]
           linked(o) == LinkEach(graph, Singles(rs),
                                 [i \in Singles(rs) |-> rs[i].ep.block],
                                 to(o), FALSE)
           out(o, j) == [ep |-> WithBlock(f.ep, Len(graph) + j),
                         values |-> Append(f.values, Scalar(o[j]))]
           outs(o) == [j \in 1..Len(o) |-> out(o, j)]
<1>1. Returning("ifFalse") /\ frames' = Front(frames) /\ UNCHANGED inlined
  BY DEF ReturnIfFalse
<1>2. f \in Frame /\ f.kind = "ifFalse" /\ Front(frames) \in Seq(Frame)
  BY <1>1, ReturningType
<1>3. f.ep \in EP /\ f.values \in Seq(Value) /\ f.done \in Seq(Result)
  BY <1>2, FrameType
<1> HIDE DEF f
<1>4. rs \in Seq(Result)
  BY <1>3 DEF TypeOK
<1>5. Len(graph) \in Nat
  BY DEF TypeOK
<1> HIDE DEF rs
<1>6. ASSUME Return(rs), UNCHANGED graph PROVE TypeOK'
  BY <1>1, <1>2, <1>4, <1>6, ReturnStep DEF TypeOK
<1>7. ASSUME NEW o \in Enumerations(TypesOf(rs), address),
             graph' = AddBlocks(linked(o), "merge", TRUE, Len(o)),
             Return(outs(o))
      PROVE  TypeOK'
  <2>1. /\ o \in Seq(TypesOf(rs)) /\ TypesOf(rs) \subseteq Type
        /\ \A t \in TypesOf(rs) : \E j \in 1..Len(o) : o[j] = t
    <3>1. IsFiniteSet(TypesOf(rs)) /\ TypesOf(rs) \subseteq Type
      BY <1>4, SinglesType
    <3> QED BY <3>1, EnumerationType
  <2>2. Len(o) \in Nat /\ DOMAIN o = 1..Len(o)
    BY <2>1
  <2>3. ASSUME NEW i \in Singles(rs) PROVE merge(o, i) \in Nat
    <3>1. \E j \in DOMAIN o : o[j] = TypeOf(rs[i])
      BY <1>4, <2>1, <2>2, <2>3, SinglesType, Zenon
    <3>2. (CHOOSE j \in DOMAIN o : o[j] = TypeOf(rs[i])) \in DOMAIN o
      BY <3>1, Zenon
    <3>3. (CHOOSE j \in DOMAIN o : o[j] = TypeOf(rs[i])) \in Nat
      BY <2>2, <3>2
    <3> QED BY <1>5, <3>3
  <2> HIDE DEF merge
  <2>4. linked(o) \in Seq(Block)
    BY <2>3, LinkEachType DEF TypeOK
  <2> HIDE DEF linked
  <2>5. graph' \in Seq(Block)
    BY <1>7, <2>2, <2>4, AddBlocksType DEF Roles
  <2>6. ASSUME NEW j \in 1..Len(o) PROVE out(o, j) \in Result
    <3>1. o[j] \in Type
      BY <2>1
    <3>2. Append(f.values, Scalar(o[j])) \in Seq(Value)
      BY <1>3, <3>1, ScalarType
    <3>3. Len(graph) + j \in Nat
      BY <1>5, <2>2
    <3> QED BY <1>3, <3>2, <3>3, WithBlockType DEF Result
  <2> HIDE DEF out
  <2>7. outs(o) \in Seq(Result)
    BY <2>2, <2>6
  <2> HIDE DEF outs
  <2> QED BY <1>1, <1>2, <1>7, <2>5, <2>7, ReturnStep DEF TypeOK
<1> QED BY <1>6, <1>7, Zenon
        DEF ReturnIfFalse, rs, f, linked, to, merge, outs, out

LEMMA BranchType ==
  ASSUME TypeOK, UNCHANGED <<unit, address>>, Branch
  PROVE  TypeOK'
BY ConditionalType, ReturnIfTrueType, ReturnIfFalseType DEF Branch

-----------------------------------------------------------------------------
LEMMA ProxyTailPathType ==
  ASSUME TypeOK, UNCHANGED <<unit, address>>, ProxyTailPath
  PROVE  TypeOK'
<1>1. node.segment \in Node
  BY NodeAssumption DEF TypeOK, ProxyTailPath, Entering, IsNode
<1> QED BY <1>1, BuildStep DEF TypeOK, ProxyTailPath

LEMMA ProxyRegularCallType ==
  ASSUME TypeOK, UNCHANGED <<unit, address>>, ProxyRegularCall
  PROVE  TypeOK'
<1> DEFINE f == [kind |-> "junction", node |-> node.consumer, ep |-> ep,
                 values |-> values]
<1>1. node.segment \in Node /\ node.consumer \in Node
  BY NodeAssumption
     DEF TypeOK, ProxyRegularCall, Entering, IsNode, WithConsumer
<1>2. f \in Frame
  BY <1>1 DEF TypeOK, Frame
<1>3. frames' = Append(frames, f) /\ Build(node.segment, ep, <<>>)
  BY DEF ProxyRegularCall, Push
<1> HIDE DEF f
<1>4. frames' \in Seq(Frame) /\ <<>> \in Seq(Value)
  BY <1>2, <1>3 DEF TypeOK
<1> QED BY <1>1, <1>3, <1>4, BuildStep DEF TypeOK, ProxyRegularCall

LEMMA SegmentType ==
  ASSUME TypeOK, UNCHANGED <<unit, address>>, Segment
  PROVE  TypeOK'
<1> DEFINE start == [ep |-> ep, values |-> <<>>]
           f == [kind |-> "argument", node |-> node, ep |-> ep,
                 values |-> values, index |-> 1, todo |-> <<start>>,
                 done |-> <<>>]
<1>1. /\ node.kind = "segment" /\ node.arguments \in Seq(Node)
      /\ node.call \in Node
  BY NodeAssumption DEF TypeOK, Segment, Entering, IsNode
<1>2. start \in Result
  BY DEF TypeOK, Result
<1>3. <<start>> \in Seq(Result) \ {<<>>} /\ <<>> \in Seq(Result)
        /\ <<>> \in Seq(Value)
  BY <1>2
<1>4. CASE node.arguments = <<>>
  <2>1. BuildEach(frames, node.call, ep, values, <<start>>, <<>>)
          /\ UNCHANGED <<graph, inlined>>
    BY <1>4 DEF Segment
  <2> HIDE DEF start
  <2> QED BY <1>1, <1>3, <2>1, BuildEachStep DEF TypeOK
<1>5. CASE node.arguments # <<>>
  <2>1. Build(node.arguments[1], ep, <<>>) /\ frames' = Append(frames, f)
          /\ UNCHANGED <<graph, inlined>>
    BY <1>5 DEF Segment, Push
  <2>2. node.arguments[1] \in Node
    BY <1>1, <1>5
  <2> HIDE DEF start
  <2>3. 1 \in DOMAIN node.arguments
    BY <1>1, <1>5
  <2>4. f \in ArgumentFrame
    BY <1>1, <1>3, <2>3 DEF TypeOK, ArgumentFrame
  <2> HIDE DEF f
  <2>5. frames' \in Seq(Frame)
    BY <2>1, <2>4 DEF TypeOK, Frame
  <2> QED BY <1>3, <2>1, <2>2, <2>5, BuildStep DEF TypeOK
<1> QED BY <1>4, <1>5

LEMMA ReturnEachType ==
  ASSUME TypeOK, UNCHANGED <<unit, address>>, ReturnEach
  PROVE  TypeOK'
<1> DEFINE f == Last(frames)
           r(j) == [results[j] EXCEPT !.values = f.prefix \o @]
           rs == [j \in 1..Len(results) |-> r(j)]
<1>1. Returning("each") /\ UNCHANGED <<graph, inlined>>
        /\ BuildEach(Front(frames), f.node, f.ep, f.prefix, f.todo, f.done \o rs)
  BY DEF ReturnEach
<1>2. f \in Frame /\ f.kind = "each" /\ Front(frames) \in Seq(Frame)
  BY <1>1, ReturningType
<1> HIDE DEF f
<1>3. /\ f.ep \in EP /\ f.node \in Node /\ f.prefix \in Seq(Value)
      /\ f.todo \in Seq(Result) /\ f.done \in Seq(Result)
  BY <1>2, FrameType
<1>4. ASSUME NEW j \in 1..Len(results) PROVE r(j) \in Result
  <2>1. results[j] \in Result
    BY DEF TypeOK
  <2>2. f.prefix \o results[j].values \in Seq(Value)
    BY <1>3, <2>1 DEF Result
  <2> QED BY <2>1, <2>2 DEF Result
<1> HIDE DEF r
<1>5. rs \in Seq(Result)
  BY <1>4 DEF TypeOK
<1> HIDE DEF rs
<1>6. f.done \o rs \in Seq(Result)
  BY <1>3, <1>5
<1> QED BY <1>1, <1>2, <1>3, <1>6, BuildEachStep DEF TypeOK

LEMMA ReturnArgumentType ==
  ASSUME TypeOK, UNCHANGED <<unit, address>>, ReturnArgument
  PROVE  TypeOK'
<1> DEFINE f == Last(frames)
           r(j) == [ep |-> results[j].ep,
                    values |-> results[j].values \o f.todo[1].values]
           rs == [j \in 1..Len(results) |-> r(j)]
           done == f.done \o rs
           h(index, todo, rest) == [f EXCEPT !.index = index, !.todo = todo,
                                             !.done = rest]
           next(index, todo, rest) ==
             /\ Build(f.node.arguments[index], todo[1].ep, <<>>)
             /\ frames' = Append(Front(frames), h(index, todo, rest))
<1>1. Returning("argument") /\ UNCHANGED <<graph, inlined>>
  BY DEF ReturnArgument
<1>2. /\ f \in Frame /\ f.kind = "argument" /\ f \in ArgumentFrame
      /\ Front(frames) \in Seq(Frame)
  BY <1>1, ReturningType, FrameType, Zenon
<1>3. \/ Len(f.todo) > 1 /\ next(f.index, Tail(f.todo), done)
      \/ f.index < Len(f.node.arguments) /\ done # <<>>
           /\ next(f.index + 1, done, <<>>)
      \/ BuildEach(Front(frames), f.node.call, f.ep, f.values, done, <<>>)
  BY Zenon DEF ReturnArgument
<1> HIDE DEF f
<1>4. /\ f.ep \in EP /\ f.node \in Node /\ f.values \in Seq(Value)
      /\ f.todo \in Seq(Result) /\ f.todo # <<>> /\ f.done \in Seq(Result)
      /\ f.node.kind = "segment" /\ f.index \in DOMAIN f.node.arguments
  BY <1>2 DEF ArgumentFrame
<1>5. f.node.arguments \in Seq(Node) /\ f.node.call \in Node
  BY <1>4, NodeAssumption DEF IsNode
<1>6. ASSUME NEW j \in 1..Len(results) PROVE r(j) \in Result
  <2>1. results[j] \in Result /\ f.todo[1] \in Result
    BY <1>4 DEF TypeOK
  <2>2. results[j].values \o f.todo[1].values \in Seq(Value)
    BY <2>1 DEF Result
  <2> QED BY <2>1, <2>2 DEF Result
<1> HIDE DEF r
<1>7. rs \in Seq(Result)
  BY <1>6 DEF TypeOK
<1> HIDE DEF rs
<1>8. done \in Seq(Result)
  BY <1>4, <1>7
<1> HIDE DEF done
<1>9. ASSUME NEW i \in DOMAIN f.node.arguments,
             NEW todo \in Seq(Result) \ {<<>>}, NEW rest \in Seq(Result),
             next(i, todo, rest)
      PROVE  TypeOK'
  <2>1. f.node.arguments[i] \in Node /\ i \in Nat
    BY <1>5, <1>9
  <2>2. todo[1] \in Result
    OBVIOUS
  <2>3. todo[1].ep \in EP /\ <<>> \in Seq(Value)
    BY <2>2 DEF Result
  <2>4. h(i, todo, rest) \in ArgumentFrame
    BY <1>2, <1>9, <2>1 DEF ArgumentFrame
  <2> HIDE DEF h
  <2>5. h(i, todo, rest) \in Frame
    BY <2>4 DEF Frame
  <2>6. frames' \in Seq(Frame)
    BY <1>2, <1>9, <2>5
  <2> QED BY <1>1, <1>9, <2>1, <2>3, <2>6, BuildStep DEF TypeOK
<1> HIDE DEF next
<1>10. CASE Len(f.todo) > 1 /\ next(f.index, Tail(f.todo), done)
  <2>1. Tail(f.todo) \in Seq(Result) \ {<<>>}
    <3> DEFINE s == f.todo
    <3>1. s \in Seq(Result) /\ Len(s) > 1
      BY <1>4, <1>10
    <3> HIDE DEF s
    <3>2. Tail(s) \in Seq(Result) /\ Len(Tail(s)) = Len(s) - 1 /\ Len(s) \in Nat
      BY <3>1
    <3>3. Len(Tail(s)) > 0
      BY <3>1, <3>2
    <3>4. \A u : Len(u) > 0 => u # <<>>
      OBVIOUS
    <3> QED BY <3>2, <3>3, <3>4, Zenon DEF s
  <2> QED BY <1>4, <1>8, <1>9, <1>10, <2>1
<1>11. CASE f.index < Len(f.node.arguments) /\ done # <<>>
              /\ next(f.index + 1, done, <<>>)
  <2>1. f.index + 1 \in DOMAIN f.node.arguments /\ <<>> \in Seq(Result)
    BY <1>4, <1>5, <1>11
  <2> QED BY <1>8, <1>9, <1>11, <2>1
<1>12. CASE BuildEach(Front(frames), f.node.call, f.ep, f.values, done, <<>>)
  <2>1. <<>> \in Seq(Result)
    OBVIOUS
  <2> QED BY <1>1, <1>2, <1>4, <1>5, <1>8, <1>12, <2>1, BuildEachStep DEF TypeOK
<1> QED BY <1>3, <1>10, <1>11, <1>12

LEMMA ReturnJunctionType ==
  ASSUME TypeOK, UNCHANGED <<unit, address>>, ReturnJunction
  PROVE  TypeOK'
<1> DEFINE f == Last(frames)
           rs == results
           group(t) == {i \in Singles(rs) : TypeOf(rs[i]) = t}
           first(t) == CHOOSE i \in group(t) : \A j \in group(t) : i <= j
           several == {t \in TypesOf(rs) : Cardinality(group(t)) > 1}
           joined == {i \in Singles(rs) : TypeOf(rs[i]) \in several}
           bare == {i \in joined : ~ InMemory(rs[first(TypeOf(rs[i]))].values[1])}
           from == [i \in joined |-> rs[i].ep.block]
           others == DOMAIN rs \ Singles(rs)
           junction(t) ==
             Len(graph) + Cardinality({u \in several : address[u] <= address[t]})
           output(t) ==
             [ep |-> IF t \in several THEN WithBlock(f.ep, junction(t))
                     ELSE rs[first(t)].ep,
              values |-> Append(f.values, rs[first(t)].values[1])]
           linked == LinkEach(graph, joined, from,
                              [i \in joined |-> junction(TypeOf(rs[i]))], TRUE)
           passed(p) == [j \in 1..Len(p) |-> rs[p[j]]]
           outputs(o) == [j \in 1..Len(o) |-> output(o[j])]
<1>1. Returning("junction")
  BY DEF ReturnJunction
<1>2. f \in Frame /\ f.kind = "junction" /\ Front(frames) \in Seq(Frame)
  BY <1>1, ReturningType
<1>3. \/ Throw("linkBlocks")
      \/ \E o \in Enumerations(TypesOf(rs), address),
            p \in Enumerations(others, [i \in DOMAIN rs |-> i]) :
           /\ graph' = AddBlocks(linked, "junction", FALSE, Cardinality(several))
           /\ BuildEach(Front(frames), f.node, f.ep, <<>>,
                        passed(p) \o outputs(o), <<>>)
           /\ UNCHANGED inlined
  BY Zenon DEF ReturnJunction
<1> HIDE DEF f
<1>4. f.ep \in EP /\ f.node \in Node /\ f.values \in Seq(Value)
  BY <1>2, FrameType
<1>5. rs \in Seq(Result) /\ Len(graph) \in Nat
  BY DEF TypeOK
<1> HIDE DEF rs
<1>6. /\ Singles(rs) \subseteq 1..Len(rs) /\ TypesOf(rs) \subseteq Type
      /\ IsFiniteSet(TypesOf(rs))
  BY <1>5, SinglesType
<1>7. several \subseteq TypesOf(rs) /\ IsFiniteSet(several)
  <2>1. several \in SUBSET TypesOf(rs)
    BY Zenon
  <2> QED BY <1>6, <2>1, FS_Subset
<1> HIDE DEF several
<1>8. Cardinality(several) \in Nat
  BY <1>7, FS_CardinalityType
<1>9. ASSUME NEW t PROVE junction(t) \in Nat
  <2>1. {u \in several : address[u] <= address[t]} \in SUBSET several
    BY Zenon
  <2>2. Cardinality({u \in several : address[u] <= address[t]}) \in Nat
    BY <1>7, <2>1, FS_Subset, FS_CardinalityType
  <2> QED BY <1>5, <2>2
<1> HIDE DEF junction
<1>10. linked \in Seq(Block)
  BY <1>9, LinkEachType DEF TypeOK
<1> HIDE DEF linked
<1>11. AddBlocks(linked, "junction", FALSE, Cardinality(several)) \in Seq(Block)
  BY <1>8, <1>10, AddBlocksType DEF Roles
<1>12. ASSUME NEW t \in TypesOf(rs) PROVE output(t) \in Result
  <2>1. group(t) # {}
    <3>1. PICK i \in Singles(rs) : t = TypeOf(rs[i])
      BY <1>12 DEF TypesOf
    <3> QED BY <3>1
  <2>2. group(t) \in SUBSET Nat
    BY <1>5, <1>6
  <2>3. \E i \in group(t) : \A j \in group(t) : i <= j
    BY <2>1, <2>2, LeastNumber, Zenon
  <2>4. first(t) \in Singles(rs)
    BY <2>3, Zenon
  <2> HIDE DEF group, first
  <2>5. rs[first(t)] \in Result /\ rs[first(t)].values[1] \in Value
    BY <1>5, <2>4, SinglesType
  <2>6. Append(f.values, rs[first(t)].values[1]) \in Seq(Value)
    BY <1>4, <2>5
  <2>7. WithBlock(f.ep, junction(t)) \in EP
    BY <1>4, <1>9, WithBlockType
  <2> QED BY <2>5, <2>6, <2>7 DEF Result
<1> HIDE DEF output
<1>13. ASSUME NEW o \in Enumerations(TypesOf(rs), address)
       PROVE  outputs(o) \in Seq(Result)
  <2>1. o \in Seq(TypesOf(rs))
    BY <1>6, EnumerationType
  <2> QED BY <1>12, <2>1
<1>14. ASSUME NEW p \in Enumerations(others, [i \in DOMAIN rs |-> i])
       PROVE  passed(p) \in Seq(Result)
  <2>1. others \in SUBSET (1..Len(rs))
    BY <1>5
  <2>2. IsFiniteSet(1..Len(rs))
    BY <1>5, FS_Interval
  <2>3. IsFiniteSet(others)
    BY <2>1, <2>2, FS_Subset
  <2> HIDE DEF others
  <2>4. p \in Seq(others)
    BY <2>3, EnumerationType
  <2>5. ASSUME NEW j \in 1..Len(p) PROVE rs[p[j]] \in Result
    <3>1. p[j] \in others
      BY <2>4
    <3>2. p[j] \in 1..Len(rs)
      BY <2>1, <3>1, Zenon
    <3> QED BY <1>5, <3>2
  <2>6. Len(p) \in Nat
    BY <2>4
  <2> QED BY <2>5, <2>6
<1> HIDE DEF outputs, passed, others
<1>15. CASE Throw("linkBlocks")
  BY <1>15, ThrowStep DEF Errors
<1>16. ASSUME NEW o \in Enumerations(TypesOf(rs), address),
              NEW p \in Enumerations(others, [i \in DOMAIN rs |-> i]),
              graph' = AddBlocks(linked, "junction", FALSE, Cardinality(several)),
              BuildEach(Front(frames), f.node, f.ep, <<>>,
                        passed(p) \o outputs(o), <<>>),
              UNCHANGED inlined
       PROVE  TypeOK'
  <2>1. passed(p) \o outputs(o) \in Seq(Result)
    BY <1>13, <1>14
  <2>2. <<>> \in Seq(Value) /\ <<>> \in Seq(Result)
    OBVIOUS
  <2> QED BY <1>2, <1>4, <1>11, <1>16, <2>1, <2>2, BuildEachStep DEF TypeOK
<1> QED BY <1>3, <1>15, <1>16, Zenon

LEMMA PrepareType ==
  ASSUME TypeOK, UNCHANGED <<unit, address>>, Prepare
  PROVE  TypeOK'
BY ProxyTailPathType, ProxyRegularCallType, SegmentType, ReturnArgumentType,
   ReturnJunctionType, ReturnEachType DEF Prepare

-----------------------------------------------------------------------------
LEMMA TailCallType ==
  ASSUME TypeOK, UNCHANGED <<unit, address>>, TailCall
  PROVE  TypeOK'
<1> DEFINE target == TailCallTarget(ep, node.names, values)
           stores == \E i \in DOMAIN values : InMemory(values[i])
           inserted == InsertBlock(graph, ep.block)
           stored == IF stores THEN Emit(inserted, ep.block) ELSE inserted
<1>1. \/ Throw("linkBlocks")
      \/ /\ graph' = LinkBlocks(stored, ep.block, target.block)
         /\ Return(<<>>) /\ UNCHANGED <<frames, inlined>>
  BY Zenon DEF TailCall
<1>2. target.block \in Nat
  BY TailCallTargetType DEF TypeOK, Entry
<1>3. stored \in Seq(Block)
  BY InsertBlockType, EmitType DEF TypeOK
<1> HIDE DEF stored, target
<1>4. LinkBlocks(stored, ep.block, target.block) \in Seq(Block)
  BY <1>2, <1>3, LinkBlocksType
<1>5. <<>> \in Seq(Result) /\ "linkBlocks" \in Errors
  BY DEF Errors
<1> QED BY <1>1, <1>4, <1>5, ThrowStep, ReturnStep DEF TypeOK

LEMMA CallFailsType ==
  ASSUME TypeOK, UNCHANGED <<unit, address>>, CallFails
  PROVE  TypeOK'
<1> DEFINE what == ResolutionError(ep, unit.functions, node.names, values)
<1>1. Throw(what) \/ Throw("linkBlocks")
  BY Zenon DEF CallFails
<1>2. what \in Errors /\ "linkBlocks" \in Errors
  BY ResolutionErrorType DEF Errors
<1> HIDE DEF what
<1> QED BY <1>1, <1>2, ThrowStep

LEMMA FunctionBlockType ==
  ASSUME TypeOK
  PROVE  FunctionBlock \in Seq(Block) /\ Len(graph) + 1 \in Nat
<1>1. Len(graph) + 1 \in Nat
  BY DEF TypeOK
<1>2. AddBlocks(InsertBlock(graph, ep.block), "function", FALSE, 1) \in Seq(Block)
  BY InsertBlockType, AddBlocksType DEF TypeOK, Roles
<1> QED BY <1>1, <1>2, LinkBlocksType DEF FunctionBlock

\* The function a call finds is one of those of all units.
LEMMA CalleeType ==
  ASSUME TypeOK,
         NEW f \in FindFunction(ep, unit.functions, node.names, values)
  PROVE  f \in Function /\ IsFunction(f) /\ Len(f.params) = Len(values)
<1>1. f \in unit.functions /\ Len(f.params) = Len(values)
  BY FindFunctionType
<1>2. unit.functions \subseteq Function
  BY UnitAssumption DEF TypeOK, IsUnit
<1> QED BY <1>1, <1>2, UnitAssumption

\* With as many values as parameters, every parameter gets one.
LEMMA WithArgumentsType ==
  ASSUME NEW locals \in [Name -> Value \cup {NoValue}],
         NEW params \in Seq([name: Name, type: Type]), NEW vs \in Seq(Value),
         Len(params) = Len(vs)
  PROVE  WithArguments(locals, params, vs) \in [Name -> Value \cup {NoValue}]
<1> DEFINE mine(n) == {i \in DOMAIN params : params[i].name = n}
           last(n) == CHOOSE i \in mine(n) : \A j \in mine(n) : j <= i
           arg(n) == IF mine(n) = {} THEN locals[n]
                     ELSE vs[Len(vs) + 1 - last(n)]
<1>1. ASSUME NEW n \in Name, mine(n) # {}
      PROVE  vs[Len(vs) + 1 - last(n)] \in Value
  <2>1. Len(params) \in Nat /\ mine(n) \in SUBSET (0..Len(params))
    OBVIOUS
  <2>2. \E i \in mine(n) : \A j \in mine(n) : j <= i
    BY <1>1, <2>1, GreatestNumber, Zenon
  <2>3. last(n) \in mine(n)
    BY <2>2, Zenon
  <2>4. last(n) \in DOMAIN params
    BY <2>3
  <2> HIDE DEF last
  <2>5. Len(vs) + 1 - last(n) \in 1..Len(vs)
    BY <2>4
  <2> QED BY <2>5
<1> HIDE DEF last
<1>2. \A n \in Name : arg(n) \in Value \cup {NoValue}
  BY <1>1
<1>3. WithArguments(locals, params, vs) = [n \in Name |-> arg(n)]
  BY Zenon DEF WithArguments, last
<1> HIDE DEF arg
<1> QED BY <1>2, <1>3

LEMMA CallFunctionType ==
  ASSUME TypeOK, UNCHANGED <<unit, address>>, CallFunction
  PROVE  TypeOK'
<1> DEFINE b == Len(graph) + 1
           callee == WithBlock(ep, b)
           frame == [kind |-> "function", ep |-> callee]
           start(f) == MarkEntry(WithName(callee, f.name), values)
           locals(f) == WithArguments(ep.locals, f.params, values)
<1>1. PICK f \in FindFunction(ep, unit.functions, node.names, values) :
        /\ graph' = FunctionBlock /\ inlined' = inlined \cup {<<b, f>>}
        /\ Build(f.body, WithLocals(start(f), locals(f)), <<>>)
        /\ Push(frame)
  BY Zenon DEF CallFunction
<1>2. /\ f \in Function /\ f.name \in Name /\ f.body \in Node
      /\ f.params \in Seq([name: Name, type: Type])
      /\ Len(f.params) = Len(values)
  BY CalleeType DEF IsFunction
<1>3. FunctionBlock \in Seq(Block) /\ b \in Nat
  BY FunctionBlockType
<1> HIDE DEF b
<1>4. callee \in EP
  BY <1>3, WithBlockType DEF TypeOK
<1>5. frame \in Frame
  BY <1>4 DEF Frame
<1> HIDE DEF callee
<1>6. start(f) \in EP
  BY <1>2, <1>4, WithNameType, MarkEntryType DEF TypeOK
<1>7. locals(f) \in [Name -> Value \cup {NoValue}]
  BY <1>2, WithArgumentsType DEF TypeOK, EP
<1> HIDE DEF start, locals, frame
<1>8. WithLocals(start(f), locals(f)) \in EP
  BY <1>6, <1>7, WithLocalsType
<1>9. frames' \in Seq(Frame)
  BY <1>1, <1>5 DEF TypeOK, Push
<1>10. inlined' \subseteq Nat \X Function
  BY <1>1, <1>2, <1>3 DEF TypeOK
<1>11. <<>> \in Seq(Value)
  OBVIOUS
<1> QED BY <1>1, <1>2, <1>3, <1>8, <1>9, <1>10, <1>11, BuildStep

LEMMA CallImportType ==
  ASSUME TypeOK, UNCHANGED <<unit, address>>, CallImport
  PROVE  TypeOK'
<1> DEFINE b == Len(graph) + 1
           fits(f) == \A i \in DOMAIN f.params :
                        /\ ArgumentScore(f, values, i) = 0
                        /\ values[Len(values) + 1 - i].rep = "reference"
           vs(f) == IF f.returns = "void" THEN <<>> ELSE <<Scalar(f.returns)>>
           r(f) == [ep |-> WithBlock(ep, b), values |-> vs(f)]
<1>1. PICK f \in FindFunction(ep, unit.functions, node.names, values) :
        /\ graph' = EmitTyped(FunctionBlock, b, fits(f))
        /\ inlined' = inlined \cup {<<b, f>>}
        /\ Return(<<r(f)>>) /\ UNCHANGED frames
  BY Zenon DEF CallImport
<1>2. f \in Function /\ f.returns \in Type \cup {"void"}
  BY CalleeType DEF IsFunction
<1>3. FunctionBlock \in Seq(Block) /\ b \in Nat
  BY FunctionBlockType
<1> HIDE DEF b
<1>4. fits(f) \in BOOLEAN
  BY Zenon
<1> HIDE DEF fits
<1>5. graph' \in Seq(Block)
  BY <1>1, <1>3, <1>4, EmitTypedType
<1>6. vs(f) \in Seq(Value)
  BY <1>2, ScalarType
<1> HIDE DEF vs
<1>7. r(f) \in Result
  BY <1>3, <1>6, WithBlockType DEF TypeOK, Result
<1> HIDE DEF r
<1>8. <<r(f)>> \in Seq(Result)
  BY <1>7
<1>9. inlined' \subseteq Nat \X Function
  BY <1>1, <1>2, <1>3 DEF TypeOK
<1> QED BY <1>1, <1>5, <1>8, <1>9, ReturnStep DEF TypeOK

LEMMA ReturnFunctionType ==
  ASSUME TypeOK, UNCHANGED <<unit, address>>, ReturnFunction
  PROVE  TypeOK'
<1> DEFINE f == Last(frames)
           I == DOMAIN results
           from == [i \in I |-> results[i].ep.block]
           to == [i \in I |-> Len(graph) + i]
           linked == LinkEach(graph, I, from, to, TRUE)
           r(i) == [ep |-> WithBlock(f.ep, Len(graph) + i),
                    values |-> results[i].values]
           rs == [i \in 1..Len(results) |-> r(i)]
<1>1. Returning("function")
        /\ \/ Throw("linkBlocks")
           \/ /\ graph' = AddBlocks(linked, "consumer", FALSE, Len(results))
              /\ Return(rs) /\ frames' = Front(frames) /\ UNCHANGED inlined
  BY Zenon DEF ReturnFunction
<1>2. f \in Frame /\ f.kind = "function" /\ Front(frames) \in Seq(Frame)
  BY <1>1, ReturningType
<1> HIDE DEF f
<1>3. f.ep \in EP
  BY <1>2, FrameType
<1>4. I = 1..Len(results) /\ Len(results) \in Nat /\ Len(graph) \in Nat
  BY DEF TypeOK
<1>5. \A i \in I : to[i] \in Nat
  BY <1>4
<1> HIDE DEF to, from
<1>6. linked \in Seq(Block)
  BY <1>5, LinkEachType DEF TypeOK
<1> HIDE DEF linked
<1>7. AddBlocks(linked, "consumer", FALSE, Len(results)) \in Seq(Block)
  BY <1>4, <1>6, AddBlocksType DEF Roles
<1>8. ASSUME NEW i \in 1..Len(results) PROVE r(i) \in Result
  <2>1. results[i] \in Result /\ Len(graph) + i \in Nat
    BY <1>4 DEF TypeOK
  <2>2. WithBlock(f.ep, Len(graph) + i) \in EP
    BY <1>3, <2>1, WithBlockType
  <2> QED BY <2>1, <2>2 DEF Result
<1> HIDE DEF r
<1>9. rs \in Seq(Result)
  BY <1>4, <1>8
<1> HIDE DEF rs
<1>10. "linkBlocks" \in Errors
  BY DEF Errors
<1> QED BY <1>1, <1>2, <1>7, <1>9, <1>10, ThrowStep, ReturnStep DEF TypeOK

LEMMA InvokeType ==
  ASSUME TypeOK, UNCHANGED <<unit, address>>, Invoke
  PROVE  TypeOK'
BY TailCallType, CallFailsType, CallFunctionType, CallImportType,
   ReturnFunctionType DEF Invoke

-----------------------------------------------------------------------------
LEMMA FinishType ==
  ASSUME TypeOK, UNCHANGED <<unit, address>>, Finish
  PROVE  TypeOK'
BY DEF TypeOK, Finish, Errors

LEMMA OverflowType ==
  ASSUME TypeOK, UNCHANGED <<unit, address>>, Overflow
  PROVE  TypeOK'
BY ThrowStep DEF Overflow, Errors

LEMMA InitType ==
  ASSUME Init
  PROVE  TypeOK
<1>1. unit.body \in Node /\ unit \in Unit
  BY UnitAssumption DEF Init, IsUnit
<1>2. address \in [Type -> Nat]
  BY LayoutAssumption DEF Init
<1>3. RootEP(2) \in EP
  BY RootEPType
<1>4. graph \in Seq(Block)
  <2>1. <<>> \in Seq(Block)
    OBVIOUS
  <2>2. AddBlocks(<<>>, "alloc", TRUE, 1) \in Seq(Block)
    BY <2>1, AddBlocksType DEF Roles
  <2>3. AddBlocks(AddBlocks(<<>>, "alloc", TRUE, 1), "body", FALSE, 1)
          \in Seq(Block)
    BY <2>2, AddBlocksType DEF Roles
  <2>4. 2 \in Nat
    OBVIOUS
  <2>5. LinkBlocks(AddBlocks(AddBlocks(<<>>, "alloc", TRUE, 1),
                             "body", FALSE, 1), 1, 2) \in Seq(Block)
    BY <2>3, <2>4, LinkBlocksType, Zenon
  <2>6. graph = LinkBlocks(AddBlocks(AddBlocks(<<>>, "alloc", TRUE, 1),
                                     "body", FALSE, 1), 1, 2)
    BY DEF Init
  <2> QED BY <2>5, <2>6
<1>5. pc \in {"build", "return", "built", "thrown"} /\ error \in Errors
  BY DEF Init, Errors
<1>6. node \in Node /\ ep \in EP
  BY <1>1, <1>3 DEF Init
<1>7. values \in Seq(Value) /\ results \in Seq(Result) /\ frames \in Seq(Frame)
  BY DEF Init
<1>8. inlined \subseteq Nat \X Function
  BY DEF Init
<1> QED BY <1>1, <1>2, <1>4, <1>5, <1>6, <1>7, <1>8 DEF TypeOK

LEMMA StepType ==
  ASSUME TypeOK, [Next]_vars
  PROVE  TypeOK'
<1>1. CASE Step /\ UNCHANGED <<unit, address>>
  BY <1>1, ProduceType, LeaveType, BranchType, PrepareType, InvokeType,
     FinishType, OverflowType, Zenon DEF Step
<1>2. CASE Stop /\ UNCHANGED <<unit, address>>
  BY <1>2 DEF Stop, TypeOK
<1>3. CASE UNCHANGED vars
  BY <1>3 DEF vars, TypeOK
<1> QED BY <1>1, <1>2, <1>3, Zenon DEF Next

\* Every state the code generator reaches is well typed: each node it enters
\* is a node of the unit's graph, each context has a scope and declared locals,
\* each flow graph is a sequence of blocks, each error is one of the list.
THEOREM TypeCorrect == Spec => []TypeOK
<1>1. Init => TypeOK
  BY InitType
<1>2. TypeOK /\ [Next]_vars => TypeOK'
  BY StepType
<1> QED BY <1>1, <1>2, PTL DEF Spec
=============================================================================
