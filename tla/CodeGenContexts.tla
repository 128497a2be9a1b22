-------------------------- MODULE CodeGenContexts --------------------------
(***************************************************************************)
(* What the contexts of a compilation hold, for every program: the scopes  *)
(* a call may become a jump into, and the names that hide a function, from *)
(* which follows where tail calls land; and whether what waits for a call  *)
(* or an argument goes on in the context it started from.                  *)
(***************************************************************************)
EXTENDS CodeGenProofs

-----------------------------------------------------------------------------
(* Programs.                                                               *)

\* The nodes of a unit are among N.
HasNodes(u, N) ==
  /\ u.body \in N
  /\ \A f \in u.functions : f.body \in N
  /\ \A g \in u.globals : g.value \in N
  /\ \A n \in N :
       /\ n.kind \in WithConsumer => n.consumer \in N
       /\ n.kind = "conditional" => n.ifTrue \in N /\ n.ifFalse \in N
       /\ n.kind = "proxy" => n.segment \in N
       /\ n.kind = "segment" => n.arguments \in Seq(N) /\ n.call \in N

\* What may be found in the locals of a context.
LocalNames(u, N) ==
  {n.name : n \in {m \in N : m.kind = "local"}}
    \cup UNION {{f.params[i].name : i \in DOMAIN f.params} : f \in u.functions}

Branches == {<<"ifTrue">>, <<"ifFalse">>}

\* No call has a name in common with a local or with the branches of a
\* conditional; and a call by the simple name of a function means that one:
\* whatever names are tried before its qualified name belong to no function.
CallsAreUnmistakable(u, N) ==
  \A n \in N : n.kind = "call" =>
    /\ \A k \in DOMAIN n.names :
         n.names[k] \notin LocalNames(u, N) \cup Branches
    /\ \A f \in u.functions :
         (\E k \in DOMAIN n.names : n.names[k] = f.name) =>
           \E k \in DOMAIN n.names :
             /\ n.names[k] = f.key
             /\ \A l \in 1..k-1 : \A g \in u.functions : g.key # n.names[l]

IsUnmistakable(u) ==
  \E N \in SUBSET Node : HasNodes(u, N) /\ CallsAreUnmistakable(u, N)

-----------------------------------------------------------------------------
(* The inductive invariant.                                                *)

\* Overload resolution among the functions filed under f's name picks f.
Picks(fs, f, vs) ==
  LET viable == Viable(fs, f.key, vs) IN
  /\ f \in viable /\ ~ Ambiguous(viable, vs)
  /\ \A g \in viable : SignatureCompatibility(f, vs) <= SignatureCompatibility(g, vs)

\* A scope that was entered is a branch, which has the entry of the scope
\* around it, or the invocation of a function picked for what it was entered
\* with.
Entered(u, made, s) ==
  \/ s.entry = NoEntry
  \/ s.name \in Branches
  \/ \E f \in u.functions : /\ s.name = f.name
                            /\ <<s.entry.block, f>> \in made
                            /\ Picks(u.functions, f, s.entry.values)

\* The contexts that hold only such scopes, and no local but the declared.
Contexts(u, N, made) ==
  {e \in EP : /\ \A i \in DOMAIN e.scopes : Entered(u, made, e.scopes[i])
              /\ \A x \in Name : Shadowed(e, x) => x \in LocalNames(u, N)}

ResultsIn(C, rs) == \A i \in DOMAIN rs : rs[i].ep \in C

\* Whatever a frame keeps for later.
FrameIn(C, N, f) ==
  /\ f.ep \in C
  /\ f.kind \in {"global", "junction", "ifTrue", "argument", "each"} => f.node \in N
  /\ f.kind \in {"argument", "each"} => ResultsIn(C, f.todo)
  /\ f.kind \in {"ifFalse", "argument", "each"} => ResultsIn(C, f.done)

FramesIn(C, N, fs) == \A k \in DOMAIN fs : FrameIn(C, N, fs[k])

Holds(C, N, n, e, rs, fs) ==
  n \in N /\ e \in C /\ ResultsIn(C, rs) /\ FramesIn(C, N, fs)

\* Only nodes of N are built, and only in contexts of C.
Within(C, N) == Holds(C, N, node, ep, results, frames)

ContextInv(N) ==
  HasNodes(unit, N) => Within(Contexts(unit, N, inlined), N)

-----------------------------------------------------------------------------
(* Contexts, results and frames.                                           *)

\* What the nodes do to a context on the way, a call apart.
Closed(C, N) ==
  /\ C \subseteq EP
  /\ \A e \in C, b \in Nat : WithBlock(e, b) \in C
  /\ \A e \in C, x \in Branches : WithName(e, x) \in C
  /\ \A e \in C, n \in N, v \in Value :
       n.kind = "local" => WithLocals(e, [e.locals EXCEPT ![n.name] = v]) \in C

LEMMA WithBlockKeeps ==
  ASSUME NEW e \in EP, NEW b
  PROVE  /\ WithBlock(e, b).block = b /\ WithBlock(e, b).scopes = e.scopes
         /\ WithBlock(e, b).locals = e.locals
BY DEF WithBlock, EP

LEMMA WithLocalsKeeps ==
  ASSUME NEW e \in EP, NEW l
  PROVE  /\ WithLocals(e, l).block = e.block /\ WithLocals(e, l).scopes = e.scopes
         /\ WithLocals(e, l).locals = l
BY DEF WithLocals, EP

LEMMA WithNameKeeps ==
  ASSUME NEW e \in EP, NEW x
  PROVE  /\ WithName(e, x).block = e.block /\ WithName(e, x).locals = e.locals
         /\ WithName(e, x).scopes =
              Append(e.scopes, [name |-> x, entry |-> e.scopes[Len(e.scopes)].entry])
BY DEF WithName, EP

LEMMA MarkEntryKeeps ==
  ASSUME NEW e \in EP, NEW vs
  PROVE  /\ MarkEntry(e, vs).block = e.block /\ MarkEntry(e, vs).locals = e.locals
         /\ MarkEntry(e, vs).scopes =
              [e.scopes EXCEPT ![Len(e.scopes)].entry =
                 [block |-> e.block, values |-> vs]]
BY DEF MarkEntry, EP

LEMMA ContextsClosed ==
  ASSUME NEW u, NEW N \in SUBSET Node, NEW made
  PROVE  Closed(Contexts(u, N, made), N)
<1> DEFINE C == Contexts(u, N, made)
<1>1. C \subseteq EP
  BY DEF Contexts
<1>2. ASSUME NEW e \in C, NEW h \in EP, h.scopes = e.scopes, h.locals = e.locals
      PROVE  h \in C
  BY <1>2, Zenon DEF Contexts, Shadowed
<1>3. ASSUME NEW e \in C, NEW b \in Nat PROVE WithBlock(e, b) \in C
  <2>1. e \in EP /\ WithBlock(e, b) \in EP
    BY <1>1, <1>3, WithBlockType
  <2> QED BY <1>2, <2>1, WithBlockKeeps
<1>4. ASSUME NEW e \in C, NEW x \in Branches PROVE WithName(e, x) \in C
  <2> DEFINE s == [name |-> x, entry |-> e.scopes[Len(e.scopes)].entry]
             h == WithName(e, x)
  <2>1. e \in EP /\ x \in Name
    BY <1>1, <1>4, NameAssumption DEF Branches
  <2>2. h \in EP /\ h.locals = e.locals /\ h.scopes = Append(e.scopes, s)
    BY <2>1, WithNameType, WithNameKeeps
  <2>3. e.scopes \in Seq(Scope)
    BY <2>1 DEF EP
  <2>4. s.name \in Branches
    OBVIOUS
  <2> HIDE DEF s, h
  <2>5. \A i \in DOMAIN h.scopes :
          h.scopes[i] = s \/ (i \in DOMAIN e.scopes /\ h.scopes[i] = e.scopes[i])
    BY <2>2, <2>3
  <2>6. \A i \in DOMAIN h.scopes : Entered(u, made, h.scopes[i])
    BY <2>4, <2>5, Zenon DEF Entered, Contexts
  <2>7. \A y \in Name : Shadowed(h, y) => y \in LocalNames(u, N)
    BY <2>2, Zenon DEF Shadowed, Contexts
  <2> QED BY <2>2, <2>6, <2>7 DEF Contexts, h
<1>5. ASSUME NEW e \in C, NEW n \in N, NEW v \in Value, n.kind = "local"
      PROVE  WithLocals(e, [e.locals EXCEPT ![n.name] = v]) \in C
  <2> DEFINE l == [e.locals EXCEPT ![n.name] = v]
             h == WithLocals(e, l)
  <2>1. e \in EP /\ e.locals \in [Name -> Value \cup {NoValue}]
    BY <1>1, <1>5 DEF EP
  <2>2. l \in [Name -> Value \cup {NoValue}]
    BY <2>1
  <2>3. \A y \in Name : l[y] = e.locals[y] \/ y = n.name
    BY <2>1
  <2> HIDE DEF l
  <2>4. h \in EP /\ h.scopes = e.scopes /\ h.locals = l
    BY <2>1, <2>2, WithLocalsType, WithLocalsKeeps
  <2> HIDE DEF h
  <2>5. n.name \in LocalNames(u, N)
    BY <1>5 DEF LocalNames
  <2>6. \A y \in Name : Shadowed(h, y) => y \in LocalNames(u, N)
    BY <2>3, <2>4, <2>5, Zenon DEF Shadowed, Contexts
  <2> QED BY <2>4, <2>6 DEF Contexts, h, l
<1> HIDE DEF C
<1> QED BY <1>1, <1>3, <1>4, <1>5 DEF Closed, C

\* As more functions get their blocks, contexts stay what they are.
LEMMA ContextsGrow ==
  ASSUME NEW u, NEW N, NEW made, NEW more, made \subseteq more
  PROVE  Contexts(u, N, made) \subseteq Contexts(u, N, more)
<1>1. \A s : Entered(u, made, s) => Entered(u, more, s)
  BY DEF Entered
<1> QED BY <1>1 DEF Contexts

LEMMA ResultsConcat ==
  ASSUME NEW C, NEW rs \in Seq(Result), NEW qs \in Seq(Result),
         ResultsIn(C, rs), ResultsIn(C, qs)
  PROVE  ResultsIn(C, rs \o qs)
<1>1. ASSUME NEW i \in DOMAIN (rs \o qs)
      PROVE  \/ i \in DOMAIN rs /\ (rs \o qs)[i] = rs[i]
             \/ \E j \in DOMAIN qs : (rs \o qs)[i] = qs[j]
  <2>1. CASE i <= Len(rs)
    BY <2>1
  <2>2. CASE i > Len(rs)
    <3>1. i - Len(rs) \in DOMAIN qs /\ (rs \o qs)[i] = qs[i - Len(rs)]
      BY <2>2
    <3> QED BY <3>1
  <2> QED BY <2>1, <2>2
<1> QED BY <1>1, Zenon DEF ResultsIn

LEMMA ResultsTail ==
  ASSUME NEW C, NEW rs \in Seq(Result), rs # <<>>, ResultsIn(C, rs)
  PROVE  ResultsIn(C, Tail(rs)) /\ rs[1].ep \in C
<1>1. \A i \in DOMAIN Tail(rs) : i + 1 \in DOMAIN rs /\ Tail(rs)[i] = rs[i + 1]
  OBVIOUS
<1>2. 1 \in DOMAIN rs
  OBVIOUS
<1> QED BY <1>1, <1>2, Zenon DEF ResultsIn

\* None, and one.
LEMMA ResultsFew ==
  ASSUME NEW C
  PROVE  /\ ResultsIn(C, <<>>)
         /\ \A r : r.ep \in C => ResultsIn(C, <<r>>)
<1>1. ResultsIn(C, <<>>)
  BY DEF ResultsIn
<1>2. ASSUME NEW r, r.ep \in C PROVE ResultsIn(C, <<r>>)
  <2>1. \A i \in DOMAIN <<r>> : <<r>>[i] = r
    OBVIOUS
  <2> QED BY <1>2, <2>1, Zenon DEF ResultsIn
<1> QED BY <1>1, <1>2

LEMMA FramesPush ==
  ASSUME NEW C, NEW N, NEW fs \in Seq(Frame), FramesIn(C, N, fs),
         NEW f, FrameIn(C, N, f)
  PROVE  FramesIn(C, N, Append(fs, f))
<1>1. \A i \in DOMAIN Append(fs, f) :
        Append(fs, f)[i] = f \/ (i \in DOMAIN fs /\ Append(fs, f)[i] = fs[i])
  OBVIOUS
<1> QED BY <1>1, Zenon DEF FramesIn

LEMMA FramesPop ==
  ASSUME NEW C, NEW N, NEW fs \in Seq(Frame), fs # <<>>, FramesIn(C, N, fs)
  PROVE  FramesIn(C, N, Front(fs)) /\ FrameIn(C, N, Last(fs))
<1>1. \A i \in DOMAIN Front(fs) : i \in DOMAIN fs /\ Front(fs)[i] = fs[i]
  BY DEF Front
<1>2. Len(fs) \in DOMAIN fs /\ Last(fs) = fs[Len(fs)]
  BY DEF Last
<1> QED BY <1>1, <1>2, Zenon DEF FramesIn

LEMMA HoldsMore ==
  ASSUME NEW C, NEW D, C \subseteq D, NEW N, NEW n, NEW e, NEW rs, NEW fs,
         Holds(C, N, n, e, rs, fs)
  PROVE  Holds(D, N, n, e, rs, fs)
<1>1. \A r : ResultsIn(C, r) => ResultsIn(D, r)
  BY DEF ResultsIn
<1>2. \A f : FrameIn(C, N, f) => FrameIn(D, N, f)
  BY <1>1, Zenon DEF FrameIn
<1>3. FramesIn(D, N, fs)
  BY <1>2, Zenon DEF FramesIn, Holds
<1> QED BY <1>1, <1>3 DEF Holds

-----------------------------------------------------------------------------
(* The ways a step ends.                                                   *)

\* Before a step, and what it has to leave.
Now(C, N) == TypeOK /\ HasNodes(unit, N) /\ Closed(C, N) /\ Within(C, N)

After(C, N) == Holds(C, N, node', ep', results', frames')

LEMMA ContextThrow ==
  ASSUME NEW C, NEW N, Now(C, N), NEW what, Throw(what)
  PROVE  After(C, N)
BY DEF Now, Within, After, Throw

LEMMA ContextBuild ==
  ASSUME NEW C, NEW N, NEW n \in N, NEW e \in C, NEW vs, Build(n, e, vs),
         FramesIn(C, N, frames')
  PROVE  After(C, N)
<1>1. node' = n /\ ep' = e /\ results' = <<>>
  BY DEF Build
<1> QED BY <1>1, ResultsFew, Zenon DEF After, Holds

LEMMA ContextReturn ==
  ASSUME NEW C, NEW N, Now(C, N), NEW rs, Return(rs), ResultsIn(C, rs),
         FramesIn(C, N, frames')
  PROVE  After(C, N)
<1>1. node' = node /\ ep' = ep /\ results' = rs
  BY DEF Return
<1> QED BY <1>1, Zenon DEF Now, Within, After, Holds

LEMMA ContextBuildEach ==
  ASSUME NEW C, NEW N, Now(C, N),
         NEW below \in Seq(Frame), NEW n \in N, NEW e \in C, NEW prefix,
         NEW todo \in Seq(Result), NEW done,
         BuildEach(below, n, e, prefix, todo, done),
         FramesIn(C, N, below), ResultsIn(C, todo), ResultsIn(C, done)
  PROVE  After(C, N)
<1>1. CASE todo = <<>>
  <2>1. Return(done) /\ frames' = below
    BY <1>1 DEF BuildEach
  <2> QED BY <2>1, ContextReturn
<1>2. CASE todo # <<>>
  <2> DEFINE f == [kind |-> "each", node |-> n, ep |-> e, prefix |-> prefix,
                   todo |-> Tail(todo), done |-> done]
  <2>1. Build(n, todo[1].ep, todo[1].values) /\ frames' = Append(below, f)
    BY <1>2 DEF BuildEach
  <2>2. ResultsIn(C, Tail(todo)) /\ todo[1].ep \in C
    BY <1>2, ResultsTail
  <2>3. FrameIn(C, N, f)
    BY <2>2 DEF FrameIn
  <2> HIDE DEF f
  <2>4. FramesIn(C, N, frames')
    BY <2>1, <2>3, FramesPush
  <2> QED BY <2>1, <2>2, <2>4, ContextBuild
<1> QED BY <1>1, <1>2

\* The frame the results go to, and those below.
LEMMA ReturningContext ==
  ASSUME NEW C, NEW N, Now(C, N), NEW kind, Returning(kind)
  PROVE  /\ Last(frames) \in Frame /\ Last(frames).kind = kind
         /\ Front(frames) \in Seq(Frame)
         /\ FrameIn(C, N, Last(frames)) /\ FramesIn(C, N, Front(frames))
         /\ Last(frames).ep \in C /\ Last(frames).ep \in EP
         /\ results \in Seq(Result) /\ ResultsIn(C, results)
<1>1. /\ frames \in Seq(Frame) /\ frames # <<>> /\ FramesIn(C, N, frames)
      /\ TypeOK /\ results \in Seq(Result) /\ ResultsIn(C, results)
  BY DEF Now, TypeOK, Within, Holds, Returning
<1>2. /\ Last(frames) \in Frame /\ Last(frames).kind = kind
      /\ Front(frames) \in Seq(Frame)
  BY <1>1, ReturningType
<1>3. FrameIn(C, N, Last(frames)) /\ FramesIn(C, N, Front(frames))
  BY <1>1, FramesPop
<1> QED BY <1>1, <1>2, <1>3, FrameType DEF FrameIn

\* What is built, where, and with what.
LEMMA EnteringContext ==
  ASSUME NEW C, NEW N, Now(C, N)
  PROVE  /\ node \in N /\ ep \in C /\ ep \in EP /\ values \in Seq(Value)
         /\ frames \in Seq(Frame) /\ FramesIn(C, N, frames)
         /\ node.kind \in WithConsumer => node.consumer \in N
         /\ node.kind = "conditional" => node.ifTrue \in N /\ node.ifFalse \in N
         /\ node.kind = "proxy" => node.segment \in N
         /\ node.kind = "segment" => node.arguments \in Seq(N) /\ node.call \in N
         /\ Len(graph) \in Nat
BY DEF Now, TypeOK, HasNodes, Within, Holds

\* A step that goes on in the same frames.
LEMMA ContextBuildHere ==
  ASSUME NEW C, NEW N, Now(C, N), NEW n \in N, NEW e \in C, NEW vs,
         Build(n, e, vs), UNCHANGED frames
  PROVE  After(C, N)
<1>1. FramesIn(C, N, frames')
  BY EnteringContext
<1> QED BY <1>1, ContextBuild

\* A step that enters a nested build.
LEMMA ContextBuildNested ==
  ASSUME NEW C, NEW N, Now(C, N), NEW n \in N, NEW e \in C, NEW vs, NEW f,
         Build(n, e, vs), Push(f), FrameIn(C, N, f)
  PROVE  After(C, N)
<1>1. frames' = Append(frames, f)
  BY DEF Push
<1>2. FramesIn(C, N, frames')
  BY <1>1, EnteringContext, FramesPush
<1> QED BY <1>2, ContextBuild

-----------------------------------------------------------------------------
(* The actions.                                                            *)

LEMMA LiteralContext ==
  ASSUME NEW C, NEW N, Now(C, N), Literal
  PROVE  After(C, N)
BY EnteringContext, ContextBuildHere DEF Literal, Entering, WithConsumer

LEMMA MemberContext ==
  ASSUME NEW C, NEW N, Now(C, N), Member
  PROVE  After(C, N)
<1>1. ep \in C /\ node.consumer \in N
  BY EnteringContext DEF Member, Entering, WithConsumer
<1>2. ASSUME NEW vs, Build(node.consumer, ep, vs), UNCHANGED frames
      PROVE  After(C, N)
  BY <1>1, <1>2, ContextBuildHere
<1>3. ASSUME NEW g \in unit.globals, Build(g.value, ep, values),
             Push([kind |-> "global", node |-> node.consumer, ep |-> ep])
      PROVE  After(C, N)
  <2> DEFINE f == [kind |-> "global", node |-> node.consumer, ep |-> ep]
  <2>1. g.value \in N
    BY DEF Now, HasNodes
  <2>2. FrameIn(C, N, f)
    BY <1>1 DEF FrameIn
  <2> HIDE DEF f
  <2> QED BY <1>1, <1>3, <2>1, <2>2, ContextBuildNested DEF f
<1>4. ASSUME Throw("UndeclaredIdentifierException") PROVE After(C, N)
  BY <1>4, ContextThrow
<1> QED BY <1>2, <1>3, <1>4, Zenon DEF Member

LEMMA ReturnGlobalContext ==
  ASSUME NEW C, NEW N, Now(C, N), ReturnGlobal
  PROVE  After(C, N)
<1> DEFINE f == Last(frames)
<1>1. Returning("global")
        /\ BuildEach(Front(frames), f.node, f.ep, <<>>, results, <<>>)
  BY DEF ReturnGlobal
<1>2. /\ f.kind = "global" /\ FrameIn(C, N, f) /\ FramesIn(C, N, Front(frames))
      /\ Front(frames) \in Seq(Frame) /\ f.ep \in C
      /\ results \in Seq(Result) /\ ResultsIn(C, results)
  BY <1>1, ReturningContext
<1> HIDE DEF f
<1>3. f.node \in N /\ ResultsIn(C, <<>>)
  BY <1>2, ResultsFew DEF FrameIn
<1> QED BY <1>1, <1>2, <1>3, ContextBuildEach

LEMMA LocalContext ==
  ASSUME NEW C, NEW N, Now(C, N), Local
  PROVE  After(C, N)
<1>1. CASE values = <<>>
  BY <1>1, ContextThrow DEF Local, Underflow
<1>2. CASE values # <<>>
  <2> DEFINE v == Last(values)
  <2>1. Build(node.consumer, WithLocals(ep, [ep.locals EXCEPT ![node.name] = v]),
              Front(values)) /\ UNCHANGED frames
    BY <1>2 DEF Local
  <2>2. /\ ep \in C /\ node \in N /\ node.kind = "local" /\ node.consumer \in N
        /\ TypeOK
    BY EnteringContext DEF Local, Entering, WithConsumer, Now
  <2>3. v \in Value
    BY <1>2, <2>2, TopType
  <2> HIDE DEF v
  <2>4. WithLocals(ep, [ep.locals EXCEPT ![node.name] = v]) \in C
    BY <2>2, <2>3 DEF Now, Closed
  <2> QED BY <2>1, <2>2, <2>4, ContextBuildHere
<1> QED BY <1>1, <1>2

\* The nodes that hand their context on as it is.
LEMMA SameContext ==
  ASSUME NEW C, NEW N, Now(C, N),
         Binary \/ StackFrame \/ ReferenceSink \/ ReturnStatement
  PROVE  After(C, N)
<1>1. ep \in C /\ node.consumer \in N
  BY EnteringContext DEF Binary, StackFrame, ReferenceSink, ReturnStatement,
                         Entering, WithConsumer
<1>2. ASSUME NEW vs, Build(node.consumer, ep, vs), UNCHANGED frames
      PROVE  After(C, N)
  BY <1>1, <1>2, ContextBuildHere
<1>3. ASSUME NEW what, Throw(what) PROVE After(C, N)
  BY <1>3, ContextThrow
<1>4. CASE Binary
  BY <1>2, <1>3, <1>4, Zenon DEF Binary, Underflow
<1>5. CASE StackFrame
  BY <1>2, <1>5, Zenon DEF StackFrame
<1>6. CASE ReferenceSink
  BY <1>2, <1>3, <1>6, Zenon DEF ReferenceSink, Underflow
<1>7. CASE ReturnStatement
  BY <1>2, <1>3, <1>7, Zenon DEF ReturnStatement, Underflow
<1> QED BY <1>4, <1>5, <1>6, <1>7

LEMMA ProduceContext ==
  ASSUME NEW C, NEW N, Now(C, N), Produce
  PROVE  After(C, N)
BY LiteralContext, MemberContext, ReturnGlobalContext, LocalContext,
   SameContext, Zenon DEF Produce

-----------------------------------------------------------------------------
LEMMA LeaveContext ==
  ASSUME NEW C, NEW N, Now(C, N), Leave
  PROVE  After(C, N)
<1>1. /\ ep \in C /\ Len(graph) + 1 \in Nat /\ FramesIn(C, N, frames)
      /\ Closed(C, N)
  BY EnteringContext DEF Now
<1>2. ASSUME NEW r, r.ep \in C, Return(<<r>>), UNCHANGED frames
      PROVE  After(C, N)
  BY <1>1, <1>2, ResultsFew, ContextReturn
<1>3. CASE Terminator
  <2> DEFINE r == [ep |-> ep, values |-> values]
  <2>1. Return(<<r>>) /\ UNCHANGED frames /\ r.ep = ep
    BY <1>3 DEF Terminator
  <2> HIDE DEF r
  <2> QED BY <1>1, <1>2, <2>1
<1>4. CASE ExportTerminator
  <2> DEFINE r == [ep |-> WithBlock(ep, Len(graph) + 1), values |-> Front(values)]
  <2>1. (\E what : Throw(what)) \/ (Return(<<r>>) /\ UNCHANGED frames)
    BY <1>4, Zenon DEF ExportTerminator, Underflow
  <2>2. r.ep = WithBlock(ep, Len(graph) + 1)
    OBVIOUS
  <2>3. r.ep \in C
    BY <1>1, <2>2 DEF Closed
  <2> HIDE DEF r
  <2> QED BY <1>2, <2>1, <2>3, ContextThrow
<1> QED BY <1>3, <1>4 DEF Leave

LEMMA ConditionalContext ==
  ASSUME NEW C, NEW N, Now(C, N), Conditional
  PROVE  After(C, N)
<1> DEFINE true == Len(graph) + 1
           false == Len(graph) + 2
           e == WithBlock(WithName(ep, <<"ifTrue">>), true)
           f == [kind |-> "ifTrue", node |-> node.ifFalse, ep |-> ep,
                 block |-> false, values |-> Front(values)]
<1>1. \/ \E what : Throw(what)
      \/ Build(node.ifTrue, e, Front(values)) /\ Push(f)
  BY Zenon DEF Conditional, Underflow
<1>2. /\ ep \in C /\ node.ifTrue \in N /\ node.ifFalse \in N /\ true \in Nat
  BY EnteringContext DEF Conditional, Entering
<1> HIDE DEF true, false
<1>3. e \in C
  <2>1. <<"ifTrue">> \in Branches
    BY DEF Branches
  <2>2. WithName(ep, <<"ifTrue">>) \in C
    BY <1>2, <2>1 DEF Now, Closed
  <2> QED BY <1>2, <2>2 DEF Now, Closed
<1>4. FrameIn(C, N, f)
  BY <1>2 DEF FrameIn
<1> HIDE DEF e, f
<1> QED BY <1>1, <1>2, <1>3, <1>4, ContextThrow, ContextBuildNested

LEMMA ReturnIfTrueContext ==
  ASSUME NEW C, NEW N, Now(C, N), ReturnIfTrue
  PROVE  After(C, N)
<1> DEFINE f == Last(frames)
           e == WithBlock(WithName(f.ep, <<"ifFalse">>), f.block)
           h == [kind |-> "ifFalse", ep |-> f.ep, values |-> f.values,
                 done |-> results]
<1>1. Returning("ifTrue") /\ Build(f.node, e, f.values)
        /\ frames' = Append(Front(frames), h)
  BY DEF ReturnIfTrue
<1>2. /\ f \in Frame /\ f.kind = "ifTrue" /\ FrameIn(C, N, f)
      /\ Front(frames) \in Seq(Frame) /\ FramesIn(C, N, Front(frames))
      /\ f.ep \in C /\ ResultsIn(C, results)
  BY <1>1, ReturningContext
<1> HIDE DEF f
<1>3. f.node \in N /\ f.block \in Nat
  BY <1>2, FrameType DEF FrameIn
<1>4. e \in C
  <2>1. <<"ifFalse">> \in Branches
    BY DEF Branches
  <2>2. WithName(f.ep, <<"ifFalse">>) \in C
    BY <1>2, <2>1 DEF Now, Closed
  <2> QED BY <1>3, <2>2 DEF Now, Closed
<1>5. FrameIn(C, N, h)
  BY <1>2 DEF FrameIn
<1> HIDE DEF e, h
<1>6. FramesIn(C, N, frames')
  BY <1>1, <1>2, <1>5, FramesPush
<1> QED BY <1>1, <1>3, <1>4, <1>6, ContextBuild

LEMMA ReturnIfFalseContext ==
  ASSUME NEW C, NEW N, Now(C, N), ReturnIfFalse
  PROVE  After(C, N)
<1> DEFINE f == Last(frames)
           rs == f.done \o results
           out(o, j) == [ep |-> WithBlock(f.ep, Len(graph) + j),
                         values |-> Append(f.values, Scalar(o[j]))]
           outs(o) == [j \in 1..Len(o) |-> out(o, j)]
<1>1. Returning("ifFalse") /\ frames' = Front(frames)
  BY DEF ReturnIfFalse
<1>2. Return(rs) \/ \E o \in Enumerations(TypesOf(rs), address) : Return(outs(o))
  BY Zenon DEF ReturnIfFalse
<1>3. /\ f \in Frame /\ f.kind = "ifFalse" /\ FrameIn(C, N, f)
      /\ FramesIn(C, N, Front(frames)) /\ f.ep \in C
      /\ results \in Seq(Result) /\ ResultsIn(C, results)
  BY <1>1, ReturningContext
<1> HIDE DEF f
<1>4. rs \in Seq(Result) /\ ResultsIn(C, rs)
  <2>1. f.done \in Seq(Result) /\ ResultsIn(C, f.done)
    BY <1>3, FrameType DEF FrameIn
  <2> QED BY <1>3, <2>1, ResultsConcat
<1> HIDE DEF rs
<1>5. ASSUME NEW o \in Enumerations(TypesOf(rs), address), Return(outs(o))
      PROVE  After(C, N)
  <2>1. IsFiniteSet(TypesOf(rs))
    BY <1>4, SinglesType
  <2>2. o \in Seq(TypesOf(rs))
    BY <2>1, EnumerationType
  <2>3. Len(o) \in Nat /\ Len(graph) \in Nat
    BY <2>2, EnteringContext
  <2>4. ASSUME NEW j \in 1..Len(o)
        PROVE  outs(o)[j].ep \in C
    <3>1. outs(o)[j].ep = WithBlock(f.ep, Len(graph) + j) /\ Len(graph) + j \in Nat
      BY <2>3
    <3> HIDE DEF outs
    <3> QED BY <1>3, <3>1 DEF Now, Closed
  <2>5. DOMAIN outs(o) = 1..Len(o)
    OBVIOUS
  <2> HIDE DEF outs
  <2>6. ResultsIn(C, outs(o))
    BY <2>4, <2>5 DEF ResultsIn
  <2> QED BY <1>1, <1>3, <1>5, <2>6, ContextReturn
<1>6. CASE Return(rs)
  BY <1>1, <1>3, <1>4, <1>6, ContextReturn
<1> QED BY <1>2, <1>5, <1>6

LEMMA BranchContext ==
  ASSUME NEW C, NEW N, Now(C, N), Branch
  PROVE  After(C, N)
BY ConditionalContext, ReturnIfTrueContext, ReturnIfFalseContext DEF Branch

-----------------------------------------------------------------------------
LEMMA ProxyContext ==
  ASSUME NEW C, NEW N, Now(C, N), ProxyTailPath \/ ProxyRegularCall
  PROVE  After(C, N)
<1> DEFINE f == [kind |-> "junction", node |-> node.consumer, ep |-> ep,
                 values |-> values]
<1>1. ep \in C /\ node.consumer \in N /\ node.segment \in N
  BY EnteringContext DEF ProxyTailPath, ProxyRegularCall, Entering, WithConsumer
<1>2. CASE ProxyTailPath
  BY <1>1, <1>2, ContextBuildHere DEF ProxyTailPath
<1>3. CASE ProxyRegularCall
  <2>1. Push(f) /\ Build(node.segment, ep, <<>>)
    BY <1>3 DEF ProxyRegularCall
  <2>2. FrameIn(C, N, f)
    BY <1>1 DEF FrameIn
  <2> HIDE DEF f
  <2> QED BY <1>1, <2>1, <2>2, ContextBuildNested
<1> QED BY <1>2, <1>3

LEMMA SegmentContext ==
  ASSUME NEW C, NEW N, Now(C, N), Segment
  PROVE  After(C, N)
<1> DEFINE start == [ep |-> ep, values |-> <<>>]
           f == [kind |-> "argument", node |-> node, ep |-> ep,
                 values |-> values, index |-> 1, todo |-> <<start>>,
                 done |-> <<>>]
<1>1. /\ node \in N /\ node.arguments \in Seq(N) /\ node.call \in N
      /\ ep \in C /\ ep \in EP
      /\ frames \in Seq(Frame) /\ FramesIn(C, N, frames)
  BY EnteringContext DEF Segment, Entering
<1>2. start \in Result /\ start.ep = ep
  BY <1>1 DEF Result
<1>3. \/ BuildEach(frames, node.call, ep, values, <<start>>, <<>>)
      \/ node.arguments # <<>> /\ Build(node.arguments[1], ep, <<>>) /\ Push(f)
  BY Zenon DEF Segment
<1> HIDE DEF start
<1>4. /\ ResultsIn(C, <<start>>) /\ <<start>> \in Seq(Result)
      /\ ResultsIn(C, <<>>)
  <2>1. ResultsIn(C, <<start>>) /\ ResultsIn(C, <<>>)
    BY <1>1, <1>2, ResultsFew
  <2>2. <<start>> \in Seq(Result)
    BY <1>2
  <2> QED BY <2>1, <2>2
<1>5. FrameIn(C, N, f)
  BY <1>1, <1>4 DEF FrameIn
<1> HIDE DEF f
<1>6. CASE BuildEach(frames, node.call, ep, values, <<start>>, <<>>)
  BY <1>1, <1>4, <1>6, ContextBuildEach
<1>7. CASE node.arguments # <<>> /\ Build(node.arguments[1], ep, <<>>) /\ Push(f)
  <2>1. node.arguments[1] \in N
    BY <1>1, <1>7
  <2> QED BY <1>1, <1>5, <1>7, <2>1, ContextBuildNested
<1> QED BY <1>3, <1>6, <1>7

\* What becomes of the results when a loop over consumers gets them.
LEMMA EachOutcome ==
  ASSUME TypeOK, ReturnEach, NEW C, ResultsIn(C, results)
  PROVE  LET f == Last(frames) IN
         \E rs \in Seq(Result) :
           /\ ResultsIn(C, rs)
           /\ BuildEach(Front(frames), f.node, f.ep, f.prefix, f.todo, f.done \o rs)
<1> DEFINE f == Last(frames)
           r(j) == [results[j] EXCEPT !.values = f.prefix \o @]
           rs == [j \in 1..Len(results) |-> r(j)]
<1>1. Returning("each")
        /\ BuildEach(Front(frames), f.node, f.ep, f.prefix, f.todo, f.done \o rs)
  BY DEF ReturnEach
<1>2. f \in Frame /\ f.kind = "each" /\ results \in Seq(Result)
  BY <1>1, ReturningType DEF TypeOK
<1> HIDE DEF f
<1>3. f.prefix \in Seq(Value)
  BY <1>2, FrameType
<1>4. ASSUME NEW j \in 1..Len(results)
      PROVE  r(j) \in Result /\ r(j).ep = results[j].ep
  <2>1. results[j] \in Result
    BY <1>2
  <2>2. f.prefix \o results[j].values \in Seq(Value)
    BY <1>3, <2>1 DEF Result
  <2> QED BY <2>1, <2>2 DEF Result
<1> HIDE DEF r
<1>5. Len(results) \in Nat /\ DOMAIN results = 1..Len(results)
  BY <1>2
<1>6. rs \in Seq(Result) /\ ResultsIn(C, rs)
  BY <1>4, <1>5 DEF ResultsIn
<1> HIDE DEF rs
<1> QED BY <1>1, <1>6, Zenon DEF f

LEMMA ReturnEachContext ==
  ASSUME NEW C, NEW N, Now(C, N), ReturnEach
  PROVE  After(C, N)
<1> DEFINE f == Last(frames)
<1>1. Returning("each") /\ TypeOK
  BY DEF ReturnEach, Now
<1>2. /\ f \in Frame /\ f.kind = "each" /\ Front(frames) \in Seq(Frame)
      /\ FrameIn(C, N, f) /\ FramesIn(C, N, Front(frames)) /\ f.ep \in C
      /\ ResultsIn(C, results)
  BY <1>1, ReturningContext
<1>3. PICK rs \in Seq(Result) :
        /\ ResultsIn(C, rs)
        /\ BuildEach(Front(frames), f.node, f.ep, f.prefix, f.todo, f.done \o rs)
  BY <1>1, <1>2, EachOutcome
<1> HIDE DEF f
<1>4. f.todo \in Seq(Result) /\ f.done \in Seq(Result)
  BY <1>2, FrameType
<1>5. f.node \in N /\ ResultsIn(C, f.todo) /\ ResultsIn(C, f.done)
  BY <1>2 DEF FrameIn
<1>6. ResultsIn(C, f.done \o rs)
  BY <1>3, <1>4, <1>5, ResultsConcat
<1> QED BY <1>2, <1>3, <1>4, <1>5, <1>6, ContextBuildEach

\* After an argument comes the next one, or the same one for another result of
\* the arguments before it, or the call.
NextArgument(C, i, todo, f, h) ==
  /\ h.kind = "argument" /\ h.node = f.node /\ h.ep = f.ep
  /\ ResultsIn(C, h.todo) /\ ResultsIn(C, h.done)
  /\ h.todo = todo /\ todo[1].ep \in C
  /\ Build(f.node.arguments[i], todo[1].ep, <<>>)
  /\ frames' = Append(Front(frames), h)

LEMMA ArgumentOutcome ==
  ASSUME TypeOK, ReturnArgument, NEW C, ResultsIn(C, results),
         ResultsIn(C, Last(frames).todo), ResultsIn(C, Last(frames).done)
  PROVE  LET f == Last(frames) IN
         \/ \E i \in DOMAIN f.node.arguments, todo \in Seq(Result) : \E h :
              NextArgument(C, i, todo, f, h)
         \/ \E done \in Seq(Result) :
              /\ ResultsIn(C, done)
              /\ BuildEach(Front(frames), f.node.call, f.ep, f.values, done, <<>>)
<1> DEFINE f == Last(frames)
           r(j) == [ep |-> results[j].ep,
                    values |-> results[j].values \o f.todo[1].values]
           rs == [j \in 1..Len(results) |-> r(j)]
           done == f.done \o rs
           h(index, todo, rest) == [f EXCEPT !.index = index, !.todo = todo,
                                             !.done = rest]
           next(index, todo, rest) ==
             /\ Build(f.node.arguments[index], todo[1].ep, <<>>)
             /\ frames' = Append(Front(frames), h(index, todo, rest))
<1>1. Returning("argument")
  BY DEF ReturnArgument
<1>2. /\ f \in Frame /\ f.kind = "argument" /\ f \in ArgumentFrame
      /\ results \in Seq(Result)
  BY <1>1, ReturningType, FrameType DEF TypeOK
<1>3. \/ Len(f.todo) > 1 /\ next(f.index, Tail(f.todo), done)
      \/ /\ f.index < Len(f.node.arguments) /\ done # <<>>
         /\ next(f.index + 1, done, <<>>)
      \/ BuildEach(Front(frames), f.node.call, f.ep, f.values, done, <<>>)
  BY Zenon DEF ReturnArgument
<1>0. ResultsIn(C, f.todo) /\ ResultsIn(C, f.done)
  OBVIOUS
<1> HIDE DEF f
<1>4. /\ f.todo \in Seq(Result) /\ f.todo # <<>> /\ f.done \in Seq(Result)
      /\ f.node.kind = "segment" /\ f.index \in DOMAIN f.node.arguments
  BY <1>2 DEF ArgumentFrame
<1>5. /\ ResultsIn(C, f.todo) /\ ResultsIn(C, f.done)
      /\ ResultsIn(C, <<>>)
  BY <1>0, ResultsFew
<1>6. f.node.arguments \in Seq(Node)
  BY <1>2, <1>4, FrameType, NodeAssumption DEF ArgumentFrame, IsNode
<1>7. ASSUME NEW j \in 1..Len(results)
      PROVE  r(j) \in Result /\ r(j).ep = results[j].ep
  <2>1. results[j] \in Result /\ f.todo[1] \in Result
    BY <1>2, <1>4
  <2>2. results[j].values \o f.todo[1].values \in Seq(Value)
    BY <2>1 DEF Result
  <2> QED BY <2>1, <2>2 DEF Result
<1> HIDE DEF r
<1>8. Len(results) \in Nat /\ DOMAIN results = 1..Len(results)
  BY <1>2
<1>9. rs \in Seq(Result) /\ ResultsIn(C, rs)
  BY <1>2, <1>7, <1>8 DEF ResultsIn
<1> HIDE DEF rs
<1>10. done \in Seq(Result) /\ ResultsIn(C, done)
  BY <1>4, <1>5, <1>9, ResultsConcat
<1> HIDE DEF done
<1>11. ASSUME NEW i \in DOMAIN f.node.arguments,
              NEW todo \in Seq(Result), todo # <<>>, NEW rest,
              ResultsIn(C, todo), ResultsIn(C, rest), next(i, todo, rest)
       PROVE  NextArgument(C, i, todo, f, h(i, todo, rest))
  <2>1. /\ h(i, todo, rest).ep = f.ep /\ h(i, todo, rest).kind = "argument"
        /\ h(i, todo, rest).todo = todo /\ h(i, todo, rest).done = rest
        /\ h(i, todo, rest).node = f.node
    BY <1>2 DEF ArgumentFrame
  <2>2. todo[1].ep \in C
    BY <1>11, ResultsTail
  <2> HIDE DEF h
  <2> QED BY <1>11, <2>1, <2>2, Zenon DEF NextArgument
<1> HIDE DEF h
<1> HIDE DEF next
<1>12. CASE Len(f.todo) > 1 /\ next(f.index, Tail(f.todo), done)
  <2>1. Tail(f.todo) \in Seq(Result) /\ Tail(f.todo) # <<>>
    <3> DEFINE s == f.todo
    <3>1. s \in Seq(Result) /\ Len(s) > 1
      BY <1>4, <1>12
    <3> HIDE DEF s
    <3>2. Tail(s) \in Seq(Result) /\ Len(Tail(s)) = Len(s) - 1 /\ Len(s) \in Nat
      BY <3>1
    <3>3. Len(Tail(s)) > 0
      BY <3>1, <3>2
    <3>4. \A u : Len(u) > 0 => u # <<>>
      OBVIOUS
    <3> QED BY <3>2, <3>3, <3>4, Zenon DEF s
  <2>2. ResultsIn(C, Tail(f.todo))
    BY <1>4, <1>5, ResultsTail
  <2>3. NextArgument(C, f.index, Tail(f.todo), f, h(f.index, Tail(f.todo), done))
    BY <1>4, <1>10, <1>11, <1>12, <2>1, <2>2
  <2> QED BY <1>4, <2>1, <2>3, Zenon DEF f
<1>13. CASE /\ f.index < Len(f.node.arguments) /\ done # <<>>
            /\ next(f.index + 1, done, <<>>)
  <2>1. f.index + 1 \in DOMAIN f.node.arguments
    BY <1>4, <1>6, <1>13
  <2>2. NextArgument(C, f.index + 1, done, f, h(f.index + 1, done, <<>>))
    BY <1>5, <1>10, <1>11, <1>13, <2>1
  <2> QED BY <1>10, <2>1, <2>2, Zenon DEF f
<1>14. CASE BuildEach(Front(frames), f.node.call, f.ep, f.values, done, <<>>)
  BY <1>10, <1>14, Zenon DEF f
<1> QED BY <1>3, <1>12, <1>13, <1>14, Zenon DEF f

LEMMA ReturnArgumentContext ==
  ASSUME NEW C, NEW N, Now(C, N), ReturnArgument
  PROVE  After(C, N)
<1> DEFINE f == Last(frames)
<1>1. Returning("argument") /\ TypeOK /\ HasNodes(unit, N)
  BY DEF ReturnArgument, Now
<1>2. /\ f \in Frame /\ f.kind = "argument" /\ Front(frames) \in Seq(Frame)
      /\ FrameIn(C, N, f) /\ FramesIn(C, N, Front(frames)) /\ f.ep \in C
      /\ f \in ArgumentFrame /\ ResultsIn(C, results)
  BY <1>1, ReturningContext, FrameType
<1>3. f.node \in N /\ ResultsIn(C, f.todo) /\ ResultsIn(C, f.done)
  BY <1>2 DEF FrameIn
<1>4. \/ \E i \in DOMAIN f.node.arguments, todo \in Seq(Result) : \E h :
           NextArgument(C, i, todo, f, h)
      \/ \E done \in Seq(Result) :
           /\ ResultsIn(C, done)
           /\ BuildEach(Front(frames), f.node.call, f.ep, f.values, done, <<>>)
  BY <1>1, <1>2, <1>3, ArgumentOutcome
<1> HIDE DEF f
<1>5. f.node.arguments \in Seq(N) /\ f.node.call \in N
  BY <1>1, <1>2, <1>3 DEF ArgumentFrame, HasNodes
<1>6. ASSUME NEW i \in DOMAIN f.node.arguments, NEW todo, NEW h,
             NextArgument(C, i, todo, f, h)
      PROVE  After(C, N)
  <2>1. FrameIn(C, N, h)
    BY <1>2, <1>3, <1>6 DEF FrameIn, NextArgument
  <2>2. FramesIn(C, N, frames')
    BY <1>2, <1>6, <2>1, FramesPush DEF NextArgument
  <2>3. f.node.arguments[i] \in N
    BY <1>5
  <2> QED BY <1>6, <2>2, <2>3, ContextBuild DEF NextArgument
<1>7. ASSUME NEW done \in Seq(Result), ResultsIn(C, done),
             BuildEach(Front(frames), f.node.call, f.ep, f.values, done, <<>>)
      PROVE  After(C, N)
  BY <1>2, <1>5, <1>7, ResultsFew, ContextBuildEach
<1> QED BY <1>4, <1>6, <1>7

\* What is joined goes on where the call was, what is not where it is.
LEMMA JunctionOutcome ==
  ASSUME TypeOK, ReturnJunction, NEW C, ResultsIn(C, results),
         \A b \in Nat : WithBlock(Last(frames).ep, b) \in C
  PROVE  LET f == Last(frames) IN
         \/ Throw("linkBlocks")
         \/ \E todo \in Seq(Result) :
              /\ ResultsIn(C, todo)
              /\ BuildEach(Front(frames), f.node, f.ep, <<>>, todo, <<>>)
<1> DEFINE f == Last(frames)
           rs == results
           group(t) == {i \in Singles(rs) : TypeOf(rs[i]) = t}
           first(t) == CHOOSE i \in group(t) : \A j \in group(t) : i <= j
           several == {t \in TypesOf(rs) : Cardinality(group(t)) > 1}
           others == DOMAIN rs \ Singles(rs)
           junction(t) ==
             Len(graph) + Cardinality({u \in several : address[u] <= address[t]})
           output(t) ==
             [ep |-> IF t \in several THEN WithBlock(f.ep, junction(t))
                     ELSE rs[first(t)].ep,
              values |-> Append(f.values, rs[first(t)].values[1])]
           passed(p) == [j \in 1..Len(p) |-> rs[p[j]]]
           outputs(o) == [j \in 1..Len(o) |-> output(o[j])]
<1>1. Returning("junction")
  BY DEF ReturnJunction
<1>2. /\ f \in Frame /\ f.kind = "junction" /\ f.ep \in EP
      /\ rs \in Seq(Result) /\ ResultsIn(C, rs)
      /\ \A b \in Nat : WithBlock(f.ep, b) \in C
  BY <1>1, ReturningType, FrameType DEF TypeOK
<1>3. \/ Throw("linkBlocks")
      \/ \E o \in Enumerations(TypesOf(rs), address),
            p \in Enumerations(others, [i \in DOMAIN rs |-> i]) :
           BuildEach(Front(frames), f.node, f.ep, <<>>,
                     passed(p) \o outputs(o), <<>>)
  BY Zenon DEF ReturnJunction
<1> HIDE DEF f
<1>4. f.values \in Seq(Value) /\ Len(graph) \in Nat
  BY <1>2, FrameType DEF TypeOK
<1> HIDE DEF rs
<1>5. /\ Singles(rs) \subseteq 1..Len(rs) /\ TypesOf(rs) \subseteq Type
      /\ IsFiniteSet(TypesOf(rs)) /\ Singles(rs) \subseteq DOMAIN rs
  BY <1>2, SinglesType
<1>6. several \subseteq TypesOf(rs) /\ IsFiniteSet(several)
  <2>1. several \in SUBSET TypesOf(rs)
    BY Zenon
  <2> QED BY <1>5, <2>1, FS_Subset
<1>7. ASSUME NEW t PROVE junction(t) \in Nat
  <2> DEFINE below == {u \in several : address[u] <= address[t]}
  <2>1. below \in SUBSET several
    <3> HIDE DEF several
    <3> QED OBVIOUS
  <2>2. Cardinality(below) \in Nat
    BY <1>6, <2>1, FS_Subset, FS_CardinalityType
  <2> HIDE DEF below
  <2>3. junction(t) = Len(graph) + Cardinality(below)
    BY DEF below
  <2> HIDE DEF junction
  <2> QED BY <1>4, <2>2, <2>3
<1>8. ASSUME NEW t \in TypesOf(rs)
      PROVE  /\ rs[first(t)].ep \in C /\ rs[first(t)] \in Result
             /\ rs[first(t)].values[1] \in Value
  <2>1. group(t) # {}
    <3>1. PICK i \in Singles(rs) : t = TypeOf(rs[i])
      BY <1>8 DEF TypesOf
    <3> QED BY <3>1
  <2>2. group(t) \in SUBSET Nat
    BY <1>2, <1>5
  <2>3. \E i \in group(t) : \A j \in group(t) : i <= j
    BY <2>1, <2>2, LeastNumber, Zenon
  <2>4. first(t) \in group(t)
    BY <2>3, Zenon
  <2> HIDE DEF first
  <2>5. first(t) \in DOMAIN rs
    BY <1>5, <2>4
  <2>6. rs[first(t)] \in Result /\ rs[first(t)].values[1] \in Value
    BY <1>2, <2>4, SinglesType
  <2> QED BY <1>2, <2>5, <2>6 DEF ResultsIn
<1> HIDE DEF several, junction, group, first
<1>9. ASSUME NEW o \in Enumerations(TypesOf(rs), address),
              NEW p \in Enumerations(others, [i \in DOMAIN rs |-> i]),
              BuildEach(Front(frames), f.node, f.ep, <<>>,
                        passed(p) \o outputs(o), <<>>)
       PROVE  \E todo \in Seq(Result) :
                /\ ResultsIn(C, todo)
                /\ BuildEach(Front(frames), f.node, f.ep, <<>>, todo, <<>>)
  <2>1. ASSUME NEW t \in TypesOf(rs)
        PROVE  output(t) \in Result /\ output(t).ep \in C
    <3>1. Append(f.values, rs[first(t)].values[1]) \in Seq(Value)
      BY <1>4, <1>8
    <3>2. WithBlock(f.ep, junction(t)) \in C /\ WithBlock(f.ep, junction(t)) \in EP
      BY <1>2, <1>7, WithBlockType
    <3> QED BY <1>8, <3>1, <3>2 DEF Result
  <2>2. o \in Seq(TypesOf(rs))
    BY <1>5, EnumerationType
  <2> HIDE DEF output
  <2>3. outputs(o) \in Seq(Result) /\ ResultsIn(C, outputs(o))
    BY <2>1, <2>2 DEF ResultsIn
  <2>4. p \in Seq(others)
    <3>1. others \in SUBSET (1..Len(rs))
      BY <1>2
    <3>2. IsFiniteSet(1..Len(rs))
      BY <1>2, FS_Interval
    <3>3. IsFiniteSet(others)
      BY <3>1, <3>2, FS_Subset
    <3> HIDE DEF others
    <3> QED BY <3>3, EnumerationType
  <2>5. passed(p) \in Seq(Result) /\ ResultsIn(C, passed(p))
    <3>1. \A j \in 1..Len(p) : p[j] \in DOMAIN rs
      BY <2>4
    <3>2. \A j \in 1..Len(p) : rs[p[j]] \in Result /\ rs[p[j]].ep \in C
      BY <1>2, <3>1 DEF ResultsIn
    <3>3. Len(p) \in Nat
      BY <2>4
    <3> QED BY <3>2, <3>3 DEF ResultsIn
  <2> HIDE DEF passed, outputs
  <2>6. /\ passed(p) \o outputs(o) \in Seq(Result)
        /\ ResultsIn(C, passed(p) \o outputs(o))
    BY <2>3, <2>5, ResultsConcat
  <2> QED BY <1>9, <2>6, Zenon
<1> QED BY <1>3, <1>9, Zenon DEF f

LEMMA ReturnJunctionContext ==
  ASSUME NEW C, NEW N, Now(C, N), ReturnJunction
  PROVE  After(C, N)
<1> DEFINE f == Last(frames)
<1>1. Returning("junction") /\ TypeOK
  BY DEF ReturnJunction, Now
<1>2. /\ f \in Frame /\ f.kind = "junction" /\ Front(frames) \in Seq(Frame)
      /\ FrameIn(C, N, f) /\ FramesIn(C, N, Front(frames)) /\ f.ep \in C
      /\ ResultsIn(C, results)
  BY <1>1, ReturningContext
<1>3. \A b \in Nat : WithBlock(f.ep, b) \in C
  BY <1>2 DEF Now, Closed
<1>4. \/ Throw("linkBlocks")
      \/ \E todo \in Seq(Result) :
           /\ ResultsIn(C, todo)
           /\ BuildEach(Front(frames), f.node, f.ep, <<>>, todo, <<>>)
  BY <1>1, <1>2, <1>3, JunctionOutcome
<1> HIDE DEF f
<1>5. f.node \in N /\ ResultsIn(C, <<>>)
  BY <1>2, ResultsFew DEF FrameIn
<1>6. CASE Throw("linkBlocks")
  BY <1>6, ContextThrow
<1> QED BY <1>2, <1>4, <1>5, <1>6, ContextBuildEach

LEMMA PrepareContext ==
  ASSUME NEW C, NEW N, Now(C, N), Prepare
  PROVE  After(C, N)
BY ProxyContext, SegmentContext, ReturnArgumentContext, ReturnJunctionContext,
   ReturnEachContext DEF Prepare

-----------------------------------------------------------------------------
\* The context in which f is entered, at block b with the arguments vs.
Callee(e, b, f, vs) ==
  WithLocals(MarkEntry(WithName(WithBlock(e, b), f.name), vs),
             WithArguments(e.locals, f.params, vs))

\* Where the call that is made would enter a function.
CalleesIn(C) ==
  \A f \in FindFunction(ep, unit.functions, node.names, values) :
    inlined' = inlined \cup {<<Len(graph) + 1, f>>} =>
      Callee(ep, Len(graph) + 1, f, values) \in C

LEMMA InvokeContext ==
  ASSUME NEW C, NEW N, Now(C, N), Invoke, CalleesIn(C)
  PROVE  After(C, N)
<1>1. /\ ep \in C /\ Len(graph) + 1 \in Nat /\ FramesIn(C, N, frames)
      /\ Closed(C, N) /\ TypeOK /\ HasNodes(unit, N)
  BY EnteringContext DEF Now
<1>2. WithBlock(ep, Len(graph) + 1) \in C
  BY <1>1 DEF Closed
<1>3. CASE TailCall
  <2>1. Throw("linkBlocks") \/ (Return(<<>>) /\ UNCHANGED frames)
    BY <1>3, Zenon DEF TailCall
  <2> QED BY <1>1, <2>1, ResultsFew, ContextThrow, ContextReturn
<1>4. CASE CallFails
  <2>1. \E what : Throw(what)
    BY <1>4, Zenon DEF CallFails
  <2> QED BY <2>1, ContextThrow
<1>5. CASE CallFunction
  <2> DEFINE frame == [kind |-> "function", ep |-> WithBlock(ep, Len(graph) + 1)]
  <2>1. PICK f \in FindFunction(ep, unit.functions, node.names, values) :
          /\ inlined' = inlined \cup {<<Len(graph) + 1, f>>}
          /\ Build(f.body, Callee(ep, Len(graph) + 1, f, values), <<>>)
          /\ Push(frame)
    BY <1>5, Zenon DEF CallFunction, Callee
  <2>2. f.body \in N
    BY <1>1, FindFunctionType DEF HasNodes
  <2>3. FrameIn(C, N, frame)
    BY <1>2 DEF FrameIn
  <2> HIDE DEF frame
  <2>4. Callee(ep, Len(graph) + 1, f, values) \in C
    BY <2>1, Zenon DEF CalleesIn
  <2> QED BY <2>1, <2>2, <2>3, <2>4, ContextBuildNested
<1>6. CASE CallImport
  <2> DEFINE r(f) == [ep |-> WithBlock(ep, Len(graph) + 1),
                      values |-> IF f.returns = "void" THEN <<>>
                                 ELSE <<Scalar(f.returns)>>]
  <2>1. PICK f : Return(<<r(f)>>) /\ UNCHANGED frames
    BY <1>6, Zenon DEF CallImport
  <2>2. r(f).ep = WithBlock(ep, Len(graph) + 1)
    OBVIOUS
  <2> HIDE DEF r
  <2>3. ResultsIn(C, <<r(f)>>)
    BY <1>2, <2>2, ResultsFew
  <2> QED BY <1>1, <2>1, <2>3, ContextReturn
<1>7. CASE ReturnFunction
  <2> DEFINE f == Last(frames)
             r(i) == [ep |-> WithBlock(f.ep, Len(graph) + i),
                      values |-> results[i].values]
             rs == [i \in 1..Len(results) |-> r(i)]
  <2>1. /\ Returning("function")
        /\ Throw("linkBlocks") \/ (Return(rs) /\ frames' = Front(frames))
    BY <1>7, Zenon DEF ReturnFunction
  <2>2. /\ FramesIn(C, N, Front(frames)) /\ f.ep \in C /\ results \in Seq(Result)
        /\ Len(graph) \in Nat
    BY <2>1, ReturningContext, EnteringContext
  <2> HIDE DEF f
  <2>3. ASSUME NEW i \in 1..Len(results) PROVE rs[i].ep \in C
    <3>1. Len(graph) + i \in Nat /\ rs[i].ep = WithBlock(f.ep, Len(graph) + i)
      BY <2>2
    <3> HIDE DEF rs
    <3> QED BY <1>1, <2>2, <3>1 DEF Closed
  <2>4. DOMAIN rs = 1..Len(results)
    OBVIOUS
  <2> HIDE DEF rs
  <2>5. ResultsIn(C, rs)
    BY <2>3, <2>4 DEF ResultsIn
  <2> QED BY <2>1, <2>2, <2>5, ContextThrow, ContextReturn
<1> QED BY <1>3, <1>4, <1>5, <1>6, <1>7 DEF Invoke

\* Wherever the compilation gets to, it is still within C and N, if the
\* contexts in which functions are entered are in C.
LEMMA StepContext ==
  ASSUME NEW C, NEW N, Now(C, N), [Next]_vars, CalleesIn(C)
  PROVE  After(C, N)
<1>1. ASSUME UNCHANGED <<node, ep, results, frames>> PROVE After(C, N)
  BY <1>1 DEF After, Now, Within
<1>2. CASE Step
  <2>1. CASE Finish
    BY <1>1, <2>1 DEF Finish
  <2>2. CASE Overflow
    BY <2>2, ContextThrow DEF Overflow
  <2> QED BY <1>2, <2>1, <2>2, ProduceContext, LeaveContext, BranchContext,
             PrepareContext, InvokeContext DEF Step
<1>3. CASE Stop
  BY <1>1, <1>3 DEF Stop
<1>4. CASE UNCHANGED vars
  BY <1>1, <1>4 DEF vars
<1> QED BY <1>2, <1>3, <1>4, Zenon DEF Next

-----------------------------------------------------------------------------
(* How a function is entered.                                              *)

\* Overload resolution searches the functions filed under one name.
LEMMA FindFunctionPicks ==
  ASSUME NEW e, NEW fs, NEW names, NEW vs,
         NEW f \in FindFunction(e, fs, names, vs)
  PROVE  f \in fs /\ Picks(fs, f, vs)
<1> DEFINE k == StopsAt(e, fs, names, vs)
           viable == Viable(fs, names[k], vs)
<1>1. ResolutionError(e, fs, names, vs) = "none"
  BY DEF FindFunction
<1>2. /\ f \in viable
      /\ \A g \in viable : SignatureCompatibility(f, vs) <= SignatureCompatibility(g, vs)
  BY <1>1, Zenon DEF FindFunction
<1>3. ~ Ambiguous(viable, vs)
  BY <1>1 DEF ResolutionError
<1>4. f \in fs /\ f.key = names[k]
  BY <1>2, Zenon DEF Viable
<1>5. viable = Viable(fs, f.key, vs)
  BY <1>4
<1> HIDE DEF viable, k
<1> QED BY <1>2, <1>3, <1>4, <1>5, Zenon DEF Picks

LEMMA CalleeIn ==
  ASSUME NEW u \in Unit, NEW N, NEW made,
         NEW e \in Contexts(u, N, made), NEW b \in Nat, NEW vs \in Seq(Value),
         NEW names, NEW f \in FindFunction(e, u.functions, names, vs)
  PROVE  Callee(e, b, f, vs) \in Contexts(u, N, made \cup {<<b, f>>})
<1> DEFINE more == made \cup {<<b, f>>}
           e1 == WithBlock(e, b)
           e2 == WithName(e1, f.name)
           e3 == MarkEntry(e2, vs)
           l == WithArguments(e.locals, f.params, vs)
           h == WithLocals(e3, l)
           l1 == Len(e.scopes) + 1
           y == [block |-> b, values |-> vs]
<1>1. e \in EP /\ e \in Contexts(u, N, more)
  BY ContextsGrow DEF Contexts
<1>2. /\ f \in u.functions /\ Picks(u.functions, f, vs)
      /\ Len(f.params) = Len(vs)
  BY FindFunctionPicks, FindFunctionType
<1>3. f.name \in Name /\ f.params \in Seq([name: Name, type: Type])
  BY <1>2, UnitAssumption DEF IsUnit, IsFunction
<1>4. e.scopes \in Seq(Scope) /\ e.locals \in [Name -> Value \cup {NoValue}]
  BY <1>1 DEF EP
<1>5. e1 \in EP /\ e2 \in EP /\ e3 \in EP
  BY <1>1, <1>3, WithBlockType, WithNameType, MarkEntryType
<1>6. e1.block = b /\ e1.scopes = e.scopes
  BY <1>1, WithBlockKeeps
<1> DEFINE x == [name |-> f.name, entry |-> e1.scopes[Len(e1.scopes)].entry]
           z == [x EXCEPT !.entry = y]
<1>7. e2.block = b /\ e2.scopes = Append(e.scopes, x)
  <2>1. e2.block = e1.block /\ e2.scopes = Append(e1.scopes, x)
    BY <1>5, WithNameKeeps
  <2> QED BY <1>6, <2>1
<1>8. e3.scopes = [e2.scopes EXCEPT ![Len(e2.scopes)].entry = y]
  <2>1. e3.scopes = [e2.scopes EXCEPT ![Len(e2.scopes)].entry =
                       [block |-> e2.block, values |-> vs]]
    BY <1>5, MarkEntryKeeps
  <2> QED BY <1>7, <2>1
<1> HIDE DEF e1, e2, e3
<1>9. z.name = f.name /\ z.entry = y
  OBVIOUS
<1>10. y.block = b /\ y.values = vs
  OBVIOUS
<1> HIDE DEF y
<1>11. DOMAIN e3.scopes = 1..l1
       /\ \A i \in 1..l1 : e3.scopes[i] = IF i = l1 THEN z ELSE e.scopes[i]
  <2> HIDE DEF x
  <2>1. Len(e2.scopes) = l1 /\ DOMAIN e2.scopes = 1..l1 /\ Len(e.scopes) \in Nat
    BY <1>4, <1>7
  <2>2. \A i \in 1..l1 : e2.scopes[i] = IF i = l1 THEN x ELSE e.scopes[i]
    BY <1>4, <1>7
  <2>3. e3.scopes = [e2.scopes EXCEPT ![l1] = [@ EXCEPT !.entry = y]]
    BY <1>8, <2>1
  <2>4. l1 \in 1..l1
    BY <2>1
  <2> HIDE DEF l1, z
  <2>5. e2.scopes[l1] = x
    BY <2>2, <2>4
  <2> QED BY <2>1, <2>2, <2>3, <2>4, <2>5 DEF z
<1> HIDE DEF x, z
<1>12. h \in EP /\ h.scopes = e3.scopes /\ h.locals = l
  <2>1. l \in [Name -> Value \cup {NoValue}]
    BY <1>2, <1>3, <1>4, WithArgumentsType
  <2> HIDE DEF l
  <2> QED BY <1>5, <2>1, WithLocalsType, WithLocalsKeeps
<1>13. Entered(u, more, z)
  <2>1. <<z.entry.block, f>> \in more
    BY <1>9, <1>10
  <2>2. Picks(u.functions, f, z.entry.values)
    BY <1>2, <1>9, <1>10
  <2> QED BY <1>2, <1>9, <2>1, <2>2, Zenon DEF Entered
<1>14. \A i \in DOMAIN e.scopes : Entered(u, more, e.scopes[i])
  BY <1>1 DEF Contexts
<1>15. ASSUME NEW i \in DOMAIN h.scopes PROVE Entered(u, more, h.scopes[i])
  <2>1. i \in 1..l1 /\ h.scopes[i] = IF i = l1 THEN z ELSE e.scopes[i]
    BY <1>11, <1>12, <1>15
  <2>2. i = l1 \/ i \in DOMAIN e.scopes
    BY <1>4, <2>1
  <2> HIDE DEF l1, h
  <2>3. CASE i = l1
    BY <1>13, <2>1, <2>3
  <2>4. CASE i # l1
    BY <1>14, <2>1, <2>2, <2>4
  <2> QED BY <2>3, <2>4
<1>16. ASSUME NEW n \in Name, Shadowed(h, n) PROVE n \in LocalNames(u, N)
  <2> DEFINE mine == {i \in DOMAIN f.params : f.params[i].name = n}
  <2>1. l[n] # NoValue
    BY <1>12, <1>16 DEF Shadowed
  <2>2. CASE mine = {}
    <3>1. l[n] = e.locals[n]
      BY <2>2 DEF WithArguments
    <3> HIDE DEF l
    <3> QED BY <1>1, <2>1, <3>1 DEF Contexts, Shadowed
  <2>3. CASE mine # {}
    <3>1. n \in {f.params[i].name : i \in DOMAIN f.params}
      BY <2>3
    <3> QED BY <1>2, <3>1 DEF LocalNames
  <2> QED BY <2>2, <2>3
<1> HIDE DEF more
<1>17. h \in Contexts(u, N, more)
  BY <1>12, <1>15, <1>16 DEF Contexts
<1> QED BY <1>17 DEF Callee, h, e3, e2, e1, l, more

LEMMA InitContext ==
  ASSUME Init, NEW N
  PROVE  ContextInv(N)
<1> SUFFICES ASSUME HasNodes(unit, N)
             PROVE  Within(Contexts(unit, N, inlined), N)
  BY DEF ContextInv
<1>1. node \in N /\ ResultsIn(Contexts(unit, N, inlined), results)
      /\ FramesIn(Contexts(unit, N, inlined), N, frames)
  BY DEF Init, HasNodes, ResultsIn, FramesIn
<1>2. ep = RootEP(2) /\ ep \in EP
  BY RootEPType DEF Init
<1>3. \A i \in DOMAIN ep.scopes : ep.scopes[i].entry = NoEntry
  BY <1>2 DEF RootEP
<1>4. \A x \in Name : ~ Shadowed(ep, x)
  BY <1>2 DEF RootEP, Shadowed
<1>5. ep \in Contexts(unit, N, inlined)
  BY <1>2, <1>3, <1>4 DEF Contexts, Entered
<1> QED BY <1>1, <1>5 DEF Within, Holds

\* A function keeps the block that was created for it.
LEMMA InlinedGrows ==
  ASSUME [Next]_vars
  PROVE  inlined \subseteq inlined'
<1> DEFINE same == inlined' = inlined
<1>1. ASSUME NEW what, Throw(what) PROVE same
  BY <1>1 DEF Throw
<1>2. ASSUME UNCHANGED <<graph, inlined>> \/ UNCHANGED <<frames, inlined>>
               \/ UNCHANGED <<frames, graph, inlined>> \/ UNCHANGED inlined
      PROVE  same
  BY <1>2
<1> HIDE DEF same
<1>3. ASSUME Produce PROVE same
  BY <1>1, <1>2, <1>3, Zenon
     DEF Produce, Literal, Member, ReturnGlobal, Local, Binary, StackFrame,
         ReferenceSink, ReturnStatement, Underflow
<1>4. ASSUME Leave PROVE same
  BY <1>1, <1>2, <1>4, Zenon DEF Leave, Terminator, ExportTerminator, Underflow
<1>5. ASSUME Branch PROVE same
  <2>1. Conditional => same
    BY <1>1, <1>2, Zenon DEF Conditional, Underflow
  <2>2. ReturnIfTrue => same
    BY <1>2, Zenon DEF ReturnIfTrue
  <2>3. ReturnIfFalse => same
    BY <1>2, Zenon DEF ReturnIfFalse
  <2> QED BY <1>5, <2>1, <2>2, <2>3 DEF Branch
<1>6. ASSUME Prepare PROVE same
  <2>1. ReturnJunction => same
    BY <1>1, <1>2, Zenon DEF ReturnJunction
  <2>2. ReturnArgument => same
    BY <1>2, Zenon DEF ReturnArgument
  <2> QED BY <1>2, <1>6, <2>1, <2>2, Zenon
          DEF Prepare, ProxyTailPath, ProxyRegularCall, Segment, ReturnEach
<1>7. ASSUME TailCall \/ CallFails \/ ReturnFunction PROVE same
  BY <1>1, <1>2, <1>7, Zenon DEF TailCall, CallFails, ReturnFunction
<1>8. CASE CallFunction \/ CallImport
  <2>1. \E f : inlined' = inlined \cup {<<Len(graph) + 1, f>>}
    BY <1>8, Zenon DEF CallFunction, CallImport
  <2> QED BY <2>1
<1>9. ASSUME Finish \/ Overflow PROVE same
  BY <1>1, <1>2, <1>9 DEF Finish, Overflow, same
<1>10. ASSUME Stop \/ UNCHANGED vars PROVE same
  BY <1>10 DEF Stop, vars, same
<1> QED BY <1>3, <1>4, <1>5, <1>6, <1>7, <1>8, <1>9, <1>10, Zenon
        DEF Next, Step, Invoke, same

LEMMA NextContext ==
  ASSUME TypeOK, TypeOK', NEW N \in SUBSET Node, ContextInv(N), [Next]_vars
  PROVE  ContextInv(N)'
<1>1. unit' = unit
  BY DEF Next, vars
<1> SUFFICES ASSUME HasNodes(unit, N)
             PROVE  Within(Contexts(unit, N, inlined), N)'
  BY <1>1 DEF ContextInv
<1> DEFINE C == Contexts(unit, N, inlined)
           D == Contexts(unit, N, inlined')
<1>2. Within(C, N)
  BY DEF ContextInv
<1>3. C \subseteq D
  BY InlinedGrows, ContextsGrow
<1>4. Closed(D, N)
  BY ContextsClosed
<1>5. CalleesIn(D)
  <2> SUFFICES ASSUME NEW f \in FindFunction(ep, unit.functions, node.names, values),
                      inlined' = inlined \cup {<<Len(graph) + 1, f>>}
               PROVE  Callee(ep, Len(graph) + 1, f, values) \in D
    BY DEF CalleesIn
  <2>1. /\ unit \in Unit /\ ep \in C /\ Len(graph) + 1 \in Nat
        /\ values \in Seq(Value)
    BY <1>2 DEF TypeOK, Within, Holds
  <2> HIDE DEF C, D
  <2>2. Callee(ep, Len(graph) + 1, f, values)
          \in Contexts(unit, N, inlined \cup {<<Len(graph) + 1, f>>})
    BY <2>1, CalleeIn DEF C
  <2> QED BY <2>2 DEF D
<1>6. Now(D, N)
  <2> HIDE DEF C, D
  <2>1. Within(D, N)
    BY <1>2, <1>3, HoldsMore DEF Within
  <2> QED BY <1>4, <2>1 DEF Now
<1>7. After(D, N)
  BY <1>5, <1>6, StepContext
<1>8. Holds(D, N, node', ep', results', frames')
  BY <1>7 DEF After
<1> QED BY <1>1, <1>8 DEF Within

\* Whichever nodes the unit's are among.
ContextsInv == \A N \in SUBSET Node : ContextInv(N)

LEMMA ContextsInvariant == Spec => [](TypeOK /\ ContextsInv)
<1>1. Init => TypeOK /\ ContextsInv
  BY InitType, InitContext DEF ContextsInv
<1>2. TypeOK /\ ContextsInv /\ [Next]_vars => (TypeOK /\ ContextsInv)'
  <2> SUFFICES ASSUME TypeOK, ContextsInv, [Next]_vars
               PROVE  (TypeOK /\ ContextsInv)'
    OBVIOUS
  <2>1. TypeOK'
    BY StepType
  <2>2. ASSUME NEW N \in SUBSET Node PROVE ContextInv(N)'
    <3>1. ContextInv(N)
      BY DEF ContextsInv
    <3> QED BY <2>1, <3>1, NextContext
  <2> QED BY <2>1, <2>2 DEF ContextsInv
<1> QED BY <1>1, <1>2, PTL DEF Spec

-----------------------------------------------------------------------------
(* Where a tail call lands.                                                *)

\* Stacks of values of the same types.
Alike(vs, ws) == Len(vs) = Len(ws) /\ \A i \in DOMAIN vs : vs[i].type = ws[i].type

LEMMA FitsAlike ==
  ASSUME NEW x \in Entry, NEW vs \in Seq(Value), Fits(x, vs)
  PROVE  Alike(vs, x.values) /\ x.values \in Seq(Value)
<1>1. x.values \in Seq(Value) /\ Len(x.values) = Len(vs)
  BY DEF Fits, Entry
<1>2. ASSUME NEW i \in DOMAIN vs PROVE vs[i].type = x.values[i].type
  <2>1. Compatibility(vs[i].type, x.values[i].type) = 0
    BY DEF Fits
  <2> QED BY <2>1 DEF Compatibility
<1> QED BY <1>1, <1>2 DEF Alike

\* A signature takes values of the same types equally well.
LEMMA AlikeScores ==
  ASSUME NEW g, g.params \in Seq([name: Name, type: Type]),
         NEW vs \in Seq(Value), NEW ws \in Seq(Value), Alike(vs, ws)
  PROVE  SignatureCompatibility(g, vs) = SignatureCompatibility(g, ws)
<1>1. Len(vs) = Len(ws) /\ Len(vs) \in Nat /\ DOMAIN vs = 1..Len(vs)
  BY DEF Alike
<1>2. CASE Len(g.params) # Len(vs)
  BY <1>1, <1>2 DEF SignatureCompatibility
<1>3. CASE Len(g.params) = Len(vs)
  <2> DEFINE P == DOMAIN g.params
  <2>1. ASSUME NEW i \in P PROVE ArgumentScore(g, vs, i) = ArgumentScore(g, ws, i)
    <3>1. Len(vs) + 1 - i \in DOMAIN vs
      BY <1>1, <1>3
    <3>2. vs[Len(vs) + 1 - i].type = ws[Len(ws) + 1 - i].type
      BY <1>1, <3>1 DEF Alike
    <3> QED BY <3>2 DEF ArgumentScore
  <2>2. /\ {ArgumentScore(g, vs, i) : i \in P} = {ArgumentScore(g, ws, i) : i \in P}
        /\ {i \in P : ArgumentScore(g, vs, i) = 1}
             = {i \in P : ArgumentScore(g, ws, i) = 1}
    <3> HIDE DEF P
    <3> QED BY <2>1
  <2> QED BY <1>1, <2>2, Zenon DEF SignatureCompatibility
<1> QED BY <1>2, <1>3

LEMMA AlikePicks ==
  ASSUME NEW fs, \A g \in fs : g.params \in Seq([name: Name, type: Type]),
         NEW vs \in Seq(Value), NEW ws \in Seq(Value), Alike(vs, ws),
         NEW f, Picks(fs, f, ws)
  PROVE  Picks(fs, f, vs)
<1>1. \A g \in fs : SignatureCompatibility(g, vs) = SignatureCompatibility(g, ws)
  BY AlikeScores
<1> DEFINE V == Viable(fs, f.key, vs)
           W == Viable(fs, f.key, ws)
<1>2. V = W /\ V \subseteq fs
  BY <1>1 DEF Viable
<1>3. \A g, h \in V : (SignatureCompatibility(g, vs) = SignatureCompatibility(h, vs))
                       = (SignatureCompatibility(g, ws) = SignatureCompatibility(h, ws))
  <2> HIDE DEF V, W
  <2> QED BY <1>1, <1>2
<1>4. f \in W /\ ~ Ambiguous(W, ws)
      /\ \A g \in W : SignatureCompatibility(f, ws) <= SignatureCompatibility(g, ws)
  BY Zenon DEF Picks
<1> HIDE DEF V, W
<1>5. ~ Ambiguous(V, vs)
  BY <1>2, <1>3, <1>4 DEF Ambiguous
<1>6. f \in V /\ \A g \in V : SignatureCompatibility(f, vs) <= SignatureCompatibility(g, vs)
  BY <1>1, <1>2, <1>4
<1> QED BY <1>5, <1>6, Zenon DEF Picks, V

\* What is picked under its qualified name is found by a search that does not
\* stop before.
LEMMA PickFound ==
  ASSUME NEW e, NEW fs, NEW names, NEW vs, NEW f, Picks(fs, f, vs),
         NEW j \in DOMAIN names, names[j] = f.key,
         DOMAIN names \subseteq Nat \ {0},
         \A k \in DOMAIN names : ~ Shadowed(e, names[k]),
         \A l \in DOMAIN names : l < j => \A g \in fs : g.key # names[l]
  PROVE  f \in FindFunction(e, fs, names, vs)
<1> DEFINE stops == {k \in DOMAIN names : \/ Shadowed(e, names[k])
                                          \/ Viable(fs, names[k], vs) # {}}
           viable == Viable(fs, names[j], vs)
<1>1. /\ f \in viable /\ ~ Ambiguous(viable, vs)
      /\ \A g \in viable : SignatureCompatibility(f, vs) <= SignatureCompatibility(g, vs)
  BY Zenon DEF Picks
<1>2. j \in stops
  BY <1>1
<1>3. \A l \in stops : ~ (l < j)
  BY DEF Viable
<1>4. \A l \in stops : j <= l
  BY <1>2, <1>3
<1>5. (CHOOSE k \in stops : \A l \in stops : k <= l) = j
  BY <1>2, <1>4
<1>6. StopsAt(e, fs, names, vs) = j
  BY <1>2, <1>5, Zenon DEF StopsAt
<1> HIDE DEF viable, stops
<1>7. j # 0
  OBVIOUS
<1>8. ResolutionError(e, fs, names, vs) = "none"
  BY <1>1, <1>6, <1>7 DEF ResolutionError, viable
<1>9. FindFunction(e, fs, names, vs)
        = {h \in viable : \A g \in viable :
             SignatureCompatibility(h, vs) <= SignatureCompatibility(g, vs)}
  BY <1>6, <1>8 DEF FindFunction, viable
<1> QED BY <1>1, <1>9, Zenon

\* The scope whose invocation a call jumps into.
LEMMA TargetScope ==
  ASSUME NEW e \in EP, NEW names, DOMAIN names \subseteq Nat, NEW vs,
         NEW x, x = TailCallTarget(e, names, vs), x # NoEntry
  PROVE  /\ Fits(x, vs)
         /\ \E k \in DOMAIN names, i \in DOMAIN e.scopes :
              e.scopes[i].name = names[k] /\ e.scopes[i].entry = x
<1> DEFINE fitting == {k \in DOMAIN names : Fits(ByName(e, names[k]), vs)}
           k == CHOOSE m \in fitting : \A l \in fitting : m <= l
           found == {i \in DOMAIN e.scopes : e.scopes[i].name = names[k]}
           i == CHOOSE m \in found : \A j \in found : j <= m
<1>1. fitting # {} /\ x = ByName(e, names[k])
  BY Zenon DEF TailCallTarget
<1>2. k \in fitting
  <2>1. fitting \in SUBSET Nat
    OBVIOUS
  <2>2. \E m \in fitting : \A l \in fitting : m <= l
    BY <1>1, <2>1, LeastNumber, Zenon
  <2> QED BY <2>2, Zenon
<1>3. k \in DOMAIN names /\ Fits(x, vs)
  BY <1>1, <1>2
<1> HIDE DEF k, fitting
<1>4. found # {} /\ x = e.scopes[i].entry
  BY <1>1, Zenon DEF ByName
<1>5. i \in found
  <2>1. Len(e.scopes) \in Nat /\ found \in SUBSET (0..Len(e.scopes))
    BY DEF EP
  <2>2. \E m \in found : \A j \in found : j <= m
    BY <1>4, <2>1, GreatestNumber, Zenon
  <2> QED BY <2>2, Zenon
<1>6. i \in DOMAIN e.scopes /\ e.scopes[i].name = names[k]
  BY <1>5
<1> HIDE DEF i
<1> QED BY <1>3, <1>4, <1>6

LEMMA JumpLands ==
  ASSUME TypeOK, NEW N \in SUBSET Node, ContextInv(N),
         HasNodes(unit, N), CallsAreUnmistakable(unit, N)
  PROVE  JumpsLandInTheCallee
<1> DEFINE target == TailCallTarget(ep, node.names, values)
           fs == unit.functions
<1> SUFFICES ASSUME node.kind = "call", target # NoEntry
             PROVE  \E f \in FindFunction(ep, fs, node.names, values) :
                      <<target.block, f>> \in inlined
  BY DEF JumpsLandInTheCallee
<1>1. /\ node \in N /\ ep \in Contexts(unit, N, inlined) /\ ep \in EP
      /\ values \in Seq(Value) /\ unit \in Unit
  BY DEF ContextInv, Within, Holds, TypeOK
<1>2. node.names \in Seq(Name)
  BY NodeAssumption DEF TypeOK, IsNode
<1>3. DOMAIN node.names \subseteq Nat \ {0}
  BY <1>2
<1>4. \A g \in fs : g.params \in Seq([name: Name, type: Type])
  BY <1>1, UnitAssumption DEF IsUnit, IsFunction
<1>5. target \in Entry
  BY <1>1, TailCallTargetType
<1>6. /\ Fits(target, values)
      /\ \E k \in DOMAIN node.names, i \in DOMAIN ep.scopes :
           ep.scopes[i].name = node.names[k] /\ ep.scopes[i].entry = target
  <2> HIDE DEF target
  <2> QED BY <1>1, <1>3, TargetScope DEF target
<1> HIDE DEF target, fs
<1>7. PICK k \in DOMAIN node.names, i \in DOMAIN ep.scopes :
        ep.scopes[i].name = node.names[k] /\ ep.scopes[i].entry = target
  BY <1>6
<1>8. /\ \A l \in DOMAIN node.names :
           node.names[l] \notin LocalNames(unit, N) \cup Branches
      /\ \A f \in fs :
           (\E l \in DOMAIN node.names : node.names[l] = f.name) =>
             \E l \in DOMAIN node.names :
               /\ node.names[l] = f.key
               /\ \A m \in 1..l-1 : \A g \in fs : g.key # node.names[m]
  BY <1>1, Zenon DEF CallsAreUnmistakable, fs
<1>9. Entered(unit, inlined, ep.scopes[i])
  BY <1>1, <1>7 DEF Contexts
<1>10. PICK f \in fs : /\ ep.scopes[i].name = f.name
                       /\ <<target.block, f>> \in inlined
                       /\ Picks(fs, f, target.values)
  BY <1>7, <1>8, <1>9 DEF Entered, fs
<1>11. PICK j \in DOMAIN node.names :
         /\ node.names[j] = f.key
         /\ \A m \in 1..j-1 : \A g \in fs : g.key # node.names[m]
  BY <1>7, <1>8, <1>10
<1>12. Picks(fs, f, values)
  BY <1>1, <1>4, <1>5, <1>6, <1>10, FitsAlike, AlikePicks
<1>13. \A l \in DOMAIN node.names : ~ Shadowed(ep, node.names[l])
  <2>1. \A l \in DOMAIN node.names : node.names[l] \in Name
    BY <1>2
  <2> QED BY <1>1, <1>8, <2>1 DEF Contexts
<1>14. \A m \in DOMAIN node.names : m < j => \A g \in fs : g.key # node.names[m]
  <2>1. \A m \in DOMAIN node.names : m < j => m \in 1..j-1
    BY <1>2
  <2> QED BY <1>11, <2>1
<1>15. f \in FindFunction(ep, fs, node.names, values)
  BY <1>3, <1>11, <1>12, <1>13, <1>14, PickFound
<1> QED BY <1>10, <1>15

\* FunctionCallNode::tryCreateTailCall: in a unit whose calls cannot be mistaken
\* for anything else, a call that becomes a jump goes to the start of a running
\* invocation of the function that overload resolution picks for it.
THEOREM JumpsLandCorrect == Spec => [](IsUnmistakable(unit) => JumpsLandInTheCallee)
<1>1. TypeOK /\ ContextsInv => (IsUnmistakable(unit) => JumpsLandInTheCallee)
  <2> SUFFICES ASSUME TypeOK, ContextsInv, IsUnmistakable(unit)
               PROVE  JumpsLandInTheCallee
    OBVIOUS
  <2>1. PICK N \in SUBSET Node : HasNodes(unit, N) /\ CallsAreUnmistakable(unit, N)
    BY DEF IsUnmistakable
  <2>2. ContextInv(N)
    BY DEF ContextsInv
  <2> QED BY <2>1, <2>2, JumpLands
<1> QED BY <1>1, ContextsInvariant, PTL

-----------------------------------------------------------------------------
(* What waits for a call or an argument: that its context is the caller's. *)

\* The nodes E are built wherever a result is expected in the context it
\* started from: what calls and their arguments consist of and what globals
\* are defined by.  None of them declares a local or branches.
IsPure(u, N, E) ==
  /\ \A g \in u.globals : g.value \in E
  /\ \A n \in N : /\ n.kind = "proxy" => n.segment \in E
                  /\ n.kind = "segment" => n.arguments \in Seq(E) /\ n.call \in E
  /\ \A n \in E : /\ n.kind \notin {"local", "conditional"}
                  /\ n.kind \in WithConsumer => n.consumer \in E

ArgumentsArePure(u) ==
  \E N, E \in SUBSET Node : HasNodes(u, N) /\ IsPure(u, N, E)

\* The contexts with the scopes and the locals of e.
Like(e) == {h \in EP : h.scopes = e.scopes /\ h.locals = e.locals}

\* The frames whose results have to be in a context like their own.
Demands(E, f) ==
  \/ f.kind \in {"argument", "global", "junction"}
  \/ f.kind = "each" /\ f.node \in E

Kept(E, f) ==
  /\ f.kind \in {"argument", "each"} => ResultsIn(Like(f.ep), f.todo)
  /\ f.kind \in {"argument", "each"} /\ Demands(E, f) =>
       ResultsIn(Like(f.ep), f.done)

\* What a frame that demands it allows above: a frame g, a build, results.
Follows(E, f, g) ==
  Demands(E, f) =>
    /\ g.kind \notin {"ifTrue", "ifFalse"}
    /\ g.ep \in Like(f.ep)
    /\ g.kind \in {"global", "junction", "each"} => g.node \in E

Builds(E, fs, n, e) ==
  fs # <<>> /\ Demands(E, Last(fs)) => n \in E /\ e \in Like(Last(fs).ep)

Returns(E, fs, rs) ==
  fs # <<>> /\ Demands(E, Last(fs)) => ResultsIn(Like(Last(fs).ep), rs)

FramesKept(E, fs) ==
  /\ \A k \in DOMAIN fs : Kept(E, fs[k])
  /\ \A k \in DOMAIN fs : k > 1 => Follows(E, fs[k - 1], fs[k])

RestoreInv(E) ==
  /\ FramesKept(E, frames)
  /\ pc = "build" => Builds(E, frames, node, ep)
  /\ pc = "return" => Returns(E, frames, results)

\* Before a step, and what it has to leave.
Before(N, E) ==
  /\ TypeOK /\ HasNodes(unit, N) /\ IsPure(unit, N, E) /\ RestoreInv(E)
  /\ node \in N
  /\ \A k \in DOMAIN frames : frames[k].kind = "argument" => frames[k].node \in N

Leaves(E) ==
  /\ FramesKept(E, frames')
  /\ pc' = "build" => Builds(E, frames', node', ep')
  /\ pc' = "return" => Returns(E, frames', results')

-----------------------------------------------------------------------------
LEMMA LikeLaws ==
  ASSUME NEW e \in EP
  PROVE  /\ e \in Like(e) /\ Like(e) \subseteq EP
         /\ \A h \in Like(e) : Like(h) = Like(e)
         /\ \A h \in Like(e), b \in Nat : WithBlock(h, b) \in Like(e)
<1>1. ASSUME NEW h \in Like(e), NEW b \in Nat PROVE WithBlock(h, b) \in Like(e)
  <2>1. h \in EP /\ WithBlock(h, b) \in EP
    BY WithBlockType DEF Like
  <2>2. WithBlock(h, b).scopes = h.scopes /\ WithBlock(h, b).locals = h.locals
    BY <2>1, WithBlockKeeps
  <2> QED BY <2>1, <2>2 DEF Like
<1> QED BY <1>1 DEF Like

LEMMA KeptPush ==
  ASSUME NEW E, NEW fs \in Seq(Frame), FramesKept(E, fs), NEW f, Kept(E, f),
         fs # <<>> => Follows(E, Last(fs), f)
  PROVE  /\ FramesKept(E, Append(fs, f))
         /\ Append(fs, f) # <<>> /\ Last(Append(fs, f)) = f
<1> DEFINE gs == Append(fs, f)
<1>1. /\ Len(fs) \in Nat /\ DOMAIN fs = 1..Len(fs)
      /\ DOMAIN gs = 1..(Len(fs) + 1) /\ gs[Len(fs) + 1] = f
      /\ \A i \in 1..Len(fs) : gs[i] = fs[i]
      /\ gs # <<>> /\ Last(gs) = f
  <2>1. /\ Len(fs) \in Nat /\ DOMAIN fs = 1..Len(fs) /\ Len(gs) = Len(fs) + 1
        /\ DOMAIN gs = 1..(Len(fs) + 1) /\ gs[Len(fs) + 1] = f
    OBVIOUS
  <2>2. \A i \in 1..Len(fs) : gs[i] = fs[i]
    OBVIOUS
  <2>3. gs # <<>>
    OBVIOUS
  <2> HIDE DEF gs
  <2> QED BY <2>1, <2>2, <2>3 DEF Last
<1>2. fs # <<>> => Len(fs) >= 1 /\ Last(fs) = fs[Len(fs)]
  BY DEF Last
<1>3. Len(fs) > 0 => fs # <<>>
  OBVIOUS
<1> HIDE DEF gs
<1>4. \A k \in DOMAIN gs : gs[k] = f \/ (k \in DOMAIN fs /\ gs[k] = fs[k])
  BY <1>1
<1>5. \A k \in DOMAIN gs : Kept(E, gs[k])
  BY <1>4, Zenon DEF FramesKept
<1>6. ASSUME NEW k \in DOMAIN gs, k > 1 PROVE Follows(E, gs[k - 1], gs[k])
  <2>1. CASE k = Len(fs) + 1
    <3>1. Len(fs) > 0 /\ k - 1 = Len(fs) /\ Len(fs) \in 1..Len(fs)
      BY <1>1, <1>6, <2>1
    <3>2. gs[k - 1] = Last(fs) /\ gs[k] = f
      BY <1>1, <1>2, <1>3, <2>1, <3>1
    <3> QED BY <1>3, <3>1, <3>2
  <2>2. CASE k # Len(fs) + 1
    <3>1. k \in 1..Len(fs) /\ k - 1 \in 1..Len(fs)
      BY <1>1, <1>6, <2>2
    <3>2. gs[k] = fs[k] /\ gs[k - 1] = fs[k - 1]
      BY <1>1, <3>1
    <3> QED BY <1>1, <1>6, <3>1, <3>2 DEF FramesKept
  <2> QED BY <2>1, <2>2
<1>7. FramesKept(E, gs)
  BY <1>5, <1>6 DEF FramesKept
<1> QED BY <1>1, <1>7 DEF gs

LEMMA KeptPop ==
  ASSUME NEW E, NEW fs \in Seq(Frame), fs # <<>>, FramesKept(E, fs)
  PROVE  /\ FramesKept(E, Front(fs)) /\ Kept(E, Last(fs))
         /\ Front(fs) # <<>> => Follows(E, Last(Front(fs)), Last(fs))
<1>1. /\ Len(fs) \in Nat /\ Len(fs) >= 1 /\ DOMAIN fs = 1..Len(fs)
      /\ Last(fs) = fs[Len(fs)]
  BY DEF Last
<1> DEFINE gs == Front(fs)
<1>2. /\ Len(gs) = Len(fs) - 1 /\ DOMAIN gs = 1..(Len(fs) - 1)
      /\ \A i \in 1..(Len(fs) - 1) : gs[i] = fs[i]
      /\ gs \in Seq(Frame)
  <2>1. gs = SubSeq(fs, 1, Len(fs) - 1)
    BY DEF Front
  <2> DEFINE l == Len(fs) - 1
  <2>2. l \in Nat /\ l <= Len(fs)
    BY <1>1
  <2> HIDE DEF gs
  <2>3. gs = SubSeq(fs, 1, l)
    BY <2>1
  <2> HIDE DEF l
  <2>4. /\ Len(gs) = l /\ DOMAIN gs = 1..l
        /\ \A i \in 1..l : gs[i] = fs[i]
        /\ gs \in Seq(Frame)
    BY <1>1, <2>2, <2>3
  <2> QED BY <2>4 DEF l
<1> HIDE DEF gs
<1>3. FramesKept(E, gs)
  <2>1. ASSUME NEW k \in DOMAIN gs PROVE k \in DOMAIN fs /\ gs[k] = fs[k]
    BY <1>1, <1>2
  <2>2. ASSUME NEW k \in DOMAIN gs, k > 1
        PROVE  k - 1 \in DOMAIN gs
    BY <1>1, <1>2, <2>2
  <2> QED BY <2>1, <2>2 DEF FramesKept
<1>4. ASSUME gs # <<>> PROVE Follows(E, Last(gs), Last(fs))
  <2>1. Len(gs) > 0
    BY <1>2, <1>4
  <2>2. Len(fs) > 1 /\ Len(fs) \in DOMAIN fs /\ Len(fs) - 1 \in 1..(Len(fs) - 1)
    BY <1>1, <1>2, <2>1
  <2>3. Last(gs) = fs[Len(fs) - 1]
    BY <1>2, <2>2 DEF Last
  <2> QED BY <1>1, <2>2, <2>3 DEF FramesKept
<1>5. Kept(E, Last(fs))
  BY <1>1 DEF FramesKept
<1> QED BY <1>3, <1>4, <1>5 DEF gs

\* What is built, where, and below what.
LEMMA EnteringKept ==
  ASSUME NEW N, NEW E, Before(N, E), pc = "build"
  PROVE  /\ node \in N /\ ep \in EP /\ frames \in Seq(Frame) /\ Len(graph) \in Nat
         /\ FramesKept(E, frames) /\ Builds(E, frames, node, ep)
         /\ node \in E => /\ node.kind \notin {"local", "conditional"}
                          /\ node.kind \in WithConsumer => node.consumer \in E
         /\ node.kind = "proxy" => node.segment \in E
         /\ node.kind = "segment" => node.arguments \in Seq(E) /\ node.call \in E
BY DEF Before, RestoreInv, TypeOK, IsPure

\* What the results are returned to.
LEMMA ReturningKept ==
  ASSUME NEW N, NEW E, Before(N, E), NEW kind, Returning(kind)
  PROVE  LET f == Last(frames) IN
         /\ f \in Frame /\ f.kind = kind /\ f.ep \in EP
         /\ results \in Seq(Result)
         /\ Front(frames) \in Seq(Frame) /\ FramesKept(E, Front(frames))
         /\ Kept(E, f)
         /\ Front(frames) # <<>> => Follows(E, Last(Front(frames)), f)
         /\ Demands(E, f) => ResultsIn(Like(f.ep), results)
<1>1. /\ frames \in Seq(Frame) /\ frames # <<>> /\ FramesKept(E, frames)
      /\ TypeOK /\ results \in Seq(Result) /\ Returns(E, frames, results)
  BY DEF Before, RestoreInv, TypeOK, Returning
<1>2. /\ Last(frames) \in Frame /\ Last(frames).kind = kind
      /\ Front(frames) \in Seq(Frame)
  BY <1>1, ReturningType
<1>3. Last(frames).ep \in EP
  BY <1>2, FrameType
<1>4. /\ FramesKept(E, Front(frames)) /\ Kept(E, Last(frames))
      /\ Front(frames) # <<>> => Follows(E, Last(Front(frames)), Last(frames))
  BY <1>1, KeptPop
<1>5. Demands(E, Last(frames)) => ResultsIn(Like(Last(frames).ep), results)
  BY <1>1, Zenon DEF Returns
<1> QED BY <1>1, <1>2, <1>3, <1>4, <1>5, Zenon

LEMMA RestoreThrow ==
  ASSUME NEW N, NEW E, Before(N, E), NEW what, Throw(what)
  PROVE  Leaves(E)
BY DEF Before, RestoreInv, Leaves, Throw

\* A build goes on where another one was expected.
LEMMA RestoreBuild ==
  ASSUME NEW E, NEW fs, frames' = fs, FramesKept(E, fs),
         NEW n, NEW e, NEW vs, Build(n, e, vs), Builds(E, fs, n, e)
  PROVE  Leaves(E)
<1>1. pc' = "build" /\ node' = n /\ ep' = e
  BY DEF Build
<1> QED BY <1>1 DEF Leaves

LEMMA RestoreReturn ==
  ASSUME NEW E, NEW fs, frames' = fs, FramesKept(E, fs),
         NEW rs, Return(rs), Returns(E, fs, rs)
  PROVE  Leaves(E)
<1>1. pc' = "return" /\ results' = rs
  BY DEF Return
<1> QED BY <1>1 DEF Leaves

\* The consumer is built, in a context that is the same but for its block.
LEMMA RestoreGoOn ==
  ASSUME NEW N, NEW E, Before(N, E), pc = "build",
         NEW n, node \in E => n \in E, NEW e \in Like(ep),
         NEW vs, Build(n, e, vs), UNCHANGED frames
  PROVE  Leaves(E)
<1>1. ep \in EP /\ FramesKept(E, frames) /\ Builds(E, frames, node, ep)
      /\ frames \in Seq(Frame)
  BY EnteringKept
<1>2. Builds(E, frames, n, e)
  <2>1. ASSUME frames # <<>>, Demands(E, Last(frames))
        PROVE  n \in E /\ e \in Like(Last(frames).ep)
    <3>1. node \in E /\ ep \in Like(Last(frames).ep)
      BY <1>1, <2>1 DEF Builds
    <3>2. Last(frames).ep \in EP
      BY <1>1, <2>1, FrontLastType, FrameType
    <3> QED BY <3>1, <3>2, LikeLaws
  <2> QED BY <2>1 DEF Builds
<1> QED BY <1>1, <1>2, RestoreBuild

\* A frame is pushed that may be where it is, and what it demands is built.
LEMMA RestoreNested ==
  ASSUME NEW E, NEW below \in Seq(Frame), FramesKept(E, below),
         NEW f, Kept(E, f), below # <<>> => Follows(E, Last(below), f),
         NEW n, NEW e, Demands(E, f) => n \in E /\ e \in Like(f.ep),
         NEW vs, Build(n, e, vs), frames' = Append(below, f)
  PROVE  Leaves(E)
<1>1. /\ FramesKept(E, Append(below, f)) /\ Last(Append(below, f)) = f
  BY KeptPush
<1>2. Builds(E, Append(below, f), n, e)
  BY <1>1 DEF Builds
<1> QED BY <1>1, <1>2, RestoreBuild

\* A loop over a consumer, where the consumer may be built.
LEMMA RestoreEach ==
  ASSUME NEW E, NEW below \in Seq(Frame), FramesKept(E, below),
         NEW n, NEW e \in EP, Builds(E, below, n, e), NEW prefix,
         NEW todo \in Seq(Result), ResultsIn(Like(e), todo),
         NEW done, n \in E => ResultsIn(Like(e), done),
         BuildEach(below, n, e, prefix, todo, done)
  PROVE  Leaves(E)
<1>1. CASE todo = <<>>
  <2>1. Return(done) /\ frames' = below
    BY <1>1 DEF BuildEach
  <2>2. ASSUME below # <<>>, Demands(E, Last(below))
        PROVE  ResultsIn(Like(Last(below).ep), done)
    <3>1. n \in E /\ e \in Like(Last(below).ep) /\ Last(below).ep \in EP
      BY <2>2, FrontLastType, FrameType DEF Builds
    <3>2. Like(e) = Like(Last(below).ep)
      BY <3>1, LikeLaws
    <3> QED BY <3>1, <3>2
  <2>3. Returns(E, below, done)
    BY <2>2, Zenon DEF Returns
  <2> QED BY <2>1, <2>3, RestoreReturn
<1>2. CASE todo # <<>>
  <2> DEFINE f == [kind |-> "each", node |-> n, ep |-> e, prefix |-> prefix,
                   todo |-> Tail(todo), done |-> done]
  <2>1. Build(n, todo[1].ep, todo[1].values) /\ frames' = Append(below, f)
    BY <1>2 DEF BuildEach
  <2>2. f.kind = "each" /\ f.node = n /\ f.ep = e /\ f.todo = Tail(todo)
        /\ f.done = done
    OBVIOUS
  <2> HIDE DEF f
  <2>3. ResultsIn(Like(e), Tail(todo)) /\ todo[1].ep \in Like(e)
    BY <1>2, ResultsTail
  <2>4. Demands(E, f) => n \in E
    BY <2>2 DEF Demands
  <2>5. Kept(E, f)
    BY <2>2, <2>3, <2>4 DEF Kept
  <2>6. below # <<>> => Follows(E, Last(below), f)
    BY <2>2 DEF Builds, Follows
  <2> QED BY <2>1, <2>2, <2>3, <2>4, <2>5, <2>6, RestoreNested
<1> QED BY <1>1, <1>2

\* A frame that may be where it is lets another build go on in its place.
LEMMA FollowsBuilds ==
  ASSUME NEW E, NEW fs, NEW f, fs # <<>> => Follows(E, Last(fs), f),
         f.kind \in {"global", "junction", "each"}
  PROVE  Builds(E, fs, f.node, f.ep)
BY DEF Follows, Builds

LEMMA FollowsReturns ==
  ASSUME NEW E, NEW fs \in Seq(Frame), NEW f, f.ep \in EP,
         fs # <<>> => Follows(E, Last(fs), f), NEW rs, ResultsIn(Like(f.ep), rs)
  PROVE  Returns(E, fs, rs)
<1>1. ASSUME fs # <<>>, Demands(E, Last(fs))
      PROVE  ResultsIn(Like(Last(fs).ep), rs)
  <2>1. f.ep \in Like(Last(fs).ep) /\ Last(fs).ep \in EP
    BY <1>1, FrontLastType, FrameType DEF Follows
  <2>2. Like(f.ep) = Like(Last(fs).ep)
    BY <2>1, LikeLaws
  <2> QED BY <2>2
<1> QED BY <1>1, Zenon DEF Returns

\* One result, in the context that was built in but for the block.
LEMMA RestoreOne ==
  ASSUME NEW N, NEW E, Before(N, E), pc = "build",
         NEW rs, ResultsIn(Like(ep), rs), Return(rs), UNCHANGED frames
  PROVE  Leaves(E)
<1>1. ep \in EP /\ FramesKept(E, frames) /\ Builds(E, frames, node, ep)
      /\ frames \in Seq(Frame)
  BY EnteringKept
<1>2. ASSUME frames # <<>>, Demands(E, Last(frames))
      PROVE  ResultsIn(Like(Last(frames).ep), rs)
  <2>1. ep \in Like(Last(frames).ep) /\ Last(frames).ep \in EP
    BY <1>1, <1>2, FrontLastType, FrameType DEF Builds
  <2>2. Like(ep) = Like(Last(frames).ep)
    BY <2>1, LikeLaws
  <2> QED BY <2>2
<1>3. Returns(E, frames, rs)
  BY <1>2, Zenon DEF Returns
<1> QED BY <1>1, <1>3, RestoreReturn

-----------------------------------------------------------------------------
(* The actions.                                                            *)

\* The nodes that hand their context on as it is.
LEMMA ConsumerRestore ==
  ASSUME NEW N, NEW E, Before(N, E),
         Literal \/ Binary \/ StackFrame \/ ReferenceSink \/ ReturnStatement
  PROVE  Leaves(E)
<1>1. /\ pc = "build" /\ node.kind \in WithConsumer
  BY DEF Literal, Binary, StackFrame, ReferenceSink, ReturnStatement, Entering,
         WithConsumer
<1>2. /\ ep \in Like(ep)
      /\ node \in E => node.consumer \in E
  BY <1>1, EnteringKept, LikeLaws
<1>3. ASSUME NEW vs, Build(node.consumer, ep, vs), UNCHANGED frames
      PROVE  Leaves(E)
  BY <1>1, <1>2, <1>3, RestoreGoOn
<1>4. ASSUME NEW what, Throw(what) PROVE Leaves(E)
  BY <1>4, RestoreThrow
<1>5. CASE Literal
  BY <1>3, <1>5, Zenon DEF Literal
<1>6. CASE Binary
  BY <1>3, <1>4, <1>6, Zenon DEF Binary, Underflow
<1>7. CASE StackFrame
  BY <1>3, <1>7, Zenon DEF StackFrame
<1>8. CASE ReferenceSink
  BY <1>3, <1>4, <1>8, Zenon DEF ReferenceSink, Underflow
<1>9. CASE ReturnStatement
  BY <1>3, <1>4, <1>9, Zenon DEF ReturnStatement, Underflow
<1> QED BY <1>5, <1>6, <1>7, <1>8, <1>9

LEMMA MemberRestore ==
  ASSUME NEW N, NEW E, Before(N, E), Member
  PROVE  Leaves(E)
<1>1. pc = "build" /\ node.kind \in WithConsumer
  BY DEF Member, Entering, WithConsumer
<1>2. /\ frames \in Seq(Frame) /\ FramesKept(E, frames)
      /\ Builds(E, frames, node, ep)
      /\ ep \in Like(ep)
      /\ node \in E => node.consumer \in E
  BY <1>1, EnteringKept, LikeLaws
<1>3. ASSUME NEW vs, Build(node.consumer, ep, vs), UNCHANGED frames
      PROVE  Leaves(E)
  BY <1>1, <1>2, <1>3, RestoreGoOn
<1>4. ASSUME NEW g \in unit.globals, Build(g.value, ep, values),
             Push([kind |-> "global", node |-> node.consumer, ep |-> ep])
      PROVE  Leaves(E)
  <2> DEFINE f == [kind |-> "global", node |-> node.consumer, ep |-> ep]
  <2>1. f.kind = "global" /\ f.node = node.consumer /\ f.ep = ep
    OBVIOUS
  <2>2. frames' = Append(frames, f)
    BY <1>4 DEF Push
  <2> HIDE DEF f
  <2>3. g.value \in E
    BY DEF Before, IsPure
  <2>4. Kept(E, f)
    BY <2>1 DEF Kept
  <2>5. frames # <<>> => Follows(E, Last(frames), f)
    BY <1>2, <2>1 DEF Follows, Builds
  <2> QED BY <1>2, <1>4, <2>1, <2>2, <2>3, <2>4, <2>5, RestoreNested
<1>5. ASSUME Throw("UndeclaredIdentifierException") PROVE Leaves(E)
  BY <1>5, RestoreThrow
<1> QED BY <1>3, <1>4, <1>5, Zenon DEF Member

LEMMA ReturnGlobalRestore ==
  ASSUME NEW N, NEW E, Before(N, E), ReturnGlobal
  PROVE  Leaves(E)
<1> DEFINE f == Last(frames)
<1>1. Returning("global")
        /\ BuildEach(Front(frames), f.node, f.ep, <<>>, results, <<>>)
  BY DEF ReturnGlobal
<1>2. /\ f.kind = "global" /\ f.ep \in EP /\ results \in Seq(Result)
      /\ Front(frames) \in Seq(Frame) /\ FramesKept(E, Front(frames))
      /\ Front(frames) # <<>> => Follows(E, Last(Front(frames)), f)
      /\ Demands(E, f) => ResultsIn(Like(f.ep), results)
  BY <1>1, ReturningKept
<1> HIDE DEF f
<1>3. ResultsIn(Like(f.ep), results) /\ ResultsIn(Like(f.ep), <<>>)
  BY <1>2, ResultsFew DEF Demands
<1>4. Builds(E, Front(frames), f.node, f.ep)
  BY <1>2, FollowsBuilds
<1> QED BY <1>1, <1>2, <1>3, <1>4, RestoreEach

\* A declaration is not where a result is expected in its context.
LEMMA LocalRestore ==
  ASSUME NEW N, NEW E, Before(N, E), Local
  PROVE  Leaves(E)
<1>1. pc = "build" /\ node.kind = "local"
  BY DEF Local, Entering
<1>2. FramesKept(E, frames) /\ Builds(E, frames, node, ep) /\ node \notin E
  BY <1>1, EnteringKept
<1>3. \/ Throw("underflow")
      \/ \E n, e, vs : Build(n, e, vs) /\ UNCHANGED frames
  BY Zenon DEF Local, Underflow
<1>4. \A n, e : Builds(E, frames, n, e)
  BY <1>2 DEF Builds
<1> QED BY <1>2, <1>3, <1>4, RestoreThrow, RestoreBuild

LEMMA ProduceRestore ==
  ASSUME NEW N, NEW E, Before(N, E), Produce
  PROVE  Leaves(E)
BY ConsumerRestore, MemberRestore, ReturnGlobalRestore, LocalRestore, Zenon DEF Produce

LEMMA LeaveRestore ==
  ASSUME NEW N, NEW E, Before(N, E), Leave
  PROVE  Leaves(E)
<1>1. pc = "build"
  BY DEF Leave, Terminator, ExportTerminator, Entering
<1>2. /\ Len(graph) + 1 \in Nat /\ ep \in Like(ep)
      /\ WithBlock(ep, Len(graph) + 1) \in Like(ep)
  BY <1>1, EnteringKept, LikeLaws
<1>3. ASSUME NEW r, r.ep \in Like(ep), Return(<<r>>), UNCHANGED frames
      PROVE  Leaves(E)
  BY <1>1, <1>3, ResultsFew, RestoreOne
<1>4. CASE Terminator
  <2> DEFINE r == [ep |-> ep, values |-> values]
  <2>1. Return(<<r>>) /\ UNCHANGED frames /\ r.ep = ep
    BY <1>4 DEF Terminator
  <2> HIDE DEF r
  <2> QED BY <1>2, <1>3, <2>1
<1>5. CASE ExportTerminator
  <2> DEFINE r == [ep |-> WithBlock(ep, Len(graph) + 1), values |-> Front(values)]
  <2>1. (\E what : Throw(what)) \/ (Return(<<r>>) /\ UNCHANGED frames)
    BY <1>5, Zenon DEF ExportTerminator, Underflow
  <2>2. r.ep = WithBlock(ep, Len(graph) + 1)
    OBVIOUS
  <2> HIDE DEF r
  <2> QED BY <1>2, <1>3, <2>1, <2>2, RestoreThrow
<1> QED BY <1>4, <1>5 DEF Leave

-----------------------------------------------------------------------------
\* Nor is a conditional, so nobody below its branches demands anything.
LEMMA ConditionalRestore ==
  ASSUME NEW N, NEW E, Before(N, E), Conditional
  PROVE  Leaves(E)
<1> DEFINE f == [kind |-> "ifTrue", node |-> node.ifFalse, ep |-> ep,
                 block |-> Len(graph) + 2, values |-> Front(values)]
<1>1. pc = "build" /\ node.kind = "conditional"
  BY DEF Conditional, Entering
<1>2. /\ frames \in Seq(Frame) /\ FramesKept(E, frames)
      /\ Builds(E, frames, node, ep) /\ node \notin E
  BY <1>1, EnteringKept
<1>3. \/ \E what : Throw(what)
      \/ \E n, e, vs : Build(n, e, vs) /\ Push(f)
  BY Zenon DEF Conditional, Underflow
<1>4. f.kind = "ifTrue"
  OBVIOUS
<1> HIDE DEF f
<1>5. Kept(E, f) /\ ~ Demands(E, f)
  BY <1>4 DEF Kept, Demands
<1>6. frames # <<>> => Follows(E, Last(frames), f)
  BY <1>2 DEF Follows, Builds
<1>7. ASSUME NEW n, NEW e, NEW vs, Build(n, e, vs), Push(f) PROVE Leaves(E)
  BY <1>2, <1>5, <1>6, <1>7, RestoreNested DEF Push
<1> QED BY <1>3, <1>7, RestoreThrow

LEMMA ReturnIfTrueRestore ==
  ASSUME NEW N, NEW E, Before(N, E), ReturnIfTrue
  PROVE  Leaves(E)
<1> DEFINE f == Last(frames)
           h == [kind |-> "ifFalse", ep |-> f.ep, values |-> f.values,
                 done |-> results]
<1>1. /\ Returning("ifTrue") /\ frames' = Append(Front(frames), h)
      /\ \E n, e, vs : Build(n, e, vs)
  BY DEF ReturnIfTrue
<1>2. /\ f.kind = "ifTrue"
      /\ Front(frames) \in Seq(Frame) /\ FramesKept(E, Front(frames))
      /\ Front(frames) # <<>> => Follows(E, Last(Front(frames)), f)
  BY <1>1, ReturningKept
<1>3. h.kind = "ifFalse"
  OBVIOUS
<1> HIDE DEF f, h
<1>4. Kept(E, h) /\ ~ Demands(E, h)
  BY <1>3 DEF Kept, Demands
<1>5. Front(frames) # <<>> => Follows(E, Last(Front(frames)), h)
  BY <1>2 DEF Follows
<1> QED BY <1>1, <1>2, <1>4, <1>5, RestoreNested

LEMMA ReturnIfFalseRestore ==
  ASSUME NEW N, NEW E, Before(N, E), ReturnIfFalse
  PROVE  Leaves(E)
<1>1. /\ Returning("ifFalse") /\ frames' = Front(frames)
      /\ \E rs : Return(rs)
  BY Zenon DEF ReturnIfFalse
<1>2. /\ Last(frames).kind = "ifFalse" /\ FramesKept(E, Front(frames))
      /\ Front(frames) # <<>> => Follows(E, Last(Front(frames)), Last(frames))
  BY <1>1, ReturningKept
<1>3. \A rs : Returns(E, Front(frames), rs)
  BY <1>2 DEF Follows, Returns
<1> QED BY <1>1, <1>2, <1>3, RestoreReturn

LEMMA BranchRestore ==
  ASSUME NEW N, NEW E, Before(N, E), Branch
  PROVE  Leaves(E)
BY ConditionalRestore, ReturnIfTrueRestore, ReturnIfFalseRestore DEF Branch

-----------------------------------------------------------------------------
LEMMA ProxyRestore ==
  ASSUME NEW N, NEW E, Before(N, E), ProxyTailPath \/ ProxyRegularCall
  PROVE  Leaves(E)
<1> DEFINE f == [kind |-> "junction", node |-> node.consumer, ep |-> ep,
                 values |-> values]
<1>1. pc = "build" /\ node.kind = "proxy" /\ node.kind \in WithConsumer
  BY DEF ProxyTailPath, ProxyRegularCall, Entering, WithConsumer
<1>2. /\ frames \in Seq(Frame) /\ FramesKept(E, frames)
      /\ Builds(E, frames, node, ep)
      /\ ep \in Like(ep) /\ node.segment \in E
      /\ node \in E => node.consumer \in E
  BY <1>1, EnteringKept, LikeLaws
<1>3. CASE ProxyTailPath
  BY <1>1, <1>2, <1>3, RestoreGoOn DEF ProxyTailPath
<1>4. CASE ProxyRegularCall
  <2>1. Build(node.segment, ep, <<>>) /\ frames' = Append(frames, f)
    BY <1>4 DEF ProxyRegularCall, Push
  <2>2. f.kind = "junction" /\ f.node = node.consumer /\ f.ep = ep
    OBVIOUS
  <2> HIDE DEF f
  <2>3. Kept(E, f)
    BY <2>2 DEF Kept
  <2>4. frames # <<>> => Follows(E, Last(frames), f)
    BY <1>2, <2>2 DEF Follows, Builds
  <2> QED BY <1>2, <2>1, <2>2, <2>3, <2>4, RestoreNested
<1> QED BY <1>3, <1>4

LEMMA SegmentRestore ==
  ASSUME NEW N, NEW E, Before(N, E), Segment
  PROVE  Leaves(E)
<1> DEFINE start == [ep |-> ep, values |-> <<>>]
           f == [kind |-> "argument", node |-> node, ep |-> ep,
                 values |-> values, index |-> 1, todo |-> <<start>>,
                 done |-> <<>>]
<1>1. pc = "build" /\ node.kind = "segment"
  BY DEF Segment, Entering
<1>2. /\ frames \in Seq(Frame) /\ FramesKept(E, frames) /\ ep \in EP
      /\ Builds(E, frames, node, ep) /\ ep \in Like(ep)
      /\ node.arguments \in Seq(E) /\ node.call \in E
  BY <1>1, EnteringKept, LikeLaws
<1>3. start \in Result /\ start.ep = ep
  BY <1>2 DEF Result
<1>4. \/ BuildEach(frames, node.call, ep, values, <<start>>, <<>>)
      \/ node.arguments # <<>> /\ Build(node.arguments[1], ep, <<>>) /\ Push(f)
  BY Zenon DEF Segment
<1>5. /\ f.kind = "argument" /\ f.ep = ep /\ f.todo = <<start>> /\ f.done = <<>>
  OBVIOUS
<1> HIDE DEF start, f
<1>6. /\ ResultsIn(Like(ep), <<start>>) /\ <<start>> \in Seq(Result)
      /\ ResultsIn(Like(ep), <<>>)
  <2> DEFINE C == Like(ep)
  <2>1. start.ep \in C
    BY <1>2, <1>3
  <2> HIDE DEF C
  <2>2. ResultsIn(C, <<start>>) /\ ResultsIn(C, <<>>)
    BY <2>1, ResultsFew
  <2> QED BY <1>3, <2>2 DEF C
<1>7. CASE BuildEach(frames, node.call, ep, values, <<start>>, <<>>)
  <2>1. Builds(E, frames, node.call, ep)
    BY <1>2 DEF Builds
  <2> QED BY <1>2, <1>6, <1>7, <2>1, RestoreEach
<1>8. CASE node.arguments # <<>> /\ Build(node.arguments[1], ep, <<>>) /\ Push(f)
  <2>1. node.arguments[1] \in E
    BY <1>2, <1>8
  <2>2. Kept(E, f)
    BY <1>5, <1>6 DEF Kept
  <2>3. frames # <<>> => Follows(E, Last(frames), f)
    BY <1>2, <1>5 DEF Follows, Builds
  <2>4. frames' = Append(frames, f)
    BY <1>8 DEF Push
  <2> QED BY <1>2, <1>5, <1>8, <2>1, <2>2, <2>3, <2>4, RestoreNested
<1> QED BY <1>4, <1>7, <1>8

LEMMA ReturnEachRestore ==
  ASSUME NEW N, NEW E, Before(N, E), ReturnEach
  PROVE  Leaves(E)
<1> DEFINE f == Last(frames)
<1>1. Returning("each") /\ TypeOK
  BY DEF ReturnEach, Before
<1>2. /\ f \in Frame /\ f.kind = "each" /\ f.ep \in EP /\ results \in Seq(Result)
      /\ Front(frames) \in Seq(Frame) /\ FramesKept(E, Front(frames))
      /\ Kept(E, f)
      /\ Front(frames) # <<>> => Follows(E, Last(Front(frames)), f)
      /\ Demands(E, f) => ResultsIn(Like(f.ep), results)
  BY <1>1, ReturningKept
\* Whatever contexts the results are in, the loop adds them to those.
<1>3. PICK rs \in Seq(Result) :
        /\ ResultsIn({results[i].ep : i \in DOMAIN results}, rs)
        /\ BuildEach(Front(frames), f.node, f.ep, f.prefix, f.todo, f.done \o rs)
  <2> DEFINE C == {results[i].ep : i \in DOMAIN results}
  <2>1. ResultsIn(C, results)
    BY DEF ResultsIn
  <2> HIDE DEF C
  <2>2. \E rs \in Seq(Result) :
          /\ ResultsIn(C, rs)
          /\ BuildEach(Front(frames), f.node, f.ep, f.prefix, f.todo, f.done \o rs)
    BY <1>1, <2>1, EachOutcome, Zenon
  <2> QED BY <2>2, Zenon DEF C
<1> HIDE DEF f
<1>4. f.todo \in Seq(Result) /\ f.done \in Seq(Result)
  BY <1>2, FrameType
<1>5. ResultsIn(Like(f.ep), f.todo)
  BY <1>2 DEF Kept
<1>6. ASSUME f.node \in E PROVE ResultsIn(Like(f.ep), f.done \o rs)
  <2>1. ResultsIn(Like(f.ep), results) /\ ResultsIn(Like(f.ep), f.done)
    BY <1>2, <1>6 DEF Demands, Kept
  <2>2. ResultsIn(Like(f.ep), rs)
    BY <1>3, <2>1 DEF ResultsIn
  <2> QED BY <1>3, <1>4, <2>1, <2>2, ResultsConcat
<1>7. Builds(E, Front(frames), f.node, f.ep)
  BY <1>2, FollowsBuilds
<1> QED BY <1>2, <1>3, <1>4, <1>5, <1>6, <1>7, RestoreEach

LEMMA ReturnArgumentRestore ==
  ASSUME NEW N, NEW E, Before(N, E), ReturnArgument
  PROVE  Leaves(E)
<1> DEFINE f == Last(frames)
           C == Like(f.ep)
<1>1. Returning("argument") /\ TypeOK
  BY DEF ReturnArgument, Before
<1>2. /\ f \in Frame /\ f.kind = "argument" /\ f.ep \in EP
      /\ Front(frames) \in Seq(Frame) /\ FramesKept(E, Front(frames))
      /\ Kept(E, f)
      /\ Front(frames) # <<>> => Follows(E, Last(Front(frames)), f)
      /\ Demands(E, f) => ResultsIn(C, results)
  BY <1>1, ReturningKept
<1>3. f.node.kind = "segment" /\ f.node.arguments \in Seq(E) /\ f.node.call \in E
  <2>1. f \in ArgumentFrame
    BY <1>2, FrameType
  <2>2. f.node \in N
    <3>1. frames \in Seq(Frame) /\ frames # <<>>
      BY <1>1 DEF Returning, TypeOK
    <3>2. Len(frames) \in DOMAIN frames /\ f = frames[Len(frames)]
      BY <3>1 DEF Last
    <3> HIDE DEF f
    <3> QED BY <1>2, <3>2 DEF Before
  <2> HIDE DEF f
  <2> QED BY <2>1, <2>2 DEF ArgumentFrame, Before, IsPure
<1>4. /\ ResultsIn(C, results) /\ ResultsIn(C, f.todo) /\ ResultsIn(C, f.done)
  <2> HIDE DEF f, C
  <2>1. Demands(E, f)
    BY <1>2 DEF Demands
  <2> QED BY <1>2, <2>1 DEF Kept, C
<1>5. \/ \E i \in DOMAIN f.node.arguments, todo \in Seq(Result) : \E h :
           NextArgument(C, i, todo, f, h)
      \/ \E done \in Seq(Result) :
           /\ ResultsIn(C, done)
           /\ BuildEach(Front(frames), f.node.call, f.ep, f.values, done, <<>>)
  <2> HIDE DEF C
  <2> QED BY <1>1, <1>4, ArgumentOutcome
<1> HIDE DEF f
<1>6. ASSUME NEW i \in DOMAIN f.node.arguments, NEW todo, NEW h,
             NextArgument(C, i, todo, f, h)
      PROVE  Leaves(E)
  <2>1. /\ h.kind = "argument" /\ h.ep = f.ep
        /\ ResultsIn(Like(h.ep), h.todo) /\ ResultsIn(Like(h.ep), h.done)
        /\ todo[1].ep \in Like(h.ep)
        /\ Build(f.node.arguments[i], todo[1].ep, <<>>)
        /\ frames' = Append(Front(frames), h)
    BY <1>6 DEF NextArgument
  <2>2. Kept(E, h)
    BY <2>1 DEF Kept
  <2>3. Front(frames) # <<>> => Follows(E, Last(Front(frames)), h)
    BY <1>2, <2>1 DEF Follows
  <2>4. f.node.arguments[i] \in E
    BY <1>3
  <2> QED BY <1>2, <2>1, <2>2, <2>3, <2>4, RestoreNested
<1>7. ASSUME NEW done \in Seq(Result), ResultsIn(C, done),
             BuildEach(Front(frames), f.node.call, f.ep, f.values, done, <<>>)
      PROVE  Leaves(E)
  <2>1. Builds(E, Front(frames), f.node.call, f.ep)
    BY <1>2, <1>3 DEF Builds, Follows
  <2>2. ResultsIn(C, <<>>)
    BY DEF ResultsIn
  <2> QED BY <1>2, <1>7, <2>1, <2>2, RestoreEach
<1> QED BY <1>5, <1>6, <1>7

LEMMA ReturnJunctionRestore ==
  ASSUME NEW N, NEW E, Before(N, E), ReturnJunction
  PROVE  Leaves(E)
<1> DEFINE f == Last(frames)
           C == Like(f.ep)
<1>1. Returning("junction") /\ TypeOK
  BY DEF ReturnJunction, Before
<1>2. /\ f.kind = "junction" /\ f.ep \in EP
      /\ Front(frames) \in Seq(Frame) /\ FramesKept(E, Front(frames))
      /\ Front(frames) # <<>> => Follows(E, Last(Front(frames)), f)
      /\ Demands(E, f) => ResultsIn(C, results)
  BY <1>1, ReturningKept
<1>3. \A b \in Nat : WithBlock(f.ep, b) \in C
  BY <1>2, LikeLaws
<1>4. ResultsIn(C, results)
  BY <1>2 DEF Demands
<1>5. \/ Throw("linkBlocks")
      \/ \E todo \in Seq(Result) :
           /\ ResultsIn(C, todo)
           /\ BuildEach(Front(frames), f.node, f.ep, <<>>, todo, <<>>)
  <2> HIDE DEF C
  <2> QED BY <1>1, <1>3, <1>4, JunctionOutcome
<1> HIDE DEF f
<1>6. Builds(E, Front(frames), f.node, f.ep)
  BY <1>2, FollowsBuilds
<1>7. ResultsIn(C, <<>>)
  BY DEF ResultsIn
<1> QED BY <1>2, <1>5, <1>6, <1>7, RestoreThrow, RestoreEach

LEMMA PrepareRestore ==
  ASSUME NEW N, NEW E, Before(N, E), Prepare
  PROVE  Leaves(E)
BY ProxyRestore, SegmentRestore, ReturnArgumentRestore, ReturnJunctionRestore,
   ReturnEachRestore DEF Prepare

-----------------------------------------------------------------------------
LEMMA CallFunctionRestore ==
  ASSUME NEW N, NEW E, Before(N, E), CallFunction
  PROVE  Leaves(E)
<1> DEFINE e == WithBlock(ep, Len(graph) + 1)
           f == [kind |-> "function", ep |-> e]
<1>1. pc = "build"
  BY DEF CallFunction, NotATailCall, Entering
<1>2. /\ frames \in Seq(Frame) /\ FramesKept(E, frames)
      /\ Builds(E, frames, node, ep) /\ ep \in EP /\ Len(graph) + 1 \in Nat
  BY <1>1, EnteringKept
<1>3. \E n, h, vs : Build(n, h, vs) /\ Push(f)
  BY Zenon DEF CallFunction
<1>4. e \in Like(ep)
  BY <1>2, LikeLaws
<1> HIDE DEF e
<1>5. f.kind = "function" /\ f.ep = e
  OBVIOUS
<1> HIDE DEF f
<1>6. Kept(E, f) /\ ~ Demands(E, f)
  BY <1>5 DEF Kept, Demands
<1>7. frames # <<>> => Follows(E, Last(frames), f)
  <2>1. ASSUME frames # <<>>, Demands(E, Last(frames))
        PROVE  f.ep \in Like(Last(frames).ep)
    <3>1. ep \in Like(Last(frames).ep) /\ Last(frames).ep \in EP
      BY <1>2, <2>1, FrontLastType, FrameType DEF Builds
    <3> QED BY <1>4, <1>5, <3>1, LikeLaws
  <2> QED BY <1>5, <2>1 DEF Follows
<1> QED BY <1>2, <1>3, <1>6, <1>7, RestoreNested DEF Push

LEMMA ReturnFunctionRestore ==
  ASSUME NEW N, NEW E, Before(N, E), ReturnFunction
  PROVE  Leaves(E)
<1> DEFINE f == Last(frames)
           r(i) == [ep |-> WithBlock(f.ep, Len(graph) + i),
                    values |-> results[i].values]
           rs == [i \in 1..Len(results) |-> r(i)]
<1>1. /\ Returning("function")
      /\ Throw("linkBlocks") \/ (Return(rs) /\ frames' = Front(frames))
  BY Zenon DEF ReturnFunction
<1>2. /\ f.ep \in EP /\ Len(graph) \in Nat /\ results \in Seq(Result)
      /\ Front(frames) \in Seq(Frame) /\ FramesKept(E, Front(frames))
      /\ Front(frames) # <<>> => Follows(E, Last(Front(frames)), f)
  <2>1. Len(graph) \in Nat
    BY DEF Before, TypeOK
  <2> QED BY <1>1, <2>1, ReturningKept
<1> HIDE DEF f
<1>3. ASSUME NEW i \in 1..Len(results) PROVE rs[i].ep \in Like(f.ep)
  <2>1. Len(graph) + i \in Nat /\ rs[i].ep = WithBlock(f.ep, Len(graph) + i)
    BY <1>2
  <2> HIDE DEF rs
  <2> QED BY <1>2, <2>1, LikeLaws
<1>4. DOMAIN rs = 1..Len(results)
  OBVIOUS
<1> HIDE DEF rs
<1>5. ResultsIn(Like(f.ep), rs)
  BY <1>3, <1>4 DEF ResultsIn
<1>6. Returns(E, Front(frames), rs)
  BY <1>2, <1>5, FollowsReturns
<1> QED BY <1>1, <1>2, <1>6, RestoreThrow, RestoreReturn

LEMMA InvokeRestore ==
  ASSUME NEW N, NEW E, Before(N, E), Invoke
  PROVE  Leaves(E)
<1>1. CASE TailCall
  <2>1. pc = "build" /\ ResultsIn(Like(ep), <<>>)
    BY <1>1 DEF TailCall, Entering, ResultsIn
  <2>2. Throw("linkBlocks") \/ (Return(<<>>) /\ UNCHANGED frames)
    BY <1>1, Zenon DEF TailCall
  <2> QED BY <2>1, <2>2, RestoreThrow, RestoreOne
<1>2. CASE CallFails
  <2>1. \E what : Throw(what)
    BY <1>2, Zenon DEF CallFails
  <2> QED BY <2>1, RestoreThrow
<1>3. CASE CallImport
  <2> DEFINE r(f) == [ep |-> WithBlock(ep, Len(graph) + 1),
                      values |-> IF f.returns = "void" THEN <<>>
                                 ELSE <<Scalar(f.returns)>>]
  <2>1. PICK f : Return(<<r(f)>>) /\ UNCHANGED frames
    BY <1>3, Zenon DEF CallImport
  <2>2. r(f).ep = WithBlock(ep, Len(graph) + 1)
    OBVIOUS
  <2> HIDE DEF r
  <2>3. pc = "build"
    BY <1>3 DEF CallImport, NotATailCall, Entering
  <2>4. r(f).ep \in Like(ep)
    <3>1. ep \in EP /\ Len(graph) + 1 \in Nat
      BY <2>3, EnteringKept
    <3> QED BY <2>2, <3>1, LikeLaws
  <2>5. ResultsIn(Like(ep), <<r(f)>>)
    BY <2>4, ResultsFew
  <2> QED BY <2>1, <2>3, <2>5, RestoreOne
<1> QED BY <1>1, <1>2, <1>3, CallFunctionRestore, ReturnFunctionRestore DEF Invoke

LEMMA StepRestore ==
  ASSUME NEW N, NEW E, Before(N, E), [Next]_vars
  PROVE  Leaves(E)
<1>1. ASSUME UNCHANGED frames, pc' \in {"built", "thrown"} PROVE Leaves(E)
  BY <1>1 DEF Leaves, Before, RestoreInv
<1>2. ASSUME UNCHANGED <<pc, node, ep, results, frames>> PROVE Leaves(E)
  BY <1>2 DEF Leaves, Before, RestoreInv
<1>3. CASE Step
  <2>1. CASE Finish
    BY <1>1, <2>1 DEF Finish
  <2>2. CASE Overflow
    BY <2>2, RestoreThrow DEF Overflow
  <2> QED BY <1>3, <2>1, <2>2, ProduceRestore, LeaveRestore, BranchRestore,
             PrepareRestore, InvokeRestore DEF Step
<1>4. CASE Stop
  BY <1>2, <1>4 DEF Stop
<1>5. CASE UNCHANGED vars
  BY <1>2, <1>5 DEF vars
<1> QED BY <1>3, <1>4, <1>5, Zenon DEF Next

\* Whichever nodes the unit's are among, and whichever are built for a result.
RestoresInv ==
  \A N, E \in SUBSET Node :
    HasNodes(unit, N) /\ IsPure(unit, N, E) => RestoreInv(E)

LEMMA InitRestore ==
  ASSUME Init
  PROVE  RestoresInv
<1>1. frames = <<>> /\ pc = "build"
  BY DEF Init
<1>2. ASSUME NEW E PROVE RestoreInv(E)
  BY <1>1 DEF RestoreInv, FramesKept, Builds
<1> QED BY <1>2 DEF RestoresInv

LEMMA NextRestore ==
  ASSUME TypeOK, ContextsInv, RestoresInv, [Next]_vars
  PROVE  RestoresInv'
<1>1. unit' = unit
  BY DEF Next, vars
<1> SUFFICES ASSUME NEW N \in SUBSET Node, NEW E \in SUBSET Node,
                    HasNodes(unit, N), IsPure(unit, N, E)
             PROVE  RestoreInv(E)'
  BY <1>1 DEF RestoresInv
<1>2. RestoreInv(E)
  BY DEF RestoresInv
<1>3. node \in N /\ \A k \in DOMAIN frames :
        frames[k].kind = "argument" => frames[k].node \in N
  <2>1. ContextInv(N)
    BY DEF ContextsInv
  <2> QED BY <2>1 DEF ContextInv, Within, Holds, FramesIn, FrameIn
<1>4. Leaves(E)
  BY <1>2, <1>3, StepRestore DEF Before
<1> QED BY <1>4 DEF Leaves, RestoreInv

LEMMA KeptRestores ==
  ASSUME NEW E, RestoreInv(E)
  PROVE  CallersScopeIsRestored
<1> SUFFICES ASSUME NEW k \in DOMAIN frames, NEW f, f = frames[k],
                    f.kind \in {"argument", "each"},
                    NEW r \in Range(f.todo) \cup Range(f.done),
                    f.kind = "argument" \/ r \in Range(f.todo)
             PROVE  r.ep \in Like(f.ep)
  BY DEF CallersScopeIsRestored, Like
<1>1. Kept(E, f)
  BY DEF RestoreInv, FramesKept
<1>2. CASE r \in Range(f.todo)
  BY <1>1, <1>2 DEF Kept, ResultsIn, Range
<1>3. CASE r \in Range(f.done) /\ f.kind = "argument"
  BY <1>1, <1>3 DEF Kept, Demands, ResultsIn, Range
<1> QED BY <1>2, <1>3

\* FunctionNode::build and JunctionNode: whatever a callee nests and however
\* many results it has, an expression that declares and branches nothing goes
\* on in the scopes and with the locals of the caller, so what follows a call or
\* an argument is compiled as if the call were a value.
THEOREM ScopeCorrect == Spec => [](ArgumentsArePure(unit) => CallersScopeIsRestored)
<1>1. Init => RestoresInv
  BY InitRestore
<1>2. TypeOK /\ ContextsInv /\ RestoresInv /\ [Next]_vars => RestoresInv'
  BY NextRestore
<1>3. RestoresInv => (ArgumentsArePure(unit) => CallersScopeIsRestored)
  <2> SUFFICES ASSUME RestoresInv, ArgumentsArePure(unit)
               PROVE  CallersScopeIsRestored
    OBVIOUS
  <2>1. PICK N, E \in SUBSET Node : HasNodes(unit, N) /\ IsPure(unit, N, E)
    BY DEF ArgumentsArePure
  <2>2. RestoreInv(E)
    BY <2>1 DEF RestoresInv
  <2> QED BY <2>2, KeptRestores
<1> QED BY <1>1, <1>2, <1>3, ContextsInvariant, PTL DEF Spec
=============================================================================
