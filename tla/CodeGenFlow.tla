---------------------------- MODULE CodeGenFlow ----------------------------
(***************************************************************************)
(* Two properties of the generated flow graph, for every program: only the *)
(* jumps of tail calls go backwards, and every block that is inserted is   *)
(* reached from alloc.  Neither is inductive: they rest on what the code   *)
(* generator's contexts, results and frames know of the graph (FlowInv).   *)
(***************************************************************************)
EXTENDS CodeGenProofs

-----------------------------------------------------------------------------
(* The inductive invariant.                                                *)

\* An earlier block branches to b.
Reached(g, b) == b \in DOMAIN g /\ \E p \in 1..b-1 : b \in g[p].targets

\* What markEntry froze is the block of a function.
FunctionEntry(g, x) ==
  x # NoEntry => x.block \in DOMAIN g /\ g[x.block].role = "function"

\* A context writes to a block that is reached, and its scopes were entered
\* at blocks of functions.
Sound(g, e) ==
  /\ Reached(g, e.block)
  /\ \A i \in DOMAIN e.scopes : FunctionEntry(g, e.scopes[i].entry)

SoundResults(g, rs) == \A i \in DOMAIN rs : Sound(g, rs[i].ep)

\* Whatever a frame keeps for later.
SoundFrame(g, f) ==
  /\ Sound(g, f.ep)
  /\ f.kind = "ifTrue" => Reached(g, f.block)
  /\ f.kind \in {"argument", "each"} => SoundResults(g, f.todo)
  /\ f.kind \in {"ifFalse", "argument", "each"} => SoundResults(g, f.done)

SoundFrames(g, fs) == \A k \in DOMAIN fs : SoundFrame(g, fs[k])

\* Branches lead to blocks of the graph, backwards to those of functions
\* alone; what is inserted is reached.
SoundGraph(g) ==
  \A b \in DOMAIN g :
    /\ \A t \in g[b].targets :
         t \in DOMAIN g /\ (t <= b => g[t].role = "function")
    /\ g[b].inserted => b = 1 \/ Reached(g, b)

FlowInv ==
  /\ SoundGraph(graph)
  /\ Sound(graph, ep)
  /\ SoundResults(graph, results)
  /\ SoundFrames(graph, frames)

-----------------------------------------------------------------------------
(* The graph only grows: blocks keep their roles and their branches.       *)

Grows(g, h) ==
  /\ Len(g) <= Len(h)
  /\ \A b \in DOMAIN g : h[b].role = g[b].role /\ g[b].targets \subseteq h[b].targets

\* From g to h, n blocks are added; the branches that are new lead to them,
\* and a block that is newly inserted is reached.
Extends(g, h, n) ==
  /\ Len(h) = Len(g) + n
  /\ \A b \in DOMAIN g :
       /\ h[b].role = g[b].role
       /\ g[b].targets \subseteq h[b].targets
       /\ \A t \in h[b].targets \ g[b].targets : t \in DOMAIN h \ DOMAIN g
       /\ h[b].inserted => g[b].inserted \/ Reached(g, b)
  /\ \A b \in DOMAIN h \ DOMAIN g :
       /\ h[b].targets = {}
       /\ h[b].inserted => \E p \in DOMAIN g : b \in h[p].targets

LEMMA GrowsReached ==
  ASSUME NEW g \in Seq(Block), NEW h \in Seq(Block), Grows(g, h),
         NEW b, Reached(g, b)
  PROVE  Reached(h, b)
<1>1. PICK p \in 1..b-1 : b \in g[p].targets
  BY DEF Reached
<1>2. b \in DOMAIN g /\ p \in DOMAIN g /\ b \in DOMAIN h
  BY <1>1 DEF Reached, Grows
<1>3. b \in h[p].targets
  BY <1>1, <1>2, Zenon DEF Grows
<1> QED BY <1>1, <1>2, <1>3 DEF Reached

LEMMA GrowsEntry ==
  ASSUME NEW g \in Seq(Block), NEW h \in Seq(Block), Grows(g, h),
         NEW x, FunctionEntry(g, x)
  PROVE  FunctionEntry(h, x)
BY DEF Grows, FunctionEntry

LEMMA GrowsSound ==
  ASSUME NEW g \in Seq(Block), NEW h \in Seq(Block), Grows(g, h)
  PROVE  /\ \A e : Sound(g, e) => Sound(h, e)
         /\ \A rs : SoundResults(g, rs) => SoundResults(h, rs)
         /\ \A f : SoundFrame(g, f) => SoundFrame(h, f)
         /\ \A fs : SoundFrames(g, fs) => SoundFrames(h, fs)
<1>1. ASSUME NEW e, Sound(g, e) PROVE Sound(h, e)
  BY <1>1, GrowsReached, GrowsEntry, Zenon DEF Sound
<1>2. ASSUME NEW rs, SoundResults(g, rs) PROVE SoundResults(h, rs)
  BY <1>1, <1>2, Zenon DEF SoundResults
<1>3. ASSUME NEW f, SoundFrame(g, f) PROVE SoundFrame(h, f)
  BY <1>1, <1>2, <1>3, GrowsReached, Zenon DEF SoundFrame
<1>4. ASSUME NEW fs, SoundFrames(g, fs) PROVE SoundFrames(h, fs)
  BY <1>3, <1>4, Zenon DEF SoundFrames
<1> QED BY <1>1, <1>2, <1>3, <1>4, Zenon

LEMMA ExtendsSound ==
  ASSUME NEW g \in Seq(Block), NEW h \in Seq(Block), NEW n \in Nat,
         SoundGraph(g), Extends(g, h, n)
  PROVE  Grows(g, h) /\ SoundGraph(h)
<1>1. Grows(g, h)
  BY DEF Extends, Grows
<1>2. DOMAIN g = 1..Len(g) /\ DOMAIN h = 1..Len(h) /\ DOMAIN g \subseteq DOMAIN h
      /\ Len(g) \in Nat /\ Len(h) \in Nat
  BY <1>1 DEF Grows
<1>3. ASSUME NEW b \in DOMAIN g, NEW t \in h[b].targets
      PROVE  t \in DOMAIN h /\ (t <= b => h[t].role = "function")
  <2>1. CASE t \in g[b].targets
    <3>1. t \in DOMAIN g /\ (t <= b => g[t].role = "function")
      BY <2>1 DEF SoundGraph
    <3> QED BY <1>2, <3>1, Zenon DEF Extends
  <2>2. CASE t \notin g[b].targets
    <3>1. t \in DOMAIN h \ DOMAIN g
      BY <1>3, <2>2 DEF Extends
    <3>2. ~ (t <= b)
      BY <1>2, <3>1
    <3> QED BY <3>1, <3>2
  <2> QED BY <2>1, <2>2
<1>4. ASSUME NEW b \in DOMAIN g, h[b].inserted
      PROVE  b = 1 \/ Reached(h, b)
  <2>1. g[b].inserted \/ Reached(g, b)
    BY <1>4, Zenon DEF Extends
  <2>2. b = 1 \/ Reached(g, b)
    BY <2>1, Zenon DEF SoundGraph
  <2> QED BY <1>1, <2>2, GrowsReached, Zenon
<1>5. ASSUME NEW b \in DOMAIN h \ DOMAIN g
      PROVE  /\ h[b].targets = {}
             /\ h[b].inserted => Reached(h, b)
  <2>1. ASSUME h[b].inserted PROVE Reached(h, b)
    <3>1. PICK p \in DOMAIN g : b \in h[p].targets
      BY <2>1 DEF Extends
    <3>2. p \in 1..b-1
      BY <1>2
    <3> QED BY <3>1, <3>2 DEF Reached
  <2>2. h[b].targets = {}
    BY Zenon DEF Extends
  <2> QED BY <2>1, <2>2
<1>6. SoundGraph(h)
  <2> SUFFICES ASSUME NEW b \in DOMAIN h
      PROVE  /\ \A t \in h[b].targets :
                  t \in DOMAIN h /\ (t <= b => h[t].role = "function")
             /\ h[b].inserted => b = 1 \/ Reached(h, b)
    BY Zenon DEF SoundGraph
  <2>1. CASE b \in DOMAIN g
    BY <1>3, <1>4, <2>1, Zenon
  <2>2. CASE b \notin DOMAIN g
    BY <1>5, <2>2, Zenon
  <2> QED BY <2>1, <2>2, Zenon
<1> QED BY <1>1, <1>6

-----------------------------------------------------------------------------
(* What the operations do to roles, branches and insertions.               *)

LEMMA ReplacedBlock ==
  ASSUME NEW g \in Seq(Block), NEW b, NEW r, NEW h, h = [g EXCEPT ![b] = r]
  PROVE  /\ Len(h) = Len(g)
         /\ \A c \in DOMAIN g : h[c] = IF c = b THEN r ELSE g[c]
         /\ b \in DOMAIN g => g[b] \in Block
OBVIOUS

LEMMA InsertBlockFlow ==
  ASSUME NEW g \in Seq(Block), NEW b, NEW h, h = InsertBlock(g, b)
  PROVE  /\ Len(h) = Len(g)
         /\ \A c \in DOMAIN g :
              /\ h[c].role = g[c].role /\ h[c].targets = g[c].targets
              /\ h[c].inserted => g[c].inserted \/ c = b
<1> DEFINE r == [g[b] EXCEPT !.inserted = TRUE]
<1>1. h = [g EXCEPT ![b] = r]
  BY DEF InsertBlock
<1>2. ASSUME g[b] \in Block
      PROVE  r.role = g[b].role /\ r.targets = g[b].targets
  BY <1>2 DEF Block
<1> HIDE DEF r
<1> QED BY <1>1, <1>2, ReplacedBlock

LEMMA EmitTypedFlow ==
  ASSUME NEW g \in Seq(Block), NEW b, NEW agree \in BOOLEAN,
         NEW h, h = EmitTyped(g, b, agree)
  PROVE  /\ Len(h) = Len(g)
         /\ \A c \in DOMAIN g :
              /\ h[c].role = g[c].role /\ h[c].targets = g[c].targets
              /\ h[c].inserted = g[c].inserted
<1> DEFINE r == [g[b] EXCEPT
                   !.malformed = @ \/ g[b].last # "open" \/ ~agree,
                   !.last = "open"]
<1>1. h = [g EXCEPT ![b] = r]
  BY DEF EmitTyped
<1>2. ASSUME g[b] \in Block
      PROVE  /\ r.role = g[b].role /\ r.targets = g[b].targets
             /\ r.inserted = g[b].inserted
  BY <1>2 DEF Block
<1> HIDE DEF r
<1> QED BY <1>1, <1>2, ReplacedBlock

LEMMA EmitFlow ==
  ASSUME NEW g \in Seq(Block), NEW b, NEW h, h = Emit(g, b)
  PROVE  /\ Len(h) = Len(g)
         /\ \A c \in DOMAIN g :
              /\ h[c].role = g[c].role /\ h[c].targets = g[c].targets
              /\ h[c].inserted = g[c].inserted
<1> DEFINE r == [g[b] EXCEPT !.malformed = @ \/ g[b].last # "open",
                             !.last = "open"]
<1>1. h = [g EXCEPT ![b] = r]
  BY DEF Emit
<1>2. ASSUME g[b] \in Block
      PROVE  /\ r.role = g[b].role /\ r.targets = g[b].targets
             /\ r.inserted = g[b].inserted
  BY <1>2 DEF Block
<1> HIDE DEF r
<1> QED BY <1>1, <1>2, ReplacedBlock

LEMMA TerminateFlow ==
  ASSUME NEW g \in Seq(Block), NEW b, NEW kind, NEW T, NEW agree \in BOOLEAN,
         NEW h, h = Terminate(g, b, kind, T, agree)
  PROVE  /\ Len(h) = Len(g)
         /\ \A c \in DOMAIN g :
              /\ h[c].role = g[c].role
              /\ c = b => h[c].targets = g[c].targets \cup T
              /\ c # b => h[c].targets = g[c].targets
              /\ h[c].inserted = g[c].inserted
<1> DEFINE r == [g[b] EXCEPT
                   !.malformed = @ \/ g[b].last # "open" \/ ~agree,
                   !.last = kind, !.targets = @ \cup T]
<1>1. h = [g EXCEPT ![b] = r]
  BY DEF Terminate
<1>2. ASSUME g[b] \in Block
      PROVE  /\ r.role = g[b].role /\ r.targets = g[b].targets \cup T
             /\ r.inserted = g[b].inserted
  BY <1>2 DEF Block
<1> HIDE DEF r
<1>3. /\ Len(h) = Len(g)
      /\ \A c \in DOMAIN g : h[c] = IF c = b THEN r ELSE g[c]
      /\ b \in DOMAIN g => g[b] \in Block
  BY <1>1, ReplacedBlock
<1>4. ASSUME NEW c \in DOMAIN g
      PROVE  /\ h[c].role = g[c].role
             /\ c = b => h[c].targets = g[c].targets \cup T
             /\ c # b => h[c].targets = g[c].targets
             /\ h[c].inserted = g[c].inserted
  <2>1. CASE c = b
    BY <1>2, <1>3, <2>1, Zenon
  <2>2. CASE c # b
    BY <1>3, <2>2, Zenon
  <2> QED BY <2>1, <2>2
<1> QED BY <1>3, <1>4, Zenon

LEMMA LinkBlocksFlow ==
  ASSUME NEW g \in Seq(Block), NEW b, NEW t, NEW h, h = LinkBlocks(g, b, t)
  PROVE  /\ Len(h) = Len(g)
         /\ \A c \in DOMAIN g :
              /\ h[c].role = g[c].role
              /\ c = b => h[c].targets = g[c].targets \cup {t}
              /\ c # b => h[c].targets = g[c].targets
              /\ h[c].inserted = g[c].inserted
<1> DEFINE r == [g[b] EXCEPT !.malformed = @ \/ g[b].last # "open" \/ ~TRUE,
                             !.last = "br", !.targets = @ \cup {t}]
<1>1. h = [g EXCEPT ![b] = r]
  BY DEF LinkBlocks, Terminate
<1>2. ASSUME g[b] \in Block
      PROVE  /\ r.role = g[b].role /\ r.targets = g[b].targets \cup {t}
             /\ r.inserted = g[b].inserted
  BY <1>2 DEF Block
<1> HIDE DEF r
<1>3. /\ Len(h) = Len(g)
      /\ \A c \in DOMAIN g : h[c] = IF c = b THEN r ELSE g[c]
      /\ b \in DOMAIN g => g[b] \in Block
  BY <1>1, ReplacedBlock
<1>4. ASSUME NEW c \in DOMAIN g
      PROVE  /\ h[c].role = g[c].role
             /\ c = b => h[c].targets = g[c].targets \cup {t}
             /\ c # b => h[c].targets = g[c].targets
             /\ h[c].inserted = g[c].inserted
  <2>1. CASE c = b
    BY <1>2, <1>3, <2>1, Zenon
  <2>2. CASE c # b
    BY <1>3, <2>2, Zenon
  <2> QED BY <2>1, <2>2
<1> QED BY <1>3, <1>4, Zenon

LEMMA AddBlocksFlow ==
  ASSUME NEW g \in Seq(Block), NEW role, NEW inserted, NEW n \in Nat,
         NEW h, h = AddBlocks(g, role, inserted, n)
  PROVE  /\ Len(h) = Len(g) + n
         /\ \A c \in DOMAIN g : h[c] = g[c]
         /\ \A c \in DOMAIN h \ DOMAIN g :
              h[c].role = role /\ h[c].targets = {} /\ h[c].inserted = inserted
<1> DEFINE x == NewBlock(role, inserted)
           s == [i \in 1..n |-> x]
           k == g \o s
<1>1. h = k
  BY DEF AddBlocks
<1>2. x.role = role /\ x.targets = {} /\ x.inserted = inserted
  BY DEF NewBlock
<1> HIDE DEF x
<1>3. s \in Seq({x}) /\ Len(s) = n
  OBVIOUS
<1>4. Len(k) = Len(g) + n /\ \A c \in DOMAIN g : k[c] = g[c]
  BY <1>3
<1>5. ASSUME NEW c \in DOMAIN k \ DOMAIN g PROVE k[c] = x
  <2>1. c - Len(g) \in 1..n /\ c \in Len(g)+1..Len(g)+n
    BY <1>3
  <2>2. k[c] = s[c - Len(g)]
    BY <1>3, <2>1
  <2> QED BY <2>1, <2>2
<1> HIDE DEF k
<1> QED BY <1>1, <1>2, <1>4, <1>5, Zenon

LEMMA LinkEachFlow ==
  ASSUME NEW g \in Seq(Block), NEW I, NEW from, NEW to,
         NEW insert \in BOOLEAN,
         NEW h, h = LinkEach(g, I, from, to, insert)
  PROVE  /\ Len(h) = Len(g)
         /\ \A c \in DOMAIN g :
              /\ h[c].role = g[c].role
              /\ h[c].targets =
                   g[c].targets \cup {to[i] : i \in {j \in I : from[j] = c}}
              /\ h[c].inserted => g[c].inserted \/ \E i \in I : from[i] = c
<1> DEFINE mine(b) == {i \in I : from[i] = b}
           linked(b) == [g[b] EXCEPT
              !.inserted = @ \/ insert,
              !.malformed = @ \/ g[b].last # "open" \/ Cardinality(mine(b)) > 1,
              !.last = "br",
              !.targets = @ \cup {to[i] : i \in mine(b)}]
           k == [b \in 1..Len(g) |-> IF mine(b) = {} THEN g[b] ELSE linked(b)]
<1>1. h = k
  BY Zenon DEF LinkEach
<1>2. Len(k) = Len(g) /\ DOMAIN g = 1..Len(g)
  OBVIOUS
<1>3. ASSUME NEW c \in DOMAIN g
      PROVE  /\ k[c].role = g[c].role
             /\ k[c].targets = g[c].targets \cup {to[i] : i \in mine(c)}
             /\ k[c].inserted => g[c].inserted \/ \E i \in I : from[i] = c
  <2>1. k[c] = IF mine(c) = {} THEN g[c] ELSE linked(c)
    BY <1>2
  <2> HIDE DEF k
  <2>2. g[c] \in Block
    OBVIOUS
  <2>3. CASE mine(c) = {}
    BY <2>1, <2>3
  <2>4. CASE mine(c) # {}
    <3>1. /\ linked(c).role = g[c].role
          /\ linked(c).targets = g[c].targets \cup {to[i] : i \in mine(c)}
      <4> HIDE DEF mine
      <4> QED BY <2>2 DEF Block
    <3>2. \E i \in I : from[i] = c
      BY <2>4
    <3> HIDE DEF linked
    <3> QED BY <2>1, <2>4, <3>1, <3>2
  <2> QED BY <2>3, <2>4
<1> HIDE DEF k
<1> QED BY <1>1, <1>2, <1>3, Zenon

-----------------------------------------------------------------------------
(* Contexts, results and frames.                                           *)

LEMMA WithBlockSound ==
  ASSUME NEW g, NEW e \in EP, Sound(g, e), NEW b, Reached(g, b)
  PROVE  Sound(g, WithBlock(e, b))
<1>1. WithBlock(e, b).block = b /\ WithBlock(e, b).scopes = e.scopes
  BY DEF WithBlock, EP
<1> QED BY <1>1, Zenon DEF Sound

LEMMA WithLocalsSound ==
  ASSUME NEW g, NEW e \in EP, Sound(g, e), NEW l
  PROVE  Sound(g, WithLocals(e, l))
<1>1. /\ WithLocals(e, l).block = e.block
      /\ WithLocals(e, l).scopes = e.scopes
  BY DEF WithLocals, EP
<1> QED BY <1>1, Zenon DEF Sound

LEMMA WithNameSound ==
  ASSUME NEW g, NEW e \in EP, Sound(g, e), NEW n \in Name
  PROVE  Sound(g, WithName(e, n))
<1> DEFINE l == Len(e.scopes)
           x == [name |-> n, entry |-> e.scopes[l].entry]
           s == Append(e.scopes, x)
<1>1. e.scopes \in Seq(Scope) /\ e.scopes # <<>>
  BY DEF EP
<1>2. WithName(e, n).block = e.block /\ WithName(e, n).scopes = s
  BY DEF WithName, EP
<1>3. l \in DOMAIN e.scopes /\ x.entry = e.scopes[l].entry
  BY <1>1
<1>4. FunctionEntry(g, x.entry)
  BY <1>3, Zenon DEF Sound
<1> HIDE DEF x
<1>5. ASSUME NEW i \in DOMAIN s PROVE FunctionEntry(g, s[i].entry)
  <2>1. s[i] = x \/ (i \in DOMAIN e.scopes /\ s[i] = e.scopes[i])
    BY <1>1
  <2> QED BY <1>4, <2>1, Zenon DEF Sound
<1> HIDE DEF s
<1> QED BY <1>2, <1>5, Zenon DEF Sound

LEMMA MarkEntrySound ==
  ASSUME NEW g, NEW e \in EP, Sound(g, e), g[e.block].role = "function", NEW vs
  PROVE  Sound(g, MarkEntry(e, vs))
<1> DEFINE l == Len(e.scopes)
           y == [block |-> e.block, values |-> vs]
           x == [e.scopes[l] EXCEPT !.entry = y]
           s == [e.scopes EXCEPT ![l] = x]
<1>1. e.scopes \in Seq(Scope) /\ e.scopes # <<>>
  BY DEF EP
<1>2. MarkEntry(e, vs).block = e.block /\ MarkEntry(e, vs).scopes = s
  BY DEF MarkEntry, EP
<1>3. FunctionEntry(g, y)
  BY DEF FunctionEntry, Sound, Reached
<1> HIDE DEF y
<1>4. x.entry = y
  <2>1. e.scopes[l] \in Scope
    BY <1>1
  <2> QED BY <2>1 DEF Scope
<1> HIDE DEF x
<1>5. ASSUME NEW i \in DOMAIN s PROVE FunctionEntry(g, s[i].entry)
  <2>1. s[i] = x \/ (i \in DOMAIN e.scopes /\ s[i] = e.scopes[i])
    BY <1>1
  <2> QED BY <1>3, <1>4, <2>1, Zenon DEF Sound
<1> HIDE DEF s
<1> QED BY <1>2, <1>5, Zenon DEF Sound

\* A tail call jumps to the block of a function.
LEMMA TailCallTargetSound ==
  ASSUME NEW g, NEW e \in EP, Sound(g, e), NEW names, NEW vs
  PROVE  FunctionEntry(g, TailCallTarget(e, names, vs))
<1>1. FunctionEntry(g, NoEntry)
  BY DEF FunctionEntry
<1>2. ASSUME NEW n PROVE FunctionEntry(g, ByName(e, n))
  <2> DEFINE found == {i \in DOMAIN e.scopes : e.scopes[i].name = n}
             innermost == CHOOSE i \in found : \A j \in found : j <= i
  <2>1. e.scopes \in Seq(Scope)
    BY DEF EP
  <2>2. CASE found = {}
    BY <1>1, <2>2 DEF ByName
  <2>3. CASE found # {}
    <3>1. Len(e.scopes) \in Nat /\ found \in SUBSET (0..Len(e.scopes))
      BY <2>1
    <3>2. \E i \in found : \A j \in found : j <= i
      BY <2>3, <3>1, GreatestNumber, Zenon
    <3>3. innermost \in found
      BY <3>2, Zenon
    <3>4. ByName(e, n) = e.scopes[innermost].entry
      BY <2>3 DEF ByName
    <3> HIDE DEF innermost
    <3>5. innermost \in DOMAIN e.scopes
      BY <3>3
    <3> QED BY <3>4, <3>5, Zenon DEF Sound
  <2> QED BY <2>2, <2>3
<1> QED BY <1>1, <1>2, Zenon DEF TailCallTarget

LEMMA SoundConcat ==
  ASSUME NEW g, NEW rs \in Seq(Result), NEW qs \in Seq(Result),
         SoundResults(g, rs), SoundResults(g, qs)
  PROVE  SoundResults(g, rs \o qs)
<1>1. ASSUME NEW i \in DOMAIN (rs \o qs)
      PROVE  \/ i \in DOMAIN rs /\ (rs \o qs)[i] = rs[i]
             \/ \E j \in DOMAIN qs : (rs \o qs)[i] = qs[j]
  <2>1. CASE i <= Len(rs)
    BY <2>1
  <2>2. CASE i > Len(rs)
    <3>1. i - Len(rs) \in DOMAIN qs /\ (rs \o qs)[i] = qs[i - Len(rs)]
      BY <2>2
    <3> QED BY <3>1
  <2> QED BY <2>1, <2>2
<1> QED BY <1>1, Zenon DEF SoundResults

LEMMA SoundTail ==
  ASSUME NEW g, NEW rs \in Seq(Result), rs # <<>>, SoundResults(g, rs)
  PROVE  SoundResults(g, Tail(rs)) /\ Sound(g, rs[1].ep)
<1>1. \A i \in DOMAIN Tail(rs) : i + 1 \in DOMAIN rs /\ Tail(rs)[i] = rs[i + 1]
  OBVIOUS
<1>2. 1 \in DOMAIN rs
  OBVIOUS
<1> QED BY <1>1, <1>2, Zenon DEF SoundResults

\* None, and one.
LEMMA SoundFew ==
  ASSUME NEW g
  PROVE  /\ SoundResults(g, <<>>)
         /\ \A r : Sound(g, r.ep) => SoundResults(g, <<r>>)
<1>1. SoundResults(g, <<>>)
  BY DEF SoundResults
<1>2. ASSUME NEW r, Sound(g, r.ep) PROVE SoundResults(g, <<r>>)
  <2>1. \A i \in DOMAIN <<r>> : <<r>>[i] = r
    OBVIOUS
  <2> QED BY <1>2, <2>1, Zenon DEF SoundResults
<1> QED BY <1>1, <1>2

LEMMA SoundPush ==
  ASSUME NEW g, NEW fs \in Seq(Frame), SoundFrames(g, fs),
         NEW f, SoundFrame(g, f)
  PROVE  SoundFrames(g, Append(fs, f))
<1>1. \A i \in DOMAIN Append(fs, f) :
        Append(fs, f)[i] = f \/ (i \in DOMAIN fs /\ Append(fs, f)[i] = fs[i])
  OBVIOUS
<1> QED BY <1>1, Zenon DEF SoundFrames

LEMMA SoundPop ==
  ASSUME NEW g, NEW fs \in Seq(Frame), fs # <<>>, SoundFrames(g, fs)
  PROVE  SoundFrames(g, Front(fs)) /\ SoundFrame(g, Last(fs))
<1>1. \A i \in DOMAIN Front(fs) : i \in DOMAIN fs /\ Front(fs)[i] = fs[i]
  BY DEF Front
<1>2. Len(fs) \in DOMAIN fs /\ Last(fs) = fs[Len(fs)]
  BY DEF Last
<1> QED BY <1>1, <1>2, Zenon DEF SoundFrames

-----------------------------------------------------------------------------
(* The ways a step ends.                                                   *)

GraphStep == Grows(graph, graph') /\ SoundGraph(graph')

LEMMA KeptGraph ==
  ASSUME TypeOK, FlowInv, UNCHANGED graph
  PROVE  GraphStep
BY DEF TypeOK, FlowInv, GraphStep, Grows

LEMMA ExtendedGraph ==
  ASSUME TypeOK, TypeOK', FlowInv, NEW n \in Nat, Extends(graph, graph', n)
  PROVE  GraphStep
BY ExtendsSound DEF TypeOK, FlowInv, GraphStep

LEMMA EmittedGraph ==
  ASSUME TypeOK, TypeOK', FlowInv,
         NEW b, NEW agree \in BOOLEAN,
         graph' = EmitTyped(graph, b, agree) \/ graph' = Emit(graph, b)
  PROVE  GraphStep
<1>1. /\ Len(graph') = Len(graph)
      /\ \A c \in DOMAIN graph :
           /\ graph'[c].role = graph[c].role
           /\ graph'[c].targets = graph[c].targets
           /\ graph'[c].inserted = graph[c].inserted
  <2>1. graph \in Seq(Block)
    BY DEF TypeOK
  <2>2. CASE graph' = EmitTyped(graph, b, agree)
    BY <2>1, <2>2, EmitTypedFlow
  <2>3. CASE graph' = Emit(graph, b)
    BY <2>1, <2>3, EmitFlow
  <2> QED BY <2>2, <2>3
<1>2. DOMAIN graph = 1..Len(graph) /\ DOMAIN graph' = 1..Len(graph')
      /\ Len(graph) \in Nat
  BY DEF TypeOK
<1>3. Extends(graph, graph', 0)
  BY <1>1, <1>2 DEF Extends
<1> QED BY <1>3, ExtendedGraph

\* What is sound before the step is sound after it.
LEMMA StillSound ==
  ASSUME TypeOK, TypeOK', GraphStep
  PROVE  /\ \A e : Sound(graph, e) => Sound(graph', e)
         /\ \A rs : SoundResults(graph, rs) => SoundResults(graph', rs)
         /\ \A f : SoundFrame(graph, f) => SoundFrame(graph', f)
         /\ \A fs : SoundFrames(graph, fs) => SoundFrames(graph', fs)
BY GrowsSound, Zenon DEF GraphStep, TypeOK

LEMMA FlowThrow ==
  ASSUME FlowInv, NEW what, Throw(what)
  PROVE  FlowInv'
BY DEF FlowInv, Throw

LEMMA FlowBuild ==
  ASSUME GraphStep, NEW n, NEW e, NEW vs, Build(n, e, vs),
         Sound(graph', e), SoundFrames(graph', frames')
  PROVE  FlowInv'
<1>1. ep' = e /\ results' = <<>>
  BY DEF Build
<1> QED BY <1>1, SoundFew, Zenon DEF FlowInv, GraphStep

LEMMA FlowReturn ==
  ASSUME TypeOK, TypeOK', FlowInv, GraphStep, NEW rs, Return(rs),
         SoundResults(graph', rs), SoundFrames(graph', frames')
  PROVE  FlowInv'
<1>1. ep' = ep /\ results' = rs
  BY DEF Return
<1>2. Sound(graph', ep)
  BY StillSound, Zenon DEF FlowInv
<1> QED BY <1>1, <1>2, Zenon DEF FlowInv, GraphStep

LEMMA FlowBuildEach ==
  ASSUME TypeOK, TypeOK', FlowInv, GraphStep,
         NEW below \in Seq(Frame), NEW n, NEW e, NEW prefix,
         NEW todo \in Seq(Result), NEW done,
         BuildEach(below, n, e, prefix, todo, done),
         SoundFrames(graph', below), Sound(graph', e),
         SoundResults(graph', todo), SoundResults(graph', done)
  PROVE  FlowInv'
<1>1. CASE todo = <<>>
  <2>1. Return(done) /\ frames' = below
    BY <1>1 DEF BuildEach
  <2> QED BY <2>1, FlowReturn
<1>2. CASE todo # <<>>
  <2> DEFINE f == [kind |-> "each", node |-> n, ep |-> e, prefix |-> prefix,
                   todo |-> Tail(todo), done |-> done]
  <2>1. Build(n, todo[1].ep, todo[1].values) /\ frames' = Append(below, f)
    BY <1>2 DEF BuildEach
  <2>2. SoundResults(graph', Tail(todo)) /\ Sound(graph', todo[1].ep)
    BY <1>2, SoundTail
  <2>3. SoundFrame(graph', f)
    BY <2>2 DEF SoundFrame
  <2> HIDE DEF f
  <2>4. SoundFrames(graph', frames')
    BY <2>1, <2>3, SoundPush
  <2> QED BY <2>1, <2>2, <2>4, FlowBuild
<1> QED BY <1>1, <1>2

\* The frame the results go to, and those below.
LEMMA ReturningSound ==
  ASSUME TypeOK, FlowInv, NEW kind, Returning(kind)
  PROVE  /\ Last(frames) \in Frame /\ Last(frames).kind = kind
         /\ Front(frames) \in Seq(Frame)
         /\ SoundFrame(graph, Last(frames)) /\ SoundFrames(graph, Front(frames))
         /\ Sound(graph, Last(frames).ep)
<1>1. frames \in Seq(Frame) /\ frames # <<>> /\ SoundFrames(graph, frames)
  BY DEF TypeOK, FlowInv, Returning
<1> QED BY <1>1, SoundPop, ReturningType DEF SoundFrame

\* A step that goes on in the same frames.
LEMMA FlowBuildHere ==
  ASSUME TypeOK, TypeOK', FlowInv, GraphStep, NEW n, NEW e, NEW vs,
         Build(n, e, vs), UNCHANGED frames, Sound(graph, e)
  PROVE  FlowInv'
<1>1. Sound(graph', e) /\ SoundFrames(graph', frames)
  BY StillSound, Zenon DEF FlowInv
<1> QED BY <1>1, FlowBuild

\* A step that enters a nested build.
LEMMA FlowBuildNested ==
  ASSUME TypeOK, TypeOK', FlowInv, GraphStep, NEW n, NEW e, NEW vs, NEW f,
         Build(n, e, vs), Push(f), Sound(graph', e), SoundFrame(graph', f)
  PROVE  FlowInv'
<1>1. SoundFrames(graph', frames) /\ frames \in Seq(Frame)
  BY StillSound, Zenon DEF FlowInv, TypeOK
<1>2. frames' = Append(frames, f)
  BY DEF Push
<1>3. SoundFrames(graph', frames')
  BY <1>1, <1>2, SoundPush
<1> QED BY <1>3, FlowBuild

-----------------------------------------------------------------------------
(* The actions.                                                            *)

LEMMA LiteralFlow ==
  ASSUME TypeOK, TypeOK', FlowInv, Literal
  PROVE  FlowInv'
BY KeptGraph, FlowBuildHere DEF Literal, FlowInv

LEMMA MemberFlow ==
  ASSUME TypeOK, TypeOK', FlowInv, Member
  PROVE  FlowInv'
<1>1. Sound(graph, ep)
  BY DEF FlowInv
<1>2. ASSUME NEW vs, Build(node.consumer, ep, vs),
             graph' = Emit(graph, ep.block), UNCHANGED frames
      PROVE  FlowInv'
  <2>1. GraphStep
    BY <1>2, EmittedGraph
  <2> QED BY <1>1, <1>2, <2>1, FlowBuildHere
<1>3. ASSUME NEW vs, Build(node.consumer, ep, vs), UNCHANGED <<graph, frames>>
      PROVE  FlowInv'
  BY <1>1, <1>3, KeptGraph, FlowBuildHere
<1>4. ASSUME NEW g, Build(g.value, ep, values),
             Push([kind |-> "global", node |-> node.consumer, ep |-> ep]),
             UNCHANGED graph
      PROVE  FlowInv'
  <2> DEFINE f == [kind |-> "global", node |-> node.consumer, ep |-> ep]
  <2>1. GraphStep
    BY <1>4, KeptGraph
  <2>2. Sound(graph', ep)
    BY <1>1, <2>1, StillSound
  <2>3. SoundFrame(graph', f)
    BY <2>2 DEF SoundFrame
  <2> HIDE DEF f
  <2> QED BY <1>4, <2>1, <2>2, <2>3, FlowBuildNested DEF f
<1>5. ASSUME Throw("UndeclaredIdentifierException") PROVE FlowInv'
  BY <1>5, FlowThrow
<1> QED BY <1>2, <1>3, <1>4, <1>5, Zenon DEF Member

LEMMA ReturnGlobalFlow ==
  ASSUME TypeOK, TypeOK', FlowInv, ReturnGlobal
  PROVE  FlowInv'
<1> DEFINE f == Last(frames)
<1>1. Returning("global") /\ UNCHANGED graph
        /\ BuildEach(Front(frames), f.node, f.ep, <<>>, results, <<>>)
  BY DEF ReturnGlobal
<1>2. GraphStep
  BY <1>1, KeptGraph
<1>3. /\ SoundFrames(graph, Front(frames)) /\ Sound(graph, f.ep)
      /\ Front(frames) \in Seq(Frame)
  BY <1>1, ReturningSound
<1> HIDE DEF f
<1>4. /\ SoundFrames(graph', Front(frames)) /\ Sound(graph', f.ep)
      /\ SoundResults(graph', results)
  BY <1>2, <1>3, StillSound, Zenon DEF FlowInv
<1>5. SoundResults(graph', <<>>) /\ results \in Seq(Result)
  BY SoundFew DEF TypeOK
<1> QED BY <1>1, <1>2, <1>3, <1>4, <1>5, FlowBuildEach

LEMMA LocalFlow ==
  ASSUME TypeOK, TypeOK', FlowInv, Local
  PROVE  FlowInv'
<1>1. CASE values = <<>>
  BY <1>1, FlowThrow DEF Local, Underflow
<1>2. CASE values # <<>>
  <2> DEFINE l == [ep.locals EXCEPT ![node.name] = Last(values)]
  <2>1. Build(node.consumer, WithLocals(ep, l), Front(values))
          /\ UNCHANGED <<frames, graph>>
    BY <1>2 DEF Local
  <2> HIDE DEF l
  <2>2. Sound(graph, WithLocals(ep, l))
    BY WithLocalsSound DEF FlowInv, TypeOK
  <2> QED BY <2>1, <2>2, KeptGraph, FlowBuildHere
<1> QED BY <1>1, <1>2

LEMMA BinaryFlow ==
  ASSUME TypeOK, TypeOK', FlowInv, Binary
  PROVE  FlowInv'
<1> DEFINE left == values[Len(values)]
           right == values[Len(values) - 1]
<1>1. ASSUME NEW vs, NEW agree \in BOOLEAN, Build(node.consumer, ep, vs),
             graph' = EmitTyped(graph, ep.block, agree), UNCHANGED frames
      PROVE  FlowInv'
  <2>1. GraphStep
    BY <1>1, EmittedGraph
  <2>2. Sound(graph, ep)
    BY DEF FlowInv
  <2> QED BY <1>1, <2>1, <2>2, FlowBuildHere
<1>2. ASSUME NEW what, Throw(what) PROVE FlowInv'
  BY <1>2, FlowThrow
<1>3. (left.type = right.type) \in BOOLEAN
  OBVIOUS
<1> QED BY <1>1, <1>2, <1>3, Zenon DEF Binary, Underflow

LEMMA StackFrameFlow ==
  ASSUME TypeOK, TypeOK', FlowInv, StackFrame
  PROVE  FlowInv'
BY KeptGraph, FlowBuildHere DEF StackFrame, FlowInv

LEMMA ReferenceSinkFlow ==
  ASSUME TypeOK, TypeOK', FlowInv, ReferenceSink
  PROVE  FlowInv'
<1>1. CASE values = <<>>
  BY <1>1, FlowThrow DEF ReferenceSink, Underflow
<1>2. CASE values # <<>>
  <2>1. /\ graph' = Emit(graph, ep.block) \/ UNCHANGED graph
        /\ UNCHANGED frames
        /\ \E vs : Build(node.consumer, ep, vs)
    BY <1>2, Zenon DEF ReferenceSink
  <2>2. GraphStep
    BY <2>1, EmittedGraph, KeptGraph
  <2> QED BY <2>1, <2>2, FlowBuildHere DEF FlowInv
<1> QED BY <1>1, <1>2

LEMMA ReturnStatementFlow ==
  ASSUME TypeOK, TypeOK', FlowInv, ReturnStatement
  PROVE  FlowInv'
<1>1. CASE values = <<>>
  BY <1>1, FlowThrow DEF ReturnStatement, Underflow
<1>2. CASE values # <<>>
  <2> DEFINE g == InsertBlock(graph, ep.block)
  <2>1. /\ graph' = g \/ graph' = Emit(g, ep.block)
        /\ Build(node.consumer, ep, values) /\ UNCHANGED frames
    BY <1>2, Zenon DEF ReturnStatement
  <2>2. g \in Seq(Block)
    BY InsertBlockType DEF TypeOK
  <2>3. /\ Len(g) = Len(graph)
        /\ \A c \in DOMAIN graph :
             /\ g[c].role = graph[c].role /\ g[c].targets = graph[c].targets
             /\ g[c].inserted => graph[c].inserted \/ c = ep.block
    BY InsertBlockFlow DEF TypeOK
  <2> HIDE DEF g
  <2>4. /\ Len(graph') = Len(g)
        /\ \A c \in DOMAIN g :
             /\ graph'[c].role = g[c].role /\ graph'[c].targets = g[c].targets
             /\ graph'[c].inserted = g[c].inserted
    <3>1. CASE graph' = g
      BY <3>1
    <3>2. CASE graph' = Emit(g, ep.block)
      BY <2>2, <3>2, EmitFlow
    <3> QED BY <2>1, <3>1, <3>2
  <2>5. /\ DOMAIN graph = 1..Len(graph) /\ DOMAIN g = 1..Len(g)
        /\ DOMAIN graph' = 1..Len(graph') /\ Len(graph) \in Nat
    BY <2>2 DEF TypeOK
  <2>6. Reached(graph, ep.block)
    BY DEF FlowInv, Sound
  <2>7. Extends(graph, graph', 0)
    BY <2>3, <2>4, <2>5, <2>6 DEF Extends
  <2>8. GraphStep
    BY <2>7, ExtendedGraph
  <2> QED BY <2>1, <2>8, FlowBuildHere DEF FlowInv
<1> QED BY <1>1, <1>2

LEMMA ProduceFlow ==
  ASSUME TypeOK, TypeOK', FlowInv, Produce
  PROVE  FlowInv'
BY LiteralFlow, MemberFlow, ReturnGlobalFlow, LocalFlow, BinaryFlow,
   StackFrameFlow, ReferenceSinkFlow, ReturnStatementFlow, Zenon DEF Produce

-----------------------------------------------------------------------------
\* A block that is reached is closed by a branch to a new one.
LEMMA LinkedToNew ==
  ASSUME NEW g \in Seq(Block), NEW b, Reached(g, b),
         NEW role \in Roles, NEW inserted \in BOOLEAN, NEW n, n = Len(g) + 1,
         NEW h, h = LinkBlocks(AddBlocks(InsertBlock(g, b), role, inserted, 1),
                               b, n)
  PROVE  /\ Extends(g, h, 1) /\ Reached(h, n) /\ h[n].role = role
         /\ h \in Seq(Block) /\ n \in Nat
<1> DEFINE k == InsertBlock(g, b)
           m == AddBlocks(k, role, inserted, 1)
<1> DEFINE l == LinkBlocks(m, b, n)
<1>1. /\ k \in Seq(Block) /\ m \in Seq(Block) /\ n \in Nat
      /\ h = l /\ h \in Seq(Block)
  <2>1. k \in Seq(Block) /\ n \in Nat /\ 1 \in Nat
    BY InsertBlockType
  <2> HIDE DEF k
  <2>2. m \in Seq(Block)
    BY <2>1, AddBlocksType, Zenon
  <2>3. h = l
    BY DEF k
  <2> HIDE DEF m
  <2>4. l \in Seq(Block)
    BY <2>1, <2>2, LinkBlocksType
  <2> QED BY <2>1, <2>2, <2>3, <2>4
<1>2. /\ Len(k) = Len(g)
      /\ \A c \in DOMAIN g :
           /\ k[c].role = g[c].role /\ k[c].targets = g[c].targets
           /\ k[c].inserted => g[c].inserted \/ c = b
  BY InsertBlockFlow
<1>3. /\ Len(m) = Len(k) + 1
      /\ \A c \in DOMAIN k : m[c] = k[c]
      /\ \A c \in DOMAIN m \ DOMAIN k :
           m[c].role = role /\ m[c].targets = {} /\ m[c].inserted = inserted
  BY <1>1, AddBlocksFlow
<1>4. /\ Len(h) = Len(m)
      /\ \A c \in DOMAIN m :
           /\ h[c].role = m[c].role
           /\ c = b => h[c].targets = m[c].targets \cup {n}
           /\ c # b => h[c].targets = m[c].targets
           /\ h[c].inserted = m[c].inserted
  <2> HIDE DEF m
  <2> QED BY <1>1, LinkBlocksFlow
<1> HIDE DEF k, m, l
<1>5. /\ DOMAIN g = 1..Len(g) /\ DOMAIN k = 1..Len(g) /\ DOMAIN m = 1..n
      /\ DOMAIN h = 1..n /\ Len(g) \in Nat /\ Len(h) = n
  BY <1>1, <1>2, <1>3, <1>4
<1>6. b \in DOMAIN g /\ n \in DOMAIN h \ DOMAIN g /\ n # b
      /\ DOMAIN h \ DOMAIN g = {n} /\ b \in 1..n-1
  BY <1>5 DEF Reached
<1>7. ASSUME NEW c \in DOMAIN g
      PROVE  /\ h[c].role = g[c].role
             /\ c = b => h[c].targets = g[c].targets \cup {n}
             /\ c # b => h[c].targets = g[c].targets
             /\ h[c].inserted => g[c].inserted \/ c = b
  <2>1. c \in DOMAIN k /\ c \in DOMAIN m
    BY <1>5
  <2>2. m[c] = k[c]
    BY <1>3, <2>1
  <2> QED BY <1>2, <1>4, <2>1, <2>2
<1>8. h[n].role = role /\ h[n].targets = {}
  BY <1>3, <1>4, <1>5, <1>6
<1>9. n \in h[b].targets
  BY <1>6, <1>7
<1>10. Reached(h, n)
  BY <1>6, <1>9 DEF Reached
<1>11. ASSUME NEW c \in DOMAIN g
       PROVE  /\ h[c].role = g[c].role
              /\ g[c].targets \subseteq h[c].targets
              /\ \A t \in h[c].targets \ g[c].targets : t \in DOMAIN h \ DOMAIN g
              /\ h[c].inserted => g[c].inserted \/ Reached(g, c)
  <2>1. CASE c = b
    BY <1>6, <1>7, <2>1
  <2>2. CASE c # b
    BY <1>7, <2>2
  <2> QED BY <2>1, <2>2
<1>12. Extends(g, h, 1)
  BY <1>5, <1>6, <1>8, <1>9, <1>11 DEF Extends
<1> QED BY <1>1, <1>8, <1>10, <1>12

\* Blocks that are reached are closed by branches to n new ones.
LEMMA LinkedEachToNew ==
  ASSUME NEW g \in Seq(Block), NEW I, NEW from, NEW to, NEW insert \in BOOLEAN,
         NEW role \in Roles, NEW inserted \in BOOLEAN, NEW n \in Nat,
         \A i \in I : Reached(g, from[i]) /\ to[i] \in Len(g)+1..Len(g)+n,
         inserted => \A c \in Len(g)+1..Len(g)+n : \E i \in I : to[i] = c,
         NEW h, h = AddBlocks(LinkEach(g, I, from, to, insert),
                              role, inserted, n)
  PROVE  Extends(g, h, n) /\ \A i \in I : Reached(h, to[i])
<1> DEFINE k == LinkEach(g, I, from, to, insert)
<1>1. Len(g) \in Nat /\ \A i \in I : to[i] \in Nat
  OBVIOUS
<1>2. k \in Seq(Block) /\ h \in Seq(Block)
  BY <1>1, LinkEachType, AddBlocksType
<1>3. /\ Len(k) = Len(g)
      /\ \A c \in DOMAIN g :
           /\ k[c].role = g[c].role
           /\ k[c].targets =
                g[c].targets \cup {to[i] : i \in {j \in I : from[j] = c}}
           /\ k[c].inserted => g[c].inserted \/ \E i \in I : from[i] = c
  BY LinkEachFlow
<1>4. /\ Len(h) = Len(k) + n
      /\ \A c \in DOMAIN k : h[c] = k[c]
      /\ \A c \in DOMAIN h \ DOMAIN k :
           h[c].role = role /\ h[c].targets = {} /\ h[c].inserted = inserted
  BY <1>2, AddBlocksFlow
<1> HIDE DEF k
<1>5. /\ DOMAIN g = 1..Len(g) /\ DOMAIN k = DOMAIN g
      /\ DOMAIN h = 1..Len(g)+n /\ Len(h) = Len(g) + n
      /\ DOMAIN h \ DOMAIN g = Len(g)+1..Len(g)+n
  BY <1>1, <1>2, <1>3, <1>4
<1>6. ASSUME NEW c \in DOMAIN g
      PROVE  /\ h[c].role = g[c].role
             /\ g[c].targets \subseteq h[c].targets
             /\ \A t \in h[c].targets \ g[c].targets : t \in DOMAIN h \ DOMAIN g
             /\ h[c].inserted => g[c].inserted \/ Reached(g, c)
  <2>1. h[c] = k[c]
    BY <1>4, <1>5
  <2>2. h[c].inserted => g[c].inserted \/ Reached(g, c)
    BY <1>3, <2>1, Zenon
  <2> QED BY <1>3, <1>5, <2>1, <2>2
<1>7. ASSUME NEW i \in I
      PROVE  /\ from[i] \in DOMAIN g /\ to[i] \in h[from[i]].targets
             /\ Reached(h, to[i])
  <2>1. from[i] \in DOMAIN g
    BY DEF Reached
  <2>2. h[from[i]] = k[from[i]]
    BY <1>4, <1>5, <2>1
  <2>3. to[i] \in h[from[i]].targets
    BY <1>3, <2>1, <2>2
  <2>4. from[i] \in 1..to[i]-1 /\ to[i] \in DOMAIN h
    BY <1>1, <1>5, <2>1
  <2> QED BY <2>1, <2>3, <2>4 DEF Reached
<1>8. ASSUME NEW c \in DOMAIN h \ DOMAIN g
      PROVE  /\ h[c].targets = {}
             /\ h[c].inserted => \E p \in DOMAIN g : c \in h[p].targets
  <2>1. h[c].targets = {} /\ h[c].inserted = inserted
    BY <1>4, <1>5
  <2>2. ASSUME inserted PROVE \E p \in DOMAIN g : c \in h[p].targets
    <3>1. PICK i \in I : to[i] = c
      BY <1>5, <2>2
    <3> QED BY <1>7, <3>1
  <2> QED BY <2>1, <2>2
<1>9. Extends(g, h, n)
  BY <1>5, <1>6, <1>8 DEF Extends
<1> QED BY <1>7, <1>9

LEMMA TerminatorFlow ==
  ASSUME TypeOK, TypeOK', FlowInv, Terminator
  PROVE  FlowInv'
<1> DEFINE r == [ep |-> ep, values |-> values]
<1>1. Return(<<r>>) /\ UNCHANGED <<frames, graph>>
  BY DEF Terminator
<1>2. r.ep = ep
  OBVIOUS
<1> HIDE DEF r
<1>3. GraphStep
  BY <1>1, KeptGraph
<1>4. Sound(graph', r.ep) /\ SoundFrames(graph', frames')
  BY <1>1, <1>2, <1>3, StillSound, Zenon DEF FlowInv
<1>5. SoundResults(graph', <<r>>)
  BY <1>4, SoundFew
<1> QED BY <1>1, <1>3, <1>4, <1>5, FlowReturn

LEMMA ExportTerminatorFlow ==
  ASSUME TypeOK, TypeOK', FlowInv, ExportTerminator
  PROVE  FlowInv'
<1> DEFINE b == Len(graph) + 1
           linked == LinkBlocks(AddBlocks(InsertBlock(graph, ep.block),
                                          "entry", TRUE, 1), ep.block, b)
           agree == Last(values).type = unit.returns
           r == [ep |-> WithBlock(ep, b), values |-> Front(values)]
<1>1. ASSUME NEW what, Throw(what) PROVE FlowInv'
  BY <1>1, FlowThrow
<1>2. ASSUME graph' = Terminate(linked, b, "ret", {}, agree),
             Return(<<r>>), UNCHANGED frames
      PROVE  FlowInv'
  <2>1. Reached(graph, ep.block) /\ Sound(graph, ep)
    BY DEF FlowInv, Sound
  <2>2. "entry" \in Roles /\ TRUE \in BOOLEAN /\ graph \in Seq(Block)
    BY DEF Roles, TypeOK
  <2>3. /\ Extends(graph, linked, 1) /\ Reached(linked, b)
        /\ linked \in Seq(Block) /\ b \in Nat
    <3> DEFINE yes == TRUE
    <3>1. b = Len(graph) + 1 /\ yes \in BOOLEAN
      OBVIOUS
    <3>2. linked = LinkBlocks(AddBlocks(InsertBlock(graph, ep.block),
                                        "entry", yes, 1), ep.block, b)
      OBVIOUS
    <3> HIDE DEF b, linked, yes
    <3> QED BY <2>1, <2>2, <3>1, <3>2, LinkedToNew
  <2> HIDE DEF linked
  <2>4. agree \in BOOLEAN
    OBVIOUS
  <2> HIDE DEF agree
  <2>5. /\ Len(graph') = Len(linked)
        /\ \A c \in DOMAIN linked :
             /\ graph'[c].role = linked[c].role
             /\ c = b => graph'[c].targets = linked[c].targets \cup {}
             /\ c # b => graph'[c].targets = linked[c].targets
             /\ graph'[c].inserted = linked[c].inserted
    <3> DEFINE none == {}
    <3>1. graph' = Terminate(linked, b, "ret", none, agree)
      BY <1>2
    <3> HIDE DEF b, none
    <3>2. /\ Len(graph') = Len(linked)
          /\ \A c \in DOMAIN linked :
               /\ graph'[c].role = linked[c].role
               /\ c = b => graph'[c].targets = linked[c].targets \cup none
               /\ c # b => graph'[c].targets = linked[c].targets
               /\ graph'[c].inserted = linked[c].inserted
      BY <2>3, <2>4, <3>1, TerminateFlow
    <3> QED BY <3>2, Zenon DEF none
  <2>6. \A c \in DOMAIN linked : graph'[c].targets = linked[c].targets
    BY <2>5
  <2>7. DOMAIN graph = 1..Len(graph) /\ DOMAIN linked = 1..Len(linked)
        /\ DOMAIN graph' = 1..Len(graph') /\ Len(graph) \in Nat
        /\ Len(linked) = Len(graph) + 1
    BY <2>3 DEF TypeOK, Extends
  <2> HIDE DEF b
  <2>8. Extends(graph, graph', 1)
    BY <2>3, <2>5, <2>6, <2>7 DEF Extends
  <2>9. GraphStep
    BY <2>8, ExtendedGraph
  <2>10. Reached(graph', b)
    <3>1. Grows(linked, graph')
      BY <2>5, <2>6, <2>7 DEF Grows
    <3> QED BY <2>3, <3>1, GrowsReached DEF TypeOK
  <2>11. Sound(graph', WithBlock(ep, b))
    BY <2>1, <2>9, <2>10, StillSound, WithBlockSound DEF TypeOK
  <2>12. r.ep = WithBlock(ep, b)
    OBVIOUS
  <2> HIDE DEF r
  <2>13. SoundResults(graph', <<r>>)
    BY <2>11, <2>12, SoundFew
  <2>14. SoundFrames(graph', frames')
    BY <1>2, <2>9, StillSound, Zenon DEF FlowInv
  <2> QED BY <1>2, <2>9, <2>13, <2>14, FlowReturn
<1> QED BY <1>1, <1>2, Zenon DEF ExportTerminator, Underflow

LEMMA LeaveFlow ==
  ASSUME TypeOK, TypeOK', FlowInv, Leave
  PROVE  FlowInv'
BY TerminatorFlow, ExportTerminatorFlow DEF Leave

-----------------------------------------------------------------------------
\* The two branches of a conditional: new blocks, and both are reached.
LEMMA BranchBlocks ==
  ASSUME TypeOK, TypeOK', FlowInv,
         NEW true, true = Len(graph) + 1, NEW false, false = Len(graph) + 2,
         NEW agree \in BOOLEAN,
         graph' = Terminate(
                    AddBlocks(AddBlocks(InsertBlock(graph, ep.block),
                                        "true", FALSE, 1), "false", FALSE, 1),
                    ep.block, "cond", {true, false}, agree)
  PROVE  /\ Extends(graph, graph', 2)
         /\ Reached(graph', true) /\ Reached(graph', false)
<1> DEFINE g == graph
           b == ep.block
           no == FALSE
           one == AddBlocks(InsertBlock(g, b), "true", no, 1)
           both == {true, false}
           two == AddBlocks(one, "false", no, 1)
<1>1. /\ g \in Seq(Block) /\ no \in BOOLEAN /\ 1 \in Nat
      /\ "true" \in Roles /\ "false" \in Roles /\ Len(g) \in Nat
      /\ Reached(g, b) /\ graph' \in Seq(Block)
  BY DEF TypeOK, Roles, FlowInv, Sound
<1>2. graph' = Terminate(two, b, "cond", both, agree)
  OBVIOUS
<1> HIDE DEF g, b, no, both
<1>3. InsertBlock(g, b) \in Seq(Block)
  BY <1>1, InsertBlockType
<1>4. /\ Len(InsertBlock(g, b)) = Len(g)
      /\ \A c \in DOMAIN g :
           /\ InsertBlock(g, b)[c].role = g[c].role
           /\ InsertBlock(g, b)[c].targets = g[c].targets
           /\ InsertBlock(g, b)[c].inserted => g[c].inserted \/ c = b
  BY <1>1, InsertBlockFlow
<1>5. one \in Seq(Block)
  BY <1>1, <1>3, AddBlocksType
<1>6. /\ Len(one) = Len(g) + 1
      /\ \A c \in DOMAIN InsertBlock(g, b) : one[c] = InsertBlock(g, b)[c]
      /\ \A c \in DOMAIN one \ DOMAIN InsertBlock(g, b) :
           one[c].targets = {} /\ one[c].inserted = no
  BY <1>1, <1>3, <1>4, AddBlocksFlow
<1> HIDE DEF one
<1>7. two \in Seq(Block)
  BY <1>1, <1>5, AddBlocksType
<1>8. /\ Len(two) = Len(g) + 2
      /\ \A c \in DOMAIN one : two[c] = one[c]
      /\ \A c \in DOMAIN two \ DOMAIN one :
           two[c].targets = {} /\ two[c].inserted = no
  BY <1>1, <1>5, <1>6, AddBlocksFlow
<1> HIDE DEF two
<1>9. /\ Len(graph') = Len(two)
      /\ \A c \in DOMAIN two :
           /\ graph'[c].role = two[c].role
           /\ c = b => graph'[c].targets = two[c].targets \cup both
           /\ c # b => graph'[c].targets = two[c].targets
           /\ graph'[c].inserted = two[c].inserted
  BY <1>2, <1>7, TerminateFlow
<1>10. /\ DOMAIN g = 1..Len(g) /\ DOMAIN InsertBlock(g, b) = DOMAIN g
       /\ DOMAIN one = 1..true /\ DOMAIN two = 1..false
       /\ DOMAIN graph' = 1..false /\ Len(graph') = Len(g) + 2
       /\ DOMAIN graph' \ DOMAIN g = both
  BY <1>1, <1>3, <1>4, <1>5, <1>6, <1>7, <1>8, <1>9 DEF g, both
<1>11. b \in DOMAIN g /\ b \in 1..true-1 /\ b \in 1..false-1
  BY <1>1, <1>10 DEF Reached, g
<1>12. ASSUME NEW c \in DOMAIN g
       PROVE  /\ graph'[c].role = g[c].role
              /\ c = b => graph'[c].targets = g[c].targets \cup both
              /\ c # b => graph'[c].targets = g[c].targets
              /\ graph'[c].inserted => g[c].inserted \/ c = b
  <2>1. c \in DOMAIN one /\ c \in DOMAIN two
    BY <1>1, <1>10 DEF g
  <2>2. two[c] = InsertBlock(g, b)[c]
    BY <1>6, <1>8, <1>10, <2>1
  <2> QED BY <1>4, <1>9, <2>1, <2>2
<1>13. ASSUME NEW c \in DOMAIN graph' \ DOMAIN g
       PROVE  graph'[c].targets = {} /\ ~ graph'[c].inserted
  <2>1. c \in DOMAIN two /\ c # b
    BY <1>10, <1>11
  <2>2. two[c].targets = {} /\ two[c].inserted = no
    <3>1. CASE c \in DOMAIN one
      BY <1>6, <1>8, <1>10, <3>1
    <3>2. CASE c \notin DOMAIN one
      BY <1>8, <2>1, <3>2
    <3> QED BY <3>1, <3>2
  <2> QED BY <1>9, <2>1, <2>2 DEF no
<1>14. ASSUME NEW c \in DOMAIN g
       PROVE  /\ graph'[c].role = g[c].role
              /\ g[c].targets \subseteq graph'[c].targets
              /\ \A t \in graph'[c].targets \ g[c].targets :
                   t \in DOMAIN graph' \ DOMAIN g
              /\ graph'[c].inserted => g[c].inserted \/ Reached(g, c)
  <2>1. CASE c = b
    BY <1>1, <1>10, <1>12, <2>1
  <2>2. CASE c # b
    BY <1>12, <2>2
  <2> QED BY <2>1, <2>2
<1>15. Extends(g, graph', 2)
  BY <1>10, <1>13, <1>14 DEF Extends
<1>16. both \subseteq graph'[b].targets
  BY <1>11, <1>12
<1>17. Reached(graph', true) /\ Reached(graph', false)
  BY <1>10, <1>11, <1>16 DEF Reached, both
<1> QED BY <1>15, <1>17 DEF g

LEMMA ConditionalFlow ==
  ASSUME TypeOK, TypeOK', FlowInv, Conditional
  PROVE  FlowInv'
<1> DEFINE true == Len(graph) + 1
           false == Len(graph) + 2
           created == AddBlocks(AddBlocks(InsertBlock(graph, ep.block),
                                          "true", FALSE, 1), "false", FALSE, 1)
           agree == Last(values).type = "bool"
           e == WithBlock(WithName(ep, <<"ifTrue">>), true)
           f == [kind |-> "ifTrue", node |-> node.ifFalse, ep |-> ep,
                 block |-> false, values |-> Front(values)]
<1>1. ASSUME NEW what, Throw(what) PROVE FlowInv'
  BY <1>1, FlowThrow
<1>2. ASSUME graph' = Terminate(created, ep.block, "cond", {true, false}, agree),
             Build(node.ifTrue, e, Front(values)), Push(f)
      PROVE  FlowInv'
  <2>1. agree \in BOOLEAN
    OBVIOUS
  <2> HIDE DEF agree
  <2>2. /\ Extends(graph, graph', 2)
        /\ Reached(graph', true) /\ Reached(graph', false)
    BY <1>2, <2>1, BranchBlocks
  <2> HIDE DEF true, false, created
  <2>3. GraphStep
    BY <2>2, ExtendedGraph
  <2>4. Sound(graph', ep) /\ ep \in EP
    BY <2>3, StillSound DEF FlowInv, TypeOK
  <2>5. WithName(ep, <<"ifTrue">>) \in EP
          /\ Sound(graph', WithName(ep, <<"ifTrue">>))
    BY <2>4, WithNameType, WithNameSound, NameAssumption
  <2>6. Sound(graph', e)
    BY <2>2, <2>5, WithBlockSound
  <2>7. SoundFrame(graph', f)
    BY <2>2, <2>4 DEF SoundFrame
  <2> HIDE DEF e, f
  <2> QED BY <1>2, <2>3, <2>6, <2>7, FlowBuildNested
<1> QED BY <1>1, <1>2, Zenon DEF Conditional, Underflow

LEMMA ReturnIfTrueFlow ==
  ASSUME TypeOK, TypeOK', FlowInv, ReturnIfTrue
  PROVE  FlowInv'
<1> DEFINE f == Last(frames)
           e == WithBlock(WithName(f.ep, <<"ifFalse">>), f.block)
           h == [kind |-> "ifFalse", ep |-> f.ep, values |-> f.values,
                 done |-> results]
<1>1. Returning("ifTrue") /\ Build(f.node, e, f.values)
        /\ frames' = Append(Front(frames), h) /\ UNCHANGED graph
  BY DEF ReturnIfTrue
<1>2. /\ f \in Frame /\ f.kind = "ifTrue" /\ Front(frames) \in Seq(Frame)
      /\ SoundFrame(graph, f) /\ SoundFrames(graph, Front(frames))
  BY <1>1, ReturningSound
<1> HIDE DEF f
<1>3. GraphStep
  BY <1>1, KeptGraph
<1>4. /\ SoundFrame(graph', f) /\ SoundFrames(graph', Front(frames))
      /\ SoundResults(graph', results)
  BY <1>2, <1>3, StillSound, Zenon DEF FlowInv
<1>5. f.ep \in EP /\ Sound(graph', f.ep) /\ Reached(graph', f.block)
  BY <1>2, <1>4, FrameType DEF SoundFrame
<1>6. WithName(f.ep, <<"ifFalse">>) \in EP
        /\ Sound(graph', WithName(f.ep, <<"ifFalse">>))
  BY <1>5, WithNameType, WithNameSound, NameAssumption
<1>7. Sound(graph', e)
  BY <1>5, <1>6, WithBlockSound
<1>8. SoundFrame(graph', h)
  BY <1>4, <1>5 DEF SoundFrame
<1> HIDE DEF e, h
<1>9. SoundFrames(graph', frames')
  BY <1>1, <1>2, <1>4, <1>8, SoundPush
<1> QED BY <1>1, <1>3, <1>7, <1>9, FlowBuild

\* Enumerations by a rank that is a number meet everything exactly once.
LEMMA EnumeratedOnce ==
  ASSUME NEW S, IsFiniteSet(S), NEW rank, \A s \in S : rank[s] \in Nat,
         NEW o \in Enumerations(S, rank)
  PROVE  \A i, j \in 1..Len(o) : o[i] = o[j] => i = j
<1>1. Cardinality(S) \in Nat
  BY FS_CardinalityType
<1>2. o \in [1..Cardinality(S) -> S]
        /\ \A i, j \in 1..Cardinality(S) : i < j => rank[o[i]] < rank[o[j]]
  BY DEF Enumerations
<1>3. Len(o) = Cardinality(S)
  BY <1>1, <1>2
<1>4. ASSUME NEW i \in 1..Len(o), NEW j \in 1..Len(o), o[i] = o[j]
      PROVE  i = j
  <2>1. rank[o[i]] \in Nat
    BY <1>2, <1>3
  <2>2. ~ (i < j) /\ ~ (j < i)
    BY <1>2, <1>3, <1>4, <2>1
  <2> QED BY <1>1, <1>3, <2>2
<1> QED BY <1>4

LEMMA ReturnIfFalseFlow ==
  ASSUME TypeOK, TypeOK', FlowInv, ReturnIfFalse
  PROVE  FlowInv'
<1> DEFINE f == Last(frames)
           rs == f.done \o results
           I == Singles(rs)
           merge(o, i) == Len(graph) +
                            (CHOOSE j \in DOMAIN o : o[j] = TypeOf(rs[i]))
           to(o) == [i \in I |-> merge(o, i)]
           from == [i \in I |-> rs[i].ep.block]
           out(o, j) == [ep |-> WithBlock(f.ep, Len(graph) + j),
                         values |-> Append(f.values, Scalar(o[j]))]
           outs(o) == [j \in 1..Len(o) |-> out(o, j)]
<1>1. Returning("ifFalse") /\ frames' = Front(frames)
  BY DEF ReturnIfFalse
<1>2. /\ f \in Frame /\ f.kind = "ifFalse" /\ Front(frames) \in Seq(Frame)
      /\ SoundFrame(graph, f) /\ SoundFrames(graph, Front(frames))
  BY <1>1, ReturningSound
<1>3. f.ep \in EP /\ f.done \in Seq(Result)
  BY <1>2, FrameType
<1> HIDE DEF f
<1>4. rs \in Seq(Result) /\ results \in Seq(Result) /\ graph \in Seq(Block)
      /\ Len(graph) \in Nat
  BY <1>3 DEF TypeOK
<1>5. SoundResults(graph, rs) /\ Sound(graph, f.ep)
  BY <1>2, <1>3, <1>4, SoundConcat DEF FlowInv, SoundFrame
<1> HIDE DEF rs
<1>6. ASSUME Return(rs), UNCHANGED graph PROVE FlowInv'
  <2>1. GraphStep
    BY <1>6, KeptGraph
  <2>2. SoundResults(graph', rs) /\ SoundFrames(graph', frames')
    BY <1>1, <1>2, <1>5, <2>1, StillSound
  <2> QED BY <1>6, <2>1, <2>2, FlowReturn
<1>7. ASSUME NEW o \in Enumerations(TypesOf(rs), address),
             graph' = AddBlocks(LinkEach(graph, I, from, to(o), FALSE),
                                "merge", TRUE, Len(o)),
             Return(outs(o))
      PROVE  FlowInv'
  <2>1. /\ IsFiniteSet(TypesOf(rs)) /\ TypesOf(rs) \subseteq Type
        /\ I \subseteq DOMAIN rs
        /\ \A i \in I : TypeOf(rs[i]) \in TypesOf(rs)
    BY <1>4, SinglesType
  <2>2. /\ o \in Seq(TypesOf(rs))
        /\ \A t \in TypesOf(rs) : \E j \in 1..Len(o) : o[j] = t
    BY <2>1, EnumerationType
  <2>3. \A i, j \in 1..Len(o) : o[i] = o[j] => i = j
    <3>1. \A t \in TypesOf(rs) : address[t] \in Nat
      BY <2>1 DEF TypeOK
    <3> QED BY <2>1, <3>1, EnumeratedOnce
  <2>4. Len(o) \in Nat /\ DOMAIN o = 1..Len(o)
    BY <2>2
  <2>5. ASSUME NEW i \in I, NEW j \in 1..Len(o), o[j] = TypeOf(rs[i])
        PROVE  to(o)[i] = Len(graph) + j
    <3>1. (CHOOSE k \in DOMAIN o : o[k] = TypeOf(rs[i])) = j
      BY <2>3, <2>4, <2>5
    <3> QED BY <3>1
  <2>6. ASSUME NEW i \in I
        PROVE  /\ Reached(graph, from[i])
               /\ to(o)[i] \in Len(graph)+1..Len(graph)+Len(o)
    <3>1. Reached(graph, from[i])
      BY <1>5, <2>1 DEF SoundResults, Sound
    <3>2. PICK j \in 1..Len(o) : o[j] = TypeOf(rs[i])
      BY <2>1, <2>2
    <3>3. to(o)[i] = Len(graph) + j
      BY <2>5, <3>2
    <3> QED BY <1>4, <2>4, <3>1, <3>3
  <2>7. ASSUME NEW j \in 1..Len(o) PROVE \E i \in I : to(o)[i] = Len(graph) + j
    <3>1. o[j] \in TypesOf(rs)
      BY <2>2
    <3>2. PICK i \in I : o[j] = TypeOf(rs[i])
      BY <3>1 DEF TypesOf
    <3> QED BY <2>5, <3>2
  <2> DEFINE yes == TRUE
             no == FALSE
             T == to(o)
  <2>8. graph' = AddBlocks(LinkEach(graph, I, from, T, no), "merge", yes, Len(o))
    BY <1>7
  <2> HIDE DEF to, from, merge, yes, no, T, I
  <2>9. \A c \in Len(graph)+1..Len(graph)+Len(o) : \E i \in I : T[i] = c
    <3> SUFFICES ASSUME NEW c \in Len(graph)+1..Len(graph)+Len(o)
                 PROVE  \E i \in I : T[i] = c
      OBVIOUS
    <3>1. c - Len(graph) \in 1..Len(o) /\ Len(graph) + (c - Len(graph)) = c
      BY <1>4, <2>4
    <3> QED BY <2>7, <3>1 DEF T
  <2>10. yes \in BOOLEAN /\ no \in BOOLEAN /\ "merge" \in Roles
    BY DEF yes, no, Roles
  <2>11. \A i \in I : /\ Reached(graph, from[i])
                      /\ T[i] \in Len(graph)+1..Len(graph)+Len(o)
    BY <2>6 DEF T
  <2>12. Extends(graph, graph', Len(o)) /\ \A i \in I : Reached(graph', T[i])
    BY <1>4, <2>4, <2>8, <2>9, <2>10, <2>11, LinkedEachToNew
  <2>13. GraphStep
    BY <2>4, <2>12, ExtendedGraph
  <2>14. ASSUME NEW j \in 1..Len(o) PROVE Sound(graph', outs(o)[j].ep)
    <3>1. Reached(graph', Len(graph) + j)
      BY <2>7, <2>12 DEF T
    <3>2. Sound(graph', f.ep)
      BY <1>5, <2>13, StillSound
    <3>3. Sound(graph', WithBlock(f.ep, Len(graph) + j))
      BY <1>3, <3>1, <3>2, WithBlockSound
    <3>4. outs(o)[j].ep = WithBlock(f.ep, Len(graph) + j)
      OBVIOUS
    <3> QED BY <3>3, <3>4
  <2>15. SoundResults(graph', outs(o))
    <3>1. DOMAIN outs(o) = 1..Len(o)
      OBVIOUS
    <3> HIDE DEF outs
    <3> QED BY <2>14, <3>1 DEF SoundResults
  <2>16. SoundFrames(graph', frames')
    BY <1>1, <1>2, <2>13, StillSound
  <2> HIDE DEF outs
  <2> QED BY <1>7, <2>13, <2>15, <2>16, FlowReturn
<1> QED BY <1>6, <1>7, Zenon
        DEF ReturnIfFalse, rs, f, to, from, I, merge, outs, out

LEMMA BranchFlow ==
  ASSUME TypeOK, TypeOK', FlowInv, Branch
  PROVE  FlowInv'
BY ConditionalFlow, ReturnIfTrueFlow, ReturnIfFalseFlow DEF Branch

-----------------------------------------------------------------------------
LEMMA ProxyTailPathFlow ==
  ASSUME TypeOK, TypeOK', FlowInv, ProxyTailPath
  PROVE  FlowInv'
BY KeptGraph, FlowBuildHere DEF ProxyTailPath, FlowInv

LEMMA ProxyRegularCallFlow ==
  ASSUME TypeOK, TypeOK', FlowInv, ProxyRegularCall
  PROVE  FlowInv'
<1> DEFINE f == [kind |-> "junction", node |-> node.consumer, ep |-> ep,
                 values |-> values]
<1>1. Push(f) /\ Build(node.segment, ep, <<>>) /\ UNCHANGED graph
  BY DEF ProxyRegularCall
<1>2. GraphStep
  BY <1>1, KeptGraph
<1>3. Sound(graph', ep)
  BY <1>2, StillSound DEF FlowInv
<1>4. SoundFrame(graph', f)
  BY <1>3 DEF SoundFrame
<1> HIDE DEF f
<1> QED BY <1>1, <1>2, <1>3, <1>4, FlowBuildNested

LEMMA SegmentFlow ==
  ASSUME TypeOK, TypeOK', FlowInv, Segment
  PROVE  FlowInv'
<1> DEFINE start == [ep |-> ep, values |-> <<>>]
           f == [kind |-> "argument", node |-> node, ep |-> ep,
                 values |-> values, index |-> 1, todo |-> <<start>>,
                 done |-> <<>>]
<1>1. UNCHANGED graph
  BY DEF Segment
<1>2. GraphStep
  BY <1>1, KeptGraph
<1>3. /\ Sound(graph', ep) /\ SoundFrames(graph', frames)
      /\ SoundResults(graph', <<>>)
  BY <1>2, StillSound, SoundFew, Zenon DEF FlowInv
<1>4. start \in Result /\ start.ep = ep
  BY DEF TypeOK, Result
<1>5. CASE node.arguments = <<>>
  <2>1. BuildEach(frames, node.call, ep, values, <<start>>, <<>>)
    BY <1>5 DEF Segment
  <2> HIDE DEF start
  <2>2. SoundResults(graph', <<start>>) /\ <<start>> \in Seq(Result)
    BY <1>3, <1>4, SoundFew
  <2> QED BY <1>2, <1>3, <2>1, <2>2, FlowBuildEach DEF TypeOK
<1>6. CASE node.arguments # <<>>
  <2>1. Build(node.arguments[1], ep, <<>>) /\ Push(f)
    BY <1>6 DEF Segment
  <2> HIDE DEF start
  <2>2. SoundResults(graph', <<start>>)
    BY <1>3, <1>4, SoundFew
  <2>3. SoundFrame(graph', f)
    BY <1>3, <2>2 DEF SoundFrame
  <2> HIDE DEF f
  <2> QED BY <1>2, <1>3, <2>1, <2>3, FlowBuildNested
<1> QED BY <1>5, <1>6

LEMMA ReturnEachFlow ==
  ASSUME TypeOK, TypeOK', FlowInv, ReturnEach
  PROVE  FlowInv'
<1> DEFINE f == Last(frames)
           r(j) == [results[j] EXCEPT !.values = f.prefix \o @]
           rs == [j \in 1..Len(results) |-> r(j)]
<1>1. Returning("each") /\ UNCHANGED graph
        /\ BuildEach(Front(frames), f.node, f.ep, f.prefix, f.todo, f.done \o rs)
  BY DEF ReturnEach
<1>2. /\ f \in Frame /\ f.kind = "each" /\ Front(frames) \in Seq(Frame)
      /\ SoundFrame(graph, f) /\ SoundFrames(graph, Front(frames))
  BY <1>1, ReturningSound
<1> HIDE DEF f
<1>3. /\ f.todo \in Seq(Result) /\ f.done \in Seq(Result)
      /\ f.prefix \in Seq(Value)
  BY <1>2, FrameType
<1>4. GraphStep
  BY <1>1, KeptGraph
<1>5. /\ SoundFrame(graph', f) /\ SoundFrames(graph', Front(frames))
      /\ SoundResults(graph', results)
  BY <1>2, <1>4, StillSound, Zenon DEF FlowInv
<1>6. ASSUME NEW j \in 1..Len(results)
      PROVE  r(j) \in Result /\ r(j).ep = results[j].ep
  <2>1. results[j] \in Result
    BY DEF TypeOK
  <2>2. f.prefix \o results[j].values \in Seq(Value)
    BY <1>3, <2>1 DEF Result
  <2> QED BY <2>1, <2>2 DEF Result
<1> HIDE DEF r
<1>7. Len(results) \in Nat /\ DOMAIN results = 1..Len(results)
  BY DEF TypeOK
<1>8. rs \in Seq(Result) /\ SoundResults(graph', rs)
  BY <1>5, <1>6, <1>7 DEF SoundResults
<1> HIDE DEF rs
<1>9. SoundResults(graph', f.done \o rs)
  BY <1>2, <1>3, <1>5, <1>8, SoundConcat DEF SoundFrame
<1>10. Sound(graph', f.ep) /\ SoundResults(graph', f.todo)
  BY <1>2, <1>5 DEF SoundFrame
<1> QED BY <1>1, <1>2, <1>3, <1>4, <1>5, <1>9, <1>10, FlowBuildEach

LEMMA ReturnArgumentFlow ==
  ASSUME TypeOK, TypeOK', FlowInv, ReturnArgument
  PROVE  FlowInv'
<1> DEFINE f == Last(frames)
           r(j) == [ep |-> results[j].ep,
                    values |-> results[j].values \o f.todo[1].values]
           rs == [j \in 1..Len(results) |-> r(j)]
           done == f.done \o rs
           h(index, todo, rest) == [f EXCEPT !.index = index, !.todo = todo,
                                             !.done = rest]
           next(index, todo, rest) ==
             /\ Build(f.node.arguments[index], todo[1].ep, <<>>)
             /\ frames' = Append(Front(frames), h(index, todo, rest))
<1>1. Returning("argument") /\ UNCHANGED graph
  BY DEF ReturnArgument
<1>2. /\ f \in Frame /\ f.kind = "argument" /\ Front(frames) \in Seq(Frame)
      /\ SoundFrame(graph, f) /\ SoundFrames(graph, Front(frames))
      /\ f \in ArgumentFrame
  BY <1>1, ReturningSound, FrameType
<1>3. \/ Len(f.todo) > 1 /\ next(f.index, Tail(f.todo), done)
      \/ done # <<>> /\ next(f.index + 1, done, <<>>)
      \/ BuildEach(Front(frames), f.node.call, f.ep, f.values, done, <<>>)
  BY Zenon DEF ReturnArgument
<1> HIDE DEF f
<1>4. f.todo \in Seq(Result) /\ f.todo # <<>> /\ f.done \in Seq(Result)
  BY <1>2 DEF ArgumentFrame
<1>5. GraphStep
  BY <1>1, KeptGraph
<1>6. /\ SoundFrame(graph', f) /\ SoundFrames(graph', Front(frames))
      /\ SoundResults(graph', results) /\ SoundResults(graph', <<>>)
  BY <1>2, <1>5, StillSound, SoundFew, Zenon DEF FlowInv
<1>7. /\ Sound(graph', f.ep) /\ SoundResults(graph', f.todo)
      /\ SoundResults(graph', f.done)
  BY <1>2, <1>6 DEF SoundFrame
<1>8. ASSUME NEW j \in 1..Len(results)
      PROVE  r(j) \in Result /\ r(j).ep = results[j].ep
  <2>1. results[j] \in Result /\ f.todo[1] \in Result
    BY <1>4 DEF TypeOK
  <2>2. results[j].values \o f.todo[1].values \in Seq(Value)
    BY <2>1 DEF Result
  <2> QED BY <2>1, <2>2 DEF Result
<1> HIDE DEF r
<1>9. Len(results) \in Nat /\ DOMAIN results = 1..Len(results)
  BY DEF TypeOK
<1>10. rs \in Seq(Result) /\ SoundResults(graph', rs)
  BY <1>6, <1>8, <1>9 DEF SoundResults
<1> HIDE DEF rs
<1>11. done \in Seq(Result) /\ SoundResults(graph', done)
  BY <1>4, <1>7, <1>10, SoundConcat
<1> HIDE DEF done
<1>12. ASSUME NEW i, NEW todo \in Seq(Result), todo # <<>>, NEW rest,
              SoundResults(graph', todo), SoundResults(graph', rest),
              next(i, todo, rest)
       PROVE  FlowInv'
  <2>1. /\ h(i, todo, rest).ep = f.ep /\ h(i, todo, rest).kind = "argument"
        /\ h(i, todo, rest).todo = todo /\ h(i, todo, rest).done = rest
    BY <1>2 DEF ArgumentFrame
  <2> HIDE DEF h
  <2>2. SoundFrame(graph', h(i, todo, rest))
    BY <1>7, <1>12, <2>1 DEF SoundFrame
  <2>3. SoundFrames(graph', frames')
    BY <1>2, <1>6, <1>12, <2>2, SoundPush
  <2>4. Sound(graph', todo[1].ep)
    BY <1>12, SoundTail
  <2> QED BY <1>5, <1>12, <2>3, <2>4, FlowBuild
<1> HIDE DEF next
<1>13. CASE Len(f.todo) > 1 /\ next(f.index, Tail(f.todo), done)
  <2>1. Tail(f.todo) \in Seq(Result) /\ Tail(f.todo) # <<>>
    <3> DEFINE s == f.todo
    <3>1. s \in Seq(Result) /\ Len(s) > 1
      BY <1>4, <1>13
    <3> HIDE DEF s
    <3>2. Tail(s) \in Seq(Result) /\ Len(Tail(s)) = Len(s) - 1 /\ Len(s) \in Nat
      BY <3>1
    <3>3. Len(Tail(s)) > 0
      BY <3>1, <3>2
    <3>4. \A u : Len(u) > 0 => u # <<>>
      OBVIOUS
    <3> QED BY <3>2, <3>3, <3>4, Zenon DEF s
  <2>2. SoundResults(graph', Tail(f.todo))
    BY <1>4, <1>7, SoundTail
  <2> QED BY <1>11, <1>12, <1>13, <2>1, <2>2
<1>14. CASE done # <<>> /\ next(f.index + 1, done, <<>>)
  BY <1>6, <1>11, <1>12, <1>14
<1>15. CASE BuildEach(Front(frames), f.node.call, f.ep, f.values, done, <<>>)
  BY <1>2, <1>5, <1>6, <1>7, <1>11, <1>15, FlowBuildEach
<1> QED BY <1>3, <1>13, <1>14, <1>15

LEMMA ReturnJunctionFlow ==
  ASSUME TypeOK, TypeOK', FlowInv, ReturnJunction
  PROVE  FlowInv'
<1> DEFINE f == Last(frames)
           rs == results
           group(t) == {i \in Singles(rs) : TypeOf(rs[i]) = t}
           first(t) == CHOOSE i \in group(t) : \A j \in group(t) : i <= j
           several == {t \in TypesOf(rs) : Cardinality(group(t)) > 1}
           joined == {i \in Singles(rs) : TypeOf(rs[i]) \in several}
           from == [i \in joined |-> rs[i].ep.block]
           others == DOMAIN rs \ Singles(rs)
           junction(t) ==
             Len(graph) + Cardinality({u \in several : address[u] <= address[t]})
           to == [i \in joined |-> junction(TypeOf(rs[i]))]
           output(t) ==
             [ep |-> IF t \in several THEN WithBlock(f.ep, junction(t))
                     ELSE rs[first(t)].ep,
              values |-> Append(f.values, rs[first(t)].values[1])]
           passed(p) == [j \in 1..Len(p) |-> rs[p[j]]]
           outputs(o) == [j \in 1..Len(o) |-> output(o[j])]
           n == Cardinality(several)
<1>1. Returning("junction")
  BY DEF ReturnJunction
<1>2. /\ f \in Frame /\ f.kind = "junction" /\ Front(frames) \in Seq(Frame)
      /\ Sound(graph, f.ep) /\ SoundFrames(graph, Front(frames))
  BY <1>1, ReturningSound
<1>3. \/ Throw("linkBlocks")
      \/ \E o \in Enumerations(TypesOf(rs), address),
            p \in Enumerations(others, [i \in DOMAIN rs |-> i]) :
           /\ graph' = AddBlocks(LinkEach(graph, joined, from, to, TRUE),
                                 "junction", FALSE, n)
           /\ BuildEach(Front(frames), f.node, f.ep, <<>>,
                        passed(p) \o outputs(o), <<>>)
  BY Zenon DEF ReturnJunction
<1> HIDE DEF f
<1>4. f.ep \in EP /\ f.values \in Seq(Value)
  BY <1>2, FrameType
<1>5. rs \in Seq(Result) /\ Len(graph) \in Nat /\ graph \in Seq(Block)
      /\ SoundResults(graph, rs)
  BY DEF TypeOK, FlowInv
<1> HIDE DEF rs
<1>6. /\ Singles(rs) \subseteq 1..Len(rs) /\ TypesOf(rs) \subseteq Type
      /\ IsFiniteSet(TypesOf(rs)) /\ Singles(rs) \subseteq DOMAIN rs
      /\ \A i \in Singles(rs) : TypeOf(rs[i]) \in TypesOf(rs)
  BY <1>5, SinglesType
<1>7. several \subseteq TypesOf(rs) /\ IsFiniteSet(several)
  <2>1. several \in SUBSET TypesOf(rs)
    BY Zenon
  <2> QED BY <1>6, <2>1, FS_Subset
<1>8. n \in Nat
  BY <1>7, FS_CardinalityType
<1>9. ASSUME NEW t \in several
      PROVE  junction(t) \in Len(graph)+1..Len(graph)+n
  <2> DEFINE below == {u \in several : address[u] <= address[t]}
  <2>1. address[t] \in Nat
    BY <1>6, <1>7 DEF TypeOK
  <2>2. below \in SUBSET several /\ t \in below
    <3> HIDE DEF several
    <3> QED BY <2>1
  <2> HIDE DEF below
  <2>3. IsFiniteSet(below) /\ Cardinality(below) <= n
    BY <1>7, <2>2, FS_Subset
  <2>4. Cardinality(below) \in Nat /\ Cardinality(below) # 0
    BY <2>2, <2>3, FS_CardinalityType, FS_EmptySet
  <2>5. junction(t) = Len(graph) + Cardinality(below)
    BY DEF below
  <2> HIDE DEF n, junction
  <2> QED BY <1>5, <1>8, <2>3, <2>4, <2>5
<1>10. \A i \in joined :
         /\ i \in DOMAIN rs /\ from[i] = rs[i].ep.block
         /\ TypeOf(rs[i]) \in several /\ to[i] = junction(TypeOf(rs[i]))
  <2> HIDE DEF several, junction
  <2> QED BY <1>6
<1>11. ASSUME NEW t \in several PROVE \E i \in joined : TypeOf(rs[i]) = t
  <2>1. PICK i \in Singles(rs) : t = TypeOf(rs[i])
    BY <1>7 DEF TypesOf
  <2> HIDE DEF several
  <2> QED BY <2>1
<1>12. ASSUME NEW t \in TypesOf(rs)
       PROVE  /\ Sound(graph, rs[first(t)].ep) /\ rs[first(t)] \in Result
              /\ rs[first(t)].values[1] \in Value
  <2>1. group(t) # {}
    <3>1. PICK i \in Singles(rs) : t = TypeOf(rs[i])
      BY <1>12 DEF TypesOf
    <3> QED BY <3>1
  <2>2. group(t) \in SUBSET Nat
    BY <1>5, <1>6
  <2>3. \E i \in group(t) : \A j \in group(t) : i <= j
    BY <2>1, <2>2, LeastNumber, Zenon
  <2>4. first(t) \in group(t)
    BY <2>3, Zenon
  <2> HIDE DEF first
  <2>5. first(t) \in DOMAIN rs
    BY <1>6, <2>4
  <2>6. rs[first(t)] \in Result /\ rs[first(t)].values[1] \in Value
    BY <1>5, <2>4, SinglesType
  <2> QED BY <1>5, <2>5, <2>6 DEF SoundResults
<1> HIDE DEF several, junction, from, to, joined, group, first, n
<1>13. CASE Throw("linkBlocks")
  BY <1>13, FlowThrow
<1>14. ASSUME NEW o \in Enumerations(TypesOf(rs), address),
              NEW p \in Enumerations(others, [i \in DOMAIN rs |-> i]),
              graph' = AddBlocks(LinkEach(graph, joined, from, to, TRUE),
                                 "junction", FALSE, n),
              BuildEach(Front(frames), f.node, f.ep, <<>>,
                        passed(p) \o outputs(o), <<>>)
       PROVE  FlowInv'
  <2> DEFINE yes == TRUE
             no == FALSE
  <2>1. graph' = AddBlocks(LinkEach(graph, joined, from, to, yes),
                           "junction", no, n)
    BY <1>14
  <2>2. /\ yes \in BOOLEAN /\ no \in BOOLEAN /\ ~ no /\ "junction" \in Roles
        /\ \A i \in joined : /\ Reached(graph, from[i])
                             /\ to[i] \in Len(graph)+1..Len(graph)+n
    BY <1>5, <1>9, <1>10 DEF Roles, SoundResults, Sound
  <2> HIDE DEF yes, no
  <2>3. Extends(graph, graph', n) /\ \A i \in joined : Reached(graph', to[i])
    BY <1>5, <1>8, <2>1, <2>2, LinkedEachToNew
  <2>4. GraphStep
    BY <1>8, <2>3, ExtendedGraph
  <2>5. /\ SoundResults(graph', rs) /\ Sound(graph', f.ep)
        /\ SoundFrames(graph', Front(frames)) /\ SoundResults(graph', <<>>)
    BY <1>2, <1>5, <2>4, StillSound, SoundFew, Zenon
  <2>6. ASSUME NEW t \in TypesOf(rs) PROVE Sound(graph', output(t).ep)
    <3>1. CASE t \in several
      <4>1. PICK i \in joined : TypeOf(rs[i]) = t
        BY <1>11, <3>1
      <4>2. Reached(graph', junction(t))
        BY <1>10, <2>3, <4>1
      <4>3. Sound(graph', WithBlock(f.ep, junction(t)))
        BY <1>4, <2>5, <4>2, WithBlockSound
      <4> QED BY <3>1, <4>3
    <3>2. CASE t \notin several
      <4>1. Sound(graph', rs[first(t)].ep)
        BY <1>12, <2>4, StillSound
      <4> QED BY <3>2, <4>1
    <3> QED BY <3>1, <3>2
  <2>7. SoundResults(graph', outputs(o))
    <3>1. o \in Seq(TypesOf(rs))
      BY <1>6, EnumerationType
    <3> HIDE DEF output
    <3> QED BY <2>6, <3>1 DEF SoundResults
  <2>8. p \in Seq(others)
    <3>1. others \in SUBSET (1..Len(rs))
      BY <1>5
    <3>2. IsFiniteSet(1..Len(rs))
      BY <1>5, FS_Interval
    <3>3. IsFiniteSet(others)
      BY <3>1, <3>2, FS_Subset
    <3> HIDE DEF others
    <3> QED BY <3>3, EnumerationType
  <2>9. SoundResults(graph', passed(p))
    <3>1. \A j \in 1..Len(p) : p[j] \in DOMAIN rs
      BY <2>8
    <3> QED BY <2>5, <2>8, <3>1 DEF SoundResults
  <2>10. passed(p) \in Seq(Result) /\ outputs(o) \in Seq(Result)
    <3>1. ASSUME NEW t \in TypesOf(rs) PROVE output(t) \in Result
      <4>1. Append(f.values, rs[first(t)].values[1]) \in Seq(Value)
        BY <1>4, <1>12
      <4>2. t \in several => WithBlock(f.ep, junction(t)) \in EP
        BY <1>4, <1>5, <1>8, <1>9, WithBlockType
      <4> QED BY <1>12, <4>1, <4>2 DEF Result
    <3>2. o \in Seq(TypesOf(rs))
      BY <1>6, EnumerationType
    <3> HIDE DEF output
    <3>3. outputs(o) \in Seq(Result)
      BY <3>1, <3>2
    <3>4. \A j \in 1..Len(p) : rs[p[j]] \in Result
      <4>1. \A j \in 1..Len(p) : p[j] \in DOMAIN rs
        BY <2>8
      <4> QED BY <1>5, <4>1
    <3>5. Len(p) \in Nat
      BY <2>8
    <3> HIDE DEF outputs
    <3> QED BY <3>3, <3>4, <3>5
  <2> HIDE DEF passed, outputs
  <2>11. /\ passed(p) \o outputs(o) \in Seq(Result)
         /\ SoundResults(graph', passed(p) \o outputs(o))
    BY <2>7, <2>9, <2>10, SoundConcat
  <2> QED BY <1>2, <1>14, <2>4, <2>5, <2>11, FlowBuildEach
<1> QED BY <1>3, <1>13, <1>14, Zenon

LEMMA PrepareFlow ==
  ASSUME TypeOK, TypeOK', FlowInv, Prepare
  PROVE  FlowInv'
BY ProxyTailPathFlow, ProxyRegularCallFlow, SegmentFlow, ReturnArgumentFlow,
   ReturnJunctionFlow, ReturnEachFlow DEF Prepare

-----------------------------------------------------------------------------
\* The jump: the one branch that may go backwards.
LEMMA TailCallFlow ==
  ASSUME TypeOK, TypeOK', FlowInv, TailCall
  PROVE  FlowInv'
<1> DEFINE target == TailCallTarget(ep, node.names, values)
           b == ep.block
           inserted == InsertBlock(graph, b)
           stored == IF \E i \in DOMAIN values : InMemory(values[i])
                     THEN Emit(inserted, b) ELSE inserted
<1>1. \/ Throw("linkBlocks")
      \/ /\ graph' = LinkBlocks(stored, b, target.block)
         /\ Return(<<>>) /\ UNCHANGED frames /\ target # NoEntry
  BY Zenon DEF TailCall
<1>2. /\ graph \in Seq(Block) /\ graph' \in Seq(Block) /\ SoundGraph(graph)
      /\ Reached(graph, b) /\ Sound(graph, ep) /\ ep \in EP
  BY DEF TypeOK, FlowInv, Sound
<1>3. FunctionEntry(graph, target)
  BY <1>2, TailCallTargetSound
<1> HIDE DEF target, b
<1>4. /\ Len(inserted) = Len(graph)
      /\ \A c \in DOMAIN graph :
           /\ inserted[c].role = graph[c].role
           /\ inserted[c].targets = graph[c].targets
           /\ inserted[c].inserted => graph[c].inserted \/ c = b
  BY <1>2, InsertBlockFlow
<1>5. inserted \in Seq(Block)
  BY <1>2, InsertBlockType
<1> HIDE DEF inserted
<1>6. Emit(inserted, b) \in Seq(Block)
      /\ Len(Emit(inserted, b)) = Len(inserted)
      /\ \A c \in DOMAIN inserted :
           /\ Emit(inserted, b)[c].role = inserted[c].role
           /\ Emit(inserted, b)[c].targets = inserted[c].targets
           /\ Emit(inserted, b)[c].inserted = inserted[c].inserted
  BY <1>5, EmitFlow, EmitType
<1>7. /\ stored \in Seq(Block) /\ Len(stored) = Len(inserted)
      /\ \A c \in DOMAIN inserted :
           /\ stored[c].role = inserted[c].role
           /\ stored[c].targets = inserted[c].targets
           /\ stored[c].inserted = inserted[c].inserted
  <2>1. stored = Emit(inserted, b) \/ stored = inserted
    BY Zenon
  <2> HIDE DEF stored
  <2> QED BY <1>5, <1>6, <2>1
<1> HIDE DEF stored
<1>8. CASE Throw("linkBlocks")
  BY <1>8, FlowThrow
<1>9. CASE /\ graph' = LinkBlocks(stored, b, target.block)
           /\ Return(<<>>) /\ UNCHANGED frames /\ target # NoEntry
  <2> DEFINE t == target.block
  <2>1. t \in DOMAIN graph /\ graph[t].role = "function"
    BY <1>3, <1>9 DEF FunctionEntry
  <2> HIDE DEF t
  <2>2. /\ Len(graph') = Len(stored)
        /\ \A c \in DOMAIN stored :
             /\ graph'[c].role = stored[c].role
             /\ c = b => graph'[c].targets = stored[c].targets \cup {t}
             /\ c # b => graph'[c].targets = stored[c].targets
             /\ graph'[c].inserted = stored[c].inserted
    BY <1>7, <1>9, LinkBlocksFlow DEF t
  <2>3. DOMAIN graph' = DOMAIN graph /\ DOMAIN stored = DOMAIN graph
        /\ DOMAIN inserted = DOMAIN graph /\ Len(graph') = Len(graph)
        /\ Len(graph) \in Nat
    BY <1>2, <1>4, <1>5, <1>7, <2>2
  <2>4. ASSUME NEW c \in DOMAIN graph
        PROVE  /\ graph'[c].role = graph[c].role
               /\ c = b => graph'[c].targets = graph[c].targets \cup {t}
               /\ c # b => graph'[c].targets = graph[c].targets
               /\ graph'[c].inserted => graph[c].inserted \/ c = b
    BY <1>4, <1>7, <2>2, <2>3
  <2>5. Grows(graph, graph')
    BY <2>3, <2>4 DEF Grows
  <2>6. ASSUME NEW c \in DOMAIN graph, NEW u \in graph'[c].targets
        PROVE  u \in DOMAIN graph /\ (u <= c => graph'[u].role = "function")
    <3>1. CASE u = t
      BY <2>1, <2>4, <3>1
    <3>2. CASE u # t
      <4>1. u \in graph[c].targets
        BY <2>4, <2>6, <3>2
      <4>2. u \in DOMAIN graph /\ (u <= c => graph[u].role = "function")
        BY <1>2, <4>1 DEF SoundGraph
      <4> QED BY <2>4, <4>2
    <3> QED BY <3>1, <3>2
  <2>7. ASSUME NEW c \in DOMAIN graph, graph'[c].inserted
        PROVE  c = 1 \/ Reached(graph', c)
    <3>1. c = 1 \/ Reached(graph, c)
      BY <1>2, <2>4, <2>7, Zenon DEF SoundGraph
    <3> QED BY <1>2, <2>5, <3>1, GrowsReached
  <2>8. SoundGraph(graph')
    BY <2>3, <2>6, <2>7 DEF SoundGraph
  <2>9. GraphStep
    BY <2>5, <2>8 DEF GraphStep
  <2>10. SoundFrames(graph', frames') /\ SoundResults(graph', <<>>)
    BY <1>9, <2>9, StillSound, SoundFew, Zenon DEF FlowInv
  <2> QED BY <1>9, <2>9, <2>10, FlowReturn
<1> QED BY <1>1, <1>8, <1>9

LEMMA CallFailsFlow ==
  ASSUME TypeOK, TypeOK', FlowInv, CallFails
  PROVE  FlowInv'
<1>1. \E what : Throw(what)
  BY Zenon DEF CallFails
<1> QED BY <1>1, FlowThrow

LEMMA FunctionBlockFlow ==
  ASSUME TypeOK, FlowInv, NEW b, b = Len(graph) + 1
  PROVE  /\ Extends(graph, FunctionBlock, 1) /\ Reached(FunctionBlock, b)
         /\ FunctionBlock[b].role = "function"
         /\ FunctionBlock \in Seq(Block) /\ b \in Nat
<1> DEFINE no == FALSE
<1>1. /\ graph \in Seq(Block) /\ Reached(graph, ep.block)
      /\ "function" \in Roles /\ no \in BOOLEAN
  BY DEF TypeOK, FlowInv, Sound, Roles
<1>2. FunctionBlock =
        LinkBlocks(AddBlocks(InsertBlock(graph, ep.block), "function", no, 1),
                   ep.block, b)
  BY DEF FunctionBlock
<1> HIDE DEF no
<1> QED BY <1>1, <1>2, LinkedToNew

LEMMA CallFunctionFlow ==
  ASSUME TypeOK, TypeOK', FlowInv, CallFunction
  PROVE  FlowInv'
<1> DEFINE b == Len(graph) + 1
           callee == WithBlock(ep, b)
           frame == [kind |-> "function", ep |-> callee]
           start(f) == MarkEntry(WithName(callee, f.name), values)
           locals(f) == WithArguments(ep.locals, f.params, values)
<1>1. PICK f \in FindFunction(ep, unit.functions, node.names, values) :
        /\ graph' = FunctionBlock
        /\ Build(f.body, WithLocals(start(f), locals(f)), <<>>)
        /\ Push(frame)
  BY Zenon DEF CallFunction
<1>2. f.name \in Name
  BY CalleeType DEF IsFunction
<1>3. /\ Extends(graph, graph', 1) /\ Reached(graph', b) /\ b \in Nat
      /\ graph'[b].role = "function"
  BY <1>1, FunctionBlockFlow
<1> HIDE DEF b
<1>4. GraphStep
  BY <1>3, ExtendedGraph
<1>5. Sound(graph', ep) /\ ep \in EP /\ values \in Seq(Value)
  BY <1>4, StillSound DEF FlowInv, TypeOK
<1>6. callee \in EP /\ Sound(graph', callee) /\ callee.block = b
  BY <1>3, <1>5, WithBlockType, WithBlockSound DEF WithBlock, EP
<1>7. SoundFrame(graph', frame)
  BY <1>6 DEF SoundFrame
<1> HIDE DEF callee, frame
<1>8. /\ WithName(callee, f.name) \in EP
      /\ Sound(graph', WithName(callee, f.name))
  BY <1>2, <1>6, WithNameType, WithNameSound
<1>9. WithName(callee, f.name).block = b
  BY <1>6 DEF WithName, EP
<1>10. Sound(graph', start(f)) /\ start(f) \in EP
  BY <1>3, <1>5, <1>8, <1>9, MarkEntrySound, MarkEntryType
<1> HIDE DEF start, locals
<1>11. Sound(graph', WithLocals(start(f), locals(f)))
  BY <1>10, WithLocalsSound
<1> QED BY <1>1, <1>4, <1>7, <1>11, FlowBuildNested

LEMMA CallImportFlow ==
  ASSUME TypeOK, TypeOK', FlowInv, CallImport
  PROVE  FlowInv'
<1> DEFINE b == Len(graph) + 1
           fits(f) == \A i \in DOMAIN f.params :
                        /\ ArgumentScore(f, values, i) = 0
                        /\ values[Len(values) + 1 - i].rep = "reference"
           r(f) == [ep |-> WithBlock(ep, b),
                    values |-> IF f.returns = "void" THEN <<>>
                               ELSE <<Scalar(f.returns)>>]
           g == FunctionBlock
<1>1. PICK f \in FindFunction(ep, unit.functions, node.names, values) :
        /\ graph' = EmitTyped(g, b, fits(f))
        /\ Return(<<r(f)>>) /\ UNCHANGED frames
  BY Zenon DEF CallImport
<1>2. fits(f) \in BOOLEAN
  BY Zenon
<1> HIDE DEF fits
<1>3. /\ Extends(graph, g, 1) /\ Reached(g, b) /\ b \in Nat /\ g \in Seq(Block)
  BY FunctionBlockFlow
<1>4. r(f).ep = WithBlock(ep, b)
  OBVIOUS
<1> HIDE DEF b, g, r
<1>5. /\ Len(graph') = Len(g)
      /\ \A c \in DOMAIN g :
           /\ graph'[c].role = g[c].role /\ graph'[c].targets = g[c].targets
           /\ graph'[c].inserted = g[c].inserted
  BY <1>1, <1>2, <1>3, EmitTypedFlow
<1>6. /\ DOMAIN graph' = DOMAIN g /\ DOMAIN graph \subseteq DOMAIN g
      /\ graph' \in Seq(Block)
  BY <1>3, <1>5 DEF TypeOK, Extends
<1>7. Extends(graph, graph', 1)
  BY <1>3, <1>5, <1>6 DEF Extends
<1>8. GraphStep
  BY <1>7, ExtendedGraph
<1>9. Reached(graph', b)
  <2>1. Grows(g, graph')
    BY <1>3, <1>5, <1>6 DEF Grows
  <2> QED BY <1>3, <1>6, <2>1, GrowsReached
<1>10. Sound(graph', ep) /\ SoundFrames(graph', frames') /\ ep \in EP
  BY <1>1, <1>8, StillSound, Zenon DEF FlowInv, TypeOK
<1>11. Sound(graph', r(f).ep)
  BY <1>4, <1>9, <1>10, WithBlockSound
<1>12. SoundResults(graph', <<r(f)>>)
  BY <1>11, SoundFew
<1> QED BY <1>1, <1>8, <1>10, <1>12, FlowReturn

LEMMA ReturnFunctionFlow ==
  ASSUME TypeOK, TypeOK', FlowInv, ReturnFunction
  PROVE  FlowInv'
<1> DEFINE f == Last(frames)
           I == DOMAIN results
           n == Len(results)
           from == [i \in I |-> results[i].ep.block]
           to == [i \in I |-> Len(graph) + i]
           r(i) == [ep |-> WithBlock(f.ep, Len(graph) + i),
                    values |-> results[i].values]
           rs == [i \in 1..n |-> r(i)]
           yes == TRUE
           no == FALSE
<1>1. Returning("function")
        /\ \/ Throw("linkBlocks")
           \/ /\ graph' = AddBlocks(LinkEach(graph, I, from, to, yes),
                                    "consumer", no, n)
              /\ Return(rs) /\ frames' = Front(frames)
  BY Zenon DEF ReturnFunction
<1>2. CASE Throw("linkBlocks")
  BY <1>2, FlowThrow
<1>3. CASE /\ graph' = AddBlocks(LinkEach(graph, I, from, to, yes),
                                 "consumer", no, n)
           /\ Return(rs) /\ frames' = Front(frames)
  <2>1. /\ f \in Frame /\ Front(frames) \in Seq(Frame)
        /\ Sound(graph, f.ep) /\ SoundFrames(graph, Front(frames))
    BY <1>1, ReturningSound
  <2> HIDE DEF f
  <2>2. f.ep \in EP
    BY <2>1, FrameType
  <2>3. /\ I = 1..n /\ n \in Nat /\ Len(graph) \in Nat
        /\ graph \in Seq(Block) /\ SoundResults(graph, results)
        /\ yes \in BOOLEAN /\ no \in BOOLEAN /\ ~ no /\ "consumer" \in Roles
    BY DEF TypeOK, FlowInv, Roles
  <2>4. \A i \in I : /\ Reached(graph, from[i])
                     /\ to[i] \in Len(graph)+1..Len(graph)+n
                     /\ to[i] = Len(graph) + i
    BY <2>3 DEF SoundResults, Sound
  <2>5. DOMAIN rs = 1..n /\ \A i \in 1..n : rs[i].ep = WithBlock(f.ep, Len(graph) + i)
    OBVIOUS
  <2> HIDE DEF I, n, from, to, yes, no, rs
  <2>6. Extends(graph, graph', n) /\ \A i \in I : Reached(graph', to[i])
    BY <1>3, <2>3, <2>4, LinkedEachToNew
  <2>7. GraphStep
    BY <2>3, <2>6, ExtendedGraph
  <2>8. Sound(graph', f.ep) /\ SoundFrames(graph', Front(frames))
    BY <2>1, <2>7, StillSound
  <2>9. ASSUME NEW i \in 1..n PROVE Sound(graph', rs[i].ep)
    <3>1. Reached(graph', Len(graph) + i)
      BY <2>3, <2>4, <2>6
    <3> QED BY <2>2, <2>5, <2>8, <3>1, WithBlockSound
  <2>10. SoundResults(graph', rs)
    BY <2>5, <2>9 DEF SoundResults
  <2> QED BY <1>3, <2>7, <2>8, <2>10, FlowReturn
<1> QED BY <1>1, <1>2, <1>3

LEMMA InvokeFlow ==
  ASSUME TypeOK, TypeOK', FlowInv, Invoke
  PROVE  FlowInv'
BY TailCallFlow, CallFailsFlow, CallFunctionFlow, CallImportFlow,
   ReturnFunctionFlow DEF Invoke

-----------------------------------------------------------------------------
(* The theorems.                                                           *)

LEMMA InitFlow ==
  ASSUME Init
  PROVE  FlowInv
<1> DEFINE none == <<>>
           yes == TRUE
           no == FALSE
           alloc == AddBlocks(none, "alloc", yes, 1)
           body == AddBlocks(alloc, "body", no, 1)
<1>1. /\ none \in Seq(Block) /\ "alloc" \in Roles /\ "body" \in Roles
      /\ yes \in BOOLEAN /\ no \in BOOLEAN /\ 1 \in Nat /\ 2 \in Nat
      /\ Len(none) = 0 /\ DOMAIN none = {}
  BY DEF Roles
<1>2. graph = LinkBlocks(body, 1, 2)
  BY DEF Init
<1> HIDE DEF none, yes, no
<1>3. /\ alloc \in Seq(Block) /\ Len(alloc) = 1
      /\ \A c \in DOMAIN alloc \ DOMAIN none : alloc[c].targets = {}
  <2>1. alloc \in Seq(Block)
    BY <1>1, AddBlocksType
  <2>2. /\ Len(alloc) = Len(none) + 1
        /\ \A c \in DOMAIN alloc \ DOMAIN none : alloc[c].targets = {}
    <3>1. alloc = AddBlocks(none, "alloc", yes, 1)
      OBVIOUS
    <3>2. none \in Seq(Block) /\ yes \in BOOLEAN /\ 1 \in Nat
      BY <1>1
    <3> HIDE DEF alloc
    <3> QED BY <3>1, <3>2, AddBlocksFlow
  <2> QED BY <1>1, <2>1, <2>2
<1> HIDE DEF alloc
<1>4. /\ body \in Seq(Block) /\ Len(body) = 2
      /\ \A c \in DOMAIN alloc : body[c] = alloc[c]
      /\ \A c \in DOMAIN body \ DOMAIN alloc :
           body[c].targets = {} /\ body[c].inserted = no
  <2>1. body \in Seq(Block)
    BY <1>1, <1>3, AddBlocksType
  <2>2. /\ Len(body) = Len(alloc) + 1
        /\ \A c \in DOMAIN alloc : body[c] = alloc[c]
        /\ \A c \in DOMAIN body \ DOMAIN alloc :
             body[c].targets = {} /\ body[c].inserted = no
    <3>1. body = AddBlocks(alloc, "body", no, 1)
      OBVIOUS
    <3>2. alloc \in Seq(Block) /\ no \in BOOLEAN /\ 1 \in Nat
      BY <1>1, <1>3
    <3> HIDE DEF body
    <3> QED BY <3>1, <3>2, AddBlocksFlow
  <2> QED BY <1>3, <2>1, <2>2
<1> HIDE DEF body
<1>5. /\ Len(graph) = Len(body)
      /\ \A c \in DOMAIN body :
           /\ c = 1 => graph[c].targets = body[c].targets \cup {2}
           /\ c # 1 => graph[c].targets = body[c].targets
           /\ graph[c].inserted = body[c].inserted
  BY <1>2, <1>4, LinkBlocksFlow
<1>6. DOMAIN alloc = {1} /\ DOMAIN body = {1, 2} /\ DOMAIN graph = {1, 2}
      /\ graph \in Seq(Block)
  BY <1>1, <1>2, <1>3, <1>4, <1>5, LinkBlocksType
<1>7. graph[1].targets = {2} /\ graph[2].targets = {} /\ ~ graph[2].inserted
  <2>1. alloc[1].targets = {} /\ body[1] = alloc[1]
    BY <1>1, <1>3, <1>4, <1>6
  <2>2. body[2].targets = {} /\ body[2].inserted = no
    BY <1>4, <1>6
  <2> QED BY <1>5, <1>6, <2>1, <2>2 DEF no
<1>8. Reached(graph, 2)
  BY <1>6, <1>7 DEF Reached
<1>9. SoundGraph(graph)
  BY <1>6, <1>7 DEF SoundGraph
<1>10. ep.block = 2 /\ DOMAIN ep.scopes = {1} /\ ep.scopes[1].entry = NoEntry
  BY DEF Init, RootEP
<1>11. Sound(graph, ep)
  BY <1>8, <1>10 DEF Sound, FunctionEntry
<1>12. SoundResults(graph, results) /\ SoundFrames(graph, frames)
  BY DEF Init, SoundResults, SoundFrames
<1> QED BY <1>9, <1>11, <1>12 DEF FlowInv

LEMMA StepFlow ==
  ASSUME TypeOK, TypeOK', FlowInv, [Next]_vars
  PROVE  FlowInv'
<1>1. CASE Step
  <2>1. CASE Finish
    BY <2>1 DEF Finish, FlowInv
  <2>2. CASE Overflow
    BY <2>2, FlowThrow DEF Overflow
  <2> QED BY <1>1, <2>1, <2>2, ProduceFlow, LeaveFlow, BranchFlow, PrepareFlow,
             InvokeFlow DEF Step
<1>2. CASE Stop
  BY <1>2 DEF Stop, FlowInv
<1>3. CASE UNCHANGED vars
  BY <1>3 DEF vars, FlowInv
<1> QED BY <1>1, <1>2, <1>3, Zenon DEF Next

LEMMA FlowInvariant == Spec => [](TypeOK /\ FlowInv)
<1>1. Init => TypeOK /\ FlowInv
  BY InitType, InitFlow
<1>2. TypeOK /\ FlowInv /\ [Next]_vars => (TypeOK /\ FlowInv)'
  BY StepType, StepFlow
<1> QED BY <1>1, <1>2, PTL DEF Spec

\* linkBlocks: whatever the program, however its calls are inlined, joined and
\* turned into jumps, the only branches of the generated code that go backwards
\* are those of tail calls, to the block of a function: without recursion the
\* generated code has no loop.
THEOREM JumpsCorrect == Spec => []OnlyTailCallsGoBack
<1>1. TypeOK /\ FlowInv => OnlyTailCallsGoBack
  BY DEF FlowInv, SoundGraph, OnlyTailCallsGoBack
<1> QED BY <1>1, FlowInvariant, PTL

\* insertBlock: every block that is put into the generated function, except
\* alloc, is the target of a branch of an earlier block.
THEOREM ReachCorrect == Spec => []NoUnreachableBlocks
<1>1. ASSUME TypeOK, FlowInv PROVE NoUnreachableBlocks
  <2>1. ASSUME NEW b \in 2..Len(graph), graph[b].inserted
        PROVE  \E p \in 1..b-1 : b \in graph[p].targets
    <3>1. b \in DOMAIN graph /\ b # 1
      BY <1>1 DEF TypeOK
    <3> QED BY <1>1, <2>1, <3>1 DEF FlowInv, SoundGraph, Reached
  <2> QED BY <2>1 DEF NoUnreachableBlocks
<1> QED BY <1>1, FlowInvariant, PTL
=============================================================================
