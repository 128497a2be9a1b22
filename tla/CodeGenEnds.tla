----------------------------- MODULE CodeGenEnds -----------------------------
(***************************************************************************)
(* The open ends of the flow graph, for every program: contexts are copied *)
(* freely and a continuation is built once per result, but every block     *)
(* that is still to be written to is held in one place only, so no         *)
(* instruction is put behind a terminator and linkBlocks never throws.     *)
(* And none is forgotten, as long as conditionals merge what is open, so   *)
(* that the code generator implements FlowGraph.                           *)
(***************************************************************************)
EXTENDS CodeGenFlow

-----------------------------------------------------------------------------
(* The inductive invariant.                                                *)

\* Results that are still to be continued, and results to be handed on.
Todo(f) ==
  CASE f.kind = "ifTrue" ->
         <<[ep |-> WithBlock(f.ep, f.block), values |-> f.values]>>
    [] f.kind = "each" -> f.todo
    [] f.kind = "argument" -> Tail(f.todo)
    [] OTHER -> <<>>

Done(f) == IF f.kind \in {"ifFalse", "argument", "each"} THEN f.done ELSE <<>>

Blocks(rs) == {rs[i].ep.block : i \in DOMAIN rs}

Distinct(rs) ==
  \A i, j \in DOMAIN rs : rs[i].ep.block = rs[j].ep.block => i = j

FrameBlocks(f) == Blocks(Todo(f)) \cup Blocks(Done(f))

StackBlocks(fs) == UNION {FrameBlocks(fs[k]) : k \in DOMAIN fs}

\* No block is held twice: in a frame, ...
Apart(f) ==
  /\ Distinct(Todo(f)) /\ Distinct(Done(f))
  /\ Blocks(Todo(f)) \cap Blocks(Done(f)) = {}

\* ... by two frames, ...
StackApart(fs) ==
  /\ \A k \in DOMAIN fs : Apart(fs[k])
  /\ \A k, l \in DOMAIN fs :
       k # l => FrameBlocks(fs[k]) \cap FrameBlocks(fs[l]) = {}

\* ... or by the frames and the results rs.
Owned(fs, rs) ==
  /\ StackApart(fs) /\ Distinct(rs)
  /\ Blocks(rs) \cap StackBlocks(fs) = {}

\* Blocks that can be written to, and those with the ret of the exported
\* function as well.
Ready(g, S) ==
  \A b \in S : b \in DOMAIN g /\ g[b].last = "open" /\ g[b].role # "entry"

Over(g, S) ==
  \A b \in S : b \in DOMAIN g /\ (g[b].last = "open" \/ g[b].role = "entry")

\* Below the first n frames somebody goes on with the results, so that the
\* terminator of the exported function is out of sight.
Nested(fs, n) ==
  \E k \in 1..n : fs[k].kind \in {"global", "junction", "argument", "function"}

Continues(f) == f.kind \in {"global", "junction", "ifTrue", "each"}

\* What a frame holds is open.
FrameEnds(g, f, nested) ==
  /\ Ready(g, Blocks(Todo(f))) /\ Over(g, Blocks(Done(f)))
  /\ f.kind = "argument" => Ready(g, Blocks(Done(f)))
  /\ nested => /\ Ready(g, Blocks(Done(f)))
               /\ Continues(f) => f.node \in Inner

StackEnds(g, fs) ==
  \A k \in DOMAIN fs : FrameEnds(g, fs[k], Nested(fs, k - 1))

\* What is entered, or returned, on top of the frames fs.
ResultEnds(g, fs, rs) ==
  Over(g, Blocks(rs)) /\ (Nested(fs, Len(fs)) => Ready(g, Blocks(rs)))

NodeEnds(fs, n) == Nested(fs, Len(fs)) => n \in Inner

Now == <<[ep |-> ep, values |-> values]>>

EndsInv ==
  /\ address \in Layout
  /\ pc = "build" =>
       /\ Owned(frames, Now) /\ StackEnds(graph, frames)
       /\ Ready(graph, Blocks(Now)) /\ NodeEnds(frames, node)
  /\ pc = "return" =>
       /\ Owned(frames, results) /\ StackEnds(graph, frames)
       /\ ResultEnds(graph, frames, results)
  /\ error # "linkBlocks"

-----------------------------------------------------------------------------
(* What the operations write to.                                           *)

\* From g to h only the blocks in W are written to, and of those that are open
\* only the ones in C are closed.
Writes(g, h, W, C) ==
  /\ Len(g) <= Len(h)
  /\ \A b \in DOMAIN g :
       /\ h[b].role = g[b].role
       /\ b \notin W => h[b] = g[b]
       /\ b \notin C /\ g[b].last = "open" => h[b].last = "open"

LEMMA WritesNothing ==
  ASSUME NEW g \in Seq(Block)
  PROVE  Writes(g, g, {}, {})
BY DEF Writes

LEMMA WritesMore ==
  ASSUME NEW g, NEW h, NEW W, NEW C, Writes(g, h, W, C),
         NEW V, W \subseteq V, NEW D, C \subseteq D
  PROVE  Writes(g, h, V, D)
BY DEF Writes

LEMMA WritesThen ==
  ASSUME NEW g \in Seq(Block), NEW h \in Seq(Block), NEW k \in Seq(Block),
         NEW W, NEW C, Writes(g, h, W, C), Writes(h, k, W, C)
  PROVE  Writes(g, k, W, C)
<1>1. \A b \in DOMAIN g : b \in DOMAIN h
  BY DEF Writes
<1>2. Len(g) <= Len(k)
  BY DEF Writes
<1> QED BY <1>1, <1>2, Zenon DEF Writes

LEMMA InsertBlockWrites ==
  ASSUME NEW g \in Seq(Block), NEW b, NEW h, h = InsertBlock(g, b)
  PROVE  Writes(g, h, {b}, {}) /\ Len(h) = Len(g)
<1> DEFINE r == [g[b] EXCEPT !.inserted = TRUE]
<1>1. h = [g EXCEPT ![b] = r]
  BY DEF InsertBlock
<1>2. ASSUME g[b] \in Block
      PROVE  r.role = g[b].role /\ r.last = g[b].last
  BY <1>2 DEF Block
<1> HIDE DEF r
<1>3. /\ Len(h) = Len(g)
      /\ \A c \in DOMAIN g : h[c] = IF c = b THEN r ELSE g[c]
      /\ b \in DOMAIN g => g[b] \in Block
  BY <1>1, ReplacedBlock
<1> QED BY <1>2, <1>3 DEF Writes

LEMMA EmitTypedWrites ==
  ASSUME NEW g \in Seq(Block), NEW b, NEW agree \in BOOLEAN,
         NEW h, h = EmitTyped(g, b, agree)
  PROVE  Writes(g, h, {b}, {}) /\ Len(h) = Len(g)
<1> DEFINE r == [g[b] EXCEPT
                   !.malformed = @ \/ g[b].last # "open" \/ ~agree,
                   !.last = "open"]
<1>1. h = [g EXCEPT ![b] = r]
  BY DEF EmitTyped
<1>2. ASSUME g[b] \in Block
      PROVE  r.role = g[b].role /\ r.last = "open"
  BY <1>2 DEF Block
<1> HIDE DEF r
<1>3. /\ Len(h) = Len(g)
      /\ \A c \in DOMAIN g : h[c] = IF c = b THEN r ELSE g[c]
      /\ b \in DOMAIN g => g[b] \in Block
  BY <1>1, ReplacedBlock
<1> QED BY <1>2, <1>3 DEF Writes

LEMMA EmitWrites ==
  ASSUME NEW g \in Seq(Block), NEW b, NEW h, h = Emit(g, b)
  PROVE  Writes(g, h, {b}, {}) /\ Len(h) = Len(g)
<1> DEFINE r == [g[b] EXCEPT !.malformed = @ \/ g[b].last # "open",
                             !.last = "open"]
<1>1. h = [g EXCEPT ![b] = r]
  BY DEF Emit
<1>2. ASSUME g[b] \in Block
      PROVE  r.role = g[b].role /\ r.last = "open"
  BY <1>2 DEF Block
<1> HIDE DEF r
<1>3. /\ Len(h) = Len(g)
      /\ \A c \in DOMAIN g : h[c] = IF c = b THEN r ELSE g[c]
      /\ b \in DOMAIN g => g[b] \in Block
  BY <1>1, ReplacedBlock
<1> QED BY <1>2, <1>3 DEF Writes

LEMMA TerminateWrites ==
  ASSUME NEW g \in Seq(Block), NEW b, NEW kind, NEW T, NEW agree \in BOOLEAN,
         NEW h, h = Terminate(g, b, kind, T, agree)
  PROVE  Writes(g, h, {b}, {b}) /\ Len(h) = Len(g)
<1> DEFINE r == [g[b] EXCEPT
                   !.malformed = @ \/ g[b].last # "open" \/ ~agree,
                   !.last = kind, !.targets = @ \cup T]
<1>1. h = [g EXCEPT ![b] = r]
  BY DEF Terminate
<1>2. ASSUME g[b] \in Block PROVE r.role = g[b].role
  BY <1>2 DEF Block
<1> HIDE DEF r
<1>3. /\ Len(h) = Len(g)
      /\ \A c \in DOMAIN g : h[c] = IF c = b THEN r ELSE g[c]
      /\ b \in DOMAIN g => g[b] \in Block
  BY <1>1, ReplacedBlock
<1> QED BY <1>2, <1>3 DEF Writes

LEMMA LinkBlocksWrites ==
  ASSUME NEW g \in Seq(Block), NEW b, NEW t, NEW h, h = LinkBlocks(g, b, t)
  PROVE  Writes(g, h, {b}, {b}) /\ Len(h) = Len(g)
<1> DEFINE yes == TRUE
<1>1. h = Terminate(g, b, "br", {t}, yes) /\ yes \in BOOLEAN
  BY DEF LinkBlocks
<1> HIDE DEF yes
<1> QED BY <1>1, TerminateWrites

LEMMA AddBlocksWrites ==
  ASSUME NEW g \in Seq(Block), NEW role, NEW inserted, NEW n \in Nat,
         NEW h, h = AddBlocks(g, role, inserted, n)
  PROVE  /\ Writes(g, h, {}, {}) /\ Len(h) = Len(g) + n
         /\ \A c \in DOMAIN h \ DOMAIN g : h[c].role = role /\ h[c].last = "open"
<1> DEFINE x == NewBlock(role, inserted)
           s == [i \in 1..n |-> x]
           k == g \o s
<1>1. h = k
  BY DEF AddBlocks
<1>2. x.role = role /\ x.last = "open"
  BY DEF NewBlock
<1> HIDE DEF x
<1>3. s \in Seq({x}) /\ Len(s) = n
  OBVIOUS
<1>4. Len(k) = Len(g) + n /\ \A c \in DOMAIN g : k[c] = g[c]
  BY <1>3
<1>5. ASSUME NEW c \in DOMAIN k \ DOMAIN g PROVE k[c] = x
  <2>1. c - Len(g) \in 1..n /\ c \in Len(g)+1..Len(g)+n
    BY <1>3
  <2>2. k[c] = s[c - Len(g)]
    BY <1>3, <2>1
  <2> QED BY <2>1, <2>2
<1> HIDE DEF k
<1>6. Len(g) <= Len(h)
  BY <1>1, <1>4
<1> QED BY <1>1, <1>2, <1>4, <1>5, <1>6, Zenon DEF Writes

LEMMA LinkEachWrites ==
  ASSUME NEW g \in Seq(Block), NEW I, NEW from, NEW to, NEW insert \in BOOLEAN,
         NEW W, \A i \in I : from[i] \in W,
         NEW h, h = LinkEach(g, I, from, to, insert)
  PROVE  Writes(g, h, W, W) /\ Len(h) = Len(g)
<1> DEFINE mine(b) == {i \in I : from[i] = b}
           linked(b) == [g[b] EXCEPT
              !.inserted = @ \/ insert,
              !.malformed = @ \/ g[b].last # "open" \/ Cardinality(mine(b)) > 1,
              !.last = "br",
              !.targets = @ \cup {to[i] : i \in mine(b)}]
           k == [b \in 1..Len(g) |-> IF mine(b) = {} THEN g[b] ELSE linked(b)]
<1>1. h = k
  BY Zenon DEF LinkEach
<1>2. Len(k) = Len(g) /\ DOMAIN g = 1..Len(g)
  OBVIOUS
<1>3. ASSUME NEW c \in DOMAIN g
      PROVE  k[c].role = g[c].role /\ (c \notin W => k[c] = g[c])
  <2>1. k[c] = IF mine(c) = {} THEN g[c] ELSE linked(c)
    BY <1>2
  <2> HIDE DEF k
  <2>2. g[c] \in Block
    OBVIOUS
  <2>3. linked(c).role = g[c].role
    <3> HIDE DEF mine
    <3> QED BY <2>2 DEF Block
  <2>4. c \notin W => mine(c) = {}
    OBVIOUS
  <2> HIDE DEF linked, mine
  <2> QED BY <2>1, <2>3, <2>4
<1> HIDE DEF k
<1>4. Len(g) <= Len(h)
  BY <1>1, <1>2
<1> QED BY <1>1, <1>2, <1>3, <1>4, Zenon DEF Writes

\* What is not closed stays as ready as it is.
LEMMA WritesReady ==
  ASSUME NEW g \in Seq(Block), NEW h \in Seq(Block), NEW W, NEW C,
         Writes(g, h, W, C), NEW S, S \cap C = {}
  PROVE  /\ Ready(g, S) => Ready(h, S)
         /\ Over(g, S) => Over(h, S)
<1>1. \A b \in DOMAIN g : b \in DOMAIN h
  BY DEF Writes
<1> QED BY <1>1, Zenon DEF Writes, Ready, Over

-----------------------------------------------------------------------------
(* Results, frames and stacks.                                             *)

LEMMA FewBlocks ==
  /\ Blocks(<<>>) = {} /\ Distinct(<<>>)
  /\ \A r : Blocks(<<r>>) = {r.ep.block} /\ Distinct(<<r>>)
<1>1. Blocks(<<>>) = {} /\ Distinct(<<>>)
  BY DEF Blocks, Distinct
<1>2. ASSUME NEW r PROVE Blocks(<<r>>) = {r.ep.block} /\ Distinct(<<r>>)
  <2>1. DOMAIN <<r>> = {1} /\ <<r>>[1] = r
    OBVIOUS
  <2> QED BY <2>1, Zenon DEF Blocks, Distinct
<1> QED BY <1>1, <1>2

LEMMA TailBlocks ==
  ASSUME NEW rs \in Seq(Result), rs # <<>>, Distinct(rs)
  PROVE  /\ Distinct(Tail(rs)) /\ Tail(rs) \in Seq(Result)
         /\ Blocks(rs) = Blocks(Tail(rs)) \cup {rs[1].ep.block}
         /\ rs[1].ep.block \notin Blocks(Tail(rs))
<1> DEFINE t == Tail(rs)
           next(i) == i + 1
           before(i) == i - 1
<1>1. /\ t \in Seq(Result) /\ 1 \in DOMAIN rs
      /\ \A i \in DOMAIN t :
           next(i) \in DOMAIN rs /\ t[i] = rs[next(i)] /\ next(i) # 1
      /\ \A i \in DOMAIN rs :
           i # 1 => before(i) \in DOMAIN t /\ t[before(i)] = rs[i]
      /\ \A i, j \in DOMAIN t : next(i) = next(j) => i = j
  OBVIOUS
<1> HIDE DEF t, next, before
<1>2. Distinct(t)
  <2>1. ASSUME NEW i \in DOMAIN t, NEW j \in DOMAIN t,
               t[i].ep.block = t[j].ep.block
        PROVE  i = j
    <3>1. rs[next(i)].ep.block = rs[next(j)].ep.block
      BY <1>1, <2>1
    <3>2. next(i) = next(j)
      BY <1>1, <3>1, Zenon DEF Distinct
    <3> QED BY <1>1, <3>2, Zenon
  <2> QED BY <2>1, Zenon DEF Distinct
<1>3. Blocks(rs) = Blocks(t) \cup {rs[1].ep.block}
  <2>1. ASSUME NEW b \in Blocks(rs) PROVE b \in Blocks(t) \cup {rs[1].ep.block}
    <3>1. PICK i \in DOMAIN rs : b = rs[i].ep.block
      BY DEF Blocks
    <3>2. CASE i = 1
      BY <3>1, <3>2
    <3>3. CASE i # 1
      <4>1. before(i) \in DOMAIN t /\ b = t[before(i)].ep.block
        BY <1>1, <3>1, <3>3
      <4> QED BY <4>1 DEF Blocks
    <3> QED BY <3>2, <3>3
  <2>2. ASSUME NEW b \in Blocks(t) PROVE b \in Blocks(rs)
    <3>1. PICK i \in DOMAIN t : b = t[i].ep.block
      BY DEF Blocks
    <3>2. next(i) \in DOMAIN rs /\ b = rs[next(i)].ep.block
      BY <1>1, <3>1
    <3> QED BY <3>2 DEF Blocks
  <2>3. rs[1].ep.block \in Blocks(rs)
    BY <1>1, Zenon DEF Blocks
  <2> QED BY <2>1, <2>2, <2>3, Zenon
<1>4. ASSUME rs[1].ep.block \in Blocks(t) PROVE FALSE
  <2>1. PICK i \in DOMAIN t : rs[1].ep.block = t[i].ep.block
    BY <1>4 DEF Blocks
  <2>2. rs[1].ep.block = rs[next(i)].ep.block
    BY <1>1, <2>1
  <2>3. next(i) = 1
    BY <1>1, <2>2, Zenon DEF Distinct
  <2> QED BY <1>1, <2>3
<1> QED BY <1>1, <1>2, <1>3, <1>4 DEF t

LEMMA ConcatBlocks ==
  ASSUME NEW rs \in Seq(Result), NEW qs \in Seq(Result)
  PROVE  /\ Blocks(rs \o qs) = Blocks(rs) \cup Blocks(qs)
         /\ /\ Distinct(rs) /\ Distinct(qs)
            /\ Blocks(rs) \cap Blocks(qs) = {}
            => Distinct(rs \o qs)
<1> DEFINE s == rs \o qs
<1>1. ASSUME NEW i \in DOMAIN s
      PROVE  \/ i \in DOMAIN rs /\ s[i] = rs[i]
             \/ /\ i - Len(rs) \in DOMAIN qs /\ s[i] = qs[i - Len(rs)]
                /\ i \notin DOMAIN rs
  OBVIOUS
<1>2. /\ \A i \in DOMAIN rs : i \in DOMAIN s /\ s[i] = rs[i]
      /\ \A i \in DOMAIN qs : i + Len(rs) \in DOMAIN s /\ s[i + Len(rs)] = qs[i]
  OBVIOUS
<1>3. \A i, j \in DOMAIN s : i - Len(rs) = j - Len(rs) => i = j
  OBVIOUS
<1> HIDE DEF s
<1>4. Blocks(s) = Blocks(rs) \cup Blocks(qs)
  <2>1. ASSUME NEW b \in Blocks(s) PROVE b \in Blocks(rs) \cup Blocks(qs)
    BY <1>1, <2>1, Zenon DEF Blocks
  <2>2. ASSUME NEW b \in Blocks(rs) PROVE b \in Blocks(s)
    BY <1>2, <2>2, Zenon DEF Blocks
  <2>3. ASSUME NEW b \in Blocks(qs) PROVE b \in Blocks(s)
    BY <1>2, <2>3, Zenon DEF Blocks
  <2> QED BY <2>1, <2>2, <2>3, Zenon
<1>5. ASSUME Distinct(rs), Distinct(qs), Blocks(rs) \cap Blocks(qs) = {},
             NEW i \in DOMAIN s, NEW j \in DOMAIN s,
             s[i].ep.block = s[j].ep.block
      PROVE  i = j
  <2>1. CASE i \in DOMAIN rs /\ s[i] = rs[i] /\ j \in DOMAIN rs /\ s[j] = rs[j]
    BY <1>5, <2>1, Zenon DEF Distinct
  <2>2. CASE /\ i - Len(rs) \in DOMAIN qs /\ s[i] = qs[i - Len(rs)]
             /\ j - Len(rs) \in DOMAIN qs /\ s[j] = qs[j - Len(rs)]
    <3>1. i - Len(rs) = j - Len(rs)
      BY <1>5, <2>2, Zenon DEF Distinct
    <3> QED BY <1>3, <3>1
  <2>3. ASSUME NEW k \in DOMAIN rs, NEW l \in DOMAIN qs
        PROVE  rs[k].ep.block # qs[l].ep.block
    BY <1>5, Zenon DEF Blocks
  <2> QED BY <1>1, <1>5, <2>1, <2>2, <2>3, Zenon
<1>6. /\ Distinct(rs) /\ Distinct(qs) /\ Blocks(rs) \cap Blocks(qs) = {}
      => Distinct(s)
  BY <1>5, Zenon DEF Distinct
<1> QED BY <1>4, <1>6 DEF s

\* Results in the blocks of others are held like those.
LEMMA SameBlocks ==
  ASSUME NEW rs, NEW qs, DOMAIN rs = DOMAIN qs,
         \A i \in DOMAIN rs : qs[i].ep.block = rs[i].ep.block
  PROVE  Blocks(qs) = Blocks(rs) /\ (Distinct(rs) => Distinct(qs))
<1>1. Blocks(qs) = Blocks(rs)
  <2>1. ASSUME NEW b \in Blocks(rs) PROVE b \in Blocks(qs)
    BY <2>1, Zenon DEF Blocks
  <2>2. ASSUME NEW b \in Blocks(qs) PROVE b \in Blocks(rs)
    BY <2>2, Zenon DEF Blocks
  <2> QED BY <2>1, <2>2, Zenon
<1> QED BY <1>1, Zenon DEF Distinct

LEMMA Pushed ==
  ASSUME NEW fs \in Seq(Frame), NEW f, NEW hs, hs = Append(fs, f)
  PROVE  /\ Len(hs) = Len(fs) + 1 /\ Len(fs) \in Nat
         /\ DOMAIN hs = DOMAIN fs \cup {Len(fs) + 1}
         /\ DOMAIN fs = 1..Len(fs) /\ Len(fs) + 1 \notin DOMAIN fs
         /\ hs[Len(fs) + 1] = f /\ \A k \in DOMAIN fs : hs[k] = fs[k]
OBVIOUS

LEMMA Popped ==
  ASSUME NEW fs \in Seq(Frame), fs # <<>>
  PROVE  /\ Front(fs) \in Seq(Frame) /\ Last(fs) \in Frame
         /\ fs = Append(Front(fs), Last(fs))
<1>1. Len(fs) \in Nat /\ Len(fs) > 0 /\ DOMAIN fs = 1..Len(fs)
  OBVIOUS
<1>2. Front(fs) = [i \in 1..Len(fs)-1 |-> fs[i]] /\ Last(fs) = fs[Len(fs)]
  BY DEF Front, Last
<1> DEFINE h == [i \in 1..Len(fs)-1 |-> fs[i]]
<1>3. h \in Seq(Frame) /\ Len(h) = Len(fs) - 1
  BY <1>1
<1>4. fs = Append(h, fs[Len(fs)])
  BY <1>1, <1>3
<1> QED BY <1>1, <1>2, <1>3, <1>4

LEMMA PushApart ==
  ASSUME NEW fs \in Seq(Frame), NEW f, NEW hs, hs = Append(fs, f)
  PROVE  /\ StackBlocks(hs) = StackBlocks(fs) \cup FrameBlocks(f)
         /\ StackApart(hs) <=>
              /\ StackApart(fs) /\ Apart(f)
              /\ FrameBlocks(f) \cap StackBlocks(fs) = {}
<1> DEFINE n == Len(fs) + 1
<1>1. /\ DOMAIN hs = DOMAIN fs \cup {n} /\ n \notin DOMAIN fs
      /\ hs[n] = f /\ \A k \in DOMAIN fs : hs[k] = fs[k]
  BY Pushed
<1> HIDE DEF n
<1>2. StackBlocks(hs) = StackBlocks(fs) \cup FrameBlocks(f)
  <2>1. ASSUME NEW b \in StackBlocks(hs)
        PROVE  b \in StackBlocks(fs) \cup FrameBlocks(f)
    <3>1. PICK k \in DOMAIN hs : b \in FrameBlocks(hs[k])
      BY Zenon DEF StackBlocks
    <3> QED BY <1>1, <3>1, Zenon DEF StackBlocks
  <2>2. ASSUME NEW b \in StackBlocks(fs) PROVE b \in StackBlocks(hs)
    <3>1. PICK k \in DOMAIN fs : b \in FrameBlocks(fs[k])
      BY Zenon DEF StackBlocks
    <3> QED BY <1>1, <3>1, Zenon DEF StackBlocks
  <2>3. ASSUME NEW b \in FrameBlocks(f) PROVE b \in StackBlocks(hs)
    BY <1>1, <2>3, Zenon DEF StackBlocks
  <2> QED BY <2>1, <2>2, <2>3, Zenon
<1>3. ASSUME StackApart(hs)
      PROVE  /\ StackApart(fs) /\ Apart(f)
             /\ FrameBlocks(f) \cap StackBlocks(fs) = {}
  <2>1. StackApart(fs) /\ Apart(f)
    BY <1>1, <1>3, Zenon DEF StackApart
  <2>2. ASSUME NEW b \in FrameBlocks(f), b \in StackBlocks(fs) PROVE FALSE
    <3>1. PICK k \in DOMAIN fs : b \in FrameBlocks(fs[k])
      BY <2>2, Zenon DEF StackBlocks
    <3>2. FrameBlocks(hs[k]) \cap FrameBlocks(hs[n]) = {}
      BY <1>1, <1>3, Zenon DEF StackApart
    <3> QED BY <1>1, <2>2, <3>1, <3>2, Zenon
  <2> QED BY <2>1, <2>2, Zenon
<1>4. ASSUME StackApart(fs), Apart(f), FrameBlocks(f) \cap StackBlocks(fs) = {}
      PROVE  StackApart(hs)
  <2>1. \A k \in DOMAIN hs : Apart(hs[k])
    BY <1>1, <1>4, Zenon DEF StackApart
  <2>2. \A k \in DOMAIN fs : FrameBlocks(f) \cap FrameBlocks(fs[k]) = {}
    BY <1>4, Zenon DEF StackBlocks
  <2>3. \A k, l \in DOMAIN fs :
          k # l => FrameBlocks(fs[k]) \cap FrameBlocks(fs[l]) = {}
    BY <1>4, Zenon DEF StackApart
  <2>4. ASSUME NEW k \in DOMAIN hs, NEW l \in DOMAIN hs, k # l
        PROVE  FrameBlocks(hs[k]) \cap FrameBlocks(hs[l]) = {}
    <3>1. CASE k = n
      BY <1>1, <2>2, <2>4, <3>1
    <3>2. CASE l = n
      BY <1>1, <2>2, <2>4, <3>2
    <3>3. CASE k # n /\ l # n
      BY <1>1, <2>3, <2>4, <3>3, Zenon
    <3> QED BY <3>1, <3>2, <3>3
  <2> QED BY <2>1, <2>4, Zenon DEF StackApart
<1> QED BY <1>2, <1>3, <1>4, Zenon

LEMMA PushEnds ==
  ASSUME NEW fs \in Seq(Frame), NEW f, NEW hs, hs = Append(fs, f), NEW g
  PROVE  /\ Nested(hs, Len(hs)) <=>
              \/ Nested(fs, Len(fs))
              \/ f.kind \in {"global", "junction", "argument", "function"}
         /\ StackEnds(g, hs) <=>
              StackEnds(g, fs) /\ FrameEnds(g, f, Nested(fs, Len(fs)))
<1> DEFINE n == Len(fs) + 1
<1>1. /\ DOMAIN hs = DOMAIN fs \cup {n} /\ n \notin DOMAIN fs
      /\ hs[n] = f /\ \A k \in DOMAIN fs : hs[k] = fs[k]
      /\ Len(hs) = n /\ DOMAIN fs = 1..Len(fs) /\ Len(fs) \in Nat /\ n - 1 = Len(fs)
  BY Pushed
<1>2. 1..n = 1..Len(fs) \cup {n}
  BY <1>1
<1>3. ASSUME NEW k \in 0..Len(fs) PROVE Nested(hs, k) <=> Nested(fs, k)
  <2>1. \A i \in 1..k : i \in DOMAIN fs
    BY <1>1
  <2> QED BY <1>1, <2>1, Zenon DEF Nested
<1>4. \A k \in DOMAIN fs : k - 1 \in 0..Len(fs)
  BY <1>1
<1>5. n - 1 \in 0..Len(fs) /\ n - 1 = Len(fs)
  BY <1>1
<1> HIDE DEF n
<1>6. Nested(hs, n) <=>
        \/ Nested(fs, Len(fs))
        \/ f.kind \in {"global", "junction", "argument", "function"}
  <2> DEFINE K == {"global", "junction", "argument", "function"}
  <2> HIDE DEF K
  <2>1. (\E k \in 1..n : hs[k].kind \in K) <=>
          (\E k \in 1..Len(fs) : fs[k].kind \in K) \/ f.kind \in K
    BY <1>1, <1>2, Zenon
  <2> QED BY <2>1, Zenon DEF Nested, K
<1>7. StackEnds(g, hs) <=>
        StackEnds(g, fs) /\ FrameEnds(g, f, Nested(fs, Len(fs)))
  <2>1. \A k \in DOMAIN fs : Nested(hs, k - 1) <=> Nested(fs, k - 1)
    BY <1>3, <1>4, Zenon
  <2>2. Nested(hs, n - 1) <=> Nested(fs, Len(fs))
    BY <1>3, <1>5
  <2>3. \A k \in DOMAIN fs : FrameEnds(g, hs[k], Nested(hs, k - 1)) <=>
                             FrameEnds(g, fs[k], Nested(fs, k - 1))
    BY <1>1, <2>1, Zenon DEF FrameEnds
  <2>4. FrameEnds(g, hs[n], Nested(hs, n - 1)) <=>
        FrameEnds(g, f, Nested(fs, Len(fs)))
    BY <1>1, <2>2, Zenon DEF FrameEnds
  <2> QED BY <1>1, <2>3, <2>4, Zenon DEF StackEnds
<1> QED BY <1>1, <1>6, <1>7, Zenon

-----------------------------------------------------------------------------
(* The ways a step ends.                                                   *)

\* What the code does to a closed block: nothing.
ClosedKept ==
  \A b \in DOMAIN graph :
    graph[b].last # "open" /\ graph[b].role # "entry" => graph'[b] = graph[b]

EndsStep == EndsInv' /\ ClosedKept

LEMMA KeptClosed ==
  ASSUME NEW W, NEW C, Writes(graph, graph', W, C),
         Over(graph, W \cap DOMAIN graph)
  PROVE  ClosedKept
BY Zenon DEF Writes, Over, ClosedKept

LEMMA ReadyOver ==
  ASSUME NEW g, NEW S, Ready(g, S)
  PROVE  Over(g, S)
BY Zenon DEF Ready, Over

LEMMA StackOver ==
  ASSUME NEW g, NEW fs, StackEnds(g, fs)
  PROVE  Over(g, StackBlocks(fs))
BY Zenon DEF StackEnds, FrameEnds, StackBlocks, FrameBlocks, Over, Ready

LEMMA StackWrites ==
  ASSUME NEW g \in Seq(Block), NEW h \in Seq(Block), NEW W, NEW C,
         Writes(g, h, W, C), NEW fs, StackEnds(g, fs),
         StackBlocks(fs) \cap C = {}
  PROVE  StackEnds(h, fs)
<1> SUFFICES ASSUME NEW k \in DOMAIN fs
             PROVE  FrameEnds(h, fs[k], Nested(fs, k - 1))
  BY Zenon DEF StackEnds
<1>1. FrameEnds(g, fs[k], Nested(fs, k - 1))
  BY Zenon DEF StackEnds
<1>2. Blocks(Todo(fs[k])) \cap C = {} /\ Blocks(Done(fs[k])) \cap C = {}
  <2>1. FrameBlocks(fs[k]) \subseteq StackBlocks(fs)
    BY DEF StackBlocks
  <2> QED BY <2>1 DEF FrameBlocks
<1>3. /\ Ready(g, Blocks(Todo(fs[k]))) => Ready(h, Blocks(Todo(fs[k])))
      /\ Ready(g, Blocks(Done(fs[k]))) => Ready(h, Blocks(Done(fs[k])))
      /\ Over(g, Blocks(Done(fs[k]))) => Over(h, Blocks(Done(fs[k])))
  BY <1>2, WritesReady
<1> QED BY <1>1, <1>3, Zenon DEF FrameEnds

\* What is known on entering a node.
LEMMA Entered ==
  ASSUME EndsInv, pc = "build"
  PROVE  /\ StackApart(frames) /\ ep.block \notin StackBlocks(frames)
         /\ StackEnds(graph, frames) /\ NodeEnds(frames, node)
         /\ Ready(graph, {ep.block}) /\ Over(graph, {ep.block})
         /\ address \in Layout /\ error # "linkBlocks"
         /\ ep.block \in DOMAIN graph /\ graph[ep.block].last = "open"
         /\ graph[ep.block].role # "entry"
<1> DEFINE r == [ep |-> ep, values |-> values]
<1>1. r.ep = ep /\ Now = <<r>>
  BY DEF Now
<1> HIDE DEF r
<1>2. Blocks(Now) = {ep.block}
  BY <1>1, FewBlocks
<1>3. Ready(graph, {ep.block}) /\ Blocks(Now) \cap StackBlocks(frames) = {}
  BY <1>2, Zenon DEF EndsInv, Owned
<1>4. ep.block \notin StackBlocks(frames)
  BY <1>2, <1>3
<1> QED BY <1>3, <1>4, ReadyOver, Zenon DEF EndsInv, Owned, Ready

LEMMA EndsThrow ==
  ASSUME EndsInv, UNCHANGED address, NEW what, Throw(what), what # "linkBlocks"
  PROVE  EndsStep
BY DEF EndsInv, Throw, EndsStep, ClosedKept

LEMMA EndsBuild ==
  ASSUME EndsInv, UNCHANGED address, NEW n, NEW e, NEW vs, Build(n, e, vs),
         StackApart(frames'), e.block \notin StackBlocks(frames'),
         StackEnds(graph', frames'), NodeEnds(frames', n),
         Ready(graph', {e.block})
  PROVE  EndsInv'
<1> DEFINE r == [ep |-> e, values |-> vs]
<1>1. r.ep = e
  OBVIOUS
<1>2. Now' = <<r>> /\ pc' = "build" /\ node' = n /\ UNCHANGED error
  BY DEF Build, Now
<1> HIDE DEF r
<1>3. Blocks(Now') = {e.block} /\ Distinct(Now')
  BY <1>1, <1>2, FewBlocks
<1>4. Owned(frames', Now')
  BY <1>3 DEF Owned
<1>5. Ready(graph', Blocks(Now'))
  BY <1>3
<1>6. pc' # "return" /\ address' \in Layout /\ error' # "linkBlocks"
  BY <1>2 DEF EndsInv
<1> QED BY <1>2, <1>4, <1>5, <1>6, Zenon DEF EndsInv

LEMMA EndsReturn ==
  ASSUME EndsInv, UNCHANGED address, NEW rs, Return(rs),
         Owned(frames', rs), StackEnds(graph', frames'),
         ResultEnds(graph', frames', rs)
  PROVE  EndsInv'
BY DEF EndsInv, Return

\* A step that goes on in the same block and the same frames.
LEMMA EndsBuildHere ==
  ASSUME TypeOK, TypeOK', EndsInv, UNCHANGED address, pc = "build",
         NEW n, NEW e, NEW vs, Build(n, e, vs), e.block = ep.block,
         UNCHANGED frames, Writes(graph, graph', {ep.block}, {}),
         node \in Inner => n \in Inner
  PROVE  EndsStep
<1>1. /\ StackApart(frames) /\ ep.block \notin StackBlocks(frames)
      /\ StackEnds(graph, frames) /\ NodeEnds(frames, node)
      /\ Ready(graph, {ep.block}) /\ Over(graph, {ep.block})
  BY Entered
<1>2. graph \in Seq(Block) /\ graph' \in Seq(Block)
  BY DEF TypeOK
<1>3. StackEnds(graph', frames)
  BY <1>1, <1>2, StackWrites
<1>4. Ready(graph', {e.block})
  BY <1>1, <1>2, WritesReady
<1>5. ClosedKept
  <2>1. Over(graph, {ep.block} \cap DOMAIN graph)
    BY <1>1, Zenon DEF Over
  <2> QED BY <2>1, KeptClosed
<1>6. NodeEnds(frames', n)
  BY <1>1 DEF NodeEnds
<1> QED BY <1>1, <1>3, <1>4, <1>5, <1>6, EndsBuild DEF EndsStep

\* A step that writes nothing.
LEMMA Unwritten ==
  ASSUME TypeOK, EndsInv, UNCHANGED graph
  PROVE  /\ Writes(graph, graph', {}, {}) /\ ClosedKept
         /\ pc = "build" => Writes(graph, graph', {ep.block}, {})
<1>1. Writes(graph, graph', {}, {})
  BY WritesNothing DEF TypeOK
<1>2. Writes(graph, graph', {ep.block}, {})
  BY <1>1, WritesMore
<1> QED BY <1>1, <1>2 DEF ClosedKept

\* The nodes after an inner one.
LEMMA InnerNext ==
  ASSUME NEW n \in Inner
  PROVE  /\ n.kind \in WithConsumer => n.consumer \in Inner
         /\ n.kind = "conditional" => n.ifTrue \in Inner /\ n.ifFalse \in Inner
         /\ n.kind # "exportTerminator"
BY InnerAssumption, Zenon DEF IsInner

\* A step that enters a nested build where it is, and holds nothing meanwhile.
LEMMA EndsPush ==
  ASSUME TypeOK, TypeOK', EndsInv, UNCHANGED <<address, graph>>, pc = "build",
         NEW n \in Inner, NEW e, NEW vs, Build(n, e, vs), e.block = ep.block,
         NEW f, Push(f), Todo(f) = <<>>, Done(f) = <<>>,
         Continues(f) /\ node \in Inner => f.node \in Inner
  PROVE  EndsStep
<1>1. /\ StackApart(frames) /\ ep.block \notin StackBlocks(frames)
      /\ StackEnds(graph, frames) /\ NodeEnds(frames, node)
      /\ Ready(graph, {ep.block})
  BY Entered
<1>2. frames \in Seq(Frame) /\ frames' = Append(frames, f)
  BY DEF TypeOK, Push
<1>3. FrameBlocks(f) = {} /\ Apart(f)
  BY FewBlocks DEF FrameBlocks, Apart
<1>4. StackApart(frames') /\ StackBlocks(frames') = StackBlocks(frames)
  BY <1>1, <1>2, <1>3, PushApart
<1>5. FrameEnds(graph', f, Nested(frames, Len(frames)))
  <2>1. Blocks(Todo(f)) = {} /\ Blocks(Done(f)) = {}
    BY FewBlocks
  <2>2. \A g : Ready(g, {}) /\ Over(g, {})
    BY DEF Ready, Over
  <2>3. Nested(frames, Len(frames)) => node \in Inner
    BY <1>1 DEF NodeEnds
  <2> QED BY <2>1, <2>2, <2>3 DEF FrameEnds
<1>6. StackEnds(graph', frames')
  BY <1>1, <1>2, <1>5, PushEnds
<1>7. NodeEnds(frames', n)
  BY DEF NodeEnds
<1> QED BY <1>1, <1>4, <1>6, <1>7, EndsBuild, Unwritten DEF EndsStep

-----------------------------------------------------------------------------
(* The actions.                                                            *)

LEMMA LiteralEnds ==
  ASSUME TypeOK, TypeOK', EndsInv, UNCHANGED address, Literal
  PROVE  EndsStep
<1>1. node \in Inner => node.consumer \in Inner
  BY InnerNext DEF Literal, Entering, WithConsumer
<1> QED BY <1>1, Unwritten, EndsBuildHere DEF Literal, Entering

LEMMA MemberEnds ==
  ASSUME TypeOK, TypeOK', EndsInv, UNCHANGED address, Member
  PROVE  EndsStep
<1>1. pc = "build" /\ (node \in Inner => node.consumer \in Inner)
  BY InnerNext DEF Member, Entering, WithConsumer
<1>2. ASSUME NEW vs, Build(node.consumer, ep, vs),
             graph' = Emit(graph, ep.block), UNCHANGED frames
      PROVE  EndsStep
  <2>1. Writes(graph, graph', {ep.block}, {})
    BY <1>2, EmitWrites DEF TypeOK
  <2> QED BY <1>1, <1>2, <2>1, EndsBuildHere
<1>3. ASSUME NEW vs, Build(node.consumer, ep, vs), UNCHANGED <<graph, frames>>
      PROVE  EndsStep
  BY <1>1, <1>3, Unwritten, EndsBuildHere
<1>4. ASSUME NEW g \in unit.globals, Build(g.value, ep, values),
             Push([kind |-> "global", node |-> node.consumer, ep |-> ep]),
             UNCHANGED graph
      PROVE  EndsStep
  <2> DEFINE f == [kind |-> "global", node |-> node.consumer, ep |-> ep]
  <2>1. g.value \in Inner
    BY InnerAssumption DEF TypeOK
  <2>2. Todo(f) = <<>> /\ Done(f) = <<>> /\ f.node = node.consumer
    BY DEF Todo, Done
  <2>3. Push(f)
    BY <1>4
  <2> HIDE DEF f
  <2> QED BY <1>1, <1>4, <2>1, <2>2, <2>3, EndsPush
<1>5. ASSUME Throw("UndeclaredIdentifierException") PROVE EndsStep
  BY <1>5, EndsThrow
<1> QED BY <1>2, <1>3, <1>4, <1>5, Zenon DEF Member

LEMMA UnderflowEnds ==
  ASSUME EndsInv, UNCHANGED address, Underflow
  PROVE  EndsStep
BY EndsThrow DEF Underflow

LEMMA LocalEnds ==
  ASSUME TypeOK, TypeOK', EndsInv, UNCHANGED address, Local
  PROVE  EndsStep
<1>1. CASE values = <<>>
  BY <1>1, UnderflowEnds DEF Local
<1>2. CASE values # <<>>
  <2> DEFINE l == [ep.locals EXCEPT ![node.name] = Last(values)]
  <2>1. Build(node.consumer, WithLocals(ep, l), Front(values))
          /\ UNCHANGED <<frames, graph>> /\ pc = "build" /\ node.kind = "local"
    BY <1>2 DEF Local, Entering
  <2> HIDE DEF l
  <2>2. WithLocals(ep, l).block = ep.block
    BY DEF TypeOK, WithLocals, EP
  <2>3. node \in Inner => node.consumer \in Inner
    BY <2>1, InnerNext DEF WithConsumer
  <2> QED BY <2>1, <2>2, <2>3, Unwritten, EndsBuildHere
<1> QED BY <1>1, <1>2

LEMMA BinaryEnds ==
  ASSUME TypeOK, TypeOK', EndsInv, UNCHANGED address, Binary
  PROVE  EndsStep
<1> DEFINE left == values[Len(values)]
           right == values[Len(values) - 1]
<1>1. ASSUME NEW vs, NEW agree \in BOOLEAN, Build(node.consumer, ep, vs),
             graph' = EmitTyped(graph, ep.block, agree), UNCHANGED frames
      PROVE  EndsStep
  <2>1. Writes(graph, graph', {ep.block}, {})
    BY <1>1, EmitTypedWrites DEF TypeOK
  <2>2. pc = "build" /\ (node \in Inner => node.consumer \in Inner)
    BY InnerNext DEF Binary, Entering, WithConsumer
  <2> QED BY <1>1, <2>1, <2>2, EndsBuildHere
<1>2. ASSUME Throw("InvalidTypeException") PROVE EndsStep
  BY <1>2, EndsThrow
<1>3. (left.type = right.type) \in BOOLEAN
  OBVIOUS
<1> QED BY <1>1, <1>2, <1>3, UnderflowEnds, Zenon DEF Binary

LEMMA StackFrameEnds ==
  ASSUME TypeOK, TypeOK', EndsInv, UNCHANGED address, StackFrame
  PROVE  EndsStep
<1>1. node \in Inner => node.consumer \in Inner
  BY InnerNext DEF StackFrame, Entering, WithConsumer
<1> QED BY <1>1, Unwritten, EndsBuildHere DEF StackFrame, Entering

LEMMA ReferenceSinkEnds ==
  ASSUME TypeOK, TypeOK', EndsInv, UNCHANGED address, ReferenceSink
  PROVE  EndsStep
<1>1. CASE values = <<>>
  BY <1>1, UnderflowEnds DEF ReferenceSink
<1>2. CASE values # <<>>
  <2>1. /\ graph' = Emit(graph, ep.block) \/ UNCHANGED graph
        /\ UNCHANGED frames
        /\ \E vs : Build(node.consumer, ep, vs)
    BY <1>2, Zenon DEF ReferenceSink
  <2>2. pc = "build" /\ (node \in Inner => node.consumer \in Inner)
    BY InnerNext DEF ReferenceSink, Entering, WithConsumer
  <2>3. Writes(graph, graph', {ep.block}, {})
    BY <2>1, <2>2, Unwritten, EmitWrites DEF TypeOK
  <2> QED BY <2>1, <2>2, <2>3, EndsBuildHere
<1> QED BY <1>1, <1>2

LEMMA ReturnStatementEnds ==
  ASSUME TypeOK, TypeOK', EndsInv, UNCHANGED address, ReturnStatement
  PROVE  EndsStep
<1>1. CASE values = <<>>
  BY <1>1, UnderflowEnds DEF ReturnStatement
<1>2. CASE values # <<>>
  <2> DEFINE g == InsertBlock(graph, ep.block)
  <2>1. /\ graph' = g \/ graph' = Emit(g, ep.block)
        /\ Build(node.consumer, ep, values) /\ UNCHANGED frames
    BY <1>2, Zenon DEF ReturnStatement
  <2>2. g \in Seq(Block) /\ Writes(graph, g, {ep.block}, {})
    BY InsertBlockType, InsertBlockWrites DEF TypeOK
  <2> HIDE DEF g
  <2>3. Writes(graph, graph', {ep.block}, {})
    <3>1. CASE graph' = g
      BY <2>2, <3>1
    <3>2. CASE graph' = Emit(g, ep.block)
      <4>1. Writes(g, graph', {ep.block}, {})
        BY <2>2, <3>2, EmitWrites
      <4> QED BY <2>2, <4>1, WritesThen DEF TypeOK
    <3> QED BY <2>1, <3>1, <3>2
  <2>4. pc = "build" /\ (node \in Inner => node.consumer \in Inner)
    BY InnerNext DEF ReturnStatement, Entering, WithConsumer
  <2> QED BY <2>1, <2>3, <2>4, EndsBuildHere
<1> QED BY <1>1, <1>2

-----------------------------------------------------------------------------
(* What is known of the frame the results go to.                           *)

LEMMA Returned ==
  ASSUME TypeOK, EndsInv, NEW kind, Returning(kind), NEW f, f = Last(frames),
         NEW below, below = Front(frames)
  PROVE  /\ below \in Seq(Frame) /\ f \in Frame /\ f.kind = kind
         /\ StackApart(below) /\ StackEnds(graph, below)
         /\ Apart(f) /\ FrameEnds(graph, f, Nested(below, Len(below)))
         /\ FrameBlocks(f) \cap StackBlocks(below) = {}
         /\ results \in Seq(Result) /\ Distinct(results)
         /\ Blocks(results) \cap StackBlocks(below) = {}
         /\ Blocks(results) \cap FrameBlocks(f) = {}
         /\ Over(graph, Blocks(results))
         /\ Nested(below, Len(below)) => Ready(graph, Blocks(results))
         /\ kind \in {"global", "junction", "argument", "function"} =>
              Ready(graph, Blocks(results))
         /\ address \in Layout /\ pc = "return"
<1>1. /\ pc = "return" /\ frames \in Seq(Frame) /\ frames # <<>>
      /\ results \in Seq(Result)
  BY DEF Returning, TypeOK
<1>2. below \in Seq(Frame) /\ f \in Frame /\ frames = Append(below, f)
  BY <1>1, Popped
<1>3. /\ Owned(frames, results) /\ StackEnds(graph, frames)
      /\ ResultEnds(graph, frames, results) /\ address \in Layout
  BY <1>1, Zenon DEF EndsInv
<1>4. f.kind = kind
  BY DEF Returning
<1>5. /\ StackBlocks(frames) = StackBlocks(below) \cup FrameBlocks(f)
      /\ StackApart(below) /\ Apart(f)
      /\ FrameBlocks(f) \cap StackBlocks(below) = {}
  BY <1>2, <1>3, PushApart DEF Owned
<1>6. /\ Nested(frames, Len(frames)) <=>
           \/ Nested(below, Len(below))
           \/ kind \in {"global", "junction", "argument", "function"}
      /\ StackEnds(graph, below)
      /\ FrameEnds(graph, f, Nested(below, Len(below)))
  BY <1>2, <1>3, <1>4, PushEnds
<1>7. Distinct(results) /\ Blocks(results) \cap StackBlocks(frames) = {}
  BY <1>3 DEF Owned
<1>8. /\ Blocks(results) \cap StackBlocks(below) = {}
      /\ Blocks(results) \cap FrameBlocks(f) = {}
  BY <1>5, <1>7
<1> QED BY <1>1, <1>2, <1>3, <1>4, <1>5, <1>6, <1>7, <1>8, Zenon DEF ResultEnds

\* The loop over consumers goes on, with what is done and left to do.
LEMMA EndsBuildEach ==
  ASSUME TypeOK, TypeOK', EndsInv, UNCHANGED address,
         NEW below \in Seq(Frame), NEW n, NEW e, NEW prefix,
         NEW todo \in Seq(Result), NEW done \in Seq(Result),
         BuildEach(below, n, e, prefix, todo, done),
         StackApart(below), StackEnds(graph', below),
         Distinct(todo), Distinct(done), Blocks(todo) \cap Blocks(done) = {},
         Blocks(todo) \cap StackBlocks(below) = {},
         Blocks(done) \cap StackBlocks(below) = {},
         Ready(graph', Blocks(todo)), Over(graph', Blocks(done)),
         Nested(below, Len(below)) => Ready(graph', Blocks(done)) /\ n \in Inner
  PROVE  EndsInv'
<1>1. CASE todo = <<>>
  <2>1. Return(done) /\ frames' = below
    BY <1>1 DEF BuildEach
  <2> QED BY <2>1, EndsReturn DEF Owned, ResultEnds
<1>2. CASE todo # <<>>
  <2> DEFINE f == [kind |-> "each", node |-> n, ep |-> e, prefix |-> prefix,
                   todo |-> Tail(todo), done |-> done]
             b == todo[1].ep.block
  <2>1. Build(n, todo[1].ep, todo[1].values) /\ frames' = Append(below, f)
    BY <1>2 DEF BuildEach
  <2>2. /\ Distinct(Tail(todo)) /\ b \notin Blocks(Tail(todo))
        /\ Blocks(todo) = Blocks(Tail(todo)) \cup {b}
    BY <1>2, TailBlocks
  <2>3. /\ Todo(f) = Tail(todo) /\ Done(f) = done /\ f.kind = "each"
        /\ f.node = n
    BY DEF Todo, Done
  <2> HIDE DEF f, b
  <2>4. FrameBlocks(f) = Blocks(Tail(todo)) \cup Blocks(done)
    BY <2>3 DEF FrameBlocks
  <2>5. /\ Apart(f) /\ FrameBlocks(f) \cap StackBlocks(below) = {}
        /\ b \notin FrameBlocks(f) /\ b \notin StackBlocks(below)
    BY <2>2, <2>3, <2>4 DEF Apart
  <2>6. StackApart(frames') /\ b \notin StackBlocks(frames')
    <3>1. /\ StackBlocks(frames') = StackBlocks(below) \cup FrameBlocks(f)
          /\ StackApart(frames')
      BY <2>1, <2>5, PushApart
    <3> QED BY <2>5, <3>1
  <2>7. Ready(graph', Blocks(Tail(todo))) /\ Ready(graph', {b})
    BY <2>2 DEF Ready
  <2>8. FrameEnds(graph', f, Nested(below, Len(below)))
    BY <2>3, <2>7 DEF FrameEnds
  <2>9. StackEnds(graph', frames') /\ NodeEnds(frames', n)
    <3>1. /\ StackEnds(graph', frames')
          /\ Nested(frames', Len(frames')) <=> Nested(below, Len(below))
      BY <2>1, <2>3, <2>8, PushEnds
    <3> QED BY <3>1 DEF NodeEnds
  <2> QED BY <2>1, <2>6, <2>7, <2>9, EndsBuild DEF b
<1> QED BY <1>1, <1>2

LEMMA ReturnGlobalEnds ==
  ASSUME TypeOK, TypeOK', EndsInv, UNCHANGED address, ReturnGlobal
  PROVE  EndsStep
<1> DEFINE f == Last(frames)
           below == Front(frames)
           none == <<>>
<1>1. Returning("global") /\ UNCHANGED graph
        /\ BuildEach(below, f.node, f.ep, none, results, none)
  BY DEF ReturnGlobal
<1>2. /\ below \in Seq(Frame) /\ f.kind = "global"
      /\ StackApart(below) /\ StackEnds(graph, below)
      /\ FrameEnds(graph, f, Nested(below, Len(below)))
      /\ results \in Seq(Result) /\ Distinct(results)
      /\ Blocks(results) \cap StackBlocks(below) = {}
      /\ Ready(graph, Blocks(results))
  BY <1>1, Returned
<1>3. Blocks(none) = {} /\ Distinct(none) /\ none \in Seq(Result)
  BY FewBlocks
<1>4. \A g : Ready(g, {}) /\ Over(g, {})
  BY DEF Ready, Over
<1>5. Nested(below, Len(below)) => f.node \in Inner
  BY <1>2 DEF FrameEnds, Continues
<1> HIDE DEF f, below, none
<1>6. EndsInv'
  BY <1>1, <1>2, <1>3, <1>4, <1>5, EndsBuildEach
<1> QED BY <1>1, <1>6, Unwritten DEF EndsStep

LEMMA ProduceEnds ==
  ASSUME TypeOK, TypeOK', EndsInv, UNCHANGED address, Produce
  PROVE  EndsStep
BY LiteralEnds, MemberEnds, ReturnGlobalEnds, LocalEnds, BinaryEnds,
   StackFrameEnds, ReferenceSinkEnds, ReturnStatementEnds, Zenon DEF Produce

-----------------------------------------------------------------------------
\* A block is closed by a branch to a new one.
LEMMA NewBlockWrites ==
  ASSUME NEW g \in Seq(Block), NEW b \in DOMAIN g,
         NEW role \in Roles, NEW inserted \in BOOLEAN, NEW n, n = Len(g) + 1,
         NEW h, h = LinkBlocks(AddBlocks(InsertBlock(g, b), role, inserted, 1),
                               b, n)
  PROVE  /\ Writes(g, h, {b}, {b}) /\ h \in Seq(Block)
         /\ Len(h) = n /\ n \in DOMAIN h /\ n \notin DOMAIN g
         /\ h[n].role = role /\ h[n].last = "open"
<1> DEFINE k == InsertBlock(g, b)
           m == AddBlocks(k, role, inserted, 1)
           l == LinkBlocks(m, b, n)
<1>1. /\ k \in Seq(Block) /\ m \in Seq(Block) /\ n \in Nat
      /\ h = l /\ h \in Seq(Block)
  <2>1. k \in Seq(Block) /\ n \in Nat /\ 1 \in Nat
    BY InsertBlockType
  <2> HIDE DEF k
  <2>2. m \in Seq(Block)
    BY <2>1, AddBlocksType, Zenon
  <2>3. h = l
    BY DEF k
  <2> HIDE DEF m
  <2>4. l \in Seq(Block)
    BY <2>1, <2>2, LinkBlocksType
  <2> QED BY <2>1, <2>2, <2>3, <2>4
<1>2. Writes(g, k, {b}, {}) /\ Len(k) = Len(g)
  BY InsertBlockWrites
<1> HIDE DEF k
<1>3. /\ Writes(k, m, {}, {}) /\ Len(m) = Len(k) + 1
      /\ \A c \in DOMAIN m \ DOMAIN k : m[c].role = role /\ m[c].last = "open"
  BY <1>1, AddBlocksWrites
<1> HIDE DEF m
<1>4. Writes(m, h, {b}, {b}) /\ Len(h) = Len(m)
  <2>1. m \in Seq(Block) /\ n \in Nat /\ h = LinkBlocks(m, b, n)
    BY <1>1
  <2> HIDE DEF l
  <2> QED BY <2>1, LinkBlocksWrites
<1> HIDE DEF l
<1>5. Writes(g, k, {b}, {b}) /\ Writes(k, m, {b}, {b})
  BY <1>2, <1>3, WritesMore
<1>6. Writes(g, m, {b}, {b})
  BY <1>1, <1>5, WritesThen
<1>7. Writes(g, h, {b}, {b})
  BY <1>1, <1>4, <1>6, WritesThen
<1>8. /\ DOMAIN g = 1..Len(g) /\ DOMAIN k = 1..Len(g) /\ DOMAIN m = 1..n
      /\ DOMAIN h = 1..n /\ Len(g) \in Nat /\ Len(h) = n
  BY <1>1, <1>2, <1>3, <1>4
<1>9. n \in DOMAIN m \ DOMAIN k /\ n # b /\ n \in DOMAIN h /\ n \notin DOMAIN g
  BY <1>8
<1>10. h[n] = m[n]
  BY <1>4, <1>9 DEF Writes
<1> QED BY <1>1, <1>3, <1>7, <1>8, <1>9, <1>10

\* A block that is not there yet is held by nobody.
LEMMA NewIsFree ==
  ASSUME NEW g, NEW fs, StackEnds(g, fs), NEW b, b \notin DOMAIN g
  PROVE  b \notin StackBlocks(fs)
BY StackOver, Zenon DEF Over

LEMMA TerminatorEnds ==
  ASSUME TypeOK, TypeOK', EndsInv, UNCHANGED address, Terminator
  PROVE  EndsStep
<1> DEFINE r == [ep |-> ep, values |-> values]
<1>1. Return(<<r>>) /\ UNCHANGED <<frames, graph>> /\ pc = "build"
  BY DEF Terminator, Entering
<1>2. r.ep.block = ep.block
  OBVIOUS
<1> HIDE DEF r
<1>3. /\ StackApart(frames) /\ ep.block \notin StackBlocks(frames)
      /\ StackEnds(graph, frames) /\ Ready(graph, {ep.block})
      /\ Over(graph, {ep.block})
  BY <1>1, Entered
<1>4. Blocks(<<r>>) = {ep.block} /\ Distinct(<<r>>)
  BY <1>2, FewBlocks
<1>5. Owned(frames, <<r>>) /\ ResultEnds(graph, frames, <<r>>)
  BY <1>3, <1>4 DEF Owned, ResultEnds
<1> QED BY <1>1, <1>3, <1>5, EndsReturn, Unwritten DEF EndsStep

LEMMA ExportTerminatorEnds ==
  ASSUME TypeOK, TypeOK', EndsInv, UNCHANGED address, ExportTerminator
  PROVE  EndsStep
<1> DEFINE b == Len(graph) + 1
           linked == LinkBlocks(AddBlocks(InsertBlock(graph, ep.block),
                                          "entry", TRUE, 1), ep.block, b)
           agree == Last(values).type = unit.returns
           r == [ep |-> WithBlock(ep, b), values |-> Front(values)]
<1>1. /\ StackApart(frames) /\ StackEnds(graph, frames)
      /\ NodeEnds(frames, node) /\ Over(graph, {ep.block})
      /\ ep.block \in DOMAIN graph /\ graph[ep.block].last = "open"
      /\ ep.block \notin StackBlocks(frames)
  BY Entered DEF ExportTerminator, Entering
<1>2. Linkable(graph, ep.block)
  BY <1>1 DEF Linkable
<1>3. ~ Nested(frames, Len(frames))
  BY <1>1, InnerNext DEF NodeEnds, ExportTerminator, Entering
<1>4. ASSUME graph' = Terminate(linked, b, "ret", {}, agree),
             Return(<<r>>), UNCHANGED frames
      PROVE  EndsStep
  <2>1. "entry" \in Roles /\ graph \in Seq(Block) /\ agree \in BOOLEAN
        /\ graph' \in Seq(Block) /\ ep \in EP
    BY DEF Roles, TypeOK
  <2>2. /\ Writes(graph, linked, {ep.block}, {ep.block})
        /\ linked \in Seq(Block) /\ b \in DOMAIN linked /\ b \notin DOMAIN graph
        /\ linked[b].role = "entry"
    <3> DEFINE yes == TRUE
    <3>1. b = Len(graph) + 1 /\ yes \in BOOLEAN
      OBVIOUS
    <3>2. linked = LinkBlocks(AddBlocks(InsertBlock(graph, ep.block),
                                        "entry", yes, 1), ep.block, b)
      OBVIOUS
    <3> HIDE DEF b, linked, yes
    <3> QED BY <1>1, <2>1, <3>1, <3>2, NewBlockWrites
  <2> HIDE DEF linked, agree
  <2>3. r.ep.block = b
    BY <2>1 DEF WithBlock, EP
  <2> HIDE DEF r
  <2>4. Writes(linked, graph', {b}, {b}) /\ Len(graph') = Len(linked)
    <3> DEFINE none == {}
    <3>1. graph' = Terminate(linked, b, "ret", none, agree)
      BY <1>4
    <3>2. linked \in Seq(Block) /\ agree \in BOOLEAN
      BY <2>1, <2>2
    <3> HIDE DEF b, none
    <3> QED BY <3>1, <3>2, TerminateWrites
  <2> HIDE DEF b
  <2> DEFINE W == {ep.block, b}
  <2>5. Writes(graph, graph', W, W)
    <3>1. Writes(graph, linked, W, W) /\ Writes(linked, graph', W, W)
      BY <2>2, <2>4, WritesMore
    <3> QED BY <2>1, <2>2, <3>1, WritesThen
  <2>6. b \notin StackBlocks(frames)
    BY <1>1, <2>2, NewIsFree
  <2>7. StackEnds(graph', frames)
    <3>1. StackBlocks(frames) \cap W = {}
      BY <1>1, <2>6
    <3> QED BY <1>1, <2>1, <2>5, <3>1, StackWrites
  <2>8. ClosedKept
    <3>1. W \cap DOMAIN graph = {ep.block}
      BY <1>1, <2>2
    <3> QED BY <1>1, <2>5, <3>1, KeptClosed
  <2>9. b \in DOMAIN graph' /\ graph'[b].role = "entry"
    <3>1. b \in DOMAIN graph'
      BY <2>1, <2>2, <2>4
    <3> QED BY <2>2, <2>4, <3>1 DEF Writes
  <2>10. Blocks(<<r>>) = {b} /\ Distinct(<<r>>)
    BY <2>3, FewBlocks
  <2>11. Owned(frames', <<r>>) /\ ResultEnds(graph', frames', <<r>>)
    BY <1>1, <1>3, <1>4, <2>6, <2>9, <2>10 DEF Owned, ResultEnds, Over
  <2> QED BY <1>4, <2>7, <2>8, <2>11, EndsReturn DEF EndsStep
<1>5. ASSUME Throw("InvalidTypeException") PROVE EndsStep
  BY <1>5, EndsThrow
<1> QED BY <1>2, <1>4, <1>5, UnderflowEnds, Zenon DEF ExportTerminator

LEMMA LeaveEnds ==
  ASSUME TypeOK, TypeOK', EndsInv, UNCHANGED address, Leave
  PROVE  EndsStep
BY TerminatorEnds, ExportTerminatorEnds DEF Leave

-----------------------------------------------------------------------------
\* The two branches of a conditional: new blocks, the condition's is closed.
LEMMA BranchWrites ==
  ASSUME NEW g \in Seq(Block), NEW b \in DOMAIN g,
         NEW true, true = Len(g) + 1, NEW false, false = Len(g) + 2,
         NEW agree \in BOOLEAN,
         NEW h, h = Terminate(
                      AddBlocks(AddBlocks(InsertBlock(g, b),
                                          "true", FALSE, 1), "false", FALSE, 1),
                      b, "cond", {true, false}, agree)
  PROVE  /\ Writes(g, h, {b}, {b}) /\ Ready(h, {true, false})
         /\ true \notin DOMAIN g /\ false \notin DOMAIN g /\ true # false
<1> DEFINE no == FALSE
           one == AddBlocks(InsertBlock(g, b), "true", no, 1)
           both == {true, false}
           two == AddBlocks(one, "false", no, 1)
<1>1. /\ no \in BOOLEAN /\ 1 \in Nat /\ "true" \in Roles /\ "false" \in Roles
      /\ Len(g) \in Nat
  BY DEF Roles
<1>2. h = Terminate(two, b, "cond", both, agree)
  OBVIOUS
<1> HIDE DEF no, both
<1>3. InsertBlock(g, b) \in Seq(Block)
  BY InsertBlockType
<1>4. /\ Writes(g, InsertBlock(g, b), {b}, {})
      /\ Len(InsertBlock(g, b)) = Len(g)
  BY InsertBlockWrites
<1>5. one \in Seq(Block)
  BY <1>1, <1>3, AddBlocksType
<1>6. /\ Writes(InsertBlock(g, b), one, {}, {})
      /\ Len(one) = Len(InsertBlock(g, b)) + 1
      /\ \A c \in DOMAIN one \ DOMAIN InsertBlock(g, b) :
           one[c].role = "true" /\ one[c].last = "open"
  BY <1>1, <1>3, AddBlocksWrites
<1> HIDE DEF one
<1>7. two \in Seq(Block)
  BY <1>1, <1>5, AddBlocksType
<1>8. /\ Writes(one, two, {}, {}) /\ Len(two) = Len(one) + 1
      /\ \A c \in DOMAIN two \ DOMAIN one :
           two[c].role = "false" /\ two[c].last = "open"
  BY <1>1, <1>5, AddBlocksWrites
<1> HIDE DEF two
<1>9. Writes(two, h, {b}, {b}) /\ Len(h) = Len(two) /\ h \in Seq(Block)
  <2>1. Writes(two, h, {b}, {b}) /\ Len(h) = Len(two)
    BY <1>2, <1>7, TerminateWrites
  <2>2. h \in Seq(Block)
    <3>1. both \subseteq Nat /\ "cond" \in Terminators
      BY <1>1 DEF both, Terminators
    <3> QED BY <1>2, <1>7, <3>1, TerminateType
  <2> QED BY <2>1, <2>2
<1>10. /\ DOMAIN g = 1..Len(g) /\ DOMAIN InsertBlock(g, b) = DOMAIN g
       /\ DOMAIN one = 1..true /\ DOMAIN two = 1..false
       /\ DOMAIN h = 1..false /\ true \in Nat /\ false = true + 1
  BY <1>1, <1>3, <1>4, <1>5, <1>6, <1>7, <1>8, <1>9
<1>11. /\ true \in DOMAIN one \ DOMAIN g /\ false \in DOMAIN two \ DOMAIN one
       /\ true \in DOMAIN two /\ true \in DOMAIN h /\ false \in DOMAIN h
       /\ true \notin DOMAIN g /\ false \notin DOMAIN g /\ true # false
       /\ true # b /\ false # b
  BY <1>1, <1>10
<1>12. Writes(g, h, {b}, {b})
  <2>1. /\ Writes(g, InsertBlock(g, b), {b}, {b})
        /\ Writes(InsertBlock(g, b), one, {b}, {b})
        /\ Writes(one, two, {b}, {b})
    BY <1>4, <1>6, <1>8, WritesMore
  <2>2. Writes(g, one, {b}, {b})
    BY <1>3, <1>5, <2>1, WritesThen
  <2>3. Writes(g, two, {b}, {b})
    BY <1>5, <1>7, <2>1, <2>2, WritesThen
  <2> QED BY <1>7, <1>9, <2>3, WritesThen
<1>13. h[true] = two[true] /\ h[false] = two[false] /\ two[true] = one[true]
  BY <1>8, <1>9, <1>10, <1>11 DEF Writes
<1>14. /\ h[true].role = "true" /\ h[true].last = "open"
       /\ h[false].role = "false" /\ h[false].last = "open"
  BY <1>6, <1>8, <1>10, <1>11, <1>13
<1>15. Ready(h, {true, false})
  BY <1>11, <1>14 DEF Ready
<1> QED BY <1>11, <1>12, <1>15

LEMMA ConditionalEnds ==
  ASSUME TypeOK, TypeOK', EndsInv, UNCHANGED address, Conditional
  PROVE  EndsStep
<1> DEFINE true == Len(graph) + 1
           false == Len(graph) + 2
           created == AddBlocks(AddBlocks(InsertBlock(graph, ep.block),
                                          "true", FALSE, 1), "false", FALSE, 1)
           agree == Last(values).type = "bool"
           e == WithBlock(WithName(ep, <<"ifTrue">>), true)
           f == [kind |-> "ifTrue", node |-> node.ifFalse, ep |-> ep,
                 block |-> false, values |-> Front(values)]
           r == [ep |-> WithBlock(ep, false), values |-> Front(values)]
<1>1. ASSUME Throw("InvalidTypeException") PROVE EndsStep
  BY <1>1, EndsThrow
<1>2. ASSUME graph' = Terminate(created, ep.block, "cond", {true, false}, agree),
             Build(node.ifTrue, e, Front(values)), Push(f)
      PROVE  EndsStep
  <2>1. /\ StackApart(frames) /\ StackEnds(graph, frames)
        /\ NodeEnds(frames, node) /\ Over(graph, {ep.block})
        /\ ep.block \in DOMAIN graph /\ ep.block \notin StackBlocks(frames)
    BY Entered DEF Conditional, Entering
  <2>2. /\ agree \in BOOLEAN /\ graph \in Seq(Block) /\ graph' \in Seq(Block)
        /\ frames \in Seq(Frame) /\ ep \in EP
    BY DEF TypeOK
  <2>3. node \in Inner => node.ifTrue \in Inner /\ node.ifFalse \in Inner
    BY InnerNext DEF Conditional, Entering
  <2>4. r.ep.block = false
    BY <2>2 DEF WithBlock, EP
  <2>5. e.block = true
    <3>1. WithName(ep, <<"ifTrue">>) \in EP
      BY <2>2, WithNameType, NameAssumption
    <3> QED BY <3>1 DEF WithBlock, EP
  <2>6. /\ Todo(f) = <<r>> /\ Done(f) = <<>> /\ f.node = node.ifFalse
        /\ f.kind = "ifTrue" /\ Push(f)
    BY <1>2 DEF Todo, Done
  <2>7. /\ Writes(graph, graph', {ep.block}, {ep.block})
        /\ Ready(graph', {true, false}) /\ true # false
        /\ true \notin DOMAIN graph /\ false \notin DOMAIN graph
    <3> HIDE DEF agree
    <3> QED BY <1>2, <2>1, <2>2, BranchWrites
  <2> HIDE DEF true, false, created, agree, e, f, r
  <2>8. true \notin StackBlocks(frames) /\ false \notin StackBlocks(frames)
    BY <2>1, <2>7, NewIsFree
  <2>9. StackEnds(graph', frames)
    <3>1. StackBlocks(frames) \cap {ep.block} = {}
      BY <2>1
    <3> QED BY <2>1, <2>2, <2>7, <3>1, StackWrites
  <2>10. ClosedKept
    <3>1. {ep.block} \cap DOMAIN graph = {ep.block}
      BY <2>1
    <3> QED BY <2>1, <2>7, <3>1, KeptClosed
  <2>11. /\ Blocks(Todo(f)) = {false} /\ Blocks(Done(f)) = {}
         /\ FrameBlocks(f) = {false} /\ Apart(f)
    BY <2>4, <2>6, FewBlocks DEF FrameBlocks, Apart
  <2>12. frames' = Append(frames, f)
    BY <2>6 DEF Push
  <2>13. StackApart(frames') /\ true \notin StackBlocks(frames')
    <3>1. FrameBlocks(f) \cap StackBlocks(frames) = {} /\ true \notin FrameBlocks(f)
      BY <2>7, <2>8, <2>11
    <3>2. /\ StackBlocks(frames') = StackBlocks(frames) \cup FrameBlocks(f)
          /\ StackApart(frames')
      BY <2>1, <2>2, <2>11, <2>12, <3>1, PushApart
    <3> QED BY <2>8, <3>1, <3>2
  <2>14. Ready(graph', {true}) /\ Ready(graph', {false})
    BY <2>7 DEF Ready
  <2>15. FrameEnds(graph', f, Nested(frames, Len(frames)))
    <3>1. Ready(graph', {}) /\ Over(graph', {})
      BY DEF Ready, Over
    <3>2. Nested(frames, Len(frames)) => f.node \in Inner
      BY <2>1, <2>3, <2>6 DEF NodeEnds
    <3> QED BY <2>6, <2>11, <2>14, <3>1, <3>2 DEF FrameEnds
  <2>16. StackEnds(graph', frames') /\ NodeEnds(frames', node.ifTrue)
    <3>1. /\ StackEnds(graph', frames')
          /\ Nested(frames', Len(frames')) <=> Nested(frames, Len(frames))
      BY <2>2, <2>6, <2>9, <2>12, <2>15, PushEnds
    <3> QED BY <2>1, <2>3, <3>1 DEF NodeEnds
  <2> QED BY <1>2, <2>5, <2>10, <2>13, <2>14, <2>16, EndsBuild DEF EndsStep
<1> QED BY <1>1, <1>2, UnderflowEnds, Zenon DEF Conditional

LEMMA ReturnIfTrueEnds ==
  ASSUME TypeOK, TypeOK', EndsInv, UNCHANGED address, ReturnIfTrue
  PROVE  EndsStep
<1> DEFINE f == Last(frames)
           below == Front(frames)
           e == WithBlock(WithName(f.ep, <<"ifFalse">>), f.block)
           h == [kind |-> "ifFalse", ep |-> f.ep, values |-> f.values,
                 done |-> results]
           r == [ep |-> WithBlock(f.ep, f.block), values |-> f.values]
<1>1. Returning("ifTrue") /\ Build(f.node, e, f.values)
        /\ frames' = Append(below, h) /\ UNCHANGED graph
  BY DEF ReturnIfTrue
<1>2. /\ below \in Seq(Frame) /\ f \in Frame /\ f.kind = "ifTrue"
      /\ StackApart(below) /\ StackEnds(graph, below)
      /\ FrameEnds(graph, f, Nested(below, Len(below)))
      /\ FrameBlocks(f) \cap StackBlocks(below) = {}
      /\ Distinct(results)
      /\ Blocks(results) \cap StackBlocks(below) = {}
      /\ Blocks(results) \cap FrameBlocks(f) = {}
      /\ Over(graph, Blocks(results))
      /\ Nested(below, Len(below)) => Ready(graph, Blocks(results))
  BY <1>1, Returned
<1>3. Todo(f) = <<r>> /\ Done(f) = <<>>
  BY <1>2 DEF Todo, Done
<1>4. Todo(h) = <<>> /\ Done(h) = results /\ h.kind = "ifFalse"
  BY DEF Todo, Done
<1> HIDE DEF f, below, h
<1>5. f.ep \in EP
  BY <1>2, FrameType
<1>6. r.ep.block = f.block /\ e.block = f.block
  <2>1. WithName(f.ep, <<"ifFalse">>) \in EP
    BY <1>5, WithNameType, NameAssumption
  <2> QED BY <1>5, <2>1 DEF WithBlock, EP
<1> HIDE DEF e, r
<1>7. Blocks(Todo(f)) = {f.block} /\ FrameBlocks(f) = {f.block}
  BY <1>3, <1>6, FewBlocks DEF FrameBlocks
<1>8. /\ FrameBlocks(h) = Blocks(results) /\ Apart(h)
      /\ Blocks(Todo(h)) = {} /\ Blocks(Done(h)) = Blocks(results)
  BY <1>2, <1>4, FewBlocks DEF FrameBlocks, Apart
<1>9. StackApart(frames') /\ f.block \notin StackBlocks(frames')
  <2>1. /\ StackBlocks(frames') = StackBlocks(below) \cup FrameBlocks(h)
        /\ StackApart(frames')
    BY <1>1, <1>2, <1>8, PushApart
  <2> QED BY <1>2, <1>7, <1>8, <2>1
<1>10. Ready(graph, {f.block}) /\ Ready(graph, {}) /\ Over(graph, {})
       /\ (Nested(below, Len(below)) => f.node \in Inner)
  BY <1>2, <1>7 DEF FrameEnds, Continues, Ready, Over
<1>11. FrameEnds(graph', h, Nested(below, Len(below)))
  BY <1>1, <1>2, <1>4, <1>8, <1>10 DEF FrameEnds, Continues
<1>12. StackEnds(graph', frames') /\ NodeEnds(frames', f.node)
  <2>1. /\ StackEnds(graph', frames')
        /\ Nested(frames', Len(frames')) <=> Nested(below, Len(below))
    BY <1>1, <1>2, <1>4, <1>11, PushEnds
  <2> QED BY <1>10, <2>1 DEF NodeEnds
<1>13. Ready(graph', {e.block}) /\ e.block \notin StackBlocks(frames')
  BY <1>1, <1>6, <1>9, <1>10
<1>14. UNCHANGED address /\ Build(f.node, e, f.values)
  BY <1>1
<1>15. EndsInv'
  BY <1>9, <1>12, <1>13, <1>14, EndsBuild
<1> QED BY <1>1, <1>15, Unwritten DEF EndsStep

\* Results are linked to new blocks.
LEMMA LinkedEachWrites ==
  ASSUME NEW g \in Seq(Block), NEW I, NEW from, NEW to,
         \A i \in I : to[i] \in Nat,
         NEW insert \in BOOLEAN, NEW role \in Roles, role # "entry",
         NEW inserted \in BOOLEAN, NEW n \in Nat,
         NEW W, \A i \in I : from[i] \in W,
         NEW h, h = AddBlocks(LinkEach(g, I, from, to, insert),
                              role, inserted, n)
  PROVE  /\ Writes(g, h, W, W) /\ h \in Seq(Block)
         /\ Ready(h, Len(g)+1..Len(g)+n)
         /\ \A j \in 1..n : /\ Len(g) + j \in Len(g)+1..Len(g)+n
                            /\ Len(g) + j \notin DOMAIN g
<1> DEFINE k == LinkEach(g, I, from, to, insert)
<1>1. k \in Seq(Block) /\ h \in Seq(Block)
  BY LinkEachType, AddBlocksType
<1> HIDE DEF k
<1>2. Writes(g, k, W, W) /\ Len(k) = Len(g)
  <2>1. k = LinkEach(g, I, from, to, insert)
    BY DEF k
  <2> QED BY <2>1, LinkEachWrites
<1>3. /\ Writes(k, h, {}, {}) /\ Len(h) = Len(k) + n
      /\ \A c \in DOMAIN h \ DOMAIN k : h[c].role = role /\ h[c].last = "open"
  BY <1>1, AddBlocksWrites DEF k
<1>4. Writes(g, h, W, W)
  <2>1. Writes(k, h, W, W)
    BY <1>3, WritesMore
  <2> QED BY <1>1, <1>2, <2>1, WritesThen
<1>5. /\ Len(g) \in Nat /\ DOMAIN g = 1..Len(g) /\ DOMAIN k = 1..Len(g)
      /\ DOMAIN h = 1..Len(g)+n
  BY <1>1, <1>2, <1>3
<1>6. \A c \in Len(g)+1..Len(g)+n : c \in DOMAIN h \ DOMAIN k
  BY <1>5
<1>7. Ready(h, Len(g)+1..Len(g)+n)
  BY <1>3, <1>6, Zenon DEF Ready
<1>8. \A j \in 1..n : /\ Len(g) + j \in Len(g)+1..Len(g)+n
                      /\ Len(g) + j \notin DOMAIN g
  BY <1>5
<1> QED BY <1>1, <1>4, <1>7, <1>8

LEMMA ConcatOpen ==
  ASSUME NEW g, NEW rs, NEW qs, NEW ps, Blocks(ps) = Blocks(rs) \cup Blocks(qs)
  PROVE  /\ Over(g, Blocks(rs)) /\ Over(g, Blocks(qs)) => Over(g, Blocks(ps))
         /\ Ready(g, Blocks(rs)) /\ Ready(g, Blocks(qs)) => Ready(g, Blocks(ps))
BY Zenon DEF Over, Ready

LEMMA ReturnIfFalseEnds ==
  ASSUME TypeOK, TypeOK', EndsInv, UNCHANGED address, ReturnIfFalse
  PROVE  EndsStep
<1> DEFINE f == Last(frames)
           below == Front(frames)
           rs == f.done \o results
           I == Singles(rs)
           merge(o, i) == Len(graph) +
                            (CHOOSE j \in DOMAIN o : o[j] = TypeOf(rs[i]))
           to(o) == [i \in I |-> merge(o, i)]
           from == [i \in I |-> rs[i].ep.block]
           out(o, j) == [ep |-> WithBlock(f.ep, Len(graph) + j),
                         values |-> Append(f.values, Scalar(o[j]))]
           outs(o) == [j \in 1..Len(o) |-> out(o, j)]
<1>1. Returning("ifFalse") /\ frames' = below
  BY DEF ReturnIfFalse
<1>2. /\ below \in Seq(Frame) /\ f \in Frame /\ f.kind = "ifFalse"
      /\ StackApart(below) /\ StackEnds(graph, below)
      /\ Apart(f) /\ FrameEnds(graph, f, Nested(below, Len(below)))
      /\ FrameBlocks(f) \cap StackBlocks(below) = {}
      /\ results \in Seq(Result) /\ Distinct(results)
      /\ Blocks(results) \cap StackBlocks(below) = {}
      /\ Blocks(results) \cap FrameBlocks(f) = {}
      /\ Over(graph, Blocks(results))
      /\ Nested(below, Len(below)) => Ready(graph, Blocks(results))
  BY <1>1, Returned
<1>3. f.ep \in EP /\ f.done \in Seq(Result)
  BY <1>2, FrameType
<1>4. Done(f) = f.done
  BY <1>2 DEF Done
<1>5. FrameBlocks(f) = Blocks(Todo(f)) \cup Blocks(f.done)
  BY <1>4 DEF FrameBlocks
<1>6. rs \in Seq(Result) /\ graph \in Seq(Block) /\ Len(graph) \in Nat
  BY <1>2, <1>3 DEF TypeOK
<1> HIDE DEF f, below
<1>7. Blocks(rs) = Blocks(f.done) \cup Blocks(results) /\ Distinct(rs)
  <2>1. Distinct(f.done) /\ Blocks(f.done) \cap Blocks(results) = {}
    BY <1>2, <1>4, <1>5 DEF Apart
  <2> QED BY <1>2, <1>3, <2>1, ConcatBlocks
<1>8. Blocks(rs) \cap StackBlocks(below) = {}
  BY <1>2, <1>5, <1>7
<1>9. /\ Over(graph, Blocks(rs))
      /\ Nested(below, Len(below)) => Ready(graph, Blocks(rs))
  <2>1. /\ Over(graph, Blocks(f.done))
        /\ Nested(below, Len(below)) => Ready(graph, Blocks(f.done))
    BY <1>2, <1>4 DEF FrameEnds
  <2> QED BY <1>2, <1>7, <2>1, ConcatOpen
<1> HIDE DEF rs
<1>10. ASSUME Return(rs), UNCHANGED graph PROVE EndsStep
  <2>1. Owned(frames', rs) /\ ResultEnds(graph', frames', rs)
    BY <1>1, <1>2, <1>7, <1>8, <1>9, <1>10 DEF Owned, ResultEnds
  <2>2. StackEnds(graph', frames')
    BY <1>1, <1>2, <1>10
  <2> QED BY <1>10, <2>1, <2>2, EndsReturn, Unwritten DEF EndsStep
<1>11. ASSUME NEW o \in Enumerations(TypesOf(rs), address),
              graph' = AddBlocks(LinkEach(graph, I, from, to(o), FALSE),
                                 "merge", TRUE, Len(o)),
              Return(outs(o))
       PROVE  EndsStep
  <2>1. /\ IsFiniteSet(TypesOf(rs)) /\ I \subseteq DOMAIN rs
        /\ \A i \in I : TypeOf(rs[i]) \in TypesOf(rs)
    BY <1>6, SinglesType
  <2>2. /\ o \in Seq(TypesOf(rs))
        /\ \A t \in TypesOf(rs) : \E j \in 1..Len(o) : o[j] = t
    BY <2>1, EnumerationType
  <2>3. Len(o) \in Nat /\ DOMAIN o = 1..Len(o)
    BY <2>2
  <2>4. ASSUME NEW i \in I PROVE to(o)[i] \in Nat
    <3>1. \E j \in DOMAIN o : o[j] = TypeOf(rs[i])
      BY <2>1, <2>2, <2>3, Zenon
    <3>2. (CHOOSE j \in DOMAIN o : o[j] = TypeOf(rs[i])) \in DOMAIN o
      BY <3>1, Zenon
    <3> QED BY <1>6, <2>3, <3>2
  <2> DEFINE yes == TRUE
             no == FALSE
             T == to(o)
             W == {from[i] : i \in I}
             new == Len(graph)+1..Len(graph)+Len(o)
             qs == outs(o)
  <2>5. graph' = AddBlocks(LinkEach(graph, I, from, T, no), "merge", yes, Len(o))
    BY <1>11
  <2>6. yes \in BOOLEAN /\ no \in BOOLEAN /\ "merge" \in Roles
    BY DEF Roles
  <2>7. \A i \in I : T[i] \in Nat
    BY <2>4
  <2>8. W \subseteq Blocks(rs)
    BY <2>1 DEF Blocks
  <2>9. \A j \in 1..Len(o) : qs[j].ep.block = Len(graph) + j
    BY <1>3 DEF WithBlock, EP
  <2>10. DOMAIN qs = 1..Len(o)
    OBVIOUS
  <2> HIDE DEF to, from, merge, yes, no, T, I, qs, W, new
  <2>11. /\ Writes(graph, graph', W, W) /\ Ready(graph', new)
         /\ \A j \in 1..Len(o) : Len(graph) + j \in new
         /\ \A j \in 1..Len(o) : Len(graph) + j \notin DOMAIN graph
    <3>1. \A i \in I : from[i] \in W
      BY DEF W
    <3> DEFINE n == Len(o)
               role == "merge"
    <3>2. /\ graph' = AddBlocks(LinkEach(graph, I, from, T, no), role, yes, n)
          /\ role \in Roles /\ role # "entry" /\ n \in Nat
          /\ new = Len(graph)+1..Len(graph)+n
      BY <2>3, <2>5, <2>6 DEF new
    <3> HIDE DEF n, role
    <3>3. graph \in Seq(Block)
      BY <1>6
    <3>4. /\ Writes(graph, graph', W, W) /\ Ready(graph', Len(graph)+1..Len(graph)+n)
          /\ \A j \in 1..n : /\ Len(graph) + j \in Len(graph)+1..Len(graph)+n
                             /\ Len(graph) + j \notin DOMAIN graph
      BY <2>6, <2>7, <3>1, <3>2, <3>3, LinkedEachWrites
    <3> QED BY <3>2, <3>4 DEF n
  <2>12. Distinct(qs)
    BY <1>6, <2>3, <2>9, <2>10 DEF Distinct
  <2>13. Blocks(qs) \subseteq new /\ \A b \in Blocks(qs) : b \notin DOMAIN graph
    BY <2>9, <2>10, <2>11, Zenon DEF Blocks
  <2>14. Blocks(qs) \cap StackBlocks(below) = {}
    BY <1>2, <2>13, NewIsFree
  <2>15. StackEnds(graph', below)
    <3>1. StackBlocks(below) \cap W = {} /\ graph' \in Seq(Block)
      BY <1>8, <2>8 DEF TypeOK
    <3> QED BY <1>2, <1>6, <2>11, <3>1, StackWrites
  <2>16. ClosedKept
    <3>1. Over(graph, W \cap DOMAIN graph)
      BY <1>9, <2>8 DEF Over
    <3> QED BY <2>11, <3>1, KeptClosed
  <2>17. Ready(graph', Blocks(qs))
    BY <2>11, <2>13 DEF Ready
  <2>18. Owned(frames', qs) /\ ResultEnds(graph', frames', qs)
    BY <1>1, <1>2, <2>12, <2>14, <2>17, ReadyOver DEF Owned, ResultEnds
  <2>19. Return(qs) /\ StackEnds(graph', frames')
    BY <1>1, <1>11, <2>15 DEF qs
  <2> QED BY <2>16, <2>18, <2>19, EndsReturn DEF EndsStep
<1> QED BY <1>10, <1>11, Zenon
        DEF ReturnIfFalse, rs, f, to, from, I, merge, outs, out

LEMMA BranchEnds ==
  ASSUME TypeOK, TypeOK', EndsInv, UNCHANGED address, Branch
  PROVE  EndsStep
BY ConditionalEnds, ReturnIfTrueEnds, ReturnIfFalseEnds DEF Branch

-----------------------------------------------------------------------------
LEMMA ProxyTailPathEnds ==
  ASSUME TypeOK, TypeOK', EndsInv, UNCHANGED address, ProxyTailPath
  PROVE  EndsStep
<1>1. node.segment \in Inner
  BY InnerAssumption DEF ProxyTailPath, Entering, TypeOK
<1> QED BY <1>1, Unwritten, EndsBuildHere DEF ProxyTailPath, Entering

LEMMA ProxyRegularCallEnds ==
  ASSUME TypeOK, TypeOK', EndsInv, UNCHANGED address, ProxyRegularCall
  PROVE  EndsStep
<1> DEFINE f == [kind |-> "junction", node |-> node.consumer, ep |-> ep,
                 values |-> values]
<1>1. /\ Push(f) /\ Build(node.segment, ep, <<>>) /\ UNCHANGED graph
      /\ pc = "build" /\ node.kind = "proxy"
  BY DEF ProxyRegularCall, Entering
<1>2. node.segment \in Inner
  BY <1>1, InnerAssumption DEF TypeOK
<1>3. node \in Inner => node.consumer \in Inner
  BY <1>1, InnerNext DEF WithConsumer
<1>4. Todo(f) = <<>> /\ Done(f) = <<>> /\ f.node = node.consumer
  BY DEF Todo, Done
<1> HIDE DEF f
<1> QED BY <1>1, <1>2, <1>3, <1>4, EndsPush

LEMMA SegmentEnds ==
  ASSUME TypeOK, TypeOK', EndsInv, UNCHANGED address, Segment
  PROVE  EndsStep
<1> DEFINE start == [ep |-> ep, values |-> <<>>]
           f == [kind |-> "argument", node |-> node, ep |-> ep,
                 values |-> values, index |-> 1, todo |-> <<start>>,
                 done |-> <<>>]
           none == <<>>
<1>1. UNCHANGED graph /\ pc = "build" /\ node.kind = "segment"
  BY DEF Segment, Entering
<1>2. node.arguments \in Seq(Inner) /\ node.call \in Inner
  BY <1>1, InnerAssumption DEF TypeOK
<1>3. start \in Result /\ start.ep = ep
  BY DEF TypeOK, Result
<1>4. CASE node.arguments = <<>>
  <2>1. BuildEach(frames, node.call, ep, values, <<start>>, none)
    BY <1>4 DEF Segment
  <2> HIDE DEF start
  <2>2. /\ StackApart(frames) /\ ep.block \notin StackBlocks(frames)
        /\ StackEnds(graph', frames) /\ Ready(graph', {ep.block})
    BY <1>1, Entered
  <2>3. Blocks(<<start>>) = {ep.block} /\ Distinct(<<start>>)
    BY <1>3, FewBlocks
  <2>4. Blocks(none) = {} /\ Distinct(none) /\ none \in Seq(Result)
    BY FewBlocks
  <2>5. Ready(graph', {}) /\ Over(graph', {})
    BY DEF Ready, Over
  <2>6. <<start>> \in Seq(Result) /\ frames \in Seq(Frame)
    BY <1>3 DEF TypeOK
  <2>7. Blocks(<<start>>) \cap StackBlocks(frames) = {}
    BY <2>2, <2>3
  <2> DEFINE todo == <<start>>
  <2> HIDE DEF none, todo
  <2>8. EndsInv'
    BY <1>2, <2>1, <2>2, <2>3, <2>4, <2>5, <2>6, <2>7, EndsBuildEach DEF todo
  <2> QED BY <1>1, <2>8, Unwritten DEF EndsStep
<1>5. CASE node.arguments # <<>>
  <2>1. Build(node.arguments[1], ep, <<>>) /\ Push(f)
    BY <1>5 DEF Segment
  <2>2. node.arguments[1] \in Inner
    BY <1>2, <1>5
  <2> HIDE DEF start
  <2>3. f.kind = "argument" /\ f.todo = <<start>> /\ f.done = <<>>
    OBVIOUS
  <2> HIDE DEF f
  <2>4. Todo(f) = <<>> /\ Done(f) = <<>> /\ ~ Continues(f)
    BY <2>3 DEF Todo, Done, Continues
  <2> QED BY <1>1, <2>1, <2>2, <2>4, EndsPush
<1> QED BY <1>4, <1>5

LEMMA ReturnEachEnds ==
  ASSUME TypeOK, TypeOK', EndsInv, UNCHANGED address, ReturnEach
  PROVE  EndsStep
<1> DEFINE f == Last(frames)
           below == Front(frames)
           r(j) == [results[j] EXCEPT !.values = f.prefix \o @]
           rs == [j \in 1..Len(results) |-> r(j)]
           done == f.done \o rs
<1>1. Returning("each") /\ UNCHANGED graph
        /\ BuildEach(below, f.node, f.ep, f.prefix, f.todo, done)
  BY DEF ReturnEach
<1>2. /\ below \in Seq(Frame) /\ f \in Frame /\ f.kind = "each"
      /\ StackApart(below) /\ StackEnds(graph, below)
      /\ Apart(f) /\ FrameEnds(graph, f, Nested(below, Len(below)))
      /\ FrameBlocks(f) \cap StackBlocks(below) = {}
      /\ results \in Seq(Result) /\ Distinct(results)
      /\ Blocks(results) \cap StackBlocks(below) = {}
      /\ Blocks(results) \cap FrameBlocks(f) = {}
      /\ Over(graph, Blocks(results))
      /\ Nested(below, Len(below)) => Ready(graph, Blocks(results))
  BY <1>1, Returned
<1>3. /\ f.todo \in Seq(Result) /\ f.done \in Seq(Result)
      /\ f.prefix \in Seq(Value)
  BY <1>2, FrameType
<1>4. Done(f) = f.done /\ Todo(f) = f.todo
  BY <1>2 DEF Done, Todo
<1> HIDE DEF f, below
<1>5. ASSUME NEW j \in 1..Len(results)
      PROVE  r(j) \in Result /\ r(j).ep.block = results[j].ep.block
  <2>1. results[j] \in Result
    BY DEF TypeOK
  <2>2. f.prefix \o results[j].values \in Seq(Value)
    BY <1>3, <2>1 DEF Result
  <2> QED BY <2>1, <2>2 DEF Result
<1> HIDE DEF r
<1>6. Len(results) \in Nat /\ DOMAIN results = 1..Len(results)
  BY DEF TypeOK
<1>7. /\ rs \in Seq(Result) /\ DOMAIN rs = DOMAIN results
      /\ \A i \in DOMAIN results : rs[i].ep.block = results[i].ep.block
  BY <1>5, <1>6
<1> HIDE DEF rs
<1>8. Blocks(rs) = Blocks(results) /\ Distinct(rs)
  BY <1>2, <1>7, SameBlocks
<1>9. /\ FrameBlocks(f) = Blocks(f.todo) \cup Blocks(f.done)
      /\ Distinct(f.todo) /\ Distinct(f.done)
      /\ Blocks(f.todo) \cap Blocks(f.done) = {}
  BY <1>2, <1>4 DEF FrameBlocks, Apart
<1>10. done \in Seq(Result)
  BY <1>3, <1>7
<1>11. Blocks(done) = Blocks(f.done) \cup Blocks(rs) /\ Distinct(done)
  <2>1. Blocks(f.done) \cap Blocks(rs) = {}
    BY <1>2, <1>8, <1>9
  <2> QED BY <1>3, <1>7, <1>8, <1>9, <2>1, ConcatBlocks
<1> HIDE DEF done
<1>12. /\ Blocks(f.todo) \cap Blocks(done) = {}
       /\ Blocks(f.todo) \cap StackBlocks(below) = {}
       /\ Blocks(done) \cap StackBlocks(below) = {}
  BY <1>2, <1>8, <1>9, <1>11
<1>13. /\ Ready(graph', Blocks(f.todo)) /\ Over(graph', Blocks(done))
       /\ Nested(below, Len(below)) =>
            Ready(graph', Blocks(done)) /\ f.node \in Inner
  <2>1. /\ Ready(graph, Blocks(f.todo)) /\ Over(graph, Blocks(f.done))
        /\ Nested(below, Len(below)) =>
             Ready(graph, Blocks(f.done)) /\ f.node \in Inner
    BY <1>2, <1>4 DEF FrameEnds, Continues
  <2> QED BY <1>1, <1>2, <1>8, <1>11, <2>1, ConcatOpen
<1>14. StackEnds(graph', below)
  BY <1>1, <1>2
<1>15. EndsInv'
  BY <1>1, <1>2, <1>3, <1>9, <1>10, <1>11, <1>12, <1>13, <1>14, EndsBuildEach
<1> QED BY <1>1, <1>15, Unwritten DEF EndsStep

LEMMA ReturnArgumentEnds ==
  ASSUME TypeOK, TypeOK', EndsInv, UNCHANGED address, ReturnArgument
  PROVE  EndsStep
<1> DEFINE f == Last(frames)
           below == Front(frames)
           r(j) == [ep |-> results[j].ep,
                    values |-> results[j].values \o f.todo[1].values]
           rs == [j \in 1..Len(results) |-> r(j)]
           done == f.done \o rs
           h(index, todo, rest) == [f EXCEPT !.index = index, !.todo = todo,
                                             !.done = rest]
           next(index, todo, rest) ==
             /\ Build(f.node.arguments[index], todo[1].ep, <<>>)
             /\ frames' = Append(below, h(index, todo, rest))
           none == <<>>
<1>1. Returning("argument") /\ UNCHANGED graph
  BY DEF ReturnArgument
<1>2. /\ below \in Seq(Frame) /\ f \in Frame /\ f.kind = "argument"
      /\ StackApart(below) /\ StackEnds(graph, below)
      /\ Apart(f) /\ FrameEnds(graph, f, Nested(below, Len(below)))
      /\ FrameBlocks(f) \cap StackBlocks(below) = {}
      /\ results \in Seq(Result) /\ Distinct(results)
      /\ Blocks(results) \cap StackBlocks(below) = {}
      /\ Blocks(results) \cap FrameBlocks(f) = {}
      /\ Ready(graph, Blocks(results))
  BY <1>1, Returned
<1>3. \/ Len(f.todo) > 1 /\ next(f.index, Tail(f.todo), done)
      \/ /\ f.index < Len(f.node.arguments) /\ done # none
         /\ next(f.index + 1, done, none)
      \/ BuildEach(below, f.node.call, f.ep, f.values, done, none)
  BY Zenon DEF ReturnArgument
<1>4. f \in ArgumentFrame
  BY <1>2, FrameType
<1> HIDE DEF f, below
<1>5. /\ f.todo \in Seq(Result) /\ f.todo # <<>> /\ f.done \in Seq(Result)
      /\ f.index \in Nat /\ f.index \in DOMAIN f.node.arguments
      /\ f.node.kind = "segment" /\ f.node \in Node
  BY <1>4 DEF ArgumentFrame
<1>6. f.node.arguments \in Seq(Inner) /\ f.node.call \in Inner
  BY <1>5, InnerAssumption
<1>7. Done(f) = f.done /\ Todo(f) = Tail(f.todo)
  BY <1>2 DEF Done, Todo
<1>8. ASSUME NEW j \in 1..Len(results)
      PROVE  r(j) \in Result /\ r(j).ep.block = results[j].ep.block
  <2>1. results[j] \in Result /\ f.todo[1] \in Result
    BY <1>5 DEF TypeOK
  <2>2. results[j].values \o f.todo[1].values \in Seq(Value)
    BY <2>1 DEF Result
  <2> QED BY <2>1, <2>2 DEF Result
<1> HIDE DEF r
<1>9. Len(results) \in Nat /\ DOMAIN results = 1..Len(results)
  BY DEF TypeOK
<1>10. /\ rs \in Seq(Result) /\ DOMAIN rs = DOMAIN results
       /\ \A i \in DOMAIN results : rs[i].ep.block = results[i].ep.block
  BY <1>8, <1>9
<1> HIDE DEF rs
<1>11. Blocks(rs) = Blocks(results) /\ Distinct(rs)
  BY <1>2, <1>10, SameBlocks
<1>12. /\ FrameBlocks(f) = Blocks(Tail(f.todo)) \cup Blocks(f.done)
       /\ Distinct(Tail(f.todo)) /\ Distinct(f.done)
       /\ Blocks(Tail(f.todo)) \cap Blocks(f.done) = {}
  BY <1>2, <1>7 DEF FrameBlocks, Apart
<1>13. done \in Seq(Result)
  BY <1>5, <1>10
<1>14. Blocks(done) = Blocks(f.done) \cup Blocks(rs) /\ Distinct(done)
  <2>1. Blocks(f.done) \cap Blocks(rs) = {}
    BY <1>2, <1>11, <1>12
  <2> QED BY <1>5, <1>10, <1>11, <1>12, <2>1, ConcatBlocks
<1> HIDE DEF done
<1>15. /\ Blocks(Tail(f.todo)) \cap Blocks(done) = {}
       /\ Blocks(Tail(f.todo)) \cap StackBlocks(below) = {}
       /\ Blocks(done) \cap StackBlocks(below) = {}
  BY <1>2, <1>11, <1>12, <1>14
<1>16. Ready(graph', Blocks(Tail(f.todo))) /\ Ready(graph', Blocks(done))
  <2>1. Ready(graph, Blocks(Tail(f.todo))) /\ Ready(graph, Blocks(f.done))
    BY <1>2, <1>7 DEF FrameEnds
  <2> QED BY <1>1, <1>2, <1>11, <1>14, <2>1, ConcatOpen
<1>17. StackEnds(graph', below)
  BY <1>1, <1>2
<1>18. /\ Blocks(none) = {} /\ Distinct(none) /\ none \in Seq(Result)
       /\ Ready(graph', {}) /\ Over(graph', {})
  BY FewBlocks DEF Ready, Over
<1> HIDE DEF none
\* The next result to continue: its block is free.
<1>19. ASSUME NEW i, f.node.arguments[i] \in Inner,
              NEW todo \in Seq(Result), todo # <<>>, NEW rest \in Seq(Result),
              Distinct(todo), Distinct(rest), Blocks(todo) \cap Blocks(rest) = {},
              Blocks(todo) \cap StackBlocks(below) = {},
              Blocks(rest) \cap StackBlocks(below) = {},
              Ready(graph', Blocks(todo)), Ready(graph', Blocks(rest)),
              next(i, todo, rest)
       PROVE  EndsInv'
  <2> DEFINE hh == h(i, todo, rest)
             b == todo[1].ep.block
             n == f.node.arguments[i]
             e == todo[1].ep
  <2>1. /\ hh.kind = "argument" /\ hh.todo = todo /\ hh.done = rest
    BY <1>2, <1>4 DEF ArgumentFrame
  <2>2. Build(n, e, <<>>) /\ frames' = Append(below, hh) /\ n \in Inner
    BY <1>19
  <2> HIDE DEF hh, h, next, n, e
  <2>3. Todo(hh) = Tail(todo) /\ Done(hh) = rest /\ ~ Continues(hh)
    BY <2>1 DEF Todo, Done, Continues
  <2>4. /\ Distinct(Tail(todo)) /\ b \notin Blocks(Tail(todo))
        /\ Blocks(todo) = Blocks(Tail(todo)) \cup {b}
    BY <1>19, TailBlocks
  <2>5. FrameBlocks(hh) = Blocks(Tail(todo)) \cup Blocks(rest)
    BY <2>3 DEF FrameBlocks
  <2>6. /\ Apart(hh) /\ FrameBlocks(hh) \cap StackBlocks(below) = {}
        /\ b \notin FrameBlocks(hh) /\ b \notin StackBlocks(below)
    BY <1>19, <2>3, <2>4, <2>5 DEF Apart
  <2>7. StackApart(frames') /\ b \notin StackBlocks(frames')
    <3>1. /\ StackBlocks(frames') = StackBlocks(below) \cup FrameBlocks(hh)
          /\ StackApart(frames')
      BY <1>2, <2>2, <2>6, PushApart
    <3> QED BY <2>6, <3>1
  <2>8. Ready(graph', Blocks(Tail(todo))) /\ Ready(graph', {b})
    BY <1>19, <2>4 DEF Ready
  <2>9. FrameEnds(graph', hh, Nested(below, Len(below)))
    BY <1>19, <2>3, <2>8, ReadyOver DEF FrameEnds
  <2>10. StackEnds(graph', frames') /\ NodeEnds(frames', n)
    <3>1. StackEnds(graph', frames')
      BY <1>2, <1>17, <2>2, <2>9, PushEnds
    <3> QED BY <2>2, <3>1 DEF NodeEnds
  <2>11. e.block = b
    BY DEF e
  <2> HIDE DEF b
  <2> QED BY <2>2, <2>7, <2>8, <2>10, <2>11, EndsBuild
<1> HIDE DEF next
<1>20. EndsInv'
  <2>1. CASE Len(f.todo) > 1 /\ next(f.index, Tail(f.todo), done)
    <3>1. Tail(f.todo) \in Seq(Result) /\ Tail(f.todo) # <<>>
      <4> DEFINE s == f.todo
      <4>1. s \in Seq(Result) /\ Len(s) > 1
        BY <1>5, <2>1
      <4> HIDE DEF s
      <4>2. Tail(s) \in Seq(Result) /\ Len(Tail(s)) = Len(s) - 1 /\ Len(s) \in Nat
        BY <4>1
      <4>3. Len(Tail(s)) > 0
        BY <4>1, <4>2
      <4>4. \A u : Len(u) > 0 => u # <<>>
        OBVIOUS
      <4> QED BY <4>2, <4>3, <4>4, Zenon DEF s
    <3>2. f.node.arguments[f.index] \in Inner
      BY <1>5, <1>6
    <3> QED BY <1>12, <1>13, <1>14, <1>15, <1>16, <1>19, <2>1, <3>1, <3>2
  <2>2. CASE /\ f.index < Len(f.node.arguments) /\ done # none
             /\ next(f.index + 1, done, none)
    <3>1. f.node.arguments[f.index + 1] \in Inner
      BY <1>5, <1>6, <2>2
    <3>2. Blocks(done) \cap {} = {} /\ {} \cap StackBlocks(below) = {} /\ done # <<>>
      BY <2>2 DEF none
    <3> QED BY <1>13, <1>14, <1>15, <1>16, <1>18, <1>19, <2>2, <3>1, <3>2
  <2>3. CASE BuildEach(below, f.node.call, f.ep, f.values, done, none)
    <3>1. Blocks(done) \cap {} = {} /\ {} \cap StackBlocks(below) = {}
      OBVIOUS
    <3> QED BY <1>2, <1>6, <1>13, <1>14, <1>15, <1>16, <1>17, <1>18, <2>3, <3>1,
               EndsBuildEach
  <2> QED BY <1>3, <2>1, <2>2, <2>3
<1> QED BY <1>1, <1>20, Unwritten DEF EndsStep

\* The ranks of the members of a finite set count from one without a gap or a
\* repetition: what the multimap makes of the types that are joined.
LEMMA RankedOnce ==
  ASSUME NEW S, IsFiniteSet(S), NEW rank, \A s \in S : rank[s] \in Nat,
         NEW t \in S
  PROVE  /\ Cardinality({x \in S : rank[x] <= rank[t]}) \in 1..Cardinality(S)
         /\ \A u \in S :
              Cardinality({x \in S : rank[x] <= rank[u]})
                = Cardinality({x \in S : rank[x] <= rank[t]})
              => rank[u] = rank[t]
<1> DEFINE D(u) == {x \in S : rank[x] <= rank[u]}
<1>1. ASSUME NEW u \in S
      PROVE  /\ IsFiniteSet(D(u)) /\ Cardinality(D(u)) \in Nat
             /\ Cardinality(D(u)) <= Cardinality(S) /\ u \in D(u)
  <2>1. D(u) \in SUBSET S /\ u \in D(u)
    OBVIOUS
  <2> QED BY <2>1, FS_Subset, FS_CardinalityType
<1>2. Cardinality(D(t)) # 0
  BY <1>1, FS_EmptySet
<1>3. Cardinality(S) \in Nat
  BY FS_CardinalityType
<1>4. ASSUME NEW u \in S, NEW v \in S, rank[u] < rank[v],
             Cardinality(D(u)) = Cardinality(D(v))
      PROVE  FALSE
  <2>1. D(u) \in SUBSET D(v) /\ v \notin D(u)
    <3>1. \A x \in S : rank[x] <= rank[u] => rank[x] <= rank[v]
      BY <1>4
    <3>2. ~ (rank[v] <= rank[u])
      BY <1>4
    <3> QED BY <3>1, <3>2
  <2>2. D(u) = D(v)
    <3>1. IsFiniteSet(D(v))
      BY <1>1
    <3> HIDE DEF D
    <3> QED BY <1>4, <2>1, <3>1, FS_Subset
  <2> HIDE DEF D
  <2> QED BY <1>1, <2>1, <2>2
<1>5. ASSUME NEW u \in S, Cardinality(D(u)) = Cardinality(D(t))
      PROVE  rank[u] = rank[t]
  <2>1. rank[u] \in Nat /\ rank[t] \in Nat
    OBVIOUS
  <2>2. ~ (rank[u] < rank[t]) /\ ~ (rank[t] < rank[u])
    <3> HIDE DEF D
    <3> QED BY <1>4, <1>5
  <2> QED BY <2>1, <2>2
<1>6. Cardinality(D(t)) \in 1..Cardinality(S)
  <2> HIDE DEF D
  <2> QED BY <1>1, <1>2, <1>3
<1> QED BY <1>5, <1>6

LEMMA ReturnJunctionEnds ==
  ASSUME TypeOK, TypeOK', EndsInv, UNCHANGED address, ReturnJunction
  PROVE  EndsStep
<1> DEFINE f == Last(frames)
           stack == Front(frames)
           rs == results
           group(t) == {i \in Singles(rs) : TypeOf(rs[i]) = t}
           first(t) == CHOOSE i \in group(t) : \A j \in group(t) : i <= j
           several == {t \in TypesOf(rs) : Cardinality(group(t)) > 1}
           joined == {i \in Singles(rs) : TypeOf(rs[i]) \in several}
           bare == {i \in joined : ~ InMemory(rs[first(TypeOf(rs[i]))].values[1])}
           from == [i \in joined |-> rs[i].ep.block]
           others == DOMAIN rs \ Singles(rs)
           junction(t) ==
             Len(graph) + Cardinality({u \in several : address[u] <= address[t]})
           to == [i \in joined |-> junction(TypeOf(rs[i]))]
           output(t) ==
             [ep |-> IF t \in several THEN WithBlock(f.ep, junction(t))
                     ELSE rs[first(t)].ep,
              values |-> Append(f.values, rs[first(t)].values[1])]
           passed(p) == [j \in 1..Len(p) |-> rs[p[j]]]
           outputs(o) == [j \in 1..Len(o) |-> output(o[j])]
           n == Cardinality(several)
           index == [i \in DOMAIN rs |-> i]
           none == <<>>
<1>1. Returning("junction")
  BY DEF ReturnJunction
<1>2. \/ ~ EachLinkable(graph, bare, from)
      \/ \E o \in Enumerations(TypesOf(rs), address),
            p \in Enumerations(others, index) :
           /\ graph' = AddBlocks(LinkEach(graph, joined, from, to, TRUE),
                                 "junction", FALSE, n)
           /\ BuildEach(stack, f.node, f.ep, none,
                        passed(p) \o outputs(o), none)
  BY Zenon DEF ReturnJunction
<1>3. /\ stack \in Seq(Frame) /\ f \in Frame /\ f.kind = "junction"
      /\ StackApart(stack) /\ StackEnds(graph, stack)
      /\ FrameEnds(graph, f, Nested(stack, Len(stack)))
      /\ rs \in Seq(Result) /\ Distinct(rs)
      /\ Blocks(rs) \cap StackBlocks(stack) = {}
      /\ Ready(graph, Blocks(rs)) /\ address \in Layout
  BY <1>1, Returned
<1> HIDE DEF f, stack
<1>4. f.ep \in EP /\ f.values \in Seq(Value)
  BY <1>3, FrameType
<1>5. Len(graph) \in Nat /\ graph \in Seq(Block) /\ graph' \in Seq(Block)
  BY DEF TypeOK
<1> HIDE DEF rs
<1>6. /\ TypesOf(rs) \subseteq Type /\ IsFiniteSet(TypesOf(rs))
      /\ Singles(rs) \subseteq DOMAIN rs /\ Singles(rs) \subseteq 1..Len(rs)
      /\ \A i \in Singles(rs) : TypeOf(rs[i]) \in TypesOf(rs)
  BY <1>3, SinglesType
<1>7. several \subseteq TypesOf(rs) /\ IsFiniteSet(several)
  <2>1. several \in SUBSET TypesOf(rs)
    BY Zenon
  <2> QED BY <1>6, <2>1, FS_Subset
<1>8. n \in Nat
  BY <1>7, FS_CardinalityType
<1>9. \A t \in Type : address[t] \in Nat
  BY DEF TypeOK
<1>10. \A t \in several :
         /\ junction(t) \in Len(graph)+1..Len(graph)+n
         /\ \A u \in several : junction(u) = junction(t) => u = t
  <2> HIDE DEF several
  <2> SUFFICES ASSUME NEW t \in several
               PROVE  /\ junction(t) \in Len(graph)+1..Len(graph)+n
                      /\ \A u \in several : junction(u) = junction(t) => u = t
    OBVIOUS
  <2> DEFINE c(u) == Cardinality({x \in several : address[x] <= address[u]})
  <2>1. \A u \in several : address[u] \in Nat /\ u \in Type
    BY <1>6, <1>7, <1>9
  <2>2. c(t) \in 1..n /\ \A u \in several : c(u) = c(t) => address[u] = address[t]
    BY <1>7, <2>1, RankedOnce
  <2>3. \A u \in several : c(u) \in 1..n
    BY <1>7, <2>1, RankedOnce
  <2>4. \A u \in several : address[u] = address[t] => u = t
    BY <1>3, <2>1, LayoutAssumption, Zenon
  <2>5. \A u \in several : junction(u) = Len(graph) + c(u)
    OBVIOUS
  <2> HIDE DEF c, n, junction
  <2> QED BY <1>5, <1>8, <2>2, <2>3, <2>4, <2>5
<1>11. \A i \in joined :
         /\ i \in DOMAIN rs /\ from[i] = rs[i].ep.block
         /\ i \in Singles(rs)
         /\ TypeOf(rs[i]) \in several /\ to[i] = junction(TypeOf(rs[i]))
  <2> HIDE DEF several, junction
  <2> QED BY <1>6
<1>12. ASSUME NEW t \in TypesOf(rs)
       PROVE  /\ first(t) \in Singles(rs) /\ first(t) \in DOMAIN rs
              /\ TypeOf(rs[first(t)]) = t
              /\ rs[first(t)] \in Result /\ rs[first(t)].values[1] \in Value
  <2>1. group(t) # {}
    <3>1. PICK i \in Singles(rs) : t = TypeOf(rs[i])
      BY <1>12 DEF TypesOf
    <3> QED BY <3>1
  <2>2. group(t) \in SUBSET Nat
    BY <1>3, <1>6
  <2>3. \E i \in group(t) : \A j \in group(t) : i <= j
    BY <2>1, <2>2, LeastNumber, Zenon
  <2>4. first(t) \in group(t)
    BY <2>3, Zenon
  <2> HIDE DEF first
  <2> QED BY <1>3, <1>6, <2>4, SinglesType
<1>13. \A i \in Singles(rs) : TypeOf(rs[i]) \in several => i \in joined
  <2> HIDE DEF several
  <2> QED OBVIOUS
<1>14. bare \subseteq joined
  OBVIOUS
<1> HIDE DEF several, junction, from, to, joined, bare, group, first, n
<1>15. EachLinkable(graph, bare, from)
  <2>1. ASSUME NEW i \in bare PROVE graph[from[i]].last = "open"
    BY <1>3, <1>11, <1>14, Zenon DEF Blocks, Ready
  <2>2. ASSUME NEW i \in bare, NEW j \in bare, from[i] = from[j] PROVE i = j
    BY <1>3, <1>11, <1>14, <2>2, Zenon DEF Distinct
  <2>3. \A i \in bare : Linkable(graph, from[i])
    BY <2>1 DEF Linkable
  <2> QED BY <2>2, <2>3, Zenon DEF EachLinkable
<1>16. ASSUME NEW o \in Enumerations(TypesOf(rs), address),
              NEW p \in Enumerations(others, index),
              graph' = AddBlocks(LinkEach(graph, joined, from, to, TRUE),
                                 "junction", FALSE, n),
              BuildEach(stack, f.node, f.ep, none,
                        passed(p) \o outputs(o), none)
       PROVE  EndsStep
  <2> DEFINE yes == TRUE
             no == FALSE
             W == {from[i] : i \in joined}
             new == Len(graph)+1..Len(graph)+n
             ps == passed(p)
             os == outputs(o)
             qs == ps \o os
  <2>1. graph' = AddBlocks(LinkEach(graph, joined, from, to, yes),
                           "junction", no, n)
    BY <1>16
  <2>2. /\ yes \in BOOLEAN /\ no \in BOOLEAN /\ "junction" \in Roles
        /\ \A i \in joined : from[i] \in W
    BY DEF Roles
  <2>3. \A i \in joined : to[i] \in Nat
    BY <1>5, <1>8, <1>10, <1>11
  <2> HIDE DEF yes, no
  <2>4. Writes(graph, graph', W, W) /\ Ready(graph', new)
    BY <1>5, <1>8, <2>1, <2>2, <2>3, LinkedEachWrites
  <2>5. \A b \in new : b \notin DOMAIN graph
    BY <1>5, <1>8
  <2>6. W \subseteq Blocks(rs)
    BY <1>11 DEF Blocks
  <2>7. ASSUME NEW i \in DOMAIN rs, i \notin joined
        PROVE  rs[i].ep.block \in Blocks(rs) \ W
    <3>1. ASSUME NEW j \in joined, rs[i].ep.block = from[j] PROVE FALSE
      BY <1>3, <1>11, <2>7, <3>1, Zenon DEF Distinct
    <3>2. rs[i].ep.block \in Blocks(rs)
      BY Zenon DEF Blocks
    <3> QED BY <3>1, <3>2
  <2>8. \A b \in Blocks(rs) : b \in DOMAIN graph
    BY <1>3 DEF Ready
  <2>9. p \in Seq(others) /\ \A i, j \in 1..Len(p) : p[i] = p[j] => i = j
    <3>1. others \in SUBSET (1..Len(rs))
      BY <1>3
    <3>2. IsFiniteSet(1..Len(rs))
      BY <1>3, FS_Interval
    <3>3. IsFiniteSet(others)
      BY <3>1, <3>2, FS_Subset
    <3>4. \A s \in others : index[s] \in Nat
      BY <1>3, <3>1
    <3> HIDE DEF others, index
    <3> QED BY <3>3, <3>4, EnumerationType, EnumeratedOnce
  <2>10. o \in Seq(TypesOf(rs)) /\ \A i, j \in 1..Len(o) : o[i] = o[j] => i = j
    <3>1. \A t \in TypesOf(rs) : address[t] \in Nat
      BY <1>6, <1>9
    <3>2. o \in Seq(TypesOf(rs))
      BY <1>6, EnumerationType
    <3>3. \A i, j \in 1..Len(o) : o[i] = o[j] => i = j
      BY <1>6, <3>1, EnumeratedOnce
    <3> QED BY <3>2, <3>3
  <2>11. /\ Len(p) \in Nat /\ DOMAIN ps = 1..Len(p)
         /\ \A j \in 1..Len(p) : /\ p[j] \in DOMAIN rs /\ p[j] \notin Singles(rs)
                                 /\ ps[j] = rs[p[j]]
    BY <2>9
  <2>12. /\ Len(o) \in Nat /\ DOMAIN os = 1..Len(o)
         /\ \A j \in 1..Len(o) : o[j] \in TypesOf(rs) /\ os[j] = output(o[j])
    <3> HIDE DEF output
    <3> QED BY <2>10
  <2>13. ASSUME NEW t \in TypesOf(rs)
         PROVE  /\ output(t) \in Result
                /\ t \in several => output(t).ep.block = junction(t)
                /\ t \notin several =>
                     output(t).ep.block = rs[first(t)].ep.block
    <3>1. Append(f.values, rs[first(t)].values[1]) \in Seq(Value)
      BY <1>4, <1>12
    <3>2. t \in several => WithBlock(f.ep, junction(t)) \in EP
      BY <1>4, <1>5, <1>8, <1>10, WithBlockType
    <3>3. WithBlock(f.ep, junction(t)).block = junction(t)
      BY <1>4 DEF WithBlock, EP
    <3>4. output(t) \in Result
      BY <1>12, <3>1, <3>2 DEF Result
    <3> QED BY <3>3, <3>4
  <2> HIDE DEF ps, os, output, new, W, others, index
  <2>14. ps \in Seq(Result) /\ os \in Seq(Result)
    <3>1. \A j \in 1..Len(p) : ps[j] \in Result
      BY <1>3, <2>11
    <3>2. \A j \in 1..Len(o) : os[j] \in Result
      BY <2>12, <2>13
    <3>3. ps = [j \in 1..Len(p) |-> ps[j]] /\ os = [j \in 1..Len(o) |-> os[j]]
      BY DEF ps, os
    <3> QED BY <2>11, <2>12, <3>1, <3>2, <3>3
  <2>15. \A j \in 1..Len(p) : p[j] \notin joined
    BY <1>11, <2>11
  <2>16. Blocks(ps) \subseteq Blocks(rs) \ W /\ Distinct(ps)
    <3>1. \A j \in DOMAIN ps : ps[j].ep.block \in Blocks(rs) \ W
      BY <2>7, <2>11, <2>15
    <3>2. ASSUME NEW i \in DOMAIN ps, NEW j \in DOMAIN ps,
                 ps[i].ep.block = ps[j].ep.block
          PROVE  i = j
      <4>1. rs[p[i]].ep.block = rs[p[j]].ep.block
        BY <2>11, <3>2
      <4>2. p[i] = p[j]
        BY <1>3, <2>11, <4>1, Zenon DEF Distinct
      <4> QED BY <2>9, <2>11, <4>2
    <3> QED BY <3>1, <3>2, Zenon DEF Blocks, Distinct
  \* What an output is held in: a junction block, or the only result's own.
  <2>17. ASSUME NEW t \in TypesOf(rs)
         PROVE  \/ t \in several /\ output(t).ep.block = junction(t)
                   /\ junction(t) \in new
                \/ /\ t \notin several /\ first(t) \notin joined
                   /\ output(t).ep.block = rs[first(t)].ep.block
                   /\ output(t).ep.block \in Blocks(rs) \ W
    <3>1. CASE t \in several
      BY <1>10, <2>13, <3>1 DEF new
    <3>2. CASE t \notin several
      <4>1. first(t) \notin joined
        BY <1>11, <1>12, <3>2
      <4> QED BY <1>12, <2>7, <2>13, <3>2, <4>1
    <3> QED BY <3>1, <3>2
  <2>18. ASSUME NEW t \in TypesOf(rs), NEW u \in TypesOf(rs),
                output(t).ep.block = output(u).ep.block
         PROVE  t = u
    <3>1. CASE t \in several /\ u \in several
      <4>1. junction(t) = junction(u)
        BY <2>17, <2>18, <3>1
      <4> QED BY <1>10, <3>1, <4>1
    <3>2. CASE t \notin several /\ u \notin several
      <4>1. rs[first(t)].ep.block = rs[first(u)].ep.block
        BY <2>17, <2>18, <3>2
      <4>2. first(t) = first(u)
        BY <1>3, <1>12, <4>1 DEF Distinct
      <4>3. TypeOf(rs[first(t)]) = t /\ TypeOf(rs[first(u)]) = u
        BY <1>12
      <4> QED BY <4>2, <4>3
    <3>3. \A b \in new : b \notin Blocks(rs)
      BY <2>5, <2>8
    <3>4. CASE t \in several /\ u \notin several
      <4>1. output(t).ep.block \in new /\ output(u).ep.block \in Blocks(rs)
        BY <2>17, <3>4
      <4> QED BY <2>18, <3>3, <4>1
    <3>5. CASE t \notin several /\ u \in several
      <4>1. output(u).ep.block \in new /\ output(t).ep.block \in Blocks(rs)
        BY <2>17, <3>5
      <4> QED BY <2>18, <3>3, <4>1
    <3> QED BY <3>1, <3>2, <3>4, <3>5
  <2>19. Blocks(os) \subseteq new \cup (Blocks(rs) \ W) /\ Distinct(os)
    <3>1. \A j \in DOMAIN os : os[j].ep.block \in new \cup (Blocks(rs) \ W)
      BY <2>12, <2>17
    <3>2. ASSUME NEW i \in DOMAIN os, NEW j \in DOMAIN os,
                 os[i].ep.block = os[j].ep.block
          PROVE  i = j
      <4>1. o[i] = o[j]
        BY <2>12, <2>18, <3>2
      <4> QED BY <2>10, <2>12, <4>1
    <3> QED BY <3>1, <3>2, Zenon DEF Blocks, Distinct
  <2>20. Blocks(ps) \cap Blocks(os) = {}
    <3>1. ASSUME NEW i \in DOMAIN ps, NEW j \in DOMAIN os,
                 ps[i].ep.block = os[j].ep.block
          PROVE  FALSE
      <4> DEFINE t == o[j]
      <4>1. /\ t \in TypesOf(rs) /\ os[j] = output(t) /\ ps[i] = rs[p[i]]
            /\ p[i] \in DOMAIN rs /\ p[i] \notin Singles(rs)
        BY <2>11, <2>12
      <4> HIDE DEF t
      <4>2. CASE output(t).ep.block \in new
        <5>1. rs[p[i]].ep.block \in Blocks(rs)
          BY <4>1, Zenon DEF Blocks
        <5> QED BY <2>5, <2>8, <3>1, <4>1, <4>2, <5>1
      <4>3. CASE output(t).ep.block = rs[first(t)].ep.block
        <5>1. p[i] = first(t)
          BY <1>3, <1>12, <3>1, <4>1, <4>3 DEF Distinct
        <5> QED BY <1>12, <4>1, <5>1
      <4> QED BY <2>17, <4>1, <4>2, <4>3
    <3> QED BY <3>1, Zenon DEF Blocks
  <2>21. /\ qs \in Seq(Result) /\ Distinct(qs)
         /\ Blocks(qs) \subseteq new \cup (Blocks(rs) \ W)
    <3>1. Blocks(qs) = Blocks(ps) \cup Blocks(os) /\ Distinct(qs)
      BY <2>14, <2>16, <2>19, <2>20, ConcatBlocks
    <3>2. qs \in Seq(Result)
      BY <2>14
    <3> QED BY <2>16, <2>19, <3>1, <3>2
  <2>22. BuildEach(stack, f.node, f.ep, none, qs, none)
    BY <1>16 DEF ps, os
  <2> HIDE DEF qs
  <2>23. Blocks(qs) \cap StackBlocks(stack) = {}
    <3>1. \A b \in new : b \notin StackBlocks(stack)
      BY <1>3, <2>5, NewIsFree
    <3> QED BY <1>3, <2>21, <3>1
  <2>24. Ready(graph', Blocks(qs))
    <3>1. Ready(graph, Blocks(rs) \ W)
      BY <1>3 DEF Ready
    <3>2. Ready(graph', Blocks(rs) \ W)
      BY <1>5, <2>4, <3>1, WritesReady
    <3> QED BY <2>4, <2>21, <3>2, Zenon DEF Ready
  <2>25. StackEnds(graph', stack)
    <3>1. StackBlocks(stack) \cap W = {}
      BY <1>3, <2>6
    <3> QED BY <1>3, <1>5, <2>4, <3>1, StackWrites
  <2>26. ClosedKept
    <3>1. Over(graph, W \cap DOMAIN graph)
      BY <1>3, <2>6 DEF Ready, Over
    <3> QED BY <2>4, <3>1, KeptClosed
  <2>27. /\ Blocks(none) = {} /\ Distinct(none) /\ none \in Seq(Result)
         /\ Ready(graph', {}) /\ Over(graph', {})
    BY FewBlocks DEF Ready, Over
  <2>28. Nested(stack, Len(stack)) => f.node \in Inner
    BY <1>3 DEF FrameEnds, Continues
  <2> HIDE DEF none
  <2>29. Blocks(qs) \cap {} = {} /\ {} \cap StackBlocks(stack) = {}
    OBVIOUS
  <2>30. EndsInv'
    BY <1>3, <2>21, <2>22, <2>23, <2>24, <2>25, <2>27, <2>28, <2>29,
       EndsBuildEach
  <2> QED BY <2>26, <2>30 DEF EndsStep
<1> QED BY <1>2, <1>15, <1>16, Zenon

LEMMA PrepareEnds ==
  ASSUME TypeOK, TypeOK', EndsInv, UNCHANGED address, Prepare
  PROVE  EndsStep
BY ProxyTailPathEnds, ProxyRegularCallEnds, SegmentEnds, ReturnArgumentEnds,
   ReturnJunctionEnds, ReturnEachEnds DEF Prepare

-----------------------------------------------------------------------------
LEMMA TailCallEnds ==
  ASSUME TypeOK, TypeOK', EndsInv, UNCHANGED address, TailCall
  PROVE  EndsStep
<1> DEFINE target == TailCallTarget(ep, node.names, values)
           b == ep.block
           inserted == InsertBlock(graph, b)
           stored == IF \E i \in DOMAIN values : InMemory(values[i])
                     THEN Emit(inserted, b) ELSE inserted
           none == <<>>
<1>1. pc = "build"
  BY DEF TailCall, Entering
<1>2. \/ ~ Linkable(stored, b)
      \/ /\ graph' = LinkBlocks(stored, b, target.block)
         /\ Return(none) /\ UNCHANGED frames
  BY Zenon DEF TailCall
<1>3. /\ StackApart(frames) /\ StackEnds(graph, frames)
      /\ b \notin StackBlocks(frames) /\ Over(graph, {b})
      /\ b \in DOMAIN graph /\ graph[b].last = "open"
  BY <1>1, Entered
<1>4. graph \in Seq(Block) /\ graph' \in Seq(Block)
  BY DEF TypeOK
<1> HIDE DEF target, b
<1>5. /\ Writes(graph, inserted, {b}, {}) /\ Len(inserted) = Len(graph)
      /\ inserted \in Seq(Block)
  BY <1>4, InsertBlockWrites, InsertBlockType
<1> HIDE DEF inserted
<1>6. Writes(graph, stored, {b}, {}) /\ stored \in Seq(Block)
  <2>1. /\ Writes(inserted, Emit(inserted, b), {b}, {})
        /\ Emit(inserted, b) \in Seq(Block)
    BY <1>5, EmitWrites, EmitType
  <2>2. Writes(graph, Emit(inserted, b), {b}, {})
    BY <1>4, <1>5, <2>1, WritesThen
  <2>3. stored = Emit(inserted, b) \/ stored = inserted
    BY Zenon
  <2> HIDE DEF stored
  <2> QED BY <1>5, <2>1, <2>2, <2>3
<1> HIDE DEF stored
<1>7. Linkable(stored, b)
  <2>1. stored[b].last = "open"
    BY <1>3, <1>6 DEF Writes
  <2> QED BY <2>1 DEF Linkable
<1>8. CASE /\ graph' = LinkBlocks(stored, b, target.block)
           /\ Return(none) /\ UNCHANGED frames
  <2>1. Writes(stored, graph', {b}, {b})
    BY <1>6, <1>8, LinkBlocksWrites
  <2>2. Writes(graph, stored, {b}, {b})
    BY <1>6, WritesMore
  <2>3. Writes(graph, graph', {b}, {b})
    BY <1>4, <1>6, <2>1, <2>2, WritesThen
  <2>4. StackEnds(graph', frames)
    <3>1. StackBlocks(frames) \cap {b} = {}
      BY <1>3
    <3> QED BY <1>3, <1>4, <2>3, <3>1, StackWrites
  <2>5. ClosedKept
    <3>1. {b} \cap DOMAIN graph = {b}
      BY <1>3
    <3> QED BY <1>3, <2>3, <3>1, KeptClosed
  <2>6. Blocks(none) = {} /\ Distinct(none)
    BY FewBlocks
  <2>7. Ready(graph', {}) /\ Over(graph', {})
    BY DEF Ready, Over
  <2> HIDE DEF none
  <2>8. Owned(frames', none) /\ ResultEnds(graph', frames', none)
    BY <1>3, <1>8, <2>6, <2>7 DEF Owned, ResultEnds
  <2> QED BY <1>8, <2>4, <2>5, <2>8, EndsReturn DEF EndsStep
<1> QED BY <1>2, <1>7, <1>8

LEMMA CallFailsEnds ==
  ASSUME TypeOK, TypeOK', EndsInv, UNCHANGED address, CallFails
  PROVE  EndsStep
<1> DEFINE what == ResolutionError(ep, unit.functions, node.names, values)
<1>1. /\ pc = "build"
      /\ IF what # "none" THEN Throw(what)
         ELSE ~ Linkable(graph, ep.block) /\ Throw("linkBlocks")
  BY DEF CallFails, NotATailCall, Entering
<1>2. Linkable(graph, ep.block)
  BY <1>1, Entered DEF Linkable
<1>3. what # "linkBlocks"
  BY DEF ResolutionError
<1> HIDE DEF what
<1> QED BY <1>1, <1>2, <1>3, EndsThrow

LEMMA FunctionBlockEnds ==
  ASSUME TypeOK, EndsInv, pc = "build", NEW b, b = Len(graph) + 1
  PROVE  /\ Writes(graph, FunctionBlock, {ep.block}, {ep.block})
         /\ FunctionBlock \in Seq(Block)
         /\ Ready(FunctionBlock, {b})
         /\ b \in Nat /\ b \notin StackBlocks(frames)
<1> DEFINE no == FALSE
<1>1. /\ graph \in Seq(Block) /\ ep.block \in DOMAIN graph
      /\ "function" \in Roles /\ no \in BOOLEAN /\ StackEnds(graph, frames)
  BY Entered DEF TypeOK, Roles
<1>2. FunctionBlock =
        LinkBlocks(AddBlocks(InsertBlock(graph, ep.block), "function", no, 1),
                   ep.block, b)
  BY DEF FunctionBlock
<1> DEFINE h == FunctionBlock
           c == ep.block
<1>3. /\ h = LinkBlocks(AddBlocks(InsertBlock(graph, c), "function", no, 1), c, b)
      /\ graph \in Seq(Block) /\ c \in DOMAIN graph
      /\ "function" \in Roles /\ no \in BOOLEAN
  BY <1>1, <1>2
<1> HIDE DEF no, h, c
<1>4. /\ Writes(graph, h, {c}, {c}) /\ h \in Seq(Block)
      /\ b \in DOMAIN h /\ b \notin DOMAIN graph
      /\ h[b].role = "function" /\ h[b].last = "open"
  <2> DEFINE role == "function"
  <2>1. /\ h = LinkBlocks(AddBlocks(InsertBlock(graph, c), role, no, 1), c, b)
        /\ role \in Roles /\ no \in BOOLEAN
        /\ graph \in Seq(Block) /\ c \in DOMAIN graph
    BY <1>3
  <2> HIDE DEF role
  <2>2. /\ Writes(graph, h, {c}, {c}) /\ h \in Seq(Block)
        /\ Len(h) = b /\ b \in DOMAIN h /\ b \notin DOMAIN graph
        /\ h[b].role = role /\ h[b].last = "open"
    BY <2>1, NewBlockWrites, SMTT(40)
  <2> QED BY <2>2 DEF role
<1> QED BY <1>1, <1>4, NewIsFree DEF Ready, h, c

LEMMA CallFunctionEnds ==
  ASSUME TypeOK, TypeOK', EndsInv, UNCHANGED address, CallFunction
  PROVE  EndsStep
<1> DEFINE b == Len(graph) + 1
           callee == WithBlock(ep, b)
           h == [kind |-> "function", ep |-> callee]
           start(f) == MarkEntry(WithName(callee, f.name), values)
           locals(f) == WithArguments(ep.locals, f.params, values)
<1>1. pc = "build"
  BY DEF CallFunction, NotATailCall, Entering
<1>2. PICK f \in FindFunction(ep, unit.functions, node.names, values) :
        /\ graph' = FunctionBlock
        /\ Build(f.body, WithLocals(start(f), locals(f)), <<>>)
        /\ Push(h)
  BY Zenon DEF CallFunction
<1>3. f \in Function /\ f.name \in Name /\ f.body \in Inner
  BY CalleeType, InnerAssumption DEF IsFunction
<1>4. /\ Writes(graph, graph', {ep.block}, {ep.block})
      /\ Ready(graph', {b}) /\ b \in Nat /\ b \notin StackBlocks(frames)
  BY <1>1, <1>2, FunctionBlockEnds
<1> HIDE DEF b
<1>5. /\ StackApart(frames) /\ StackEnds(graph, frames)
      /\ ep.block \notin StackBlocks(frames) /\ Over(graph, {ep.block})
      /\ ep.block \in DOMAIN graph
  BY <1>1, Entered
<1>6. /\ graph \in Seq(Block) /\ graph' \in Seq(Block) /\ frames \in Seq(Frame)
      /\ ep \in EP /\ values \in Seq(Value)
  BY DEF TypeOK
<1>7. StackEnds(graph', frames)
  <2>1. StackBlocks(frames) \cap {ep.block} = {}
    BY <1>5
  <2> QED BY <1>4, <1>5, <1>6, <2>1, StackWrites
<1>8. ClosedKept
  <2>1. {ep.block} \cap DOMAIN graph = {ep.block}
    BY <1>5
  <2> QED BY <1>4, <1>5, <2>1, KeptClosed
<1>9. Todo(h) = <<>> /\ Done(h) = <<>> /\ ~ Continues(h) /\ h.kind = "function"
  BY DEF Todo, Done, Continues
<1>10. callee \in EP /\ callee.block = b
  BY <1>4, <1>6, WithBlockType DEF WithBlock, EP
<1> HIDE DEF callee, h
<1>11. WithLocals(start(f), locals(f)).block = b
  <2>1. WithName(callee, f.name) \in EP /\ WithName(callee, f.name).block = b
    BY <1>3, <1>10, WithNameType DEF WithName, EP
  <2>2. start(f) \in EP
    BY <1>6, <2>1, MarkEntryType
  <2>3. start(f).block = b
    BY <2>1 DEF MarkEntry, EP
  <2> HIDE DEF start, locals
  <2> QED BY <2>2, <2>3 DEF WithLocals, EP
<1> DEFINE e == WithLocals(start(f), locals(f))
<1> HIDE DEF e
<1>12. FrameBlocks(h) = {} /\ Apart(h)
  BY <1>9, FewBlocks DEF FrameBlocks, Apart
<1>13. frames' = Append(frames, h) /\ Build(f.body, e, <<>>) /\ e.block = b
  BY <1>2, <1>11 DEF Push, e
<1>14. StackApart(frames') /\ StackBlocks(frames') = StackBlocks(frames)
  <2>1. /\ StackBlocks(frames') = StackBlocks(frames) \cup FrameBlocks(h)
        /\ StackApart(frames') <=>
             /\ StackApart(frames) /\ Apart(h)
             /\ FrameBlocks(h) \cap StackBlocks(frames) = {}
    BY <1>6, <1>13, PushApart, Zenon
  <2> QED BY <1>5, <1>12, <2>1
<1>15. FrameEnds(graph', h, Nested(frames, Len(frames)))
  <2>1. Blocks(Todo(h)) = {} /\ Blocks(Done(h)) = {}
    BY <1>9, FewBlocks
  <2>2. Ready(graph', {}) /\ Over(graph', {})
    BY DEF Ready, Over
  <2> QED BY <1>9, <2>1, <2>2 DEF FrameEnds
<1>16. StackEnds(graph', frames') /\ NodeEnds(frames', f.body)
  BY <1>3, <1>6, <1>7, <1>13, <1>15, PushEnds DEF NodeEnds
<1> QED BY <1>4, <1>8, <1>13, <1>14, <1>16, EndsBuild DEF EndsStep

LEMMA CallImportEnds ==
  ASSUME TypeOK, TypeOK', EndsInv, UNCHANGED address, CallImport
  PROVE  EndsStep
<1> DEFINE b == Len(graph) + 1
           fits(f) == \A i \in DOMAIN f.params :
                        /\ ArgumentScore(f, values, i) = 0
                        /\ values[Len(values) + 1 - i].rep = "reference"
           r(f) == [ep |-> WithBlock(ep, b),
                    values |-> IF f.returns = "void" THEN <<>>
                               ELSE <<Scalar(f.returns)>>]
           g == FunctionBlock
<1>1. PICK f \in FindFunction(ep, unit.functions, node.names, values) :
        /\ graph' = EmitTyped(g, b, fits(f))
        /\ Return(<<r(f)>>) /\ UNCHANGED frames
  BY Zenon DEF CallImport
<1>2. fits(f) \in BOOLEAN
  BY Zenon
<1> HIDE DEF fits
<1>3. pc = "build"
  BY DEF CallImport, NotATailCall, Entering
<1>4. /\ Writes(graph, g, {ep.block}, {ep.block}) /\ g \in Seq(Block)
      /\ Ready(g, {b}) /\ b \in Nat /\ b \notin StackBlocks(frames)
  BY <1>3, FunctionBlockEnds
<1>5. /\ graph \in Seq(Block) /\ graph' \in Seq(Block) /\ ep \in EP
      /\ b \notin DOMAIN graph
  BY DEF TypeOK
<1>6. r(f).ep.block = b
  BY <1>5 DEF WithBlock, EP
<1> HIDE DEF b, g, r
<1>7. /\ StackApart(frames) /\ StackEnds(graph, frames)
      /\ ep.block \notin StackBlocks(frames) /\ Over(graph, {ep.block})
      /\ ep.block \in DOMAIN graph
  BY <1>3, Entered
<1>8. Writes(g, graph', {b}, {})
  BY <1>1, <1>2, <1>4, EmitTypedWrites
<1> DEFINE W == {ep.block, b}
           C == {ep.block}
<1>9. Writes(graph, graph', W, C)
  <2>1. Writes(graph, g, W, C) /\ Writes(g, graph', W, C)
    BY <1>4, <1>8, WritesMore
  <2> QED BY <1>4, <1>5, <2>1, WritesThen
<1>10. StackEnds(graph', frames)
  <2>1. StackBlocks(frames) \cap C = {}
    BY <1>7
  <2> QED BY <1>5, <1>7, <1>9, <2>1, StackWrites
<1>11. ClosedKept
  <2>1. W \cap DOMAIN graph = {ep.block}
    BY <1>5, <1>7
  <2> QED BY <1>7, <1>9, <2>1, KeptClosed
<1>12. Ready(graph', {b})
  BY <1>4, <1>5, <1>8, WritesReady
<1>13. Blocks(<<r(f)>>) = {b} /\ Distinct(<<r(f)>>)
  BY <1>6, FewBlocks
<1>14. Owned(frames', <<r(f)>>) /\ ResultEnds(graph', frames', <<r(f)>>)
  BY <1>1, <1>4, <1>7, <1>12, <1>13, ReadyOver DEF Owned, ResultEnds
<1> QED BY <1>1, <1>10, <1>11, <1>14, EndsReturn DEF EndsStep

LEMMA ReturnFunctionEnds ==
  ASSUME TypeOK, TypeOK', EndsInv, UNCHANGED address, ReturnFunction
  PROVE  EndsStep
<1> DEFINE f == Last(frames)
           below == Front(frames)
           I == DOMAIN results
           n == Len(results)
           from == [i \in I |-> results[i].ep.block]
           to == [i \in I |-> Len(graph) + i]
           r(i) == [ep |-> WithBlock(f.ep, Len(graph) + i),
                    values |-> results[i].values]
           rs == [i \in 1..n |-> r(i)]
           yes == TRUE
           no == FALSE
           W == {from[i] : i \in I}
           new == Len(graph)+1..Len(graph)+n
<1>1. Returning("function")
        /\ \/ ~ EachLinkable(graph, I, from)
           \/ /\ graph' = AddBlocks(LinkEach(graph, I, from, to, yes),
                                    "consumer", no, n)
              /\ Return(rs) /\ frames' = below
  BY Zenon DEF ReturnFunction
<1>2. /\ below \in Seq(Frame) /\ f \in Frame /\ f.kind = "function"
      /\ StackApart(below) /\ StackEnds(graph, below)
      /\ results \in Seq(Result) /\ Distinct(results)
      /\ Blocks(results) \cap StackBlocks(below) = {}
      /\ Ready(graph, Blocks(results))
  BY <1>1, Returned
<1> HIDE DEF f, below
<1>3. f.ep \in EP
  BY <1>2, FrameType
<1>4. /\ I = 1..n /\ n \in Nat /\ Len(graph) \in Nat
      /\ graph \in Seq(Block) /\ graph' \in Seq(Block)
      /\ yes \in BOOLEAN /\ no \in BOOLEAN /\ "consumer" \in Roles
  BY DEF TypeOK, Roles
<1>5. \A i \in I : from[i] = results[i].ep.block /\ to[i] \in Nat /\ from[i] \in W
  BY <1>4
<1>6. DOMAIN rs = 1..n /\ \A i \in 1..n : rs[i].ep.block = Len(graph) + i
  BY <1>3 DEF WithBlock, EP
<1>7. W \subseteq Blocks(results)
  BY DEF Blocks
<1> HIDE DEF I, n, from, to, yes, no, rs, W, new
<1>8. EachLinkable(graph, I, from)
  <2>1. ASSUME NEW i \in I PROVE graph[from[i]].last = "open"
    BY <1>2, <1>5, <1>7, Zenon DEF Ready
  <2>2. ASSUME NEW i \in I, NEW j \in I, from[i] = from[j] PROVE i = j
    <3>1. results[i].ep.block = results[j].ep.block
      BY <1>5, <2>2
    <3> QED BY <1>2, <3>1, Zenon DEF Distinct, I
  <2>3. \A i \in I : Linkable(graph, from[i])
    BY <2>1 DEF Linkable
  <2> QED BY <2>2, <2>3, Zenon DEF EachLinkable
<1>9. CASE /\ graph' = AddBlocks(LinkEach(graph, I, from, to, yes),
                                 "consumer", no, n)
           /\ Return(rs) /\ frames' = below
  <2>1. /\ Writes(graph, graph', W, W) /\ Ready(graph', new)
        /\ \A j \in 1..n : Len(graph) + j \in new
        /\ \A j \in 1..n : Len(graph) + j \notin DOMAIN graph
    <3>1. \A i \in I : to[i] \in Nat
      BY <1>5
    <3>2. \A i \in I : from[i] \in W
      BY <1>5
    <3>3. graph' = AddBlocks(LinkEach(graph, I, from, to, yes), "consumer", no, n)
      BY <1>9
    <3>4. graph \in Seq(Block) /\ n \in Nat
          /\ yes \in BOOLEAN /\ no \in BOOLEAN /\ "consumer" \in Roles
      BY <1>4
    <3> QED BY <3>1, <3>2, <3>3, <3>4, LinkedEachWrites DEF new
  <2>2. Distinct(rs)
    BY <1>4, <1>6 DEF Distinct
  <2>3. Blocks(rs) \subseteq new /\ \A b \in Blocks(rs) : b \notin DOMAIN graph
    BY <1>6, <2>1, Zenon DEF Blocks
  <2>4. Blocks(rs) \cap StackBlocks(below) = {}
    BY <1>2, <2>3, NewIsFree
  <2>5. StackEnds(graph', below)
    <3>1. StackBlocks(below) \cap W = {}
      BY <1>2, <1>7
    <3> QED BY <1>2, <1>4, <2>1, <3>1, StackWrites
  <2>6. ClosedKept
    <3>1. Over(graph, W \cap DOMAIN graph)
      BY <1>2, <1>7 DEF Ready, Over
    <3> QED BY <2>1, <3>1, KeptClosed
  <2>7. Ready(graph', Blocks(rs))
    BY <2>1, <2>3 DEF Ready
  <2>8. Owned(frames', rs) /\ ResultEnds(graph', frames', rs)
    BY <1>2, <1>9, <2>2, <2>4, <2>7, ReadyOver DEF Owned, ResultEnds
  <2> QED BY <1>9, <2>5, <2>6, <2>8, EndsReturn DEF EndsStep
<1> QED BY <1>1, <1>8, <1>9

LEMMA InvokeEnds ==
  ASSUME TypeOK, TypeOK', EndsInv, UNCHANGED address, Invoke
  PROVE  EndsStep
BY TailCallEnds, CallFailsEnds, CallFunctionEnds, CallImportEnds,
   ReturnFunctionEnds DEF Invoke

-----------------------------------------------------------------------------
(* The theorems.                                                           *)

LEMMA InitEnds ==
  ASSUME Init, TypeOK
  PROVE  EndsInv
<1> DEFINE none == <<>>
           yes == TRUE
           no == FALSE
           alloc == AddBlocks(none, "alloc", yes, 1)
           body == AddBlocks(alloc, "body", no, 1)
<1>1. /\ none \in Seq(Block) /\ "alloc" \in Roles /\ "body" \in Roles
      /\ yes \in BOOLEAN /\ no \in BOOLEAN /\ 1 \in Nat /\ 2 \in Nat
      /\ Len(none) = 0
  BY DEF Roles
<1>2. graph = LinkBlocks(body, 1, 2)
  BY DEF Init
<1> HIDE DEF none, yes, no
<1>3. alloc \in Seq(Block)
  BY <1>1, AddBlocksType
<1>4. Len(alloc) = Len(none) + 1
  <2>1. alloc = AddBlocks(none, "alloc", yes, 1)
    OBVIOUS
  <2>2. none \in Seq(Block) /\ 1 \in Nat
    BY <1>1
  <2> HIDE DEF alloc
  <2> QED BY <2>1, <2>2, AddBlocksWrites
<1> HIDE DEF alloc
<1>5. body \in Seq(Block)
  BY <1>1, <1>3, AddBlocksType
<1>6. /\ Len(body) = Len(alloc) + 1
      /\ \A c \in DOMAIN body \ DOMAIN alloc :
           body[c].role = "body" /\ body[c].last = "open"
  <2>1. body = AddBlocks(alloc, "body", no, 1)
    OBVIOUS
  <2> HIDE DEF body
  <2> QED BY <1>1, <1>3, <2>1, AddBlocksWrites
<1> HIDE DEF body
<1>7. Writes(body, graph, {1}, {1}) /\ Len(graph) = Len(body)
  BY <1>2, <1>5, LinkBlocksWrites
<1>8. /\ DOMAIN body = 1..2 /\ DOMAIN alloc = 1..1 /\ DOMAIN graph = 1..2
      /\ 2 \in DOMAIN body \ DOMAIN alloc
  BY <1>1, <1>3, <1>4, <1>5, <1>6, <1>7 DEF TypeOK
<1>9. graph[2] = body[2]
  BY <1>7, <1>8 DEF Writes
<1>10. Ready(graph, {2})
  BY <1>6, <1>8, <1>9 DEF Ready
<1>11. /\ frames = <<>> /\ ep.block = 2 /\ pc = "build" /\ error = "none"
       /\ address \in Layout
  BY DEF Init, RootEP
<1>12. Blocks(Now) = {2} /\ Distinct(Now)
  <2> DEFINE r == [ep |-> ep, values |-> values]
  <2>1. r.ep = ep /\ Now = <<r>>
    BY DEF Now
  <2> HIDE DEF r
  <2> QED BY <1>11, <2>1, FewBlocks
<1>13. Owned(frames, Now)
  <2>1. StackBlocks(frames) = {} /\ StackApart(frames)
    BY <1>11 DEF StackBlocks, StackApart
  <2> QED BY <1>12, <2>1 DEF Owned
<1>14. StackEnds(graph, frames) /\ NodeEnds(frames, node)
  BY <1>11 DEF StackEnds, NodeEnds, Nested
<1> QED BY <1>10, <1>11, <1>12, <1>13, <1>14 DEF EndsInv

LEMMA StepEnds ==
  ASSUME TypeOK, TypeOK', EndsInv, [Next]_vars
  PROVE  EndsStep
<1>1. CASE Step /\ UNCHANGED address
  <2>1. CASE Finish
    BY <2>1, <1>1, Unwritten DEF Finish, EndsInv, EndsStep
  <2>2. CASE Overflow
    BY <2>2, <1>1, EndsThrow DEF Overflow
  <2> QED BY <1>1, <2>1, <2>2, ProduceEnds, LeaveEnds, BranchEnds, PrepareEnds,
             InvokeEnds DEF Step
<1>2. CASE Stop /\ UNCHANGED address
  BY <1>2, Unwritten DEF Stop, Compiled, EndsInv, EndsStep
<1>3. CASE UNCHANGED vars
  <2>1. ClosedKept
    BY <1>3, Unwritten DEF vars
  <2>2. EndsInv'
    <3>1. /\ UNCHANGED <<address, pc, node, frames, graph, error, results>>
          /\ Now' = Now
      BY <1>3 DEF vars, Now
    <3> QED BY <3>1, Zenon DEF EndsInv
  <2> QED BY <2>1, <2>2 DEF EndsStep
<1> QED BY <1>1, <1>2, <1>3, Zenon DEF Next

LEMMA EndsInvariant == Spec => [](TypeOK /\ EndsInv)
<1>1. Init => TypeOK /\ EndsInv
  BY InitType, InitEnds
<1>2. TypeOK /\ EndsInv /\ [Next]_vars => (TypeOK /\ EndsInv)'
  BY StepType, StepEnds DEF EndsStep
<1> QED BY <1>1, <1>2, PTL DEF Spec

\* linkBlocks (Utility.cpp:22): its exception is never thrown, whatever the
\* program: no block is linked that ends with a branch already.
THEOREM LinkBlocksCorrect == Spec => []NothingIsLinkedTwice
<1>1. TypeOK /\ EndsInv => NothingIsLinkedTwice
  BY DEF EndsInv, NothingIsLinkedTwice
<1> QED BY <1>1, EndsInvariant, PTL

\* Node::build: a block that ends with its branch is never written to again,
\* although every node appends to whatever block its context names.
THEOREM ClosedCorrect == Spec => ClosedForGood
<1>1. TypeOK /\ EndsInv /\ [Next]_vars =>
        [\A b \in DOMAIN graph :
           graph[b].last # "open" /\ graph[b].role # "entry" =>
             graph'[b] = graph[b]]_vars
  BY StepType, StepEnds DEF EndsStep, ClosedKept
<1> QED BY <1>1, EndsInvariant, PTL DEF Spec, ClosedForGood

LEMMA HeldOnce ==
  ASSUME NEW place, NEW rs, Distinct(rs), Over(graph, Blocks(rs))
  PROVE  /\ \A x \in HeldBy(place, rs) :
              /\ x.block \in Blocks(rs) /\ x.place = place
              /\ graph[x.block].last = "open"
         /\ \A x, y \in HeldBy(place, rs) : x.block = y.block => x = y
<1> DEFINE r(i) == [place |-> place, index |-> i, block |-> rs[i].ep.block]
<1>1. \A i : r(i).place = place /\ r(i).block = rs[i].ep.block
  OBVIOUS
<1>2. ASSUME NEW x \in HeldBy(place, rs)
      PROVE  \E i \in DOMAIN rs : x = r(i) /\ graph[rs[i].ep.block].role # "entry"
  BY DEF HeldBy
<1> HIDE DEF r
<1>3. ASSUME NEW x \in HeldBy(place, rs)
      PROVE  /\ x.block \in Blocks(rs) /\ x.place = place
             /\ graph[x.block].last = "open"
  <2>1. PICK i \in DOMAIN rs : x = r(i) /\ graph[rs[i].ep.block].role # "entry"
    BY <1>2
  <2>2. rs[i].ep.block \in Blocks(rs)
    BY DEF Blocks
  <2> QED BY <1>1, <2>1, <2>2 DEF Over
<1>4. ASSUME NEW x \in HeldBy(place, rs), NEW y \in HeldBy(place, rs),
             x.block = y.block
      PROVE  x = y
  <2>1. PICK i \in DOMAIN rs : x = r(i)
    BY <1>2
  <2>2. PICK j \in DOMAIN rs : y = r(j)
    BY <1>2
  <2>3. rs[i].ep.block = rs[j].ep.block
    BY <1>1, <1>4, <2>1, <2>2
  <2>4. i = j
    BY <2>3, Zenon DEF Distinct
  <2> QED BY <2>1, <2>2, <2>4
<1> QED BY <1>3, <1>4

\* A frame holds blocks of its own, each in one place.
LEMMA FrameHolds ==
  ASSUME TypeOK, StackApart(frames), StackEnds(graph, frames),
         NEW k \in DOMAIN frames
  PROVE  /\ \A x \in HeldByFrame(k) : /\ x.block \in FrameBlocks(frames[k])
                                      /\ graph[x.block].last = "open"
         /\ \A x, y \in HeldByFrame(k) : x.block = y.block => x = y
<1> DEFINE f == frames[k]
           H == HeldByFrame(k)
           todo == <<k, "todo">>
           done == <<k, "done">>
           G == /\ \A x \in H : /\ x.block \in FrameBlocks(f)
                                /\ graph[x.block].last = "open"
                /\ \A x, y \in H : x.block = y.block => x = y
<1>1. f \in Frame
  BY DEF TypeOK
<1>2. /\ Distinct(Todo(f)) /\ Distinct(Done(f))
      /\ Blocks(Todo(f)) \cap Blocks(Done(f)) = {}
  BY Zenon DEF StackApart, Apart
<1>3. Ready(graph, Blocks(Todo(f))) /\ Over(graph, Blocks(Done(f)))
  BY Zenon DEF StackEnds, FrameEnds
<1>4. /\ Blocks(Todo(f)) \subseteq FrameBlocks(f)
      /\ Blocks(Done(f)) \subseteq FrameBlocks(f)
  BY DEF FrameBlocks
<1>5. Over(graph, Blocks(Todo(f)))
  BY <1>3, ReadyOver
<1>6. ASSUME H = HeldBy(todo, Todo(f)) \cup HeldBy(done, Done(f)) PROVE G
  <2>1. /\ \A x \in HeldBy(todo, Todo(f)) :
             x.block \in Blocks(Todo(f)) /\ graph[x.block].last = "open"
        /\ \A x, y \in HeldBy(todo, Todo(f)) : x.block = y.block => x = y
    BY <1>2, <1>5, HeldOnce, Zenon
  <2>2. /\ \A x \in HeldBy(done, Done(f)) :
             x.block \in Blocks(Done(f)) /\ graph[x.block].last = "open"
        /\ \A x, y \in HeldBy(done, Done(f)) : x.block = y.block => x = y
    BY <1>2, <1>3, HeldOnce, Zenon
  <2> HIDE DEF H, f, todo, done
  <2>3. ASSUME NEW x \in H, NEW y \in H, x.block = y.block PROVE x = y
    BY <1>2, <1>6, <2>1, <2>2, <2>3
  <2> QED BY <1>4, <1>6, <2>1, <2>2, <2>3
<1>7. ASSUME f.kind = "ifTrue" PROVE G
  <2> DEFINE x == [place |-> <<k, "branch">>, index |-> 1, block |-> f.block]
             r == [ep |-> WithBlock(f.ep, f.block), values |-> f.values]
  <2>1. H = {x} /\ x.block = f.block
    BY <1>7 DEF HeldByFrame
  <2>2. Todo(f) = <<r>>
    BY <1>7 DEF Todo
  <2>3. f.ep \in EP
    BY <1>1, <1>7, FrameType
  <2>4. r.ep.block = f.block
    BY <2>3 DEF WithBlock, EP
  <2> HIDE DEF x, r, f, H
  <2>5. Blocks(Todo(f)) = {f.block}
    BY <2>2, <2>4, FewBlocks
  <2>6. f.block \in FrameBlocks(f) /\ graph[f.block].last = "open"
    BY <1>3, <1>4, <2>5 DEF Ready
  <2> QED BY <2>1, <2>6
<1>8. ASSUME f.kind = "ifFalse" PROVE G
  <2>1. Todo(f) = <<>> /\ Done(f) = f.done
    BY <1>8 DEF Todo, Done
  <2>2. HeldBy(todo, Todo(f)) = {}
    BY <2>1 DEF HeldBy
  <2>3. H = HeldBy(done, Done(f))
    BY <1>8, <2>1 DEF HeldByFrame
  <2> QED BY <1>6, <2>2, <2>3
<1>9. ASSUME f.kind = "each" PROVE G
  <2>1. Todo(f) = f.todo /\ Done(f) = f.done
    BY <1>9 DEF Todo, Done
  <2>2. H = HeldBy(todo, Todo(f)) \cup HeldBy(done, Done(f))
    BY <1>9, <2>1 DEF HeldByFrame
  <2> QED BY <1>6, <2>2
<1>10. ASSUME f.kind = "argument" PROVE G
  <2>1. Todo(f) = Tail(f.todo) /\ Done(f) = f.done
    BY <1>10 DEF Todo, Done
  <2>2. H = HeldBy(todo, Todo(f)) \cup HeldBy(done, Done(f))
    BY <1>10, <2>1 DEF HeldByFrame
  <2> QED BY <1>6, <2>2
<1>11. ASSUME f.kind \notin {"ifTrue", "ifFalse", "each", "argument"} PROVE G
  <2>1. H = {}
    BY <1>11 DEF HeldByFrame
  <2> QED BY <2>1
<1> HIDE DEF G
<1>12. G
  BY <1>7, <1>8, <1>9, <1>10, <1>11
<1> QED BY <1>12 DEF G

\* All ends are open, and no two are one block.
LEMMA EndsOwned ==
  ASSUME TypeOK, EndsInv, Running
  PROVE  /\ \A x, y \in Ends : x.block = y.block => x = y
         /\ \A x \in Ends : x.block \in DOMAIN graph /\ graph[x.block].last = "open"
<1> DEFINE top == IF pc = "build"
                  THEN {[place |-> <<0, "now">>, index |-> 1,
                         block |-> ep.block]}
                  ELSE HeldBy(<<0, "results">>, results)
           rs == IF pc = "build" THEN Now ELSE results
<1>1. Owned(frames, rs) /\ StackEnds(graph, frames) /\ Over(graph, Blocks(rs))
  <2>1. CASE pc = "build"
    <3>1. Owned(frames, Now) /\ StackEnds(graph, frames)
          /\ Ready(graph, Blocks(Now))
      BY <2>1, Zenon DEF EndsInv
    <3>2. Over(graph, Blocks(Now))
      BY <3>1, ReadyOver
    <3> QED BY <2>1, <3>1, <3>2
  <2>2. CASE pc = "return"
    BY <2>2 DEF EndsInv, ResultEnds
  <2> QED BY <2>1, <2>2 DEF Running
<1>2. StackApart(frames) /\ Distinct(rs)
      /\ Blocks(rs) \cap StackBlocks(frames) = {}
  BY <1>1, Zenon DEF Owned
<1>3. /\ \A x \in top : x.block \in Blocks(rs) /\ graph[x.block].last = "open"
      /\ \A x, y \in top : x.block = y.block => x = y
  <2>1. CASE pc = "build"
    <3> DEFINE x == [place |-> <<0, "now">>, index |-> 1, block |-> ep.block]
    <3>1. top = {x} /\ x.block = ep.block /\ rs = Now
      BY <2>1
    <3>2. DOMAIN Now = {1} /\ Now[1].ep.block = ep.block
      BY DEF Now
    <3>3. ep.block \in Blocks(rs)
      BY <3>1, <3>2, Zenon DEF Blocks
    <3>4. graph[ep.block].last = "open"
      BY <2>1, Entered
    <3> HIDE DEF x, top, rs
    <3> QED BY <3>1, <3>3, <3>4
  <2>2. CASE pc # "build"
    BY <1>1, <1>2, <2>2, HeldOnce
  <2> QED BY <2>1, <2>2
<1> HIDE DEF top, rs
<1> DEFINE held == UNION {HeldByFrame(k) : k \in DOMAIN frames}
<1>4. Ends = held \cup top
  BY DEF Ends, top
<1>5. ASSUME NEW x \in Ends
      PROVE  \/ x \in top
             \/ \E k \in DOMAIN frames : x \in HeldByFrame(k)
  <2>1. x \in held => \E k \in DOMAIN frames : x \in HeldByFrame(k)
    OBVIOUS
  <2> HIDE DEF held
  <2> QED BY <1>4, <2>1
<1>6. ASSUME NEW k \in DOMAIN frames
      PROVE  /\ \A x \in HeldByFrame(k) :
                  /\ x.block \in FrameBlocks(frames[k])
                  /\ graph[x.block].last = "open"
             /\ \A x, y \in HeldByFrame(k) : x.block = y.block => x = y
  BY <1>1, <1>2, FrameHolds
<1>7. \A x \in Ends : graph[x.block].last = "open"
  BY <1>3, <1>5, <1>6, Zenon
<1>8. ASSUME NEW k \in DOMAIN frames, NEW x \in HeldByFrame(k), NEW y \in top
      PROVE  x.block # y.block
  <2>1. x.block \in StackBlocks(frames)
    BY <1>6, Zenon DEF StackBlocks
  <2> QED BY <1>2, <1>3, <2>1
<1>9. ASSUME NEW k \in DOMAIN frames, NEW l \in DOMAIN frames, k # l,
             NEW x \in HeldByFrame(k), NEW y \in HeldByFrame(l)
      PROVE  x.block # y.block
  <2>1. FrameBlocks(frames[k]) \cap FrameBlocks(frames[l]) = {}
    BY <1>2, <1>9, Zenon DEF StackApart
  <2> QED BY <1>6, <2>1
<1>10. ASSUME NEW x \in Ends, NEW y \in Ends, x.block = y.block PROVE x = y
  <2>1. CASE x \in top /\ y \in top
    BY <1>3, <1>10, <2>1
  <2>2. CASE \E k \in DOMAIN frames : x \in HeldByFrame(k)
    <3>1. PICK k \in DOMAIN frames : x \in HeldByFrame(k)
      BY <2>2
    <3>2. y \notin top
      BY <1>8, <1>10, <3>1
    <3>3. PICK l \in DOMAIN frames : y \in HeldByFrame(l)
      BY <1>5, <3>2
    <3>4. k = l
      BY <1>9, <1>10, <3>1, <3>3
    <3> QED BY <1>6, <1>10, <3>1, <3>3, <3>4
  <2>3. CASE x \in top /\ \E l \in DOMAIN frames : y \in HeldByFrame(l)
    BY <1>8, <1>10, <2>3
  <2> QED BY <1>5, <2>1, <2>2, <2>3
<1>11. ASSUME NEW x \in Ends PROVE x.block \in DOMAIN graph
  <2>1. CASE x \in top
    BY <1>1, <1>3, <2>1 DEF Over
  <2>2. ASSUME NEW k \in DOMAIN frames, x \in HeldByFrame(k)
        PROVE  x.block \in StackBlocks(frames)
    <3>1. x.block \in FrameBlocks(frames[k])
      BY <1>6, <2>2
    <3> QED BY <3>1, Zenon DEF StackBlocks
  <2>3. Over(graph, StackBlocks(frames))
    BY <1>1, StackOver
  <2> QED BY <1>5, <2>1, <2>2, <2>3 DEF Over
<1> QED BY <1>7, <1>10, <1>11

\* Node::build: contexts are copied freely and a continuation is built once per
\* result of a call, an argument or a branch, but of all the contexts that are
\* still to be written to no two name one block, and all of those are open.
THEOREM EndsCorrect == Spec => []EndsAreOwnedOnce
<1>1. TypeOK /\ EndsInv => EndsAreOwnedOnce
  BY EndsOwned, Zenon DEF EndsAreOwnedOnce
<1> QED BY <1>1, EndsInvariant, PTL

-----------------------------------------------------------------------------
(* Nothing dangles.                                                        *)

\* What is open is in S, and no block with the ret of the exported function, ...
Held(g, S) ==
  \A b \in DOMAIN g : g[b].last = "open" => b \in S /\ g[b].role # "entry"

\* ... but for the block n.
HeldBut(g, S, n) ==
  \A b \in DOMAIN g \ {n} :
    g[b].last = "open" => b \in S /\ g[b].role # "entry"

\* Every open block is held by the frames, or is what is entered or returned.
HeldInv ==
  /\ pc = "build" => Held(graph, StackBlocks(frames) \cup {ep.block})
  /\ pc = "return" => Held(graph, StackBlocks(frames) \cup Blocks(results))

\* To be held by more is no harm.
LEMMA HeldMore ==
  ASSUME NEW g, NEW S, Held(g, S), NEW T, S \subseteq T
  PROVE  Held(g, T)
BY Zenon DEF Held

\* insertBlock opens and closes nothing.
LEMMA InsertBlockHeld ==
  ASSUME NEW g \in Seq(Block), NEW b, NEW h, h = InsertBlock(g, b), NEW S, Held(g, S)
  PROVE  Held(h, S)
<1>1. /\ Writes(g, h, {b}, {}) /\ Len(h) = Len(g) /\ h \in Seq(Block)
  BY InsertBlockWrites, InsertBlockType
<1>2. \A c \in DOMAIN g : h[c].last = g[c].last /\ h[c].role = g[c].role
  <2> DEFINE r == [g[b] EXCEPT !.inserted = TRUE]
  <2>1. h = [g EXCEPT ![b] = r]
    BY DEF InsertBlock
  <2>2. ASSUME g[b] \in Block
        PROVE  r.role = g[b].role /\ r.last = g[b].last
    BY <2>2 DEF Block
  <2> HIDE DEF r
  <2>3. /\ \A c \in DOMAIN g : h[c] = IF c = b THEN r ELSE g[c]
        /\ b \in DOMAIN g => g[b] \in Block
    BY <2>1, ReplacedBlock
  <2> QED BY <2>2, <2>3
<1>3. DOMAIN h = DOMAIN g
  BY <1>1
<1> QED BY <1>2, <1>3, Zenon DEF Held

\* What a held block is written is as good as nothing.
LEMMA EmitTypedHeld ==
  ASSUME NEW g \in Seq(Block), NEW b, NEW agree \in BOOLEAN,
         NEW h, h = EmitTyped(g, b, agree), NEW S, Held(g, S), b \in S, Ready(g, {b})
  PROVE  Held(h, S)
<1>1. /\ Writes(g, h, {b}, {}) /\ Len(h) = Len(g) /\ h \in Seq(Block)
  BY EmitTypedWrites, EmitTypedType
<1>2. DOMAIN h = DOMAIN g
  BY <1>1
<1> QED BY <1>1, <1>2 DEF Held, Writes, Ready

LEMMA EmitHeld ==
  ASSUME NEW g \in Seq(Block), NEW b,
         NEW h, h = Emit(g, b), NEW S, Held(g, S), b \in S, Ready(g, {b})
  PROVE  Held(h, S)
<1>1. /\ Writes(g, h, {b}, {}) /\ Len(h) = Len(g) /\ h \in Seq(Block)
  BY EmitWrites, EmitType
<1>2. DOMAIN h = DOMAIN g
  BY <1>1
<1> QED BY <1>1, <1>2 DEF Held, Writes, Ready

\* Who is closed need not be held any longer.
LEMMA TerminateHeld ==
  ASSUME NEW g \in Seq(Block), NEW b, NEW kind \in Terminators,
         NEW T \in SUBSET Nat, NEW agree \in BOOLEAN,
         NEW h, h = Terminate(g, b, kind, T, agree), NEW S
  PROVE  /\ Held(g, S) => Held(h, S \ {b})
         /\ \A n : HeldBut(g, S, n) => HeldBut(h, S \ {b}, n)
         /\ HeldBut(g, S, b) => Held(h, S \ {b})
<1>1. /\ Writes(g, h, {b}, {b}) /\ Len(h) = Len(g) /\ h \in Seq(Block)
  BY TerminateWrites, TerminateType
<1>2. DOMAIN h = DOMAIN g
  BY <1>1
<1>3. b \in DOMAIN g => h[b].last # "open"
  <2> DEFINE r == [g[b] EXCEPT
                     !.malformed = @ \/ g[b].last # "open" \/ ~agree,
                     !.last = kind, !.targets = @ \cup T]
  <2>1. h = [g EXCEPT ![b] = r]
    BY DEF Terminate
  <2>2. ASSUME g[b] \in Block PROVE r.last = kind
    BY <2>2 DEF Block
  <2> HIDE DEF r
  <2>3. /\ \A c \in DOMAIN g : h[c] = IF c = b THEN r ELSE g[c]
        /\ b \in DOMAIN g => g[b] \in Block
    BY <2>1, ReplacedBlock
  <2> QED BY <2>2, <2>3 DEF Terminators
<1>4. ASSUME NEW c \in DOMAIN h, h[c].last = "open"
      PROVE  c # b /\ c \in DOMAIN g /\ h[c] = g[c]
  BY <1>1, <1>2, <1>3, <1>4, Zenon DEF Writes
<1> QED BY <1>2, <1>4, Zenon DEF Held, HeldBut

LEMMA LinkBlocksHeld ==
  ASSUME NEW g \in Seq(Block), NEW b, NEW t \in Nat,
         NEW h, h = LinkBlocks(g, b, t), NEW S
  PROVE  /\ Held(g, S) => Held(h, S \ {b})
         /\ \A n : HeldBut(g, S, n) => HeldBut(h, S \ {b}, n)
<1> DEFINE yes == TRUE
           to == {t}
<1>1. /\ h = Terminate(g, b, "br", to, yes) /\ yes \in BOOLEAN
      /\ "br" \in Terminators /\ to \in SUBSET Nat
  BY DEF LinkBlocks, Terminators
<1> HIDE DEF yes, to
<1> QED BY <1>1, TerminateHeld

\* New blocks have to be held.
LEMMA AddBlocksHeld ==
  ASSUME NEW g \in Seq(Block), NEW role \in Roles, NEW inserted \in BOOLEAN, NEW n \in Nat,
         NEW h, h = AddBlocks(g, role, inserted, n), NEW S, Held(g, S)
  PROVE  /\ role # "entry" => Held(h, S \cup (Len(g)+1..Len(g)+n))
         /\ n = 1 => HeldBut(h, S, Len(g) + 1)
<1>1. /\ Writes(g, h, {}, {}) /\ Len(h) = Len(g) + n
      /\ \A c \in DOMAIN h \ DOMAIN g : h[c].role = role /\ h[c].last = "open"
      /\ h \in Seq(Block)
  <2>1. h \in Seq(Block)
    BY AddBlocksType
  <2> QED BY <2>1, AddBlocksWrites
<1> DEFINE new == Len(g)+1..Len(g)+n
<1>2. \A c \in DOMAIN h : c \in DOMAIN g \/ (c \in new /\ c \in DOMAIN h \ DOMAIN g)
  BY <1>1
<1>3. n = 1 => new = {Len(g) + 1}
  OBVIOUS
<1> HIDE DEF new
<1>4. \A c \in DOMAIN g : h[c] = g[c]
  BY <1>1 DEF Writes
<1>5. ASSUME role # "entry", NEW b \in DOMAIN h, h[b].last = "open"
      PROVE  b \in S \cup new /\ h[b].role # "entry"
  BY <1>1, <1>2, <1>4, <1>5 DEF Held
<1>6. ASSUME n = 1, NEW b \in DOMAIN h, b # Len(g) + 1, h[b].last = "open"
      PROVE  b \in S /\ h[b].role # "entry"
  BY <1>2, <1>3, <1>4, <1>6 DEF Held
<1> QED BY <1>5, <1>6 DEF Held, HeldBut, new

\* The blocks that are linked need not be held any longer.
LEMMA LinkEachHeld ==
  ASSUME NEW g \in Seq(Block), NEW I, NEW from, NEW to,
         \A i \in I : to[i] \in Nat, NEW insert \in BOOLEAN,
         NEW W, \A b \in W : \E i \in I : from[i] = b, \A i \in I : from[i] \in W,
         NEW h, h = LinkEach(g, I, from, to, insert), NEW S, Held(g, S)
  PROVE  Held(h, S \ W)
<1> DEFINE mine(b) == {i \in I : from[i] = b}
           linked(b) == [g[b] EXCEPT
              !.inserted = @ \/ insert,
              !.malformed = @ \/ g[b].last # "open" \/ Cardinality(mine(b)) > 1,
              !.last = "br",
              !.targets = @ \cup {to[i] : i \in mine(b)}]
           k == [b \in 1..Len(g) |-> IF mine(b) = {} THEN g[b] ELSE linked(b)]
<1>1. /\ Writes(g, h, W, W) /\ Len(h) = Len(g) /\ h \in Seq(Block)
  BY LinkEachWrites, LinkEachType
<1>2. DOMAIN h = DOMAIN g /\ DOMAIN g = 1..Len(g)
  BY <1>1
<1>3. ASSUME NEW c \in W, c \in DOMAIN g PROVE h[c].last # "open"
  <2>1. h = k
    BY Zenon DEF LinkEach
  <2>2. mine(c) # {}
    BY <1>3
  <2>3. h[c] = linked(c)
    <3>1. c \in 1..Len(g)
      BY <1>2, <1>3
    <3> HIDE DEF linked, mine
    <3> QED BY <2>1, <2>2, <3>1
  <2>4. g[c] \in Block
    BY <1>3
  <2>5. linked(c).last = "br"
    <3> HIDE DEF mine
    <3> QED BY <2>4 DEF Block
  <2> HIDE DEF linked
  <2> QED BY <2>3, <2>5
<1>4. ASSUME NEW c \in DOMAIN h, h[c].last = "open"
      PROVE  c \notin W /\ c \in DOMAIN g /\ h[c] = g[c]
  BY <1>1, <1>2, <1>3, <1>4, Zenon DEF Writes
<1> QED BY <1>4, Zenon DEF Held

-----------------------------------------------------------------------------
\* The ways a step ends.
LEMMA HeldThrow ==
  ASSUME NEW what, Throw(what)
  PROVE  HeldInv'
BY DEF HeldInv, Throw

LEMMA HeldBuild ==
  ASSUME NEW n, NEW e, NEW vs, Build(n, e, vs),
         Held(graph', StackBlocks(frames') \cup {e.block})
  PROVE  HeldInv'
BY DEF HeldInv, Build

LEMMA HeldReturn ==
  ASSUME NEW rs, Return(rs), Held(graph', StackBlocks(frames') \cup Blocks(rs))
  PROVE  HeldInv'
BY DEF HeldInv, Return

\* In the same block and the same frames.
LEMMA HeldHere ==
  ASSUME NEW n, NEW e, NEW vs, Build(n, e, vs), e.block = ep.block,
         UNCHANGED frames, Held(graph', StackBlocks(frames) \cup {ep.block})
  PROVE  HeldInv'
<1>1. Held(graph', StackBlocks(frames') \cup {e.block})
  OBVIOUS
<1> QED BY <1>1, HeldBuild

\* In the same block, with one more frame.
LEMMA HeldPush ==
  ASSUME TypeOK, HeldInv, pc = "build", UNCHANGED graph,
         NEW n, NEW e, NEW vs, Build(n, e, vs), e.block = ep.block,
         NEW f, Push(f)
  PROVE  HeldInv'
<1>1. StackBlocks(frames') = StackBlocks(frames) \cup FrameBlocks(f)
  BY PushApart DEF TypeOK, Push
<1>2. StackBlocks(frames) \cup {ep.block} \subseteq StackBlocks(frames') \cup {e.block}
  BY <1>1
<1>3. Held(graph', StackBlocks(frames) \cup {ep.block})
  BY DEF HeldInv
<1>4. Held(graph', StackBlocks(frames') \cup {e.block})
  BY <1>2, <1>3, HeldMore
<1> QED BY <1>4, HeldBuild

\* The result that is continued and those that are left are all there were.
LEMMA TailCovers ==
  ASSUME NEW S, NEW rs \in Seq(S), rs # <<>>
  PROVE  Blocks(rs) \subseteq Blocks(Tail(rs)) \cup {rs[1].ep.block}
<1> DEFINE t == Tail(rs)
           before(i) == i - 1
<1>1. \A i \in DOMAIN rs : i # 1 => before(i) \in DOMAIN t /\ t[before(i)] = rs[i]
  OBVIOUS
<1> HIDE DEF t, before
<1>2. ASSUME NEW b \in Blocks(rs) PROVE b \in Blocks(t) \cup {rs[1].ep.block}
  <2>1. PICK i \in DOMAIN rs : b = rs[i].ep.block
    BY DEF Blocks
  <2>2. CASE i # 1
    <3>1. before(i) \in DOMAIN t /\ b = t[before(i)].ep.block
      BY <1>1, <2>1, <2>2
    <3> QED BY <3>1, Zenon DEF Blocks
  <2> QED BY <2>1, <2>2
<1> QED BY <1>2 DEF t

\* The loop over consumers: the next result is entered, the others wait.
LEMMA HeldBuildEach ==
  ASSUME NEW below \in Seq(Frame), NEW n, NEW e, NEW prefix,
         NEW todo \in Seq(Result), NEW done,
         BuildEach(below, n, e, prefix, todo, done),
         Held(graph', StackBlocks(below) \cup Blocks(todo) \cup Blocks(done))
  PROVE  HeldInv'
<1>1. CASE todo = <<>>
  <2>1. Return(done) /\ frames' = below
    BY <1>1 DEF BuildEach
  <2>2. Blocks(todo) = {}
    BY <1>1, FewBlocks
  <2>3. Held(graph', StackBlocks(frames') \cup Blocks(done))
    BY <2>1, <2>2
  <2> QED BY <2>1, <2>3, HeldReturn
<1>2. CASE todo # <<>>
  <2> DEFINE f == [kind |-> "each", node |-> n, ep |-> e, prefix |-> prefix,
                   todo |-> Tail(todo), done |-> done]
             r == todo[1]
  <2>1. Build(n, r.ep, r.values) /\ frames' = Append(below, f)
    BY <1>2 DEF BuildEach
  <2>2. Todo(f) = Tail(todo) /\ Done(f) = done
    BY DEF Todo, Done
  <2> HIDE DEF f
  <2>3. Blocks(todo) \subseteq Blocks(Tail(todo)) \cup {r.ep.block}
    BY <1>2, TailCovers
  <2> HIDE DEF r
  <2>4. StackBlocks(frames') = StackBlocks(below) \cup FrameBlocks(f)
    BY <2>1, PushApart
  <2>5. FrameBlocks(f) = Blocks(Tail(todo)) \cup Blocks(done)
    BY <2>2 DEF FrameBlocks
  <2>6. Held(graph', StackBlocks(frames') \cup {r.ep.block})
    <3>1. StackBlocks(below) \cup Blocks(todo) \cup Blocks(done)
            \subseteq StackBlocks(frames') \cup {r.ep.block}
      BY <2>3, <2>4, <2>5
    <3> QED BY <3>1, HeldMore
  <2> QED BY <2>1, <2>6, HeldBuild
<1> QED BY <1>1, <1>2

\* Who holds what, when a node is entered and when its results arrive.
LEMMA HeldEntered ==
  ASSUME TypeOK, EndsInv, HeldInv, pc = "build"
  PROVE  /\ Held(graph, StackBlocks(frames) \cup {ep.block})
         /\ Ready(graph, {ep.block}) /\ ep.block \in DOMAIN graph
         /\ ep.block \notin StackBlocks(frames)
         /\ graph \in Seq(Block) /\ Len(graph) \in Nat /\ frames \in Seq(Frame)
         /\ ep \in EP
BY Entered DEF HeldInv, TypeOK

LEMMA HeldReturned ==
  ASSUME TypeOK, EndsInv, HeldInv, NEW kind, Returning(kind),
         NEW f, f = Last(frames), NEW below, below = Front(frames)
  PROVE  /\ Held(graph, StackBlocks(below) \cup FrameBlocks(f) \cup Blocks(results))
         /\ FrameBlocks(f) = Blocks(Todo(f)) \cup Blocks(Done(f))
         /\ below \in Seq(Frame) /\ f \in Frame /\ f.kind = kind
<1>1. pc = "return" /\ frames \in Seq(Frame) /\ frames # <<>> /\ f.kind = kind
  BY DEF Returning, TypeOK
<1>2. below \in Seq(Frame) /\ f \in Frame /\ frames = Append(below, f)
  BY <1>1, Popped
<1>3. StackBlocks(frames) = StackBlocks(below) \cup FrameBlocks(f)
  BY <1>2, PushApart
<1>4. Held(graph, StackBlocks(frames) \cup Blocks(results))
  BY <1>1 DEF HeldInv
<1> QED BY <1>1, <1>2, <1>3, <1>4 DEF FrameBlocks

-----------------------------------------------------------------------------
\* The actions.
LEMMA MemberHeld ==
  ASSUME TypeOK, EndsInv, HeldInv, Member
  PROVE  HeldInv'
<1>1. /\ Held(graph, StackBlocks(frames) \cup {ep.block}) /\ pc = "build"
      /\ Ready(graph, {ep.block}) /\ graph \in Seq(Block)
  BY HeldEntered DEF Member, Entering
<1>2. ASSUME NEW vs, Build(node.consumer, ep, vs),
             graph' = Emit(graph, ep.block), UNCHANGED frames
      PROVE  HeldInv'
  <2>1. Held(graph', StackBlocks(frames) \cup {ep.block})
    BY <1>1, <1>2, EmitHeld
  <2> QED BY <1>2, <2>1, HeldHere
<1>3. ASSUME NEW vs, Build(node.consumer, ep, vs), UNCHANGED <<graph, frames>>
      PROVE  HeldInv'
  BY <1>1, <1>3, HeldHere
<1>4. ASSUME NEW g \in unit.globals, Build(g.value, ep, values),
             Push([kind |-> "global", node |-> node.consumer, ep |-> ep]),
             UNCHANGED graph
      PROVE  HeldInv'
  <2> DEFINE f == [kind |-> "global", node |-> node.consumer, ep |-> ep]
  <2>1. Push(f)
    BY <1>4
  <2> HIDE DEF f
  <2> QED BY <1>1, <1>4, <2>1, HeldPush
<1>5. ASSUME Throw("UndeclaredIdentifierException") PROVE HeldInv'
  BY <1>5, HeldThrow
<1> QED BY <1>2, <1>3, <1>4, <1>5, Zenon DEF Member

LEMMA ReturnGlobalHeld ==
  ASSUME TypeOK, EndsInv, HeldInv, ReturnGlobal
  PROVE  HeldInv'
<1> DEFINE f == Last(frames)
           below == Front(frames)
           none == <<>>
<1>1. Returning("global") /\ UNCHANGED graph
        /\ BuildEach(below, f.node, f.ep, none, results, none)
  BY DEF ReturnGlobal
<1>2. /\ Held(graph, StackBlocks(below) \cup FrameBlocks(f) \cup Blocks(results))
      /\ FrameBlocks(f) = Blocks(Todo(f)) \cup Blocks(Done(f))
      /\ below \in Seq(Frame) /\ f.kind = "global"
  BY <1>1, HeldReturned
<1>3. results \in Seq(Result) /\ Distinct(results)
  BY <1>1, Returned
<1>4. Todo(f) = none /\ Done(f) = none
  BY <1>2 DEF Todo, Done
<1>5. Blocks(none) = {}
  BY FewBlocks
<1> HIDE DEF f, below, none
<1>6. Held(graph', StackBlocks(below) \cup Blocks(results) \cup Blocks(none))
  <2>1. StackBlocks(below) \cup FrameBlocks(f) \cup Blocks(results)
          \subseteq StackBlocks(below) \cup Blocks(results) \cup Blocks(none)
    BY <1>2, <1>4, <1>5
  <2> QED BY <1>1, <1>2, <2>1, HeldMore
<1> QED BY <1>1, <1>2, <1>3, <1>6, HeldBuildEach

LEMMA LocalHeld ==
  ASSUME TypeOK, EndsInv, HeldInv, Local
  PROVE  HeldInv'
<1>1. CASE values = <<>>
  BY <1>1, HeldThrow DEF Local, Underflow
<1>2. CASE values # <<>>
  <2> DEFINE l == [ep.locals EXCEPT ![node.name] = Last(values)]
  <2>1. Build(node.consumer, WithLocals(ep, l), Front(values))
          /\ UNCHANGED <<frames, graph>> /\ pc = "build"
    BY <1>2 DEF Local, Entering
  <2> HIDE DEF l
  <2>2. WithLocals(ep, l).block = ep.block
    BY DEF TypeOK, WithLocals, EP
  <2>3. Held(graph', StackBlocks(frames) \cup {ep.block})
    BY <2>1, HeldEntered
  <2> QED BY <2>1, <2>2, <2>3, HeldHere
<1> QED BY <1>1, <1>2

LEMMA BinaryHeld ==
  ASSUME TypeOK, EndsInv, HeldInv, Binary
  PROVE  HeldInv'
<1> DEFINE left == values[Len(values)]
           right == values[Len(values) - 1]
<1>1. /\ Held(graph, StackBlocks(frames) \cup {ep.block})
      /\ Ready(graph, {ep.block}) /\ graph \in Seq(Block)
  BY HeldEntered DEF Binary, Entering
<1>2. ASSUME NEW vs, NEW agree \in BOOLEAN, Build(node.consumer, ep, vs),
             graph' = EmitTyped(graph, ep.block, agree), UNCHANGED frames
      PROVE  HeldInv'
  <2>1. Held(graph', StackBlocks(frames) \cup {ep.block})
    BY <1>1, <1>2, EmitTypedHeld
  <2> QED BY <1>2, <2>1, HeldHere
<1>3. ASSUME Throw("InvalidTypeException") PROVE HeldInv'
  BY <1>3, HeldThrow
<1>4. ASSUME Underflow PROVE HeldInv'
  BY <1>4, HeldThrow DEF Underflow
<1>5. (left.type = right.type) \in BOOLEAN
  OBVIOUS
<1> QED BY <1>2, <1>3, <1>4, <1>5, Zenon DEF Binary

LEMMA ReferenceSinkHeld ==
  ASSUME TypeOK, EndsInv, HeldInv, ReferenceSink
  PROVE  HeldInv'
<1>1. CASE values = <<>>
  BY <1>1, HeldThrow DEF ReferenceSink, Underflow
<1>2. CASE values # <<>>
  <2>1. /\ graph' = Emit(graph, ep.block) \/ UNCHANGED graph
        /\ UNCHANGED frames
        /\ \E vs : Build(node.consumer, ep, vs)
    BY <1>2, Zenon DEF ReferenceSink
  <2>2. /\ Held(graph, StackBlocks(frames) \cup {ep.block})
        /\ Ready(graph, {ep.block}) /\ graph \in Seq(Block)
    BY HeldEntered DEF ReferenceSink, Entering
  <2>3. Held(graph', StackBlocks(frames) \cup {ep.block})
    BY <2>1, <2>2, EmitHeld
  <2> QED BY <2>1, <2>3, HeldHere
<1> QED BY <1>1, <1>2

LEMMA ReturnStatementHeld ==
  ASSUME TypeOK, EndsInv, HeldInv, ReturnStatement
  PROVE  HeldInv'
<1>1. CASE values = <<>>
  BY <1>1, HeldThrow DEF ReturnStatement, Underflow
<1>2. CASE values # <<>>
  <2> DEFINE g == InsertBlock(graph, ep.block)
  <2>1. /\ graph' = g \/ graph' = Emit(g, ep.block)
        /\ Build(node.consumer, ep, values) /\ UNCHANGED frames
    BY <1>2, Zenon DEF ReturnStatement
  <2>2. /\ Held(graph, StackBlocks(frames) \cup {ep.block})
        /\ Ready(graph, {ep.block}) /\ graph \in Seq(Block)
    BY HeldEntered DEF ReturnStatement, Entering
  <2>3. /\ g \in Seq(Block) /\ Held(g, StackBlocks(frames) \cup {ep.block})
        /\ Writes(graph, g, {ep.block}, {})
    BY <2>2, InsertBlockType, InsertBlockHeld, InsertBlockWrites
  <2> HIDE DEF g
  <2>4. Ready(g, {ep.block})
    BY <2>2, <2>3, WritesReady
  <2>5. Held(graph', StackBlocks(frames) \cup {ep.block})
    BY <2>1, <2>3, <2>4, EmitHeld
  <2> QED BY <2>1, <2>5, HeldHere
<1> QED BY <1>1, <1>2

LEMMA ProduceHeld ==
  ASSUME TypeOK, EndsInv, HeldInv, Produce
  PROVE  HeldInv'
<1>1. CASE Literal \/ StackFrame
  <2>1. UNCHANGED <<graph, frames>> /\ \E vs : Build(node.consumer, ep, vs)
    BY <1>1, Zenon DEF Literal, StackFrame
  <2>2. Held(graph, StackBlocks(frames) \cup {ep.block})
    BY <1>1, HeldEntered DEF Literal, StackFrame, Entering
  <2> QED BY <2>1, <2>2, HeldHere
<1> QED BY <1>1, MemberHeld, ReturnGlobalHeld, LocalHeld, BinaryHeld,
           ReferenceSinkHeld, ReturnStatementHeld, Zenon DEF Produce

-----------------------------------------------------------------------------
LEMMA TerminatorHeld ==
  ASSUME TypeOK, EndsInv, HeldInv, Terminator
  PROVE  HeldInv'
<1> DEFINE r == [ep |-> ep, values |-> values]
<1>1. Return(<<r>>) /\ UNCHANGED <<frames, graph>> /\ pc = "build"
  BY DEF Terminator, Entering
<1>2. r.ep.block = ep.block
  OBVIOUS
<1> HIDE DEF r
<1>3. Blocks(<<r>>) = {ep.block}
  BY <1>2, FewBlocks
<1>4. Held(graph', StackBlocks(frames') \cup Blocks(<<r>>))
  BY <1>1, <1>3, HeldEntered
<1> QED BY <1>1, <1>4, HeldReturn

\* One block, closed by the branch to a new one.
LEMMA NewBlockHeld ==
  ASSUME NEW g \in Seq(Block), NEW b, NEW role \in Roles, NEW inserted \in BOOLEAN,
         NEW n, n = Len(g) + 1,
         NEW h, h = LinkBlocks(AddBlocks(InsertBlock(g, b), role, inserted, 1), b, n),
         NEW S, Held(g, S)
  PROVE  /\ role # "entry" => Held(h, (S \ {b}) \cup {n})
         /\ HeldBut(h, S \ {b}, n)
<1> DEFINE k == InsertBlock(g, b)
           m == AddBlocks(k, role, inserted, 1)
<1>1. /\ k \in Seq(Block) /\ Len(k) = Len(g) /\ Held(k, S) /\ n \in Nat
      /\ h = LinkBlocks(m, b, n)
  <2>1. k \in Seq(Block) /\ Held(k, S)
    BY InsertBlockType, InsertBlockHeld, Zenon
  <2>2. Len(k) = Len(g)
    BY InsertBlockWrites, Zenon
  <2>3. n \in Nat
    OBVIOUS
  <2> QED BY <2>1, <2>2, <2>3, Zenon
<1> HIDE DEF k
<1> DEFINE one == 1
<1>2. m = AddBlocks(k, role, inserted, one) /\ one \in Nat /\ one = 1
  OBVIOUS
<1> HIDE DEF m, one
<1>3. m \in Seq(Block)
  BY <1>1, <1>2, AddBlocksType
<1>4. /\ role # "entry" => Held(m, S \cup (Len(k)+1..Len(k)+one))
      /\ HeldBut(m, S, Len(k) + 1)
  BY <1>1, <1>2, AddBlocksHeld
<1>5. Len(k)+1..Len(k)+one = {n} /\ Len(k) + 1 = n
  BY <1>1, <1>2
<1>6. /\ role # "entry" => Held(h, (S \cup {n}) \ {b})
      /\ HeldBut(h, S \ {b}, n)
  <2>1. /\ role # "entry" => Held(m, S \cup {n})
        /\ HeldBut(m, S, n)
    BY <1>4, <1>5
  <2> QED BY <1>1, <1>3, <2>1, LinkBlocksHeld
<1>7. (S \cup {n}) \ {b} \subseteq (S \ {b}) \cup {n}
  OBVIOUS
<1> QED BY <1>6, <1>7, HeldMore

LEMMA ExportTerminatorHeld ==
  ASSUME TypeOK, EndsInv, HeldInv, ExportTerminator
  PROVE  HeldInv'
<1> DEFINE b == Len(graph) + 1
           linked == LinkBlocks(AddBlocks(InsertBlock(graph, ep.block),
                                          "entry", TRUE, 1), ep.block, b)
           agree == Last(values).type = unit.returns
           r == [ep |-> WithBlock(ep, b), values |-> Front(values)]
           S == StackBlocks(frames) \cup {ep.block}
<1>1. Held(graph, S) /\ ep.block \in DOMAIN graph /\ graph \in Seq(Block)
  BY HeldEntered DEF ExportTerminator, Entering
<1>2. ASSUME NEW what, Throw(what) PROVE HeldInv'
  BY <1>2, HeldThrow
<1>3. ASSUME graph' = Terminate(linked, b, "ret", {}, agree),
             Return(<<r>>), UNCHANGED frames
      PROVE  HeldInv'
  <2> DEFINE yes == TRUE
             none == {}
             role == "entry"
  <2>1. /\ linked = LinkBlocks(AddBlocks(InsertBlock(graph, ep.block), role, yes, 1),
                               ep.block, b)
        /\ role \in Roles /\ yes \in BOOLEAN /\ b = Len(graph) + 1
        /\ graph' = Terminate(linked, b, "ret", none, agree)
        /\ "ret" \in Terminators /\ none \in SUBSET Nat /\ agree \in BOOLEAN
    BY <1>3 DEF Roles, Terminators
  <2> HIDE DEF linked, agree, yes, none, role, b, r, S
  <2>2. HeldBut(linked, S \ {ep.block}, b)
    BY <1>1, <2>1, NewBlockHeld
  <2>3. linked \in Seq(Block)
    <3> DEFINE k == InsertBlock(graph, ep.block)
               m == AddBlocks(k, role, yes, 1)
    <3>1. k \in Seq(Block) /\ linked = LinkBlocks(m, ep.block, b)
      BY <1>1, <2>1, InsertBlockType
    <3> HIDE DEF k
    <3>2. m \in Seq(Block)
      <4>1. 1 \in Nat
        OBVIOUS
      <4> QED BY <2>1, <3>1, <4>1, AddBlocksType, Zenon
    <3>3. b \in Nat
      BY <1>1, <2>1
    <3> HIDE DEF m
    <3> QED BY <3>1, <3>2, <3>3, LinkBlocksType
  <2>4. Held(graph', (S \ {ep.block}) \ {b})
    <3> DEFINE kind == "ret"
               T == S \ {ep.block}
    <3>1. graph' = Terminate(linked, b, kind, none, agree) /\ kind \in Terminators
      BY <2>1
    <3>2. HeldBut(linked, T, b) /\ none \in SUBSET Nat /\ agree \in BOOLEAN
      BY <2>1, <2>2
    <3> HIDE DEF kind, T
    <3>3. Held(graph', T \ {b})
      BY <2>3, <3>1, <3>2, TerminateHeld, Zenon
    <3> QED BY <3>3 DEF T
  <2>5. Held(graph', StackBlocks(frames') \cup Blocks(<<r>>))
    <3>1. (S \ {ep.block}) \ {b} \subseteq StackBlocks(frames') \cup Blocks(<<r>>)
      BY <1>3 DEF S
    <3> QED BY <2>4, <3>1, HeldMore
  <2> QED BY <1>3, <2>5, HeldReturn
<1> QED BY <1>2, <1>3, Zenon DEF ExportTerminator, Underflow

LEMMA LeaveHeld ==
  ASSUME TypeOK, EndsInv, HeldInv, Leave
  PROVE  HeldInv'
BY TerminatorHeld, ExportTerminatorHeld DEF Leave

-----------------------------------------------------------------------------
\* A conditional's block is closed, those of its branches are held.
LEMMA BranchHeldOp ==
  ASSUME NEW g \in Seq(Block), NEW b,
         NEW true, true = Len(g) + 1, NEW false, false = Len(g) + 2,
         NEW agree \in BOOLEAN,
         NEW h, h = Terminate(
                      AddBlocks(AddBlocks(InsertBlock(g, b),
                                          "true", FALSE, 1), "false", FALSE, 1),
                      b, "cond", {true, false}, agree),
         NEW S, Held(g, S)
  PROVE  Held(h, (S \ {b}) \cup {true, false})
<1> DEFINE no == FALSE
           k == InsertBlock(g, b)
           onTrue == "true"
           onFalse == "false"
           n == 1
           one == AddBlocks(k, onTrue, no, n)
           both == {true, false}
           two == AddBlocks(one, onFalse, no, n)
<1>1. /\ no \in BOOLEAN /\ n \in Nat /\ n = 1 /\ onTrue \in Roles /\ onFalse \in Roles
      /\ onTrue # "entry" /\ onFalse # "entry" /\ both \subseteq Nat
      /\ Len(g) \in Nat /\ "cond" \in Terminators
  BY DEF Roles, Terminators
<1>2. h = Terminate(two, b, "cond", both, agree)
  OBVIOUS
<1> HIDE DEF no, onTrue, onFalse, n
<1>3. k \in Seq(Block) /\ Len(k) = Len(g) /\ Held(k, S)
  <2>1. k \in Seq(Block) /\ Held(k, S)
    BY InsertBlockType, InsertBlockHeld, Zenon
  <2> QED BY <2>1, InsertBlockWrites, Zenon
<1> HIDE DEF k
<1>4. /\ one \in Seq(Block) /\ Len(one) = Len(k) + n
      /\ Held(one, S \cup (Len(k)+1..Len(k)+n))
  <2>1. one \in Seq(Block)
    BY <1>1, <1>3, AddBlocksType
  <2>2. Len(one) = Len(k) + n
    BY <1>1, <1>3, AddBlocksWrites
  <2> QED BY <1>1, <1>3, <2>1, <2>2, AddBlocksHeld
<1> HIDE DEF one
<1>5. /\ two \in Seq(Block)
      /\ Held(two, S \cup (Len(k)+1..Len(k)+n) \cup (Len(one)+1..Len(one)+n))
  <2>1. two \in Seq(Block)
    BY <1>1, <1>4, AddBlocksType
  <2> QED BY <1>1, <1>4, <2>1, AddBlocksHeld
<1> HIDE DEF two
<1>6. Len(k)+1..Len(k)+n = {true} /\ Len(one)+1..Len(one)+n = {false}
  BY <1>1, <1>3, <1>4
<1>7. Held(two, S \cup both)
  BY <1>5, <1>6 DEF both
<1>8. Held(h, (S \cup both) \ {b})
  <2> HIDE DEF both
  <2> QED BY <1>1, <1>2, <1>5, <1>7, TerminateHeld
<1>9. (S \cup both) \ {b} \subseteq (S \ {b}) \cup {true, false}
  OBVIOUS
<1> QED BY <1>8, <1>9, HeldMore

LEMMA ConditionalHeld ==
  ASSUME TypeOK, EndsInv, HeldInv, Conditional
  PROVE  HeldInv'
<1> DEFINE true == Len(graph) + 1
           false == Len(graph) + 2
           created == AddBlocks(AddBlocks(InsertBlock(graph, ep.block),
                                          "true", FALSE, 1), "false", FALSE, 1)
           agree == Last(values).type = "bool"
           e == WithBlock(WithName(ep, <<"ifTrue">>), true)
           f == [kind |-> "ifTrue", node |-> node.ifFalse, ep |-> ep,
                 block |-> false, values |-> Front(values)]
           r == [ep |-> WithBlock(ep, false), values |-> Front(values)]
           S == StackBlocks(frames) \cup {ep.block}
<1>1. ASSUME NEW what, Throw(what) PROVE HeldInv'
  BY <1>1, HeldThrow
<1>2. ASSUME graph' = Terminate(created, ep.block, "cond", {true, false}, agree),
             Build(node.ifTrue, e, Front(values)), Push(f)
      PROVE  HeldInv'
  <2>1. /\ Held(graph, S) /\ graph \in Seq(Block) /\ frames \in Seq(Frame) /\ ep \in EP
        /\ agree \in BOOLEAN
    BY HeldEntered DEF Conditional, Entering
  <2>2. r.ep.block = false
    BY <2>1 DEF WithBlock, EP
  <2>3. e.block = true
    <3>1. WithName(ep, <<"ifTrue">>) \in EP
      BY <2>1, WithNameType, NameAssumption
    <3> QED BY <3>1 DEF WithBlock, EP
  <2>4. Todo(f) = <<r>> /\ Done(f) = <<>> /\ Push(f)
    BY <1>2 DEF Todo, Done
  <2>5. Held(graph', (S \ {ep.block}) \cup {true, false})
    <3> HIDE DEF agree
    <3> QED BY <1>2, <2>1, BranchHeldOp
  <2> HIDE DEF true, false, created, agree, e, f, r
  <2>6. FrameBlocks(f) = {false}
    BY <2>2, <2>4, FewBlocks DEF FrameBlocks
  <2>7. StackBlocks(frames') = StackBlocks(frames) \cup {false}
    BY <2>1, <2>4, <2>6, PushApart DEF Push
  <2>8. Held(graph', StackBlocks(frames') \cup {e.block})
    <3>1. (S \ {ep.block}) \cup {true, false} \subseteq StackBlocks(frames') \cup {e.block}
      BY <2>3, <2>7
    <3> QED BY <2>5, <3>1, HeldMore
  <2> QED BY <1>2, <2>8, HeldBuild
<1> QED BY <1>1, <1>2, Zenon DEF Conditional, Underflow

LEMMA ReturnIfTrueHeld ==
  ASSUME TypeOK, EndsInv, HeldInv, ReturnIfTrue
  PROVE  HeldInv'
<1> DEFINE f == Last(frames)
           below == Front(frames)
           e == WithBlock(WithName(f.ep, <<"ifFalse">>), f.block)
           h == [kind |-> "ifFalse", ep |-> f.ep, values |-> f.values,
                 done |-> results]
           r == [ep |-> WithBlock(f.ep, f.block), values |-> f.values]
<1>1. Returning("ifTrue") /\ Build(f.node, e, f.values)
        /\ frames' = Append(below, h) /\ UNCHANGED graph
  BY DEF ReturnIfTrue
<1>2. /\ Held(graph, StackBlocks(below) \cup FrameBlocks(f) \cup Blocks(results))
      /\ FrameBlocks(f) = Blocks(Todo(f)) \cup Blocks(Done(f))
      /\ below \in Seq(Frame) /\ f \in Frame /\ f.kind = "ifTrue"
  BY <1>1, HeldReturned
<1>3. Todo(f) = <<r>> /\ Done(f) = <<>>
  BY <1>2 DEF Todo, Done
<1>4. Todo(h) = <<>> /\ Done(h) = results
  BY DEF Todo, Done
<1> HIDE DEF f, below, h
<1>5. f.ep \in EP
  BY <1>2, FrameType
<1>6. r.ep.block = f.block /\ e.block = f.block
  <2>1. WithName(f.ep, <<"ifFalse">>) \in EP
    BY <1>5, WithNameType, NameAssumption
  <2> QED BY <1>5, <2>1 DEF WithBlock, EP
<1> HIDE DEF e, r
<1>7. FrameBlocks(f) = {f.block}
  BY <1>3, <1>6, FewBlocks DEF FrameBlocks
<1>8. FrameBlocks(h) = Blocks(results)
  BY <1>4, FewBlocks DEF FrameBlocks
<1>9. StackBlocks(frames') = StackBlocks(below) \cup Blocks(results)
  <2>1. frames' = Append(below, h) /\ below \in Seq(Frame)
    BY <1>1, <1>2
  <2> QED BY <1>8, <2>1, PushApart, Zenon
<1>10. Held(graph', StackBlocks(frames') \cup {e.block})
  <2>1. StackBlocks(below) \cup FrameBlocks(f) \cup Blocks(results)
          = StackBlocks(frames') \cup {e.block}
    BY <1>6, <1>7, <1>9
  <2> QED BY <1>1, <1>2, <2>1
<1> QED BY <1>1, <1>10, HeldBuild

\* The blocks that are linked are closed, those behind them are held.
LEMMA LinkedEachHeld ==
  ASSUME NEW g \in Seq(Block), NEW I, NEW from, NEW to,
         \A i \in I : to[i] \in Nat,
         NEW insert \in BOOLEAN, NEW role \in Roles, role # "entry",
         NEW inserted \in BOOLEAN, NEW n \in Nat,
         NEW W, \A b \in W : \E i \in I : from[i] = b, \A i \in I : from[i] \in W,
         NEW h, h = AddBlocks(LinkEach(g, I, from, to, insert),
                              role, inserted, n),
         NEW S, Held(g, S)
  PROVE  Held(h, (S \ W) \cup (Len(g)+1..Len(g)+n))
<1> DEFINE k == LinkEach(g, I, from, to, insert)
<1>1. k \in Seq(Block) /\ Held(k, S \ W) /\ h = AddBlocks(k, role, inserted, n)
  <2>1. k = LinkEach(g, I, from, to, insert)
    OBVIOUS
  <2> HIDE DEF k
  <2>2. k \in Seq(Block)
    BY <2>1, LinkEachType
  <2>3. Held(k, S \ W)
    BY <2>1, LinkEachHeld
  <2> QED BY <2>1, <2>2, <2>3
<1>2. Len(k) = Len(g)
  <2>1. k = LinkEach(g, I, from, to, insert)
    OBVIOUS
  <2> HIDE DEF k
  <2> QED BY <2>1, LinkEachWrites
<1> HIDE DEF k
<1> QED BY <1>1, <1>2, AddBlocksHeld

LEMMA ReturnIfFalseHeld ==
  ASSUME TypeOK, EndsInv, HeldInv, MergesOpenEnds, ReturnIfFalse
  PROVE  HeldInv'
<1> DEFINE f == Last(frames)
           below == Front(frames)
           rs == f.done \o results
           I == Singles(rs)
           merge(o, i) == Len(graph) +
                            (CHOOSE j \in DOMAIN o : o[j] = TypeOf(rs[i]))
           to(o) == [i \in I |-> merge(o, i)]
           from == [i \in I |-> rs[i].ep.block]
           out(o, j) == [ep |-> WithBlock(f.ep, Len(graph) + j),
                         values |-> Append(f.values, Scalar(o[j]))]
           outs(o) == [j \in 1..Len(o) |-> out(o, j)]
<1>1. Returning("ifFalse") /\ frames' = below
  BY DEF ReturnIfFalse
<1>2. /\ Held(graph, StackBlocks(below) \cup FrameBlocks(f) \cup Blocks(results))
      /\ FrameBlocks(f) = Blocks(Todo(f)) \cup Blocks(Done(f))
      /\ below \in Seq(Frame) /\ f \in Frame /\ f.kind = "ifFalse"
  BY <1>1, HeldReturned
<1>3. f.ep \in EP /\ f.done \in Seq(Result)
  BY <1>2, FrameType
<1>4. Done(f) = f.done /\ Todo(f) = <<>>
  BY <1>2 DEF Done, Todo
<1>5. FrameBlocks(f) = Blocks(f.done)
  BY <1>2, <1>4, FewBlocks
<1>6. rs \in Seq(Result) /\ graph \in Seq(Block) /\ Len(graph) \in Nat
      /\ results \in Seq(Result)
  BY <1>2, <1>3 DEF TypeOK
<1>7. Blocks(rs) = Blocks(f.done) \cup Blocks(results)
  BY <1>3, <1>6, ConcatBlocks
<1>8. \/ \E i \in Singles(rs) : rs[i].values[1].rep # "scalar"
      \/ \A i \in DOMAIN rs \ Singles(rs) : graph[rs[i].ep.block].role = "entry"
  BY <1>1 DEF MergesOpenEnds
<1> HIDE DEF f, below
<1>9. Held(graph, StackBlocks(below) \cup Blocks(rs))
  <2>1. StackBlocks(below) \cup FrameBlocks(f) \cup Blocks(results)
          \subseteq StackBlocks(below) \cup Blocks(rs)
    BY <1>5, <1>7
  <2> QED BY <1>2, <2>1, HeldMore
<1> HIDE DEF rs
<1>10. ASSUME Return(rs), UNCHANGED graph PROVE HeldInv'
  BY <1>1, <1>9, <1>10, HeldReturn
<1>11. ASSUME ~ \E i \in Singles(rs) : rs[i].values[1].rep # "scalar",
              NEW o \in Enumerations(TypesOf(rs), address),
              graph' = AddBlocks(LinkEach(graph, I, from, to(o), FALSE),
                                 "merge", TRUE, Len(o)),
              Return(outs(o))
       PROVE  HeldInv'
  <2>1. /\ IsFiniteSet(TypesOf(rs)) /\ I \subseteq DOMAIN rs
        /\ \A i \in I : TypeOf(rs[i]) \in TypesOf(rs)
    BY <1>6, SinglesType
  <2>2. /\ o \in Seq(TypesOf(rs))
        /\ \A t \in TypesOf(rs) : \E j \in 1..Len(o) : o[j] = t
    BY <2>1, EnumerationType
  <2>3. Len(o) \in Nat /\ DOMAIN o = 1..Len(o)
    BY <2>2
  <2>4. ASSUME NEW i \in I PROVE to(o)[i] \in Nat
    <3>1. \E j \in DOMAIN o : o[j] = TypeOf(rs[i])
      BY <2>1, <2>2, <2>3, Zenon
    <3>2. (CHOOSE j \in DOMAIN o : o[j] = TypeOf(rs[i])) \in DOMAIN o
      BY <3>1, Zenon
    <3> QED BY <1>6, <2>3, <3>2
  <2> DEFINE yes == TRUE
             no == FALSE
             T == to(o)
             n == Len(o)
             role == "merge"
             W == {from[i] : i \in I}
             new == Len(graph)+1..Len(graph)+n
             qs == outs(o)
  <2>5. /\ graph' = AddBlocks(LinkEach(graph, I, from, T, no), role, yes, n)
        /\ yes \in BOOLEAN /\ no \in BOOLEAN /\ role \in Roles /\ role # "entry"
        /\ n \in Nat /\ \A i \in I : T[i] \in Nat
    BY <1>11, <2>3, <2>4 DEF Roles
  <2>6. \A j \in 1..n : qs[j].ep.block = Len(graph) + j
    BY <1>3 DEF WithBlock, EP
  <2>7. DOMAIN qs = 1..n
    OBVIOUS
  <2>8. \A i \in DOMAIN rs \ I : graph[rs[i].ep.block].role = "entry"
    BY <1>8, <1>11
  <2>9. \A i \in I : from[i] = rs[i].ep.block
    OBVIOUS
  <2>10. /\ \A b \in W : \E i \in I : from[i] = b
         /\ \A i \in I : from[i] \in W
    OBVIOUS
  <2> HIDE DEF to, from, merge, yes, no, T, I, qs, W, n, role
  <2> DEFINE S == StackBlocks(below) \cup W
\* Of the results that are open none is left out.
  <2>11. Held(graph, S)
    <3>1. ASSUME NEW b \in DOMAIN graph, graph[b].last = "open"
          PROVE  b \in S /\ graph[b].role # "entry"
      <4>1. b \in StackBlocks(below) \cup Blocks(rs) /\ graph[b].role # "entry"
        BY <1>9, <3>1 DEF Held
      <4>2. ASSUME b \in Blocks(rs) PROVE b \in W
        <5>1. PICK i \in DOMAIN rs : b = rs[i].ep.block
          BY <4>2 DEF Blocks
        <5>2. i \in I
          BY <2>8, <4>1, <5>1
        <5> QED BY <2>9, <2>10, <5>1, <5>2
      <4> QED BY <4>1, <4>2
    <3> QED BY <3>1, Zenon DEF Held
  <2> HIDE DEF S
  <2>12. Held(graph', (S \ W) \cup new)
    <3>1. graph \in Seq(Block)
      BY <1>6
    <3> QED BY <2>5, <2>10, <2>11, <3>1, LinkedEachHeld
  <2>13. new \subseteq Blocks(qs)
    <3>1. ASSUME NEW b \in new PROVE b \in Blocks(qs)
      <4>1. b - Len(graph) \in 1..n /\ b = Len(graph) + (b - Len(graph))
        BY <1>6, <2>5
      <4> DEFINE j == b - Len(graph)
      <4>2. j \in DOMAIN qs /\ b = qs[j].ep.block
        BY <2>6, <2>7, <4>1
      <4> HIDE DEF j
      <4> QED BY <4>2, Zenon DEF Blocks
    <3> QED BY <3>1
  <2>14. Held(graph', StackBlocks(frames') \cup Blocks(qs))
    <3>1. (S \ W) \cup new \subseteq StackBlocks(frames') \cup Blocks(qs)
      <4> HIDE DEF new
      <4> QED BY <1>1, <2>13 DEF S
    <3> QED BY <2>12, <3>1, HeldMore
  <2> QED BY <1>11, <2>14, HeldReturn DEF qs
<1> QED BY <1>10, <1>11, Zenon
        DEF ReturnIfFalse, rs, f, to, from, I, merge, outs, out, below

LEMMA BranchHeld ==
  ASSUME TypeOK, EndsInv, HeldInv, MergesOpenEnds, Branch
  PROVE  HeldInv'
BY ConditionalHeld, ReturnIfTrueHeld, ReturnIfFalseHeld DEF Branch

-----------------------------------------------------------------------------
LEMMA ProxyHeld ==
  ASSUME TypeOK, EndsInv, HeldInv, ProxyTailPath \/ ProxyRegularCall
  PROVE  HeldInv'
<1> DEFINE f == [kind |-> "junction", node |-> node.consumer, ep |-> ep,
                 values |-> values]
<1>1. CASE ProxyTailPath
  <2>1. Build(node.segment, ep, values) /\ UNCHANGED <<frames, graph>> /\ pc = "build"
    BY <1>1 DEF ProxyTailPath, Entering
  <2> QED BY <2>1, HeldEntered, HeldHere
<1>2. CASE ProxyRegularCall
  <2>1. /\ Push(f) /\ Build(node.segment, ep, <<>>) /\ UNCHANGED graph
        /\ pc = "build"
    BY <1>2 DEF ProxyRegularCall, Entering
  <2> HIDE DEF f
  <2> QED BY <2>1, HeldPush
<1> QED BY <1>1, <1>2

LEMMA SegmentHeld ==
  ASSUME TypeOK, EndsInv, HeldInv, Segment
  PROVE  HeldInv'
<1> DEFINE start == [ep |-> ep, values |-> <<>>]
           f == [kind |-> "argument", node |-> node, ep |-> ep,
                 values |-> values, index |-> 1, todo |-> <<start>>,
                 done |-> <<>>]
           none == <<>>
           todo == <<start>>
<1>1. UNCHANGED graph /\ pc = "build"
  BY DEF Segment, Entering
<1>2. /\ Held(graph, StackBlocks(frames) \cup {ep.block}) /\ frames \in Seq(Frame)
      /\ ep \in EP
  BY <1>1, HeldEntered
<1>3. CASE node.arguments = <<>>
  <2>1. BuildEach(frames, node.call, ep, values, todo, none)
    BY <1>3 DEF Segment
  <2>2. start \in Result /\ start.ep = ep
    BY <1>2 DEF Result
  <2> HIDE DEF start
  <2>3. Blocks(todo) = {ep.block} /\ Distinct(todo) /\ todo \in Seq(Result)
    <3>1. Blocks(<<start>>) = {ep.block} /\ Distinct(<<start>>)
      BY <2>2, FewBlocks
    <3> QED BY <2>2, <3>1
  <2> HIDE DEF todo, none
  <2>4. Held(graph', StackBlocks(frames) \cup Blocks(todo) \cup Blocks(none))
    <3>1. StackBlocks(frames) \cup {ep.block}
            \subseteq StackBlocks(frames) \cup Blocks(todo) \cup Blocks(none)
      BY <2>3
    <3> QED BY <1>1, <1>2, <3>1, HeldMore
  <2> QED BY <1>2, <2>1, <2>3, <2>4, HeldBuildEach
<1>4. CASE node.arguments # <<>>
  <2>1. Build(node.arguments[1], ep, <<>>) /\ Push(f)
    BY <1>4 DEF Segment
  <2> HIDE DEF f
  <2> QED BY <1>1, <2>1, HeldPush
<1> QED BY <1>3, <1>4

LEMMA ReturnEachHeld ==
  ASSUME TypeOK, EndsInv, HeldInv, ReturnEach
  PROVE  HeldInv'
<1> DEFINE f == Last(frames)
           below == Front(frames)
           r(j) == [results[j] EXCEPT !.values = f.prefix \o @]
           rs == [j \in 1..Len(results) |-> r(j)]
           done == f.done \o rs
<1>1. Returning("each") /\ UNCHANGED graph
        /\ BuildEach(below, f.node, f.ep, f.prefix, f.todo, done)
  BY DEF ReturnEach
<1>2. /\ Held(graph, StackBlocks(below) \cup FrameBlocks(f) \cup Blocks(results))
      /\ FrameBlocks(f) = Blocks(Todo(f)) \cup Blocks(Done(f))
      /\ below \in Seq(Frame) /\ f \in Frame /\ f.kind = "each"
  BY <1>1, HeldReturned
<1>3. Apart(f) /\ results \in Seq(Result)
  BY <1>1, Returned
<1>4. /\ f.todo \in Seq(Result) /\ f.done \in Seq(Result)
      /\ f.prefix \in Seq(Value)
  BY <1>2, FrameType
<1>5. Done(f) = f.done /\ Todo(f) = f.todo
  BY <1>2 DEF Done, Todo
<1> HIDE DEF f, below
<1>6. ASSUME NEW j \in 1..Len(results)
      PROVE  r(j) \in Result /\ r(j).ep.block = results[j].ep.block
  <2>1. results[j] \in Result
    BY <1>3
  <2>2. f.prefix \o results[j].values \in Seq(Value)
    BY <1>4, <2>1 DEF Result
  <2> QED BY <2>1, <2>2 DEF Result
<1> HIDE DEF r
<1>7. /\ rs \in Seq(Result) /\ DOMAIN rs = DOMAIN results
      /\ \A i \in DOMAIN results : rs[i].ep.block = results[i].ep.block
  <2>1. Len(results) \in Nat /\ DOMAIN results = 1..Len(results)
    BY <1>3
  <2> QED BY <1>6, <2>1
<1> HIDE DEF rs
<1>8. Blocks(rs) = Blocks(results)
  BY <1>7, SameBlocks
<1>9. Blocks(done) = Blocks(f.done) \cup Blocks(rs)
  BY <1>4, <1>7, ConcatBlocks
<1> HIDE DEF done
<1>10. Held(graph', StackBlocks(below) \cup Blocks(f.todo) \cup Blocks(done))
  <2>1. StackBlocks(below) \cup FrameBlocks(f) \cup Blocks(results)
          \subseteq StackBlocks(below) \cup Blocks(f.todo) \cup Blocks(done)
    BY <1>2, <1>5, <1>8, <1>9
  <2> QED BY <1>1, <1>2, <2>1, HeldMore
<1>11. Distinct(f.todo)
  BY <1>3, <1>5 DEF Apart
<1> QED BY <1>1, <1>2, <1>4, <1>10, <1>11, HeldBuildEach

LEMMA ReturnArgumentHeld ==
  ASSUME TypeOK, EndsInv, HeldInv, ReturnArgument
  PROVE  HeldInv'
<1> DEFINE f == Last(frames)
           below == Front(frames)
           r(j) == [ep |-> results[j].ep,
                    values |-> results[j].values \o f.todo[1].values]
           rs == [j \in 1..Len(results) |-> r(j)]
           done == f.done \o rs
           h(index, todo, rest) == [f EXCEPT !.index = index, !.todo = todo,
                                             !.done = rest]
           next(index, todo, rest) ==
             /\ Build(f.node.arguments[index], todo[1].ep, <<>>)
             /\ frames' = Append(below, h(index, todo, rest))
           none == <<>>
<1>1. Returning("argument") /\ UNCHANGED graph
  BY DEF ReturnArgument
<1>2. /\ Held(graph, StackBlocks(below) \cup FrameBlocks(f) \cup Blocks(results))
      /\ FrameBlocks(f) = Blocks(Todo(f)) \cup Blocks(Done(f))
      /\ below \in Seq(Frame) /\ f \in Frame /\ f.kind = "argument"
  BY <1>1, HeldReturned
<1>3. /\ results \in Seq(Result) /\ Distinct(results) /\ Apart(f)
      /\ Blocks(results) \cap FrameBlocks(f) = {}
  BY <1>1, Returned
<1>4. \/ Len(f.todo) > 1 /\ next(f.index, Tail(f.todo), done)
      \/ /\ ~ (Len(f.todo) > 1)
         /\ done # none /\ next(f.index + 1, done, none)
      \/ /\ ~ (Len(f.todo) > 1)
         /\ BuildEach(below, f.node.call, f.ep, f.values, done, none)
  BY Zenon DEF ReturnArgument
<1>5. f \in ArgumentFrame
  BY <1>2, FrameType
<1>6. Len(f.todo) > 1 \/ Tail(f.todo) = none
  <2>1. f.todo \in Seq(Result) /\ f.todo # <<>>
    BY <1>5 DEF ArgumentFrame
  <2> DEFINE s == f.todo
  <2>2. s \in Seq(Result) /\ s # <<>>
    BY <2>1
  <2> HIDE DEF s
  <2>3. Len(s) > 1 \/ Tail(s) = <<>>
    BY <2>2
  <2> QED BY <2>3 DEF s
<1> HIDE DEF f, below
<1>7. /\ f.todo \in Seq(Result) /\ f.todo # <<>> /\ f.done \in Seq(Result)
  BY <1>5 DEF ArgumentFrame
<1>8. Done(f) = f.done /\ Todo(f) = Tail(f.todo)
  BY <1>2 DEF Done, Todo
<1>9. ASSUME NEW j \in 1..Len(results)
      PROVE  r(j) \in Result /\ r(j).ep.block = results[j].ep.block
  <2>1. results[j] \in Result /\ f.todo[1] \in Result
    BY <1>3, <1>7
  <2>2. results[j].values \o f.todo[1].values \in Seq(Value)
    BY <2>1 DEF Result
  <2> QED BY <2>1, <2>2 DEF Result
<1> HIDE DEF r
<1>10. /\ rs \in Seq(Result) /\ DOMAIN rs = DOMAIN results
       /\ \A i \in DOMAIN results : rs[i].ep.block = results[i].ep.block
  <2>1. Len(results) \in Nat /\ DOMAIN results = 1..Len(results)
    BY <1>3
  <2> QED BY <1>9, <2>1
<1> HIDE DEF rs
<1>11. Blocks(rs) = Blocks(results) /\ Distinct(rs)
  BY <1>3, <1>10, SameBlocks
<1>12. /\ Blocks(done) = Blocks(f.done) \cup Blocks(rs) /\ Distinct(done)
       /\ done \in Seq(Result)
  <2>1. Distinct(f.done) /\ Blocks(f.done) \cap Blocks(rs) = {}
    BY <1>2, <1>3, <1>8, <1>11 DEF Apart
  <2>2. done \in Seq(Result)
    BY <1>7, <1>10
  <2> QED BY <1>7, <1>10, <1>11, <2>1, <2>2, ConcatBlocks
<1> HIDE DEF done
<1>13. Blocks(none) = {}
  BY FewBlocks
<1>14. Held(graph', StackBlocks(below) \cup Blocks(Tail(f.todo)) \cup Blocks(done))
  <2>1. StackBlocks(below) \cup FrameBlocks(f) \cup Blocks(results)
          \subseteq StackBlocks(below) \cup Blocks(Tail(f.todo)) \cup Blocks(done)
    BY <1>2, <1>8, <1>11, <1>12
  <2> QED BY <1>1, <1>2, <2>1, HeldMore
\* The next result to continue, with all the others.
<1>15. ASSUME NEW i, NEW todo \in Seq(Result), todo # <<>>, NEW rest,
              next(i, todo, rest),
              Held(graph', StackBlocks(below) \cup Blocks(todo) \cup Blocks(rest))
       PROVE  HeldInv'
  <2> DEFINE hh == h(i, todo, rest)
             n == f.node.arguments[i]
             e == todo[1].ep
  <2>1. /\ hh.kind = "argument" /\ hh.todo = todo /\ hh.done = rest
    BY <1>2, <1>5 DEF ArgumentFrame
  <2>2. Build(n, e, <<>>) /\ frames' = Append(below, hh)
    BY <1>15
  <2>3. e.block = todo[1].ep.block
    OBVIOUS
  <2> HIDE DEF hh, h, next, n, e
  <2>4. Todo(hh) = Tail(todo) /\ Done(hh) = rest
    BY <2>1 DEF Todo, Done
  <2>5. FrameBlocks(hh) = Blocks(Tail(todo)) \cup Blocks(rest)
    BY <2>4 DEF FrameBlocks
  <2>6. Blocks(todo) \subseteq Blocks(Tail(todo)) \cup {e.block}
    BY <1>15, <2>3, TailCovers
  <2>7. StackBlocks(frames') = StackBlocks(below) \cup FrameBlocks(hh)
    BY <1>2, <2>2, PushApart, Zenon
  <2>8. Held(graph', StackBlocks(frames') \cup {e.block})
    <3>1. StackBlocks(below) \cup Blocks(todo) \cup Blocks(rest)
            \subseteq StackBlocks(frames') \cup {e.block}
      BY <2>5, <2>6, <2>7
    <3> QED BY <1>15, <3>1, HeldMore
  <2> QED BY <2>2, <2>8, HeldBuild
<1> HIDE DEF next
<1>16. CASE Len(f.todo) > 1 /\ next(f.index, Tail(f.todo), done)
  <2>1. Tail(f.todo) \in Seq(Result) /\ Tail(f.todo) # <<>>
    <3> DEFINE s == f.todo
    <3>1. s \in Seq(Result) /\ Len(s) > 1
      BY <1>7, <1>16
    <3> HIDE DEF s
    <3>2. Tail(s) \in Seq(Result) /\ Len(Tail(s)) = Len(s) - 1 /\ Len(s) \in Nat
      BY <3>1
    <3>3. Len(Tail(s)) > 0
      BY <3>1, <3>2
    <3>4. \A u : Len(u) > 0 => u # <<>>
      OBVIOUS
    <3> QED BY <3>2, <3>3, <3>4, Zenon DEF s
  <2> QED BY <1>14, <1>15, <1>16, <2>1
<1>17. ASSUME Tail(f.todo) = none
       PROVE  Held(graph', StackBlocks(below) \cup Blocks(done) \cup Blocks(none))
  <2>1. Blocks(Tail(f.todo)) = {}
    BY <1>13, <1>17
  <2>2. StackBlocks(below) \cup Blocks(Tail(f.todo)) \cup Blocks(done)
          = StackBlocks(below) \cup Blocks(done) \cup Blocks(none)
    BY <1>13, <2>1
  <2> QED BY <1>14, <2>2
<1>18. ASSUME Tail(f.todo) = none, done # none, next(f.index + 1, done, none)
       PROVE  HeldInv'
  <2>1. done # <<>>
    BY <1>18
  <2> HIDE DEF none
  <2> QED BY <1>12, <1>15, <1>17, <1>18, <2>1
<1>19. ASSUME Tail(f.todo) = none,
              BuildEach(below, f.node.call, f.ep, f.values, done, none)
       PROVE  HeldInv'
  <2> HIDE DEF none
  <2> QED BY <1>2, <1>12, <1>17, <1>19, HeldBuildEach
<1> QED BY <1>4, <1>6, <1>16, <1>18, <1>19

\* A set with at most one member.
LEMMA NoTwo ==
  ASSUME NEW S, IsFiniteSet(S), ~ (Cardinality(S) > 1), NEW a \in S, NEW b \in S
  PROVE  a = b
<1>1. SUFFICES ASSUME a # b PROVE FALSE
  OBVIOUS
<1> DEFINE one == {a}
           two == one \cup {b}
<1>2. IsFiniteSet(one) /\ Cardinality(one) = 1 /\ b \notin one
  BY <1>1, FS_Singleton
<1> HIDE DEF one
<1>3. IsFiniteSet(two) /\ Cardinality(two) = 2
  BY <1>2, FS_AddElement
<1>4. two \in SUBSET S
  BY DEF one
<1> HIDE DEF two
<1>5. Cardinality(two) <= Cardinality(S) /\ Cardinality(S) \in Nat
  BY <1>4, FS_Subset, FS_CardinalityType
<1> QED BY <1>3, <1>5

\* No rank is left out either.
LEMMA RankedAll ==
  ASSUME NEW S, IsFiniteSet(S), NEW rank, \A s \in S : rank[s] \in Nat,
         \A s, t \in S : rank[s] = rank[t] => s = t,
         NEW m \in 1..Cardinality(S)
  PROVE  \E t \in S : Cardinality({x \in S : rank[x] <= rank[t]}) = m
<1> DEFINE c(t) == Cardinality({x \in S : rank[x] <= rank[t]})
           n == Cardinality(S)
           g == [t \in S |-> c(t)]
<1>1. \A t \in S : c(t) \in 1..n /\ \A u \in S : c(u) = c(t) => u = t
  BY RankedOnce
<1>2. n \in Nat
  BY FS_CardinalityType
<1>3. IsFiniteSet(1..n) /\ Cardinality(1..n) = n
  BY <1>2, FS_Interval
<1> HIDE DEF c, n
<1>4. g \in Injection(S, 1..n)
  BY <1>1 DEF Injection, IsInjective
<1>5. Cardinality(S) = Cardinality(1..n)
  BY <1>3 DEF n
<1> HIDE DEF g
<1>6. g \in Surjection(S, 1..n)
  BY <1>3, <1>4, <1>5, FS_Injection
<1>7. \E t \in S : g[t] = m
  BY <1>6 DEF Surjection, n
<1> QED BY <1>7 DEF g, c

\* JunctionNode: who is joined is closed, who is not is passed on, and every
\* junction block has its result.
LEMMA ReturnJunctionHeld ==
  ASSUME TypeOK, EndsInv, HeldInv, ReturnJunction
  PROVE  HeldInv'
<1> DEFINE f == Last(frames)
           stack == Front(frames)
           rs == results
           group(t) == {i \in Singles(rs) : TypeOf(rs[i]) = t}
           first(t) == CHOOSE i \in group(t) : \A j \in group(t) : i <= j
           several == {t \in TypesOf(rs) : Cardinality(group(t)) > 1}
           joined == {i \in Singles(rs) : TypeOf(rs[i]) \in several}
           bare == {i \in joined : ~ InMemory(rs[first(TypeOf(rs[i]))].values[1])}
           from == [i \in joined |-> rs[i].ep.block]
           others == DOMAIN rs \ Singles(rs)
           junction(t) ==
             Len(graph) + Cardinality({u \in several : address[u] <= address[t]})
           to == [i \in joined |-> junction(TypeOf(rs[i]))]
           output(t) ==
             [ep |-> IF t \in several THEN WithBlock(f.ep, junction(t))
                     ELSE rs[first(t)].ep,
              values |-> Append(f.values, rs[first(t)].values[1])]
           passed(p) == [j \in 1..Len(p) |-> rs[p[j]]]
           outputs(o) == [j \in 1..Len(o) |-> output(o[j])]
           n == Cardinality(several)
           index == [i \in DOMAIN rs |-> i]
           none == <<>>
<1>1. Returning("junction")
  BY DEF ReturnJunction
<1>2. \/ Throw("linkBlocks")
      \/ \E o \in Enumerations(TypesOf(rs), address),
            p \in Enumerations(others, index) :
           /\ graph' = AddBlocks(LinkEach(graph, joined, from, to, TRUE),
                                 "junction", FALSE, n)
           /\ BuildEach(stack, f.node, f.ep, none,
                        passed(p) \o outputs(o), none)
  BY Zenon DEF ReturnJunction
<1>3. /\ Held(graph, StackBlocks(stack) \cup FrameBlocks(f) \cup Blocks(rs))
      /\ FrameBlocks(f) = Blocks(Todo(f)) \cup Blocks(Done(f))
      /\ stack \in Seq(Frame) /\ f \in Frame /\ f.kind = "junction"
  BY <1>1, HeldReturned
<1>4. /\ rs \in Seq(Result) /\ Distinct(rs) /\ address \in Layout
  BY <1>1, Returned
<1>5. FrameBlocks(f) = {}
  <2>1. Todo(f) = <<>> /\ Done(f) = <<>>
    BY <1>3 DEF Todo, Done
  <2> HIDE DEF f
  <2> QED BY <1>3, <2>1, FewBlocks
<1> HIDE DEF f, stack
<1>6. f.ep \in EP /\ f.values \in Seq(Value)
  BY <1>3, FrameType
<1>7. Len(graph) \in Nat /\ graph \in Seq(Block)
  BY DEF TypeOK
<1> HIDE DEF rs
<1>8. /\ TypesOf(rs) \subseteq Type /\ IsFiniteSet(TypesOf(rs))
      /\ Singles(rs) \subseteq DOMAIN rs /\ Singles(rs) \subseteq 1..Len(rs)
      /\ IsFiniteSet(Singles(rs))
      /\ \A i \in Singles(rs) : TypeOf(rs[i]) \in TypesOf(rs)
  BY <1>4, SinglesType
<1>9. several \subseteq TypesOf(rs) /\ IsFiniteSet(several)
  <2>1. several \in SUBSET TypesOf(rs)
    BY Zenon
  <2> QED BY <1>8, <2>1, FS_Subset
<1>10. n \in Nat
  BY <1>9, FS_CardinalityType
<1>11. \A t \in Type : address[t] \in Nat
  BY DEF TypeOK
<1>12. /\ \A t \in several : junction(t) \in Nat
       /\ \A b \in Len(graph)+1..Len(graph)+n :
            \E t \in several : junction(t) = b
  <2> HIDE DEF several
  <2> DEFINE c(u) == Cardinality({x \in several : address[x] <= address[u]})
  <2>1. \A u \in several : address[u] \in Nat /\ u \in Type
    BY <1>8, <1>9, <1>11
  <2>2. \A u \in several : c(u) \in 1..n
    BY <1>9, <2>1, RankedOnce
  <2>3. \A t, u \in several : address[t] = address[u] => t = u
    BY <1>4, <2>1, LayoutAssumption, Zenon
  <2>4. \A m \in 1..n : \E t \in several : c(t) = m
    BY <1>9, <2>1, <2>3, RankedAll
  <2>5. \A u \in several : junction(u) = Len(graph) + c(u)
    OBVIOUS
  <2> HIDE DEF c, n, junction
  <2>6. \A t \in several : junction(t) \in Nat
    BY <1>7, <1>10, <2>2, <2>5
  <2>7. ASSUME NEW b \in Len(graph)+1..Len(graph)+n
        PROVE  \E t \in several : junction(t) = b
    <3>1. b - Len(graph) \in 1..n /\ b = Len(graph) + (b - Len(graph))
      BY <1>7, <1>10
    <3>2. PICK t \in several : c(t) = b - Len(graph)
      BY <2>4, <3>1
    <3> QED BY <2>5, <3>1, <3>2
  <2> QED BY <2>6, <2>7
<1>13. \A i \in joined :
         /\ i \in DOMAIN rs /\ from[i] = rs[i].ep.block
         /\ TypeOf(rs[i]) \in several /\ to[i] = junction(TypeOf(rs[i]))
  <2> HIDE DEF several, junction
  <2> QED BY <1>8
<1>14. ASSUME NEW t \in TypesOf(rs)
       PROVE  /\ first(t) \in group(t) /\ first(t) \in DOMAIN rs
              /\ rs[first(t)] \in Result /\ rs[first(t)].values[1] \in Value
  <2>1. group(t) # {}
    <3>1. PICK i \in Singles(rs) : t = TypeOf(rs[i])
      BY <1>14 DEF TypesOf
    <3> QED BY <3>1
  <2>2. group(t) \in SUBSET Nat
    BY <1>4, <1>8
  <2>3. \E i \in group(t) : \A j \in group(t) : i <= j
    BY <2>1, <2>2, LeastNumber, Zenon
  <2>4. first(t) \in group(t)
    BY <2>3, Zenon
  <2> HIDE DEF first
  <2> QED BY <1>4, <1>8, <2>4, SinglesType
\* A result of a type of its own is the first of its type.
<1>15. ASSUME NEW i \in Singles(rs), i \notin joined
       PROVE  /\ TypeOf(rs[i]) \in TypesOf(rs) \ several
              /\ first(TypeOf(rs[i])) = i
  <2> DEFINE t == TypeOf(rs[i])
  <2>1. t \in TypesOf(rs) /\ t \notin several
    BY <1>8, <1>15, Zenon
  <2>2. ~ (Cardinality(group(t)) > 1) /\ i \in group(t)
    BY <2>1
  <2>3. IsFiniteSet(group(t))
    <3>1. group(t) \in SUBSET Singles(rs)
      OBVIOUS
    <3> QED BY <1>8, <3>1, FS_Subset
  <2>4. first(t) \in group(t)
    BY <1>14, <2>1
  <2> HIDE DEF group, first, several
  <2>5. first(t) = i
    BY <2>2, <2>3, <2>4, NoTwo
  <2> QED BY <2>1, <2>5
<1> HIDE DEF several, junction, from, to, joined, bare, group, first, n
<1>16. ASSUME NEW o \in Enumerations(TypesOf(rs), address),
              NEW p \in Enumerations(others, index),
              graph' = AddBlocks(LinkEach(graph, joined, from, to, TRUE),
                                 "junction", FALSE, n),
              BuildEach(stack, f.node, f.ep, none,
                        passed(p) \o outputs(o), none)
       PROVE  HeldInv'
  <2> DEFINE yes == TRUE
             no == FALSE
             role == "junction"
             W == {from[i] : i \in joined}
             new == Len(graph)+1..Len(graph)+n
             ps == passed(p)
             os == outputs(o)
             qs == ps \o os
             S == StackBlocks(stack) \cup Blocks(rs)
  <2>1. /\ graph' = AddBlocks(LinkEach(graph, joined, from, to, yes), role, no, n)
        /\ yes \in BOOLEAN /\ no \in BOOLEAN /\ role \in Roles /\ role # "entry"
    BY <1>16 DEF Roles
  <2>2. /\ \A i \in joined : from[i] \in W
        /\ \A b \in W : \E i \in joined : from[i] = b
    OBVIOUS
  <2>3. \A i \in joined : to[i] \in Nat
    BY <1>12, <1>13
  <2>4. Held(graph, S)
    BY <1>3, <1>5
  <2> HIDE DEF yes, no, role, W, S
  <2>5. Held(graph', (S \ W) \cup new)
    BY <1>7, <1>10, <2>1, <2>2, <2>3, <2>4, LinkedEachHeld
  <2>6. /\ p \in Seq(others) /\ \A s \in others : \E j \in 1..Len(p) : p[j] = s
        /\ others \subseteq DOMAIN rs
    <3>1. others \in SUBSET (1..Len(rs))
      BY <1>4
    <3>2. IsFiniteSet(1..Len(rs))
      BY <1>4, FS_Interval
    <3>3. IsFiniteSet(others)
      BY <3>1, <3>2, FS_Subset
    <3>4. others \subseteq DOMAIN rs
      OBVIOUS
    <3> HIDE DEF others, index
    <3> QED BY <3>3, <3>4, EnumerationType
  <2>7. /\ o \in Seq(TypesOf(rs)) /\ \A t \in TypesOf(rs) : \E j \in 1..Len(o) : o[j] = t
    BY <1>8, EnumerationType
  <2>8. /\ Len(p) \in Nat /\ DOMAIN ps = 1..Len(p)
        /\ \A j \in 1..Len(p) : /\ p[j] \in DOMAIN rs /\ ps[j] = rs[p[j]]
    <3> HIDE DEF others
    <3> QED BY <2>6
  <2>9. /\ Len(o) \in Nat /\ DOMAIN os = 1..Len(o)
        /\ \A j \in 1..Len(o) : o[j] \in TypesOf(rs) /\ os[j] = output(o[j])
    <3> HIDE DEF output
    <3> QED BY <2>7
  <2>10. ASSUME NEW t \in TypesOf(rs)
         PROVE  /\ output(t) \in Result
                /\ t \in several => output(t).ep.block = junction(t)
                /\ t \notin several =>
                     output(t).ep.block = rs[first(t)].ep.block
    <3>1. Append(f.values, rs[first(t)].values[1]) \in Seq(Value)
      BY <1>6, <1>14
    <3>2. t \in several => WithBlock(f.ep, junction(t)) \in EP
      BY <1>6, <1>12, WithBlockType
    <3>3. WithBlock(f.ep, junction(t)).block = junction(t)
      BY <1>6 DEF WithBlock, EP
    <3>4. output(t) \in Result
      BY <1>14, <3>1, <3>2 DEF Result
    <3> QED BY <3>3, <3>4
  <2> HIDE DEF ps, os, output, new, others, index
  <2>11. ps \in Seq(Result) /\ os \in Seq(Result)
    <3>1. \A j \in 1..Len(p) : ps[j] \in Result
      BY <1>4, <2>8
    <3>2. \A j \in 1..Len(o) : os[j] \in Result
      BY <2>9, <2>10
    <3>3. ps = [j \in 1..Len(p) |-> ps[j]] /\ os = [j \in 1..Len(o) |-> os[j]]
      BY DEF ps, os
    <3> QED BY <2>8, <2>9, <3>1, <3>2, <3>3
  <2>12. Blocks(qs) = Blocks(ps) \cup Blocks(os) /\ qs \in Seq(Result)
    BY <2>11, ConcatBlocks
\* A result that is not joined is passed on or is the only one of its type, ...
  <2>13. ASSUME NEW i \in DOMAIN rs, i \notin joined
         PROVE  rs[i].ep.block \in Blocks(ps) \cup Blocks(os)
    <3>1. CASE i \notin Singles(rs)
      <4>1. i \in others
        BY <3>1 DEF others
      <4>2. PICK j \in 1..Len(p) : p[j] = i
        BY <2>6, <4>1
      <4> QED BY <2>8, <4>2 DEF Blocks
    <3>2. CASE i \in Singles(rs)
      <4> DEFINE t == TypeOf(rs[i])
      <4>1. t \in TypesOf(rs) /\ t \notin several /\ first(t) = i
        BY <1>15, <2>13, <3>2
      <4>2. PICK j \in 1..Len(o) : o[j] = t
        BY <2>7, <4>1
      <4>3. os[j].ep.block = rs[i].ep.block
        BY <2>9, <2>10, <4>1, <4>2
      <4> QED BY <2>9, <4>3 DEF Blocks
    <3> QED BY <3>1, <3>2
\* ... and every junction block has its output.
  <2>14. ASSUME NEW b \in new PROVE b \in Blocks(os)
    <3>1. PICK t \in several : junction(t) = b
      BY <1>12, <2>14 DEF new
    <3>2. PICK j \in 1..Len(o) : o[j] = t
      BY <1>9, <2>7, <3>1
    <3>3. os[j].ep.block = b
      BY <1>9, <2>9, <2>10, <3>1, <3>2
    <3> QED BY <2>9, <3>3 DEF Blocks
  <2>15. Blocks(rs) \subseteq Blocks(qs) \cup W
    <3>1. ASSUME NEW b \in Blocks(rs) PROVE b \in Blocks(qs) \cup W
      <4>1. PICK i \in DOMAIN rs : b = rs[i].ep.block
        BY DEF Blocks
      <4>2. CASE i \in joined
        BY <1>13, <2>2, <4>1, <4>2
      <4>3. CASE i \notin joined
        BY <2>12, <2>13, <4>1, <4>3
      <4> QED BY <4>2, <4>3
    <3> QED BY <3>1
  <2>16. BuildEach(stack, f.node, f.ep, none, qs, none)
    BY <1>16 DEF ps, os
  <2> HIDE DEF qs, none
  <2>17. Held(graph', StackBlocks(stack) \cup Blocks(qs) \cup Blocks(none))
    <3>1. (S \ W) \cup new \subseteq StackBlocks(stack) \cup Blocks(qs) \cup Blocks(none)
      BY <2>12, <2>14, <2>15 DEF S
    <3> QED BY <2>5, <3>1, HeldMore
  <2> QED BY <1>3, <2>12, <2>16, <2>17, HeldBuildEach
<1> QED BY <1>2, <1>16, HeldThrow, Zenon

LEMMA PrepareHeld ==
  ASSUME TypeOK, EndsInv, HeldInv, Prepare
  PROVE  HeldInv'
BY ProxyHeld, SegmentHeld, ReturnArgumentHeld, ReturnJunctionHeld,
   ReturnEachHeld DEF Prepare

-----------------------------------------------------------------------------
LEMMA TailCallHeld ==
  ASSUME TypeOK, EndsInv, HeldInv, TailCall
  PROVE  HeldInv'
<1> DEFINE target == TailCallTarget(ep, node.names, values)
           b == ep.block
           t == target.block
           inserted == InsertBlock(graph, b)
           stored == IF \E i \in DOMAIN values : InMemory(values[i])
                     THEN Emit(inserted, b) ELSE inserted
           none == <<>>
           S == StackBlocks(frames) \cup {b}
<1>1. pc = "build" /\ node.kind = "call"
  BY DEF TailCall, Entering
<1>2. \/ Throw("linkBlocks")
      \/ /\ graph' = LinkBlocks(stored, b, t)
         /\ Return(none) /\ UNCHANGED frames
  BY Zenon DEF TailCall
<1>3. Held(graph, S) /\ Ready(graph, {b}) /\ graph \in Seq(Block)
  BY <1>1, HeldEntered
<1>4. t \in Nat
  BY <1>1, TailCallTargetType DEF TypeOK, Entry
<1> HIDE DEF t, b
<1>5. /\ Held(inserted, S) /\ inserted \in Seq(Block) /\ Writes(graph, inserted, {b}, {})
  <2> HIDE DEF S
  <2> QED BY <1>3, InsertBlockHeld, InsertBlockType, InsertBlockWrites
<1> HIDE DEF inserted
<1>6. Ready(inserted, {b})
  BY <1>3, <1>5, WritesReady
<1>7. Held(stored, S) /\ stored \in Seq(Block)
  <2>1. stored = Emit(inserted, b) \/ stored = inserted
    BY Zenon
  <2>2. b \in S
    OBVIOUS
  <2> HIDE DEF stored, S
  <2> QED BY <1>5, <1>6, <2>1, <2>2, EmitHeld, EmitType
<1> HIDE DEF stored
<1>8. ASSUME graph' = LinkBlocks(stored, b, t), Return(none), UNCHANGED frames
      PROVE  HeldInv'
  <2>1. Held(graph', S \ {b})
    <3> HIDE DEF S
    <3> QED BY <1>4, <1>7, <1>8, LinkBlocksHeld
  <2> HIDE DEF none
  <2>2. Held(graph', StackBlocks(frames') \cup Blocks(none))
    <3>1. S \ {b} \subseteq StackBlocks(frames') \cup Blocks(none)
      BY <1>8 DEF S
    <3> QED BY <2>1, <3>1, HeldMore
  <2> QED BY <1>8, <2>2, HeldReturn
<1> QED BY <1>2, <1>8, HeldThrow, Zenon

LEMMA CallFailsHeld ==
  ASSUME CallFails
  PROVE  HeldInv'
<1> DEFINE what == ResolutionError(ep, unit.functions, node.names, values)
<1>1. Throw(what) \/ Throw("linkBlocks")
  BY Zenon DEF CallFails
<1> HIDE DEF what
<1> QED BY <1>1, HeldThrow

\* regularCall: the caller's block is closed, the function block is held.
LEMMA FunctionBlockHeld ==
  ASSUME TypeOK, EndsInv, HeldInv, pc = "build", NEW b, b = Len(graph) + 1
  PROVE  Held(FunctionBlock, StackBlocks(frames) \cup {b})
<1> DEFINE no == FALSE
           role == "function"
           h == FunctionBlock
           c == ep.block
           S == StackBlocks(frames) \cup {c}
<1>1. /\ Held(graph, S) /\ graph \in Seq(Block)
      /\ role \in Roles /\ role # "entry" /\ no \in BOOLEAN
      /\ h = LinkBlocks(AddBlocks(InsertBlock(graph, c), role, no, 1), c, b)
  BY HeldEntered DEF Roles, FunctionBlock
<1> HIDE DEF no, role, h, c, S
<1>2. Held(h, (S \ {c}) \cup {b})
  BY <1>1, NewBlockHeld
<1>3. (S \ {c}) \cup {b} \subseteq StackBlocks(frames) \cup {b}
  BY DEF S
<1> QED BY <1>2, <1>3, HeldMore DEF h

LEMMA CallFunctionHeld ==
  ASSUME TypeOK, EndsInv, HeldInv, CallFunction
  PROVE  HeldInv'
<1> DEFINE b == Len(graph) + 1
           callee == WithBlock(ep, b)
           h == [kind |-> "function", ep |-> callee]
           start(f) == MarkEntry(WithName(callee, f.name), values)
           locals(f) == WithArguments(ep.locals, f.params, values)
<1>1. pc = "build"
  BY DEF CallFunction, NotATailCall, Entering
<1>2. PICK f \in FindFunction(ep, unit.functions, node.names, values) :
        /\ graph' = FunctionBlock
        /\ Build(f.body, WithLocals(start(f), locals(f)), <<>>)
        /\ Push(h)
  BY Zenon DEF CallFunction
<1>3. f \in Function /\ f.name \in Name
  BY CalleeType DEF IsFunction
<1>4. b \in Nat /\ Held(graph', StackBlocks(frames) \cup {b})
  BY <1>1, <1>2, FunctionBlockHeld DEF TypeOK
<1> HIDE DEF b
<1>5. frames \in Seq(Frame) /\ ep \in EP /\ values \in Seq(Value)
  BY DEF TypeOK
<1>6. Todo(h) = <<>> /\ Done(h) = <<>>
  BY DEF Todo, Done
<1>7. callee \in EP /\ callee.block = b
  BY <1>4, <1>5, WithBlockType DEF WithBlock, EP
<1> HIDE DEF callee, h
<1>8. WithLocals(start(f), locals(f)).block = b
  <2>1. WithName(callee, f.name) \in EP /\ WithName(callee, f.name).block = b
    BY <1>3, <1>7, WithNameType DEF WithName, EP
  <2>2. start(f) \in EP
    BY <1>5, <2>1, MarkEntryType
  <2>3. start(f).block = b
    BY <2>1 DEF MarkEntry, EP
  <2> HIDE DEF start, locals
  <2> QED BY <2>2, <2>3 DEF WithLocals, EP
<1> DEFINE e == WithLocals(start(f), locals(f))
<1> HIDE DEF e
<1>9. FrameBlocks(h) = {}
  BY <1>6, FewBlocks DEF FrameBlocks
<1>10. frames' = Append(frames, h) /\ Build(f.body, e, <<>>) /\ e.block = b
  BY <1>2, <1>8 DEF Push, e
<1>11. StackBlocks(frames') = StackBlocks(frames) \cup FrameBlocks(h)
  BY <1>5, <1>10, PushApart, Zenon
<1>12. StackBlocks(frames') \cup {e.block} = StackBlocks(frames) \cup {b}
  BY <1>9, <1>10, <1>11
<1> QED BY <1>4, <1>10, <1>12, HeldBuild

LEMMA CallImportHeld ==
  ASSUME TypeOK, EndsInv, HeldInv, CallImport
  PROVE  HeldInv'
<1> DEFINE b == Len(graph) + 1
           fits(f) == \A i \in DOMAIN f.params :
                        /\ ArgumentScore(f, values, i) = 0
                        /\ values[Len(values) + 1 - i].rep = "reference"
           r(f) == [ep |-> WithBlock(ep, b),
                    values |-> IF f.returns = "void" THEN <<>>
                               ELSE <<Scalar(f.returns)>>]
           g == FunctionBlock
           S == StackBlocks(frames) \cup {b}
<1>1. PICK f \in FindFunction(ep, unit.functions, node.names, values) :
        /\ graph' = EmitTyped(g, b, fits(f))
        /\ Return(<<r(f)>>) /\ UNCHANGED frames
  BY Zenon DEF CallImport
<1>2. fits(f) \in BOOLEAN
  BY Zenon
<1> HIDE DEF fits
<1>3. pc = "build"
  BY DEF CallImport, NotATailCall, Entering
<1>4. Held(g, S) /\ g \in Seq(Block) /\ Ready(g, {b})
  BY <1>3, FunctionBlockEnds, FunctionBlockHeld
<1>5. r(f).ep.block = b
  BY DEF TypeOK, WithBlock, EP
<1> HIDE DEF b, g, r
<1>6. Held(graph', S)
  <2>1. b \in S
    OBVIOUS
  <2> HIDE DEF S
  <2> QED BY <1>1, <1>2, <1>4, <2>1, EmitTypedHeld
<1>7. Blocks(<<r(f)>>) = {b}
  BY <1>5, FewBlocks
<1>8. Held(graph', StackBlocks(frames') \cup Blocks(<<r(f)>>))
  BY <1>1, <1>6, <1>7
<1> QED BY <1>1, <1>8, HeldReturn

LEMMA ReturnFunctionHeld ==
  ASSUME TypeOK, EndsInv, HeldInv, ReturnFunction
  PROVE  HeldInv'
<1> DEFINE f == Last(frames)
           below == Front(frames)
           I == DOMAIN results
           n == Len(results)
           from == [i \in I |-> results[i].ep.block]
           to == [i \in I |-> Len(graph) + i]
           r(i) == [ep |-> WithBlock(f.ep, Len(graph) + i),
                    values |-> results[i].values]
           rs == [i \in 1..n |-> r(i)]
           yes == TRUE
           no == FALSE
           role == "consumer"
           W == {from[i] : i \in I}
           new == Len(graph)+1..Len(graph)+n
           S == StackBlocks(below) \cup Blocks(results)
<1>1. Returning("function")
        /\ \/ Throw("linkBlocks")
           \/ /\ graph' = AddBlocks(LinkEach(graph, I, from, to, yes), role, no, n)
              /\ Return(rs) /\ frames' = below
  BY Zenon DEF ReturnFunction
<1>2. /\ Held(graph, StackBlocks(below) \cup FrameBlocks(f) \cup Blocks(results))
      /\ FrameBlocks(f) = Blocks(Todo(f)) \cup Blocks(Done(f))
      /\ f \in Frame /\ f.kind = "function"
  BY <1>1, HeldReturned
<1>3. FrameBlocks(f) = {}
  <2>1. Todo(f) = <<>> /\ Done(f) = <<>>
    BY <1>2 DEF Todo, Done
  <2> HIDE DEF f
  <2> QED BY <1>2, <2>1, FewBlocks
<1> HIDE DEF f, below
<1>4. f.ep \in EP
  BY <1>2, FrameType
<1>5. /\ I = 1..n /\ n \in Nat /\ Len(graph) \in Nat /\ graph \in Seq(Block)
      /\ yes \in BOOLEAN /\ no \in BOOLEAN /\ role \in Roles /\ role # "entry"
  BY DEF TypeOK, Roles
<1>6. /\ \A i \in I : from[i] = results[i].ep.block /\ to[i] \in Nat /\ from[i] \in W
      /\ \A b \in W : \E i \in I : from[i] = b
  BY <1>5
<1>7. DOMAIN rs = 1..n /\ \A i \in 1..n : rs[i].ep.block = Len(graph) + i
  BY <1>4 DEF WithBlock, EP
<1>8. Blocks(results) = W
  BY DEF Blocks
<1>9. Held(graph, S)
  BY <1>2, <1>3
<1> HIDE DEF I, n, from, to, yes, no, rs, W, new, role, S
<1>10. ASSUME graph' = AddBlocks(LinkEach(graph, I, from, to, yes), role, no, n),
              Return(rs), frames' = below
       PROVE  HeldInv'
  <2>1. Held(graph', (S \ W) \cup new)
    BY <1>5, <1>6, <1>9, <1>10, LinkedEachHeld DEF new
  <2>2. new \subseteq Blocks(rs)
    <3>1. ASSUME NEW b \in new PROVE b \in Blocks(rs)
      <4>1. b - Len(graph) \in 1..n /\ b = Len(graph) + (b - Len(graph))
        BY <1>5 DEF new
      <4> DEFINE j == b - Len(graph)
      <4>2. j \in DOMAIN rs /\ b = rs[j].ep.block
        BY <1>7, <4>1
      <4> HIDE DEF j
      <4> QED BY <4>2, Zenon DEF Blocks
    <3> QED BY <3>1
  <2>3. Held(graph', StackBlocks(frames') \cup Blocks(rs))
    <3>1. (S \ W) \cup new \subseteq StackBlocks(frames') \cup Blocks(rs)
      BY <1>8, <1>10, <2>2 DEF S
    <3> QED BY <2>1, <3>1, HeldMore
  <2> QED BY <1>10, <2>3, HeldReturn
<1> QED BY <1>1, <1>10, HeldThrow, Zenon

LEMMA InvokeHeld ==
  ASSUME TypeOK, EndsInv, HeldInv, Invoke
  PROVE  HeldInv'
BY TailCallHeld, CallFailsHeld, CallFunctionHeld, CallImportHeld,
   ReturnFunctionHeld DEF Invoke

-----------------------------------------------------------------------------
\* Only a conditional can lose a result.
LEMMA StepHeld ==
  ASSUME TypeOK, EndsInv, HeldInv, MergesOpenEnds, [Next]_vars
  PROVE  HeldInv'
<1>1. CASE Step
  <2>1. CASE Finish
    BY <2>1 DEF Finish, HeldInv
  <2>2. CASE Overflow
    BY <2>2, HeldThrow DEF Overflow
  <2> QED BY <1>1, <2>1, <2>2, ProduceHeld, LeaveHeld, BranchHeld, PrepareHeld,
             InvokeHeld DEF Step
<1>2. CASE Stop
  BY <1>2 DEF Stop, Compiled, HeldInv
<1>3. CASE UNCHANGED vars
  BY <1>3 DEF vars, HeldInv
<1> QED BY <1>1, <1>2, <1>3, Zenon DEF Next

LEMMA InitHeld ==
  ASSUME Init, TypeOK
  PROVE  HeldInv
<1> DEFINE none == <<>>
           yes == TRUE
           no == FALSE
           start == "alloc"
           main == "body"
           n == 1
           alloc == AddBlocks(none, start, yes, n)
           body == AddBlocks(alloc, main, no, n)
<1>1. /\ none \in Seq(Block) /\ start \in Roles /\ main \in Roles
      /\ start # "entry" /\ main # "entry"
      /\ yes \in BOOLEAN /\ no \in BOOLEAN /\ n \in Nat /\ n = 1
      /\ Len(none) = 0
  BY DEF Roles
<1>2. graph = LinkBlocks(body, 1, 2)
  BY DEF Init
<1>3. Held(none, {})
  BY DEF Held
<1> HIDE DEF none, yes, no, start, main, n
<1>4. /\ alloc \in Seq(Block) /\ Len(alloc) = Len(none) + n
      /\ Held(alloc, {} \cup (Len(none)+1..Len(none)+n))
  <2>1. alloc \in Seq(Block)
    BY <1>1, AddBlocksType
  <2>2. Len(alloc) = Len(none) + n
    <3>1. alloc = AddBlocks(none, start, yes, n)
      OBVIOUS
    <3>2. none \in Seq(Block) /\ n \in Nat
      BY <1>1
    <3> HIDE DEF alloc
    <3> QED BY <3>1, <3>2, AddBlocksWrites
  <2> DEFINE S == {}
  <2>3. Held(none, S)
    BY <1>3
  <2> HIDE DEF S
  <2>4. Held(alloc, S \cup (Len(none)+1..Len(none)+n))
    BY <1>1, <2>3, AddBlocksHeld
  <2> QED BY <2>1, <2>2, <2>4 DEF S
<1> HIDE DEF alloc
<1>5. Len(none)+1..Len(none)+n = {1} /\ Len(alloc)+1..Len(alloc)+n = {2}
  BY <1>1, <1>4
<1>6. Held(alloc, {1})
  BY <1>4, <1>5
<1>7. body \in Seq(Block) /\ Held(body, {1} \cup {2})
  <2>1. body \in Seq(Block)
    BY <1>1, <1>4, AddBlocksType
  <2> DEFINE S == {1}
  <2>2. Held(alloc, S)
    BY <1>6
  <2> HIDE DEF S
  <2>3. Held(body, S \cup (Len(alloc)+1..Len(alloc)+n))
    BY <1>1, <1>4, <2>2, AddBlocksHeld
  <2> QED BY <1>5, <2>1, <2>3 DEF S
<1> HIDE DEF body
<1>8. Held(graph, ({1} \cup {2}) \ {1})
  <2> DEFINE S == {1} \cup {2}
  <2>1. Held(body, S) /\ 2 \in Nat
    BY <1>7
  <2> HIDE DEF S
  <2>2. Held(graph, S \ {1})
    BY <1>2, <1>7, <2>1, LinkBlocksHeld
  <2> QED BY <2>2 DEF S
<1>9. ep.block = 2 /\ pc = "build"
  BY DEF Init, RootEP
<1>10. ({1} \cup {2}) \ {1} \subseteq StackBlocks(frames) \cup {ep.block}
  BY <1>9
<1>11. Held(graph, StackBlocks(frames) \cup {ep.block})
  BY <1>8, <1>10, HeldMore
<1> QED BY <1>9, <1>11 DEF HeldInv

LEMMA HeldInvariant == Spec /\ []MergesOpenEnds => [](TypeOK /\ EndsInv /\ HeldInv)
<1>1. Init => TypeOK /\ EndsInv /\ HeldInv
  BY InitType, InitEnds, InitHeld
<1>2. TypeOK /\ EndsInv /\ HeldInv /\ MergesOpenEnds /\ [Next]_vars
        => (TypeOK /\ EndsInv /\ HeldInv)'
  BY StepType, StepEnds, StepHeld DEF EndsStep
<1> QED BY <1>1, <1>2, PTL DEF Spec

\* A result that is to be continued is an end.
LEMMA HeldIsEnd ==
  ASSUME NEW place, NEW rs, NEW b \in Blocks(rs), graph[b].role # "entry"
  PROVE  \E x \in HeldBy(place, rs) : x.block = b
<1> DEFINE r(i) == [place |-> place, index |-> i, block |-> rs[i].ep.block]
<1>1. PICK i \in DOMAIN rs : b = rs[i].ep.block
  BY DEF Blocks
<1>2. r(i).block = b
  BY <1>1
<1>3. r(i) \in HeldBy(place, rs)
  BY <1>1 DEF HeldBy
<1> HIDE DEF r
<1> QED BY <1>2, <1>3

LEMMA FrameIsEnd ==
  ASSUME TypeOK, NEW k \in DOMAIN frames,
         NEW b \in FrameBlocks(frames[k]), graph[b].role # "entry"
  PROVE  \E x \in HeldByFrame(k) : x.block = b
<1> DEFINE f == frames[k]
           H == HeldByFrame(k)
           todo == <<k, "todo">>
           done == <<k, "done">>
           G == \E x \in H : x.block = b
<1>1. f \in Frame
  BY DEF TypeOK
<1>2. b \in Blocks(Todo(f)) \/ b \in Blocks(Done(f))
  BY DEF FrameBlocks
<1>3. Blocks(<<>>) = {}
  BY FewBlocks
<1>4. ASSUME H = HeldBy(todo, Todo(f)) \cup HeldBy(done, Done(f)) PROVE G
  <2> HIDE DEF f, H, todo, done
  <2>1. \/ \E x \in HeldBy(todo, Todo(f)) : x.block = b
        \/ \E x \in HeldBy(done, Done(f)) : x.block = b
    BY <1>2, HeldIsEnd
  <2> QED BY <1>4, <2>1
<1>5. ASSUME f.kind = "ifTrue" PROVE G
  <2> DEFINE x == [place |-> <<k, "branch">>, index |-> 1, block |-> f.block]
             r == [ep |-> WithBlock(f.ep, f.block), values |-> f.values]
  <2>1. H = {x} /\ x.block = f.block
    BY <1>5 DEF HeldByFrame
  <2>2. Todo(f) = <<r>> /\ Done(f) = <<>>
    BY <1>5 DEF Todo, Done
  <2>3. f.ep \in EP
    BY <1>1, <1>5, FrameType
  <2>4. r.ep.block = f.block
    BY <2>3 DEF WithBlock, EP
  <2> HIDE DEF x, r, f, H
  <2>5. b = f.block
    BY <1>2, <1>3, <2>2, <2>4, FewBlocks
  <2> QED BY <2>1, <2>5
<1>6. ASSUME f.kind = "ifFalse" PROVE G
  <2>1. Todo(f) = <<>> /\ Done(f) = f.done
    BY <1>6 DEF Todo, Done
  <2>2. HeldBy(todo, Todo(f)) = {}
    BY <2>1 DEF HeldBy
  <2>3. H = HeldBy(done, Done(f))
    BY <1>6, <2>1 DEF HeldByFrame
  <2> QED BY <1>4, <2>2, <2>3
<1>7. ASSUME f.kind = "each" PROVE G
  <2>1. Todo(f) = f.todo /\ Done(f) = f.done
    BY <1>7 DEF Todo, Done
  <2>2. H = HeldBy(todo, Todo(f)) \cup HeldBy(done, Done(f))
    BY <1>7, <2>1 DEF HeldByFrame
  <2> QED BY <1>4, <2>2
<1>8. ASSUME f.kind = "argument" PROVE G
  <2>1. Todo(f) = Tail(f.todo) /\ Done(f) = f.done
    BY <1>8 DEF Todo, Done
  <2>2. H = HeldBy(todo, Todo(f)) \cup HeldBy(done, Done(f))
    BY <1>8, <2>1 DEF HeldByFrame
  <2> QED BY <1>4, <2>2
<1>9. ASSUME f.kind \notin {"ifTrue", "ifFalse", "each", "argument"} PROVE FALSE
  <2>1. Todo(f) = <<>> /\ Done(f) = <<>>
    BY <1>9 DEF Todo, Done
  <2> HIDE DEF f
  <2> QED BY <1>2, <1>3, <2>1
<1> HIDE DEF G
<1>10. G
  BY <1>5, <1>6, <1>7, <1>8, <1>9
<1> QED BY <1>10 DEF G

\* What is open is an end.
LEMMA OpenIsEnd ==
  ASSUME TypeOK, HeldInv, Running, NEW b \in DOMAIN graph, graph[b].last = "open"
  PROVE  \E x \in Ends : x.block = b
<1> DEFINE place == <<0, "results">>
           now == [place |-> <<0, "now">>, index |-> 1, block |-> ep.block]
<1>1. graph[b].role # "entry"
  BY DEF HeldInv, Running, Held
<1>2. \/ b \in StackBlocks(frames)
      \/ pc = "build" /\ b = ep.block
      \/ pc = "return" /\ b \in Blocks(results)
  BY DEF HeldInv, Running, Held
<1>3. CASE b \in StackBlocks(frames)
  <2>1. PICK k \in DOMAIN frames : b \in FrameBlocks(frames[k])
    BY <1>3, Zenon DEF StackBlocks
  <2>2. PICK x \in HeldByFrame(k) : x.block = b
    BY <1>1, <2>1, FrameIsEnd
  <2>3. x \in Ends
    BY <2>2, Zenon DEF Ends
  <2> QED BY <2>2, <2>3
<1>4. CASE pc = "build" /\ b = ep.block
  <2>1. now \in Ends
    BY <1>4 DEF Ends
  <2>2. now.block = b
    BY <1>4
  <2> QED BY <2>1, <2>2
<1>5. CASE pc = "return" /\ b \in Blocks(results)
  <2>1. PICK x \in HeldBy(place, results) : x.block = b
    <3> HIDE DEF place
    <3> QED BY <1>1, <1>5, HeldIsEnd
  <2>2. pc # "build"
    BY <1>5
  <2>3. x \in Ends
    BY <2>1, <2>2, Zenon DEF Ends
  <2> QED BY <2>1, <2>3
<1> QED BY <1>2, <1>3, <1>4, <1>5

\* No result is lost: whatever the program, there is one way only for a block to
\* be left without a terminator, and that is the conditional that merges some of
\* its results and forgets others that are still open (ConditionalNode.cpp).  As
\* long as it forgets none, every open block is held by somebody who closes it.
THEOREM DanglingCorrect == Spec /\ []MergesOpenEnds => []NothingDangles
<1>1. TypeOK /\ EndsInv /\ HeldInv => NothingDangles
  BY OpenIsEnd, Zenon DEF NothingDangles
<1> QED BY <1>1, HeldInvariant, PTL

-----------------------------------------------------------------------------
(* One continuation per type.                                              *)

\* No two results carry the same values.
Varied(rs) == \A i, j \in DOMAIN rs : i # j => rs[i].values # rs[j].values

VariedFrame(f) == f.kind = "each" /\ f.node.kind # "call" => Varied(f.todo)

VariedStack(fs) == \A k \in DOMAIN fs : VariedFrame(fs[k])

LEMMA VariedIsOne == OneContinuationPerType <=> VariedStack(frames)
BY DEF OneContinuationPerType, VariedStack, VariedFrame, Varied

LEMMA VariedPush ==
  ASSUME NEW below \in Seq(Frame), VariedStack(below), NEW f, VariedFrame(f)
  PROVE  VariedStack(Append(below, f))
BY DEF VariedStack

LEMMA VariedBelow ==
  ASSUME TypeOK, OneContinuationPerType, NEW kind, Returning(kind),
         NEW f, f = Last(frames), NEW below, below = Front(frames)
  PROVE  /\ below \in Seq(Frame) /\ VariedStack(below)
         /\ f \in Frame /\ f.kind = kind /\ VariedFrame(f)
<1>1. frames \in Seq(Frame) /\ frames # <<>> /\ VariedStack(frames)
  BY VariedIsOne DEF TypeOK, Returning
<1>2. below \in Seq(Frame) /\ f \in Frame /\ frames = Append(below, f)
  BY <1>1, Popped
<1>3. f.kind = kind
  BY DEF Returning
<1>4. VariedStack(below)
  <2> SUFFICES ASSUME NEW k \in DOMAIN below PROVE VariedFrame(below[k])
    BY DEF VariedStack
  <2>1. k \in DOMAIN frames /\ frames[k] = below[k]
    BY <1>2
  <2> QED BY <1>1, <2>1, Zenon DEF VariedStack
<1>5. VariedFrame(f)
  <2>1. Len(below) + 1 \in DOMAIN frames /\ frames[Len(below) + 1] = f
    BY <1>2
  <2> QED BY <1>1, <2>1, Zenon DEF VariedStack
<1> QED BY <1>2, <1>3, <1>4, <1>5

LEMMA VariedTail ==
  ASSUME NEW rs \in Seq(Result), rs # <<>>, Varied(rs)
  PROVE  Varied(Tail(rs))
<1>1. /\ Len(rs) \in Nat /\ DOMAIN rs = 1..Len(rs)
      /\ DOMAIN Tail(rs) = 1..Len(rs)-1
      /\ \A i \in 1..Len(rs)-1 : Tail(rs)[i] = rs[i + 1]
  OBVIOUS
<1> SUFFICES ASSUME NEW i \in DOMAIN Tail(rs), NEW j \in DOMAIN Tail(rs), i # j
             PROVE  Tail(rs)[i].values # Tail(rs)[j].values
  BY DEF Varied
<1>2. i + 1 \in DOMAIN rs /\ j + 1 \in DOMAIN rs /\ i + 1 # j + 1
  BY <1>1
<1>3. rs[i + 1].values # rs[j + 1].values
  BY <1>2, Zenon DEF Varied
<1> QED BY <1>1, <1>3

LEMMA VariedFew ==
  ASSUME NEW rs \in Seq(Result), Len(rs) <= 1
  PROVE  Varied(rs)
<1>1. DOMAIN rs = 1..Len(rs) /\ Len(rs) \in Nat
  OBVIOUS
<1> QED BY <1>1 DEF Varied

LEMMA VariedBuildEach ==
  ASSUME NEW below \in Seq(Frame), VariedStack(below),
         NEW n, NEW e, NEW prefix, NEW todo \in Seq(Result), NEW done,
         n.kind = "call" \/ Varied(todo),
         BuildEach(below, n, e, prefix, todo, done)
  PROVE  OneContinuationPerType'
<1> DEFINE h == [kind |-> "each", node |-> n, ep |-> e, prefix |-> prefix,
                 todo |-> Tail(todo), done |-> done]
<1>1. \/ todo = <<>> /\ frames' = below
      \/ todo # <<>> /\ frames' = Append(below, h)
  BY DEF BuildEach
<1>2. CASE todo = <<>> /\ frames' = below
  <2>1. VariedStack(frames')
    BY <1>2
  <2> QED BY <2>1 DEF OneContinuationPerType, VariedStack, VariedFrame, Varied
<1>3. CASE todo # <<>> /\ frames' = Append(below, h)
  <2>1. n.kind = "call" \/ Varied(Tail(todo))
    BY <1>3, VariedTail
  <2>2. h.node = n /\ h.todo = Tail(todo)
    OBVIOUS
  <2> HIDE DEF h
  <2>3. VariedFrame(h)
    BY <2>1, <2>2 DEF VariedFrame
  <2>4. VariedStack(frames')
    BY <1>3, <2>3, VariedPush
  <2> QED BY <2>4 DEF OneContinuationPerType, VariedStack, VariedFrame, Varied
<1> QED BY <1>1, <1>2, <1>3

\* A step that leaves the stack alone, or pushes a frame of another kind.
LEMMA VariedSame ==
  ASSUME OneContinuationPerType, frames' = frames
  PROVE  OneContinuationPerType'
BY DEF OneContinuationPerType

LEMMA VariedPushed ==
  ASSUME NEW below \in Seq(Frame), VariedStack(below), NEW f, f.kind # "each",
         frames' = Append(below, f)
  PROVE  OneContinuationPerType'
<1>1. VariedStack(frames')
  BY VariedPush DEF VariedFrame
<1> QED BY <1>1 DEF OneContinuationPerType, VariedStack, VariedFrame, Varied

-----------------------------------------------------------------------------
LEMMA ReturnGlobalVaried ==
  ASSUME TypeOK, OneContinuationPerType, OneValueEach, ReturnGlobal
  PROVE  OneContinuationPerType'
<1>1. Returning("global") /\ Len(results) <= 1 /\ results \in Seq(Result)
  BY DEF ReturnGlobal, OneValueEach, TypeOK
<1>2. BuildEach(Front(frames), Last(frames).node, Last(frames).ep, <<>>,
                results, <<>>)
  BY DEF ReturnGlobal
<1>3. Front(frames) \in Seq(Frame) /\ VariedStack(Front(frames))
  BY <1>1, VariedBelow
<1>4. Varied(results)
  BY <1>1, VariedFew
<1> QED BY <1>1, <1>2, <1>3, <1>4, VariedBuildEach

LEMMA MemberVaried ==
  ASSUME TypeOK, OneContinuationPerType, Member
  PROVE  OneContinuationPerType'
<1> DEFINE h == [kind |-> "global", node |-> node.consumer, ep |-> ep]
<1>1. frames' = frames \/ frames' = Append(frames, h)
  BY DEF Member, Throw, Push
<1>2. h.kind # "each"
  OBVIOUS
<1> HIDE DEF h
<1>3. frames \in Seq(Frame) /\ VariedStack(frames)
  BY VariedIsOne DEF TypeOK
<1> QED BY <1>1, <1>2, <1>3, VariedSame, VariedPushed

LEMMA ProduceVaried ==
  ASSUME TypeOK, OneContinuationPerType, OneValueEach, Produce
  PROVE  OneContinuationPerType'
<1>1. CASE Literal \/ Local \/ Binary \/ StackFrame \/ ReferenceSink
             \/ ReturnStatement
  <2>1. frames' = frames
    BY <1>1 DEF Literal, Local, Binary, StackFrame, ReferenceSink,
                ReturnStatement, Underflow, Throw
  <2> QED BY <2>1, VariedSame
<1> QED BY <1>1, MemberVaried, ReturnGlobalVaried DEF Produce

LEMMA LeaveVaried ==
  ASSUME OneContinuationPerType, Leave
  PROVE  OneContinuationPerType'
<1>1. frames' = frames
  BY DEF Leave, Terminator, ExportTerminator, Underflow, Throw
<1> QED BY <1>1, VariedSame

LEMMA BranchVaried ==
  ASSUME TypeOK, OneContinuationPerType, Branch
  PROVE  OneContinuationPerType'
<1>1. frames \in Seq(Frame) /\ VariedStack(frames)
  BY VariedIsOne DEF TypeOK
<1>2. CASE Conditional
  <2> DEFINE h == [kind |-> "ifTrue", node |-> node.ifFalse, ep |-> ep,
                   block |-> Len(graph) + 2, values |-> Front(values)]
  <2>1. frames' = frames \/ frames' = Append(frames, h)
    BY <1>2 DEF Conditional, Underflow, Throw, Push
  <2>2. h.kind # "each"
    OBVIOUS
  <2> HIDE DEF h
  <2> QED BY <1>1, <2>1, <2>2, VariedSame, VariedPushed
<1>3. CASE ReturnIfTrue
  <2> DEFINE f == Last(frames)
             below == Front(frames)
             h == [kind |-> "ifFalse", ep |-> f.ep, values |-> f.values,
                   done |-> results]
  <2>1. Returning("ifTrue") /\ frames' = Append(below, h)
    BY <1>3 DEF ReturnIfTrue
  <2>2. h.kind # "each"
    OBVIOUS
  <2> HIDE DEF h
  <2>3. below \in Seq(Frame) /\ VariedStack(below)
    BY <2>1, VariedBelow
  <2> QED BY <2>1, <2>2, <2>3, VariedPushed
<1>4. CASE ReturnIfFalse
  <2>1. Returning("ifFalse") /\ frames' = Front(frames)
    BY <1>4 DEF ReturnIfFalse
  <2>2. VariedStack(frames')
    BY <2>1, VariedBelow
  <2> QED BY <2>2 DEF OneContinuationPerType, VariedStack, VariedFrame, Varied
<1> QED BY <1>2, <1>3, <1>4 DEF Branch

LEMMA InvokeVaried ==
  ASSUME TypeOK, OneContinuationPerType, Invoke
  PROVE  OneContinuationPerType'
<1>1. frames \in Seq(Frame) /\ VariedStack(frames)
  BY VariedIsOne DEF TypeOK
<1>2. CASE TailCall \/ CallFails \/ CallImport
  <2>1. frames' = frames
    BY <1>2 DEF TailCall, CallFails, CallImport, Throw
  <2> QED BY <2>1, VariedSame
<1>3. CASE CallFunction
  <2> DEFINE h == [kind |-> "function", ep |-> WithBlock(ep, Len(graph) + 1)]
  <2>1. frames' = Append(frames, h)
    BY <1>3 DEF CallFunction, Push
  <2>2. h.kind # "each"
    OBVIOUS
  <2> HIDE DEF h
  <2> QED BY <1>1, <2>1, <2>2, VariedPushed
<1>4. CASE ReturnFunction
  <2>1. Returning("function") /\ frames' \in {frames, Front(frames)}
    BY <1>4 DEF ReturnFunction, Throw
  <2>2. VariedStack(frames')
    BY <1>1, <2>1, VariedBelow
  <2> QED BY <2>2 DEF OneContinuationPerType, VariedStack, VariedFrame, Varied
<1> QED BY <1>2, <1>3, <1>4 DEF Invoke
-----------------------------------------------------------------------------
LEMMA ProxyVaried ==
  ASSUME TypeOK, OneContinuationPerType, ProxyTailPath \/ ProxyRegularCall
  PROVE  OneContinuationPerType'
<1> DEFINE h == [kind |-> "junction", node |-> node.consumer, ep |-> ep,
                 values |-> values]
<1>1. frames' = frames \/ frames' = Append(frames, h)
  BY DEF ProxyTailPath, ProxyRegularCall, Push
<1>2. h.kind # "each"
  OBVIOUS
<1> HIDE DEF h
<1>3. frames \in Seq(Frame) /\ VariedStack(frames)
  BY VariedIsOne DEF TypeOK
<1> QED BY <1>1, <1>2, <1>3, VariedSame, VariedPushed

LEMMA SegmentVaried ==
  ASSUME TypeOK, OneContinuationPerType, Segment
  PROVE  OneContinuationPerType'
<1> DEFINE start == [ep |-> ep, values |-> <<>>]
           one == <<start>>
           h == [kind |-> "argument", node |-> node, ep |-> ep,
                 values |-> values, index |-> 1, todo |-> one, done |-> <<>>]
<1>1. frames \in Seq(Frame) /\ VariedStack(frames)
  BY VariedIsOne DEF TypeOK
<1>2. \/ BuildEach(frames, node.call, ep, values, one, <<>>)
      \/ frames' = Append(frames, h)
  BY DEF Segment, Push
<1>3. h.kind # "each"
  OBVIOUS
<1>4. one \in Seq(Result) /\ Len(one) <= 1
  BY DEF TypeOK, Result
<1> HIDE DEF h, one
<1>5. Varied(one)
  BY <1>4, VariedFew
<1> QED BY <1>1, <1>2, <1>3, <1>4, <1>5, VariedPushed, VariedBuildEach

LEMMA ReturnArgumentVaried ==
  ASSUME TypeOK, OneContinuationPerType, ReturnArgument
  PROVE  OneContinuationPerType'
<1> DEFINE f == Last(frames)
           below == Front(frames)
           r(j) == [ep |-> results[j].ep,
                    values |-> results[j].values \o f.todo[1].values]
           rs == [j \in 1..Len(results) |-> r(j)]
           done == f.done \o rs
           h(index, todo, rest) == [f EXCEPT !.index = index, !.todo = todo,
                                             !.done = rest]
           none == <<>>
<1>1. Returning("argument") /\ results \in Seq(Result)
  BY DEF ReturnArgument, TypeOK
<1>2. /\ below \in Seq(Frame) /\ VariedStack(below)
      /\ f \in Frame /\ f.kind = "argument"
  BY <1>1, VariedBelow
<1>3. \/ \E index, todo, rest : frames' = Append(below, h(index, todo, rest))
      \/ BuildEach(below, f.node.call, f.ep, f.values, done, none)
  BY Zenon DEF ReturnArgument
<1> HIDE DEF f, below
<1>4. f \in ArgumentFrame
  BY <1>2, FrameType
<1>5. /\ f.todo \in Seq(Result) /\ f.todo # <<>> /\ f.done \in Seq(Result)
      /\ f.node \in Node /\ f.node.kind = "segment"
  BY <1>4 DEF ArgumentFrame
<1>6. f.node.call.kind = "call"
  BY <1>5, NodeAssumption DEF IsNode
<1>7. ASSUME NEW j \in 1..Len(results) PROVE r(j) \in Result
  <2>1. results[j] \in Result /\ f.todo[1] \in Result
    BY <1>1, <1>5
  <2>2. results[j].values \o f.todo[1].values \in Seq(Value)
    BY <2>1 DEF Result
  <2> QED BY <2>1, <2>2 DEF Result
<1> HIDE DEF r
<1>8. done \in Seq(Result)
  <2>1. rs \in Seq(Result)
    BY <1>1, <1>7
  <2> QED BY <1>5, <2>1
<1> HIDE DEF done, none
<1>9. CASE BuildEach(below, f.node.call, f.ep, f.values, done, none)
  BY <1>2, <1>6, <1>8, <1>9, VariedBuildEach
<1>10. ASSUME NEW index, NEW todo, NEW rest,
              frames' = Append(below, h(index, todo, rest))
       PROVE  OneContinuationPerType'
  <2>1. h(index, todo, rest).kind # "each"
    BY <1>2, <1>4 DEF ArgumentFrame
  <2> HIDE DEF h
  <2> QED BY <1>2, <1>10, <2>1, VariedPushed
<1> HIDE DEF h
<1> QED BY <1>3, <1>9, <1>10

LEMMA ReturnEachVaried ==
  ASSUME TypeOK, OneContinuationPerType, ReturnEach
  PROVE  OneContinuationPerType'
<1> DEFINE f == Last(frames)
           below == Front(frames)
           done == f.done \o [j \in 1..Len(results) |->
                                [results[j] EXCEPT !.values = f.prefix \o @]]
<1>1. Returning("each")
  BY DEF ReturnEach
<1>2. /\ below \in Seq(Frame) /\ VariedStack(below)
      /\ f \in Frame /\ f.kind = "each" /\ VariedFrame(f)
  BY <1>1, VariedBelow
<1>3. BuildEach(below, f.node, f.ep, f.prefix, f.todo, done)
  BY DEF ReturnEach
<1> HIDE DEF f, below, done
<1>4. f.todo \in Seq(Result)
  BY <1>2, FrameType
<1>5. f.node.kind = "call" \/ Varied(f.todo)
  BY <1>2 DEF VariedFrame
<1> QED BY <1>2, <1>3, <1>4, <1>5, VariedBuildEach

\* The results of different types differ in the value on top.
LEMMA ReturnJunctionVaried ==
  ASSUME TypeOK, OneContinuationPerType, OneValueEach, address \in Layout,
         ReturnJunction
  PROVE  OneContinuationPerType'
<1> DEFINE f == Last(frames)
           stack == Front(frames)
           rs == results
           group(t) == {i \in Singles(rs) : TypeOf(rs[i]) = t}
           first(t) == CHOOSE i \in group(t) : \A j \in group(t) : i <= j
           several == {t \in TypesOf(rs) : Cardinality(group(t)) > 1}
           joined == {i \in Singles(rs) : TypeOf(rs[i]) \in several}
           bare == {i \in joined : ~ InMemory(rs[first(TypeOf(rs[i]))].values[1])}
           from == [i \in joined |-> rs[i].ep.block]
           others == DOMAIN rs \ Singles(rs)
           junction(t) ==
             Len(graph) + Cardinality({u \in several : address[u] <= address[t]})
           output(t) ==
             [ep |-> IF t \in several THEN WithBlock(f.ep, junction(t))
                     ELSE rs[first(t)].ep,
              values |-> Append(f.values, rs[first(t)].values[1])]
           passed(p) == [j \in 1..Len(p) |-> rs[p[j]]]
           outputs(o) == [j \in 1..Len(o) |-> output(o[j])]
           index == [i \in DOMAIN rs |-> i]
           none == <<>>
<1>1. Returning("junction") /\ rs \in Seq(Result) /\ Len(graph) \in Nat
  BY DEF ReturnJunction, TypeOK
<1>2. \/ frames' = frames
      \/ \E o \in Enumerations(TypesOf(rs), address),
            p \in Enumerations(others, index) :
           BuildEach(stack, f.node, f.ep, none, passed(p) \o outputs(o), none)
  BY Zenon DEF ReturnJunction, Throw
<1>3. /\ stack \in Seq(Frame) /\ VariedStack(stack)
      /\ f \in Frame /\ f.kind = "junction"
  BY <1>1, VariedBelow
<1>4. Singles(rs) = DOMAIN rs \/ Len(rs) <= 1
  BY <1>1 DEF OneValueEach
<1> HIDE DEF f, stack
<1>5. f.ep \in EP /\ f.values \in Seq(Value)
  BY <1>3, FrameType
<1> HIDE DEF rs
<1>6. /\ TypesOf(rs) \subseteq Type /\ IsFiniteSet(TypesOf(rs))
      /\ Singles(rs) \subseteq DOMAIN rs /\ Singles(rs) \subseteq 1..Len(rs)
  BY <1>1, SinglesType
<1>7. \A t \in Type : address[t] \in Nat
  BY DEF TypeOK
<1>8. several \subseteq TypesOf(rs) /\ IsFiniteSet(several)
  <2>1. several \in SUBSET TypesOf(rs)
    BY Zenon
  <2> QED BY <1>6, <2>1, FS_Subset
<1> HIDE DEF several
<1>9. ASSUME NEW t PROVE junction(t) \in Nat
  <2>1. {u \in several : address[u] <= address[t]} \in SUBSET several
    BY Zenon
  <2>2. Cardinality({u \in several : address[u] <= address[t]}) \in Nat
    BY <1>8, <2>1, FS_Subset, FS_CardinalityType
  <2> QED BY <1>1, <2>2
<1> HIDE DEF junction
<1>10. ASSUME NEW t \in TypesOf(rs)
       PROVE  /\ output(t) \in Result
              /\ output(t).values[Len(f.values) + 1].type = t
  <2>1. group(t) # {}
    <3>1. PICK i \in Singles(rs) : t = TypeOf(rs[i])
      BY <1>10 DEF TypesOf
    <3> QED BY <3>1
  <2>2. group(t) \in SUBSET Nat
    BY <1>1, <1>6
  <2>3. \E i \in group(t) : \A j \in group(t) : i <= j
    BY <2>1, <2>2, LeastNumber, Zenon
  <2>4. first(t) \in group(t)
    BY <2>3, Zenon
  <2> HIDE DEF first
  <2>5. first(t) \in Singles(rs) /\ TypeOf(rs[first(t)]) = t
    BY <2>4
  <2>6. rs[first(t)] \in Result /\ rs[first(t)].values[1] \in Value
    BY <1>1, <2>5, SinglesType
  <2>7. rs[first(t)].ep \in EP
    BY <2>6 DEF Result
  <2>8. WithBlock(f.ep, junction(t)) \in EP
    BY <1>5, <1>9, WithBlockType
  <2>9. Append(f.values, rs[first(t)].values[1]) \in Seq(Value)
        /\ Append(f.values, rs[first(t)].values[1])[Len(f.values) + 1]
             = rs[first(t)].values[1]
    BY <1>5, <2>6
  <2>10. rs[first(t)].values[1].type = t
    BY <2>5 DEF TypeOf
  <2> QED BY <2>7, <2>8, <2>9, <2>10 DEF Result
<1> HIDE DEF output
<1>11. CASE frames' = frames
  BY <1>11, VariedSame
<1>12. ASSUME NEW o \in Enumerations(TypesOf(rs), address),
              NEW p \in Enumerations(others, index),
              BuildEach(stack, f.node, f.ep, none, passed(p) \o outputs(o), none)
       PROVE  OneContinuationPerType'
  <2> DEFINE todo == passed(p) \o outputs(o)
  <2>1. o \in Seq(TypesOf(rs))
    BY <1>6, EnumerationType
  <2>2. \A i, j \in 1..Len(o) : o[i] = o[j] => i = j
    <3>1. \A t \in TypesOf(rs) : address[t] \in Nat
      BY <1>6, <1>7
    <3> QED BY <1>6, <3>1, EnumeratedOnce
  <2>3. IsFiniteSet(others) /\ others \subseteq DOMAIN rs
    <3>1. IsFiniteSet(1..Len(rs)) /\ DOMAIN rs = 1..Len(rs)
      BY <1>1, FS_Interval
    <3>2. others \in SUBSET (1..Len(rs))
      BY <3>1
    <3> QED BY <3>1, <3>2, FS_Subset
  <2>4. p \in Seq(others) /\ Len(p) = Cardinality(others)
    <3>1. Cardinality(others) \in Nat
      BY <2>3, FS_CardinalityType
    <3>2. p \in [1..Cardinality(others) -> others]
      BY <1>12, Zenon DEF Enumerations
    <3> HIDE DEF others
    <3> QED BY <3>1, <3>2
  <2>5. Len(o) = Cardinality(TypesOf(rs))
    <3>1. Cardinality(TypesOf(rs)) \in Nat
      BY <1>6, FS_CardinalityType
    <3>2. o \in [1..Cardinality(TypesOf(rs)) -> TypesOf(rs)]
      BY <1>12, Zenon DEF Enumerations
    <3> QED BY <3>1, <3>2
  <2>6. outputs(o) \in Seq(Result) /\ Len(outputs(o)) = Len(o)
        /\ \A j \in 1..Len(o) : outputs(o)[j] = output(o[j])
    <3>1. \A j \in 1..Len(o) : o[j] \in TypesOf(rs)
      BY <2>1
    <3>2. \A j \in 1..Len(o) : output(o[j]) \in Result
      BY <1>10, <3>1
    <3>3. Len(o) \in Nat
      BY <2>1
    <3> QED BY <3>2, <3>3
  <2>7. passed(p) \in Seq(Result) /\ Len(passed(p)) = Len(p)
    <3>1. \A j \in 1..Len(p) : rs[p[j]] \in Result
      BY <1>1, <2>3, <2>4
    <3>2. Len(p) \in Nat
      BY <2>4
    <3> QED BY <3>1, <3>2
  <2>8. \A i, j \in 1..Len(o) : i # j => outputs(o)[i].values # outputs(o)[j].values
    <3> SUFFICES ASSUME NEW i \in 1..Len(o), NEW j \in 1..Len(o), i # j
                 PROVE  outputs(o)[i].values # outputs(o)[j].values
      OBVIOUS
    <3>1. o[i] # o[j] /\ o[i] \in TypesOf(rs) /\ o[j] \in TypesOf(rs)
      BY <2>1, <2>2
    <3>2. output(o[i]).values # output(o[j]).values
      BY <1>10, <3>1
    <3> QED BY <2>6, <3>2
  <2> HIDE DEF outputs, passed
  <2>9. todo \in Seq(Result)
    BY <2>6, <2>7
  <2>10. Varied(todo)
    <3>1. CASE Singles(rs) = DOMAIN rs
      <4>1. others = {}
        BY <3>1
      <4>2. Len(p) = 0
        BY <2>4, <4>1, FS_EmptySet
      <4>3. passed(p) = <<>>
        BY <2>7, <4>2
      <4>4. todo = outputs(o)
        BY <2>6, <4>3
      <4>5. DOMAIN todo = 1..Len(o)
        BY <2>6, <4>4
      <4> QED BY <2>8, <4>4, <4>5 DEF Varied
    <3>2. CASE Len(rs) <= 1 /\ Singles(rs) # DOMAIN rs
      <4>1. DOMAIN rs = {1} /\ Singles(rs) = {}
        <5>1. DOMAIN rs = 1..Len(rs) /\ Len(rs) \in Nat
          BY <1>1
        <5>2. DOMAIN rs \subseteq {1}
          BY <3>2, <5>1
        <5> QED BY <1>6, <3>2, <5>2
      <4>2. TypesOf(rs) = {}
        BY <4>1 DEF TypesOf
      <4>3. others = {1}
        BY <4>1
      <4>4. Len(o) = 0 /\ Len(p) = 1
        <5>1. Cardinality({}) = 0 /\ Cardinality({1}) = 1
          BY FS_EmptySet, FS_Singleton
        <5> QED BY <2>4, <2>5, <4>2, <4>3, <5>1
      <4>5. Len(todo) <= 1
        <5>1. \A s, u \in Seq(Result) : Len(s \o u) = Len(s) + Len(u)
          OBVIOUS
        <5>2. Len(todo) = Len(passed(p)) + Len(outputs(o))
          BY <2>6, <2>7, <5>1
        <5>3. Len(outputs(o)) = 0
          BY <2>6, <4>4, Zenon
        <5>4. Len(passed(p)) = 1
          BY <2>7, <4>4, Zenon
        <5> HIDE DEF todo
        <5> QED BY <5>2, <5>3, <5>4
      <4> QED BY <2>9, <4>5, VariedFew
    <3> QED BY <1>4, <3>1, <3>2
  <2> HIDE DEF todo
  <2>11. BuildEach(stack, f.node, f.ep, none, todo, none)
    BY <1>12 DEF todo
  <2> HIDE DEF none
  <2> QED BY <1>3, <2>9, <2>10, <2>11, VariedBuildEach
<1> HIDE DEF passed, outputs, others, index, none
<1> QED BY <1>2, <1>11, <1>12

LEMMA PrepareVaried ==
  ASSUME TypeOK, OneContinuationPerType, OneValueEach, address \in Layout,
         Prepare
  PROVE  OneContinuationPerType'
BY ProxyVaried, SegmentVaried, ReturnArgumentVaried, ReturnEachVaried,
   ReturnJunctionVaried DEF Prepare

LEMMA StepVaried ==
  ASSUME TypeOK, OneContinuationPerType, OneValueEach, address \in Layout,
         [Next]_vars
  PROVE  OneContinuationPerType'
<1>1. CASE Finish \/ Overflow \/ Stop \/ UNCHANGED vars
  <2>1. frames' = frames
    BY <1>1 DEF Finish, Overflow, Throw, Stop, vars
  <2> QED BY <2>1, VariedSame
<1> QED BY <1>1, ProduceVaried, LeaveVaried, BranchVaried, PrepareVaried,
           InvokeVaried DEF Next, Step

\* JunctionNode: what follows a call is generated once per type of value the
\* callee returns, however many branches return it, wherever callees return one
\* value on every path or have one path only.
THEOREM ContinuationsCorrect ==
  Spec /\ []OneValueEach => []OneContinuationPerType
<1>1. Init => OneContinuationPerType
  BY DEF Init, OneContinuationPerType
<1>2. /\ TypeOK /\ EndsInv /\ OneValueEach /\ OneContinuationPerType
      /\ [Next]_vars
      => OneContinuationPerType'
  BY StepVaried DEF EndsInv
<1> QED BY <1>1, <1>2, EndsInvariant, PTL DEF Spec

-----------------------------------------------------------------------------
(* The flow graph is that of FlowGraph.                                    *)

Open(g) == {b \in DOMAIN g : g[b].last = "open"}

\* Two graphs that FlowGraph does not tell apart.
Alike(g, h) ==
  /\ Len(h) = Len(g)
  /\ Open(h) = Open(g) /\ Edges(h) = Edges(g)
  /\ Heads(h) = Heads(g) /\ Exits(h) = Exits(g)

LEMMA EdgesAre ==
  ASSUME NEW g, NEW e
  PROVE  e \in Edges(g) <=> \E b \in DOMAIN g : \E t \in g[b].targets : e = <<b, t>>
<1>1. ASSUME e \in Edges(g)
      PROVE  \E b \in DOMAIN g : \E t \in g[b].targets : e = <<b, t>>
  <2>1. PICK b \in DOMAIN g : e \in {b} \X g[b].targets
    BY <1>1, Zenon DEF Edges
  <2>2. \E t \in g[b].targets : e = <<b, t>>
    BY <2>1
  <2> QED BY <2>2
<1>2. ASSUME NEW b \in DOMAIN g, NEW t \in g[b].targets, e = <<b, t>>
      PROVE  e \in Edges(g)
  <2>1. e \in {b} \X g[b].targets
    BY <1>2
  <2> QED BY <2>1, Zenon DEF Edges
<1> QED BY <1>1, <1>2

\* A block is replaced by one that has the branches T in addition, ...
LEMMA ReplacedEdges ==
  ASSUME NEW g, NEW h, DOMAIN h = DOMAIN g, NEW E,
         \A b \in DOMAIN g : \A t :
           t \in h[b].targets <=> t \in g[b].targets \/ <<b, t>> \in E,
         \A e \in E : \E b \in DOMAIN g : \E t : e = <<b, t>>
  PROVE  Edges(h) = Edges(g) \cup E
<1>1. ASSUME NEW e \in Edges(h) PROVE e \in Edges(g) \cup E
  <2>1. PICK b \in DOMAIN h : \E t \in h[b].targets : e = <<b, t>>
    BY EdgesAre
  <2>2. PICK t \in h[b].targets : e = <<b, t>>
    BY <2>1
  <2>3. t \in g[b].targets \/ <<b, t>> \in E
    BY <2>2
  <2> QED BY <2>2, <2>3, EdgesAre
<1>2. ASSUME NEW e \in Edges(g) PROVE e \in Edges(h)
  <2>1. PICK b \in DOMAIN g : \E t \in g[b].targets : e = <<b, t>>
    BY EdgesAre
  <2>2. PICK t \in g[b].targets : e = <<b, t>>
    BY <2>1
  <2>3. t \in h[b].targets
    BY <2>2
  <2> QED BY <2>2, <2>3, EdgesAre
<1>3. ASSUME NEW e \in E PROVE e \in Edges(h)
  <2>1. PICK b \in DOMAIN g : \E t : e = <<b, t>>
    BY Zenon
  <2>2. PICK t : e = <<b, t>>
    BY <2>1
  <2>3. t \in h[b].targets
    BY <2>2
  <2> QED BY <2>2, <2>3, EdgesAre
<1> QED BY <1>1, <1>2, <1>3

LEMMA AlikeBlocks ==
  ASSUME NEW g \in Seq(Block), NEW h, Len(h) = Len(g), DOMAIN h = DOMAIN g,
         \A c \in DOMAIN g : /\ h[c].role = g[c].role /\ h[c].targets = g[c].targets
                             /\ h[c].last = g[c].last
  PROVE  Alike(g, h)
<1>1. Open(h) = Open(g) /\ Heads(h) = Heads(g) /\ Exits(h) = Exits(g)
  BY DEF Open, Heads, Exits
<1> DEFINE none == {}
<1>2. none = {} /\ \A e : e \notin none
  OBVIOUS
<1> HIDE DEF none
<1>3. Edges(h) = Edges(g) \cup none
  <2>1. \A b \in DOMAIN g : \A t :
          t \in h[b].targets <=> t \in g[b].targets \/ <<b, t>> \in none
    BY <1>2
  <2>2. \A e \in none : \E b \in DOMAIN g : \E t : e = <<b, t>>
    BY <1>2, Zenon
  <2> QED BY <2>1, <2>2, ReplacedEdges, Zenon
<1> QED BY <1>1, <1>2, <1>3 DEF Alike

LEMMA InsertBlockAlike ==
  ASSUME NEW g \in Seq(Block), NEW b, NEW h, h = InsertBlock(g, b)
  PROVE  Alike(g, h) /\ DOMAIN h = DOMAIN g
<1> DEFINE r == [g[b] EXCEPT !.inserted = TRUE]
<1>1. h = [g EXCEPT ![b] = r]
  BY DEF InsertBlock
<1>2. ASSUME g[b] \in Block
      PROVE  r.role = g[b].role /\ r.targets = g[b].targets /\ r.last = g[b].last
  BY <1>2 DEF Block
<1> HIDE DEF r
<1>3. /\ Len(h) = Len(g)
      /\ \A c \in DOMAIN g : h[c] = IF c = b THEN r ELSE g[c]
      /\ b \in DOMAIN g => g[b] \in Block
  BY <1>1, ReplacedBlock
<1>4. DOMAIN h = DOMAIN g
  BY <1>1
<1> QED BY <1>2, <1>3, <1>4, AlikeBlocks

LEMMA EmitTypedAlike ==
  ASSUME NEW g \in Seq(Block), NEW b, g[b].last = "open", NEW agree \in BOOLEAN,
         NEW h, h = EmitTyped(g, b, agree)
  PROVE  Alike(g, h) /\ DOMAIN h = DOMAIN g
<1> DEFINE r == [g[b] EXCEPT
                   !.malformed = @ \/ g[b].last # "open" \/ ~agree,
                   !.last = "open"]
<1>1. h = [g EXCEPT ![b] = r]
  BY DEF EmitTyped
<1>2. ASSUME g[b] \in Block
      PROVE  r.role = g[b].role /\ r.targets = g[b].targets /\ r.last = g[b].last
  BY <1>2 DEF Block
<1> HIDE DEF r
<1>3. /\ Len(h) = Len(g)
      /\ \A c \in DOMAIN g : h[c] = IF c = b THEN r ELSE g[c]
      /\ b \in DOMAIN g => g[b] \in Block
  BY <1>1, ReplacedBlock
<1>4. DOMAIN h = DOMAIN g
  BY <1>1
<1> QED BY <1>2, <1>3, <1>4, AlikeBlocks

LEMMA EmitAlike ==
  ASSUME NEW g \in Seq(Block), NEW b, g[b].last = "open", NEW h, h = Emit(g, b)
  PROVE  Alike(g, h) /\ DOMAIN h = DOMAIN g
<1> DEFINE r == [g[b] EXCEPT !.malformed = @ \/ g[b].last # "open", !.last = "open"]
<1>1. h = [g EXCEPT ![b] = r]
  BY DEF Emit
<1>2. ASSUME g[b] \in Block
      PROVE  r.role = g[b].role /\ r.targets = g[b].targets /\ r.last = g[b].last
  BY <1>2 DEF Block
<1> HIDE DEF r
<1>3. /\ Len(h) = Len(g)
      /\ \A c \in DOMAIN g : h[c] = IF c = b THEN r ELSE g[c]
      /\ b \in DOMAIN g => g[b] \in Block
  BY <1>1, ReplacedBlock
<1>4. DOMAIN h = DOMAIN g
  BY <1>1
<1> QED BY <1>2, <1>3, <1>4, AlikeBlocks

\* ... and ends in them.
LEMMA TerminateShows ==
  ASSUME NEW g \in Seq(Block), NEW b, NEW kind, NEW T, NEW agree \in BOOLEAN,
         b \in Open(g), kind # "open", NEW h, h = Terminate(g, b, kind, T, agree)
  PROVE  /\ Len(h) = Len(g) /\ DOMAIN h = DOMAIN g
         /\ Open(h) = Open(g) \ {b} /\ Edges(h) = Edges(g) \cup ({b} \X T)
         /\ Heads(h) = Heads(g)
         /\ kind # "ret" => Exits(h) = Exits(g)
         /\ kind = "ret" => Exits(h) = Exits(g) \cup {b}
<1> DEFINE r == [g[b] EXCEPT
                   !.malformed = @ \/ g[b].last # "open" \/ ~agree,
                   !.last = kind, !.targets = @ \cup T]
<1>1. h = [g EXCEPT ![b] = r]
  BY DEF Terminate
<1>2. b \in DOMAIN g /\ g[b].last = "open"
  BY DEF Open
<1>3. g[b] \in Block
  BY <1>2
<1>4. r.role = g[b].role /\ r.targets = g[b].targets \cup T /\ r.last = kind
  BY <1>3 DEF Block
<1> HIDE DEF r
<1>5. /\ Len(h) = Len(g)
      /\ \A c \in DOMAIN g : h[c] = IF c = b THEN r ELSE g[c]
  BY <1>1, ReplacedBlock
<1>6. DOMAIN h = DOMAIN g
  BY <1>1
<1>7. Open(h) = Open(g) \ {b} /\ Heads(h) = Heads(g)
  BY <1>2, <1>4, <1>5, <1>6 DEF Open, Heads
<1>8. /\ kind # "ret" => Exits(h) = Exits(g)
      /\ kind = "ret" => Exits(h) = Exits(g) \cup {b}
  BY <1>2, <1>4, <1>5, <1>6 DEF Exits
<1> DEFINE E == {b} \X T
<1>9. /\ \A e \in E : \E c \in DOMAIN g : \E t : e = <<c, t>>
      /\ \A c, t : <<c, t>> \in E <=> c = b /\ t \in T
  BY <1>2
<1> HIDE DEF E
<1>10. ASSUME NEW c \in DOMAIN g, NEW t
       PROVE  t \in h[c].targets <=> t \in g[c].targets \/ <<c, t>> \in E
  BY <1>4, <1>5, <1>9
<1>11. Edges(h) = Edges(g) \cup E
  BY <1>6, <1>9, <1>10, ReplacedEdges
<1> QED BY <1>5, <1>6, <1>7, <1>8, <1>11 DEF E

LEMMA LinkBlocksShows ==
  ASSUME NEW g \in Seq(Block), NEW b, b \in Open(g), NEW t, NEW h, h = LinkBlocks(g, b, t)
  PROVE  /\ Len(h) = Len(g) /\ DOMAIN h = DOMAIN g
         /\ Open(h) = Open(g) \ {b} /\ Edges(h) = Edges(g) \cup {<<b, t>>}
         /\ Heads(h) = Heads(g) /\ Exits(h) = Exits(g)
<1> DEFINE yes == TRUE
           br == "br"
           T == {t}
<1>1. h = Terminate(g, b, br, T, yes) /\ yes \in BOOLEAN /\ br # "open" /\ br # "ret"
  BY DEF LinkBlocks
<1>2. {b} \X T = {<<b, t>>}
  OBVIOUS
<1> HIDE DEF yes, br, T
<1>3. /\ Len(h) = Len(g) /\ DOMAIN h = DOMAIN g
      /\ Open(h) = Open(g) \ {b} /\ Edges(h) = Edges(g) \cup ({b} \X T)
      /\ Heads(h) = Heads(g)
      /\ br # "ret" => Exits(h) = Exits(g)
  BY <1>1, TerminateShows
<1> QED BY <1>1, <1>2, <1>3

\* New blocks are open.
LEMMA AddBlocksShows ==
  ASSUME NEW g \in Seq(Block), NEW role, NEW inserted, NEW n \in Nat,
         NEW h, h = AddBlocks(g, role, inserted, n)
  PROVE  /\ Len(h) = Len(g) + n
         /\ Open(h) = Open(g) \cup (Len(g)+1..Len(g)+n) /\ Edges(h) = Edges(g)
         /\ Heads(h) = Heads(g) \cup (IF role = "function" THEN Len(g)+1..Len(g)+n ELSE {})
         /\ Exits(h) = Exits(g)
<1> DEFINE x == NewBlock(role, inserted)
           s == [i \in 1..n |-> x]
           k == g \o s
<1>1. h = k
  BY DEF AddBlocks
<1>2. x.role = role /\ x.last = "open" /\ x.targets = {}
  BY DEF NewBlock
<1> HIDE DEF x
<1>3. s \in Seq({x}) /\ Len(s) = n
  OBVIOUS
<1>4. Len(k) = Len(g) + n /\ \A c \in DOMAIN g : k[c] = g[c]
  BY <1>3
<1>5. ASSUME NEW c \in DOMAIN k \ DOMAIN g PROVE k[c] = x
  <2>1. c - Len(g) \in 1..n /\ c \in Len(g)+1..Len(g)+n
    BY <1>3
  <2>2. k[c] = s[c - Len(g)]
    BY <1>3, <2>1
  <2> QED BY <2>1, <2>2
<1>6. DOMAIN k = DOMAIN g \cup (Len(g)+1..Len(g)+n)
  BY <1>3
<1>7. DOMAIN g \cap (Len(g)+1..Len(g)+n) = {}
  OBVIOUS
<1> HIDE DEF k, s
<1> DEFINE new == Len(g)+1..Len(g)+n
<1>8. /\ DOMAIN h = DOMAIN g \cup new /\ DOMAIN g \cap new = {}
      /\ \A c \in DOMAIN g : h[c] = g[c]
      /\ \A c \in new : h[c] = x
  BY <1>1, <1>4, <1>5, <1>6, <1>7
<1> HIDE DEF new
<1>9. Open(h) = Open(g) \cup new /\ Exits(h) = Exits(g)
  BY <1>2, <1>8 DEF Open, Exits
<1>10. Heads(h) = Heads(g) \cup (IF role = "function" THEN new ELSE {})
  BY <1>2, <1>8 DEF Heads
<1>11. ASSUME NEW e PROVE e \in Edges(h) <=> e \in Edges(g)
  <2>1. \A b \in new : h[b].targets = {}
    BY <1>2, <1>8
  <2>2. \A b \in DOMAIN h : b \in new \/ (b \in DOMAIN g /\ h[b] = g[b])
    BY <1>8
  <2>3. \A b \in DOMAIN g : b \in DOMAIN h /\ h[b] = g[b]
    BY <1>8
  <2> QED BY <2>1, <2>2, <2>3, EdgesAre
<1>12. Edges(h) = Edges(g)
  BY <1>11
<1> QED BY <1>1, <1>4, <1>9, <1>10, <1>12 DEF new

\* Several ends are linked at once.
LEMMA LinkEachShows ==
  ASSUME NEW g \in Seq(Block), NEW I, NEW from, NEW to, NEW insert \in BOOLEAN,
         \A i \in I : from[i] \in Open(g),
         NEW h, h = LinkEach(g, I, from, to, insert)
  PROVE  /\ Len(h) = Len(g)
         /\ Open(h) = Open(g) \ {from[i] : i \in I}
         /\ Edges(h) = Edges(g) \cup {<<from[i], to[i]>> : i \in I}
         /\ Heads(h) = Heads(g) /\ Exits(h) = Exits(g)
<1> DEFINE mine(b) == {i \in I : from[i] = b}
           linked(b) == [g[b] EXCEPT
              !.inserted = @ \/ insert,
              !.malformed = @ \/ g[b].last # "open" \/ Cardinality(mine(b)) > 1,
              !.last = "br",
              !.targets = @ \cup {to[i] : i \in mine(b)}]
           k == [b \in 1..Len(g) |-> IF mine(b) = {} THEN g[b] ELSE linked(b)]
           W == {from[i] : i \in I}
           E == {<<from[i], to[i]>> : i \in I}
<1>1. h = k
  BY Zenon DEF LinkEach
<1>2. Len(k) = Len(g) /\ DOMAIN g = 1..Len(g) /\ DOMAIN k = DOMAIN g
  OBVIOUS
<1>3. ASSUME NEW c \in DOMAIN g
      PROVE  /\ k[c].role = g[c].role
             /\ c \notin W => k[c] = g[c]
             /\ c \in W => /\ k[c].last = "br"
                           /\ k[c].targets = g[c].targets \cup {to[i] : i \in mine(c)}
  <2>1. k[c] = IF mine(c) = {} THEN g[c] ELSE linked(c)
    BY <1>2
  <2> HIDE DEF k
  <2>2. g[c] \in Block
    OBVIOUS
  <2>3. /\ linked(c).role = g[c].role /\ linked(c).last = "br"
        /\ linked(c).targets = g[c].targets \cup {to[i] : i \in mine(c)}
    <3> HIDE DEF mine
    <3> QED BY <2>2 DEF Block
  <2>4. c \notin W <=> mine(c) = {}
    OBVIOUS
  <2> HIDE DEF linked, mine, W
  <2> QED BY <2>1, <2>3, <2>4
<1>4. /\ \A i \in I : from[i] \in W
      /\ \A c : mine(c) = {i \in I : from[i] = c}
      /\ \A c \in W : c \in DOMAIN g /\ g[c].last = "open"
  BY DEF Open
<1>5. /\ \A e \in E : \E i \in I : e = <<from[i], to[i]>>
      /\ \A i \in I : <<from[i], to[i]>> \in E
  OBVIOUS
<1> HIDE DEF k, W, E
<1>6. Open(h) = Open(g) \ W /\ Heads(h) = Heads(g) /\ Exits(h) = Exits(g)
  <2> HIDE DEF mine
  <2> QED BY <1>1, <1>2, <1>3, <1>4 DEF Open, Heads, Exits
<1>7. ASSUME NEW c \in DOMAIN g, NEW t
      PROVE  t \in h[c].targets <=> t \in g[c].targets \/ <<c, t>> \in E
  <2>1. <<c, t>> \in E <=> \E i \in I : from[i] = c /\ to[i] = t
    BY <1>5
  <2>2. CASE c \in W
    <3>1. t \in k[c].targets <=> t \in g[c].targets \/ \E i \in mine(c) : t = to[i]
      BY <1>3, <2>2
    <3> QED BY <1>1, <2>1, <3>1
  <2>3. CASE c \notin W
    BY <1>1, <1>3, <1>4, <2>1, <2>3
  <2> QED BY <2>2, <2>3
<1>8. \A e \in E : \E c \in DOMAIN g : \E t : e = <<c, t>>
  BY <1>4, <1>5
<1>9. Edges(h) = Edges(g) \cup E
  BY <1>1, <1>2, <1>7, <1>8, ReplacedEdges
<1> QED BY <1>1, <1>2, <1>6, <1>9 DEF W, E

-----------------------------------------------------------------------------
(* What FlowGraph sees of a state.                                         *)

Seen == Running => OpenEnds = Open(graph)

\* The ends are the open blocks.
LEMMA EndsAreOpen ==
  ASSUME TypeOK, EndsInv, HeldInv
  PROVE  Seen
<1> SUFFICES ASSUME Running PROVE {x.block : x \in Ends} = Open(graph)
  BY DEF Seen, OpenEnds
<1>1. ASSUME NEW x \in Ends PROVE x.block \in Open(graph)
  BY EndsOwned DEF Open
<1>2. ASSUME NEW b \in Open(graph) PROVE \E x \in Ends : x.block = b
  BY OpenIsEnd DEF Open
<1> HIDE DEF Open
<1> QED BY <1>1, <1>2

FlowStep == [Flow!Next]_(Flow!vars)

\* While the generator runs, FlowGraph sees the graph.
Visible ==
  /\ Running /\ Running'
  /\ OpenEnds = Open(graph) /\ OpenEnds' = Open(graph')
  /\ Outcome = "running" /\ Outcome' = "running"

LEMMA RunningSeen ==
  ASSUME Seen, Seen', Running, Running'
  PROVE  Visible
<1>1. Outcome = "running" /\ Outcome' = "running"
  BY DEF Outcome
<1>2. Open(graph)' = Open(graph')
  BY DEF Open
<1> QED BY <1>1, <1>2 DEF Visible, Seen

\* A step that leaves the graph as it is, for FlowGraph.
LEMMA AlikeShown ==
  ASSUME Visible, Alike(graph, graph')
  PROVE  FlowStep
<1>1. /\ Len(graph)' = Len(graph) /\ OpenEnds' = OpenEnds /\ Edges(graph)' = Edges(graph)
      /\ Heads(graph)' = Heads(graph) /\ Exits(graph)' = Exits(graph)
      /\ Outcome' = Outcome
  BY DEF Visible, Alike, Edges, Heads, Exits
<1> QED BY <1>1 DEF FlowStep, Flow!vars

LEMMA SameShown ==
  ASSUME Visible, UNCHANGED graph
  PROVE  FlowStep
BY AlikeShown DEF Alike

\* An exception.
LEMMA ThrowShown ==
  ASSUME Running, NEW what, Throw(what)
  PROVE  FlowStep
<1>1. pc' = "thrown" /\ graph' = graph
  BY DEF Throw
<1>2. Outcome = "running" /\ Outcome' = "failed" /\ OpenEnds' = {}
  BY <1>1 DEF Outcome, OpenEnds, Running
<1>3. /\ Len(graph)' = Len(graph) /\ Edges(graph)' = Edges(graph)
      /\ Heads(graph)' = Heads(graph) /\ Exits(graph)' = Exits(graph)
  BY <1>1 DEF Edges, Heads, Exits
<1> QED BY <1>2, <1>3 DEF FlowStep, Flow!Next, Flow!Fail

LEMMA SameCardinality == \A S : Flow!Cardinality(S) = Cardinality(S)
BY DEF Flow!Cardinality, Cardinality

\* Some ends are linked to new blocks, none of which is left out.
LEMMA JoinedShown ==
  ASSUME Visible, graph \in Seq(Block), NEW I, IsFiniteSet(I), NEW from, NEW to,
         NEW n \in Nat,
         \A i \in I : from[i] \in Open(graph) /\ to[i] \in Len(graph)+1..Len(graph)+n,
         \A i, j \in I : from[i] = from[j] => i = j,
         \A b \in Len(graph)+1..Len(graph)+n : \E i \in I : to[i] = b,
         NEW insert \in BOOLEAN, NEW role, role # "function", NEW inserted,
         graph' = AddBlocks(LinkEach(graph, I, from, to, insert), role, inserted, n)
  PROVE  FlowStep
<1> DEFINE k == LinkEach(graph, I, from, to, insert)
           new == Len(graph)+1..Len(graph)+n
           closed == {from[i] : i \in I}
           who(e) == CHOOSE i \in I : from[i] = e
           T == [e \in closed |-> to[who(e)]]
           E == {<<from[i], to[i]>> : i \in I}
<1>1. Len(graph) \in Nat /\ new \subseteq Nat
  OBVIOUS
<1>2. /\ k \in Seq(Block) /\ Len(k) = Len(graph)
      /\ Open(k) = Open(graph) \ closed /\ Edges(k) = Edges(graph) \cup E
      /\ Heads(k) = Heads(graph) /\ Exits(k) = Exits(graph)
      /\ graph' = AddBlocks(k, role, inserted, n)
  <2>1. \A i \in I : to[i] \in Nat /\ from[i] \in Open(graph)
    BY <1>1
  <2>2. k \in Seq(Block)
    <3> HIDE DEF new
    <3> QED BY <2>1, LinkEachType
  <2>3. k = LinkEach(graph, I, from, to, insert)
    OBVIOUS
  <2> HIDE DEF k, new, T, who
  <2>4. /\ Len(k) = Len(graph)
        /\ Open(k) = Open(graph) \ {from[i] : i \in I}
        /\ Edges(k) = Edges(graph) \cup {<<from[i], to[i]>> : i \in I}
        /\ Heads(k) = Heads(graph) /\ Exits(k) = Exits(graph)
    BY <2>1, <2>3, LinkEachShows
  <2> QED BY <2>2, <2>3, <2>4
<1> HIDE DEF k
<1>3. /\ Len(graph') = Len(graph) + n
      /\ Open(graph') = (Open(graph) \ closed) \cup new
      /\ Edges(graph') = Edges(graph) \cup E
      /\ Heads(graph') = Heads(graph) /\ Exits(graph') = Exits(graph)
  <2> HIDE DEF closed, E
  <2>1. /\ Len(graph') = Len(k) + n
        /\ Open(graph') = Open(k) \cup (Len(k)+1..Len(k)+n) /\ Edges(graph') = Edges(k)
        /\ Heads(graph') =
             Heads(k) \cup (IF role = "function" THEN Len(k)+1..Len(k)+n ELSE {})
        /\ Exits(graph') = Exits(k)
    BY <1>2, AddBlocksShows
  <2> QED BY <1>2, <2>1
<1>4. \A i \in I : from[i] \in closed /\ to[i] \in new /\ who(from[i]) = i
  <2>1. ASSUME NEW i \in I PROVE who(from[i]) = i
    <3>1. who(from[i]) \in I /\ from[who(from[i])] = from[i]
      OBVIOUS
    <3> HIDE DEF who
    <3> QED BY <3>1
  <2> HIDE DEF who
  <2> QED BY <2>1
<1>5. \A e \in closed : \E i \in I : from[i] = e
  OBVIOUS
<1>6. \A i \in I : T[from[i]] = to[i]
  <2> HIDE DEF closed, who
  <2> QED BY <1>4
<1>7. \A e \in closed : T[e] \in new
  BY <1>4, <1>5, <1>6
<1>8. T \in [closed -> new] /\ DOMAIN T = closed
  <2> HIDE DEF closed, new
  <2> QED BY <1>7
<1>9. \A b \in new : \E e \in closed : T[e] = b
  <2>1. ASSUME NEW b \in new PROVE \E e \in closed : T[e] = b
    <3>1. PICK i \in I : to[i] = b
      OBVIOUS
    <3> HIDE DEF T, closed
    <3> QED BY <1>4, <1>6, <3>1
  <2> QED BY <2>1
<1> HIDE DEF T, who
<1>10. E = {<<e, T[e]>> : e \in closed}
  <2>1. ASSUME NEW x \in E PROVE x \in {<<e, T[e]>> : e \in closed}
    <3>1. PICK i \in I : x = <<from[i], to[i]>>
      OBVIOUS
    <3> QED BY <1>4, <1>6, <3>1
  <2>2. ASSUME NEW e \in closed PROVE <<e, T[e]>> \in E
    <3>1. PICK i \in I : from[i] = e
      BY <1>5
    <3> QED BY <1>6, <3>1
  <2> HIDE DEF E
  <2> QED BY <2>1, <2>2
<1>11. closed \subseteq Open(graph)
  OBVIOUS
<1> HIDE DEF E
<1>12. /\ Len(graph)' = Len(graph) + n
       /\ OpenEnds' = (OpenEnds \ closed) \cup new /\ closed \subseteq OpenEnds
       /\ Edges(graph)' = Edges(graph) \cup {<<e, T[e]>> : e \in closed}
       /\ Heads(graph)' = Heads(graph) /\ Exits(graph)' = Exits(graph)
       /\ Outcome = "running" /\ Outcome' = "running"
  <2>1. Edges(graph)' = Edges(graph') /\ Heads(graph)' = Heads(graph')
        /\ Exits(graph)' = Exits(graph')
    BY DEF Edges, Heads, Exits
  <2> HIDE DEF closed, new
  <2> QED BY <1>3, <1>10, <1>11, <2>1 DEF Visible
<1>13. CASE n = 0
  <2>1. new = {} /\ closed = {}
    BY <1>1, <1>4, <1>13
  <2>2. {<<e, T[e]>> : e \in closed} = {}
    BY <2>1
  <2>3. Alike(graph, graph')
    <3> HIDE DEF closed, new
    <3> QED BY <1>3, <1>10, <1>13, <2>1, <2>2, <1>1 DEF Alike
  <2> QED BY <2>3, AlikeShown
<1>14. CASE n > 0
  <2>1. IsFiniteSet(closed)
    <3> DEFINE F == [i \in I |-> from[i]]
    <3>1. F \in Surjection(I, closed)
      BY DEF Surjection
    <3> HIDE DEF F, closed
    <3> QED BY <3>1, FS_Surjection
  <2>2. T \in Surjection(closed, new)
    <3> HIDE DEF closed, new
    <3> QED BY <1>8, <1>9 DEF Surjection
  <2>3. Cardinality(new) <= Cardinality(closed)
    <3> HIDE DEF closed, new
    <3> QED BY <2>1, <2>2, FS_Surjection
  <2>4. Cardinality(new) = n
    <3>1. /\ Len(graph)+1 \in Int /\ Len(graph)+n \in Int
          /\ ~ (Len(graph)+1 > Len(graph)+n)
          /\ (Len(graph)+n) - (Len(graph)+1) + 1 = n
      BY <1>1, <1>14
    <3> QED BY <3>1, FS_Interval
  <2>5. Cardinality(closed) \in Nat
    BY <2>1, FS_CardinalityType
  <2>6. n \in 1..Flow!Cardinality(closed)
    <3>1. Flow!Cardinality(closed) = Cardinality(closed)
      BY SameCardinality, Zenon
    <3> HIDE DEF closed, new
    <3> QED BY <1>14, <2>3, <2>4, <2>5, <3>1
  <2>7. Flow!Join(closed, n)
    <3> HIDE DEF closed
    <3> QED BY <1>8, <1>9, <1>12, Zenon DEF Flow!Join, Flow!Generating, new
  <2>8. closed \in SUBSET OpenEnds
    BY <1>12, Zenon
  <2> HIDE DEF closed
  <2> QED BY <2>6, <2>7, <2>8 DEF FlowStep, Flow!Next
<1> QED BY <1>13, <1>14

-----------------------------------------------------------------------------
(* The actions.                                                            *)

\* A step that ends in the build of a node or with results.
LEMMA OnShown ==
  ASSUME Seen, Seen', Running, pc' \in {"build", "return"}
  PROVE  /\ Visible
         /\ UNCHANGED graph => FlowStep
         /\ Alike(graph, graph') => FlowStep
<1>1. Visible
  BY RunningSeen DEF Running
<1> QED BY <1>1, SameShown, AlikeShown

LEMMA BuildEachRuns ==
  ASSUME NEW below, NEW n, NEW e, NEW prefix, NEW todo, NEW done,
         BuildEach(below, n, e, prefix, todo, done)
  PROVE  pc' \in {"build", "return"}
BY DEF BuildEach, Build, Return

LEMMA LiteralShown ==
  ASSUME Seen, Seen', Literal \/ StackFrame \/ Local \/ ReturnGlobal PROVE FlowStep
<1>1. CASE Literal
  BY <1>1, OnShown DEF Literal, Entering, Build, Running
<1>2. CASE StackFrame
  BY <1>2, OnShown DEF StackFrame, Entering, Build, Running
<1>3. CASE Local
  <2>1. Running
    BY <1>3 DEF Local, Entering, Running
  <2>2. CASE Underflow
    BY <2>1, <2>2, ThrowShown DEF Underflow
  <2>3. CASE ~Underflow
    BY <1>3, <2>1, <2>3, OnShown DEF Local, Build
  <2> QED BY <2>2, <2>3
<1>4. CASE ReturnGlobal
  <2>1. Running /\ UNCHANGED graph
    BY <1>4 DEF ReturnGlobal, Returning, Running
  <2>2. pc' \in {"build", "return"}
    BY <1>4, BuildEachRuns DEF ReturnGlobal
  <2> QED BY <2>1, <2>2, OnShown
<1> QED BY <1>1, <1>2, <1>3, <1>4

\* A load goes behind what the block has, which is open.
LEMMA EmittedShown ==
  ASSUME TypeOK, EndsInv, Seen, Seen', pc = "build", pc' = "build",
         graph' = Emit(graph, ep.block)
  PROVE  FlowStep
<1>1. graph[ep.block].last = "open" /\ graph \in Seq(Block)
  BY Entered DEF TypeOK
<1>2. Alike(graph, graph')
  BY <1>1, EmitAlike
<1> QED BY <1>2, OnShown DEF Running

LEMMA MemberShown ==
  ASSUME TypeOK, EndsInv, Seen, Seen', Member PROVE FlowStep
<1>1. pc = "build" /\ Running
  BY DEF Member, Entering, Running
<1>2. CASE \E k \in Declared :
             /\ pc' = "build"
             /\ graph' = Emit(graph, ep.block) \/ UNCHANGED graph
  BY <1>1, <1>2, EmittedShown, OnShown
<1>3. CASE pc' = "build" /\ UNCHANGED graph
  BY <1>1, <1>3, OnShown
<1>4. CASE Throw("UndeclaredIdentifierException")
  BY <1>1, <1>4, ThrowShown
<1> QED BY <1>2, <1>3, <1>4 DEF Member, Build

LEMMA BinaryShown ==
  ASSUME TypeOK, EndsInv, Seen, Seen', Binary PROVE FlowStep
<1> DEFINE agree == values[Len(values)].type = values[Len(values) - 1].type
<1>1. pc = "build" /\ Running
  BY DEF Binary, Entering, Running
<1>2. CASE \E what : Throw(what)
  BY <1>1, <1>2, ThrowShown
<1>3. CASE pc' = "build" /\ graph' = EmitTyped(graph, ep.block, agree)
  <2>1. graph[ep.block].last = "open" /\ graph \in Seq(Block)
    BY <1>1, Entered DEF TypeOK
  <2>2. agree \in BOOLEAN
    OBVIOUS
  <2> HIDE DEF agree
  <2>3. Alike(graph, graph')
    BY <1>3, <2>1, <2>2, EmitTypedAlike
  <2> QED BY <1>1, <1>3, <2>3, OnShown
<1> QED BY <1>2, <1>3 DEF Binary, Build, Underflow

LEMMA ReferenceSinkShown ==
  ASSUME TypeOK, EndsInv, Seen, Seen', ReferenceSink PROVE FlowStep
<1>1. pc = "build" /\ Running
  BY DEF ReferenceSink, Entering, Running
<1>2. CASE Underflow
  BY <1>1, <1>2, ThrowShown DEF Underflow
<1>3. CASE pc' = "build" /\ graph' = Emit(graph, ep.block)
  BY <1>1, <1>3, EmittedShown
<1>4. CASE pc' = "build" /\ UNCHANGED graph
  BY <1>1, <1>4, OnShown
<1> QED BY <1>2, <1>3, <1>4 DEF ReferenceSink, Build

LEMMA AlikeThen ==
  ASSUME NEW g, NEW h, NEW k, Alike(g, h), Alike(h, k)
  PROVE  Alike(g, k)
BY DEF Alike

LEMMA ReturnStatementShown ==
  ASSUME TypeOK, EndsInv, Seen, Seen', ReturnStatement PROVE FlowStep
<1> DEFINE g == InsertBlock(graph, ep.block)
<1>1. pc = "build" /\ Running
  BY DEF ReturnStatement, Entering, Running
<1>2. CASE Underflow
  BY <1>1, <1>2, ThrowShown DEF Underflow
<1>3. /\ graph[ep.block].last = "open" /\ graph[ep.block].role # "entry"
      /\ ep.block \in DOMAIN graph /\ graph \in Seq(Block)
  BY <1>1, Entered DEF TypeOK
<1>4. g \in Seq(Block)
  BY <1>3, InsertBlockType
<1>5. Alike(graph, g) /\ Writes(graph, g, {ep.block}, {})
  BY <1>3, InsertBlockAlike, InsertBlockWrites
<1>6. g[ep.block].last = "open"
  BY <1>3, <1>5 DEF Writes
<1> HIDE DEF g
<1>7. CASE pc' = "build" /\ graph' = g
  BY <1>1, <1>5, <1>7, OnShown
<1>8. CASE pc' = "build" /\ graph' = Emit(g, ep.block)
  <2>1. Alike(g, graph')
    BY <1>4, <1>6, <1>8, EmitAlike
  <2>2. Alike(graph, graph')
    BY <1>5, <2>1, AlikeThen
  <2> QED BY <1>1, <1>8, <2>2, OnShown
<1> QED BY <1>2, <1>7, <1>8 DEF ReturnStatement, Build, g

LEMMA ProduceShown ==
  ASSUME TypeOK, EndsInv, Seen, Seen', Produce PROVE FlowStep
BY LiteralShown, MemberShown, BinaryShown, ReferenceSinkShown, ReturnStatementShown
   DEF Produce

\* A block is linked to a new one.
LEMMA NewBlockShows ==
  ASSUME NEW g \in Seq(Block), NEW b, b \in Open(g), NEW role \in Roles,
         NEW inserted \in BOOLEAN, NEW n, n = Len(g) + 1,
         NEW h, h = LinkBlocks(AddBlocks(InsertBlock(g, b), role, inserted, 1), b, n)
  PROVE  /\ h \in Seq(Block) /\ Len(h) = n
         /\ Open(h) = (Open(g) \ {b}) \cup {n} /\ Edges(h) = Edges(g) \cup {<<b, n>>}
         /\ Heads(h) = Heads(g) \cup (IF role = "function" THEN {n} ELSE {})
         /\ Exits(h) = Exits(g)
<1> DEFINE k == InsertBlock(g, b)
           m == AddBlocks(k, role, inserted, 1)
<1>1. /\ k \in Seq(Block) /\ Alike(g, k) /\ n \in Nat /\ Len(g) \in Nat
      /\ h = LinkBlocks(m, b, n) /\ b \in 1..Len(g)
  <2>1. k \in Seq(Block) /\ Alike(g, k)
    BY InsertBlockType, InsertBlockAlike, Zenon
  <2>2. n \in Nat /\ Len(g) \in Nat /\ b \in 1..Len(g)
    BY DEF Open
  <2> QED BY <2>1, <2>2
<1> HIDE DEF k
<1> DEFINE one == 1
<1>2. m = AddBlocks(k, role, inserted, one) /\ one \in Nat /\ one = 1
  OBVIOUS
<1> HIDE DEF m, one
<1>3. m \in Seq(Block)
  BY <1>1, <1>2, AddBlocksType
<1>4. /\ Len(m) = Len(k) + one
      /\ Open(m) = Open(k) \cup (Len(k)+1..Len(k)+one) /\ Edges(m) = Edges(k)
      /\ Heads(m) = Heads(k) \cup (IF role = "function" THEN Len(k)+1..Len(k)+one ELSE {})
      /\ Exits(m) = Exits(k)
  BY <1>1, <1>2, AddBlocksShows
<1>5. Len(k)+1..Len(k)+one = {n} /\ Len(k) + one = n
  BY <1>1, <1>2 DEF Alike
<1>6. /\ Len(m) = n /\ Open(m) = Open(g) \cup {n} /\ Edges(m) = Edges(g)
      /\ Heads(m) = Heads(g) \cup (IF role = "function" THEN {n} ELSE {})
      /\ Exits(m) = Exits(g)
  BY <1>1, <1>4, <1>5 DEF Alike
<1>7. b \in Open(m) /\ b # n
  BY <1>1, <1>6
<1>8. /\ h \in Seq(Block) /\ Len(h) = Len(m)
      /\ Open(h) = Open(m) \ {b} /\ Edges(h) = Edges(m) \cup {<<b, n>>}
      /\ Heads(h) = Heads(m) /\ Exits(h) = Exits(m)
  <2>1. h \in Seq(Block)
    BY <1>1, <1>3, LinkBlocksType
  <2> QED BY <1>1, <1>3, <1>7, <2>1, LinkBlocksShows
<1> QED BY <1>6, <1>7, <1>8

\* While the generator enters a node, its block is open.
LEMMA EnteredShown ==
  ASSUME TypeOK, EndsInv, Seen, pc = "build"
  PROVE  /\ Running /\ OpenEnds = Open(graph) /\ ep.block \in Open(graph)
         /\ ep.block \in OpenEnds /\ graph \in Seq(Block) /\ Len(graph) \in Nat
<1>1. Running
  BY DEF Running
<1>2. ep.block \in Open(graph) /\ graph \in Seq(Block)
  BY Entered DEF Open, TypeOK
<1>3. Len(graph) \in Nat
  BY <1>2
<1> QED BY <1>1, <1>2, <1>3 DEF Seen

LEMMA TerminatorShown ==
  ASSUME Seen, Seen', Terminator PROVE FlowStep
<1>1. Running /\ pc' = "return" /\ UNCHANGED graph
  BY DEF Terminator, Entering, Return, Running
<1> QED BY <1>1, OnShown

LEMMA ExportTerminatorShown ==
  ASSUME TypeOK, EndsInv, Seen, Seen', ExportTerminator PROVE FlowStep
<1> DEFINE b == Len(graph) + 1
           linked == LinkBlocks(AddBlocks(InsertBlock(graph, ep.block),
                                          "entry", TRUE, 1), ep.block, b)
           agree == Last(values).type = unit.returns
<1>1. /\ Running /\ OpenEnds = Open(graph) /\ ep.block \in Open(graph)
      /\ ep.block \in OpenEnds /\ graph \in Seq(Block) /\ Len(graph) \in Nat
  BY EnteredShown DEF ExportTerminator, Entering
<1>2. ASSUME NEW what, Throw(what) PROVE FlowStep
  BY <1>1, <1>2, ThrowShown
<1>3. ASSUME graph' = Terminate(linked, b, "ret", {}, agree), pc' = "return"
      PROVE  FlowStep
  <2> DEFINE yes == TRUE
             none == {}
             role == "entry"
             kind == "ret"
  <2>1. /\ linked = LinkBlocks(AddBlocks(InsertBlock(graph, ep.block), role, yes, 1),
                               ep.block, b)
        /\ role \in Roles /\ role # "function" /\ yes \in BOOLEAN /\ b = Len(graph) + 1
        /\ graph' = Terminate(linked, b, kind, none, agree)
        /\ kind = "ret" /\ kind # "open" /\ {b} \X none = {} /\ agree \in BOOLEAN
    BY <1>3 DEF Roles
  <2> HIDE DEF linked, agree, yes, none, role, b, kind
  <2>2. /\ linked \in Seq(Block) /\ Len(linked) = b
        /\ Open(linked) = (Open(graph) \ {ep.block}) \cup {b}
        /\ Edges(linked) = Edges(graph) \cup {<<ep.block, b>>}
        /\ Heads(linked) = Heads(graph) \cup (IF role = "function" THEN {b} ELSE {})
        /\ Exits(linked) = Exits(graph)
    BY <1>1, <2>1, NewBlockShows
  <2>3. b \in Open(linked) /\ b \notin Open(graph)
    BY <1>1, <2>1, <2>2 DEF Open
  <2>4. /\ Len(graph') = Len(linked)
        /\ Open(graph') = Open(linked) \ {b}
        /\ Edges(graph') = Edges(linked) \cup ({b} \X none)
        /\ Heads(graph') = Heads(linked)
        /\ Exits(graph') = Exits(linked) \cup {b}
    BY <2>1, <2>2, <2>3, TerminateShows
  <2>5. Visible
    BY <1>1, <1>3, OnShown
  <2>6. Open(graph') = Open(graph) \ {ep.block}
    BY <2>2, <2>3, <2>4
  <2>7. /\ Edges(graph)' = Edges(graph') /\ Heads(graph)' = Heads(graph')
        /\ Exits(graph)' = Exits(graph')
    BY DEF Edges, Heads, Exits
  <2>8. Flow!Exit(ep.block)
    BY <1>1, <2>1, <2>2, <2>4, <2>5, <2>6, <2>7 DEF Flow!Exit, Flow!Generating, Visible
  <2> QED BY <1>1, <2>8 DEF FlowStep, Flow!Next
<1> QED BY <1>2, <1>3, Zenon DEF ExportTerminator, Underflow, Return

LEMMA LeaveShown ==
  ASSUME TypeOK, EndsInv, Seen, Seen', Leave PROVE FlowStep
BY TerminatorShown, ExportTerminatorShown DEF Leave

-----------------------------------------------------------------------------
\* The block of a condition gets two successors.
LEMMA BranchShows ==
  ASSUME NEW g \in Seq(Block), NEW b, b \in Open(g),
         NEW true, true = Len(g) + 1, NEW false, false = Len(g) + 2,
         NEW agree \in BOOLEAN,
         NEW h, h = Terminate(
                      AddBlocks(AddBlocks(InsertBlock(g, b),
                                          "true", FALSE, 1), "false", FALSE, 1),
                      b, "cond", {true, false}, agree)
  PROVE  /\ Len(h) = Len(g) + 2 /\ Open(h) = (Open(g) \ {b}) \cup {true, false}
         /\ Edges(h) = Edges(g) \cup {<<b, true>>, <<b, false>>}
         /\ Heads(h) = Heads(g) /\ Exits(h) = Exits(g)
<1> DEFINE no == FALSE
           k == InsertBlock(g, b)
           onTrue == "true"
           onFalse == "false"
           kind == "cond"
           n == 1
           one == AddBlocks(k, onTrue, no, n)
           both == {true, false}
           two == AddBlocks(one, onFalse, no, n)
<1>1. /\ no \in BOOLEAN /\ n \in Nat /\ n = 1 /\ onTrue \in Roles /\ onFalse \in Roles
      /\ onTrue # "function" /\ onFalse # "function" /\ kind # "open" /\ kind # "ret"
      /\ Len(g) \in Nat /\ b \in 1..Len(g)
  BY DEF Roles, Open
<1>2. h = Terminate(two, b, kind, both, agree)
  OBVIOUS
<1> HIDE DEF no, onTrue, onFalse, n, kind
<1>3. k \in Seq(Block) /\ Alike(g, k)
  BY InsertBlockType, InsertBlockAlike, Zenon
<1> HIDE DEF k
<1>4. /\ one \in Seq(Block) /\ Len(one) = Len(k) + n
      /\ Open(one) = Open(k) \cup (Len(k)+1..Len(k)+n) /\ Edges(one) = Edges(k)
      /\ Heads(one) = Heads(k) \cup (IF onTrue = "function" THEN Len(k)+1..Len(k)+n ELSE {})
      /\ Exits(one) = Exits(k)
  <2>1. one \in Seq(Block)
    BY <1>1, <1>3, AddBlocksType
  <2> QED BY <1>1, <1>3, <2>1, AddBlocksShows
<1> HIDE DEF one
<1>5. /\ two \in Seq(Block) /\ Len(two) = Len(one) + n
      /\ Open(two) = Open(one) \cup (Len(one)+1..Len(one)+n) /\ Edges(two) = Edges(one)
      /\ Heads(two) =
           Heads(one) \cup (IF onFalse = "function" THEN Len(one)+1..Len(one)+n ELSE {})
      /\ Exits(two) = Exits(one)
  <2>1. two \in Seq(Block)
    BY <1>1, <1>4, AddBlocksType
  <2> QED BY <1>1, <1>4, <2>1, AddBlocksShows
<1> HIDE DEF two
<1>6. /\ Len(k)+1..Len(k)+n = {true} /\ Len(one)+1..Len(one)+n = {false}
      /\ Len(two) = Len(g) + 2 /\ b # true /\ b # false
  BY <1>1, <1>3, <1>4, <1>5 DEF Alike
<1>7. /\ Open(two) = Open(g) \cup both /\ Edges(two) = Edges(g)
      /\ Heads(two) = Heads(g) /\ Exits(two) = Exits(g)
  BY <1>1, <1>3, <1>4, <1>5, <1>6 DEF Alike
<1>8. b \in Open(two) /\ b \notin both /\ {b} \X both = {<<b, true>>, <<b, false>>}
  BY <1>6, <1>7
<1> HIDE DEF both
<1>9. /\ Len(h) = Len(two)
      /\ Open(h) = Open(two) \ {b} /\ Edges(h) = Edges(two) \cup ({b} \X both)
      /\ Heads(h) = Heads(two) /\ Exits(h) = Exits(two)
  BY <1>1, <1>2, <1>5, <1>8, TerminateShows
<1>10. Open(h) = (Open(g) \ {b}) \cup both
  BY <1>7, <1>8, <1>9
<1> QED BY <1>6, <1>7, <1>8, <1>9, <1>10 DEF both

LEMMA ConditionalShown ==
  ASSUME TypeOK, EndsInv, Seen, Seen', Conditional PROVE FlowStep
<1> DEFINE true == Len(graph) + 1
           false == Len(graph) + 2
           created == AddBlocks(AddBlocks(InsertBlock(graph, ep.block),
                                          "true", FALSE, 1), "false", FALSE, 1)
           agree == Last(values).type = "bool"
<1>1. /\ Running /\ OpenEnds = Open(graph) /\ ep.block \in Open(graph)
      /\ ep.block \in OpenEnds /\ graph \in Seq(Block) /\ Len(graph) \in Nat
  BY EnteredShown DEF Conditional, Entering
<1>2. ASSUME NEW what, Throw(what) PROVE FlowStep
  BY <1>1, <1>2, ThrowShown
<1>3. ASSUME graph' = Terminate(created, ep.block, "cond", {true, false}, agree),
             pc' = "build"
      PROVE  FlowStep
  <2>1. agree \in BOOLEAN
    OBVIOUS
  <2> HIDE DEF agree
  <2>2. /\ Len(graph') = Len(graph) + 2
        /\ Open(graph') = (Open(graph) \ {ep.block}) \cup {true, false}
        /\ Edges(graph') = Edges(graph) \cup {<<ep.block, true>>, <<ep.block, false>>}
        /\ Heads(graph') = Heads(graph) /\ Exits(graph') = Exits(graph)
    <3>1. /\ true = Len(graph) + 1 /\ false = Len(graph) + 2
          /\ graph' = Terminate(
                       AddBlocks(AddBlocks(InsertBlock(graph, ep.block),
                                           "true", FALSE, 1), "false", FALSE, 1),
                       ep.block, "cond", {true, false}, agree)
      BY <1>3
    <3>2. graph \in Seq(Block) /\ ep.block \in Open(graph)
      BY <1>1
    <3> HIDE DEF true, false, created
    <3> QED BY <2>1, <3>1, <3>2, BranchShows
  <2>3. Visible
    BY <1>1, <1>3, OnShown
  <2>4. /\ Edges(graph)' = Edges(graph') /\ Heads(graph)' = Heads(graph')
        /\ Exits(graph)' = Exits(graph')
    BY DEF Edges, Heads, Exits
  <2>5. Flow!Branch(ep.block)
    BY <1>1, <2>2, <2>3, <2>4 DEF Flow!Branch, Flow!Generating, Visible
  <2> QED BY <1>1, <2>5 DEF FlowStep, Flow!Next
<1> QED BY <1>2, <1>3, Zenon DEF Conditional, Underflow, Build

LEMMA ReturnIfTrueShown ==
  ASSUME Seen, Seen', ReturnIfTrue PROVE FlowStep
<1>1. Running /\ pc' = "build" /\ UNCHANGED graph
  BY DEF ReturnIfTrue, Returning, Build, Running
<1> QED BY <1>1, OnShown

\* What prepares a call leaves the graph as it is.
LEMMA ProxyShown ==
  ASSUME Seen, Seen', ProxyTailPath \/ ProxyRegularCall PROVE FlowStep
<1>1. Running /\ pc' = "build" /\ UNCHANGED graph
  BY DEF ProxyTailPath, ProxyRegularCall, Entering, Build, Running
<1> QED BY <1>1, OnShown

LEMMA SegmentShown ==
  ASSUME Seen, Seen', Segment PROVE FlowStep
<1>1. Running /\ UNCHANGED graph
  BY DEF Segment, Entering, Running
<1>2. pc' \in {"build", "return"}
  BY BuildEachRuns DEF Segment, Build
<1> QED BY <1>1, <1>2, OnShown

LEMMA ReturnEachShown ==
  ASSUME Seen, Seen', ReturnEach PROVE FlowStep
<1>1. Running /\ UNCHANGED graph
  BY DEF ReturnEach, Returning, Running
<1>2. pc' \in {"build", "return"}
  BY BuildEachRuns DEF ReturnEach
<1> QED BY <1>1, <1>2, OnShown

LEMMA ReturnArgumentShown ==
  ASSUME Seen, Seen', ReturnArgument PROVE FlowStep
<1>1. Running /\ UNCHANGED graph
  BY DEF ReturnArgument, Returning, Running
<1>2. pc' \in {"build", "return"}
  BY BuildEachRuns DEF ReturnArgument, Build
<1> QED BY <1>1, <1>2, OnShown

\* A tail call goes back to the block of a running invocation.
LEMMA TailCallShown ==
  ASSUME TypeOK, EndsInv, FlowInv, Seen, Seen', TailCall PROVE FlowStep
<1> DEFINE target == TailCallTarget(ep, node.names, values)
           b == ep.block
           t == target.block
           inserted == InsertBlock(graph, b)
           stored == IF \E i \in DOMAIN values : InMemory(values[i])
                     THEN Emit(inserted, b) ELSE inserted
           none == <<>>
<1>1. pc = "build"
  BY DEF TailCall, Entering
<1>2. \/ Throw("linkBlocks")
      \/ /\ graph' = LinkBlocks(stored, b, t) /\ target # NoEntry
         /\ Return(none)
  BY Zenon DEF TailCall
<1>3. /\ Running /\ OpenEnds = Open(graph) /\ b \in Open(graph)
      /\ b \in OpenEnds /\ graph \in Seq(Block)
  BY <1>1, EnteredShown
<1>4. target # NoEntry => t \in Heads(graph)
  <2>1. ep \in EP /\ Sound(graph, ep)
    BY DEF TypeOK, FlowInv
  <2>2. FunctionEntry(graph, target)
    BY <2>1, TailCallTargetSound
  <2> HIDE DEF target
  <2> QED BY <2>2 DEF FunctionEntry, Heads
<1> HIDE DEF t, b, target
<1>5. inserted \in Seq(Block) /\ Alike(graph, inserted)
  BY <1>3, InsertBlockType, InsertBlockAlike
<1> HIDE DEF inserted
<1>6. stored \in Seq(Block) /\ Alike(graph, stored)
  <2>1. stored = Emit(inserted, b) \/ stored = inserted
    BY Zenon
  <2> HIDE DEF stored
  <2>2. inserted[b].last = "open"
    BY <1>3, <1>5 DEF Alike, Open
  <2>3. CASE stored = Emit(inserted, b)
    <3>1. stored \in Seq(Block)
      BY <1>5, <2>3, EmitType
    <3>2. Alike(inserted, stored)
      BY <1>5, <2>2, <2>3, EmitAlike
    <3> QED BY <1>5, <3>1, <3>2, AlikeThen
  <2> QED BY <1>5, <2>1, <2>3
<1> HIDE DEF stored
<1>7. ASSUME graph' = LinkBlocks(stored, b, t), target # NoEntry, Return(none)
      PROVE  FlowStep
  <2>1. b \in Open(stored)
    BY <1>3, <1>6 DEF Alike
  <2>2. /\ Len(graph') = Len(stored)
        /\ Open(graph') = Open(stored) \ {b} /\ Edges(graph') = Edges(stored) \cup {<<b, t>>}
        /\ Heads(graph') = Heads(stored) /\ Exits(graph') = Exits(stored)
    BY <1>6, <1>7, <2>1, LinkBlocksShows
  <2>3. Visible
    <3>1. pc' = "return"
      BY <1>7 DEF Return
    <3> QED BY <1>3, <3>1, OnShown
  <2>4. /\ Edges(graph)' = Edges(graph') /\ Heads(graph)' = Heads(graph')
        /\ Exits(graph)' = Exits(graph')
    BY DEF Edges, Heads, Exits
  <2>5. Flow!Jump(b, t)
    BY <1>6, <2>2, <2>3, <2>4 DEF Flow!Jump, Flow!Generating, Visible, Alike
  <2>6. t \in Heads(graph)
    BY <1>4, <1>7
  <2> QED BY <1>3, <2>5, <2>6 DEF FlowStep, Flow!Next
<1> QED BY <1>2, <1>3, <1>7, ThrowShown, Zenon

LEMMA CallFailsShown ==
  ASSUME CallFails PROVE FlowStep
<1> DEFINE what == ResolutionError(ep, unit.functions, node.names, values)
<1>1. Throw(what) \/ Throw("linkBlocks")
  BY Zenon DEF CallFails
<1>2. Running
  BY DEF CallFails, NotATailCall, Entering, Running
<1> HIDE DEF what
<1> QED BY <1>1, <1>2, ThrowShown

\* A call: the end goes on in the block of the callee.
LEMMA EnterShown ==
  ASSUME TypeOK, EndsInv, Seen, Seen', pc = "build", pc' \in {"build", "return"},
         Alike(FunctionBlock, graph')
  PROVE  FlowStep
<1> DEFINE no == FALSE
           role == "function"
           c == ep.block
           n == Len(graph) + 1
           h == FunctionBlock
<1>1. /\ Running /\ OpenEnds = Open(graph) /\ c \in Open(graph)
      /\ c \in OpenEnds /\ graph \in Seq(Block)
  BY EnteredShown
<1>2. /\ h = LinkBlocks(AddBlocks(InsertBlock(graph, c), role, no, 1), c, n)
      /\ role \in Roles /\ no \in BOOLEAN /\ role = "function" /\ n = Len(graph) + 1
  BY DEF FunctionBlock, Roles
<1>3. Alike(h, graph')
  OBVIOUS
<1> HIDE DEF no, role, c, n, h
<1>4. /\ Len(h) = n
      /\ Open(h) = (Open(graph) \ {c}) \cup {n} /\ Edges(h) = Edges(graph) \cup {<<c, n>>}
      /\ Heads(h) = Heads(graph) \cup (IF role = "function" THEN {n} ELSE {})
      /\ Exits(h) = Exits(graph)
  <2>1. /\ graph \in Seq(Block) /\ c \in Open(graph) /\ role \in Roles
        /\ no \in BOOLEAN /\ n = Len(graph) + 1
        /\ h = LinkBlocks(AddBlocks(InsertBlock(graph, c), role, no, 1), c, n)
    BY <1>1, <1>2
  <2> QED BY <2>1, NewBlockShows, SMTT(40)
<1>5. Visible
  BY <1>1, OnShown
<1>6. /\ Edges(graph)' = Edges(graph') /\ Heads(graph)' = Heads(graph')
      /\ Exits(graph)' = Exits(graph')
  BY DEF Edges, Heads, Exits
<1>7. Flow!Enter(c)
  BY <1>2, <1>3, <1>4, <1>5, <1>6 DEF Flow!Enter, Flow!Generating, Visible, Alike
<1> QED BY <1>1, <1>7 DEF FlowStep, Flow!Next

LEMMA CallFunctionShown ==
  ASSUME TypeOK, EndsInv, Seen, Seen', CallFunction PROVE FlowStep
<1>1. pc = "build" /\ graph' = FunctionBlock /\ pc' = "build"
  BY DEF CallFunction, NotATailCall, Entering, Build
<1>2. Alike(FunctionBlock, graph')
  BY <1>1 DEF Alike
<1> QED BY <1>1, <1>2, EnterShown

LEMMA CallImportShown ==
  ASSUME TypeOK, EndsInv, Seen, Seen', CallImport PROVE FlowStep
<1> DEFINE b == Len(graph) + 1
           fits(f) == \A i \in DOMAIN f.params :
                        /\ ArgumentScore(f, values, i) = 0
                        /\ values[Len(values) + 1 - i].rep = "reference"
           g == FunctionBlock
<1>1. PICK f \in FindFunction(ep, unit.functions, node.names, values) :
        graph' = EmitTyped(g, b, fits(f)) /\ pc' = "return"
  BY Zenon DEF CallImport, Return
<1>2. fits(f) \in BOOLEAN
  BY Zenon
<1> HIDE DEF fits
<1>3. pc = "build"
  BY DEF CallImport, NotATailCall, Entering
<1>4. g \in Seq(Block) /\ g[b].last = "open"
  BY <1>3, FunctionBlockEnds DEF Ready
<1>5. Alike(g, graph')
  <2> HIDE DEF b, g
  <2> QED BY <1>1, <1>2, <1>4, EmitTypedAlike
<1> QED BY <1>1, <1>3, <1>5, EnterShown

LEMMA ReturnFunctionShown ==
  ASSUME TypeOK, EndsInv, Seen, Seen', ReturnFunction PROVE FlowStep
<1> DEFINE I == DOMAIN results
           n == Len(results)
           from == [i \in I |-> results[i].ep.block]
           to == [i \in I |-> Len(graph) + i]
           yes == TRUE
           no == FALSE
           role == "consumer"
<1>1. Returning("function")
        /\ \/ Throw("linkBlocks")
           \/ /\ graph' = AddBlocks(LinkEach(graph, I, from, to, yes), role, no, n)
              /\ pc' = "return"
  BY Zenon DEF ReturnFunction, Return
<1>2. Ready(graph, Blocks(results)) /\ Distinct(results) /\ results \in Seq(Result)
  BY <1>1, Returned
<1>3. Running
  BY <1>1 DEF Returning, Running
<1>4. /\ I = 1..n /\ n \in Nat /\ Len(graph) \in Nat /\ graph \in Seq(Block)
      /\ yes \in BOOLEAN /\ role # "function"
  BY <1>2 DEF TypeOK
<1>5. IsFiniteSet(I)
  BY <1>4, FS_Interval
<1>6. ASSUME NEW i \in I
      PROVE  /\ from[i] = results[i].ep.block /\ to[i] = Len(graph) + i
             /\ from[i] \in Open(graph) /\ to[i] \in Len(graph)+1..Len(graph)+n
  <2>1. from[i] = results[i].ep.block /\ to[i] = Len(graph) + i
    OBVIOUS
  <2>2. from[i] \in Open(graph)
    BY <1>2, <2>1 DEF Ready, Blocks, Open
  <2>3. to[i] \in Len(graph)+1..Len(graph)+n
    <3> HIDE DEF to
    <3> QED BY <1>4, <2>1
  <2> QED BY <2>1, <2>2, <2>3
<1>7. \A i, j \in I : from[i] = from[j] => i = j
  BY <1>2, <1>6 DEF Distinct
<1>8. ASSUME NEW b \in Len(graph)+1..Len(graph)+n PROVE \E i \in I : to[i] = b
  <2>1. b - Len(graph) \in I /\ b = Len(graph) + (b - Len(graph))
    <3> HIDE DEF n
    <3> QED BY <1>4
  <2> QED BY <1>6, <2>1
<1> HIDE DEF I, n, from, to, yes, no, role
<1>9. ASSUME graph' = AddBlocks(LinkEach(graph, I, from, to, yes), role, no, n),
             pc' = "return"
      PROVE  FlowStep
  <2>1. Visible
    BY <1>3, <1>9, OnShown
  <2> QED BY <1>4, <1>5, <1>6, <1>7, <1>8, <1>9, <2>1, JoinedShown
<1> QED BY <1>1, <1>3, <1>9, ThrowShown, Zenon

LEMMA InvokeShown ==
  ASSUME TypeOK, EndsInv, FlowInv, Seen, Seen', Invoke PROVE FlowStep
BY TailCallShown, CallFailsShown, CallFunctionShown, CallImportShown,
   ReturnFunctionShown DEF Invoke

\* The results of a conditional that are open go on in the block of their type.
LEMMA ReturnIfFalseShown ==
  ASSUME TypeOK, EndsInv, MergesOpenEnds, Seen, Seen', ReturnIfFalse PROVE FlowStep
<1> DEFINE f == Last(frames)
           below == Front(frames)
           rs == f.done \o results
           I == Singles(rs)
           merge(o, i) == Len(graph) +
                            (CHOOSE j \in DOMAIN o : o[j] = TypeOf(rs[i]))
           to(o) == [i \in I |-> merge(o, i)]
           from == [i \in I |-> rs[i].ep.block]
<1>1. Returning("ifFalse") /\ Running
  BY DEF ReturnIfFalse, Returning, Running
<1>2. /\ f \in Frame /\ f.kind = "ifFalse"
      /\ Apart(f) /\ FrameEnds(graph, f, Nested(below, Len(below)))
      /\ results \in Seq(Result) /\ Distinct(results)
      /\ Blocks(results) \cap FrameBlocks(f) = {}
      /\ Over(graph, Blocks(results))
  BY <1>1, Returned
<1>3. f.done \in Seq(Result)
  BY <1>2, FrameType
<1>4. Done(f) = f.done
  BY <1>2 DEF Done
<1>5. FrameBlocks(f) = Blocks(Todo(f)) \cup Blocks(f.done)
  BY <1>4 DEF FrameBlocks
<1>6. rs \in Seq(Result) /\ graph \in Seq(Block) /\ Len(graph) \in Nat
  BY <1>2, <1>3 DEF TypeOK
<1>7. \/ \E i \in Singles(rs) : rs[i].values[1].rep # "scalar"
      \/ \A i \in Singles(rs) : i \in DOMAIN rs => graph[rs[i].ep.block].role # "entry"
  BY <1>1 DEF MergesOpenEnds
<1> HIDE DEF f, below
<1>8. Blocks(rs) = Blocks(f.done) \cup Blocks(results) /\ Distinct(rs)
  <2>1. Distinct(f.done) /\ Blocks(f.done) \cap Blocks(results) = {}
    BY <1>2, <1>4, <1>5 DEF Apart
  <2> QED BY <1>2, <1>3, <2>1, ConcatBlocks
<1>9. Over(graph, Blocks(rs))
  BY <1>2, <1>4, <1>8 DEF FrameEnds, Over
<1> HIDE DEF rs
<1>10. ASSUME pc' = "return", UNCHANGED graph PROVE FlowStep
  BY <1>1, <1>10, OnShown
<1>11. ASSUME ~ \E i \in Singles(rs) : rs[i].values[1].rep # "scalar",
              NEW o \in Enumerations(TypesOf(rs), address),
              graph' = AddBlocks(LinkEach(graph, I, from, to(o), FALSE),
                                 "merge", TRUE, Len(o)),
              pc' = "return"
       PROVE  FlowStep
  <2>1. /\ IsFiniteSet(TypesOf(rs)) /\ TypesOf(rs) \subseteq Type
        /\ I \subseteq DOMAIN rs /\ IsFiniteSet(I)
        /\ \A i \in I : TypeOf(rs[i]) \in TypesOf(rs)
    BY <1>6, SinglesType
  <2>2. /\ o \in Seq(TypesOf(rs))
        /\ \A t \in TypesOf(rs) : \E j \in 1..Len(o) : o[j] = t
    BY <2>1, EnumerationType
  <2>3. \A i, j \in 1..Len(o) : o[i] = o[j] => i = j
    <3>1. \A t \in TypesOf(rs) : address[t] \in Nat
      BY <2>1 DEF TypeOK
    <3> QED BY <2>1, <3>1, EnumeratedOnce
  <2>4. Len(o) \in Nat /\ DOMAIN o = 1..Len(o)
    BY <2>2
  <2>5. ASSUME NEW i \in I, NEW j \in 1..Len(o), o[j] = TypeOf(rs[i])
        PROVE  to(o)[i] = Len(graph) + j
    <3>1. (CHOOSE k \in DOMAIN o : o[k] = TypeOf(rs[i])) = j
      BY <2>3, <2>4, <2>5
    <3> QED BY <3>1
  <2>6. ASSUME NEW i \in I
        PROVE  from[i] \in Open(graph) /\ to(o)[i] \in Len(graph)+1..Len(graph)+Len(o)
    <3>1. from[i] \in Blocks(rs) /\ from[i] = rs[i].ep.block
      BY <2>1 DEF Blocks
    <3>2. graph[from[i]].role # "entry"
      BY <1>7, <1>11, <2>1, <3>1
    <3>3. from[i] \in Open(graph)
      BY <1>9, <3>1, <3>2 DEF Over, Open
    <3>4. PICK j \in 1..Len(o) : o[j] = TypeOf(rs[i])
      BY <2>1, <2>2
    <3>5. to(o)[i] = Len(graph) + j
      BY <2>5, <3>4
    <3> QED BY <1>6, <2>4, <3>3, <3>5
  <2>7. ASSUME NEW j \in 1..Len(o) PROVE \E i \in I : to(o)[i] = Len(graph) + j
    <3>1. o[j] \in TypesOf(rs)
      BY <2>2
    <3>2. PICK i \in I : o[j] = TypeOf(rs[i])
      BY <3>1 DEF TypesOf
    <3> QED BY <2>5, <3>2
  <2>8. \A i, j \in I : from[i] = from[j] => i = j
    BY <1>8, <2>1 DEF Distinct
  <2> DEFINE yes == TRUE
             no == FALSE
             role == "merge"
             n == Len(o)
             T == to(o)
  <2>9. /\ graph' = AddBlocks(LinkEach(graph, I, from, T, no), role, yes, n)
        /\ no \in BOOLEAN /\ role # "function"
    BY <1>11
  <2> HIDE DEF to, from, merge, yes, no, T, I, role
  <2>10. \A b \in Len(graph)+1..Len(graph)+n : \E i \in I : T[i] = b
    <3> SUFFICES ASSUME NEW b \in Len(graph)+1..Len(graph)+n
                 PROVE  \E i \in I : T[i] = b
      OBVIOUS
    <3>1. b - Len(graph) \in 1..Len(o) /\ Len(graph) + (b - Len(graph)) = b
      BY <1>6, <2>4
    <3> QED BY <2>7, <3>1 DEF T
  <2>11. /\ n \in Nat /\ IsFiniteSet(I) /\ graph \in Seq(Block)
         /\ \A i \in I : from[i] \in Open(graph) /\ T[i] \in Len(graph)+1..Len(graph)+n
    BY <1>6, <2>1, <2>4, <2>6 DEF T
  <2>12. Visible
    BY <1>1, <1>11, OnShown
  <2> HIDE DEF n
  <2> QED BY <2>8, <2>9, <2>10, <2>11, <2>12, JoinedShown
<1> QED BY <1>10, <1>11, Zenon
        DEF ReturnIfFalse, Return, rs, f, to, from, I, merge

LEMMA BranchShown ==
  ASSUME TypeOK, EndsInv, MergesOpenEnds, Seen, Seen', Branch PROVE FlowStep
BY ConditionalShown, ReturnIfTrueShown, ReturnIfFalseShown DEF Branch

\* The results of one type go on in the junction of their type.
LEMMA ReturnJunctionShown ==
  ASSUME TypeOK, EndsInv, Seen, Seen', ReturnJunction PROVE FlowStep
<1> DEFINE f == Last(frames)
           stack == Front(frames)
           rs == results
           group(t) == {i \in Singles(rs) : TypeOf(rs[i]) = t}
           first(t) == CHOOSE i \in group(t) : \A j \in group(t) : i <= j
           several == {t \in TypesOf(rs) : Cardinality(group(t)) > 1}
           joined == {i \in Singles(rs) : TypeOf(rs[i]) \in several}
           from == [i \in joined |-> rs[i].ep.block]
           others == DOMAIN rs \ Singles(rs)
           junction(t) ==
             Len(graph) + Cardinality({u \in several : address[u] <= address[t]})
           to == [i \in joined |-> junction(TypeOf(rs[i]))]
           output(t) ==
             [ep |-> IF t \in several THEN WithBlock(f.ep, junction(t))
                     ELSE rs[first(t)].ep,
              values |-> Append(f.values, rs[first(t)].values[1])]
           passed(p) == [j \in 1..Len(p) |-> rs[p[j]]]
           outputs(o) == [j \in 1..Len(o) |-> output(o[j])]
           n == Cardinality(several)
           index == [i \in DOMAIN rs |-> i]
           none == <<>>
<1>1. Returning("junction") /\ Running
  BY DEF ReturnJunction, Returning, Running
<1>2. \/ Throw("linkBlocks")
      \/ \E o \in Enumerations(TypesOf(rs), address),
            p \in Enumerations(others, index) :
           /\ graph' = AddBlocks(LinkEach(graph, joined, from, to, TRUE),
                                 "junction", FALSE, n)
           /\ BuildEach(stack, f.node, f.ep, none,
                        passed(p) \o outputs(o), none)
  BY Zenon DEF ReturnJunction
<1>3. \/ Throw("linkBlocks")
      \/ /\ graph' = AddBlocks(LinkEach(graph, joined, from, to, TRUE),
                               "junction", FALSE, n)
         /\ pc' \in {"build", "return"}
  <2> HIDE DEF stack, f, none, passed, outputs, others, index, joined, from, to, n
  <2> QED BY <1>2, BuildEachRuns, Zenon
<1>4. /\ rs \in Seq(Result) /\ Distinct(rs) /\ address \in Layout
      /\ Ready(graph, Blocks(rs))
  BY <1>1, Returned
<1>5. Len(graph) \in Nat /\ graph \in Seq(Block)
  BY DEF TypeOK
<1> HIDE DEF rs, f, stack
<1>6. /\ TypesOf(rs) \subseteq Type /\ IsFiniteSet(TypesOf(rs))
      /\ Singles(rs) \subseteq DOMAIN rs /\ IsFiniteSet(Singles(rs))
  BY <1>4, SinglesType
<1>7. several \subseteq TypesOf(rs) /\ IsFiniteSet(several)
  <2>1. several \in SUBSET TypesOf(rs)
    BY Zenon
  <2> QED BY <1>6, <2>1, FS_Subset
<1>8. n \in Nat
  BY <1>7, FS_CardinalityType
<1>9. \A t \in Type : address[t] \in Nat
  BY DEF TypeOK
<1>10. /\ \A t \in several : junction(t) \in Len(graph)+1..Len(graph)+n
       /\ \A b \in Len(graph)+1..Len(graph)+n :
            \E t \in several : junction(t) = b
  <2> HIDE DEF several
  <2> DEFINE c(u) == Cardinality({x \in several : address[x] <= address[u]})
  <2>1. \A u \in several : address[u] \in Nat /\ u \in Type
    BY <1>6, <1>7, <1>9
  <2>2. \A t, u \in several : address[t] = address[u] => t = u
    BY <1>4, <2>1, LayoutAssumption, Zenon
  <2>3. \A u \in several : c(u) \in 1..n
    BY <1>7, <2>1, <2>2, RankedOnce
  <2>4. \A m \in 1..n : \E t \in several : c(t) = m
    BY <1>7, <2>1, <2>2, RankedAll
  <2>5. \A u \in several : junction(u) = Len(graph) + c(u)
    OBVIOUS
  <2> HIDE DEF c, n, junction
  <2>6. \A t \in several : junction(t) \in Len(graph)+1..Len(graph)+n
    BY <1>5, <1>8, <2>3, <2>5
  <2>7. ASSUME NEW b \in Len(graph)+1..Len(graph)+n
        PROVE  \E t \in several : junction(t) = b
    <3>1. b - Len(graph) \in 1..n /\ b = Len(graph) + (b - Len(graph))
      BY <1>5, <1>8
    <3>2. PICK t \in several : c(t) = b - Len(graph)
      BY <2>4, <3>1
    <3> QED BY <2>5, <3>1, <3>2
  <2> QED BY <2>6, <2>7
<1>11. \A i \in joined :
         /\ i \in DOMAIN rs /\ from[i] = rs[i].ep.block
         /\ TypeOf(rs[i]) \in several /\ to[i] = junction(TypeOf(rs[i]))
  <2> HIDE DEF several, junction
  <2> QED BY <1>6
\* A type of several results has one.
<1>12. ASSUME NEW t \in several PROVE \E i \in joined : TypeOf(rs[i]) = t
  <2>1. t \in TypesOf(rs)
    BY <1>7, <1>12
  <2>2. PICK i \in Singles(rs) : t = TypeOf(rs[i])
    BY <2>1 DEF TypesOf
  <2> HIDE DEF several
  <2> QED BY <2>2
<1>13. IsFiniteSet(joined)
  <2>1. joined \in SUBSET Singles(rs)
    BY Zenon
  <2> QED BY <1>6, <2>1, FS_Subset
<1> HIDE DEF several, junction, from, to, joined, group, first, n
<1>14. ASSUME graph' = AddBlocks(LinkEach(graph, joined, from, to, TRUE),
                                 "junction", FALSE, n),
              pc' \in {"build", "return"}
       PROVE  FlowStep
  <2> DEFINE yes == TRUE
             no == FALSE
             role == "junction"
  <2>1. /\ graph' = AddBlocks(LinkEach(graph, joined, from, to, yes), role, no, n)
        /\ yes \in BOOLEAN /\ role # "function"
    BY <1>14
  <2> HIDE DEF yes, no, role
  <2>2. \A i \in joined : from[i] \in Open(graph) /\ to[i] \in Len(graph)+1..Len(graph)+n
    BY <1>4, <1>10, <1>11 DEF Ready, Blocks, Open
  <2>3. \A i, j \in joined : from[i] = from[j] => i = j
    BY <1>4, <1>11 DEF Distinct
  <2>4. \A b \in Len(graph)+1..Len(graph)+n : \E i \in joined : to[i] = b
    <3> SUFFICES ASSUME NEW b \in Len(graph)+1..Len(graph)+n
                 PROVE  \E i \in joined : to[i] = b
      OBVIOUS
    <3>1. PICK t \in several : junction(t) = b
      BY <1>10
    <3>2. PICK i \in joined : TypeOf(rs[i]) = t
      BY <1>12
    <3> QED BY <1>11, <3>1, <3>2
  <2>5. Visible
    BY <1>1, <1>14, OnShown
  <2> QED BY <1>5, <1>8, <1>13, <2>1, <2>2, <2>3, <2>4, <2>5, JoinedShown
<1> QED BY <1>1, <1>3, <1>14, ThrowShown, Zenon

LEMMA PrepareShown ==
  ASSUME TypeOK, EndsInv, Seen, Seen', Prepare PROVE FlowStep
BY ProxyShown, SegmentShown, ReturnArgumentShown, ReturnJunctionShown,
   ReturnEachShown DEF Prepare

-----------------------------------------------------------------------------
(* When the module is complete, no end is left.                            *)

\* alloc stays what it is, and to every other block an earlier one branches.
ReachInv ==
  /\ 1 \in DOMAIN graph /\ graph[1].inserted
  /\ graph[1].last = "br" /\ graph[1].role = "alloc"
  /\ \A b \in 2..Len(graph) : \E p \in 1..b-1 : <<p, b>> \in Edges(graph)

\* A branch leads to each block FlowGraph adds, from an earlier one.
LEMMA FlowReaches ==
  ASSUME TypeOK, Seen, FlowStep,
         \A b \in 2..Len(graph) : \E p \in 1..b-1 : <<p, b>> \in Edges(graph)
  PROVE  /\ Len(graph)' >= Len(graph)
         /\ \A b \in 2..Len(graph)' : \E p \in 1..b-1 : <<p, b>> \in Edges(graph)'
<1> DEFINE n == Len(graph)
           m == Len(graph)'
           E == Edges(graph)
           F == Edges(graph)'
<1>1. n \in Nat /\ OpenEnds \in SUBSET (1..n)
  <2>1. graph \in Seq(Block)
    BY DEF TypeOK
  <2>2. Open(graph) \in SUBSET (1..n) /\ n \in Nat
    BY <2>1 DEF Open
  <2>3. OpenEnds = Open(graph) \/ OpenEnds = {}
    BY Zenon DEF Seen, OpenEnds
  <2> HIDE DEF n
  <2> QED BY <2>2, <2>3
<1>2. \A b \in 2..n : \E p \in 1..b-1 : <<p, b>> \in E
  OBVIOUS
\* It is enough that the new blocks are reached from ends.
<1>3. ASSUME NEW k \in Nat, m = n + k, E \subseteq F,
             \A b \in n+1..n+k : \E e \in OpenEnds : <<e, b>> \in F
      PROVE  m >= n /\ \A b \in 2..m : \E p \in 1..b-1 : <<p, b>> \in F
  <2> HIDE DEF n, m, E, F
  <2>1. ASSUME NEW b \in 2..m PROVE \E p \in 1..b-1 : <<p, b>> \in F
    <3>1. CASE b \in 2..n
      BY <1>2, <1>3, <3>1
    <3>2. CASE b \notin 2..n
      <4>1. b \in n+1..n+k
        BY <1>1, <1>3, <3>2
      <4>2. PICK e \in OpenEnds : <<e, b>> \in F
        BY <1>3, <4>1
      <4>3. e \in 1..b-1
        BY <1>1, <4>1
      <4> QED BY <4>2, <4>3
    <3> QED BY <3>1, <3>2
  <2> QED BY <1>1, <1>3, <2>1
<1>4. ASSUME m = n, E \subseteq F
      PROVE  m >= n /\ \A b \in 2..m : \E p \in 1..b-1 : <<p, b>> \in F
  <2> HIDE DEF n, m, E, F
  <2> QED BY <1>1, <1>2, <1>4
<1>5. ASSUME NEW e \in OpenEnds, Flow!Branch(e) \/ Flow!Enter(e) \/ Flow!Exit(e)
      PROVE  m >= n /\ \A b \in 2..m : \E p \in 1..b-1 : <<p, b>> \in F
  <2>1. \E k \in 1..2 : m = n + k /\ E \subseteq F /\ \A b \in n+1..n+k : <<e, b>> \in F
    <3>1. CASE Flow!Branch(e)
      <4>1. m = n + 2 /\ F = E \cup {<<e, n + 1>>, <<e, n + 2>>}
        BY <3>1 DEF Flow!Branch
      <4> HIDE DEF n, m, E, F
      <4> QED BY <1>1, <4>1
    <3>2. CASE Flow!Enter(e) \/ Flow!Exit(e)
      <4>1. m = n + 1 /\ F = E \cup {<<e, n + 1>>}
        BY <3>2 DEF Flow!Enter, Flow!Exit
      <4> HIDE DEF n, m, E, F
      <4> QED BY <1>1, <4>1
    <3> QED BY <1>5, <3>1, <3>2
  <2> HIDE DEF n, m, E, F
  <2>2. PICK k \in 1..2 : m = n + k /\ E \subseteq F /\ \A b \in n+1..n+k : <<e, b>> \in F
    BY <2>1
  <2> QED BY <1>3, <2>2
<1>6. ASSUME NEW e \in OpenEnds, NEW h, Flow!Jump(e, h) PROVE m = n /\ E \subseteq F
  BY <1>6 DEF Flow!Jump
<1>7. ASSUME NEW closed \in SUBSET OpenEnds, NEW k \in 1..Flow!Cardinality(closed),
             Flow!Join(closed, k)
      PROVE  m >= n /\ \A b \in 2..m : \E p \in 1..b-1 : <<p, b>> \in F
  <2>1. k \in Nat
    <3>1. closed \in SUBSET (1..n)
      BY <1>1
    <3>2. IsFiniteSet(1..n)
      BY <1>1, FS_Interval
    <3> HIDE DEF n
    <3>3. IsFiniteSet(closed)
      BY <3>1, <3>2, FS_Subset
    <3>4. Cardinality(closed) \in Nat
      BY <3>3, FS_CardinalityType
    <3>5. Flow!Cardinality(closed) = Cardinality(closed)
      BY SameCardinality, Zenon
    <3> QED BY <3>4, <3>5
  <2>2. m = n + k
    BY <1>7 DEF Flow!Join
  <2>3. PICK to \in [closed -> n + 1 .. n + k] :
          /\ \A b \in n + 1 .. n + k : \E e \in closed : to[e] = b
          /\ F = E \cup {<<e, to[e]>> : e \in closed}
    BY <1>7 DEF Flow!Join
  <2> HIDE DEF n, m, E, F
  <2>4. E \subseteq F /\ \A e \in closed : <<e, to[e]>> \in F
    BY <2>3
  <2>5. ASSUME NEW b \in n+1..n+k PROVE \E e \in OpenEnds : <<e, b>> \in F
    BY <2>3, <2>4
  <2> QED BY <1>3, <2>1, <2>2, <2>4, <2>5
<1>8. ASSUME Flow!Complete \/ Flow!Fail \/ UNCHANGED Flow!vars PROVE m = n /\ E \subseteq F
  BY <1>8 DEF Flow!Complete, Flow!Fail, Flow!vars
<1> HIDE DEF n, m, E, F
<1>9. m >= n /\ \A b \in 2..m : \E p \in 1..b-1 : <<p, b>> \in F
  <2>1. CASE \E e \in OpenEnds : \/ Flow!Branch(e) \/ Flow!Enter(e) \/ Flow!Exit(e)
                               \/ \E h \in Heads(graph) : Flow!Jump(e, h)
    BY <1>4, <1>5, <1>6, <2>1
  <2>2. CASE \E closed \in SUBSET OpenEnds :
               \E k \in 1..Flow!Cardinality(closed) : Flow!Join(closed, k)
    BY <1>7, <2>2
  <2>3. CASE Flow!Complete \/ Flow!Fail \/ UNCHANGED Flow!vars
    BY <1>4, <1>8, <2>3
  <2> QED BY <2>1, <2>2, <2>3 DEF FlowStep, Flow!Next
<1> QED BY <1>9 DEF n, m, E, F

LEMMA StepReach ==
  ASSUME TypeOK, TypeOK', Seen, ReachInv, FlowStep, ClosedKept
  PROVE  ReachInv'
<1>1. /\ Len(graph)' >= Len(graph)
      /\ \A b \in 2..Len(graph)' : \E p \in 1..b-1 : <<p, b>> \in Edges(graph)'
  BY FlowReaches DEF ReachInv
<1>2. graph'[1] = graph[1]
  BY DEF ReachInv, ClosedKept
<1>3. 1 \in DOMAIN graph'
  BY <1>1 DEF ReachInv, TypeOK
<1> QED BY <1>1, <1>2, <1>3 DEF ReachInv

\* What LLVM accepts has no open block: every block was inserted, or it would
\* refuse the earlier one that branches to it.
LEMMA VerifiedIsClosed ==
  ASSUME TypeOK, ReachInv, Verified(graph)
  PROVE  Open(graph) = {}
<1>1. graph \in Seq(Block) /\ Len(graph) \in Nat
  BY DEF TypeOK
<1> DEFINE U == {b \in DOMAIN graph : ~ graph[b].inserted}
<1>2. ASSUME U # {} PROVE FALSE
  <2>1. U \in SUBSET Nat
    BY <1>1
  <2>2. PICK b \in U : \A c \in U : b <= c
    BY <1>2, <2>1, LeastNumber
  <2>3. b \in DOMAIN graph /\ ~ graph[b].inserted
    OBVIOUS
  <2>4. b \in 2..Len(graph)
    BY <1>1, <2>3 DEF ReachInv
  <2>5. PICK p \in 1..b-1 : <<p, b>> \in Edges(graph)
    BY <2>4 DEF ReachInv
  <2>6. p \in DOMAIN graph /\ b \in graph[p].targets
    <3>1. PICK c \in DOMAIN graph : \E t \in graph[c].targets : <<p, b>> = <<c, t>>
      BY <2>5, EdgesAre
    <3> QED BY <3>1
  <2>7. p \notin U
    BY <2>2, <2>4, <2>6
  <2>8. graph[p].inserted
    BY <2>6, <2>7
  <2> HIDE DEF U
  <2> QED BY <2>3, <2>6, <2>8 DEF Verified
<1>3. ASSUME NEW b \in Open(graph) PROVE FALSE
  <2>1. b \in DOMAIN graph /\ graph[b].last = "open" /\ graph[b].inserted
    BY <1>2, <1>3 DEF Open
  <2>2. graph[b].last \in Terminators
    BY <2>1 DEF Verified
  <2> QED BY <2>1, <2>2 DEF Terminators
<1> QED BY <1>3

LEMMA FinishShown ==
  ASSUME TypeOK, ReachInv, Seen, Finish PROVE FlowStep
<1>1. Running /\ graph' = graph
  BY DEF Finish, Running
<1>2. /\ Outcome = "running" /\ Len(graph)' = Len(graph) /\ Edges(graph)' = Edges(graph)
      /\ Heads(graph)' = Heads(graph) /\ Exits(graph)' = Exits(graph)
  BY <1>1 DEF Outcome, Edges, Heads, Exits
<1>3. CASE Verified(graph)
  <2>1. pc' = "built"
    BY <1>3 DEF Finish
  <2>2. Outcome' = "built" /\ OpenEnds' = {}
    BY <2>1 DEF Outcome, OpenEnds, Running
  <2>3. OpenEnds = {}
    BY <1>1, <1>3, VerifiedIsClosed DEF Seen
  <2> QED BY <1>2, <2>2, <2>3 DEF FlowStep, Flow!Next, Flow!Complete
<1>4. CASE ~ Verified(graph)
  <2>1. pc' = "thrown"
    BY <1>4 DEF Finish
  <2>2. Outcome' = "failed" /\ OpenEnds' = {}
    BY <2>1 DEF Outcome, OpenEnds, Running
  <2> QED BY <1>2, <2>2 DEF FlowStep, Flow!Next, Flow!Fail
<1> QED BY <1>3, <1>4

\* After the end nothing happens.
LEMMA StillShown ==
  ASSUME Seen, Seen', Stop \/ UNCHANGED vars PROVE FlowStep
<1>1. UNCHANGED <<pc, node, ep, values, results, frames, graph>>
  BY DEF Stop, vars
<1>2. Running' = Running /\ Outcome' = Outcome /\ Edges(graph)' = Edges(graph)
      /\ Heads(graph)' = Heads(graph) /\ Exits(graph)' = Exits(graph)
      /\ Len(graph)' = Len(graph) /\ Open(graph)' = Open(graph)
  BY <1>1 DEF Running, Outcome, Edges, Heads, Exits, Open
<1>3. OpenEnds' = OpenEnds
  <2>1. CASE Running
    BY <1>2, <2>1 DEF Seen
  <2>2. CASE ~ Running
    BY <1>2, <2>2 DEF OpenEnds
  <2> QED BY <2>1, <2>2
<1> QED BY <1>2, <1>3 DEF FlowStep, Flow!vars

LEMMA StepShown ==
  ASSUME TypeOK, EndsInv, FlowInv, MergesOpenEnds, ReachInv, Seen, Seen', [Next]_vars
  PROVE  FlowStep
<1>1. CASE Step
  <2>1. CASE Overflow
    BY <2>1, ThrowShown DEF Overflow, Running
  <2> QED BY <1>1, <2>1, ProduceShown, LeaveShown, BranchShown, PrepareShown,
             InvokeShown, FinishShown DEF Step
<1> QED BY <1>1, StillShown DEF Next

LEMMA InitShown ==
  ASSUME Init, TypeOK, EndsInv, HeldInv
  PROVE  Flow!Init /\ ReachInv
<1> DEFINE none == <<>>
           yes == TRUE
           no == FALSE
           start == "alloc"
           main == "body"
           n == 1
           alloc == AddBlocks(none, start, yes, n)
           body == AddBlocks(alloc, main, no, n)
<1>1. /\ none \in Seq(Block) /\ start \in Roles /\ main \in Roles
      /\ start # "function" /\ main # "function"
      /\ yes \in BOOLEAN /\ no \in BOOLEAN /\ n \in Nat /\ n = 1
      /\ Len(none) = 0
  BY DEF Roles
<1>2. Open(none) = {} /\ Heads(none) = {} /\ Exits(none) = {} /\ Edges(none) = {}
  BY DEF Open, Heads, Exits, Edges
<1>3. graph = LinkBlocks(body, 1, 2)
  BY DEF Init
<1> HIDE DEF none, yes, no, start, main, n
<1>4. /\ alloc \in Seq(Block) /\ Len(alloc) = Len(none) + n
      /\ Open(alloc) = Open(none) \cup (Len(none)+1..Len(none)+n)
      /\ Edges(alloc) = Edges(none)
      /\ Heads(alloc) =
           Heads(none) \cup (IF start = "function" THEN Len(none)+1..Len(none)+n ELSE {})
      /\ Exits(alloc) = Exits(none)
      /\ \A c \in DOMAIN alloc \ DOMAIN none : alloc[c].role = start /\ alloc[c].inserted = yes
  <2>1. alloc \in Seq(Block)
    BY <1>1, AddBlocksType
  <2>2. alloc = AddBlocks(none, start, yes, n) /\ none \in Seq(Block) /\ n \in Nat
    BY <1>1
  <2> HIDE DEF alloc
  <2> QED BY <2>1, <2>2, AddBlocksShows, AddBlocksFlow
<1> HIDE DEF alloc
<1>5. Len(none)+1..Len(none)+n = {1} /\ Len(alloc)+1..Len(alloc)+n = {2} /\ Len(alloc) = 1
  BY <1>1, <1>4
<1>6. /\ body \in Seq(Block) /\ Len(body) = Len(alloc) + n
      /\ Open(body) = Open(alloc) \cup (Len(alloc)+1..Len(alloc)+n)
      /\ Edges(body) = Edges(alloc)
      /\ Heads(body) =
           Heads(alloc) \cup (IF main = "function" THEN Len(alloc)+1..Len(alloc)+n ELSE {})
      /\ Exits(body) = Exits(alloc)
      /\ \A c \in DOMAIN alloc : body[c] = alloc[c]
  <2>1. body \in Seq(Block)
    BY <1>1, <1>4, AddBlocksType
  <2>2. body = AddBlocks(alloc, main, no, n) /\ n \in Nat
    BY <1>1
  <2> HIDE DEF body
  <2> QED BY <1>4, <2>1, <2>2, AddBlocksShows, AddBlocksFlow
<1> HIDE DEF body
<1>7. /\ Len(body) = 2 /\ Open(body) = {1, 2} /\ Edges(body) = {} /\ Heads(body) = {}
      /\ Exits(body) = {}
  BY <1>1, <1>2, <1>4, <1>5, <1>6
<1>8. 1 \in DOMAIN body /\ body[1].role = "alloc" /\ body[1].inserted
  <2>1. 1 \in DOMAIN alloc \ DOMAIN none
    BY <1>1, <1>4, <1>5
  <2>2. body[1] = alloc[1] /\ alloc[1].role = start /\ alloc[1].inserted = yes
    BY <1>4, <1>6, <2>1
  <2>3. 1 \in DOMAIN body
    BY <1>6, <1>7
  <2> QED BY <2>2, <2>3 DEF start, yes
<1>9. /\ Len(graph) = Len(body) /\ DOMAIN graph = DOMAIN body
      /\ Open(graph) = Open(body) \ {1} /\ Edges(graph) = Edges(body) \cup {<<1, 2>>}
      /\ Heads(graph) = Heads(body) /\ Exits(graph) = Exits(body)
      /\ \A c \in DOMAIN body : /\ graph[c].role = body[c].role
                               /\ graph[c].inserted = body[c].inserted
  <2> DEFINE one == 1
             two == 2
  <2>1. graph = LinkBlocks(body, one, two) /\ one \in Open(body) /\ two \in Nat
    BY <1>3, <1>7
  <2> HIDE DEF one, two
  <2>2. /\ Len(graph) = Len(body) /\ DOMAIN graph = DOMAIN body
        /\ Open(graph) = Open(body) \ {one} /\ Edges(graph) = Edges(body) \cup {<<one, two>>}
        /\ Heads(graph) = Heads(body) /\ Exits(graph) = Exits(body)
    BY <1>6, <2>1, LinkBlocksShows
  <2>3. \A c \in DOMAIN body : /\ graph[c].role = body[c].role
                               /\ graph[c].inserted = body[c].inserted
    BY <1>6, <2>1, LinkBlocksFlow
  <2> QED BY <2>2, <2>3 DEF one, two
<1>10. graph[1].last = "br"
  <2>1. body[1] \in Block
    BY <1>6, <1>8
  <2>2. graph[1] = [body[1] EXCEPT !.malformed = @ \/ body[1].last # "open" \/ ~ TRUE,
                                   !.last = "br", !.targets = @ \cup {2}]
    BY <1>3, <1>8 DEF LinkBlocks, Terminate
  <2> QED BY <2>1, <2>2 DEF Block
<1>11. Len(graph) = 2 /\ Open(graph) = {2} /\ Edges(graph) = {<<1, 2>>}
       /\ Heads(graph) = {} /\ Exits(graph) = {}
  BY <1>7, <1>9
<1>12. ReachInv
  BY <1>8, <1>9, <1>10, <1>11 DEF ReachInv
<1>13. Running /\ Outcome = "running"
  BY DEF Init, Running, Outcome
<1>14. OpenEnds = {2}
  BY <1>11, <1>13, EndsAreOpen DEF Seen
<1> QED BY <1>11, <1>12, <1>13, <1>14 DEF Flow!Init

\* Node::build (nodes/*.cpp): whatever the program, as long as a conditional
\* merges the results that somebody continues, what the code generator does to
\* the function is what FlowGraph promises: every step continues one end, or
\* joins some in blocks none of which is left out, returns, or jumps back to the
\* block of an invocation; and the module is built only when no end is left.
THEOREM FlowGraphCorrect == Spec /\ []MergesOpenEnds => ImplementsFlowGraph
<1>1. Init => /\ TypeOK /\ EndsInv /\ HeldInv
              /\ Flow!Init /\ ReachInv
  BY InitType, InitEnds, InitHeld, InitShown
<1>2. TypeOK /\ EndsInv /\ HeldInv => Seen
  BY EndsAreOpen
<1>3. TypeOK /\ EndsInv /\ FlowInv /\ MergesOpenEnds /\ ReachInv
        /\ Seen /\ Seen' /\ [Next]_vars
        => [Flow!Next]_(Flow!vars)
  BY StepShown DEF FlowStep
<1>4. TypeOK /\ TypeOK' /\ EndsInv /\ FlowInv /\ MergesOpenEnds /\ ReachInv
        /\ Seen /\ Seen' /\ [Next]_vars
        => ReachInv'
  BY StepShown, StepReach, StepEnds DEF EndsStep
<1> QED BY <1>1, <1>2, <1>3, <1>4, HeldInvariant, FlowInvariant, PTL
        DEF Spec, ImplementsFlowGraph, Flow!Spec
=============================================================================
