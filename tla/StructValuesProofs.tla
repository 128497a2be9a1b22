------------------------- MODULE StructValuesProofs -------------------------
(***************************************************************************)
(* Proofs about StructValues and Interop, for every program whose          *)
(* hierarchies are acyclic.                                                *)
(*                                                                         *)
(* No cell is known to two invocations: that is the inductive invariant    *)
(* (StructInv).  A step writes new cells and cells of the running          *)
(* invocation only (MemoryStep), with values of the type they have, and    *)
(* gives the last invocation cells that are new or were those of           *)
(* invocations that end with it (FramesStep); StepKeeps concludes from     *)
(* these two, and every action is shown to be such a step.                 *)
(*                                                                         *)
(* What the compiler computes by recursion - the fields of a structure,    *)
(* the search among the base types, the places of the fields in C - is a   *)
(* recursive function here.  That it is a function on its domain, with     *)
(* values of the type it should have, follows from the fact that a set of  *)
(* numbers has a least one: RankInduction and RecursionExists.             *)
(***************************************************************************)
EXTENDS Interop, FiniteSetTheorems, WellFoundedInduction, TLAPS

-----------------------------------------------------------------------------
(* Induction and recursion along a rank.                                   *)

LEMMA LeastNumber ==
  ASSUME NEW S, S \subseteq Nat, S # {}
  PROVE  \E n \in S : \A m \in S : n <= m
<1> DEFINE R == {ss \in Nat \X Nat : ss[1] < ss[2]}
<1>1. IsWellFoundedOn(R, Nat)
  BY NatLessThanWellFounded DEF OpToRel
<1>2. \E x \in S : \A y \in S : ~ (<<y, x>> \in R)
  <2> HIDE DEF R
  <2> QED BY <1>1, WFMin, Zenon
<1>3. PICK x \in S : \A y \in S : ~ (<<y, x>> \in R)
  BY <1>2
<1>4. ASSUME NEW y \in S PROVE x <= y
  <2>1. <<y, x>> \in Nat \X Nat /\ ~ (<<y, x>> \in R)
    BY <1>3
  <2>2. ~ (y < x)
    BY <2>1
  <2> QED BY <2>2
<1> QED
  BY <1>4

LEMMA InductionOnSet ==
  ASSUME NEW S, 0 \in S, \A n \in Nat : n \in S => n + 1 \in S
  PROVE  Nat \subseteq S
<1> SUFFICES ASSUME Nat \ S # {} PROVE FALSE
  OBVIOUS
<1>1. PICK n \in Nat \ S : \A m \in Nat \ S : n <= m
  BY LeastNumber
<1>2. n # 0 /\ n - 1 \in Nat
  OBVIOUS
<1>3. n - 1 \in S
  BY <1>1, <1>2
<1> QED
  BY <1>2, <1>3

LEMMA AtMost ==
  \A a, b \in Nat : a < b + 1 => a = b \/ a < b
OBVIOUS

\* What holds of a member once it holds of all members of lower rank holds of
\* all.
LEMMA RankInduction ==
  ASSUME NEW D, NEW rank \in [D -> Nat], NEW Good,
         \A p \in D : (\A q \in D : rank[q] < rank[p] => q \in Good) => p \in Good
  PROVE  D \subseteq Good
<1> SUFFICES ASSUME NEW x \in D, x \notin Good PROVE FALSE
  OBVIOUS
<1> DEFINE S == {rank[p] : p \in D \ Good}
<1>1. PICK n \in S : \A m \in S : n <= m
  <2>1. S \subseteq Nat /\ S # {}
    OBVIOUS
  <2> HIDE DEF S
  <2> QED BY <2>1, LeastNumber
<1>2. PICK p \in D \ Good : n = rank[p]
  OBVIOUS
<1>3. ASSUME NEW q \in D, rank[q] < rank[p] PROVE q \in Good
  BY <1>1, <1>2, <1>3
<1> QED
  BY <1>2, <1>3

\* A function on D into T is defined by recursion: each step depends on the
\* results of lower rank only, and no rank is above n.
IsRecursion(D, T, n, rank, step) ==
  /\ n \in Nat /\ rank \in [D -> 0..n]
  /\ T # {} /\ step \in [D -> [[D -> T] -> T]]
  /\ \A p \in D : \A f, h \in [D -> T] :
       (\A q \in D : rank[q] < rank[p] => f[q] = h[q]) => step[p][f] = step[p][h]

LEMMA RecursionExists ==
  ASSUME NEW D, NEW T, NEW n, NEW rank, NEW step, IsRecursion(D, T, n, rank, step)
  PROVE  \E f \in [D -> T] : \A p \in D : f[p] = step[p][f]
<1>0. PICK t \in T : n \in Nat /\ rank \in [D -> 0..n] /\ step \in [D -> [[D -> T] -> T]]
  BY Zenon DEF IsRecursion
<1> DEFINE Partial(m) ==
             \E f \in [D -> T] : \A p \in D : rank[p] < m => f[p] = step[p][f]
           S == {m \in Nat : Partial(m)}
<1>1. 0 \in S
  <2>1. [p \in D |-> t] \in [D -> T]
    OBVIOUS
  <2>2. \A p \in D : ~ (rank[p] < 0)
    BY <1>0
  <2> QED BY <2>1, <2>2
<1>2. ASSUME NEW m \in Nat, m \in S PROVE m + 1 \in S
  <2>1. PICK f \in [D -> T] : \A p \in D : rank[p] < m => f[p] = step[p][f]
    BY <1>2
  <2> DEFINE h == [p \in D |-> IF rank[p] = m THEN step[p][f] ELSE f[p]]
  <2>2. h \in [D -> T]
    BY <1>0
  <2>3. \A p \in D : rank[p] < m => h[p] = f[p]
    OBVIOUS
  <2>4. \A p \in D : rank[p] = m => h[p] = step[p][f]
    OBVIOUS
  <2> HIDE DEF h
  <2>5. ASSUME NEW p \in D, rank[p] < m + 1 PROVE h[p] = step[p][h]
    <3>1. \A q \in D : rank[q] < rank[p] => f[q] = h[q]
      <4>1. rank[p] \in Nat /\ \A q \in D : rank[q] \in Nat
        BY <1>0
      <4> QED BY <2>3, <2>5, <4>1
    <3>2. step[p][f] = step[p][h]
      BY <2>2, <3>1, Zenon DEF IsRecursion
    <3>3. CASE rank[p] = m
      BY <2>4, <3>2, <3>3
    <3>4. CASE rank[p] < m
      BY <2>1, <2>3, <3>2, <3>4
    <3>5. rank[p] = m \/ rank[p] < m
      <4>1. rank[p] \in Nat
        BY <1>0
      <4> QED BY <2>5, <4>1, AtMost, Zenon
    <3> QED BY <3>3, <3>4, <3>5
  <2>6. Partial(m + 1)
    BY <2>2, <2>5
  <2> QED BY <2>6
<1>3. Nat \subseteq S
  <2> HIDE DEF S
  <2> QED BY <1>1, <1>2, InductionOnSet
<1>4. PICK f \in [D -> T] : \A p \in D : rank[p] < n + 1 => f[p] = step[p][f]
  <2>1. n + 1 \in S
    <3> HIDE DEF S
    <3> QED BY <1>0, <1>3
  <2> QED BY <2>1
<1>5. \A p \in D : rank[p] < n + 1
  BY <1>0
<1> QED
  BY <1>4, <1>5

-----------------------------------------------------------------------------
(* Sequences that are put together.                                        *)

LEMMA FlattenType ==
  ASSUME NEW E, NEW seqs \in Seq(Seq(E))
  PROVE  FlattenSeq(seqs) \in Seq(E)
<1>1. CASE Len(seqs) = 0
  <2>1. seqs = <<>>
    BY <1>1
  <2> QED BY <1>1, <2>1 DEF FlattenSeq
<1>2. CASE Len(seqs) # 0
  <2> DEFINE D == 1..Len(seqs)
             T == Seq(E)
             body(f, i) == IF i = 1 THEN seqs[i] ELSE f[i - 1] \o seqs[i]
             rank == [i \in D |-> i]
             step == [i \in D |-> [f \in [D -> T] |-> body(f, i)]]
             F == CHOOSE f : f = [i \in D |-> body(f, i)]
  <2>1. /\ <<>> \in T /\ Len(seqs) \in Nat /\ Len(seqs) \in D
        /\ \A i \in D : seqs[i] \in T /\ (i # 1 => i - 1 \in D)
        /\ \A r, s \in T : r \o s \in T
    BY <1>2
  <2>2. FlattenSeq(seqs) = F[Len(seqs)]
    BY <1>2 DEF FlattenSeq
  <2> HIDE DEF T
  <2>3. rank \in [D -> 0..Len(seqs)] /\ rank \in [D -> Nat]
    BY <2>1
  <2>4. step \in [D -> [[D -> T] -> T]]
    BY <2>1
  <2>5. \A i \in D : \A f \in [D -> T] : step[i][f] = body(f, i)
    OBVIOUS
  <2>6. IsRecursion(D, T, Len(seqs), rank, step)
    <3> SUFFICES ASSUME NEW i \in D, NEW f \in [D -> T], NEW h \in [D -> T],
                        \A j \in D : rank[j] < rank[i] => f[j] = h[j]
                 PROVE  step[i][f] = step[i][h]
      BY <2>1, <2>3, <2>4, Zenon DEF IsRecursion
    <3>1. i # 1 => f[i - 1] = h[i - 1]
      BY <2>1
    <3>2. body(f, i) = body(h, i)
      BY <3>1
    <3> HIDE DEF step, body
    <3> QED BY <2>5, <3>2
  <2>7. PICK f \in [D -> T] : \A i \in D : f[i] = step[i][f]
    <3> HIDE DEF D, rank, step
    <3> QED BY <2>6, RecursionExists
  <2>8. F = [i \in D |-> body(F, i)]
    <3>1. \A i \in D : f[i] = body(f, i)
      BY <2>5, <2>7
    <3> HIDE DEF body, D
    <3>2. f = [i \in D |-> body(f, i)]
      BY <2>7, <3>1
    <3> QED BY <3>2, Zenon
  <2> DEFINE Good == {i \in D : F[i] \in T}
  <2>9. ASSUME NEW i \in D, \A j \in D : rank[j] < rank[i] => j \in Good
        PROVE  i \in Good
    <3> HIDE DEF F
    <3>1. i # 1 => F[i - 1] \in T
      BY <2>1, <2>9
    <3> QED BY <2>1, <2>8, <3>1
  <2>10. D \subseteq Good
    <3> HIDE DEF Good, rank, D
    <3> QED BY <2>3, <2>9, RankInduction
  <2> HIDE DEF F, D
  <2> QED BY <2>1, <2>2, <2>10 DEF T
<1> QED BY <1>1, <1>2

-----------------------------------------------------------------------------
(* The search among the base types.                                        *)

Outcome == [match: BOOLEAN, score: Nat]

LEMMA BetterType ==
  ASSUME NEW r \in Outcome, NEW s \in Outcome, NEW t, t = Better(r, s)
  PROVE  /\ t \in Outcome
         /\ r.match => t.match /\ t.score <= r.score
         /\ s.match => t.match /\ t.score <= s.score
         /\ t.match => (t = r /\ r.match) \/ (t = s /\ s.match)
         /\ ~r.match => t = s
BY DEF Better, Outcome

\* Of the branches that match, the search comes to the nearest.
LEMMA NearestType ==
  ASSUME NEW branches \in Seq(Outcome)
  PROVE  /\ Nearest(branches) \in Outcome
         /\ \A j \in DOMAIN branches : branches[j].match =>
              Nearest(branches).match /\ Nearest(branches).score <= branches[j].score
         /\ Nearest(branches).match => \E j \in DOMAIN branches :
              branches[j].match /\ branches[j].score = Nearest(branches).score
         /\ Len(branches) = 1 => Nearest(branches) = branches[1]
<1> DEFINE D == 0..Len(branches)
           T == Outcome
           none == [match |-> FALSE, score |-> 0]
           body(f, i) == IF i = 0 THEN none ELSE Better(f[i - 1], branches[i])
           rank == [i \in D |-> i]
           step == [i \in D |-> [f \in [D -> T] |-> body(f, i)]]
           F == CHOOSE f : f = [i \in D |-> body(f, i)]
<1>1. /\ none \in T /\ ~none.match /\ Len(branches) \in Nat /\ Len(branches) \in D
      /\ \A i \in D : i # 0 => branches[i] \in T /\ i - 1 \in D
  <2>1. none \in T /\ ~none.match
    BY DEF Outcome
  <2>2. /\ Len(branches) \in Nat /\ Len(branches) \in D
        /\ \A i \in D : i # 0 => branches[i] \in T /\ i - 1 \in D
    OBVIOUS
  <2> QED BY <2>1, <2>2
<1>2. \A r, s \in T : Better(r, s) \in T
  BY BetterType
<1>3. Nearest(branches) = F[Len(branches)]
  BY DEF Nearest
<1> HIDE DEF T, none
<1>4. rank \in [D -> 0..Len(branches)] /\ rank \in [D -> Nat]
  BY <1>1
<1>5. step \in [D -> [[D -> T] -> T]]
  BY <1>1, <1>2
<1>6. \A i \in D : \A f \in [D -> T] : step[i][f] = body(f, i)
  OBVIOUS
<1>7. IsRecursion(D, T, Len(branches), rank, step)
  <2> SUFFICES ASSUME NEW i \in D, NEW f \in [D -> T], NEW h \in [D -> T],
                      \A j \in D : rank[j] < rank[i] => f[j] = h[j]
               PROVE  step[i][f] = step[i][h]
    BY <1>1, <1>4, <1>5, Zenon DEF IsRecursion
  <2>1. i # 0 => f[i - 1] = h[i - 1]
    BY <1>1
  <2>2. body(f, i) = body(h, i)
    BY <2>1
  <2> HIDE DEF step, body
  <2> QED BY <1>6, <2>2
<1>8. PICK f \in [D -> T] : \A i \in D : f[i] = step[i][f]
  <2> HIDE DEF D, rank, step
  <2> QED BY <1>7, RecursionExists
<1>9. F = [i \in D |-> body(F, i)]
  <2>1. \A i \in D : f[i] = body(f, i)
    BY <1>6, <1>8
  <2> HIDE DEF body, D
  <2>2. f = [i \in D |-> body(f, i)]
    BY <1>8, <2>1
  <2> QED BY <2>2, Zenon
<1> DEFINE Good ==
             {i \in D :
               /\ F[i] \in T
               /\ \A j \in 1..i : branches[j].match =>
                    F[i].match /\ F[i].score <= branches[j].score
               /\ F[i].match => \E j \in 1..i :
                    branches[j].match /\ branches[j].score = F[i].score}
<1> HIDE DEF F
<1>10. F[0] = none /\ \A i \in D : i # 0 => F[i] = Better(F[i - 1], branches[i])
  <2>1. 0 \in D
    BY <1>1
  <2> QED BY <1>9, <2>1
<1>11. ASSUME NEW i \in D, \A j \in D : rank[j] < rank[i] => j \in Good
       PROVE  i \in Good
  <2>1. CASE i = 0
    BY <1>1, <1>10, <2>1
  <2>2. CASE i # 0
    <3>1. i - 1 \in D /\ branches[i] \in T /\ rank[i - 1] < rank[i] /\ i \in Nat
      BY <1>1, <2>2
    <3>2. i - 1 \in Good
      BY <1>11, <3>1
    <3>3. F[i - 1] \in T /\ F[i] = Better(F[i - 1], branches[i])
      BY <1>10, <2>2, <3>2
    <3>4. /\ F[i] \in T
          /\ F[i - 1].match => F[i].match /\ F[i].score <= F[i - 1].score
          /\ branches[i].match => F[i].match /\ F[i].score <= branches[i].score
          /\ F[i].match =>
               (F[i] = F[i - 1] /\ F[i - 1].match) \/ (F[i] = branches[i] /\ branches[i].match)
      BY <3>1, <3>3, BetterType DEF T
    <3>5. ASSUME NEW j \in 1..i, branches[j].match
          PROVE  F[i].match /\ F[i].score <= branches[j].score
      <4>1. CASE j = i
        BY <3>4, <3>5, <4>1
      <4>2. CASE j # i
        <5>1. j \in 1..i - 1 /\ branches[j] \in Outcome
          BY <3>1, <4>2
        <5>2. F[i - 1].match /\ F[i - 1].score <= branches[j].score
          BY <3>2, <3>5, <5>1
        <5>3. F[i - 1].score \in Nat /\ F[i].score \in Nat /\ branches[j].score \in Nat
          BY <3>3, <3>4, <5>1 DEF T, Outcome
        <5> QED BY <3>4, <5>2, <5>3
      <4> QED BY <4>1, <4>2
    <3>6. F[i].match => \E j \in 1..i : branches[j].match /\ branches[j].score = F[i].score
      <4>1. i \in 1..i /\ 1..i - 1 \subseteq 1..i
        BY <3>1, <2>2
      <4>2. F[i - 1].match => \E j \in 1..i - 1 :
              branches[j].match /\ branches[j].score = F[i - 1].score
        BY <3>2
      <4> QED BY <3>4, <4>1, <4>2
    <3> QED BY <3>4, <3>5, <3>6
  <2> QED BY <2>1, <2>2
<1>12. D \subseteq Good
  <2> HIDE DEF Good, rank, D
  <2> QED BY <1>4, <1>11, RankInduction
<1>13. Len(branches) \in Good /\ 1..Len(branches) = DOMAIN branches
  BY <1>1, <1>12
<1>14. Len(branches) = 1 => F[1] = branches[1]
  <2>1. Len(branches) = 1 => F[1] = Better(none, branches[1]) /\ branches[1] \in T
    BY <1>1, <1>10
  <2> QED BY <1>1, <2>1, BetterType DEF T
<1> HIDE DEF D
<1> QED BY <1>3, <1>13, <1>14 DEF T

-----------------------------------------------------------------------------
(* What the recursions over the base types return.                         *)

\* A table of declarations in which base types are structures, and none is
\* above itself.
Hierarchy(table, n, height) ==
  /\ n \in Nat /\ height \in [DOMAIN table -> 0..n]
  /\ \A p \in DOMAIN table : table[p] \in Declaration
  /\ \A p \in DOMAIN table : \A i \in DOMAIN table[p].parents :
       /\ Parents(table, p)[i] \in DOMAIN table
       /\ height[Parents(table, p)[i]] < height[p]

Branches(table, found, p) ==
  [i \in DOMAIN table[p].parents |->
    LET up == found[Parents(table, p)[i]] IN [match |-> up.match, score |-> up.score + 1]]

LEMMA SearchType ==
  ASSUME NEW table, NEW n, NEW height, Hierarchy(table, n, height), NEW name
  PROVE  \A p \in DOMAIN table :
           /\ Search(table, name)[p] \in Outcome
           /\ Branches(table, Search(table, name), p) \in Seq(Outcome)
           /\ Search(table, name)[p] =
                IF table[p].tag = name THEN [match |-> TRUE, score |-> 0]
                ELSE Nearest(Branches(table, Search(table, name), p))
<1> DEFINE D == DOMAIN table
           T == Outcome
           found == [match |-> TRUE, score |-> 0]
           branches(f, p) == [i \in DOMAIN table[p].parents |->
                               LET up == f[Parents(table, p)[i]]
                               IN  [match |-> up.match, score |-> up.score + 1]]
           body(f, p) == IF table[p].tag = name THEN found ELSE Nearest(branches(f, p))
           step == [p \in D |-> [f \in [D -> T] |-> body(f, p)]]
           F == CHOOSE f : f = [p \in D |-> body(f, p)]
<1>1. /\ n \in Nat /\ height \in [D -> 0..n] /\ height \in [D -> Nat]
      /\ \A p \in D : \A i \in DOMAIN table[p].parents :
           /\ Parents(table, p)[i] \in D
           /\ height[Parents(table, p)[i]] < height[p]
      /\ \A p \in D : table[p].parents \in Seq(Seq(STRING))
  <2>1. /\ n \in Nat /\ height \in [D -> 0..n]
        /\ \A p \in D : \A i \in DOMAIN table[p].parents :
             /\ Parents(table, p)[i] \in D
             /\ height[Parents(table, p)[i]] < height[p]
    BY Zenon DEF Hierarchy
  <2>2. height \in [D -> Nat]
    BY <2>1
  <2>3. \A p \in D : table[p] \in Declaration
    BY DEF Hierarchy
  <2>4. \A p \in D : table[p].parents \in Seq(Seq(STRING))
    BY <2>3 DEF Declaration
  <2> QED BY <2>1, <2>2, <2>4
<1>2. found \in T
  BY DEF Outcome
<1>3. Search(table, name) = F
  BY DEF Search
<1>4. ASSUME NEW p \in D, NEW f,
             \A i \in DOMAIN table[p].parents : f[Parents(table, p)[i]] \in T
      PROVE  body(f, p) \in T
  <2>1. \A i \in DOMAIN table[p].parents :
          LET up == f[Parents(table, p)[i]]
          IN  [match |-> up.match, score |-> up.score + 1] \in Outcome
    BY <1>4 DEF Outcome
  <2>2. branches(f, p) \in Seq(Outcome)
    <3>1. DOMAIN table[p].parents = 1..Len(table[p].parents) /\ Len(table[p].parents) \in Nat
      BY <1>1
    <3> QED BY <2>1, <3>1
  <2> HIDE DEF branches
  <2> QED BY <1>2, <2>2, NearestType
<1> HIDE DEF T, found
<1>5. step \in [D -> [[D -> T] -> T]]
  <2>1. \A p \in D : \A f \in [D -> T] : body(f, p) \in T
    BY <1>1, <1>4
  <2> HIDE DEF body
  <2> QED BY <2>1
<1>6. \A p \in D : \A f \in [D -> T] : step[p][f] = body(f, p)
  <2> HIDE DEF body
  <2> QED OBVIOUS
<1>7. IsRecursion(D, T, n, height, step)
  <2> SUFFICES ASSUME NEW p \in D, NEW f \in [D -> T], NEW h \in [D -> T],
                      \A q \in D : height[q] < height[p] => f[q] = h[q]
               PROVE  step[p][f] = step[p][h]
    BY <1>1, <1>2, <1>5, Zenon DEF IsRecursion
  <2>1. \A i \in DOMAIN table[p].parents : f[Parents(table, p)[i]] = h[Parents(table, p)[i]]
    BY <1>1
  <2>2. branches(f, p) = branches(h, p)
    BY <2>1
  <2>3. body(f, p) = body(h, p)
    <3> HIDE DEF branches
    <3> QED BY <2>2
  <2> HIDE DEF step, body
  <2> QED BY <1>6, <2>3
<1>8. PICK f \in [D -> T] : \A p \in D : f[p] = step[p][f]
  <2> HIDE DEF D, step
  <2> QED BY <1>7, RecursionExists
<1>9. F = [p \in D |-> body(F, p)]
  <2>1. \A p \in D : f[p] = body(f, p)
    BY <1>6, <1>8
  <2> HIDE DEF body, D
  <2>2. f = [p \in D |-> body(f, p)]
    BY <1>8, <2>1
  <2> QED BY <2>2, Zenon
<1> DEFINE Good == {p \in D : F[p] \in T}
<1>10. ASSUME NEW p \in D, \A q \in D : height[q] < height[p] => q \in Good
       PROVE  p \in Good
  <2> HIDE DEF F
  <2>1. \A i \in DOMAIN table[p].parents : F[Parents(table, p)[i]] \in T
    BY <1>1, <1>10
  <2>2. body(F, p) \in T
    BY <1>4, <2>1
  <2> HIDE DEF body
  <2> QED BY <1>9, <2>2
<1>11. D \subseteq Good
  <2> HIDE DEF Good, D
  <2> QED BY <1>1, <1>10, RankInduction
<1> HIDE DEF F
<1>12. ASSUME NEW p \in D PROVE branches(F, p) \in Seq(Outcome)
  <2>1. \A i \in DOMAIN table[p].parents :
          LET up == F[Parents(table, p)[i]]
          IN  [match |-> up.match, score |-> up.score + 1] \in Outcome
    BY <1>1, <1>11 DEF T, Outcome
  <2>2. DOMAIN table[p].parents = 1..Len(table[p].parents) /\ Len(table[p].parents) \in Nat
    BY <1>1
  <2> QED BY <2>1, <2>2
<1>13. \A p \in D : branches(F, p) = Branches(table, F, p)
  BY DEF Branches
<1>14. \A p \in D : F[p] = IF table[p].tag = name THEN found ELSE Nearest(branches(F, p))
  <2> HIDE DEF branches
  <2> QED BY <1>9
<1> HIDE DEF D, branches
<1> QED BY <1>3, <1>11, <1>12, <1>13, <1>14 DEF T, D, found

LEMMA FieldsType ==
  ASSUME NEW table, NEW n, NEW height, Hierarchy(table, n, height)
  PROVE  \A p \in DOMAIN table : Fields(table)[p] \in Seq(FieldEmbryo)
<1> DEFINE D == DOMAIN table
           T == Seq(FieldEmbryo)
           inherited(f, p) == [i \in DOMAIN table[p].parents |-> f[Parents(table, p)[i]]]
           body(f, p) == table[p].fields \o FlattenSeq(inherited(f, p))
           step == [p \in D |-> [f \in [D -> T] |-> body(f, p)]]
           F == CHOOSE f : f = [p \in D |-> body(f, p)]
<1>1. /\ n \in Nat /\ height \in [D -> 0..n] /\ height \in [D -> Nat]
      /\ \A p \in D : \A i \in DOMAIN table[p].parents :
           /\ Parents(table, p)[i] \in D
           /\ height[Parents(table, p)[i]] < height[p]
      /\ \A p \in D : table[p].parents \in Seq(Seq(STRING)) /\ table[p].fields \in T
  <2>1. /\ n \in Nat /\ height \in [D -> 0..n]
        /\ \A p \in D : \A i \in DOMAIN table[p].parents :
             /\ Parents(table, p)[i] \in D
             /\ height[Parents(table, p)[i]] < height[p]
    BY Zenon DEF Hierarchy
  <2>2. height \in [D -> Nat]
    BY <2>1
  <2>3. \A p \in D : table[p] \in Declaration
    BY DEF Hierarchy
  <2>4. \A p \in D : table[p].parents \in Seq(Seq(STRING)) /\ table[p].fields \in T
    BY <2>3 DEF Declaration
  <2> QED BY <2>1, <2>2, <2>4
<1>2. <<>> \in T
  OBVIOUS
<1>3. Fields(table) = F
  BY DEF Fields
<1>4. ASSUME NEW p \in D, NEW f,
             \A i \in DOMAIN table[p].parents : f[Parents(table, p)[i]] \in T
      PROVE  body(f, p) \in T
  <2>1. inherited(f, p) \in Seq(T)
    <3>1. DOMAIN table[p].parents = 1..Len(table[p].parents) /\ Len(table[p].parents) \in Nat
      BY <1>1
    <3> HIDE DEF T
    <3> QED BY <1>4, <3>1
  <2> HIDE DEF inherited
  <2>2. FlattenSeq(inherited(f, p)) \in T
    BY <2>1, FlattenType
  <2>3. table[p].fields \in T
    BY <1>1
  <2> QED BY <2>2, <2>3
<1> HIDE DEF T
<1>5. step \in [D -> [[D -> T] -> T]]
  <2>1. \A p \in D : \A f \in [D -> T] : body(f, p) \in T
    BY <1>1, <1>4
  <2> HIDE DEF body
  <2> QED BY <2>1
<1>6. \A p \in D : \A f \in [D -> T] : step[p][f] = body(f, p)
  <2> HIDE DEF body
  <2> QED OBVIOUS
<1>7. IsRecursion(D, T, n, height, step)
  <2> SUFFICES ASSUME NEW p \in D, NEW f \in [D -> T], NEW h \in [D -> T],
                      \A q \in D : height[q] < height[p] => f[q] = h[q]
               PROVE  step[p][f] = step[p][h]
    BY <1>1, <1>2, <1>5, Zenon DEF IsRecursion
  <2>1. \A i \in DOMAIN table[p].parents : f[Parents(table, p)[i]] = h[Parents(table, p)[i]]
    BY <1>1
  <2>2. inherited(f, p) = inherited(h, p)
    BY <2>1
  <2>3. body(f, p) = body(h, p)
    <3> HIDE DEF inherited
    <3> QED BY <2>2
  <2> HIDE DEF step, body
  <2> QED BY <1>6, <2>3
<1>8. PICK f \in [D -> T] : \A p \in D : f[p] = step[p][f]
  <2> HIDE DEF D, step
  <2> QED BY <1>7, RecursionExists
<1>9. F = [p \in D |-> body(F, p)]
  <2>1. \A p \in D : f[p] = body(f, p)
    BY <1>6, <1>8
  <2> HIDE DEF body, D
  <2>2. f = [p \in D |-> body(f, p)]
    BY <1>8, <2>1
  <2> QED BY <2>2, Zenon
<1> DEFINE Good == {p \in D : F[p] \in T}
<1>10. ASSUME NEW p \in D, \A q \in D : height[q] < height[p] => q \in Good
       PROVE  p \in Good
  <2> HIDE DEF F
  <2>1. \A i \in DOMAIN table[p].parents : F[Parents(table, p)[i]] \in T
    BY <1>1, <1>10
  <2>2. body(F, p) \in T
    BY <1>4, <2>1
  <2> HIDE DEF body
  <2> QED BY <1>9, <2>2
<1>11. D \subseteq Good
  <2> HIDE DEF Good, D
  <2> QED BY <1>1, <1>10, RankInduction
<1> HIDE DEF F, D
<1> QED BY <1>3, <1>11 DEF T, D

-----------------------------------------------------------------------------
(* The tables of the programs.                                             *)

LEMMA TableHierarchy ==
  ASSUME NEW p \in Program, NEW table, table = TypeTable(Declarations[p])
  PROVE  /\ Cardinality(DOMAIN table) \in Nat
         /\ \E height : Hierarchy(table, Cardinality(DOMAIN table), height)
<1> DEFINE declarations == Declarations[p]
           K == DOMAIN declarations
           name == [i \in K |-> FullName(declarations[i])]
<1>1. /\ declarations \in Seq(Declaration)
      /\ \A q \in DOMAIN table : Range(Parents(table, q)) \subseteq DOMAIN table
      /\ Acyclic(table)
  BY Zenon, ProgramAssumption
<1>2. /\ DOMAIN table = {FullName(declarations[i]) : i \in K}
      /\ \A q \in DOMAIN table :
           table[q] = declarations[Min({i \in K : FullName(declarations[i]) = q})]
  BY DEF TypeTable
<1>3. K = 1..Len(declarations) /\ Len(declarations) \in Nat
  BY <1>1
<1>4. Cardinality(DOMAIN table) \in Nat
  <2>1. IsFiniteSet(K)
    <3>1. IsFiniteSet(1..Len(declarations))
      BY <1>3, FS_Interval
    <3> QED BY <1>3, <3>1
  <2>2. name \in Surjection(K, DOMAIN table)
    BY <1>2 DEF Surjection
  <2> HIDE DEF K, name
  <2>3. IsFiniteSet(DOMAIN table)
    BY <2>1, <2>2, FS_Surjection
  <2> QED BY <2>3, FS_CardinalityType
<1>5. ASSUME NEW q \in DOMAIN table PROVE table[q] \in Declaration
  <2> DEFINE S == {i \in K : FullName(declarations[i]) = q}
  <2>1. S \subseteq Nat /\ S # {} /\ S \subseteq K
    BY <1>2, <1>3
  <2>2. \E i \in S : \A j \in S : i <= j
    <3> HIDE DEF S
    <3> QED BY <2>1, LeastNumber
  <2>3. Min(S) \in S
    <3> HIDE DEF S
    <3> QED BY <2>2 DEF Min
  <2>4. table[q] = declarations[Min(S)]
    BY <1>2
  <2>5. Min(S) \in 1..Len(declarations)
    BY <1>3, <2>1, <2>3
  <2> HIDE DEF S
  <2> QED BY <1>1, <2>4, <2>5
<1>6. PICK height \in [DOMAIN table -> 0..Cardinality(DOMAIN table)] :
        \A q \in DOMAIN table : \A r \in Range(Parents(table, q)) : height[r] < height[q]
  BY <1>1 DEF Acyclic
<1>7. ASSUME NEW q \in DOMAIN table, NEW i \in DOMAIN table[q].parents
      PROVE  /\ Parents(table, q)[i] \in DOMAIN table
             /\ height[Parents(table, q)[i]] < height[q]
  <2>1. Parents(table, q)[i] \in Range(Parents(table, q))
    BY DEF Parents, Range
  <2> QED BY <1>1, <1>6, <2>1
<1>8. Hierarchy(table, Cardinality(DOMAIN table), height)
  BY <1>4, <1>5, <1>6, <1>7 DEF Hierarchy
<1> QED BY <1>4, <1>8

LEMMA CompatibilityType ==
  ASSUME NEW table, NEW n, NEW height, Hierarchy(table, n, height),
         NEW p \in DOMAIN table, NEW type
  PROVE  /\ PrototypeCompatibility(table, p, type) \in Int
         /\ PrototypeCompatibility(table, p, type) # 0
<1> DEFINE found == Search(table, NameOf(table, type))[p]
<1>1. found \in Outcome
  BY SearchType
<1>2. found.score \in Nat
  BY <1>1 DEF Outcome
<1>3. PrototypeCompatibility(table, p, type) =
        IF found.match THEN found.score + 1
        ELSE IF type = <<"any">> THEN found.score + 2
        ELSE -1
  BY DEF PrototypeCompatibility
<1> HIDE DEF found
<1> QED BY <1>2, <1>3

LEMMA ThrownType ==
  \A table, overloads, p :
    ResolutionErrors(table, overloads, p) \subseteq
      {"UnknownTypeException", "AmbiguousFunctionException", "FunctionNotFoundException"}
BY DEF ResolutionErrors

\* The exceptions a lookup may throw, one by one.
LEMMA ThrownIf ==
  ASSUME NEW table, NEW overloads, NEW p
  PROVE  LET known == OfKnownType(table, overloads)
             viable == Viable(table, known, p)
             errors == ResolutionErrors(table, overloads, p)
         IN  /\ "UnknownTypeException" \in errors <=> known # overloads
             /\ "AmbiguousFunctionException" \in errors <=>
                  \E o, q \in viable : o # q /\ Score(table, p, o) = Score(table, p, q)
             /\ "FunctionNotFoundException" \in errors <=> known = overloads /\ viable = {}
BY DEF ResolutionErrors

\* Where a lookup throws nothing, some overload is viable.
LEMMA ResolvedIsViable ==
  ASSUME NEW table, NEW overloads, NEW p, ResolutionErrors(table, overloads, p) = {}
  PROVE  Viable(table, overloads, p) # {}
<1> DEFINE known == OfKnownType(table, overloads)
<1>1. known = overloads
  <2>1. "UnknownTypeException" \notin ResolutionErrors(table, overloads, p)
    OBVIOUS
  <2> QED BY <2>1, ThrownIf
<1>2. "FunctionNotFoundException" \notin ResolutionErrors(table, overloads, p)
  OBVIOUS
<1> QED BY <1>1, <1>2, ThrownIf

LEMMA ResolvedIsOverload ==
  ASSUME NEW table, NEW n, NEW height, Hierarchy(table, n, height),
         NEW p \in DOMAIN table, NEW overloads,
         ResolutionErrors(table, overloads, p) = {}
  PROVE  Resolve(table, overloads, p) \in overloads
<1> DEFINE viable == Viable(table, overloads, p)
           scores == {Score(table, p, o) : o \in viable}
<1>1. viable # {}
  BY ResolvedIsViable
<1>2. \A o \in viable : o \in overloads /\ Score(table, p, o) \in Nat
  <2>1. \A o \in overloads : Score(table, p, o) \in Int
    BY CompatibilityType DEF Score
  <2> QED BY <2>1 DEF Viable
<1> HIDE DEF viable
<1>3. \E m \in scores : \A s \in scores : m <= s
  <2>1. scores \subseteq Nat /\ scores # {}
    BY <1>1, <1>2
  <2> HIDE DEF scores
  <2> QED BY <2>1, LeastNumber
<1>4. \E o \in viable : \A q \in viable : Score(table, p, o) <= Score(table, p, q)
  BY <1>3
<1>5. Resolve(table, overloads, p) \in viable
  BY <1>4, Zenon DEF Resolve, viable
<1> QED BY <1>2, <1>5

-----------------------------------------------------------------------------
(* The tables, as the state has them.                                      *)

LEMMA TablesOfProgram ==
  ASSUME program \in Program
  PROVE  /\ Structs = TypeTable(Declarations[program])
         /\ \A q \in DOMAIN Structs : FieldsOf(q) \in Seq(FieldEmbryo)
         /\ \A v : v.prototype \in DOMAIN Structs =>
              Resolution(v) = ResolutionErrors(Structs, Overloads[program], v.prototype)
<1>1. Structs = TypeTable(Declarations[program])
  BY DEF Structs, TypeTables
<1>2. FieldTables[program] = Fields(TypeTable(Declarations[program]))
  <2>1. FieldTables[program] = Fields(TypeTables[program])
    BY DEF FieldTables
  <2>2. TypeTables[program] = TypeTable(Declarations[program])
    BY DEF TypeTables
  <2> QED BY <2>1, <2>2
<1>3. PICK n, height : Hierarchy(Structs, n, height)
  BY <1>1, TableHierarchy
<1>4. \A q \in DOMAIN Structs : FieldsOf(q) \in Seq(FieldEmbryo)
  BY <1>1, <1>2, <1>3, FieldsType DEF FieldsOf
<1>5. Resolutions[program] =
        [q \in DOMAIN Structs |-> ResolutionErrors(Structs, Overloads[program], q)]
  BY <1>1 DEF Resolutions, TypeTables
<1>6. \A v : v.prototype \in DOMAIN Structs =>
        Resolution(v) = ResolutionErrors(Structs, Overloads[program], v.prototype)
  BY <1>5 DEF Resolution
<1> QED BY <1>1, <1>4, <1>6

LEMMA NamedIsStruct ==
  ASSUME program \in Program, Current.overload \in Overloads[program] \cup {Main},
         NEW written \in Written[program]
  PROVE  TypeNamed(written) \in DOMAIN Structs \cup {UnknownType}
<1>1. TypeNamed(written) =
        ResolveType(TypeTables[program], QualifiedNames(Current.overload.namespaces, written))
  BY DEF TypeNamed, TypesNamed
<1>2. Structs = TypeTable(Declarations[program]) /\ Structs = TypeTables[program]
  BY DEF Structs, TypeTables
<1>3. ResolveType(TypeTable(Declarations[program]),
                  QualifiedNames(Current.overload.namespaces, written))
        \in DOMAIN TypeTable(Declarations[program]) \cup {UnknownType}
  BY Zenon, ProgramAssumption
<1> QED BY <1>1, <1>2, <1>3

-----------------------------------------------------------------------------
(* Who holds which cells.                                                  *)

KnownCells(frame) == UNION {Cells(v) : v \in Known(frame)}

\* The inductive invariant: no cell is known to two invocations.
Apart(stack) ==
  \A i, j \in DOMAIN stack :
    i # j => KnownCells(stack[i]) \cap KnownCells(stack[j]) = {}

StructInv == Apart(frames)

\* What a step does to the memory: cells are added, and of those there are
\* only those the running invocation knows are written, with values of their type.
MemoryStep ==
  /\ memory' \in Seq(Scalar) /\ Len(memory) <= Len(memory')
  /\ \A c \in DOMAIN memory : memory'[c].type = memory[c].type
  /\ \A c \in DOMAIN memory :
       memory'[c] # memory[c] => frames # <<>> /\ c \in KnownCells(Current)

\* What a step does to the stack: at most its last invocation changes, and
\* that one only gets to know cells of invocations that are gone, or new ones.
FramesStep ==
  /\ frames' \in Seq(Frame')
  /\ \A k \in 1 .. Len(frames') - 1 : k \in DOMAIN frames /\ frames'[k] = frames[k]
  /\ Len(frames') # 0 => \A c \in KnownCells(frames'[Len(frames')]) :
       \/ c \notin DOMAIN memory
       \/ \E k \in DOMAIN frames : k >= Len(frames') /\ c \in KnownCells(frames[k])

\* The two action properties, for one step.
CallersKept ==
  \A i \in 1 .. Len(frames) - 1 : \A v \in Known(frames[i]) : \A c \in Cells(v) :
    memory'[c] = memory[c]

TypesKept == \A c \in DOMAIN memory : memory'[c].type = memory[c].type

StructStep ==
  TypeOK' /\ StructInv' /\ CallersKept /\ TypesKept /\ FramesStep /\ program' = program

LEMMA KnownType ==
  ASSUME TypeOK, NEW k \in DOMAIN frames, NEW v \in Known(frames[k])
  PROVE  /\ v \in StructValue /\ v.fields \in Seq(NamedCell)
         /\ v.prototype \in DOMAIN Structs
         /\ Cells(v) \subseteq DOMAIN memory
         /\ Cells(v) \subseteq KnownCells(frames[k])
<1>1. frames[k] \in Frame
  BY DEF TypeOK
<1>2. v \in StructValue
  BY <1>1 DEF Known, Frame
<1>3. v.fields \in Seq(NamedCell) /\ v.prototype \in DOMAIN Structs
  BY <1>2 DEF StructValue
<1>4. \A i \in DOMAIN v.fields : v.fields[i] \in NamedCell
  BY <1>3
<1>5. \A i \in DOMAIN v.fields : v.fields[i].cell \in DOMAIN memory
  BY <1>4 DEF NamedCell
<1>6. Cells(v) \subseteq DOMAIN memory
  BY <1>5 DEF Cells
<1>7. Cells(v) \subseteq KnownCells(frames[k])
  BY DEF KnownCells
<1> QED BY <1>2, <1>3, <1>6, <1>7

LEMMA KnownCellsType ==
  ASSUME TypeOK, NEW k \in DOMAIN frames
  PROVE  KnownCells(frames[k]) \subseteq DOMAIN memory
BY KnownType DEF KnownCells

LEMMA MemoryStepKeeps ==
  ASSUME TypeOK, StructInv, MemoryStep
  PROVE  CallersKept /\ TypesKept
<1>1. TypesKept
  BY DEF MemoryStep, TypesKept
<1>2. ASSUME NEW i \in 1 .. Len(frames) - 1, NEW v \in Known(frames[i]), NEW c \in Cells(v)
      PROVE  memory'[c] = memory[c]
  <2>1. frames \in Seq(Frame)
    BY DEF TypeOK
  <2>2. i \in DOMAIN frames /\ Len(frames) \in DOMAIN frames /\ i # Len(frames)
    BY <2>1
  <2>3. c \in DOMAIN memory /\ c \in KnownCells(frames[i])
    BY <2>2, KnownType
  <2>4. c \notin KnownCells(frames[Len(frames)])
    BY <2>2, <2>3 DEF StructInv, Apart
  <2> QED BY <2>3, <2>4 DEF MemoryStep, Current
<1> QED BY <1>1, <1>2 DEF CallersKept

\* From fs to hs only the last invocation is another, and it knows nothing
\* but what those knew that are gone, and cells in F that nobody knew.
LEMMA ApartKept ==
  ASSUME NEW S, NEW fs \in Seq(S), NEW T, NEW hs \in Seq(T), Apart(fs), NEW F,
         \A k \in DOMAIN fs : KnownCells(fs[k]) \cap F = {},
         \A k \in 1 .. Len(hs) - 1 : k \in DOMAIN fs /\ hs[k] = fs[k],
         Len(hs) # 0 => \A c \in KnownCells(hs[Len(hs)]) :
           c \in F \/ \E k \in DOMAIN fs : k >= Len(hs) /\ c \in KnownCells(fs[k])
  PROVE  Apart(hs)
<1> SUFFICES ASSUME NEW i \in DOMAIN hs, NEW j \in DOMAIN hs, i # j,
                    NEW c, c \in KnownCells(hs[i]), c \in KnownCells(hs[j])
             PROVE  FALSE
  BY Zenon DEF Apart
<1>1. ASSUME NEW k \in DOMAIN hs, NEW l \in DOMAIN hs, k < l,
             c \in KnownCells(hs[k]), c \in KnownCells(hs[l])
      PROVE  FALSE
  <2>1. k \in DOMAIN fs /\ hs[k] = fs[k]
    BY <1>1
  <2>2. CASE l = Len(hs)
    <3>1. c \notin F
      BY <1>1, <2>1
    <3>2. PICK m \in DOMAIN fs : m >= Len(hs) /\ c \in KnownCells(fs[m])
      BY <1>1, <2>2, <3>1
    <3>3. k # m
      BY <1>1, <2>2, <3>2
    <3> QED BY <1>1, <2>1, <3>2, <3>3 DEF Apart
  <2>3. CASE l # Len(hs)
    <3>1. l \in DOMAIN fs /\ hs[l] = fs[l]
      BY <2>3
    <3> QED BY <1>1, <2>1, <3>1 DEF Apart
  <2> QED BY <2>2, <2>3
<1>2. i < j \/ j < i
  OBVIOUS
<1> QED BY <1>1, <1>2

LEMMA TypesGrow ==
  ASSUME TypeOK, program' = program, memory' \in Seq(Scalar), Len(memory) <= Len(memory')
  PROVE  /\ Structs' = Structs
         /\ DOMAIN memory \subseteq DOMAIN memory'
         /\ StructValue \subseteq StructValue'
         /\ Frame \subseteq Frame'
<1>1. Structs' = Structs
  BY DEF Structs
<1>2. DOMAIN memory \subseteq DOMAIN memory'
  BY DEF TypeOK
<1>3. NamedCell \subseteq NamedCell'
  BY <1>2 DEF NamedCell
<1>4. Seq(NamedCell) \subseteq Seq(NamedCell')
  BY <1>3
<1>5. StructValue \subseteq StructValue'
  BY <1>1, <1>4 DEF StructValue
<1>6. Frame \subseteq Frame'
  BY <1>5 DEF Frame
<1> QED BY <1>1, <1>2, <1>5, <1>6

LEMMA CurrentType ==
  ASSUME TypeOK, Running
  PROVE  /\ frames \in Seq(Frame) /\ Len(frames) \in DOMAIN frames /\ Len(frames) > 0
         /\ Current \in Frame /\ program \in Program /\ error = "none"
         /\ Current.overload \in Overloads[program] \cup {Main}
<1>1. frames \in Seq(Frame) /\ program \in Program
  BY DEF TypeOK
<1>2. frames # <<>> /\ error = "none"
  BY DEF Running
<1>3. Len(frames) \in DOMAIN frames /\ Len(frames) > 0
  BY <1>1, <1>2
<1>4. Current \in Frame
  BY <1>1, <1>3 DEF Current
<1>5. Current.overload \in Overloads[program] \cup {Main}
  BY <1>4 DEF Frame
<1> QED BY <1>1, <1>2, <1>3, <1>4, <1>5

Errors == {"none", "MissingDefaultValueException", "MissingFieldException",
           "FunctionNotFoundException", "AmbiguousFunctionException",
           "UnknownTypeException", "Crash"}

LEMMA StepKeeps ==
  ASSUME TypeOK, StructInv, MemoryStep, FramesStep, program' = program, error' \in Errors
  PROVE  StructStep
<1>1. CallersKept /\ TypesKept
  BY MemoryStepKeeps
<1>2. TypeOK'
  BY DEF TypeOK, FramesStep, MemoryStep, Errors
<1>3. StructInv'
  <2> DEFINE F == {c \in KnownCells(frames'[Len(frames')]) : c \notin DOMAIN memory}
  <2>1. frames \in Seq(Frame) /\ frames' \in Seq(Frame')
    BY DEF TypeOK, FramesStep
  <2>2. \A k \in DOMAIN frames : KnownCells(frames[k]) \cap F = {}
    BY KnownCellsType
  <2>3. \A k \in 1 .. Len(frames') - 1 : k \in DOMAIN frames /\ frames'[k] = frames[k]
    BY DEF FramesStep
  <2>4. Len(frames') # 0 => \A c \in KnownCells(frames'[Len(frames')]) :
          c \in F \/ \E k \in DOMAIN frames : k >= Len(frames') /\ c \in KnownCells(frames[k])
    BY DEF FramesStep
  <2>5. Apart(frames)
    BY DEF StructInv
  <2> HIDE DEF F
  <2>6. Apart(frames')
    BY <2>1, <2>2, <2>3, <2>4, <2>5, ApartKept
  <2> QED BY <2>6 DEF StructInv
<1> QED BY <1>1, <1>2, <1>3 DEF StructStep

LEMMA SameFrames ==
  ASSUME TypeOK, program' = program, memory' \in Seq(Scalar), Len(memory) <= Len(memory'),
         frames' = frames
  PROVE  FramesStep
<1>1. frames \in Seq(Frame) /\ Frame \subseteq Frame'
  BY TypesGrow DEF TypeOK
<1>2. frames' \in Seq(Frame')
  BY <1>1
<1>3. \A k \in 1 .. Len(frames') - 1 : k \in DOMAIN frames /\ frames'[k] = frames[k]
  BY <1>1
<1>4. Len(frames') # 0 => Len(frames') \in DOMAIN frames /\ Len(frames') >= Len(frames')
  BY <1>1
<1> QED BY <1>2, <1>3, <1>4 DEF FramesStep

LEMMA SameMemory ==
  ASSUME TypeOK, memory' = memory
  PROVE  MemoryStep /\ memory' \in Seq(Scalar) /\ Len(memory) <= Len(memory')
<1>1. memory \in Seq(Scalar) /\ Len(memory) <= Len(memory)
  BY DEF TypeOK
<1> QED BY <1>1 DEF MemoryStep

LEMMA ThrowKeeps ==
  ASSUME TypeOK, StructInv, NEW exception \in Errors, Throw(exception)
  PROVE  StructStep
<1>1. program' = program /\ memory' = memory /\ frames' = frames /\ error' = exception
  BY DEF Throw
<1> QED BY <1>1, SameMemory, SameFrames, StepKeeps

\* The record that a frame becomes when a structure is bound.
LEMMA BindKeeps ==
  ASSUME TypeOK, program' = program, memory' \in Seq(Scalar), Len(memory) <= Len(memory'),
         NEW stack \in Seq(Frame), stack # <<>>,
         \A k \in DOMAIN stack : k \in DOMAIN frames /\ stack[k] = frames[k],
         NEW v \in StructValue',
         \A c \in Cells(v) : \/ c \notin DOMAIN memory
                             \/ \E k \in DOMAIN frames :
                                  k >= Len(stack) /\ c \in KnownCells(frames[k]),
         Bind(stack, v)
  PROVE  FramesStep
<1> DEFINE n == Len(stack)
           locals == stack[n].locals \cup {v}
           frame == [stack[n] EXCEPT !.locals = locals]
<1>1. n \in DOMAIN stack /\ n \in Nat /\ n > 0 /\ DOMAIN stack = 1..n
  OBVIOUS
<1>2. Frame \subseteq Frame' /\ StructValue \subseteq StructValue'
  BY TypesGrow
<1>3. frames' = [stack EXCEPT ![n].locals = locals]
  BY DEF Bind
<1>4. stack[n] \in Frame
  BY <1>1
<1>5. frame \in Frame' /\ frame.argument = stack[n].argument /\ frame.locals = locals
  <2>1. locals \in SUBSET (StructValue')
    BY <1>2, <1>4 DEF Frame
  <2>2. stack[n] \in Frame'
    BY <1>2, <1>4
  <2> HIDE DEF locals, n
  <2> QED BY <2>1, <2>2 DEF Frame
<1>6. frames' = [stack EXCEPT ![n] = frame]
  BY <1>1, <1>3
<1> HIDE DEF frame, n
<1>7. stack \in Seq(Frame')
  BY <1>2
<1>8. /\ frames' \in Seq(Frame') /\ Len(frames') = n
      /\ frames'[n] = frame
      /\ \A k \in 1 .. n - 1 : frames'[k] = stack[k]
  BY <1>1, <1>5, <1>6, <1>7
<1>9. \A k \in 1 .. n - 1 : k \in DOMAIN frames /\ frames'[k] = frames[k]
  BY <1>1, <1>8
<1>10. ASSUME NEW c \in KnownCells(frame)
       PROVE  \/ c \notin DOMAIN memory
              \/ \E k \in DOMAIN frames : k >= n /\ c \in KnownCells(frames[k])
  <2>1. PICK w \in Known(frame) : c \in Cells(w)
    BY Zenon DEF KnownCells
  <2>2. w = v \/ w \in Known(stack[n])
    BY <1>5, <2>1 DEF Known
  <2>3. CASE w = v
    BY <2>1, <2>3 DEF n
  <2>4. CASE w \in Known(stack[n])
    <3>1. c \in KnownCells(stack[n])
      BY <2>1, <2>4 DEF KnownCells
    <3>2. n \in DOMAIN frames /\ stack[n] = frames[n] /\ n >= n
      BY <1>1
    <3> QED BY <3>1, <3>2
  <2> QED BY <2>2, <2>3, <2>4
<1> QED BY <1>8, <1>9, <1>10 DEF FramesStep

-----------------------------------------------------------------------------
(* Instantiation and `with'.                                               *)

LEMMA GivenScalar ==
  ASSUME NEW given \in Assignments, NEW name \in DOMAIN given
  PROVE  given[name] \in Scalar
BY AssignmentAssumption DEF Range

\* Cells are appended: what was there stays.
LEMMA AppendedMemory ==
  ASSUME TypeOK, NEW added \in Seq(Scalar), memory' = memory \o added
  PROVE  /\ MemoryStep /\ memory' \in Seq(Scalar) /\ Len(memory) <= Len(memory')
         /\ DOMAIN memory' = 1 .. Len(memory) + Len(added)
         /\ \A i \in DOMAIN added : Len(memory) + i \in DOMAIN memory' \ DOMAIN memory
<1>1. memory \in Seq(Scalar)
  BY DEF TypeOK
<1>2. /\ memory' \in Seq(Scalar) /\ Len(memory') = Len(memory) + Len(added)
      /\ \A c \in DOMAIN memory : memory'[c] = memory[c]
  BY <1>1
<1>3. MemoryStep
  BY <1>1, <1>2 DEF MemoryStep
<1>4. DOMAIN memory' = 1 .. Len(memory) + Len(added)
  BY <1>2
<1>5. \A i \in DOMAIN added : Len(memory) + i \in DOMAIN memory' \ DOMAIN memory
  BY <1>1, <1>4
<1> QED BY <1>1, <1>2, <1>3, <1>4, <1>5

\* A structure whose fields are new cells, one for each.
LEMMA FreshStruct ==
  ASSUME TypeOK, program' = program, NEW added \in Seq(Scalar), memory' = memory \o added,
         NEW fields, NEW T, fields \in Seq(T), \A t \in T : t.name \in FieldName,
         Len(fields) = Len(added),
         NEW prototype \in DOMAIN Structs, NEW v,
         v = [prototype |-> prototype,
              fields |-> [i \in DOMAIN fields |->
                           [name |-> fields[i].name, cell |-> Len(memory) + i]]]
  PROVE  v \in StructValue' /\ \A c \in Cells(v) : c \notin DOMAIN memory
<1>1. /\ Len(memory) <= Len(memory') /\ memory' \in Seq(Scalar)
      /\ \A i \in DOMAIN added : Len(memory) + i \in DOMAIN memory' \ DOMAIN memory
  BY AppendedMemory
<1>2. Structs' = Structs
  BY <1>1, TypesGrow
<1>3. DOMAIN fields = 1 .. Len(fields) /\ DOMAIN added = DOMAIN fields /\ Len(fields) \in Nat
  OBVIOUS
<1>4. \A i \in DOMAIN fields : fields[i].name \in FieldName
  OBVIOUS
<1>5. \A i \in DOMAIN fields : [name |-> fields[i].name, cell |-> Len(memory) + i] \in NamedCell'
  BY <1>1, <1>3, <1>4 DEF NamedCell
<1>6. v.fields \in Seq(NamedCell')
  BY <1>3, <1>5
<1>7. v \in StructValue'
  BY <1>2, <1>6 DEF StructValue
<1>8. \A i \in DOMAIN v.fields : v.fields[i].cell \notin DOMAIN memory
  BY <1>1, <1>3
<1> QED BY <1>7, <1>8 DEF Cells

LEMMA InitialScalar ==
  ASSUME NEW fields \in Seq(FieldEmbryo), NEW given \in Assignments,
         InstantiationError(fields, given) = "none"
  PROVE  [i \in DOMAIN fields |-> Initial(fields, given, i)] \in Seq(Scalar)
<1>1. ASSUME NEW i \in DOMAIN fields PROVE Initial(fields, given, i) \in Scalar
  <2>1. CASE Takes(fields, given, i)
    BY <2>1, GivenScalar DEF Takes, Initial
  <2>2. CASE ~ Takes(fields, given, i)
    <3>1. fields[i] \in FieldEmbryo
      OBVIOUS
    <3>2. fields[i].default \in Scalar \cup {NoDefault}
      BY <3>1 DEF FieldEmbryo
    <3>3. fields[i].default # NoDefault
      BY <2>2 DEF InstantiationError
    <3> QED BY <2>2, <3>2, <3>3 DEF Initial
  <2> QED BY <2>1, <2>2
<1>2. DOMAIN fields = 1 .. Len(fields) /\ Len(fields) \in Nat
  OBVIOUS
<1> QED BY <1>1, <1>2

LEMMA RejectionType ==
  ASSUME NEW written, NEW given
  PROVE  Rejection(written, given) \in Errors
BY DEF Rejection, InstantiationError, Errors

LEMMA InstantiateKeeps ==
  ASSUME TypeOK, StructInv, NEW given \in Assignments, NEW written \in Written[program],
         Instantiate(written, given)
  PROVE  StructStep
<1> DEFINE type == TypeNamed(written)
           fields == FieldsOf(type)
           added == [i \in DOMAIN fields |-> Initial(fields, given, i)]
           v == [prototype |-> type,
                 fields |-> [i \in DOMAIN fields |->
                              [name |-> fields[i].name, cell |-> Len(memory) + i]]]
<1>1. Running
  BY DEF Instantiate
<1>2. CASE Throw(Rejection(written, given))
  BY <1>2, RejectionType, ThrowKeeps
<1>3. CASE /\ Rejection(written, given) = "none"
           /\ memory' = memory \o added
           /\ Bind(frames, v)
           /\ UNCHANGED <<program, error>>
  <2>1. /\ program \in Program /\ frames \in Seq(Frame) /\ frames # <<>> /\ error = "none"
        /\ Current.overload \in Overloads[program] \cup {Main}
    BY <1>1, CurrentType DEF Running
  <2>2. type # UnknownType /\ InstantiationError(fields, given) = "none"
    BY <1>3 DEF Rejection
  <2>3. type \in DOMAIN Structs
    BY <2>1, <2>2, NamedIsStruct
  <2>4. fields \in Seq(FieldEmbryo)
    BY <2>1, <2>3, TablesOfProgram
  <2> HIDE DEF type
  <2>5. added \in Seq(Scalar) /\ Len(fields) = Len(added)
    <3>1. added \in Seq(Scalar)
      BY <2>2, <2>4, InitialScalar
    <3> QED BY <3>1, <2>4
  <2>6. \A t \in FieldEmbryo : t.name \in FieldName
    BY DEF FieldEmbryo
  <2>7. program' = program /\ memory' = memory \o added /\ error' = "none" /\ Bind(frames, v)
    BY <1>3, <2>1
  <2> HIDE DEF fields, added
  <2>8. v \in StructValue' /\ \A c \in Cells(v) : c \notin DOMAIN memory
    BY <2>3, <2>4, <2>5, <2>6, <2>7, FreshStruct
  <2> HIDE DEF v
  <2>9. MemoryStep /\ memory' \in Seq(Scalar) /\ Len(memory) <= Len(memory')
    BY <2>5, <2>7, AppendedMemory
  <2>10. FramesStep
    BY <2>1, <2>7, <2>8, <2>9, BindKeeps
  <2> QED BY <2>7, <2>9, <2>10, StepKeeps DEF Errors
<1> QED BY <1>2, <1>3 DEF Instantiate

\* The members of a set of indices are counted off: each gets one of the
\* numbers up to their number, and each number goes to one.
UpTo(S, m) == {j \in S : j <= m}

LEMMA UpToType ==
  ASSUME NEW n \in Nat, NEW S \in SUBSET (1 .. n)
  PROVE  /\ IsFiniteSet(S) /\ Cardinality(S) \in Nat
         /\ \A m \in Nat : /\ IsFiniteSet(UpTo(S, m)) /\ Cardinality(UpTo(S, m)) \in Nat
                           /\ Cardinality(UpTo(S, m)) <= Cardinality(S)
<1>1. IsFiniteSet(S)
  <2>1. IsFiniteSet(1 .. n)
    BY FS_Interval
  <2> QED BY <2>1, FS_Subset
<1>2. \A m \in Nat : UpTo(S, m) \subseteq S
  BY DEF UpTo
<1>3. \A m \in Nat : IsFiniteSet(UpTo(S, m)) /\ Cardinality(UpTo(S, m)) <= Cardinality(S)
  BY <1>1, <1>2, FS_Subset
<1> QED BY <1>1, <1>3, FS_CardinalityType

LEMMA CountedOff ==
  ASSUME NEW n \in Nat, NEW S \in SUBSET (1 .. n)
  PROVE  /\ \A i \in S : Cardinality(UpTo(S, i)) \in 1 .. Cardinality(S)
         /\ \A c \in 1 .. Cardinality(S) : \E i \in S : Cardinality(UpTo(S, i)) = c
<1>1. ASSUME NEW i \in S PROVE Cardinality(UpTo(S, i)) \in 1 .. Cardinality(S)
  <2>1. i \in Nat /\ i \in UpTo(S, i)
    BY DEF UpTo
  <2>2. IsFiniteSet(UpTo(S, i)) /\ Cardinality(UpTo(S, i)) <= Cardinality(S)
        /\ Cardinality(UpTo(S, i)) \in Nat /\ Cardinality(S) \in Nat
    BY <2>1, UpToType
  <2>3. Cardinality(UpTo(S, i)) # 0
    BY <2>1, <2>2, FS_EmptySet
  <2> QED BY <2>2, <2>3
<1>2. ASSUME NEW c \in 1 .. Cardinality(S)
      PROVE  \E i \in S : Cardinality(UpTo(S, i)) = c
  <2> DEFINE M == {m \in Nat : c <= Cardinality(UpTo(S, m))}
  <2>0. \A i \in S : i \in Nat /\ 1 <= i /\ i <= n
    OBVIOUS
  <2>1. UpTo(S, n) = S /\ UpTo(S, 0) = {}
    <3>1. \A i \in S : ~ (i <= 0)
      BY <2>0
    <3>2. \A i \in S : i <= n
      BY <2>0
    <3> QED BY <3>1, <3>2, Zenon DEF UpTo
  <2>2. n \in M
    BY <2>1, UpToType
  <2>3. 0 \notin M
    <3>1. Cardinality(UpTo(S, 0)) = 0
      BY <2>1, FS_EmptySet
    <3> QED BY <3>1
  <2>4. PICK m \in M : \A l \in M : m <= l
    <3>1. M \subseteq Nat /\ M # {}
      BY <2>2
    <3> HIDE DEF M
    <3> QED BY <3>1, LeastNumber
  <2>5. m \in Nat /\ m # 0 /\ m - 1 \in Nat /\ m - 1 \notin M
    BY <2>3, <2>4
  <2>6. /\ Cardinality(UpTo(S, m - 1)) < c /\ c <= Cardinality(UpTo(S, m))
        /\ Cardinality(UpTo(S, m - 1)) \in Nat /\ Cardinality(UpTo(S, m)) \in Nat
        /\ IsFiniteSet(UpTo(S, m - 1)) /\ c \in Nat
    <3>1. c \in Nat
      BY UpToType
    <3>2. /\ Cardinality(UpTo(S, m - 1)) \in Nat /\ Cardinality(UpTo(S, m)) \in Nat
          /\ IsFiniteSet(UpTo(S, m - 1))
      BY <2>5, UpToType
    <3>3. ~ (c <= Cardinality(UpTo(S, m - 1))) /\ c <= Cardinality(UpTo(S, m))
      BY <2>4, <2>5
    <3> QED BY <3>1, <3>2, <3>3
  <2>7. m \in S
    <3>1. CASE m \notin S
      <4>1. \A i \in S : i <= m <=> i <= m - 1
        BY <2>0, <2>5, <3>1
      <4>2. UpTo(S, m) = UpTo(S, m - 1)
        BY <4>1, Zenon DEF UpTo
      <4> QED BY <2>6, <4>2
    <3> QED BY <3>1
  <2>8. UpTo(S, m) = UpTo(S, m - 1) \cup {m} /\ m \notin UpTo(S, m - 1)
    <3>1. \A i \in S : i <= m <=> i <= m - 1 \/ i = m
      BY <2>0, <2>5
    <3>2. ~ (m <= m - 1)
      BY <2>5
    <3>3. \A i \in UpTo(S, m) : i \in UpTo(S, m - 1) \cup {m}
      BY <3>1 DEF UpTo
    <3>4. \A i \in UpTo(S, m - 1) \cup {m} : i \in UpTo(S, m)
      BY <3>1, <2>7 DEF UpTo
    <3>5. m \notin UpTo(S, m - 1)
      BY <3>2 DEF UpTo
    <3> QED BY <3>3, <3>4, <3>5
  <2>9. Cardinality(UpTo(S, m)) = Cardinality(UpTo(S, m - 1)) + 1
    BY <2>6, <2>8, FS_AddElement
  <2> QED BY <2>6, <2>7, <2>9
<1> QED BY <1>1, <1>2

\* The memory after `with': moved fields get new cells, stored ones are
\* overwritten.
Overwritten(v, given, moved, stored) ==
  [c \in 1 .. Len(memory) + Cardinality(moved) |->
    IF c > Len(memory)
    THEN given[v.fields[CHOOSE i \in moved :
                  Len(memory) + Cardinality(UpTo(moved, i)) = c].name]
    ELSE IF \E i \in stored : v.fields[i].cell = c
    THEN given[v.fields[CHOOSE i \in stored : v.fields[i].cell = c].name]
    ELSE memory[c]]

LEMMA WithMemory ==
  ASSUME TypeOK, Running, NEW v \in Known(Current), NEW given \in Assignments,
         NEW moved, moved = {i \in DOMAIN v.fields : ~KeepsCell(v, given, i)},
         NEW stored,
         stored = {i \in DOMAIN v.fields : Takes(v.fields, given, i) /\ KeepsCell(v, given, i)},
         memory' = Overwritten(v, given, moved, stored)
  PROVE  /\ MemoryStep /\ memory' \in Seq(Scalar) /\ Len(memory) <= Len(memory')
         /\ \A i \in moved : Len(memory) + Cardinality(UpTo(moved, i))
                               \in DOMAIN memory' \ DOMAIN memory
<1> DEFINE m == Len(memory)
           k == Cardinality(moved)
           fresh(i) == m + Cardinality(UpTo(moved, i))
           first(c) == CHOOSE i \in moved : fresh(i) = c
           kept(c) == CHOOSE i \in stored : v.fields[i].cell = c
           content(c) == IF c > m THEN given[v.fields[first(c)].name]
                         ELSE IF \E i \in stored : v.fields[i].cell = c
                         THEN given[v.fields[kept(c)].name]
                         ELSE memory[c]
<1>1. /\ memory \in Seq(Scalar) /\ m \in Nat /\ DOMAIN memory = 1 .. m
      /\ Len(frames) \in DOMAIN frames /\ frames # <<>> /\ frames \in Seq(Frame)
  BY CurrentType DEF TypeOK, Running
<1>2. /\ v.fields \in Seq(NamedCell) /\ Cells(v) \subseteq DOMAIN memory
      /\ Cells(v) \subseteq KnownCells(Current)
  BY <1>1, KnownType DEF Current
<1>3. moved \in SUBSET (1 .. Len(v.fields)) /\ Len(v.fields) \in Nat
  BY <1>2
<1>4. /\ k \in Nat
      /\ \A i \in moved : Cardinality(UpTo(moved, i)) \in 1 .. k
      /\ \A c \in 1 .. k : \E i \in moved : Cardinality(UpTo(moved, i)) = c
  BY <1>3, CountedOff, UpToType
<1>5. \A i \in moved : Takes(v.fields, given, i)
  BY DEF KeepsCell
<1>6. \A i \in moved \cup stored : given[v.fields[i].name] \in Scalar
  BY <1>5, GivenScalar DEF Takes
<1>7. \A i \in stored : given[v.fields[i].name].type = memory[v.fields[i].cell].type
                        /\ v.fields[i].cell \in Cells(v)
  BY DEF KeepsCell, Cells
<1>8. memory' = [c \in 1 .. m + k |-> content(c)]
  BY Zenon DEF Overwritten
<1>9. ASSUME NEW c \in 1 .. m + k, c > m PROVE content(c) \in Scalar
  <2>1. c - m \in 1 .. k
    BY <1>1, <1>4, <1>9
  <2>2. PICK i \in moved : Cardinality(UpTo(moved, i)) = c - m
    BY <1>4, <2>1
  <2>3. fresh(i) = c
    BY <1>1, <2>1, <2>2
  <2> HIDE DEF fresh
  <2>4. first(c) \in moved
    BY <2>3
  <2>5. content(c) = given[v.fields[first(c)].name]
    BY <1>9
  <2> HIDE DEF first, content
  <2> QED BY <1>6, <2>4, <2>5
<1>10. ASSUME NEW c \in 1 .. m, \E i \in stored : v.fields[i].cell = c
       PROVE  content(c) \in Scalar /\ content(c).type = memory[c].type /\ c \in Cells(v)
  <2>1. kept(c) \in stored /\ v.fields[kept(c)].cell = c
    BY <1>10
  <2>2. content(c) = given[v.fields[kept(c)].name]
    BY <1>1, <1>10
  <2> HIDE DEF kept, content
  <2> QED BY <1>6, <1>7, <2>1, <2>2
<1>11. ASSUME NEW c \in 1 .. m, ~ (\E i \in stored : v.fields[i].cell = c)
       PROVE  content(c) = memory[c] /\ memory[c] \in Scalar
  BY <1>1, <1>11
<1>12. \A c \in 1 .. m + k : content(c) \in Scalar
  <2>1. \A c \in 1 .. m + k : c > m \/ c \in 1 .. m
    BY <1>1, <1>4
  <2> HIDE DEF content, m, k
  <2> QED BY <1>9, <1>10, <1>11, <2>1
<1>13. \A c \in 1 .. m : content(c).type = memory[c].type
                         /\ (content(c) # memory[c] => c \in Cells(v))
  <2> HIDE DEF content, m, k
  <2> QED BY <1>10, <1>11
<1>14. memory' \in Seq(Scalar) /\ Len(memory') = m + k /\ DOMAIN memory' = 1 .. m + k
  <2>1. m + k \in Nat
    BY <1>1, <1>4
  <2> DEFINE l == m + k
             mem == [c \in 1 .. l |-> content(c)]
  <2>2. memory' = mem /\ l \in Nat
    BY <1>8, <2>1
  <2>3. \A c \in 1 .. l : content(c) \in Scalar
    BY <1>12
  <2> HIDE DEF l, content
  <2>4. mem \in Seq(Scalar) /\ Len(mem) = l /\ DOMAIN mem = 1 .. l
    BY <2>2, <2>3
  <2> HIDE DEF mem
  <2>5. memory' \in Seq(Scalar) /\ Len(memory') = l /\ DOMAIN memory' = 1 .. l
    BY <2>2, <2>4
  <2> QED BY <2>5 DEF l
<1>15. \A c \in 1 .. m : memory'[c] = content(c)
  <2>1. \A c \in 1 .. m : c \in 1 .. m + k
    BY <1>1, <1>4
  <2> HIDE DEF content, m, k
  <2> QED BY <1>8, <2>1, Zenon
<1> HIDE DEF content
<1>16. MemoryStep
  <2>1. \A c \in DOMAIN memory : /\ memory'[c].type = memory[c].type
                                 /\ memory'[c] # memory[c] => c \in KnownCells(Current)
    BY <1>1, <1>2, <1>13, <1>15
  <2>2. Len(memory) <= Len(memory')
    BY <1>1, <1>4, <1>14
  <2> QED BY <1>1, <1>14, <2>1, <2>2 DEF MemoryStep
<1>17. \A i \in moved : fresh(i) \in DOMAIN memory' \ DOMAIN memory
  BY <1>1, <1>4, <1>14
<1> QED BY <1>14, <1>16, <1>17 DEF MemoryStep

LEMMA WithKeeps ==
  ASSUME TypeOK, StructInv, NEW given \in Assignments, NEW v \in Known(Current),
         With(v, given)
  PROVE  StructStep
<1> DEFINE moved == {i \in DOMAIN v.fields : ~KeepsCell(v, given, i)}
           stored == {i \in DOMAIN v.fields :
                        Takes(v.fields, given, i) /\ KeepsCell(v, given, i)}
           fresh(i) == Len(memory) + Cardinality(UpTo(moved, i))
           w == [v EXCEPT !.fields =
                  [i \in DOMAIN v.fields |->
                    IF i \in moved THEN [v.fields[i] EXCEPT !.cell = fresh(i)]
                                   ELSE v.fields[i]]]
<1>1. Running
  BY DEF With
<1>2. CASE Throw("MissingFieldException")
  BY <1>2, ThrowKeeps DEF Errors
<1>3. CASE /\ memory' =
                [c \in 1 .. Len(memory) + Cardinality(moved) |->
                  IF c > Len(memory)
                  THEN given[v.fields[CHOOSE i \in moved : fresh(i) = c].name]
                  ELSE IF \E i \in stored : v.fields[i].cell = c
                  THEN given[v.fields[CHOOSE i \in stored : v.fields[i].cell = c].name]
                  ELSE memory[c]]
           /\ Bind(frames, w)
           /\ UNCHANGED <<program, error>>
  <2>1. /\ frames \in Seq(Frame) /\ frames # <<>> /\ error = "none"
        /\ Len(frames) \in DOMAIN frames /\ Len(frames) > 0
    BY <1>1, CurrentType DEF Running
  <2>2. program' = program /\ error' = "none" /\ Bind(frames, w)
    BY <1>3, <2>1
  <2>3. /\ MemoryStep /\ memory' \in Seq(Scalar) /\ Len(memory) <= Len(memory')
        /\ \A i \in moved : fresh(i) \in DOMAIN memory' \ DOMAIN memory
    BY <1>1, <1>3, WithMemory DEF Overwritten
  <2>4. /\ v \in StructValue /\ v.fields \in Seq(NamedCell) /\ v.prototype \in DOMAIN Structs
        /\ Cells(v) \subseteq KnownCells(frames[Len(frames)])
    BY <2>1, KnownType DEF Current
  <2> HIDE DEF moved, stored, fresh
  <2>5. Structs' = Structs /\ DOMAIN memory \subseteq DOMAIN memory'
    BY <2>2, <2>3, TypesGrow
  <2>6. w = [prototype |-> v.prototype,
             fields |-> [i \in DOMAIN v.fields |->
                          IF i \in moved THEN [v.fields[i] EXCEPT !.cell = fresh(i)]
                                         ELSE v.fields[i]]]
    <3> DEFINE fields == [i \in DOMAIN v.fields |->
                           IF i \in moved THEN [v.fields[i] EXCEPT !.cell = fresh(i)]
                                          ELSE v.fields[i]]
    <3>1. w = [v EXCEPT !.fields = fields]
      OBVIOUS
    <3> HIDE DEF fields, w
    <3>2. w = [prototype |-> v.prototype, fields |-> fields]
      BY <2>4, <3>1 DEF StructValue
    <3> QED BY <3>2 DEF fields
  <2> HIDE DEF w
  <2>7. ASSUME NEW i \in DOMAIN v.fields
        PROVE  /\ w.fields[i] \in NamedCell'
               /\ \/ w.fields[i].cell \notin DOMAIN memory
                  \/ w.fields[i].cell \in Cells(v)
    <3>1. v.fields[i] \in NamedCell
      BY <2>4
    <3>2. CASE i \in moved
      <4>1. w.fields[i] = [v.fields[i] EXCEPT !.cell = fresh(i)]
        BY <2>6, <3>2
      <4>2. w.fields[i] = [name |-> v.fields[i].name, cell |-> fresh(i)]
        BY <3>1, <4>1 DEF NamedCell
      <4>3. fresh(i) \in DOMAIN memory' \ DOMAIN memory
        BY <2>3, <3>2
      <4> QED BY <3>1, <4>2, <4>3 DEF NamedCell
    <3>3. CASE i \notin moved
      <4>1. w.fields[i] = v.fields[i]
        BY <2>6, <3>3
      <4> QED BY <2>5, <3>1, <4>1 DEF NamedCell, Cells
    <3> QED BY <3>2, <3>3
  <2>8. w.fields \in Seq(NamedCell') /\ DOMAIN w.fields = DOMAIN v.fields
    <3>1. DOMAIN w.fields = 1 .. Len(v.fields) /\ Len(v.fields) \in Nat
          /\ DOMAIN v.fields = 1 .. Len(v.fields)
          /\ w.fields = [i \in 1 .. Len(v.fields) |-> w.fields[i]]
      BY <2>4, <2>6
    <3>2. \A i \in 1 .. Len(v.fields) : w.fields[i] \in NamedCell'
      BY <2>7, <3>1
    <3> QED BY <3>1, <3>2
  <2>9. w \in StructValue'
    BY <2>4, <2>5, <2>6, <2>8 DEF StructValue
  <2>10. ASSUME NEW c \in Cells(w)
         PROVE  \/ c \notin DOMAIN memory
                \/ \E k \in DOMAIN frames : k >= Len(frames) /\ c \in KnownCells(frames[k])
    <3>1. PICK i \in DOMAIN w.fields : c = w.fields[i].cell
      BY DEF Cells
    <3>2. c \notin DOMAIN memory \/ c \in Cells(v)
      BY <2>7, <2>8, <3>1
    <3> QED BY <2>1, <2>4, <3>2
  <2>11. FramesStep
    BY <2>1, <2>2, <2>3, <2>9, <2>10, BindKeeps
  <2> QED BY <2>2, <2>3, <2>11, StepKeeps DEF Errors
<1> QED BY <1>2, <1>3 DEF With, UpTo

-----------------------------------------------------------------------------
(* Calls, jumps and returns.                                               *)

LEMMA ResolutionPicks ==
  ASSUME program \in Program, NEW v, v.prototype \in DOMAIN Structs, Resolution(v) = {}
  PROVE  Resolve(Structs, Overloads[program], v.prototype) \in Overloads[program]
<1>1. /\ Structs = TypeTable(Declarations[program])
      /\ ResolutionErrors(Structs, Overloads[program], v.prototype) = {}
  BY TablesOfProgram
<1>2. PICK n, height : Hierarchy(Structs, n, height)
  BY <1>1, TableHierarchy
<1> QED BY <1>1, <1>2, ResolvedIsOverload

LEMMA ResolutionType ==
  ASSUME program \in Program, NEW v, v.prototype \in DOMAIN Structs
  PROVE  Resolution(v) \subseteq Errors
<1>1. Resolution(v) = ResolutionErrors(Structs, Overloads[program], v.prototype)
  BY TablesOfProgram
<1>2. Resolution(v) \subseteq {"UnknownTypeException", "AmbiguousFunctionException",
                               "FunctionNotFoundException"}
  BY <1>1, ThrownType
<1> QED BY <1>2 DEF Errors

\* An invocation of its own or in place of the running one, with an
\* argument in new cells.
LEMMA InvocationKeeps ==
  ASSUME TypeOK, Running, program' = program, memory' \in Seq(Scalar),
         Len(memory) <= Len(memory'),
         NEW overload \in Overloads[program], NEW argument \in StructValue',
         \A c \in Cells(argument) : c \notin DOMAIN memory,
         NEW frame, frame = [overload |-> overload, argument |-> argument, locals |-> {}],
         \/ frames' = Append(frames, frame)
         \/ frames' = [frames EXCEPT ![Len(frames)] = frame]
  PROVE  FramesStep
<1> DEFINE n == Len(frames)
<1>1. frames \in Seq(Frame) /\ n \in Nat /\ n > 0 /\ DOMAIN frames = 1 .. n
  BY CurrentType
<1>2. Frame \subseteq Frame'
  BY TypesGrow
<1>3. frame \in Frame'
  BY DEF Frame
<1>4. KnownCells(frame) \subseteq Cells(argument)
  <2>1. Known(frame) \subseteq {argument}
    BY DEF Known
  <2> QED BY <2>1, Zenon DEF KnownCells
<1>5. frames \in Seq(Frame')
  BY <1>1, <1>2
<1> HIDE DEF n
<1>6. /\ frames' \in Seq(Frame') /\ Len(frames') >= n /\ Len(frames') \in Nat
      /\ frames'[Len(frames')] = frame
      /\ \A k \in 1 .. Len(frames') - 1 : k \in DOMAIN frames /\ frames'[k] = frames[k]
  <2>1. CASE frames' = Append(frames, frame)
    BY <1>1, <1>3, <1>5, <2>1 DEF n
  <2>2. CASE frames' = [frames EXCEPT ![n] = frame]
    BY <1>1, <1>3, <1>5, <2>2
  <2> QED BY <2>1, <2>2 DEF n
<1> QED BY <1>4, <1>6 DEF FramesStep

LEMMA CopyKeeps ==
  ASSUME TypeOK, Running, NEW v \in Known(Current), Resolution(v) = {},
         memory' = Copied(v), program' = program,
         \/ frames' = Append(frames, Invocation(v))
         \/ frames' = [frames EXCEPT ![Len(frames)] = Invocation(v)]
  PROVE  MemoryStep /\ FramesStep
<1> DEFINE added == [i \in DOMAIN v.fields |-> memory[v.fields[i].cell]]
           overload == Resolve(Structs, Overloads[program], v.prototype)
<1>1. Len(frames) \in DOMAIN frames /\ program \in Program /\ memory \in Seq(Scalar)
  BY CurrentType DEF TypeOK
<1>2. /\ v \in StructValue /\ v.fields \in Seq(NamedCell) /\ v.prototype \in DOMAIN Structs
      /\ Cells(v) \subseteq DOMAIN memory
  BY <1>1, KnownType DEF Current
<1>3. added \in Seq(Scalar) /\ Len(v.fields) = Len(added)
  <2>1. \A i \in DOMAIN v.fields : memory[v.fields[i].cell] \in Scalar
    BY <1>1, <1>2 DEF Cells
  <2>2. DOMAIN v.fields = 1 .. Len(v.fields) /\ Len(v.fields) \in Nat
    BY <1>2
  <2> QED BY <2>1, <2>2
<1>4. memory' = memory \o added
  BY DEF Copied
<1>5. Copy(v) = [prototype |-> v.prototype,
                 fields |-> [i \in DOMAIN v.fields |->
                              [name |-> v.fields[i].name, cell |-> Len(memory) + i]]]
  <2> DEFINE fields == [i \in DOMAIN v.fields |->
                         [v.fields[i] EXCEPT !.cell = Len(memory) + i]]
             named == [i \in DOMAIN v.fields |->
                        [name |-> v.fields[i].name, cell |-> Len(memory) + i]]
  <2>1. Copy(v) = [v EXCEPT !.fields = fields]
    BY DEF Copy
  <2>2. \A i \in DOMAIN v.fields : v.fields[i] \in NamedCell
    BY <1>2
  <2>3. \A i \in DOMAIN v.fields :
          [v.fields[i] EXCEPT !.cell = Len(memory) + i]
            = [name |-> v.fields[i].name, cell |-> Len(memory) + i]
    BY <2>2 DEF NamedCell
  <2>4. fields = named
    BY <2>3
  <2> HIDE DEF fields, named
  <2>5. Copy(v) = [prototype |-> v.prototype, fields |-> named]
    BY <1>2, <2>1, <2>4 DEF StructValue
  <2> QED BY <2>5 DEF named
<1> HIDE DEF added
<1>6. \A t \in NamedCell : t.name \in FieldName
  BY DEF NamedCell
<1>7. Copy(v) \in StructValue' /\ \A c \in Cells(Copy(v)) : c \notin DOMAIN memory
  <2> DEFINE copy == Copy(v)
             fields == v.fields
             prototype == v.prototype
  <2>1. copy = [prototype |-> prototype,
                 fields |-> [i \in DOMAIN fields |->
                              [name |-> fields[i].name, cell |-> Len(memory) + i]]]
    BY <1>5
  <2>2. fields \in Seq(NamedCell) /\ prototype \in DOMAIN Structs /\ Len(fields) = Len(added)
    BY <1>2, <1>3
  <2> HIDE DEF copy, fields, prototype
  <2>3. copy \in StructValue' /\ \A c \in Cells(copy) : c \notin DOMAIN memory
    BY <1>3, <1>4, <1>6, <2>1, <2>2, FreshStruct
  <2> QED BY <2>3 DEF copy
<1>8. MemoryStep /\ memory' \in Seq(Scalar) /\ Len(memory) <= Len(memory')
  BY <1>3, <1>4, AppendedMemory
<1>9. overload \in Overloads[program]
  BY <1>1, <1>2, ResolutionPicks
<1>10. Invocation(v) = [overload |-> overload, argument |-> Copy(v), locals |-> {}]
  BY DEF Invocation
<1> DEFINE frame == Invocation(v)
           argument == Copy(v)
<1>11. FramesStep
  <2>1. /\ frame = [overload |-> overload, argument |-> argument, locals |-> {}]
        /\ argument \in StructValue' /\ \A c \in Cells(argument) : c \notin DOMAIN memory
        /\ frames' = Append(frames, frame) \/ frames' = [frames EXCEPT ![Len(frames)] = frame]
    BY <1>7, <1>10
  <2> HIDE DEF frame, argument, overload
  <2> QED BY <1>8, <1>9, <2>1, InvocationKeeps
<1> QED BY <1>8, <1>11

LEMMA CallKeeps ==
  ASSUME TypeOK, StructInv, NEW v \in Known(Current), Call(v) \/ TailCall(v)
  PROVE  StructStep
<1>1. Running
  BY DEF Call, TailCall
<1>2. Len(frames) \in DOMAIN frames /\ program \in Program /\ error = "none"
  BY <1>1, CurrentType
<1>3. v.prototype \in DOMAIN Structs
  BY <1>2, KnownType DEF Current
<1>4. CASE \E exception \in Resolution(v) : Throw(exception)
  BY <1>2, <1>3, <1>4, ResolutionType, ThrowKeeps
<1>5. CASE /\ Resolution(v) = {}
           /\ memory' = Copied(v)
           /\ \/ frames' = Append(frames, Invocation(v))
              \/ frames' = [frames EXCEPT ![Len(frames)] = Invocation(v)]
           /\ UNCHANGED <<program, error>>
  <2>1. MemoryStep /\ FramesStep
    BY <1>1, <1>5, CopyKeeps
  <2> QED BY <1>2, <1>5, <2>1, StepKeeps DEF Errors
<1> QED BY <1>4, <1>5 DEF Call, TailCall

LEMMA ReturnKeeps ==
  ASSUME TypeOK, StructInv, NEW v \in Known(Current), Return(v)
  PROVE  StructStep
<1> DEFINE stack == Front(frames)
           n == Len(frames)
<1>1. Running /\ n > 1 /\ Bind(stack, v) /\ program' = program /\ memory' = memory
      /\ error' = error
  BY DEF Return
<1>2. frames \in Seq(Frame) /\ n \in DOMAIN frames /\ error = "none" /\ n \in Nat
  BY <1>1, CurrentType
<1>3. v \in StructValue /\ Cells(v) \subseteq KnownCells(frames[n])
  BY <1>2, KnownType DEF Current
<1>4. /\ stack \in Seq(Frame) /\ stack # <<>> /\ Len(stack) = n - 1
      /\ \A k \in DOMAIN stack : k \in DOMAIN frames /\ stack[k] = frames[k]
  <2>1. stack = SubSeq(frames, 1, n - 1)
    BY DEF Front
  <2>2. n - 1 \in 1 .. n /\ DOMAIN frames = 1 .. n
    BY <1>1, <1>2
  <2> HIDE DEF stack, n
  <2>3. stack = [k \in 1 .. n - 1 |-> frames[k]]
    BY <1>2, <2>1, <2>2
  <2>4. \A k \in 1 .. n - 1 : k \in DOMAIN frames /\ frames[k] \in Frame
    BY <1>2, <2>2
  <2> QED BY <1>2, <2>2, <2>3, <2>4
<1>5. MemoryStep /\ memory' \in Seq(Scalar) /\ Len(memory) <= Len(memory')
  BY <1>1, SameMemory
<1>6. v \in StructValue'
  BY <1>1, <1>3, <1>5, TypesGrow
<1> HIDE DEF stack
<1>7. \A c \in Cells(v) : \E k \in DOMAIN frames : k >= Len(stack) /\ c \in KnownCells(frames[k])
  BY <1>2, <1>3, <1>4
<1>8. FramesStep
  BY <1>1, <1>4, <1>5, <1>6, <1>7, BindKeeps
<1> QED BY <1>1, <1>2, <1>5, <1>8, StepKeeps DEF Errors

LEMMA EndKeeps ==
  ASSUME TypeOK, StructInv, End
  PROVE  StructStep
<1>1. Running /\ frames' = <<>> /\ program' = program /\ memory' = memory /\ error' = error
  BY DEF End
<1>2. FramesStep
  BY <1>1 DEF FramesStep
<1> QED BY <1>1, <1>2, CurrentType, SameMemory, StepKeeps DEF Errors

LEMMA StutterKeeps ==
  ASSUME TypeOK, StructInv, UNCHANGED vars
  PROVE  StructStep
<1>1. program' = program /\ memory' = memory /\ frames' = frames /\ error' = error
  BY DEF vars
<1>2. error \in Errors
  BY DEF TypeOK, Errors
<1> QED BY <1>1, <1>2, SameMemory, SameFrames, StepKeeps

\* A value of another prototype, or with fields of other types, does not fit.
LEMMA FittingTypes ==
  ASSUME TypeOK, NEW v, v.prototype \in DOMAIN Structs, Fits(v)
  PROVE  /\ Current.argument # NoStruct
         /\ TypeOf(v).elements = TypeOf(Current.argument).elements
<1>1. program \in Program
  BY DEF TypeOK
<1>2. PICK n, height : Hierarchy(Structs, n, height)
  BY <1>1, TablesOfProgram, TableHierarchy
<1>3. PrototypeCompatibility(Structs, v.prototype, TypeOf(Current.argument).prototype) # 0
  BY <1>2, CompatibilityType
<1>4. TypeOf(v).prototype = v.prototype
  BY DEF TypeOf
<1> QED BY <1>3, <1>4 DEF Fits, UserTypeCompatibility

LEMMA JumpMemory ==
  ASSUME TypeOK, NEW v \in Known(Current), Jump(v)
  PROVE  MemoryStep /\ memory' \in Seq(Scalar) /\ Len(memory) <= Len(memory')
<1> DEFINE argument == Current.argument
           K == DOMAIN v.fields
           moved(c) == CHOOSE i \in K : argument.fields[i].cell = c
           content(c) == IF \E i \in K : argument.fields[i].cell = c
                         THEN memory[v.fields[moved(c)].cell]
                         ELSE memory[c]
<1>1. Running /\ Fits(v)
  BY DEF Jump
<1>2. /\ Len(frames) \in DOMAIN frames /\ memory \in Seq(Scalar) /\ frames # <<>>
      /\ Len(memory) \in Nat /\ DOMAIN memory = 1 .. Len(memory)
  BY <1>1, CurrentType DEF TypeOK, Running
<1>3. /\ v.fields \in Seq(NamedCell) /\ v.prototype \in DOMAIN Structs
      /\ Cells(v) \subseteq DOMAIN memory
  BY <1>2, KnownType DEF Current
<1>4. /\ argument # NoStruct
      /\ TypeOf(v).elements = TypeOf(argument).elements
  BY <1>1, <1>3, FittingTypes
<1>5. argument \in Known(Current)
  BY <1>4 DEF Known
<1>6. Cells(argument) \subseteq DOMAIN memory /\ Cells(argument) \subseteq KnownCells(Current)
  BY <1>2, <1>5, KnownType DEF Current
<1>7. DOMAIN argument.fields = K
  BY <1>4 DEF TypeOf
<1>8. \A i \in K : /\ memory[v.fields[i].cell].type = memory[argument.fields[i].cell].type
                   /\ argument.fields[i].cell \in Cells(argument)
                   /\ v.fields[i].cell \in DOMAIN memory
  BY <1>3, <1>4, <1>7 DEF TypeOf, Cells
<1>9. memory' = [c \in DOMAIN memory |-> content(c)]
  BY DEF Jump
<1> HIDE DEF argument, K
<1>10. ASSUME NEW c \in DOMAIN memory, \E i \in K : argument.fields[i].cell = c
       PROVE  content(c) \in Scalar /\ content(c).type = memory[c].type
              /\ c \in Cells(argument)
  <2>1. moved(c) \in K /\ argument.fields[moved(c)].cell = c
    BY <1>10
  <2>2. content(c) = memory[v.fields[moved(c)].cell]
    BY <1>10
  <2> HIDE DEF moved, content
  <2>3. v.fields[moved(c)].cell \in DOMAIN memory
    BY <1>8, <2>1
  <2> QED BY <1>2, <1>8, <2>1, <2>2, <2>3
<1>11. ASSUME NEW c \in DOMAIN memory, ~ (\E i \in K : argument.fields[i].cell = c)
       PROVE  content(c) = memory[c] /\ memory[c] \in Scalar
  BY <1>2, <1>11
<1> HIDE DEF content
<1>12. \A c \in DOMAIN memory : /\ content(c) \in Scalar /\ content(c).type = memory[c].type
                                /\ content(c) # memory[c] => c \in KnownCells(Current)
  BY <1>6, <1>10, <1>11
<1>13. memory' \in Seq(Scalar) /\ Len(memory') = Len(memory)
  BY <1>2, <1>9, <1>12
<1>14. \A c \in DOMAIN memory : memory'[c] = content(c)
  BY <1>9
<1> QED BY <1>2, <1>12, <1>13, <1>14 DEF MemoryStep

LEMMA JumpKeeps ==
  ASSUME TypeOK, StructInv, NEW v \in Known(Current), Jump(v)
  PROVE  StructStep
<1> DEFINE n == Len(frames)
           none == {}
           frame == [frames[n] EXCEPT !.locals = none]
<1>1. Running /\ program' = program /\ error' = error /\ frames' = [frames EXCEPT ![n].locals = {}]
  BY DEF Jump
<1>2. /\ frames \in Seq(Frame) /\ n \in DOMAIN frames /\ n \in Nat /\ DOMAIN frames = 1 .. n
      /\ error = "none"
  BY <1>1, CurrentType
<1>3. MemoryStep /\ memory' \in Seq(Scalar) /\ Len(memory) <= Len(memory')
  BY JumpMemory
<1>4. frames[n] \in Frame /\ none \in SUBSET StructValue
  BY <1>2
<1>5. frames' = [frames EXCEPT ![n] = frame]
  BY <1>1, <1>2
<1> HIDE DEF none
<1>6. frame \in Frame /\ frame.argument = frames[n].argument /\ frame.locals = none
  BY <1>4 DEF Frame
<1>7. KnownCells(frame) \subseteq KnownCells(frames[n])
  <2>1. Known(frame) \subseteq Known(frames[n])
    BY <1>6 DEF Known, none
  <2> HIDE DEF frame
  <2> QED BY <2>1, Zenon DEF KnownCells
<1> HIDE DEF frame
<1>8. Frame \subseteq Frame'
  BY <1>1, <1>3, TypesGrow
<1>9. frames \in Seq(Frame')
  BY <1>2, <1>8
<1> HIDE DEF n
<1>10. frames' \in Seq(Frame') /\ Len(frames') = n /\ frames'[n] = frame
       /\ \A k \in 1 .. n - 1 : k \in DOMAIN frames /\ frames'[k] = frames[k]
  <2>1. Len(frames) = n
    BY DEF n
  <2> QED BY <1>2, <1>5, <1>6, <1>8, <1>9, <2>1
<1>11. FramesStep
  BY <1>2, <1>7, <1>10 DEF FramesStep
<1> QED BY <1>1, <1>2, <1>3, <1>11, StepKeeps DEF Errors

-----------------------------------------------------------------------------
(* Imported functions.                                                     *)

LEMMA ImportMemory ==
  ASSUME TypeOK, NEW type \in DOMAIN Structs, NEW block,
         NEW read \in ReadProxy(block, DeclaredTypes(type))
  PROVE  read \in Seq(Scalar) /\ Len(read) = Len(FieldsOf(type))
<1>1. FieldsOf(type) \in Seq(FieldEmbryo)
  BY TablesOfProgram DEF TypeOK
<1>2. read \in [DOMAIN FieldsOf(type) -> Scalar]
  BY DEF ReadProxy, DeclaredTypes
<1>3. DOMAIN FieldsOf(type) = 1 .. Len(FieldsOf(type)) /\ Len(FieldsOf(type)) \in Nat
  BY <1>1
<1> QED BY <1>2, <1>3

LEMMA ImportKeeps ==
  ASSUME TypeOK, StructInv, NEW v \in Known(Current), NEW f \in Imports[program], Import(f, v)
  PROVE  StructStep
<1> DEFINE type == f.returns
           fields == FieldsOf(type)
           result == [prototype |-> type,
                      fields |-> [i \in DOMAIN fields |->
                                   [name |-> fields[i].name, cell |-> Len(memory) + i]]]
           overload == Resolve(Structs, Overloads[program], type)
           frame == [overload |-> overload, argument |-> result, locals |-> {}]
<1>1. Running
  BY DEF Import
<1>2. frames \in Seq(Frame) /\ program \in Program /\ error = "none"
  BY <1>1, CurrentType
<1>3. type \in DOMAIN Structs
  BY <1>2, ImportAssumption, TablesOfProgram
<1>4. result.prototype = type
  OBVIOUS
<1>5. CASE \/ Throw("FunctionNotFoundException")
           \/ Throw("Crash")
           \/ \E exception \in Resolution(result) : Throw(exception)
  <2>1. Resolution(result) \subseteq Errors
    <3> HIDE DEF result
    <3> QED BY <1>2, <1>3, <1>4, ResolutionType
  <2> HIDE DEF result
  <2> QED BY <1>5, <2>1, ThrowKeeps DEF Errors
<1>6. CASE /\ Resolution(result) = {}
           /\ \E block \in Returned(f, v) :
                \E read \in ReadProxy(block, DeclaredTypes(type)) : memory' = memory \o read
           /\ frames' = Append(frames, frame)
           /\ UNCHANGED <<program, error>>
  <2>0. PICK block \in Returned(f, v) :
          \E read \in ReadProxy(block, DeclaredTypes(type)) : memory' = memory \o read
    BY <1>6
  <2>1. PICK read \in ReadProxy(block, DeclaredTypes(type)) : memory' = memory \o read
    BY <2>0
  <2>2. fields \in Seq(FieldEmbryo)
    BY <1>2, <1>3, TablesOfProgram
  <2>3. \A t \in FieldEmbryo : t.name \in FieldName
    BY DEF FieldEmbryo
  <2>4. /\ program' = program /\ error' = "none" /\ frames' = Append(frames, frame)
        /\ Resolution(result) = {}
    BY <1>2, <1>6
  <2> HIDE DEF type
  <2>5. read \in Seq(Scalar) /\ Len(fields) = Len(read)
    BY <1>3, <2>1, ImportMemory
  <2> HIDE DEF fields
  <2>6. result \in StructValue' /\ \A c \in Cells(result) : c \notin DOMAIN memory
    BY <1>3, <2>1, <2>2, <2>3, <2>4, <2>5, FreshStruct
  <2> HIDE DEF result
  <2>7. MemoryStep /\ memory' \in Seq(Scalar) /\ Len(memory) <= Len(memory')
    BY <2>1, <2>5, AppendedMemory
  <2>8. overload \in Overloads[program]
    <3>1. Resolve(Structs, Overloads[program], result.prototype) \in Overloads[program]
      BY <1>2, <1>3, <1>4, <2>4, ResolutionPicks
    <3> QED BY <1>4, <3>1
  <2> HIDE DEF overload
  <2>9. frame = [overload |-> overload, argument |-> result, locals |-> {}]
    OBVIOUS
  <2> HIDE DEF frame
  <2>10. FramesStep
    BY <1>1, <2>4, <2>6, <2>7, <2>8, <2>9, InvocationKeeps
  <2> QED BY <2>4, <2>7, <2>10, StepKeeps DEF Errors
<1> QED BY <1>5, <1>6 DEF Import

-----------------------------------------------------------------------------
(* Where the fields of a block are.                                        *)

LEMMA AlignedType ==
  ASSUME NEW m \in Nat, NEW size \in Nat \ {0}
  PROVE  Aligned(m, size) \in Nat /\ m <= Aligned(m, size)
<1> DEFINE q == (m + size - 1) \div size
           r == (m + size - 1) % size
<1>1. m + size - 1 \in Nat
  OBVIOUS
<1>2. q \in Nat /\ r \in 0 .. size - 1 /\ m + size - 1 = size * q + r
  BY <1>1
<1> HIDE DEF q, r
<1>3. size * q \in Nat /\ size * q = q * size
  BY <1>2
<1>4. m <= q * size
  BY <1>2, <1>3
<1> QED BY <1>3, <1>4 DEF Aligned, q

LEMMA OffsetsStep ==
  ASSUME NEW n \in Nat, NEW types \in [1 .. n -> DOMAIN Size]
  PROVE  /\ Offsets(types) \in [1 .. n -> Nat]
         /\ \A i \in 1 .. n : i # 1 => Offsets(types)[i - 1] < Offsets(types)[i]
<1> DEFINE D == 1 .. n
           T == Nat
           body(f, i) == IF i = 1 THEN 0
                         ELSE Aligned(f[i - 1] + Size[types[i - 1]], Size[types[i]])
           step == [i \in D |-> [f \in [D -> T] |-> body(f, i)]]
           rank == [i \in D |-> i]
           F == CHOOSE f : f = [i \in D |-> body(f, i)]
<1>1. Offsets(types) = F
  BY DEF Offsets
<1>2. \A i \in D : Size[types[i]] \in Nat \ {0}
  BY SizeAssumption
<1>3. ASSUME NEW f, NEW i \in D, i # 1, f[i - 1] \in Nat
      PROVE  body(f, i) \in T /\ f[i - 1] < body(f, i)
  <2> DEFINE m == f[i - 1] + Size[types[i - 1]]
             size == Size[types[i]]
  <2>1. i - 1 \in D
    BY <1>3
  <2>2. m \in Nat /\ f[i - 1] < m /\ size \in Nat \ {0}
    BY <1>2, <1>3, <2>1
  <2>3. body(f, i) = Aligned(m, size)
    BY <1>3
  <2> HIDE DEF m, size, body
  <2>4. Aligned(m, size) \in Nat /\ m <= Aligned(m, size)
    BY <2>2, AlignedType
  <2> QED BY <1>3, <2>2, <2>3, <2>4
<1>4. \A f : body(f, 1) = 0
  OBVIOUS
<1>5. \A i \in D : i # 1 => i - 1 \in D /\ i - 1 < i
  OBVIOUS
<1>6. \A f \in [D -> T] : \A i \in D : body(f, i) \in T
  <2> HIDE DEF body
  <2> QED BY <1>3, <1>4, <1>5
<1>7. \A f, h : \A i \in D : (i # 1 => f[i - 1] = h[i - 1]) => body(f, i) = body(h, i)
  OBVIOUS
<1> HIDE DEF body
<1>8. step \in [D -> [[D -> T] -> T]] /\ \A i \in D : \A f \in [D -> T] : step[i][f] = body(f, i)
  BY <1>6
<1>9. rank \in [D -> 0 .. n] /\ \A i \in D : rank[i] = i
  OBVIOUS
<1>10. IsRecursion(D, T, n, rank, step)
  <2>1. ASSUME NEW i \in D, NEW f \in [D -> T], NEW h \in [D -> T],
               \A j \in D : rank[j] < rank[i] => f[j] = h[j]
        PROVE  step[i][f] = step[i][h]
    <3>1. i # 1 => f[i - 1] = h[i - 1]
      BY <1>5, <1>9, <2>1
    <3>2. body(f, i) = body(h, i)
      BY <1>7, <3>1
    <3>3. step[i][f] = body(f, i) /\ step[i][h] = body(h, i)
      <4> HIDE DEF step, rank, D, T
      <4> QED BY <1>8
    <3> HIDE DEF step
    <3> QED BY <3>2, <3>3
  <2>2. T # {} /\ n \in Nat
    OBVIOUS
  <2>3. step \in [D -> [[D -> T] -> T]]
    BY <1>8
  <2>4. rank \in [D -> 0 .. n]
    BY <1>9
  <2> HIDE DEF T, D, rank, step
  <2> QED BY <2>1, <2>2, <2>3, <2>4, Zenon DEF IsRecursion
<1>11. PICK f \in [D -> T] : \A i \in D : f[i] = step[i][f]
  <2> HIDE DEF D, T, step, rank
  <2> QED BY <1>10, RecursionExists
<1>12. f = [i \in D |-> body(f, i)]
  <2> HIDE DEF step
  <2>1. \A i \in D : f[i] = body(f, i)
    BY <1>8, <1>11
  <2> QED BY <1>11, <2>1
<1>13. F = [i \in D |-> body(F, i)]
  BY <1>12, Zenon
<1> DEFINE Good == {i \in D : F[i] \in T}
<1>14. D \subseteq Good
  <2>1. ASSUME NEW i \in D, \A j \in D : rank[j] < rank[i] => j \in Good
        PROVE  i \in Good
    <3> HIDE DEF F, rank
    <3>1. F[i] = body(F, i)
      BY <1>13
    <3>2. i # 1 => F[i - 1] \in T
      BY <1>5, <1>9, <2>1
    <3>3. body(F, i) \in T
      BY <1>3, <1>4, <3>2
    <3> QED BY <3>1, <3>3
  <2>2. rank \in [D -> Nat]
    OBVIOUS
  <2> HIDE DEF Good, D, rank
  <2> QED BY <2>1, <2>2, RankInduction
<1> HIDE DEF F
<1>15. F \in [D -> T]
  BY <1>13, <1>14
<1>16. \A i \in D : i # 1 => F[i - 1] < F[i]
  BY <1>3, <1>5, <1>13, <1>15
<1> QED BY <1>1, <1>15, <1>16

\* No two fields are at the same place.
LEMMA OffsetsApart ==
  ASSUME NEW n \in Nat, NEW types \in [1 .. n -> DOMAIN Size],
         NEW i \in 1 .. n, NEW j \in 1 .. n, Offsets(types)[i] = Offsets(types)[j]
  PROVE  i = j
<1> DEFINE F == Offsets(types)
<1>1. F \in [1 .. n -> Nat] /\ \A k \in 1 .. n : k # 1 => F[k - 1] < F[k]
  BY OffsetsStep
<1> HIDE DEF F
<1>2. ASSUME NEW a \in 1 .. n, NEW b \in 1 .. n, a < b, ~ (F[a] < F[b]) PROVE FALSE
  <2> DEFINE S == {k \in 1 .. n : a < k /\ ~ (F[a] < F[k])}
  <2>1. S \subseteq Nat /\ S # {}
    BY <1>2
  <2>2. PICK k \in S : \A l \in S : k <= l
    <3> HIDE DEF S
    <3> QED BY <2>1, LeastNumber
  <2>3. k \in 1 .. n /\ a < k /\ k # 1 /\ k - 1 \in 1 .. n /\ k - 1 \notin S /\ ~ (F[a] < F[k])
    BY <2>2
  <2>4. F[a] \in Nat /\ F[k] \in Nat /\ F[k - 1] \in Nat /\ F[k - 1] < F[k]
    BY <1>1, <2>3
  <2>5. CASE k - 1 = a
    BY <2>3, <2>4, <2>5
  <2>6. CASE k - 1 # a
    <3>1. a < k - 1
      BY <2>3, <2>6
    <3>2. F[a] < F[k - 1]
      BY <2>3, <3>1
    <3> QED BY <2>3, <2>4, <3>2
  <2> QED BY <2>5, <2>6
<1>3. F[i] \in Nat /\ F[i] = F[j]
  BY <1>1 DEF F
<1>4. ~ (i < j) /\ ~ (j < i)
  BY <1>2, <1>3
<1> QED BY <1>4

-----------------------------------------------------------------------------
(* What a name means.                                                      *)

LEMMA OneMore ==
  ASSUME NEW S, NEW s \in Seq(S), NEW t \in S
  PROVE  s \o <<t>> = Append(s, t) /\ Append(s, t) # <<>>
OBVIOUS

LEMMA FullNames ==
  ASSUME program \in Program
  PROVE  /\ Declarations[program] \in Seq(Declaration)
         /\ \A d \in Range(Declarations[program]) :
              FullName(d) = Append(d.namespaces, d.tag) /\ FullName(d) # UnknownType
         /\ DOMAIN Structs = {FullName(d) : d \in Range(Declarations[program])}
         /\ UnknownType \notin Builtin \cup DOMAIN Structs
<1>1. Declarations[program] \in Seq(Declaration)
  BY Zenon, ProgramAssumption
<1>2. ASSUME NEW d \in Range(Declarations[program])
      PROVE  FullName(d) = Append(d.namespaces, d.tag) /\ FullName(d) # UnknownType
  <2>1. d \in Declaration
    BY <1>1 DEF Range
  <2>2. d.namespaces \in Seq(STRING) /\ d.tag \in STRING /\ d.tag # ""
    BY <2>1 DEF Declaration
  <2>3. FullName(d) = d.namespaces \o <<d.tag>>
    BY <2>2 DEF FullName, QualifiedNames
  <2>4. d.namespaces \o <<d.tag>> = Append(d.namespaces, d.tag)
        /\ Append(d.namespaces, d.tag) # <<>>
    BY <2>2, OneMore
  <2> QED BY <2>3, <2>4 DEF UnknownType
<1>3. DOMAIN Structs = {FullName(d) : d \in Range(Declarations[program])}
  <2>1. DOMAIN Structs = {FullName(Declarations[program][i]) : i \in DOMAIN Declarations[program]}
    BY DEF Structs, TypeTables, TypeTable
  <2> QED BY <2>1 DEF Range
<1>4. UnknownType \notin Builtin
  BY DEF UnknownType, Builtin
<1>5. UnknownType \notin DOMAIN Structs
  BY <1>2, <1>3
<1> QED BY <1>1, <1>2, <1>3, <1>4, <1>5

\* Of one name or two, the first known one is taken.
LEMMA FirstOfTwo ==
  ASSUME NEW table, NEW a, NEW b, UnknownType \notin Builtin \cup DOMAIN table
  PROVE  /\ ResolveType(table, <<a>>) = IF a \in Builtin \cup DOMAIN table THEN a ELSE UnknownType
         /\ ResolveType(table, <<a, b>>) = IF a \in Builtin \cup DOMAIN table THEN a
                                           ELSE IF b \in Builtin \cup DOMAIN table THEN b
                                           ELSE UnknownType
<1> DEFINE types == Builtin \cup DOMAIN table
<1> HIDE DEF types
<1>1. /\ Min({1}) = 1
      /\ Min({2}) = 2
      /\ Min({1, 2}) = 1
  BY DEF Min
<1>2. ResolveType(table, <<a>>) = IF a \in types THEN a ELSE UnknownType
  <2> DEFINE known == {i \in DOMAIN <<a>> : <<a>>[i] \in types}
  <2>1. known = IF a \in types THEN {1} ELSE {}
    OBVIOUS
  <2>2. ResolveType(table, <<a>>) = IF known = {} THEN UnknownType ELSE <<a>>[Min(known)]
    BY DEF ResolveType, types
  <2> HIDE DEF known
  <2>3. CASE a \in types
    <3>1. known = {1}
      BY <2>1, <2>3
    <3> QED BY <1>1, <2>2, <2>3, <3>1
  <2>4. CASE a \notin types
    BY <2>1, <2>2, <2>4
  <2> QED BY <2>3, <2>4
<1>3. ResolveType(table, <<a, b>>) = IF a \in types THEN a
                                     ELSE IF b \in types THEN b ELSE UnknownType
  <2> DEFINE known == {i \in DOMAIN <<a, b>> : <<a, b>>[i] \in types}
  <2>1. /\ a \in types /\ b \in types => known = {1, 2}
        /\ a \in types /\ b \notin types => known = {1}
        /\ a \notin types /\ b \in types => known = {2}
        /\ a \notin types /\ b \notin types => known = {}
    OBVIOUS
  <2>2. ResolveType(table, <<a, b>>) = IF known = {} THEN UnknownType ELSE <<a, b>>[Min(known)]
    BY DEF ResolveType, types
  <2> HIDE DEF known
  <2>3. CASE a \in types
    <3>1. known # {} /\ Min(known) = 1
      BY <1>1, <2>1, <2>3
    <3> QED BY <2>2, <2>3, <3>1
  <2>4. CASE a \notin types /\ b \in types
    <3>1. known # {} /\ Min(known) = 2
      BY <1>1, <2>1, <2>4
    <3> QED BY <2>2, <2>4, <3>1
  <2>5. CASE a \notin types /\ b \notin types
    BY <2>1, <2>2, <2>5
  <2> QED BY <2>3, <2>4, <2>5
<1> QED BY <1>2, <1>3 DEF types

LEMMA OfOneSegment ==
  ASSUME NEW namespaces \in Seq(STRING), NEW written \in Seq(STRING),
         NEW near, near = namespaces \o written, near \in Builtin
  PROVE  near = written \/ written = UnknownType
<1>1. PICK s : near = <<s>>
  BY DEF Builtin
<1>2. Len(namespaces) + Len(written) = 1
  <2>1. Len(<<s>>) = 1
    OBVIOUS
  <2>2. Len(namespaces \o written) = Len(namespaces) + Len(written)
    OBVIOUS
  <2>3. namespaces \o written = <<s>>
    BY <1>1
  <2> QED BY <2>1, <2>2, <2>3
<1>3. CASE Len(namespaces) = 0
  BY <1>3
<1>4. CASE Len(written) = 0
  BY <1>4 DEF UnknownType
<1>5. Len(namespaces) \in Nat /\ Len(written) \in Nat
  OBVIOUS
<1> QED BY <1>2, <1>3, <1>4, <1>5

\* Wherever a name is written, it means the structure it is resolved to.
LEMMA MeantIsResolved ==
  ASSUME program \in Program,
         NEW namespaces \in Seq(STRING), NEW written \in Seq(STRING),
         NEW type, type = ResolveType(Structs, QualifiedNames(namespaces, written))
  PROVE  Meant(namespaces, written) = IF type \in DOMAIN Structs THEN {type} ELSE {}
<1> DEFINE full(d) == Append(d.namespaces, d.tag)
           declared(name) ==
             {full(d) : d \in {d \in Range(Declarations[program]) : full(d) = name}}
           types == Builtin \cup DOMAIN Structs
<1>1. UnknownType \notin types
  BY FullNames
<1>3. \A name : declared(name) = IF name \in DOMAIN Structs THEN {name} ELSE {}
  <2>1. \A d \in Range(Declarations[program]) : full(d) = FullName(d)
    BY FullNames
  <2>2. DOMAIN Structs = {full(d) : d \in Range(Declarations[program])}
    <3>1. DOMAIN Structs = {FullName(d) : d \in Range(Declarations[program])}
      BY FullNames
    <3> HIDE DEF full
    <3> QED BY <2>1, <3>1
  <2> HIDE DEF full
  <2>3. \A name : name \in DOMAIN Structs => declared(name) = {name}
    BY <2>2
  <2>4. \A name : name \notin DOMAIN Structs => declared(name) = {}
    BY <2>2
  <2> QED BY <2>3, <2>4
<1>5. Meant(namespaces, written) =
        IF written[1] = "" THEN declared(Tail(written))
        ELSE IF declared(namespaces \o written) # {} THEN declared(namespaces \o written)
        ELSE declared(written)
  BY DEF Meant
<1> HIDE DEF declared
<1>6. CASE written[1] = ""
  <2>1. QualifiedNames(namespaces, written) = <<Tail(written)>>
    BY <1>6 DEF QualifiedNames
  <2>2. type = IF Tail(written) \in types THEN Tail(written) ELSE UnknownType
    BY <1>1, <2>1, FirstOfTwo
  <2> QED BY <1>1, <1>3, <1>5, <1>6, <2>2
<1>7. CASE written[1] # ""
  <2> DEFINE near == namespaces \o written
  <2>1. QualifiedNames(namespaces, written) = <<near, written>>
    BY <1>7 DEF QualifiedNames
  <2>2. near \in Builtin => near = written \/ written = UnknownType
    BY OfOneSegment
  <2>3. Meant(namespaces, written) = IF declared(near) # {} THEN declared(near)
                                     ELSE declared(written)
    BY <1>5, <1>7
  <2> HIDE DEF near
  <2>4. type = IF near \in types THEN near ELSE IF written \in types THEN written ELSE UnknownType
    <3>1. UnknownType \notin Builtin \cup DOMAIN Structs
      BY <1>1
    <3>2. ResolveType(Structs, <<near, written>>) =
            IF near \in Builtin \cup DOMAIN Structs THEN near
            ELSE IF written \in Builtin \cup DOMAIN Structs THEN written
            ELSE UnknownType
      BY <3>1, FirstOfTwo
    <3> QED BY <2>1, <3>2
  <2>5. CASE near \in DOMAIN Structs
    BY <1>3, <2>3, <2>4, <2>5
  <2>6. CASE near \in Builtin \ DOMAIN Structs
    <3>1. written \notin DOMAIN Structs
      BY <1>1, <2>2, <2>6
    <3> QED BY <1>3, <2>3, <2>4, <2>6, <3>1
  <2>7. CASE near \notin types
    BY <1>1, <1>3, <2>3, <2>4, <2>7
  <2> QED BY <2>5, <2>6, <2>7
<1> QED BY <1>6, <1>7

LEMMA MeantIsNamed ==
  ASSUME TypeOK, Running, NEW written \in Written[program]
  PROVE  Meant(Current.overload.namespaces, written) =
           IF TypeNamed(written) = UnknownType THEN {} ELSE {TypeNamed(written)}
<1> DEFINE overload == Current.overload
           type == TypeNamed(written)
<1>1. program \in Program /\ overload \in Overloads[program] \cup {Main}
  BY CurrentType
<1>2. type \in DOMAIN Structs \cup {UnknownType} /\ UnknownType \notin DOMAIN Structs
  BY <1>1, NamedIsStruct, FullNames
<1>3. type = ResolveType(Structs, QualifiedNames(overload.namespaces, written))
  BY <1>1 DEF TypeNamed, TypesNamed, Structs
<1>4. overload.namespaces \in Seq(STRING) /\ written \in Seq(STRING)
  <2>1. /\ Overloads[program] \subseteq [namespaces: Seq(STRING), type: Seq(STRING)]
        /\ Written[program] \subseteq Seq(STRING)
    BY <1>1, Zenon, ProgramAssumption
  <2>2. Main.namespaces \in Seq(STRING)
    BY DEF Main
  <2> QED BY <1>1, <2>1, <2>2
<1> HIDE DEF type, overload
<1>5. Meant(overload.namespaces, written) = IF type \in DOMAIN Structs THEN {type} ELSE {}
  BY <1>1, <1>3, <1>4, MeantIsResolved
<1> QED BY <1>2, <1>5 DEF type, overload

-----------------------------------------------------------------------------
(* The theorems.                                                           *)

Inv == TypeOK /\ StructInv

LEMMA InitInv ==
  ASSUME Init
  PROVE  Inv
<1> DEFINE none == {}
           frame == [overload |-> Main, argument |-> NoStruct, locals |-> none]
<1>1. program \in Program /\ memory = <<>> /\ frames = <<frame>> /\ error = "none"
  BY DEF Init
<1>2. none \in SUBSET StructValue
  OBVIOUS
<1> HIDE DEF none
<1>3. frame \in Frame
  BY <1>2 DEF Frame
<1> HIDE DEF frame
<1>4. frames \in Seq(Frame) /\ DOMAIN frames = {1}
  BY <1>1, <1>3
<1>5. TypeOK
  BY <1>1, <1>4 DEF TypeOK
<1>6. StructInv
  BY <1>4 DEF StructInv, Apart
<1> QED BY <1>5, <1>6 DEF Inv

LEMMA NextKeeps ==
  ASSUME Inv, [NextOrImport]_vars
  PROVE  StructStep
<1>1. TypeOK /\ StructInv
  BY DEF Inv
<1>2. ASSUME NEW given \in Assignments, NEW written \in Written[program],
             Instantiate(written, given)
      PROVE  StructStep
  BY <1>1, <1>2, InstantiateKeeps
<1>3. ASSUME NEW given \in Assignments, NEW v \in Known(Current), With(v, given)
      PROVE  StructStep
  BY <1>1, <1>3, WithKeeps
<1>4. ASSUME NEW v \in Known(Current), Call(v) \/ TailCall(v)
      PROVE  StructStep
  BY <1>1, <1>4, CallKeeps
<1>5. ASSUME NEW v \in Known(Current), Jump(v)
      PROVE  StructStep
  BY <1>1, <1>5, JumpKeeps
<1>6. ASSUME NEW v \in Known(Current), Return(v)
      PROVE  StructStep
  BY <1>1, <1>6, ReturnKeeps
<1>7. CASE End
  BY <1>1, <1>7, EndKeeps
<1>8. CASE Stopped
  BY <1>1, <1>8, StutterKeeps DEF Stopped
<1>9. CASE UNCHANGED vars
  BY <1>1, <1>9, StutterKeeps
<1>10. ASSUME NEW v \in Known(Current), NEW f \in Imports[program], Import(f, v)
       PROVE  StructStep
  BY <1>1, <1>10, ImportKeeps
<1> QED BY <1>2, <1>3, <1>4, <1>5, <1>6, <1>7, <1>8, <1>9, <1>10, Zenon DEF NextOrImport, Next

LEMMA SpecInv ==
  InteropSpec => []Inv
<1>1. Init => Inv
  BY InitInv
<1>2. Inv /\ [NextOrImport]_vars => Inv'
  <2> SUFFICES ASSUME Inv, [NextOrImport]_vars PROVE Inv'
    OBVIOUS
  <2>1. StructStep
    BY NextKeeps
  <2> QED BY <2>1 DEF StructStep, Inv
<1> QED BY <1>1, <1>2, PTL DEF InteropSpec

\* The program, the memory and the invocations are what they are said to be:
\* every cell a structure names exists and holds a scalar, whatever is
\* declared, called, overwritten or read back from C.
THEOREM TypeCorrect == InteropSpec => []TypeOK
<1>1. Inv => TypeOK
  BY DEF Inv
<1> QED BY <1>1, SpecInv, PTL

\* The structures of the invocations that wait stay as they are.
THEOREM CallersCorrect == InteropSpec => CallersStructsAreKept
<1>1. Inv /\ [NextOrImport]_vars =>
        [\A i \in 1 .. Len(frames) - 1 : \A v \in Known(frames[i]) : \A c \in Cells(v) :
           memory'[c] = memory[c]]_vars
  BY NextKeeps DEF StructStep, CallersKept
<1> QED BY <1>1, SpecInv, PTL DEF InteropSpec, CallersStructsAreKept

\* An alloca has one type for good.
THEOREM CellsCorrect == InteropSpec => CellsKeepTheirType
<1>1. Inv /\ [NextOrImport]_vars =>
        [\A c \in DOMAIN memory : memory'[c].type = memory[c].type]_vars
  BY NextKeeps DEF StructStep, TypesKept
<1> QED BY <1>1, SpecInv, PTL DEF InteropSpec, CellsKeepTheirType

LEMMA TypedArrives ==
  ASSUME TypeOK
  PROVE  ArrivesAsItIs
<1> SUFFICES ASSUME Running, NEW v \in Known(Current), NEW f \in Imports[program],
                    TypeOf(v).elements = DeclaredTypes(f.parameter)
             PROVE  ReadProxy(WriteProxy(v), DeclaredTypes(f.parameter))
                      = {[i \in DOMAIN v.fields |-> memory[v.fields[i].cell]]}
  BY Zenon DEF ArrivesAsItIs
<1> DEFINE K == DOMAIN v.fields
           n == Len(v.fields)
           types == TypeOf(v).elements
           content == [i \in K |-> memory[v.fields[i].cell]]
           offset == Offsets(types)
           block == {[at |-> offset[i], value |-> content[i]] : i \in K}
<1>1. Len(frames) \in DOMAIN frames /\ memory \in Seq(Scalar)
  BY CurrentType DEF TypeOK
<1>2. v.fields \in Seq(NamedCell) /\ Cells(v) \subseteq DOMAIN memory
  BY <1>1, KnownType DEF Current
<1>3. K = 1 .. n /\ n \in Nat
  BY <1>2
<1>4. \A i \in K : memory[v.fields[i].cell] \in Scalar
  BY <1>1, <1>2 DEF Cells
<1>5. content \in [K -> Scalar]
  BY <1>4
<1>6. types = [i \in K |-> content[i].type]
  BY DEF TypeOf
<1>7. WriteProxy(v) = block
  BY DEF WriteProxy
<1> HIDE DEF content, types
<1>8. types \in [1 .. n -> DOMAIN Size]
  <2>1. \A i \in K : content[i].type \in DOMAIN Size
    BY <1>5, SizeAssumption
  <2> HIDE DEF K
  <2> QED BY <1>3, <1>6, <2>1
<1>9. \A i, j \in K : offset[i] = offset[j] => i = j
  <2> HIDE DEF offset, K, n
  <2> QED BY <1>3, <1>8, OffsetsApart DEF offset
<1>10. ReadProxy(block, types) =
         {read \in [K -> Scalar] :
            \A i \in K :
              /\ read[i].type = types[i]
              /\ \A piece \in block :
                   piece.at = offset[i] /\ piece.value.type = types[i] => read[i] = piece.value}
  <2>1. DOMAIN types = K
    BY <1>6
  <2> HIDE DEF K, block
  <2> QED BY <2>1, Zenon DEF ReadProxy
<1> HIDE DEF offset, K
<1>11. content \in ReadProxy(block, types)
  <2>1. \A i \in K : content[i].type = types[i]
    BY <1>6
  <2>2. ASSUME NEW i \in K, NEW piece \in block, piece.at = offset[i]
        PROVE  content[i] = piece.value
    <3>1. PICK j \in K : piece = [at |-> offset[j], value |-> content[j]]
      OBVIOUS
    <3> QED BY <1>9, <2>2, <3>1
  <2> HIDE DEF block
  <2> QED BY <1>5, <1>10, <2>1, <2>2
<1>12. ASSUME NEW read \in ReadProxy(block, types) PROVE read = content
  <2>1. /\ read \in [K -> Scalar]
        /\ \A i \in K : \A piece \in block :
             piece.at = offset[i] /\ piece.value.type = types[i] => read[i] = piece.value
    <3> HIDE DEF block
    <3> QED BY <1>10, <1>12
  <2>2. ASSUME NEW i \in K PROVE read[i] = content[i]
    <3> DEFINE piece == [at |-> offset[i], value |-> content[i]]
    <3>1. piece \in block /\ piece.at = offset[i] /\ piece.value = content[i]
      OBVIOUS
    <3>2. piece.value.type = types[i]
      BY <1>6, <3>1
    <3> HIDE DEF piece, block
    <3> QED BY <2>1, <3>1, <3>2
  <2> QED BY <1>5, <2>1, <2>2
<1>13. ReadProxy(block, types) = {content}
  <2> HIDE DEF block
  <2> QED BY <1>11, <1>12
<1> QED BY <1>7, <1>13 DEF content, types, K

\* A structure with the declared fields arrives in C as it is: no two of its
\* fields overlap, whatever the sizes of the types are.
THEOREM ArrivesCorrect == InteropSpec => []ArrivesAsItIs
<1>1. Inv => ArrivesAsItIs
  BY TypedArrives DEF Inv
<1> QED BY <1>1, SpecInv, PTL

-----------------------------------------------------------------------------
(* Structures none of which has two fields of one name.                    *)

DistinctFields ==
  \A tag \in DOMAIN Structs : \A i, j \in DOMAIN FieldsOf(tag) :
    FieldsOf(tag)[i].name = FieldsOf(tag)[j].name => i = j

LEMMA DistinctStays ==
  InteropSpec /\ DistinctFields => []DistinctFields
<1>1. Inv /\ DistinctFields /\ [NextOrImport]_vars => DistinctFields'
  <2> SUFFICES ASSUME Inv, DistinctFields, [NextOrImport]_vars PROVE DistinctFields'
    OBVIOUS
  <2>1. program' = program
    BY NextKeeps DEF StructStep
  <2>2. Structs' = Structs /\ \A tag : FieldsOf(tag)' = FieldsOf(tag)
    BY <2>1 DEF Structs, FieldsOf
  <2> QED BY <2>2 DEF DistinctFields
<1> QED BY <1>1, SpecInv, PTL DEF InteropSpec

\* Every field takes the value of its name then, and its default is the one
\* that is nearest.
LEMMA DistinctField ==
  ASSUME program \in Program, DistinctFields, NEW tag \in DOMAIN Structs, NEW given,
         NEW i \in DOMAIN FieldsOf(tag)
  PROVE  /\ Takes(FieldsOf(tag), given, i) <=> FieldsOf(tag)[i].name \in DOMAIN given
         /\ DefaultOf(tag, FieldsOf(tag)[i].name) = FieldsOf(tag)[i].default
         /\ FieldsOf(tag)[i].name \in Names(FieldsOf(tag))
<1> DEFINE fields == FieldsOf(tag)
           name == fields[i].name
           found == {j \in DOMAIN fields : fields[j].name = name}
<1>1. fields \in Seq(FieldEmbryo)
  BY TablesOfProgram
<1>2. \A j \in DOMAIN fields : fields[j].name = name => j = i
  BY DEF DistinctFields
<1>3. i \in Nat /\ \A j \in 1 .. i - 1 : j \in DOMAIN fields /\ j # i
  BY <1>1
<1>4. Takes(fields, given, i) <=> name \in DOMAIN given
  BY <1>2, <1>3 DEF Takes
<1>5. found = {i}
  BY <1>2
<1>6. DefaultOf(tag, name) = fields[CHOOSE j \in found : \A k \in found : j <= k].default
  BY DEF DefaultOf
<1>7. (CHOOSE j \in found : \A k \in found : j <= k) = i
  <2> HIDE DEF found
  <2> QED BY <1>3, <1>5
<1>8. name \in Names(fields)
  BY DEF Names
<1> QED BY <1>4, <1>6, <1>7, <1>8

LEMMA DistinctRejection ==
  ASSUME TypeOK, DistinctFields
  PROVE  RejectedForAReason
<1> SUFFICES ASSUME Running, NEW written \in Written[program], NEW given \in Assignments
             PROVE  (Rejection(written, given) # "none") = Incomplete(written, given)
  BY Zenon DEF RejectedForAReason
<1> DEFINE type == TypeNamed(written)
           fields == FieldsOf(type)
           meant == Meant(Current.overload.namespaces, written)
<1>1. program \in Program /\ Current.overload \in Overloads[program] \cup {Main}
  BY CurrentType
<1>2. meant = IF type = UnknownType THEN {} ELSE {type}
  BY MeantIsNamed
<1>3. type \in DOMAIN Structs \cup {UnknownType}
  BY <1>1, NamedIsStruct
<1>4. Rejection(written, given) = IF type = UnknownType THEN "UnknownTypeException"
                                  ELSE InstantiationError(fields, given)
  BY DEF Rejection
<1>5. Incomplete(written, given) =
        \A tag \in meant :
          \/ ~(DOMAIN given \subseteq Names(FieldsOf(tag)))
          \/ \E name \in Names(FieldsOf(tag)) \ DOMAIN given : DefaultOf(tag, name) = NoDefault
  BY DEF Incomplete
<1> HIDE DEF type, meant
<1>6. CASE type = UnknownType
  BY <1>2, <1>4, <1>5, <1>6
<1>7. CASE type # UnknownType
  <2>1. type \in DOMAIN Structs /\ meant = {type}
    BY <1>2, <1>3, <1>7
  <2>2. \A i \in DOMAIN fields :
          /\ Takes(fields, given, i) <=> fields[i].name \in DOMAIN given
          /\ DefaultOf(type, fields[i].name) = fields[i].default
    BY <1>1, <2>1, DistinctField
  <2> HIDE DEF fields
  <2>3. (\E i \in DOMAIN fields : ~Takes(fields, given, i) /\ fields[i].default = NoDefault)
        <=> (\E name \in Names(fields) \ DOMAIN given : DefaultOf(type, name) = NoDefault)
    BY <2>2 DEF Names
  <2>4. (\E name \in DOMAIN given : name \notin Names(fields))
        <=> ~(DOMAIN given \subseteq Names(fields))
    OBVIOUS
  <2>5. (InstantiationError(fields, given) # "none")
        <=> \/ \E i \in DOMAIN fields : ~Takes(fields, given, i) /\ fields[i].default = NoDefault
            \/ \E name \in DOMAIN given : name \notin Names(fields)
    BY DEF InstantiationError
  <2>6. Incomplete(written, given)
        <=> \/ ~(DOMAIN given \subseteq Names(fields))
            \/ \E name \in Names(fields) \ DOMAIN given : DefaultOf(type, name) = NoDefault
    <3>1. \A tag \in meant : tag = type
      BY <2>1
    <3>2. type \in meant
      BY <2>1
    <3> QED BY <1>5, <3>1, <3>2 DEF fields
  <2>7. Rejection(written, given) = InstantiationError(fields, given)
    BY <1>4, <1>7
  <2>8. (Rejection(written, given) # "none") <=> Incomplete(written, given)
    BY <2>3, <2>4, <2>5, <2>6, <2>7, Zenon
  <2>9. Incomplete(written, given) \in BOOLEAN
    BY <1>5
  <2> QED BY <2>8, <2>9
<1> QED BY <1>6, <1>7

LEMMA DistinctReadBack ==
  ASSUME TypeOK, DistinctFields, NEW v \in Bound, NEW given \in Assignments,
         NEW written \in Written[program], Instantiate(written, given)
  PROVE  /\ {v.prototype} = Meant(Current.overload.namespaces, written)
         /\ \A name \in Names(v.fields) :
              memory'[Member(v, name)] =
                IF name \in DOMAIN given THEN given[name] ELSE DefaultOf(v.prototype, name)
<1> DEFINE type == TypeNamed(written)
           fields == FieldsOf(type)
           added == [i \in DOMAIN fields |-> Initial(fields, given, i)]
           w == [prototype |-> type,
                 fields |-> [i \in DOMAIN fields |->
                              [name |-> fields[i].name, cell |-> Len(memory) + i]]]
           n == Len(frames)
<1>1. Running
  BY DEF Instantiate
<1>2. /\ frames \in Seq(Frame) /\ n \in DOMAIN frames /\ program \in Program
      /\ Current.overload \in Overloads[program] \cup {Main} /\ memory \in Seq(Scalar)
      /\ Current \in Frame
  BY <1>1, CurrentType DEF TypeOK
<1>3. Len(frames') = n /\ v \in frames'[n].locals /\ v \notin Current.locals
  BY <1>1 DEF Bound
<1>4. /\ Rejection(written, given) = "none"
      /\ memory' = memory \o added
      /\ frames' = [frames EXCEPT ![n].locals = frames[n].locals \cup {w}]
  <2>1. CASE Throw(Rejection(written, given))
    BY <1>3, <2>1 DEF Throw, Current
  <2>2. CASE /\ Rejection(written, given) = "none"
             /\ memory' = memory \o added
             /\ Bind(frames, w)
    BY <2>2 DEF Bind
  <2> QED BY <2>1, <2>2 DEF Instantiate
<1>5. type # UnknownType /\ InstantiationError(fields, given) = "none"
  BY <1>4 DEF Rejection
<1>6. type \in DOMAIN Structs
  BY <1>2, <1>5, NamedIsStruct
<1>7. fields \in Seq(FieldEmbryo)
  BY <1>2, <1>6, TablesOfProgram
<1>8. Meant(Current.overload.namespaces, written) = {type}
  BY <1>1, <1>5, MeantIsNamed
<1> HIDE DEF type
<1>9. \A i \in DOMAIN fields :
        /\ Takes(fields, given, i) <=> fields[i].name \in DOMAIN given
        /\ DefaultOf(type, fields[i].name) = fields[i].default
  BY <1>2, <1>6, DistinctField
<1>10. \A i, j \in DOMAIN fields : fields[i].name = fields[j].name => i = j
  BY <1>6 DEF DistinctFields
<1> HIDE DEF fields, w
<1>11. v = w
  <2>1. frames[n] \in Frame
    BY <1>2
  <2>2. frames'[n].locals = frames[n].locals \cup {w}
    BY <1>2, <1>4, <2>1 DEF Frame
  <2> QED BY <1>3, <2>2 DEF Current
<1>12. /\ v.prototype = type /\ DOMAIN v.fields = DOMAIN fields
       /\ \A i \in DOMAIN fields : /\ v.fields[i].name = fields[i].name
                                   /\ v.fields[i].cell = Len(memory) + i
  BY <1>11 DEF w
<1>13. ASSUME NEW i \in DOMAIN fields
       PROVE  memory'[Len(memory) + i] = Initial(fields, given, i)
  <2>1. added \in Seq(Scalar) /\ Len(added) = Len(fields) /\ DOMAIN added = DOMAIN fields
    <3>1. added \in Seq(Scalar)
      BY <1>5, <1>7, InitialScalar
    <3>2. DOMAIN added = DOMAIN fields
      OBVIOUS
    <3> QED BY <1>7, <3>1, <3>2
  <2>2. added[i] = Initial(fields, given, i)
    OBVIOUS
  <2> HIDE DEF added
  <2>3. i \in 1 .. Len(added) /\ Len(memory) \in Nat
    BY <1>2, <1>7, <2>1
  <2>4. (memory \o added)[Len(memory) + i] = added[i]
    BY <1>2, <2>1, <2>3
  <2> QED BY <1>4, <2>2, <2>4
<1>14. ASSUME NEW name \in Names(v.fields)
       PROVE  memory'[Member(v, name)] =
                IF name \in DOMAIN given THEN given[name] ELSE DefaultOf(v.prototype, name)
  <2>1. PICK i \in DOMAIN fields : name = fields[i].name
    BY <1>12 DEF Names
  <2> DEFINE found == {j \in DOMAIN v.fields : v.fields[j].name = name}
  <2>2. found = {i}
    BY <1>10, <1>12, <2>1
  <2>3. Member(v, name) = v.fields[CHOOSE j \in found : \A k \in found : k <= j].cell
    BY DEF Member
  <2>4. i \in Nat
    BY <1>7
  <2>5. (CHOOSE j \in found : \A k \in found : k <= j) = i
    <3> HIDE DEF found
    <3> QED BY <2>2, <2>4
  <2>6. Member(v, name) = Len(memory) + i
    BY <1>12, <2>3, <2>5
  <2>7. memory'[Member(v, name)] = Initial(fields, given, i)
    BY <1>13, <2>6
  <2>8. Initial(fields, given, i) =
          IF name \in DOMAIN given THEN given[name] ELSE fields[i].default
    BY <1>9, <2>1 DEF Initial
  <2>9. DefaultOf(v.prototype, name) = fields[i].default
    BY <1>9, <1>12, <2>1
  <2> QED BY <2>7, <2>8, <2>9
<1> QED BY <1>8, <1>12, <1>14

\* In such a program an instantiation is rejected if there is a reason, and
\* only then.
THEOREM RejectionCorrect == InteropSpec /\ DistinctFields => []RejectedForAReason
<1>1. Inv /\ DistinctFields => RejectedForAReason
  BY DistinctRejection DEF Inv
<1> QED BY <1>1, SpecInv, DistinctStays, PTL

\* In such a program what a new structure was given, or the nearest default,
\* is what is read of it.
THEOREM ReadBackCorrect == InteropSpec /\ DistinctFields => FieldsReadBack
<1>1. Inv /\ DistinctFields /\ [NextOrImport]_vars =>
        [\A v \in Bound, given \in Assignments, written \in Written[program] :
           Instantiate(written, given) =>
             /\ {v.prototype} = Meant(Current.overload.namespaces, written)
             /\ \A name \in Names(v.fields) :
                  memory'[Member(v, name)] =
                    IF name \in DOMAIN given THEN given[name]
                    ELSE DefaultOf(v.prototype, name)]_vars
  BY DistinctReadBack, Zenon DEF Inv
<1> QED BY <1>1, SpecInv, DistinctStays, PTL DEF InteropSpec, FieldsReadBack

-----------------------------------------------------------------------------
(* What a program makes.                                                   *)

(* The structures it instantiates, and those that C returns.               *)
Made ==
  {p \in DOMAIN Structs :
    \/ \E o \in Overloads[program] \cup {Main}, written \in Written[program] :
         p = ResolveType(Structs, QualifiedNames(o.namespaces, written))
    \/ \E f \in Imports[program] : p = f.returns}

(* Structures of one size are resolved alike.                              *)
SizesResolveAlike ==
  \A p, q \in Made :
    Len(FieldsOf(p)) = Len(FieldsOf(q)) =>
      /\ ResolutionErrors(Structs, Overloads[program], p)
           = ResolutionErrors(Structs, Overloads[program], q)
      /\ Resolve(Structs, Overloads[program], p) = Resolve(Structs, Overloads[program], q)

\* A structure is one that the program makes and has the fields of its
\* prototype, whatever types they have, and an invocation with an argument is
\* one of the overload that resolution picks for it.
IsMade(v) == v.prototype \in Made /\ DOMAIN v.fields = DOMAIN FieldsOf(v.prototype)

IsResolved(frame) ==
  frame.argument # NoStruct =>
    /\ Resolution(frame.argument) = {}
    /\ frame.overload = Resolve(Structs, Overloads[program], frame.argument.prototype)

FrameOK(frame) == IsResolved(frame) /\ \A v \in Known(frame) : IsMade(v)

ShapeInv == \A k \in DOMAIN frames : FrameOK(frames[k])

LEMMA ProgramFixed ==
  ASSUME program' = program
  PROVE  /\ Structs' = Structs
         /\ \A frame : FrameOK(frame)' <=> FrameOK(frame)
         /\ SizesResolveAlike' <=> SizesResolveAlike
         /\ Made' = Made
<1>1. Structs' = Structs /\ \A tag : FieldsOf(tag)' = FieldsOf(tag)
  BY DEF Structs, FieldsOf
<1>made. Made' = Made
  BY <1>1 DEF Made
<1>2. \A v : Resolution(v)' = Resolution(v)
  BY DEF Resolution
<1>3. \A v : IsMade(v)' <=> IsMade(v)
  BY <1>made, <1>1 DEF IsMade
<1>4. \A frame : IsResolved(frame)' <=> IsResolved(frame)
  BY <1>1, <1>2 DEF IsResolved
<1>5. \A frame : FrameOK(frame)' <=> FrameOK(frame)
  BY <1>3, <1>4 DEF FrameOK
<1>6. SizesResolveAlike' <=> SizesResolveAlike
  BY <1>made, <1>1 DEF SizesResolveAlike
<1> QED BY <1>made, <1>1, <1>5, <1>6

LEMMA ShapeKept ==
  ASSUME TypeOK, ShapeInv, StructStep,
         Len(frames') # 0 => FrameOK(frames'[Len(frames')])
  PROVE  ShapeInv'
<1> SUFFICES ASSUME NEW k \in DOMAIN frames' PROVE FrameOK(frames'[k])
  <2>1. \A frame : FrameOK(frame)' <=> FrameOK(frame)
    BY ProgramFixed DEF StructStep
  <2> QED BY <2>1 DEF ShapeInv
<1>1. frames' \in Seq(Frame')
  BY DEF StructStep, FramesStep
<1>2. CASE k = Len(frames')
  BY <1>1, <1>2
<1>3. CASE k # Len(frames')
  <2>1. k \in 1 .. Len(frames') - 1
    BY <1>1, <1>3
  <2>2. k \in DOMAIN frames /\ frames'[k] = frames[k]
    BY <2>1 DEF StructStep, FramesStep
  <2> QED BY <2>2 DEF ShapeInv
<1> QED BY <1>2, <1>3

LEMMA SameShape ==
  ASSUME TypeOK, ShapeInv, StructStep, frames' = frames \/ frames' = <<>>
  PROVE  ShapeInv'
<1>1. frames \in Seq(Frame)
  BY DEF TypeOK
<1>2. Len(frames') # 0 => frames' = frames /\ Len(frames) \in DOMAIN frames
  BY <1>1
<1> QED BY <1>2, ShapeKept DEF ShapeInv

LEMMA BindShape ==
  ASSUME TypeOK, ShapeInv, StructStep, NEW stack \in Seq(Frame), stack # <<>>,
         \A k \in DOMAIN stack : k \in DOMAIN frames /\ stack[k] = frames[k],
         NEW v, IsMade(v), Bind(stack, v)
  PROVE  ShapeInv'
<1> DEFINE n == Len(stack)
           locals == stack[n].locals \cup {v}
           frame == frames'[n]
<1>1. n \in DOMAIN stack /\ stack[n] \in Frame
  OBVIOUS
<1>2. frames' = [stack EXCEPT ![n].locals = locals]
  BY DEF Bind
<1>3. Len(frames') = n
  BY <1>1, <1>2
<1>4. /\ frame.argument = stack[n].argument /\ frame.overload = stack[n].overload
      /\ frame.locals = locals
  BY <1>1, <1>2 DEF Frame
<1>5. FrameOK(stack[n])
  BY <1>1 DEF ShapeInv
<1> HIDE DEF frame
<1>6. IsResolved(frame)
  BY <1>4, <1>5 DEF FrameOK, IsResolved
<1>7. \A w \in Known(frame) : w = v \/ w \in Known(stack[n])
  BY <1>4 DEF Known
<1>8. FrameOK(frame)
  BY <1>5, <1>6, <1>7 DEF FrameOK
<1> QED BY <1>3, <1>8, ShapeKept DEF frame, n

LEMMA InvocationShape ==
  ASSUME TypeOK, ShapeInv, StructStep, frames \in Seq(Frame), Len(frames) > 0,
         NEW frame, IsMade(frame.argument), IsResolved(frame), frame.locals = {},
         \/ frames' = Append(frames, frame)
         \/ frames' = [frames EXCEPT ![Len(frames)] = frame]
  PROVE  ShapeInv'
<1>1. frames'[Len(frames')] = frame
  OBVIOUS
<1>2. FrameOK(frame)
  BY DEF FrameOK, Known
<1> QED BY <1>1, <1>2, ShapeKept

LEMMA KnownShape ==
  ASSUME TypeOK, ShapeInv, Running, NEW v \in Known(Current)
  PROVE  IsMade(v) /\ v.prototype \in DOMAIN Structs /\ program \in Program
         /\ frames \in Seq(Frame) /\ Len(frames) \in DOMAIN frames /\ Len(frames) > 0
<1>1. frames \in Seq(Frame) /\ Len(frames) \in DOMAIN frames /\ program \in Program
      /\ Len(frames) > 0
  BY CurrentType
<1>2. v \in Known(frames[Len(frames)])
  BY DEF Current
<1>3. FrameOK(frames[Len(frames)])
  BY <1>1 DEF ShapeInv
<1> QED BY <1>1, <1>2, <1>3, KnownType DEF FrameOK

LEMMA ThrowShape ==
  ASSUME TypeOK, ShapeInv, StructStep, NEW exception, Throw(exception)
  PROVE  ShapeInv'
BY SameShape DEF Throw

LEMMA InstantiateShape ==
  ASSUME TypeOK, ShapeInv, StructStep, NEW given, NEW written \in Written[program],
         Instantiate(written, given)
  PROVE  ShapeInv'
<1> DEFINE type == TypeNamed(written)
           fields == FieldsOf(type)
           v == [prototype |-> type,
                 fields |-> [i \in DOMAIN fields |->
                              [name |-> fields[i].name, cell |-> Len(memory) + i]]]
<1>1. CASE Throw(Rejection(written, given))
  BY <1>1, ThrowShape
<1>2. CASE Rejection(written, given) = "none" /\ Bind(frames, v)
  <2>1. frames \in Seq(Frame) /\ frames # <<>>
    BY DEF TypeOK, Instantiate, Running
  <2>2. type \in Made
    <3>1. program \in Program /\ Current.overload \in Overloads[program] \cup {Main}
      BY CurrentType DEF Instantiate
    <3>2. type \in DOMAIN Structs
      BY <1>2, <3>1, NamedIsStruct DEF Rejection
    <3>3. type = ResolveType(Structs, QualifiedNames(Current.overload.namespaces, written))
      BY <3>1 DEF TypeNamed, TypesNamed, Structs
    <3> HIDE DEF type
    <3> QED BY <3>1, <3>2, <3>3 DEF Made
  <2>3. IsMade(v)
    BY <2>2 DEF IsMade
  <2> HIDE DEF v
  <2> QED BY <1>2, <2>1, <2>3, BindShape
<1> QED BY <1>1, <1>2 DEF Instantiate

LEMMA WithShape ==
  ASSUME TypeOK, ShapeInv, StructStep, NEW given, NEW v \in Known(Current), With(v, given)
  PROVE  ShapeInv'
<1> DEFINE moved == {i \in DOMAIN v.fields : ~KeepsCell(v, given, i)}
           fresh(i) == Len(memory) + Cardinality({j \in moved : j <= i})
           fields == [i \in DOMAIN v.fields |->
                       IF i \in moved THEN [v.fields[i] EXCEPT !.cell = fresh(i)]
                                      ELSE v.fields[i]]
           w == [v EXCEPT !.fields = fields]
<1>1. CASE Throw("MissingFieldException")
  BY <1>1, ThrowShape
<1>2. CASE Bind(frames, w)
  <2>1. Running /\ frames # <<>>
    BY DEF With, Running
  <2>2. IsMade(v) /\ frames \in Seq(Frame) /\ Len(frames) \in DOMAIN frames
    BY <2>1, KnownShape
  <2>3. v \in StructValue
    BY <2>2, KnownType DEF Current
  <2>4. DOMAIN fields = DOMAIN v.fields
    OBVIOUS
  <2> HIDE DEF fields
  <2>5. w.prototype = v.prototype /\ w.fields = fields
    BY <2>3 DEF StructValue
  <2> HIDE DEF w
  <2>6. IsMade(w)
    BY <2>2, <2>4, <2>5 DEF IsMade
  <2> QED BY <1>2, <2>1, <2>2, <2>6, BindShape
<1> QED BY <1>1, <1>2 DEF With

LEMMA CallShape ==
  ASSUME TypeOK, ShapeInv, StructStep, NEW v \in Known(Current), Call(v) \/ TailCall(v)
  PROVE  ShapeInv'
<1>1. Running
  BY DEF Call, TailCall
<1>2. /\ IsMade(v) /\ v.prototype \in DOMAIN Structs
      /\ frames \in Seq(Frame) /\ Len(frames) \in DOMAIN frames /\ Len(frames) > 0
  BY <1>1, KnownShape
<1>3. CASE \E exception \in Resolution(v) : Throw(exception)
  BY <1>3, ThrowShape
<1>4. CASE /\ Resolution(v) = {}
           /\ \/ frames' = Append(frames, Invocation(v))
              \/ frames' = [frames EXCEPT ![Len(frames)] = Invocation(v)]
  <2> DEFINE fields == [i \in DOMAIN v.fields |->
                         [v.fields[i] EXCEPT !.cell = Len(memory) + i]]
             frame == Invocation(v)
  <2>1. v \in StructValue
    BY <1>2, KnownType DEF Current
  <2>2. DOMAIN fields = DOMAIN v.fields /\ Copy(v) = [v EXCEPT !.fields = fields]
    BY DEF Copy
  <2> HIDE DEF fields
  <2>3. Copy(v).prototype = v.prototype /\ Copy(v).fields = fields
    BY <2>1, <2>2 DEF StructValue
  <2>4. IsMade(Copy(v))
    BY <1>2, <2>2, <2>3 DEF IsMade
  <2>5. Resolution(Copy(v)) = Resolution(v)
    BY <2>3 DEF Resolution
  <2>6. /\ frame.overload = Resolve(Structs, Overloads[program], v.prototype)
        /\ frame.argument = Copy(v) /\ frame.locals = {}
    BY DEF Invocation
  <2>7. IsResolved(frame) /\ IsMade(frame.argument)
    BY <1>4, <2>3, <2>4, <2>5, <2>6 DEF IsResolved
  <2> HIDE DEF frame
  <2>8. frames' = Append(frames, frame) \/ frames' = [frames EXCEPT ![Len(frames)] = frame]
    BY <1>4 DEF frame
  <2> QED BY <1>2, <2>6, <2>7, <2>8, InvocationShape
<1> QED BY <1>3, <1>4 DEF Call, TailCall

LEMMA ImportShape ==
  ASSUME TypeOK, ShapeInv, StructStep, NEW v \in Known(Current), NEW f \in Imports[program],
         Import(f, v)
  PROVE  ShapeInv'
<1> DEFINE fields == FieldsOf(f.returns)
           result == [prototype |-> f.returns,
                      fields |-> [i \in DOMAIN fields |->
                                   [name |-> fields[i].name, cell |-> Len(memory) + i]]]
           none == {}
           frame == [overload |-> Resolve(Structs, Overloads[program], f.returns),
                     argument |-> result, locals |-> none]
<1>1. Running /\ program \in Program /\ frames \in Seq(Frame) /\ Len(frames) > 0
  BY CurrentType DEF Import
<1>2. CASE \E exception : Throw(exception)
  BY <1>2, ThrowShape
<1>3. CASE Resolution(result) = {} /\ frames' = Append(frames, frame)
  <2>1. IsMade(result) /\ result.prototype = f.returns
    <3>1. \A g \in Imports[program] :
            {g.parameter, g.returns} \subseteq DOMAIN TypeTable(Declarations[program])
      BY <1>1, Zenon, ImportAssumption
    <3>2. Structs = TypeTable(Declarations[program])
      BY <1>1, TablesOfProgram
    <3>3. f.returns \in DOMAIN Structs
      BY <3>1, <3>2
    <3>4. f.returns \in Made
      BY <3>3 DEF Made
    <3> QED BY <3>4 DEF IsMade
  <2> HIDE DEF result
  <2>2. frame.argument = result /\ frame.locals = none
        /\ frame.overload = Resolve(Structs, Overloads[program], f.returns)
    OBVIOUS
  <2> HIDE DEF frame
  <2>3. IsResolved(frame)
    BY <1>3, <2>1, <2>2 DEF IsResolved
  <2> QED BY <1>1, <1>3, <2>1, <2>2, <2>3, InvocationShape
<1> QED BY <1>2, <1>3 DEF Import

LEMMA ReturnShape ==
  ASSUME TypeOK, ShapeInv, StructStep, NEW v \in Known(Current), Return(v)
  PROVE  ShapeInv'
<1> DEFINE stack == Front(frames)
           n == Len(frames)
<1>1. Running /\ n > 1 /\ Bind(stack, v)
  BY DEF Return
<1>2. IsMade(v) /\ frames \in Seq(Frame) /\ n \in DOMAIN frames
  BY <1>1, KnownShape
<1>3. /\ stack \in Seq(Frame) /\ stack # <<>>
      /\ \A k \in DOMAIN stack : k \in DOMAIN frames /\ stack[k] = frames[k]
  <2>1. stack = SubSeq(frames, 1, n - 1)
    BY DEF Front
  <2>2. n \in Nat /\ n - 1 \in 1 .. n /\ DOMAIN frames = 1 .. n
    BY <1>1, <1>2
  <2> HIDE DEF stack, n
  <2>3. stack = [k \in 1 .. n - 1 |-> frames[k]]
    BY <1>2, <2>1, <2>2
  <2>4. \A k \in 1 .. n - 1 : k \in DOMAIN frames /\ frames[k] \in Frame
    BY <1>2, <2>2
  <2> QED BY <2>2, <2>3, <2>4
<1> HIDE DEF stack
<1> QED BY <1>1, <1>2, <1>3, BindShape

LEMMA JumpShape ==
  ASSUME TypeOK, ShapeInv, StructStep, NEW v \in Known(Current), Jump(v)
  PROVE  ShapeInv'
<1> DEFINE n == Len(frames)
           none == {}
           frame == frames'[n]
<1>1. Running /\ frames' = [frames EXCEPT ![n].locals = none]
  BY DEF Jump
<1> HIDE DEF none
<1>2. frames \in Seq(Frame) /\ n \in DOMAIN frames
  BY <1>1, KnownShape
<1>3. frames[n] \in Frame /\ Len(frames') = n /\ FrameOK(frames[n])
  BY <1>1, <1>2 DEF ShapeInv
<1>4. frame.argument = frames[n].argument /\ frame.overload = frames[n].overload
      /\ frame.locals = none
  BY <1>1, <1>2, <1>3 DEF Frame
<1> HIDE DEF frame
<1>5. IsResolved(frame)
  BY <1>3, <1>4 DEF FrameOK, IsResolved
<1>6. Known(frame) \subseteq Known(frames[n])
  BY <1>4 DEF Known, none
<1>7. FrameOK(frame)
  BY <1>3, <1>5, <1>6 DEF FrameOK
<1> QED BY <1>3, <1>7, ShapeKept DEF frame

LEMMA NextShape ==
  ASSUME Inv, ShapeInv, [NextOrImport]_vars
  PROVE  ShapeInv'
<1>1. TypeOK /\ StructStep
  BY NextKeeps DEF Inv
<1>2. ASSUME NEW given \in Assignments, NEW written \in Written[program],
             Instantiate(written, given)
      PROVE  ShapeInv'
  BY <1>1, <1>2, InstantiateShape
<1>3. ASSUME NEW given \in Assignments, NEW v \in Known(Current), With(v, given)
      PROVE  ShapeInv'
  BY <1>1, <1>3, WithShape
<1>4. ASSUME NEW v \in Known(Current), Call(v) \/ TailCall(v)
      PROVE  ShapeInv'
  BY <1>1, <1>4, CallShape
<1>5. ASSUME NEW v \in Known(Current), Jump(v)
      PROVE  ShapeInv'
  BY <1>1, <1>5, JumpShape
<1>6. ASSUME NEW v \in Known(Current), Return(v)
      PROVE  ShapeInv'
  BY <1>1, <1>6, ReturnShape
<1>7. CASE End
  BY <1>1, <1>7, SameShape DEF End
<1>8. CASE Stopped
  BY <1>1, <1>8, SameShape DEF Stopped, vars
<1>9. CASE UNCHANGED vars
  BY <1>1, <1>9, SameShape DEF vars
<1>10. ASSUME NEW v \in Known(Current), NEW f \in Imports[program], Import(f, v)
       PROVE  ShapeInv'
  BY <1>1, <1>10, ImportShape
<1> QED BY <1>2, <1>3, <1>4, <1>5, <1>6, <1>7, <1>8, <1>9, <1>10, Zenon DEF NextOrImport, Next

LEMMA SpecShape ==
  InteropSpec => []ShapeInv
<1>1. Init => ShapeInv
  <2> SUFFICES ASSUME Init PROVE ShapeInv
    OBVIOUS
  <2> DEFINE frame == [overload |-> Main, argument |-> NoStruct, locals |-> {}]
  <2>1. frames = <<frame>>
    BY DEF Init
  <2>2. FrameOK(frame)
    BY DEF FrameOK, IsResolved, Known
  <2> HIDE DEF frame
  <2> QED BY <2>1, <2>2 DEF ShapeInv
<1>2. Inv /\ ShapeInv /\ [NextOrImport]_vars => ShapeInv'
  BY NextShape
<1> QED BY <1>1, <1>2, SpecInv, PTL DEF InteropSpec

LEMMA SizesStay ==
  InteropSpec /\ SizesResolveAlike => []SizesResolveAlike
<1>1. Inv /\ SizesResolveAlike /\ [NextOrImport]_vars => SizesResolveAlike'
  <2> SUFFICES ASSUME Inv, SizesResolveAlike, [NextOrImport]_vars PROVE SizesResolveAlike'
    OBVIOUS
  <2>1. program' = program
    BY NextKeeps DEF StructStep
  <2> QED BY <2>1, ProgramFixed
<1> QED BY <1>1, SpecInv, PTL DEF InteropSpec

LEMMA JumpStays ==
  ASSUME TypeOK, ShapeInv, SizesResolveAlike, NEW v \in Known(Current), Jump(v)
  PROVE  Resolution(v) = {} /\ Current.overload = Invocation(v).overload
<1> DEFINE argument == Current.argument
           p == v.prototype
           q == argument.prototype
<1>1. Running /\ Fits(v)
  BY DEF Jump
<1>2. /\ IsMade(v) /\ p \in DOMAIN Structs /\ program \in Program
      /\ Len(frames) \in DOMAIN frames
  BY <1>1, KnownShape
<1>3. argument # NoStruct /\ TypeOf(v).elements = TypeOf(argument).elements
  BY <1>1, <1>2, FittingTypes
<1>4. argument \in Known(Current)
  BY <1>3 DEF Known
<1>5. IsMade(argument) /\ q \in DOMAIN Structs
  BY <1>1, <1>4, KnownShape
<1>6. DOMAIN v.fields = DOMAIN argument.fields
  BY <1>3 DEF TypeOf
<1>7. Len(FieldsOf(p)) = Len(FieldsOf(q))
  <2>1. FieldsOf(p) \in Seq(FieldEmbryo) /\ FieldsOf(q) \in Seq(FieldEmbryo)
    BY <1>2, <1>5, TablesOfProgram
  <2>2. DOMAIN FieldsOf(p) = DOMAIN FieldsOf(q)
    BY <1>2, <1>5, <1>6 DEF IsMade
  <2>3. \A s, t \in Seq(FieldEmbryo) : DOMAIN s = DOMAIN t => Len(s) = Len(t)
    OBVIOUS
  <2> QED BY <2>1, <2>2, <2>3
<1>8. /\ Resolution(argument) = {}
      /\ Current.overload = Resolve(Structs, Overloads[program], q)
  <2>1. FrameOK(Current)
    BY <1>2 DEF ShapeInv, Current
  <2> QED BY <1>3, <2>1 DEF FrameOK, IsResolved
<1>9. /\ Resolution(v) = ResolutionErrors(Structs, Overloads[program], p)
      /\ Resolution(argument) = ResolutionErrors(Structs, Overloads[program], q)
  BY <1>2, <1>5, TablesOfProgram
<1>10. /\ ResolutionErrors(Structs, Overloads[program], p)
            = ResolutionErrors(Structs, Overloads[program], q)
       /\ Resolve(Structs, Overloads[program], p) = Resolve(Structs, Overloads[program], q)
  BY <1>2, <1>5, <1>7 DEF SizesResolveAlike, IsMade
<1>11. Invocation(v).overload = Resolve(Structs, Overloads[program], p)
  BY DEF Invocation
<1> QED BY <1>8, <1>9, <1>10, <1>11

\* Where structures with equally many fields go to the same overload, a jump
\* stays in the overload that resolution picks.
THEOREM JumpsCorrect == InteropSpec /\ SizesResolveAlike => JumpsStayInTheOverload
<1>1. Inv /\ ShapeInv /\ SizesResolveAlike /\ [NextOrImport]_vars =>
        [Running => \A v \in Known(Current) :
           Jump(v) => Resolution(v) = {} /\ Current.overload = Invocation(v).overload]_vars
  BY JumpStays, Zenon DEF Inv
<1> QED BY <1>1, SpecInv, SpecShape, SizesStay, PTL DEF InteropSpec, JumpsStayInTheOverload

-----------------------------------------------------------------------------
(* The nearest overload: what the search for a name scores is the length   *)
(* of the shortest way to the structure of that name.                      *)

LEMMA BasesAreParents ==
  ASSUME program \in Program, NEW p \in DOMAIN Structs
  PROVE  /\ BasesMeant(p) = Range(Parents(Structs, p))
         /\ BasesMeant(p) \subseteq DOMAIN Structs
<1> DEFINE ns == Structs[p].namespaces
           parents == Structs[p].parents
           type(i) == ResolveType(Structs, QualifiedNames(ns, parents[i]))
<1>1. Structs = TypeTable(Declarations[program])
  BY TablesOfProgram
<1>2. Range(Parents(Structs, p)) \subseteq DOMAIN Structs
  BY <1>1, Zenon, ProgramAssumption
<1>3. ns \in Seq(STRING) /\ parents \in Seq(Seq(STRING))
  <2>1. PICK height : Hierarchy(Structs, Cardinality(DOMAIN Structs), height)
    BY <1>1, TableHierarchy
  <2>2. Structs[p] \in Declaration
    BY <2>1 DEF Hierarchy
  <2> QED BY <2>2 DEF Declaration
<1>4. \A i \in DOMAIN parents : parents[i] \in Seq(STRING)
  BY <1>3
<1>5. Range(Parents(Structs, p)) = {type(i) : i \in DOMAIN parents}
  BY DEF Parents, Range
<1>6. ASSUME NEW i \in DOMAIN parents PROVE Meant(ns, parents[i]) = {type(i)}
  <2>1. type(i) \in DOMAIN Structs
    BY <1>2, <1>5
  <2>2. parents[i] \in Seq(STRING)
    BY <1>4
  <2> HIDE DEF ns, parents
  <2>3. Meant(ns, parents[i]) = IF type(i) \in DOMAIN Structs THEN {type(i)} ELSE {}
    BY <1>3, <2>2, MeantIsResolved
  <2> QED BY <2>1, <2>3
<1>7. BasesMeant(p) = UNION {Meant(ns, parents[i]) : i \in DOMAIN parents}
  BY DEF BasesMeant, Range
<1> HIDE DEF ns, parents, type
<1>8. BasesMeant(p) = {type(i) : i \in DOMAIN parents}
  BY <1>6, <1>7
<1> QED BY <1>2, <1>5, <1>8

\* Within is what it is declared to be: a recursion along the number of steps.
LEMMA WithinType ==
  ASSUME program \in Program, NEW p \in DOMAIN Structs
  PROVE  /\ Farthest \in Nat
         /\ \A n \in 0 .. Farthest : Within(p)[n] \subseteq DOMAIN Structs
         /\ Within(p)[0] = {p}
         /\ \A n \in 0 .. Farthest : n + 1 \in 0 .. Farthest =>
              Within(p)[n + 1] = Within(p)[n] \cup UNION {BasesMeant(q) : q \in Within(p)[n]}
<1> DEFINE N == Farthest
           D == 0 .. N
           T == SUBSET DOMAIN Structs
           rank == [n \in D |-> n]
           start == {p}
           next(S) == S \cup UNION {BasesMeant(q) : q \in S}
           body(f, n) == IF n = 0 THEN start ELSE next(f[n - 1])
           step == [n \in D |-> [f \in [D -> T] |-> body(f, n)]]
           F == CHOOSE f : f = [n \in D |-> body(f, n)]
<1>1. N \in Nat
  BY TablesOfProgram, TableHierarchy DEF Farthest
<1>2. Within(p) = F
  BY DEF Within
<1>3. start \in T
  OBVIOUS
<1>4. ASSUME NEW S \in T PROVE next(S) \in T
  <2>1. \A q \in S : BasesMeant(q) \subseteq DOMAIN Structs
    BY <1>4, BasesAreParents
  <2> QED BY <1>4, <2>1
<1> HIDE DEF N, T, start, next
<1>5. ASSUME NEW n \in D, NEW f, n # 0 => f[n - 1] \in T
      PROVE  body(f, n) \in T
  BY <1>3, <1>4, <1>5
<1>6. \A n \in D : n # 0 => n - 1 \in D
  BY <1>1
<1>7. /\ rank \in [D -> 0 .. N] /\ rank \in [D -> Nat]
      /\ \A n \in D : rank[n] = n
      /\ \A n \in D : n # 0 => rank[n - 1] < rank[n]
  BY <1>1, <1>6
<1>8. step \in [D -> [[D -> T] -> T]]
  <2>1. \A n \in D : \A f \in [D -> T] : body(f, n) \in T
    BY <1>5, <1>6
  <2> HIDE DEF body, D
  <2> QED BY <2>1
<1>9. \A n \in D : \A f \in [D -> T] : step[n][f] = body(f, n)
  <2> HIDE DEF body, D
  <2> QED OBVIOUS
<1>10. IsRecursion(D, T, N, rank, step)
  <2> HIDE DEF rank, step
  <2> SUFFICES ASSUME NEW n \in D, NEW f \in [D -> T], NEW h \in [D -> T],
                      \A m \in D : rank[m] < rank[n] => f[m] = h[m]
               PROVE  step[n][f] = step[n][h]
    BY <1>1, <1>3, <1>7, <1>8, Zenon DEF IsRecursion
  <2>1. n # 0 => f[n - 1] = h[n - 1]
    BY <1>6, <1>7
  <2>2. body(f, n) = body(h, n)
    BY <2>1
  <2> HIDE DEF body
  <2> QED BY <1>9, <2>2
<1>11. PICK f \in [D -> T] : \A n \in D : f[n] = step[n][f]
  <2> HIDE DEF D, step
  <2> QED BY <1>10, RecursionExists
<1>12. F = [n \in D |-> body(F, n)]
  <2>1. \A n \in D : f[n] = body(f, n)
    BY <1>9, <1>11
  <2> HIDE DEF body, D
  <2>2. f = [n \in D |-> body(f, n)]
    BY <1>11, <2>1
  <2> QED BY <2>2, Zenon
<1> HIDE DEF F
<1>13. \A n \in D : F[n] = body(F, n)
  <2> HIDE DEF body, D
  <2> QED BY <1>12
<1> DEFINE Good == {n \in D : F[n] \in T}
<1>14. ASSUME NEW n \in D, \A m \in D : rank[m] < rank[n] => m \in Good
       PROVE  n \in Good
  <2>1. n # 0 => F[n - 1] \in T
    BY <1>6, <1>7, <1>14
  <2>2. body(F, n) \in T
    BY <1>5, <2>1
  <2> HIDE DEF body
  <2> QED BY <1>13, <2>2
<1>15. D \subseteq Good
  <2> HIDE DEF Good, D, rank
  <2> QED BY <1>7, <1>14, RankInduction
<1>16. F[0] = start
  <2>1. 0 \in D
    BY <1>1
  <2> QED BY <1>13, <2>1
<1>17. ASSUME NEW n \in D, n + 1 \in D PROVE F[n + 1] = next(F[n])
  <2>1. n + 1 # 0 /\ n + 1 - 1 = n
    BY <1>1
  <2>2. F[n + 1] = body(F, n + 1)
    BY <1>13, <1>17
  <2> QED BY <2>1, <2>2
<1> QED BY <1>1, <1>2, <1>15, <1>16, <1>17 DEF T, N, start, next

\* The way to a base type starts with a step to a parent.
LEMMA FirstStep ==
  ASSUME program \in Program, NEW n \in Nat, n + 1 \in 0 .. Farthest,
         NEW p \in DOMAIN Structs, NEW a
  PROVE  a \in Within(p)[n + 1] <=> a = p \/ \E r \in BasesMeant(p) : a \in Within(r)[n]
<1> DEFINE Starts(m) ==
             m + 1 \in 0 .. Farthest =>
               \A q \in DOMAIN Structs :
                 /\ q \in Within(q)[m + 1]
                 /\ \A b : b \in Within(q)[m + 1] <=>
                      b = q \/ \E r \in BasesMeant(q) : b \in Within(r)[m]
           S == {m \in Nat : Starts(m)}
<1>1. Farthest \in Nat
  BY WithinType
<1>2. ASSUME NEW m \in Nat, m + 1 \in 0 .. Farthest, NEW q \in DOMAIN Structs
      PROVE  Within(q)[m + 1] = Within(q)[m] \cup UNION {BasesMeant(r) : r \in Within(q)[m]}
  <2>1. m \in 0 .. Farthest
    BY <1>1, <1>2
  <2> QED BY <1>2, <2>1, WithinType
<1>3. \A q \in DOMAIN Structs : Within(q)[0] = {q} /\ BasesMeant(q) \subseteq DOMAIN Structs
  BY WithinType, BasesAreParents
<1>4. 0 \in S
  <2> SUFFICES ASSUME 0 + 1 \in 0 .. Farthest, NEW q \in DOMAIN Structs
               PROVE  /\ q \in Within(q)[0 + 1]
                      /\ \A b : b \in Within(q)[0 + 1] <=>
                           b = q \/ \E r \in BasesMeant(q) : b \in Within(r)[0]
    OBVIOUS
  <2>1. Within(q)[0 + 1] = {q} \cup UNION {BasesMeant(r) : r \in {q}}
    BY <1>2, <1>3
  <2>2. UNION {BasesMeant(r) : r \in {q}} = BasesMeant(q)
    OBVIOUS
  <2>3. \A b : (\E r \in BasesMeant(q) : b \in Within(r)[0]) <=> b \in BasesMeant(q)
    BY <1>3
  <2> QED BY <2>1, <2>2, <2>3
<1>5. ASSUME NEW m \in Nat, m \in S PROVE m + 1 \in S
  <2> SUFFICES ASSUME m + 1 + 1 \in 0 .. Farthest, NEW q \in DOMAIN Structs
               PROVE  /\ q \in Within(q)[m + 1 + 1]
                      /\ \A b : b \in Within(q)[m + 1 + 1] <=>
                           b = q \/ \E r \in BasesMeant(q) : b \in Within(r)[m + 1]
    OBVIOUS
  <2>1. m + 1 \in 0 .. Farthest /\ m + 1 \in Nat
    BY <1>1
  <2>2. \A u \in DOMAIN Structs :
          /\ u \in Within(u)[m + 1]
          /\ \A b : b \in Within(u)[m + 1] <=>
               b = u \/ \E r \in BasesMeant(u) : b \in Within(r)[m]
    BY <1>5, <2>1
  <2>3. \A b : b \in Within(q)[m + 1 + 1] <=>
          b \in Within(q)[m + 1] \/ \E u \in Within(q)[m + 1] : b \in BasesMeant(u)
    BY <1>2, <2>1
  <2>4. \A u \in DOMAIN Structs : \A b : b \in Within(u)[m + 1] <=>
          b \in Within(u)[m] \/ \E w \in Within(u)[m] : b \in BasesMeant(w)
    BY <1>2, <2>1
  <2> HIDE DEF S
  <2>5. ASSUME NEW b, b \in Within(q)[m + 1 + 1], b # q
        PROVE  \E r \in BasesMeant(q) : b \in Within(r)[m + 1]
    <3>1. CASE b \in Within(q)[m + 1]
      <4>1. PICK r \in BasesMeant(q) : b \in Within(r)[m]
        BY <2>2, <2>5, <3>1, Zenon
      <4>2. r \in DOMAIN Structs
        BY <1>3
      <4> QED BY <2>4, <4>1, <4>2, Zenon
    <3>2. CASE \E u \in Within(q)[m + 1] : b \in BasesMeant(u)
      <4>1. PICK u \in Within(q)[m + 1] : b \in BasesMeant(u)
        BY <3>2
      <4>2. CASE u = q
        BY <1>3, <2>2, <4>1, <4>2, Zenon
      <4>3. CASE u # q
        <5>1. PICK r \in BasesMeant(q) : u \in Within(r)[m]
          BY <2>2, <4>3, Zenon
        <5>2. r \in DOMAIN Structs
          BY <1>3
        <5>3. b \in Within(r)[m + 1]
          BY <2>4, <4>1, <5>1, <5>2, Zenon
        <5> QED BY <5>3
      <4> QED BY <4>2, <4>3
    <3> QED BY <2>3, <2>5, <3>1, <3>2
  <2>6. ASSUME NEW b, NEW r \in BasesMeant(q), b \in Within(r)[m + 1]
        PROVE  b \in Within(q)[m + 1 + 1]
    <3>1. r \in DOMAIN Structs
      BY <1>3
    <3>2. \A c : c \in Within(r)[m] => c \in Within(q)[m + 1]
      BY <2>2
    <3>3. CASE b \in Within(r)[m]
      BY <2>3, <3>2, <3>3
    <3>4. CASE \E w \in Within(r)[m] : b \in BasesMeant(w)
      BY <2>3, <3>2, <3>4
    <3> QED BY <2>4, <2>6, <3>1, <3>3, <3>4
  <2>7. q \in Within(q)[m + 1 + 1]
    BY <2>2, <2>3
  <2> QED BY <2>5, <2>6, <2>7, Zenon
<1>6. n \in S
  <2> HIDE DEF S
  <2> QED BY <1>4, <1>5, InductionOnSet
<1> QED BY <1>6

\* A set of structures that has the base types of its members.
IsClosed(used) ==
  used \subseteq DOMAIN Structs /\ \A p \in used : BasesMeant(p) \subseteq used

\* Of these structures, a alone has the tag.
IsTagOf(name, a, used) == \A q \in used : Structs[q].tag = name <=> q = a

\* The search for a tag that only a has finds the shortest way to a.
LEMMA SearchIsNearest ==
  ASSUME program \in Program, NEW used, IsClosed(used),
         NEW name, NEW a, IsTagOf(name, a, used), NEW p \in used,
         NEW found, found = Search(Structs, name)[p]
  PROVE  /\ found \in Outcome
         /\ found.match => found.score \in 0 .. Farthest
         /\ \A m \in 0 .. Farthest :
              a \in Within(p)[m] <=> (found.match /\ found.score <= m)
<1> DEFINE D == DOMAIN Structs
           F == Search(Structs, name)
           parents(q) == Parents(Structs, q)
           branches(q) == Branches(Structs, F, q)
           Finds(q, m) == a \in Within(q)[m] <=> (F[q].match /\ F[q].score <= m)
<1>1. PICK height : Hierarchy(Structs, Farthest, height)
  BY TablesOfProgram, TableHierarchy DEF Farthest
<1>2. /\ Farthest \in Nat /\ height \in [D -> 0 .. Farthest] /\ height \in [D -> Nat]
      /\ \A q \in D : \A i \in DOMAIN parents(q) :
           parents(q)[i] \in D /\ height[parents(q)[i]] < height[q]
  <2>1. /\ Farthest \in Nat /\ height \in [D -> 0 .. Farthest]
        /\ \A q \in D : \A i \in DOMAIN Structs[q].parents :
             parents(q)[i] \in D /\ height[parents(q)[i]] < height[q]
    BY <1>1, Zenon DEF Hierarchy
  <2>2. height \in [D -> Nat]
    BY <2>1
  <2>3. \A q \in D : DOMAIN parents(q) = DOMAIN Structs[q].parents
    BY DEF Parents
  <2> QED BY <2>1, <2>2, <2>3
<1>3. \A q \in D :
        /\ F[q] \in Outcome /\ branches(q) \in Seq(Outcome)
        /\ F[q] = IF Structs[q].tag = name THEN [match |-> TRUE, score |-> 0]
                  ELSE Nearest(branches(q))
  BY <1>1, SearchType
<1>4. \A q \in D :
        /\ DOMAIN branches(q) = DOMAIN parents(q)
        /\ \A i \in DOMAIN parents(q) :
             /\ branches(q)[i].match = F[parents(q)[i]].match
             /\ branches(q)[i].score = F[parents(q)[i]].score + 1
  <2>1. \A q \in D : DOMAIN parents(q) = DOMAIN Structs[q].parents
    BY DEF Parents
  <2> QED BY <2>1 DEF Branches
<1>5. \A q \in D : BasesMeant(q) = {parents(q)[i] : i \in DOMAIN parents(q)}
  BY BasesAreParents DEF Range
<1> HIDE DEF D, F, parents, branches
<1>closed. used \subseteq D /\ \A q \in used : \A i \in DOMAIN parents(q) : parents(q)[i] \in used
  BY <1>5 DEF IsClosed, D
<1> DEFINE Good == {q \in used :
             /\ F[q].match => F[q].score <= height[q]
             /\ \A m \in 0 .. Farthest : Finds(q, m)}
<1>6. ASSUME NEW q \in used, \A r \in used : height[r] < height[q] => r \in Good
      PROVE  q \in Good
  <2>0. q \in D /\ q \in DOMAIN Structs
    BY <1>closed DEF D
  <2>1. CASE Structs[q].tag = name
    <3>1. F[q].match /\ F[q].score = 0
      BY <1>3, <2>0, <2>1
    <3>2. q = a
      BY <2>1 DEF IsTagOf
    <3>3. ASSUME NEW m \in 0 .. Farthest PROVE q \in Within(q)[m]
      <4>1. CASE m = 0
        BY <2>0, <4>1, WithinType
      <4>2. CASE m # 0
        <5>1. m - 1 \in Nat /\ m - 1 + 1 = m
          BY <1>2, <4>2
        <5> QED BY <2>0, <5>1, FirstStep
      <4> QED BY <4>1, <4>2
    <3>4. height[q] \in Nat
      BY <1>2, <2>0
    <3> QED BY <1>2, <3>1, <3>2, <3>3, <3>4
  <2>2. CASE Structs[q].tag # name
    <3>1. F[q] = Nearest(branches(q)) /\ branches(q) \in Seq(Outcome) /\ F[q] \in Outcome
      BY <1>3, <2>0, <2>2
    <3>2. /\ \A i \in DOMAIN parents(q) : branches(q)[i].match =>
               F[q].match /\ F[q].score <= branches(q)[i].score
          /\ F[q].match => \E i \in DOMAIN parents(q) :
               branches(q)[i].match /\ branches(q)[i].score = F[q].score
      BY <1>4, <2>0, <3>1, NearestType
    <3>3. \A i \in DOMAIN parents(q) :
            /\ parents(q)[i] \in D /\ height[parents(q)[i]] < height[q]
            /\ parents(q)[i] \in Good /\ F[parents(q)[i]] \in Outcome
      BY <1>closed, <1>2, <1>3, <1>6, <2>0
    <3>4. q # a
      BY <2>2 DEF IsTagOf
    <3>5. F[q].match => F[q].score <= height[q] /\ F[q].score # 0
      <4> SUFFICES ASSUME F[q].match PROVE F[q].score <= height[q] /\ F[q].score # 0
        OBVIOUS
      <4>1. PICK i \in DOMAIN parents(q) :
              branches(q)[i].match /\ branches(q)[i].score = F[q].score
        BY <3>2
      <4> DEFINE r == parents(q)[i]
      <4>2. F[r].match /\ F[q].score = F[r].score + 1
        BY <1>4, <2>0, <4>1
      <4>3. F[r].score \in Nat /\ F[r].score <= height[r] /\ height[r] < height[q]
        BY <3>3, <4>2 DEF Outcome
      <4>4. height[r] \in Nat /\ height[q] \in Nat
        BY <1>2, <2>0, <3>3
      <4> HIDE DEF r
      <4> QED BY <4>2, <4>3, <4>4
    <3>6. ASSUME NEW m \in 0 .. Farthest PROVE Finds(q, m)
      <4>1. CASE m = 0
        <5>1. a \notin Within(q)[m]
          BY <2>0, <3>4, <4>1, WithinType
        <5>2. F[q].score \in Nat
          BY <3>1 DEF Outcome
        <5> QED BY <3>5, <4>1, <5>1, <5>2
      <4>2. CASE m # 0
        <5> DEFINE k == m - 1
        <5>1. k \in Nat /\ k \in 0 .. Farthest /\ k + 1 = m
          BY <1>2, <4>2
        <5> HIDE DEF k
        <5>2. a \in Within(q)[m] <=> \E i \in DOMAIN parents(q) : a \in Within(parents(q)[i])[k]
          <6>1. a \in Within(q)[k + 1] <=> \E r \in BasesMeant(q) : a \in Within(r)[k]
            BY <2>0, <3>4, <5>1, FirstStep
          <6> QED BY <1>5, <2>0, <5>1, <6>1
        <5>3. \A i \in DOMAIN parents(q) : Finds(parents(q)[i], k)
          BY <3>3, <5>1
        <5>4. \A i \in DOMAIN parents(q) :
                /\ F[parents(q)[i]].score \in Nat /\ m \in Nat /\ k \in Nat
                /\ branches(q)[i].score = F[parents(q)[i]].score + 1
          BY <1>2, <1>4, <2>0, <3>3, <5>1 DEF Outcome
        <5>5. \A i \in DOMAIN parents(q) :
                a \in Within(parents(q)[i])[k] <=>
                  (branches(q)[i].match /\ branches(q)[i].score <= m)
          BY <1>4, <2>0, <5>1, <5>3, <5>4
        <5>6. F[q].score \in Nat /\ m \in Nat /\
              \A i \in DOMAIN parents(q) : branches(q)[i].score \in Nat
          BY <1>2, <3>1, <5>4 DEF Outcome
        <5>7. (F[q].match /\ F[q].score <= m) <=>
              \E i \in DOMAIN parents(q) : branches(q)[i].match /\ branches(q)[i].score <= m
          BY <3>2, <5>6
        <5> QED BY <5>2, <5>5, <5>7
      <4> QED BY <4>1, <4>2
    <3> QED BY <3>5, <3>6
  <2> QED BY <2>1, <2>2
<1>7. used \subseteq Good
  <2> DEFINE rank == [q \in used |-> height[q]]
  <2>1. rank \in [used -> Nat]
    BY <1>closed, <1>2
  <2>2. ASSUME NEW q \in used, \A r \in used : rank[r] < rank[q] => r \in Good
        PROVE  q \in Good
    <3> HIDE DEF Good
    <3> QED BY <1>6, <2>2
  <2> HIDE DEF Good, rank
  <2> QED BY <2>1, <2>2, RankInduction
<1>8. p \in Good /\ p \in D /\ found = F[p]
  BY <1>closed, <1>7 DEF F
<1>9. found \in Outcome /\ found.score \in Nat /\ height[p] \in 0 .. Farthest
  BY <1>2, <1>3, <1>8 DEF Outcome
<1>10. found.match => found.score \in 0 .. Farthest
  BY <1>2, <1>8, <1>9
<1> QED BY <1>8, <1>9, <1>10

LEMMA ScoreIsDistance ==
  ASSUME program \in Program, NEW used, IsClosed(used), NEW o \in Overloads[program],
         NEW type, type = ParameterType(Structs, o),
         \A q \in used : Structs[q].tag = NameOf(Structs, type) => q = type,
         NEW p \in used,
         NEW found, found = Search(Structs, NameOf(Structs, type))[p]
  PROVE  /\ found \in Outcome /\ Farthest \in Nat
         /\ IsBase(p, o) <=> found.match
         /\ DistanceOf(p, o) = IF found.match THEN found.score ELSE Farthest + 1
<1>1. /\ found \in Outcome
      /\ found.match => found.score \in 0 .. Farthest
      /\ \A m \in 0 .. Farthest :
           type \in Within(p)[m] <=> (found.match /\ found.score <= m)
  <2> DEFINE name == NameOf(Structs, type)
  <2>1. IsTagOf(name, type, used)
    BY DEF NameOf, IsTagOf, IsClosed
  <2>2. found = Search(Structs, name)[p]
    OBVIOUS
  <2> HIDE DEF name
  <2> QED BY <2>1, <2>2, SearchIsNearest
<1>2. /\ Farthest \in Nat
      /\ \A m \in 0 .. Farthest : Within(p)[m] \subseteq DOMAIN Structs
  BY WithinType DEF IsClosed
<1>3. found.score \in Nat
  BY <1>1 DEF Outcome
<1>4. Meant(o.namespaces, o.type) = IF type \in DOMAIN Structs THEN {type} ELSE {}
  <2>1. Overloads[program] \subseteq [namespaces: Seq(STRING), type: Seq(STRING)]
    BY Zenon, ProgramAssumption
  <2>2. o.namespaces \in Seq(STRING) /\ o.type \in Seq(STRING)
    BY <2>1
  <2> QED BY <2>2, MeantIsResolved DEF ParameterType
<1>5. /\ \A m, n \in Nat : m <= n => Min({m} \cup {n}) = m
      /\ \A n \in Nat : Min({} \cup {n}) = n
  BY DEF Min
<1>6. Distance(p, type) = IF found.match THEN found.score ELSE Farthest + 1
  <2> DEFINE steps == {n \in 0 .. Farthest : type \in Within(p)[n]}
  <2>1. Distance(p, type) = IF steps = {} THEN Farthest + 1 ELSE Min(steps)
    BY DEF Distance
  <2>2. CASE ~found.match
    <3>1. steps = {}
      BY <1>1, <2>2
    <3> QED BY <2>1, <2>2, <3>1
  <2>3. CASE found.match
    <3>1. found.score \in steps
      BY <1>1, <2>3
    <3>2. \A n \in steps : n \in Nat /\ found.score <= n
      BY <1>1, <1>2
    <3> HIDE DEF steps
    <3>3. \E n \in steps : \A m \in steps : n <= m
      BY <3>1, <3>2
    <3>4. Min(steps) \in steps /\ \A m \in steps : Min(steps) <= m
      BY <3>3 DEF Min
    <3>5. Min(steps) \in Nat /\ Min(steps) <= found.score /\ found.score <= Min(steps)
      BY <3>1, <3>2, <3>4
    <3>6. Min(steps) = found.score
      BY <1>3, <3>5
    <3> QED BY <2>1, <2>3, <3>1, <3>6
  <2> QED BY <2>2, <2>3
<1>7. DistanceOf(p, o) = IF found.match THEN found.score ELSE Farthest + 1
  <2> DEFINE distances == {Distance(p, a) : a \in Meant(o.namespaces, o.type)}
             none == {}
  <2>1. DistanceOf(p, o) = Min(distances \cup {Farthest + 1})
    BY DEF DistanceOf
  <2>2. CASE type \in DOMAIN Structs
    <3>1. distances = {Distance(p, type)}
      BY <1>4, <2>2
    <3>2. Distance(p, type) \in Nat /\ Distance(p, type) <= Farthest + 1 /\ Farthest + 1 \in Nat
      BY <1>1, <1>2, <1>3, <1>6
    <3> HIDE DEF distances
    <3>3. DistanceOf(p, o) = Distance(p, type)
      BY <1>5, <2>1, <3>1, <3>2
    <3> QED BY <1>6, <3>3
  <2>3. CASE type \notin DOMAIN Structs
    <3>1. distances = none
      BY <1>4, <2>3
    <3>2. ~found.match
      <4>1. found.match => type \in Within(p)[found.score]
        BY <1>1, <1>3
      <4> QED BY <1>1, <1>2, <2>3, <4>1
    <3>3. Farthest + 1 \in Nat
      BY <1>2
    <3> HIDE DEF distances
    <3>4. DistanceOf(p, o) = Farthest + 1
      BY <1>5, <2>1, <3>1, <3>3
    <3> QED BY <3>2, <3>4
  <2> QED BY <2>2, <2>3
<1>8. IsBase(p, o) <=> found.match
  BY <1>1, <1>2, <1>3, <1>7 DEF IsBase
<1> QED BY <1>1, <1>2, <1>7, <1>8

\* Where a structure has one base type at most, a search that fails ends
\* where the hierarchy does, and no other search goes further.
LEMMA MissIsFurther ==
  ASSUME program \in Program, NEW used, IsClosed(used),
         \A q \in used : Len(Structs[q].parents) <= 1, NEW x, NEW y, NEW p \in used,
         Search(Structs, x)[p].match, ~Search(Structs, y)[p].match
  PROVE  Search(Structs, x)[p].score <= Search(Structs, y)[p].score
<1> DEFINE D == DOMAIN Structs
           F == Search(Structs, x)
           H == Search(Structs, y)
           parents(q) == Parents(Structs, q)
<1>1. PICK height : Hierarchy(Structs, Farthest, height)
  BY TablesOfProgram, TableHierarchy DEF Farthest
<1>2. /\ Farthest \in Nat /\ height \in [D -> Nat]
      /\ \A q \in D : \A i \in DOMAIN Structs[q].parents :
           parents(q)[i] \in D /\ height[parents(q)[i]] < height[q]
      /\ \A q \in D : /\ Len(Structs[q].parents) \in Nat
                      /\ DOMAIN Structs[q].parents = 1 .. Len(Structs[q].parents)
  <2>1. /\ Farthest \in Nat /\ height \in [D -> 0 .. Farthest]
        /\ \A q \in D : \A i \in DOMAIN Structs[q].parents :
             parents(q)[i] \in D /\ height[parents(q)[i]] < height[q]
    BY <1>1, Zenon DEF Hierarchy
  <2>2. height \in [D -> Nat]
    BY <2>1
  <2>3. \A q \in D : Structs[q] \in Declaration
    BY <1>1 DEF Hierarchy
  <2>4. \A q \in D : Structs[q].parents \in Seq(Seq(STRING))
    BY <2>3 DEF Declaration
  <2> QED BY <2>1, <2>2, <2>4
<1>3. \A q \in D :
        /\ F[q] \in Outcome /\ Branches(Structs, F, q) \in Seq(Outcome)
        /\ F[q] = IF Structs[q].tag = x THEN [match |-> TRUE, score |-> 0]
                  ELSE Nearest(Branches(Structs, F, q))
  BY <1>1, SearchType
<1>4. \A q \in D :
        /\ H[q] \in Outcome /\ Branches(Structs, H, q) \in Seq(Outcome)
        /\ H[q] = IF Structs[q].tag = y THEN [match |-> TRUE, score |-> 0]
                  ELSE Nearest(Branches(Structs, H, q))
  BY <1>1, SearchType
<1>5. \A f : \A q \in D :
        /\ DOMAIN Branches(Structs, f, q) = DOMAIN Structs[q].parents
        /\ \A i \in DOMAIN Structs[q].parents :
             /\ Branches(Structs, f, q)[i].match = f[parents(q)[i]].match
             /\ Branches(Structs, f, q)[i].score = f[parents(q)[i]].score + 1
  BY DEF Branches
<1>6. \A q \in used : Len(Structs[q].parents) <= 1
  OBVIOUS
<1>closed. /\ used \subseteq D
      /\ \A q \in used : \A i \in DOMAIN Structs[q].parents : parents(q)[i] \in used
  <2>1. \A q \in used : \A i \in DOMAIN Structs[q].parents : parents(q)[i] \in BasesMeant(q)
    BY BasesAreParents DEF Parents, Range, IsClosed
  <2> QED BY <2>1 DEF IsClosed
<1> HIDE DEF D, F, H, parents
<1> DEFINE Good == {q \in used : F[q].match /\ ~H[q].match => F[q].score <= H[q].score}
<1>7. ASSUME NEW q \in used, \A r \in used : height[r] < height[q] => r \in Good
      PROVE  q \in Good
  <2> SUFFICES ASSUME F[q].match, ~H[q].match PROVE F[q].score <= H[q].score
    OBVIOUS
  <2>0. q \in D
    BY <1>closed
  <2>1. F[q].score \in Nat /\ H[q].score \in Nat
    BY <1>3, <1>4, <2>0 DEF Outcome
  <2>2. CASE Structs[q].tag = x
    BY <1>3, <2>0, <2>1, <2>2
  <2>3. CASE Structs[q].tag # x
    <3> DEFINE before == Branches(Structs, F, q)
               after == Branches(Structs, H, q)
    <3>1. Structs[q].tag # y
      BY <1>4, <2>0
    <3>2. F[q] = Nearest(before) /\ before \in Seq(Outcome)
      BY <1>3, <2>0, <2>3
    <3>3. H[q] = Nearest(after) /\ after \in Seq(Outcome)
      BY <1>4, <2>0, <3>1
    <3>4. DOMAIN before # {}
      <4> HIDE DEF before
      <4>1. \E i \in DOMAIN before : before[i].match /\ before[i].score = Nearest(before).score
        BY <3>2, NearestType
      <4> QED BY <4>1
    <3>5. DOMAIN Structs[q].parents = 1 .. 1
      BY <1>2, <1>5, <1>6, <2>0, <3>4
    <3>6. DOMAIN before = 1 .. 1 /\ DOMAIN after = 1 .. 1
      BY <1>5, <2>0, <3>5
    <3>7. \A s \in Seq(Outcome) : DOMAIN s = 1 .. 1 => Len(s) = 1
      OBVIOUS
    <3> DEFINE r == parents(q)[1]
    <3>8. /\ before[1].match = F[r].match /\ before[1].score = F[r].score + 1
          /\ after[1].match = H[r].match /\ after[1].score = H[r].score + 1
      BY <1>5, <2>0, <3>5
    <3>9. r \in D /\ r \in used /\ height[r] < height[q]
      BY <1>closed, <1>2, <2>0, <3>5
    <3> HIDE DEF before, after, r
    <3>10. F[q] = before[1] /\ H[q] = after[1]
      BY <3>2, <3>3, <3>6, <3>7, NearestType
    <3>11. F[r].match /\ ~H[r].match
      BY <3>8, <3>10
    <3>12. F[r].score <= H[r].score
      BY <1>7, <3>9, <3>11
    <3>13. F[r].score \in Nat /\ H[r].score \in Nat
      BY <1>3, <1>4, <3>9 DEF Outcome
    <3> QED BY <3>8, <3>10, <3>12, <3>13
  <2> QED BY <2>2, <2>3
<1>8. used \subseteq Good
  <2> DEFINE rank == [q \in used |-> height[q]]
  <2>1. rank \in [used -> Nat]
    BY <1>closed, <1>2
  <2>2. ASSUME NEW q \in used, \A r \in used : rank[r] < rank[q] => r \in Good
        PROVE  q \in Good
    <3> HIDE DEF Good
    <3> QED BY <1>7, <2>2
  <2> HIDE DEF Good, rank
  <2> QED BY <2>1, <2>2, RankInduction
<1> QED BY <1>8 DEF F, H

AnyType == <<"any">>

(* Among the structures that a program makes and their base types, none    *)
(* but the one a parameter means has its name; one overload at most takes  *)
(* anything, and where there is one, each structure has one base type at   *)
(* most.                                                                   *)
IsApart(used) ==
  LET type(o) == ParameterType(Structs, o) IN
  /\ Made \subseteq used
  /\ \A o \in Overloads[program], q \in used :
       type(o) # UnknownType /\ Structs[q].tag = NameOf(Structs, type(o)) => q = type(o)
  /\ \A o, q \in Overloads[program] : type(o) = AnyType /\ type(q) = AnyType => o = q
  /\ (\E o \in Overloads[program] : type(o) = AnyType) =>
       \A q \in used : Len(Structs[q].parents) <= 1

OverloadsApart == \E used \in SUBSET DOMAIN Structs : IsClosed(used) /\ IsApart(used)

LEMMA ApartStays ==
  InteropSpec /\ OverloadsApart => []OverloadsApart
<1>1. Inv /\ OverloadsApart /\ [NextOrImport]_vars => OverloadsApart'
  <2> SUFFICES ASSUME Inv, OverloadsApart, [NextOrImport]_vars PROVE OverloadsApart'
    OBVIOUS
  <2>1. program' = program
    BY NextKeeps DEF StructStep
  <2>2. Structs' = Structs /\ Made' = Made
    BY <2>1, ProgramFixed
  <2>3. \A namespaces, written : Meant(namespaces, written)' = Meant(namespaces, written)
    BY <2>1 DEF Meant
  <2>4. \A p : BasesMeant(p)' = BasesMeant(p)
    BY <2>2, <2>3 DEF BasesMeant
  <2>5. \A used : (IsClosed(used)' <=> IsClosed(used)) /\ (IsApart(used)' <=> IsApart(used))
    BY <2>1, <2>2, <2>4 DEF IsClosed, IsApart
  <2> QED BY <2>2, <2>5, Zenon DEF OverloadsApart
<1> QED BY <1>1, SpecInv, PTL DEF InteropSpec

\* How an overload scores.
LEMMA ScoreType ==
  ASSUME program \in Program, NEW used, IsClosed(used), IsApart(used),
         NEW o \in Overloads[program],
         ParameterType(Structs, o) # UnknownType, NEW p \in used,
         NEW score, score = Score(Structs, p, o)
  PROVE  /\ IsBase(p, o) => score = DistanceOf(p, o) + 1 /\ DistanceOf(p, o) \in 0 .. Farthest
         /\ ~IsBase(p, o) => DistanceOf(p, o) = Farthest + 1
         /\ ~IsBase(p, o) /\ score >= 0 => ParameterType(Structs, o) = AnyType
         /\ ParameterType(Structs, o) = AnyType => score >= 0
         /\ score \in Int /\ Farthest \in Nat
<1> DEFINE type == ParameterType(Structs, o)
           found == Search(Structs, NameOf(Structs, type))[p]
<1>1. \A q \in used : Structs[q].tag = NameOf(Structs, type) => q = type
  BY Zenon DEF IsApart
<1>2. /\ found \in Outcome /\ Farthest \in Nat
      /\ IsBase(p, o) <=> found.match
      /\ DistanceOf(p, o) = IF found.match THEN found.score ELSE Farthest + 1
  BY <1>1, ScoreIsDistance
<1>3. score = IF found.match THEN found.score + 1
              ELSE IF type = AnyType THEN found.score + 2 ELSE -1
  BY DEF Score, PrototypeCompatibility, AnyType
<1>4. IsBase(p, o) <=> DistanceOf(p, o) <= Farthest
  BY DEF IsBase
<1> HIDE DEF found, type
<1>5. found.score \in Nat
  BY <1>2 DEF Outcome
<1> QED BY <1>2, <1>3, <1>4, <1>5 DEF type

\* The overload for anything is behind all those for base types.
LEMMA AnyIsLast ==
  ASSUME program \in Program, NEW used, IsClosed(used), IsApart(used), NEW p \in used,
         NEW o \in Overloads[program], ParameterType(Structs, o) = AnyType, ~IsBase(p, o),
         NEW q \in Overloads[program], ParameterType(Structs, q) # UnknownType, IsBase(p, q)
  PROVE  Score(Structs, p, q) < Score(Structs, p, o)
<1> DEFINE x == NameOf(Structs, ParameterType(Structs, q))
           y == NameOf(Structs, ParameterType(Structs, o))
           near == Search(Structs, x)[p]
           far == Search(Structs, y)[p]
<1>1. AnyType # UnknownType
  BY DEF AnyType, UnknownType
<1>2. \A u \in Overloads[program] : \A r \in used :
        ParameterType(Structs, u) # UnknownType
          /\ Structs[r].tag = NameOf(Structs, ParameterType(Structs, u))
        => r = ParameterType(Structs, u)
  BY Zenon DEF IsApart
<1>3. near \in Outcome /\ near.match
  BY <1>2, ScoreIsDistance
<1>4. far \in Outcome /\ ~far.match
  BY <1>1, <1>2, ScoreIsDistance
<1>5. near.score <= far.score
  <2>1. \A r \in used : Len(Structs[r].parents) <= 1
    BY Zenon DEF IsApart
  <2> HIDE DEF x, y
  <2> QED BY <1>3, <1>4, <2>1, MissIsFurther
<1>6. Score(Structs, p, q) = near.score + 1
  BY <1>3 DEF Score, PrototypeCompatibility
<1>7. Score(Structs, p, o) = far.score + 2
  BY <1>4 DEF Score, PrototypeCompatibility, AnyType
<1> HIDE DEF near, far
<1>8. near.score \in Nat /\ far.score \in Nat
  BY <1>3, <1>4 DEF Outcome
<1> QED BY <1>5, <1>6, <1>7, <1>8

LEMMA CallIsNearest ==
  ASSUME TypeOK, ShapeInv, Running, OverloadsApart, NEW v \in Known(Current), Call(v),
         NEW overloads, overloads = Overloads[program],
         NEW bases, bases = {o \in overloads : IsBase(v.prototype, o)},
         NEW callee, callee = frames'[Len(frames')].overload
  PROVE  \/ error' = "none" /\ \A o \in bases \ {callee} :
              DistanceOf(v.prototype, callee) < DistanceOf(v.prototype, o)
         \/ error' = "FunctionNotFoundException" /\ bases = {} /\ TakesAny \notin overloads
         \/ error' = "AmbiguousFunctionException" /\ \E o, q \in bases :
              o # q /\ DistanceOf(v.prototype, o) = DistanceOf(v.prototype, q)
         \/ error' = "UnknownTypeException" /\ \E o \in overloads \ {TakesAny} :
              Meant(o.namespaces, o.type) = {}
<1> DEFINE p == v.prototype
           type(o) == ParameterType(Structs, o)
           score(o) == Score(Structs, p, o)
           known == OfKnownType(Structs, overloads)
           viable == Viable(Structs, known, p)
           errors == ResolutionErrors(Structs, overloads, p)
<1>0. PICK used : IsClosed(used) /\ IsApart(used)
  BY Zenon DEF OverloadsApart
<1>1. /\ program \in Program /\ p \in DOMAIN Structs /\ Len(frames) \in DOMAIN frames
      /\ p \in used
  <2>1. IsMade(v)
    BY KnownShape
  <2>2. p \in Made /\ Made \subseteq used
    BY <1>0, <2>1, Zenon DEF IsMade, IsApart
  <2> QED BY <2>2, KnownShape
<1>2. Resolution(v) = errors
  BY <1>1, TablesOfProgram
<1>3. \/ error' \in errors
      \/ errors = {} /\ error' = "none" /\ frames' = Append(frames, Invocation(v))
  BY <1>2, Zenon DEF Call, Throw, Running
<1>thrown. /\ errors \subseteq {"UnknownTypeException", "AmbiguousFunctionException",
                                "FunctionNotFoundException"}
           /\ "UnknownTypeException" \in errors <=> known # overloads
           /\ "AmbiguousFunctionException" \in errors <=>
                \E o, q \in viable : o # q /\ score(o) = score(q)
           /\ "FunctionNotFoundException" \in errors <=> known = overloads /\ viable = {}
  <2>1. errors \subseteq {"UnknownTypeException", "AmbiguousFunctionException",
                          "FunctionNotFoundException"}
    BY ThrownType
  <2>2. /\ "UnknownTypeException" \in errors <=> known # overloads
        /\ "AmbiguousFunctionException" \in errors <=>
             \E o, q \in viable : o # q /\ Score(Structs, p, o) = Score(Structs, p, q)
        /\ "FunctionNotFoundException" \in errors <=> known = overloads /\ viable = {}
    BY ThrownIf
  <2> HIDE DEF known, viable, errors
  <2> QED BY <2>1, <2>2
<1>4. /\ viable = {o \in known : score(o) >= 0}
      /\ known = {o \in overloads : type(o) # UnknownType}
  BY DEF Viable, OfKnownType
<1>5. UnknownType \notin Builtin \cup DOMAIN Structs /\ AnyType \in Builtin /\ AnyType # UnknownType
  BY <1>1, FullNames DEF AnyType, UnknownType, Builtin
<1>6. type(TakesAny) = AnyType
  <2>1. QualifiedNames(TakesAny.namespaces, TakesAny.type) = <<AnyType, AnyType>>
    BY DEF QualifiedNames, TakesAny, AnyType
  <2>2. UnknownType \notin Builtin \cup DOMAIN Structs
    BY <1>5
  <2>3. ResolveType(Structs, <<AnyType, AnyType>>) = AnyType
    BY <1>5, <2>2, FirstOfTwo
  <2> QED BY <2>1, <2>3 DEF ParameterType
<1>7. /\ \A o \in known :
           /\ IsBase(p, o) => score(o) = DistanceOf(p, o) + 1 /\ DistanceOf(p, o) \in 0 .. Farthest
           /\ ~IsBase(p, o) => DistanceOf(p, o) = Farthest + 1
           /\ ~IsBase(p, o) /\ score(o) >= 0 => type(o) = AnyType
           /\ type(o) = AnyType => score(o) >= 0
           /\ score(o) \in Int
      /\ Farthest \in Nat
      /\ \A o, q \in known :
           type(o) = AnyType /\ ~IsBase(p, o) /\ IsBase(p, q) => score(q) < score(o)
      /\ \A o, q \in overloads : type(o) = AnyType /\ type(q) = AnyType => o = q
  <2>1. \A o \in known :
          /\ IsBase(p, o) => score(o) = DistanceOf(p, o) + 1 /\ DistanceOf(p, o) \in 0 .. Farthest
          /\ ~IsBase(p, o) => DistanceOf(p, o) = Farthest + 1
          /\ ~IsBase(p, o) /\ score(o) >= 0 => type(o) = AnyType
          /\ type(o) = AnyType => score(o) >= 0
          /\ score(o) \in Int
    BY <1>0, <1>1, <1>4, ScoreType
  <2>2. Farthest \in Nat
    BY <1>1, WithinType
  <2>3. \A o, q \in known :
          type(o) = AnyType /\ ~IsBase(p, o) /\ IsBase(p, q) => score(q) < score(o)
    BY <1>0, <1>1, <1>4, AnyIsLast
  <2>4. \A o, q \in overloads : type(o) = AnyType /\ type(q) = AnyType => o = q
    BY <1>0, Zenon DEF IsApart
  <2> HIDE DEF known, type, score
  <2> QED BY <2>1, <2>2, <2>3, <2>4
<1>8. CASE error' = "UnknownTypeException" /\ error' \in errors
  <2>1. PICK o \in overloads : type(o) = UnknownType
    <3>1. known # overloads
      BY <1>8, <1>thrown
    <3> QED BY <1>4, <3>1
  <2>2. o # TakesAny
    BY <1>5, <1>6, <2>1
  <2>3. Meant(o.namespaces, o.type) = {}
    <3>1. Overloads[program] \subseteq [namespaces: Seq(STRING), type: Seq(STRING)]
      BY <1>1, Zenon, ProgramAssumption
    <3>2. o.namespaces \in Seq(STRING) /\ o.type \in Seq(STRING)
      BY <3>1
    <3>3. type(o) \notin DOMAIN Structs
      BY <1>5, <2>1
    <3> QED BY <1>1, <3>2, <3>3, MeantIsResolved DEF ParameterType
  <2> QED BY <1>8, <2>1, <2>2, <2>3
<1>known. known \subseteq overloads
  BY <1>4
<1> HIDE DEF type, score, known, viable, errors
<1>9. CASE error' = "FunctionNotFoundException" /\ error' \in errors
  <2>1. known = overloads /\ viable = {}
    BY <1>9, <1>thrown
  <2>2. bases = {}
    BY <1>4, <1>7, <2>1
  <2>3. TakesAny \notin overloads
    BY <1>4, <1>6, <1>7, <2>1
  <2> QED BY <1>9, <2>2, <2>3
<1>10. CASE error' = "AmbiguousFunctionException" /\ error' \in errors
  <2>1. PICK o \in viable, q \in viable : o # q /\ score(o) = score(q)
    BY <1>10, <1>thrown
  <2>2. o \in known /\ q \in known /\ score(o) >= 0 /\ score(q) >= 0
    BY <1>4
  <2>3. IsBase(p, o) /\ IsBase(p, q)
    <3>1. score(o) \in Int /\ score(q) \in Int
      BY <1>7, <2>2
    <3>2. ~(score(o) < score(q)) /\ ~(score(q) < score(o))
      BY <2>1, <3>1
    <3>3. IsBase(p, o) \/ type(o) = AnyType
      BY <1>7, <2>2
    <3>4. IsBase(p, q) \/ type(q) = AnyType
      BY <1>7, <2>2
    <3> QED BY <1>7, <1>known, <2>1, <2>2, <3>2, <3>3, <3>4, Zenon
  <2>4. DistanceOf(p, o) = DistanceOf(p, q)
    BY <1>7, <2>1, <2>2, <2>3
  <2> QED BY <1>10, <1>known, <2>1, <2>2, <2>3, <2>4
<1>11. CASE errors = {} /\ error' = "none" /\ frames' = Append(frames, Invocation(v))
  <2>1. /\ known = overloads /\ viable # {}
        /\ \A o, q \in viable : o # q => score(o) # score(q)
    BY <1>11, <1>thrown
  <2>2. callee = Resolve(Structs, overloads, p)
    <3>1. frames' = Append(frames, Invocation(v)) /\ frames \in Seq(Frame)
      BY <1>11 DEF TypeOK
    <3>2. Len(frames') = Len(frames) + 1 /\ frames'[Len(frames) + 1] = Invocation(v)
      BY <3>1
    <3> QED BY <3>2 DEF Invocation
  <2>3. callee \in viable /\ \A q \in viable : score(callee) <= score(q)
    <3> DEFINE scores == {score(o) : o \in viable}
    <3>1. scores \subseteq Nat /\ scores # {}
      BY <1>4, <1>7, <2>1
    <3> HIDE DEF scores
    <3>2. \E m \in scores : \A s \in scores : m <= s
      BY <3>1, LeastNumber
    <3>3. \E o \in viable : \A q \in viable : score(o) <= score(q)
      BY <3>2 DEF scores
    <3>4. Resolve(Structs, overloads, p) =
            CHOOSE o \in viable : \A q \in viable : score(o) <= score(q)
      BY <2>1 DEF Resolve, viable, score
    <3> QED BY <2>2, <3>3, <3>4, Zenon
  <2>4. callee \in known /\ score(callee) >= 0
    BY <1>4, <2>3
  <2>5. ASSUME NEW o \in bases \ {callee} PROVE DistanceOf(p, callee) < DistanceOf(p, o)
    <3>1. o \in viable /\ o \in known /\ IsBase(p, o)
      <4>1. o \in known /\ IsBase(p, o)
        BY <2>1, <2>5
      <4>2. score(o) >= 0
        BY <1>7, <4>1
      <4> QED BY <1>4, <4>1, <4>2
    <3>2. score(callee) < score(o)
      <4>1. score(callee) # score(o) /\ score(callee) <= score(o)
        BY <2>1, <2>3, <2>5, <3>1
      <4>2. score(callee) \in Int /\ score(o) \in Int
        BY <1>7, <2>4, <3>1
      <4> QED BY <4>1, <4>2
    <3>3. IsBase(p, callee)
      <4>1. ~(score(o) < score(callee))
        <5>1. score(callee) \in Int /\ score(o) \in Int
          BY <1>7, <2>4, <3>1
        <5> QED BY <3>2, <5>1
      <4>2. IsBase(p, callee) \/ type(callee) = AnyType
        BY <1>7, <2>4
      <4> QED BY <1>7, <2>4, <3>1, <4>1, <4>2
    <3> QED BY <1>7, <2>4, <3>1, <3>2, <3>3
  <2> QED BY <1>11, <2>5
<1> QED BY <1>3, <1>thrown, <1>8, <1>9, <1>10, <1>11

\* If overloads are apart, a call runs the overload for the nearest base type.
THEOREM NearestCorrect == InteropSpec /\ OverloadsApart => NearestOverload
<1>1. Inv /\ ShapeInv /\ OverloadsApart /\ Running =>
        \A v \in Known(Current) :
          Call(v) =>
            LET overloads == Overloads[program]
                bases == {o \in overloads : IsBase(v.prototype, o)}
                callee == frames'[Len(frames')].overload
            IN  \/ error' = "none" /\ \A o \in bases \ {callee} :
                     DistanceOf(v.prototype, callee) < DistanceOf(v.prototype, o)
                \/ error' = "FunctionNotFoundException" /\ bases = {} /\ TakesAny \notin overloads
                \/ error' = "AmbiguousFunctionException" /\ \E o, q \in bases :
                     o # q /\ DistanceOf(v.prototype, o) = DistanceOf(v.prototype, q)
                \/ error' = "UnknownTypeException" /\ \E o \in overloads \ {TakesAny} :
                     Meant(o.namespaces, o.type) = {}
  BY CallIsNearest, Zenon DEF Inv
<1> QED BY <1>1, SpecInv, SpecShape, ApartStays, PTL DEF InteropSpec, NearestOverload
=============================================================================
