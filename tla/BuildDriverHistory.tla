------------------------- MODULE BuildDriverHistory -------------------------
(***************************************************************************)
(* What the driver's runs have to do with each other, for any number of    *)
(* files and any graph of uses: a run knows of those before it only by the *)
(* times of files, and still links nothing whose sources are the ones the  *)
(* last compilation failed on (FailureCorrect), and no object that is not  *)
(* what compiling the sources would give (CurrentCorrect).                 *)
(***************************************************************************)
EXTENDS BuildDriverRefinement

-----------------------------------------------------------------------------
(* The versions of a source that are around: what the file has, and what a *)
(* run has read of it, each with the time a run takes for its own.         *)

\* A source that is being looked at gets the time it has after it was read.
SourceTime(s) ==
  IF pc = "create" /\ s = job THEN dir[s].mtime ELSE jobs[s].sourceFileTime

InDir(s) ==
  [version |-> dir[s].version, uses |-> dir[s].content.uses, time |-> dir[s].mtime]

InJobs(s) ==
  [version |-> jobs[s].version, uses |-> jobs[s].content.uses, time |-> SourceTime(s)]

Held(s) ==
  (IF s \in DOMAIN dir THEN {InDir(s)} ELSE {})
    \cup (IF s \in DOMAIN jobs THEN {InJobs(s)} ELSE {})

-----------------------------------------------------------------------------
(* The inductive invariant.                                                *)

\* Nothing is from the future.
ClockOK ==
  /\ clock >= 1
  /\ \A s \in DOMAIN dir : dir[s].mtime <= clock /\ dir[s].version <= edits
  /\ \A s \in DOMAIN jobs : jobs[s].readAt <= clock /\ jobs[s].version <= edits
  /\ \A p \in DOMAIN objects : objects[p].mtime >= 1

\* What a run has read is what the file has, or the file was edited since.
VersionsOK ==
  \A s \in DOMAIN dir \cap DOMAIN jobs :
    IF dir[s].version = jobs[s].version THEN InDir(s) = InJobs(s)
    ELSE dir[s].mtime >= jobs[s].readAt

ObjectTime(p) == IF p \in DOMAIN objects THEN objects[p].mtime ELSE 0

\* The jobs whose time a run has read and whose object it has not touched.
Waiting ==
  IF pc = "scan" THEN DOMAIN jobs
  ELSE IF pc = "create" THEN DOMAIN jobs \ {job}
  ELSE IF pc \in {"stale", "merge", "build"} THEN todo \cup {job}
  ELSE IF pc = "idle" THEN {}
  ELSE todo

TimesOK == \A p \in Waiting : jobs[p].objectFileTime = ObjectTime(p)

\* Each job is decided about once.
DecidedOnce == objectFiles \cap (todo \cup {job}) = {}

ModuleOK ==
  pc \in {"build", "open", "emit"} =>
    DOMAIN Module = Reach(job) /\ Promise!Complete(job)

\* Every version the compilation of p failed on and that is still around is
\* newer than the object, for one of the sources.
Outdated(p) ==
  \E s \in DOMAIN failed[p] :
    /\ failed[p][s] <= edits
    /\ \A h \in Held(s) : h.version = failed[p][s] => h.time > objects[p].mtime

FailedOK == \A p \in DOMAIN failed \cap DOMAIN objects : Outdated(p)

\* What the object of p was made from was closed under use, there is no smaller
\* closed set, and whatever else is around of these sources is from later.
From(p) == objects[p].from
Sources(p) == DOMAIN From(p)
SourceOK(p, s) ==
  /\ From(p)[s].version <= edits /\ From(p)[s].readAt <= clock
  /\ \A h \in Held(s) :
       IF h.version = From(p)[s].version THEN h.uses \subseteq Sources(p)
       ELSE h.time >= From(p)[s].readAt
LeadsOut(p, S) ==
  \E s \in S : \A h \in Held(s) :
    h.version = From(p)[s].version => h.uses \cap (Sources(p) \ S) # {}
OriginAt(p) ==
  /\ p \in Sources(p)
  /\ \A s \in Sources(p) : SourceOK(p, s)
  /\ \A S \in SUBSET Sources(p) : p \in S /\ S # Sources(p) => LeadsOut(p, S)

OriginOK == \A p \in DOMAIN objects : objects[p].whole => OriginAt(p)

TornOK ==
  \A p \in DOMAIN objects : ~objects[p].whole => p \in killed \/ (pc = "emit" /\ p = job)

\* An object that will be linked was made in this run or is not stale.
Made(p) ==
  p \in DOMAIN objects /\ p \notin DOMAIN failed /\ objects[p].whole /\ MadeOfTheJobs(p)
Kept(p) ==
  jobs[p].objectFileTime = ObjectTime(p) /\ ~Stale(p) /\ Promise!Complete(p)
LinkedOK == \A p \in objectFiles : Made(p) \/ Kept(p)

\* A compilation that did not throw is not remembered as one that did.
BuiltOK == pc \in {"open", "emit"} => job \notin DOMAIN failed

HistoryInv ==
  /\ ClockOK /\ VersionsOK /\ TimesOK /\ DecidedOnce /\ ModuleOK
  /\ FailedOK /\ OriginOK /\ TornOK /\ LinkedOK /\ BuiltOK

-----------------------------------------------------------------------------
(* What a step does to the versions that are around: it may forget some,   *)
(* and what it adds is new, or known but with a later time.                *)

LEMMA HeldIs ==
  ASSUME NEW s, NEW h
  PROVE  h \in Held(s) <=> \/ s \in DOMAIN dir /\ h = InDir(s)
                           \/ s \in DOMAIN jobs /\ h = InJobs(s)
BY DEF Held

LEMMA HeldIsNext ==
  ASSUME NEW s, NEW h
  PROVE  h \in Held(s)' <=> \/ s \in DOMAIN dir' /\ h = InDir(s)'
                            \/ s \in DOMAIN jobs' /\ h = InJobs(s)'
BY DEF Held

\* The times of the files and of what a run has read.
LEMMA FileTypes ==
  ASSUME IInv
  PROVE  /\ clock \in Nat /\ edits \in Nat
         /\ \A s \in DOMAIN dir : /\ dir[s].mtime \in Nat /\ dir[s].version \in Nat
                                  /\ dir[s].content.uses \subseteq Paths /\ s \in Paths
         /\ \A s \in DOMAIN jobs : /\ jobs[s].sourceFileTime \in Nat /\ jobs[s].version \in Nat
                                   /\ jobs[s].objectFileTime \in Nat /\ jobs[s].readAt \in Nat
                                   /\ jobs[s].content.uses \subseteq Paths /\ s \in Paths
         /\ \A p \in DOMAIN objects : objects[p].mtime \in Nat /\ p \in Paths
<1>1. clock \in Nat /\ edits \in Nat
  BY Bounds DEF IInv, FilesOK
<1>2. \A s \in DOMAIN dir : dir[s] \in Source /\ s \in Paths
  BY DEF IInv, FilesOK, IsMap
<1>3. \A s \in DOMAIN jobs : jobs[s] \in CompilerJob /\ s \in Paths
  BY DEF IInv, RunOK, IsMap
<1>4. \A p \in DOMAIN objects : objects[p].mtime \in Time /\ p \in Paths
  BY DEF IInv, FilesOK, IsObject
<1> QED BY <1>1, <1>2, <1>3, <1>4, Bounds, ContentsAssumption DEF Source, CompilerJob

LEMMA HeldTypes ==
  ASSUME IInv, NEW s, NEW h \in Held(s)
  PROVE  h.version \in Nat /\ h.time \in Nat
<1>1. CASE s \in DOMAIN dir /\ h = InDir(s)
  BY <1>1, FileTypes DEF InDir
<1>2. CASE s \in DOMAIN jobs /\ h = InJobs(s)
  <2>1. SourceTime(s) \in Nat
    BY <1>2, FileTypes DEF SourceTime, IInv, ControlOK
  <2> QED BY <1>2, <2>1, FileTypes DEF InJobs
<1> QED BY <1>1, <1>2, HeldIs

\* What a step adds for s.
New(s, h) == h.version \in Nat /\ h.version > edits /\ h.time \in Nat /\ h.time >= clock
Known(s, h) ==
  \E g \in Held(s) :
    g.version = h.version /\ g.uses = h.uses /\ h.time \in Nat /\ g.time <= h.time

Grows ==
  /\ edits \in Nat /\ edits' \in Nat /\ edits' >= edits
  /\ clock \in Nat /\ clock' \in Nat /\ clock' >= clock
  /\ \A s : \A g \in Held(s) : g.time \in Nat /\ g.version \in Nat
  /\ \A s : \A h \in Held(s)' : New(s, h) \/ Known(s, h)

LEMMA SubsetGrows ==
  ASSUME IInv, IInv', edits' >= edits, clock' >= clock, \A s : Held(s)' \subseteq Held(s)
  PROVE  Grows
<1>1. \A s : \A h \in Held(s)' : Known(s, h)
  BY HeldTypes DEF Known
<1>2. edits' \in Nat /\ clock' \in Nat
  BY Bounds DEF IInv, FilesOK
<1> QED BY <1>1, <1>2, FileTypes, HeldTypes DEF Grows

\* A step that reads no source and writes none.
LEMMA QuietHeld ==
  ASSUME UNCHANGED dir, jobs' = << >> \/ (jobs' = jobs /\ pc # "create" /\ pc' # "create")
  PROVE  \A s : Held(s)' \subseteq Held(s)
<1>1. CASE jobs' = << >>
  BY <1>1 DEF Held, InDir
<1>2. CASE jobs' = jobs /\ pc # "create" /\ pc' # "create"
  BY <1>2 DEF Held, InDir, InJobs, SourceTime
<1> QED BY <1>1, <1>2

LEMMA AnalyzeSame ==
  ASSUME IInv, NEW p \in Paths, Analyze(p)
  PROVE  /\ UNCHANGED dir /\ p \in DOMAIN dir
         /\ InJobs(p)' = InDir(p) /\ jobs'[p].version = dir[p].version
         /\ \A s \in DOMAIN jobs' : s # p =>
              s \in DOMAIN jobs /\ jobs'[s] = jobs[s] /\ InJobs(s)' = InJobs(s)
<1>1. p \in DOMAIN dir /\ UNCHANGED dir /\ pc = "scan" /\ pc' = "create" /\ job' = p
  BY DEF Analyze, fileVars, IInv, ControlOK
<1>2. InJobs(p)' = InDir(p) /\ jobs'[p].version = dir[p].version
  BY <1>1 DEF InJobs, InDir, Analyze, SourceTime
<1>3. ASSUME NEW s \in DOMAIN jobs', s # p
      PROVE  s \in DOMAIN jobs /\ jobs'[s] = jobs[s] /\ InJobs(s)' = InJobs(s)
  <2>1. s \in DOMAIN jobs /\ jobs'[s] = jobs[s]
    BY <1>3 DEF Analyze
  <2> QED BY <1>1, <1>3, <2>1 DEF InJobs, SourceTime
<1> QED BY <1>1, <1>2, <1>3

LEMMA AnalyzeHeld ==
  ASSUME IInv, NEW p \in Paths, Analyze(p) PROVE \A s : Held(s)' \subseteq Held(s)
<1>1. ASSUME NEW s, NEW h \in Held(s)' PROVE h \in Held(s)
  <2>1. CASE s \in DOMAIN dir' /\ h = InDir(s)'
    BY <2>1, AnalyzeSame, HeldIs DEF InDir
  <2>2. CASE s \in DOMAIN jobs' /\ h = InJobs(s)'
    BY <2>2, AnalyzeSame, HeldIs
  <2> QED BY <1>1, <2>1, <2>2, HeldIsNext
<1> QED BY <1>1

LEMMA CreateJobSame ==
  ASSUME IInv, CreateJob, NEW s \in DOMAIN jobs
  PROVE  InJobs(s)' = InJobs(s) /\ jobs'[s].version = jobs[s].version
         /\ jobs'[s].readAt = jobs[s].readAt
<1>1. jobs[s] \in CompilerJob
  BY DEF IInv, RunOK, IsMap
<1>2. dir' = dir /\ pc = "create" /\ pc' # "create"
  BY DEF CreateJob, fileVars
<1>3. CASE s = job
  BY <1>1, <1>2, <1>3 DEF InJobs, SourceTime, CreateJob, CompilerJob
<1>4. CASE s # job
  BY <1>1, <1>2, <1>4 DEF InJobs, SourceTime, CreateJob, CompilerJob
<1> QED BY <1>3, <1>4

LEMMA CreateJobHeld == ASSUME IInv, CreateJob PROVE \A s : Held(s)' \subseteq Held(s)
<1>1. UNCHANGED dir /\ DOMAIN jobs' = DOMAIN jobs
  BY DEF CreateJob, fileVars
<1> QED BY <1>1, CreateJobSame DEF Held, InDir

\* An edit makes a new version, and may change the time of one that was read.
LEMMA WriteGrows ==
  ASSUME IInv, IInv', ClockOK, NEW p \in Paths, NEW c \in Contents, Write(p, c)
  PROVE  Grows
<1>1. PICK t \in Stamps :
        /\ clock' = t
        /\ dir' = [q \in DOMAIN dir \cup {p} |->
                    IF q = p THEN [content |-> c, version |-> edits + 1, mtime |-> t]
                             ELSE dir[q]]
  BY DEF Write
<1>2. edits' = edits + 1 /\ jobs' = jobs /\ pc' = pc /\ job' = job
  BY DEF Write, runVars
<1>3. t \in Nat /\ t >= clock /\ clock \in Nat /\ edits \in Nat
  BY Bounds, FileTypes DEF Stamps
<1>4. ASSUME NEW s, NEW h \in Held(s)' PROVE New(s, h) \/ Known(s, h)
  <2>1. CASE s = p /\ h = InDir(s)'
    BY <1>1, <1>3, <2>1 DEF InDir, New
  <2>2. CASE s # p /\ s \in DOMAIN dir' /\ h = InDir(s)'
    <3>1. s \in DOMAIN dir /\ h = InDir(s)
      BY <1>1, <2>2 DEF InDir
    <3>2. h \in Held(s)
      BY <3>1, HeldIs
    <3> QED BY <3>2, HeldTypes DEF Known
  <2>3. CASE s \in DOMAIN jobs' /\ h = InJobs(s)'
    <3>1. InJobs(s) \in Held(s) /\ s \in DOMAIN jobs
      BY <1>2, <2>3, HeldIs
    <3>2. SourceTime(s) \in Nat
      BY <3>1, HeldTypes DEF InJobs
    <3>3. SourceTime(s)' >= SourceTime(s)
      <4>1. CASE pc = "create" /\ s = job /\ s = p
        <5>1. SourceTime(s) = dir[s].mtime /\ s \in DOMAIN dir
          BY <4>1 DEF SourceTime, IInv, ControlOK
        <5>2. SourceTime(s)' = t
          BY <4>1, <5>1, <1>1, <1>2 DEF SourceTime
        <5> QED BY <5>1, <5>2, <1>3, <3>2 DEF ClockOK
      <4>2. CASE pc = "create" /\ s = job /\ s # p
        <5>1. s \in DOMAIN dir
          BY <4>2 DEF IInv, ControlOK
        <5>2. SourceTime(s)' = SourceTime(s)
          BY <4>2, <5>1, <1>1, <1>2 DEF SourceTime
        <5> QED BY <5>2, <3>2
      <4>3. CASE ~(pc = "create" /\ s = job)
        BY <4>3, <1>2, <3>2 DEF SourceTime
      <4> QED BY <4>1, <4>2, <4>3
    <3>4. /\ InJobs(s).version = h.version /\ InJobs(s).uses = h.uses
          /\ InJobs(s).time <= h.time /\ h.time \in Nat
      <4>1. SourceTime(s)' \in Nat
        BY <1>1, <1>2, <1>3, <3>1, <3>2, FileTypes DEF SourceTime, IInv, ControlOK
      <4> QED BY <2>3, <1>2, <3>2, <3>3, <4>1 DEF InJobs
    <3> QED BY <3>1, <3>4 DEF Known
  <2> QED BY <2>1, <2>2, <2>3, HeldIsNext
<1>5. edits' \in Nat /\ edits' >= edits /\ clock' \in Nat /\ clock' >= clock
  BY <1>1, <1>2, <1>3
<1> QED BY <1>3, <1>4, <1>5, HeldTypes DEF Grows

LEMMA DeleteHeld ==
  ASSUME NEW p \in Paths, Delete(p) PROVE \A s : Held(s)' \subseteq Held(s)
<1>1. /\ jobs' = jobs /\ pc = "idle" /\ pc' = "idle"
      /\ dir' = [q \in DOMAIN dir \ {p} |-> dir[q]]
  BY DEF Delete, runVars
<1>2. ASSUME NEW s
      PROVE  /\ InJobs(s)' = InJobs(s)
             /\ s \in DOMAIN dir' => s \in DOMAIN dir /\ InDir(s)' = InDir(s)
  BY <1>1 DEF InJobs, InDir, SourceTime
<1> QED BY <1>1, <1>2 DEF Held

\* The clock and the number of edits never go back.
LEMMA Forward == ASSUME IInv, [Next]_vars PROVE edits' >= edits /\ clock' >= clock
<1>1. edits \in Nat /\ clock \in Nat /\ \A t \in Stamps : t >= clock
  BY FileTypes DEF Stamps
<1>2. CASE UNCHANGED <<clock, edits>>
  BY <1>1, <1>2
<1>3. CASE clock' \in Stamps /\ edits' = edits
  BY <1>1, <1>3
<1>4. CASE clock' \in Stamps \cup {clock} /\ edits' = edits + 1
  BY <1>1, <1>4
<1>5. ASSUME NEW p \in Paths, Analyze(p) \/ NextJob(p) \/ StaleVisit(p) \/
            MergeVisit(p) \/ MissingUse(p)
      PROVE  UNCHANGED <<clock, edits>>
  BY <1>5 DEF Analyze, NextJob, StaleVisit, MergeVisit, MissingUse, fileVars
<1>6. CASE CreateJob \/ StaleReturn \/ MergeReturn \/ Build \/ BuildFails \/
           VerifyFails \/ BuildFailed
           \/ Link \/ Start \/ Kill
  BY <1>2, <1>6 DEF CreateJob, StaleReturn, MergeReturn, Build, BuildFails,
       VerifyFails, BuildFailed,
       Link, Start, Kill, fileVars
<1>7. CASE Open \/ Emit
  BY <1>3, <1>7 DEF Open, Emit
<1>8. ASSUME NEW p \in Paths, Edit(p) \/ Create(p) \/ Delete(p)
      PROVE  clock' \in Stamps \cup {clock} /\ edits' = edits + 1
  BY <1>8 DEF Edit, Create, Delete, Write
<1>9. CASE UNCHANGED vars
  BY <1>2, <1>9 DEF vars, fileVars
<1> QED BY <1>2, <1>4, <1>5, <1>6, <1>7, <1>8, <1>9, Zenon DEF Next, Driver, User

LEMMA StepGrows == ASSUME IInv, IInv', ClockOK, [Next]_vars PROVE Grows
<1>1. ASSUME \A s : Held(s)' \subseteq Held(s) PROVE Grows
  BY <1>1, Forward, SubsetGrows
<1>2. ASSUME UNCHANGED dir, jobs' = << >> \/ (jobs' = jobs /\ pc # "create" /\ pc' # "create")
      PROVE  Grows
  BY <1>2, <1>1, QuietHeld
<1>3. ASSUME NEW p \in Paths, Analyze(p) PROVE Grows
  BY <1>3, <1>1, AnalyzeHeld
<1>4. CASE CreateJob
  BY <1>4, <1>1, CreateJobHeld
<1>5. ASSUME NEW p \in Paths, NextJob(p) PROVE Grows
  BY <1>5, <1>2 DEF NextJob, BeginMerge, fileVars
<1>6. ASSUME NEW u \in Paths, StaleVisit(u) \/ MergeVisit(u) \/ MissingUse(u) PROVE Grows
  BY <1>6, <1>2 DEF StaleVisit, BeginMerge, MergeVisit, MissingUse, Exit, fileVars
<1>7. CASE StaleReturn \/ MergeReturn \/ Build \/ BuildFails
  BY <1>7, <1>2 DEF StaleReturn, MergeReturn, Build, BuildFails, EndJob, fileVars
<1>8. CASE Open \/ Emit
  BY <1>8, <1>2 DEF Open, Emit, EndJob
<1>9. CASE VerifyFails \/ BuildFailed \/ Link \/ Kill
  BY <1>9, <1>2 DEF VerifyFails, BuildFailed, Link, Kill, Exit, fileVars
<1>10. CASE Start
  BY <1>10, <1>2 DEF Start, fileVars
<1>11. ASSUME NEW p \in Paths, Edit(p) \/ Create(p) PROVE Grows
  <2>1. CASE Edit(p)
    <3>1. PICK c \in Rewrites[dir[p].content] : Write(p, c)
      BY <2>1 DEF Edit
    <3>2. dir[p].content \in Contents
      BY <2>1 DEF Edit, IInv, FilesOK, IsMap, Source
    <3>3. c \in Contents
      BY <3>1, <3>2, ContentsAssumption
    <3> QED BY <3>1, <3>3, WriteGrows
  <2>2. CASE Create(p)
    BY <2>2, WriteGrows DEF Create
  <2> QED BY <1>11, <2>1, <2>2
<1>12. ASSUME NEW p \in Paths, Delete(p) PROVE Grows
  BY <1>12, <1>1, DeleteHeld
<1>13. CASE UNCHANGED vars
  <2>1. \A s : Held(s)' = Held(s)
    BY <1>13 DEF vars, fileVars, runVars, Held, InDir, InJobs, SourceTime
  <2> QED BY <2>1, <1>1
<1>14. CASE Driver
  BY <1>14, <1>3, <1>4, <1>5, <1>6, <1>7, <1>8, <1>9, Zenon DEF Driver
<1>15. CASE User
  BY <1>15, <1>9, <1>10, <1>11, <1>12, Zenon DEF User
<1> QED BY <1>13, <1>14, <1>15 DEF Next

\* A version that was around before a step and one that is now.
LEMMA OldVersion ==
  ASSUME Grows, NEW s, NEW h \in Held(s)', h.version <= edits PROVE Known(s, h)
<1>1. edits \in Nat /\ (New(s, h) \/ Known(s, h))
  BY DEF Grows
<1>2. ASSUME New(s, h) PROVE Known(s, h)
  BY <1>1, <1>2 DEF New
<1> QED BY <1>1, <1>2

-----------------------------------------------------------------------------
(* What an object and a failure say stays true while versions come and go. *)

LEMMA OutdatedGrows ==
  ASSUME IInv, Grows, NEW p \in DOMAIN failed \cap DOMAIN objects, Outdated(p),
         failed'[p] = failed[p], objects'[p].mtime = objects[p].mtime
  PROVE  Outdated(p)'
<1>1. PICK s \in DOMAIN failed[p] :
        /\ failed[p][s] <= edits
        /\ \A h \in Held(s) : h.version = failed[p][s] => h.time > objects[p].mtime
  BY DEF Outdated
<1>2. failed[p][s] \in Nat /\ objects[p].mtime \in Nat /\ edits \in Nat
  <2>1. IsMap(failed[p], Version)
    BY DEF IInv, HistoryOK
  <2> QED BY <2>1, Bounds, FileTypes DEF IsMap
<1>3. failed[p][s] <= edits'
  BY <1>1, <1>2 DEF Grows
<1>4. ASSUME NEW h \in Held(s)', h.version = failed[p][s] PROVE h.time > objects[p].mtime
  <2>1. PICK g \in Held(s) : g.version = h.version /\ h.time \in Nat /\ g.time <= h.time
    BY <1>1, <1>4, OldVersion DEF Known
  <2>2. g.time > objects[p].mtime /\ g.time \in Nat
    BY <1>1, <1>4, <2>1, HeldTypes
  <2> QED BY <1>2, <2>1, <2>2
<1> QED BY <1>1, <1>3, <1>4 DEF Outdated

LEMMA OriginGrows ==
  ASSUME IInv, Grows, NEW p \in DOMAIN objects, OriginAt(p), From(p)' = From(p)
  PROVE  OriginAt(p)'
<1>1. \A s \in Sources(p) :
        From(p)[s].version \in Nat /\ From(p)[s].readAt \in Nat /\ s \in Paths
  <2>1. IsMap(From(p), Origin)
    BY DEF IInv, FilesOK, IsObject, From
  <2> QED BY <2>1, Bounds DEF IsMap, Origin, Sources
<1>2. ASSUME NEW s \in Sources(p), NEW h \in Held(s)', h.version = From(p)[s].version
      PROVE  Known(s, h)
  BY <1>2, OldVersion DEF OriginAt, SourceOK
<1>3. ASSUME NEW s \in Sources(p) PROVE SourceOK(p, s)'
  <2>1. From(p)[s].version <= edits' /\ From(p)[s].readAt <= clock'
    BY <1>1 DEF OriginAt, SourceOK, Grows
  <2>2. ASSUME NEW h \in Held(s)', h.version = From(p)[s].version
        PROVE  h.uses \subseteq Sources(p)
    BY <1>2, <2>2 DEF Known, OriginAt, SourceOK
  <2>3. ASSUME NEW h \in Held(s)', h.version # From(p)[s].version
        PROVE  h.time >= From(p)[s].readAt
    <3>1. CASE New(s, h)
      BY <1>1, <3>1 DEF New, OriginAt, SourceOK, Grows
    <3>2. CASE Known(s, h)
      <4>1. PICK g \in Held(s) : g.version = h.version /\ h.time \in Nat /\ g.time <= h.time
        BY <3>2 DEF Known
      <4>2. g.time >= From(p)[s].readAt /\ g.time \in Nat
        BY <2>3, <4>1, HeldTypes DEF OriginAt, SourceOK
      <4> QED BY <1>1, <4>1, <4>2
    <3> QED BY <3>1, <3>2 DEF Grows
  <2> QED BY <2>1, <2>2, <2>3 DEF SourceOK, Sources
<1>4. ASSUME NEW S \in SUBSET Sources(p), p \in S, S # Sources(p) PROVE LeadsOut(p, S)'
  <2>1. PICK s \in S : \A h \in Held(s) :
          h.version = From(p)[s].version => h.uses \cap (Sources(p) \ S) # {}
    BY <1>4 DEF OriginAt, LeadsOut
  <2>2. ASSUME NEW h \in Held(s)', h.version = From(p)[s].version
        PROVE  h.uses \cap (Sources(p) \ S) # {}
    BY <1>2, <2>1, <2>2 DEF Known
  <2> QED BY <2>1, <2>2 DEF LeadsOut, Sources
<1>5. Sources(p)' = Sources(p)
  BY DEF Sources
<1> QED BY <1>3, <1>4, <1>5 DEF OriginAt

-----------------------------------------------------------------------------
(* Which steps change what.                                                *)

LEMMA DirChanges ==
  ASSUME IInv, [Next]_vars
  PROVE  \/ UNCHANGED dir
         \/ UNCHANGED <<runVars, objects>> /\ \E p \in Paths, c \in Contents : Write(p, c)
         \/ \E p \in Paths : Delete(p)
<1>1. ASSUME NEW p \in Paths, Analyze(p) \/ NextJob(p) \/ StaleVisit(p) \/
            MergeVisit(p) \/ MissingUse(p)
      PROVE  UNCHANGED dir
  BY <1>1 DEF Analyze, NextJob, StaleVisit, MergeVisit, MissingUse, fileVars
<1>2. CASE CreateJob \/ StaleReturn \/ MergeReturn \/ Build \/ BuildFails \/
           VerifyFails \/ BuildFailed
           \/ Link \/ Start \/ Kill \/ Open \/ Emit
  BY <1>2 DEF CreateJob, StaleReturn, MergeReturn, Build, BuildFails, VerifyFails, BuildFailed,
       Link, Start, Kill, Open, Emit, fileVars
<1>3. ASSUME NEW p \in Paths, Edit(p) PROVE \E c \in Contents : Write(p, c)
  <2>1. dir[p].content \in Contents
    BY <1>3 DEF Edit, IInv, FilesOK, IsMap, Source
  <2> QED BY <1>3, <2>1, ContentsAssumption DEF Edit
<1>4. ASSUME NEW p \in Paths, Create(p) PROVE \E c \in Contents : Write(p, c)
  BY <1>4 DEF Create
<1>5. \A p \in Paths, c \in Contents : Write(p, c) => UNCHANGED <<runVars, objects>>
  BY DEF Write
<1>6. CASE UNCHANGED vars
  BY <1>6 DEF vars, fileVars
<1>7. CASE Driver
  BY <1>7, <1>1, <1>2, Zenon DEF Driver
<1>8. CASE User
  BY <1>8, <1>2, <1>3, <1>4, <1>5, Zenon DEF User
<1> QED BY <1>6, <1>7, <1>8 DEF Next

\* The time of a source that has been read is only looked at in CreateJob.
SameTimes == jobs' = jobs /\ (UNCHANGED <<pc, job>> \/ (pc # "create" /\ pc' # "create"))

LEMMA JobsChange ==
  ASSUME [Next]_vars
  PROVE  SameTimes \/ jobs' = << >> \/ CreateJob \/ \E p \in Paths : Analyze(p)
<1>1. ASSUME NEW p \in Paths, NextJob(p) \/ StaleVisit(p) \/ MergeVisit(p) PROVE SameTimes
  BY <1>1 DEF NextJob, StaleVisit, MergeVisit, BeginMerge, SameTimes
<1>2. ASSUME NEW p \in Paths, MissingUse(p) PROVE jobs' = << >>
  BY <1>2 DEF MissingUse, Exit
<1>3. CASE StaleReturn \/ MergeReturn \/ Build \/ BuildFails \/ Start \/ Open \/ Emit
  BY <1>3 DEF StaleReturn, MergeReturn, Build, BuildFails, Start, Open, Emit, EndJob, SameTimes
<1>4. CASE VerifyFails \/ BuildFailed \/ Link \/ Kill
  BY <1>4 DEF VerifyFails, BuildFailed, Link, Kill, Exit
<1>5. ASSUME NEW p \in Paths, Edit(p) \/ Create(p) \/ Delete(p) PROVE SameTimes
  BY <1>5 DEF Edit, Create, Delete, Write, runVars, SameTimes
<1>6. CASE UNCHANGED vars
  BY <1>6 DEF vars, runVars, SameTimes
<1>7. CASE Driver
  BY <1>7, <1>1, <1>2, <1>3, <1>4, Zenon DEF Driver
<1>8. CASE User
  BY <1>8, <1>3, <1>4, <1>5, Zenon DEF User
<1> QED BY <1>6, <1>7, <1>8 DEF Next

LEMMA ObjectsChange ==
  ASSUME [Next]_vars
  PROVE  /\ UNCHANGED objects \/ Open \/ Emit
         /\ UNCHANGED failed \/ Build \/ BuildFails
         /\ UNCHANGED killed \/ Open \/ Kill
<1>1. ASSUME NEW p \in Paths, Analyze(p) \/ NextJob(p) \/ StaleVisit(p) \/
            MergeVisit(p) \/ MissingUse(p)
      PROVE  UNCHANGED <<objects, historyVars>>
  BY <1>1 DEF Analyze, NextJob, StaleVisit, MergeVisit, MissingUse, fileVars
<1>2. CASE CreateJob \/ StaleReturn \/ MergeReturn \/ VerifyFails \/ BuildFailed \/ Link \/ Start
  BY <1>2 DEF CreateJob, StaleReturn, MergeReturn, VerifyFails, BuildFailed, Link, Start,
       fileVars, historyVars
<1>3. CASE Build \/ BuildFails \/ Kill \/ Open \/ Emit
  BY <1>3 DEF Build, BuildFails, Kill, Open, Emit, fileVars, historyVars
<1>4. ASSUME NEW p \in Paths, Edit(p) \/ Create(p) \/ Delete(p)
      PROVE  UNCHANGED <<objects, historyVars>>
  BY <1>4 DEF Edit, Create, Delete, Write
<1>5. CASE UNCHANGED vars
  BY <1>5 DEF vars, fileVars, historyVars
<1>6. UNCHANGED <<objects, historyVars>> => UNCHANGED <<objects, failed, killed>>
  BY DEF historyVars
<1>7. CASE Driver
  BY <1>7, <1>1, <1>2, <1>3, <1>6, Zenon DEF Driver
<1>8. CASE User
  BY <1>8, <1>2, <1>3, <1>4, <1>6, Zenon DEF User
<1> QED BY <1>5, <1>6, <1>7, <1>8 DEF Next

-----------------------------------------------------------------------------
(* Times and versions.                                                     *)

LEMMA ClockStep == ASSUME IInv, IInv', ClockOK, [Next]_vars PROVE ClockOK'
<1>1. /\ edits' >= edits /\ clock' >= clock /\ clock \in Nat /\ edits \in Nat
      /\ clock' \in Nat /\ edits' \in Nat
  <2>1. edits' \in Nat /\ clock' \in Nat
    BY Bounds DEF IInv, FilesOK
  <2> QED BY <2>1, Forward, FileTypes
<1>2. ASSUME NEW s \in DOMAIN dir' PROVE dir'[s].mtime <= clock' /\ dir'[s].version <= edits'
  <2>1. CASE s \in DOMAIN dir /\ dir'[s] = dir[s]
    BY <1>1, <2>1, FileTypes DEF ClockOK
  <2>2. ASSUME NEW p \in Paths, NEW c \in Contents, Write(p, c), s = p
        PROVE  dir'[s].mtime <= clock' /\ dir'[s].version <= edits'
    BY <1>1, <2>2 DEF Write
  <2>3. ASSUME NEW p \in Paths, NEW c \in Contents, Write(p, c), s # p
        PROVE  s \in DOMAIN dir /\ dir'[s] = dir[s]
    BY <2>3 DEF Write
  <2>4. ASSUME NEW p \in Paths, Delete(p) PROVE s \in DOMAIN dir /\ dir'[s] = dir[s]
    BY <2>4 DEF Delete
  <2> QED BY <1>2, <2>1, <2>2, <2>3, <2>4, DirChanges
<1>3. ASSUME NEW s \in DOMAIN jobs' PROVE jobs'[s].readAt <= clock' /\ jobs'[s].version <= edits'
  <2>1. CASE s \in DOMAIN jobs /\ jobs'[s].readAt = jobs[s].readAt
              /\ jobs'[s].version = jobs[s].version
    BY <1>1, <2>1, FileTypes DEF ClockOK
  <2>2. CASE jobs' = << >>
    BY <1>3, <2>2
  <2>3. CASE CreateJob
    <3>1. s \in DOMAIN jobs
      BY <1>3, <2>3 DEF CreateJob
    <3> QED BY <2>1, <2>3, <3>1, CreateJobSame
  <2>4. ASSUME NEW p \in Paths, Analyze(p), s = p
        PROVE  jobs'[s].readAt <= clock' /\ jobs'[s].version <= edits'
    <3>1. p \in DOMAIN dir /\ jobs'[s].readAt = clock /\ jobs'[s].version = dir[p].version
      BY <2>4 DEF Analyze, IInv, ControlOK
    <3> QED BY <1>1, <3>1, FileTypes DEF ClockOK
  <2>5. ASSUME NEW p \in Paths, Analyze(p), s # p PROVE s \in DOMAIN jobs /\ jobs'[s] = jobs[s]
    BY <1>3, <2>5 DEF Analyze
  <2> QED BY <1>3, <2>1, <2>2, <2>3, <2>4, <2>5, JobsChange DEF SameTimes
<1>4. ASSUME NEW p \in DOMAIN objects' PROVE objects'[p].mtime >= 1
  <2>1. \A t \in Stamps : t >= 1
    BY <1>1 DEF Stamps, ClockOK
  <2>2. CASE UNCHANGED objects
    BY <1>4, <2>2 DEF ClockOK
  <2>3. CASE Open
    BY <1>4, <2>1, <2>3 DEF Open, ClockOK
  <2>4. CASE Emit
    BY <1>4, <2>1, <2>4 DEF Emit, ClockOK
  <2> QED BY <2>2, <2>3, <2>4, ObjectsChange
<1> QED BY <1>1, <1>2, <1>3, <1>4 DEF ClockOK

LEMMA VersionsStep == ASSUME IInv, IInv', ClockOK, VersionsOK, [Next]_vars PROVE VersionsOK'
<1> DEFINE OK(s) == IF dir[s].version = jobs[s].version THEN InDir(s) = InJobs(s)
                    ELSE dir[s].mtime >= jobs[s].readAt
<1> SUFFICES ASSUME NEW s \in DOMAIN dir' \cap DOMAIN jobs' PROVE OK(s)'
  BY DEF VersionsOK
<1>1. ASSUME s \in DOMAIN dir \cap DOMAIN jobs, dir'[s] = dir[s], InJobs(s)' = InJobs(s),
             jobs'[s].version = jobs[s].version, jobs'[s].readAt = jobs[s].readAt
      PROVE  OK(s)'
  BY <1>1 DEF VersionsOK, InDir
<1>2. jobs' # << >>
  OBVIOUS
<1>3. ASSUME NEW p \in Paths, Analyze(p) PROVE OK(s)'
  <2>1. CASE s = p
    BY <1>3, <2>1, AnalyzeSame DEF InDir
  <2>2. CASE s # p
    BY <1>1, <1>3, <2>2, AnalyzeSame
  <2> QED BY <2>1, <2>2
<1>4. CASE CreateJob
  <2>1. dir' = dir /\ s \in DOMAIN jobs
    BY <1>4 DEF CreateJob, fileVars
  <2> QED BY <1>1, <1>4, <2>1, CreateJobSame
<1>5. CASE SameTimes /\ UNCHANGED dir
  BY <1>1, <1>5 DEF SameTimes, InJobs, SourceTime
<1>6. ASSUME NEW p \in Paths, Delete(p) PROVE OK(s)'
  <2>1. s \in DOMAIN dir /\ dir'[s] = dir[s] /\ jobs' = jobs /\ pc = "idle" /\ pc' = "idle"
    BY <1>6 DEF Delete, runVars
  <2> QED BY <1>1, <2>1 DEF InJobs, SourceTime
<1>7. ASSUME NEW p \in Paths, NEW c \in Contents, Write(p, c) PROVE OK(s)'
  <2>1. jobs' = jobs /\ pc' = pc /\ job' = job
    BY <1>7 DEF Write, runVars
  <2>2. CASE s = p
    <3>1. dir'[s].version = edits + 1 /\ dir'[s].mtime >= clock /\ dir'[s].mtime \in Nat
      BY <1>7, <2>2, Bounds, FileTypes DEF Write, Stamps
    <3> QED BY <2>1, <3>1, FileTypes DEF ClockOK
  <2>3. CASE s # p
    <3>1. s \in DOMAIN dir /\ dir'[s] = dir[s]
      BY <1>7, <2>3 DEF Write
    <3> QED BY <1>1, <2>1, <3>1 DEF InJobs, SourceTime
  <2> QED BY <2>2, <2>3
<1>8. CASE SameTimes
  BY <1>5, <1>6, <1>7, <1>8, DirChanges
<1> QED BY <1>2, <1>3, <1>4, <1>8, JobsChange

-----------------------------------------------------------------------------
(* Which job is in work, what it is made from, and which are done.         *)

LEMMA CompilePhase ==
  ASSUME [Next]_vars
  PROVE  /\ pc \in {"build", "open", "emit"} =>
              Build \/ BuildFails \/ VerifyFails \/ Open \/ Emit \/ Kill \/ UNCHANGED runVars
         /\ pc' \in {"build", "open", "emit"} =>
              MergeReturn \/ Build \/ Open \/ UNCHANGED runVars
<1> DEFINE C == {"build", "open", "emit"}
<1>1. ASSUME NEW p \in Paths, Analyze(p) \/ NextJob(p) \/ StaleVisit(p) \/
            MergeVisit(p) \/ MissingUse(p)
      PROVE  pc \notin C /\ pc' \notin C
  BY <1>1 DEF Analyze, NextJob, BeginMerge, StaleVisit, MergeVisit, MissingUse, Exit
<1>2. CreateJob \/ StaleReturn \/ BuildFailed \/ Link \/ Start => pc \notin C /\ pc' \notin C
  BY DEF CreateJob, StaleReturn, EndJob, BuildFailed, Link, Start, Exit
<1>3. MergeReturn => pc \notin C
  BY DEF MergeReturn
<1>4. BuildFails \/ VerifyFails \/ Emit \/ Kill => pc' \notin C
  BY DEF BuildFails, VerifyFails, Emit, Kill, EndJob, Exit
<1>5. ASSUME NEW p \in Paths, Edit(p) \/ Create(p) \/ Delete(p) PROVE UNCHANGED runVars
  BY <1>5 DEF Edit, Create, Delete, Write
<1>6. UNCHANGED vars => UNCHANGED runVars
  BY DEF vars
<1>7. CASE Driver
  BY <1>7, <1>1, <1>2, <1>3, <1>4, Zenon DEF Driver
<1>8. CASE User
  BY <1>8, <1>2, <1>4, <1>5, Zenon DEF User
<1> QED BY <1>6, <1>7, <1>8 DEF Next

LEMMA DecidedStep ==
  ASSUME IInv, ListOK, TakenOnce, DecidedOnce, [Next]_vars PROVE DecidedOnce'
<1>1. NoPath \notin objectFiles
  BY ContentsAssumption DEF IInv, RunOK, IsMap
<1>2. ASSUME Exit PROVE DecidedOnce'
  BY <1>2 DEF Exit, DecidedOnce
<1>3. ASSUME UNCHANGED <<objectFiles, todo, job>> PROVE DecidedOnce'
  BY <1>3 DEF DecidedOnce
<1>4. ASSUME UNCHANGED objectFiles, pc \in {"idle", "scan", "create"} PROVE DecidedOnce'
  BY <1>4 DEF DecidedOnce, ListOK
<1>5. ASSUME job' = NoPath, UNCHANGED todo, objectFiles' \in {objectFiles, objectFiles \cup {job}},
             pc \in {"stale", "merge", "build", "open", "emit"}
      PROVE  DecidedOnce'
  <2>1. job \notin todo /\ job # NoPath /\ NoPath \notin todo
    BY <1>5, ContentsAssumption DEF TakenOnce, IInv, ControlOK, RunOK, IsMap
  <2> QED BY <1>1, <1>5, <2>1 DEF DecidedOnce
<1>6. ASSUME NEW p \in Paths, NextJob(p) PROVE DecidedOnce'
  BY <1>6 DEF NextJob, BeginMerge, DecidedOnce
<1>7. ASSUME NEW p \in Paths, Analyze(p) PROVE DecidedOnce'
  BY <1>4, <1>7 DEF Analyze
<1>8. ASSUME NEW u \in Paths, StaleVisit(u) \/ MergeVisit(u) PROVE DecidedOnce'
  BY <1>3, <1>8 DEF StaleVisit, BeginMerge, MergeVisit
<1>9. ASSUME NEW u \in Paths, MissingUse(u) PROVE DecidedOnce'
  BY <1>2, <1>9 DEF MissingUse
<1>10. CASE CreateJob \/ Start
  BY <1>4, <1>10 DEF CreateJob, Start
<1>11. CASE StaleReturn
  BY <1>3, <1>5, <1>11 DEF StaleReturn, EndJob
<1>12. CASE MergeReturn \/ Build \/ Open
  BY <1>3, <1>12 DEF MergeReturn, Build, Open
<1>13. CASE BuildFails \/ Emit
  BY <1>5, <1>13 DEF BuildFails, Emit, EndJob
<1>14. CASE VerifyFails \/ BuildFailed \/ Link \/ Kill
  BY <1>2, <1>14 DEF VerifyFails, BuildFailed, Link, Kill
<1>15. ASSUME NEW p \in Paths, Edit(p) \/ Create(p) \/ Delete(p) PROVE DecidedOnce'
  BY <1>3, <1>15 DEF Edit, Create, Delete, Write, runVars
<1>16. CASE UNCHANGED vars
  BY <1>3, <1>16 DEF vars, runVars
<1>17. CASE Driver
  BY <1>17, <1>6, <1>7, <1>8, <1>9, <1>10, <1>11, <1>12, <1>13, <1>14, Zenon DEF Driver
<1>18. CASE User
  BY <1>18, <1>10, <1>14, <1>15, Zenon DEF User
<1> QED BY <1>16, <1>17, <1>18 DEF Next

\* What a job uses does not change while jobs does not.
LEMMA SameUses ==
  ASSUME jobs' = jobs, NEW p
  PROVE  /\ Reach(p)' = Reach(p) /\ (Stale(p)' <=> Stale(p))
         /\ (Promise!Complete(p)' <=> Promise!Complete(p))
<1>1. Reach(p)' = Reach(p)
  BY DEF Reach, Promise!Reach, Promise!Closed
<1> QED BY <1>1 DEF Stale, Promise!Stale, Promise!Complete, Reach

LEMMA ModuleStep ==
  ASSUME IInv, SearchInv, SearchInv', ModuleOK, [Next]_vars PROVE ModuleOK'
<1> SUFFICES ASSUME pc' \in {"build", "open", "emit"}
             PROVE  (DOMAIN Module = Reach(job) /\ Promise!Complete(job))'
  BY DEF ModuleOK
<1>1. ASSUME jobs' = jobs, job' = job, stack' = stack, pc \in {"build", "open", "emit"}
      PROVE  (DOMAIN Module = Reach(job) /\ Promise!Complete(job))'
  <2>1. DOMAIN Module = Reach(job) /\ Promise!Complete(job) /\ Module' = Module
    BY <1>1 DEF ModuleOK, Module
  <2>2. Reach(job)' = Reach(job) /\ Promise!Complete(job)'
    BY <1>1, <2>1, SameUses
  <2> QED BY <2>1, <2>2
<1>2. CASE MergeReturn
  <2>1. Len(stack) = 1 /\ pc = "merge" /\ Top.left = {}
        /\ jobs' = jobs /\ job' = job /\ pc' = "build"
    BY <1>2 DEF MergeReturn
  <2>2. Promise!Complete(job)'
    BY <2>1, SearchComplete, SameUses
  <2>3. Module' = SetToBag(Reach(job)')
    BY <2>1 DEF SearchInv, ModuleIsComplete
  <2> QED BY <2>2, <2>3 DEF SetToBag
<1>3. CASE Build \/ Open
  BY <1>1, <1>3 DEF Build, Open
<1>4. CASE UNCHANGED runVars
  BY <1>1, <1>4 DEF runVars
<1> QED BY <1>2, <1>3, <1>4, CompilePhase

LEMMA BuiltStep == ASSUME BuiltOK, [Next]_vars PROVE BuiltOK'
<1>1. CASE MergeReturn
  BY <1>1 DEF MergeReturn, BuiltOK
<1>2. CASE Build
  BY <1>2 DEF Build, BuiltOK
<1>3. CASE Open
  BY <1>3 DEF Open, BuiltOK
<1>4. CASE UNCHANGED runVars
  <2>1. pc \in {"open", "emit"} => UNCHANGED failed
    BY <1>4, ObjectsChange DEF runVars, Build, BuildFails
  <2> QED BY <1>4, <2>1 DEF runVars, BuiltOK
<1>5. pc' \in {"open", "emit"} => MergeReturn \/ Build \/ Open \/ UNCHANGED runVars
  BY CompilePhase
<1> QED BY <1>1, <1>2, <1>3, <1>4, <1>5 DEF BuiltOK

LEMMA TornStep == ASSUME IInv, TornOK, [Next]_vars PROVE TornOK'
<1> SUFFICES ASSUME NEW p \in DOMAIN objects', ~objects'[p].whole
             PROVE  p \in killed' \/ (pc' = "emit" /\ p = job')
  BY DEF TornOK
<1>1. CASE Open
  BY <1>1 DEF Open, TornOK
<1>2. CASE Emit
  BY <1>2 DEF Emit, TornOK, historyVars
<1>3. CASE Kill
  BY <1>3 DEF Kill, TornOK, fileVars
<1>4. ASSUME ~Open, ~Emit, ~Kill PROVE p \in killed' \/ (pc' = "emit" /\ p = job')
  <2>1. UNCHANGED <<objects, killed>>
    BY <1>4, ObjectsChange
  <2>2. pc = "emit" => UNCHANGED runVars
    BY <1>4, CompilePhase DEF Build, BuildFails, VerifyFails
  <2> QED BY <2>1, <2>2 DEF TornOK, runVars
<1> QED BY <1>1, <1>2, <1>3, <1>4

-----------------------------------------------------------------------------
(* The times of objects.                                                   *)

LEMMA TimesStep ==
  ASSUME IInv, ListOK, TakenOnce, TimesOK, [Next]_vars PROVE TimesOK'
<1>1. ASSUME Waiting' \subseteq Waiting, jobs' = jobs, objects' = objects PROVE TimesOK'
  BY <1>1 DEF TimesOK, ObjectTime
<1>2. ASSUME Waiting' = {} PROVE TimesOK'
  BY <1>2 DEF TimesOK
<1>3. ASSUME Exit PROVE TimesOK'
  BY <1>2, <1>3 DEF Exit, Waiting
<1>4. CASE Start
  BY <1>2, <1>4 DEF Start, Waiting, ListOK
<1>5. ASSUME NEW p \in Paths, Analyze(p) PROVE TimesOK'
  BY <1>5 DEF Analyze, Waiting, TimesOK, ObjectTime, fileVars
<1>6. CASE CreateJob
  <2>1. /\ pc = "create" /\ Waiting' = DOMAIN jobs /\ Waiting = DOMAIN jobs \ {job}
        /\ objects' = objects /\ job \in DOMAIN jobs
    BY <1>6 DEF CreateJob, Waiting, fileVars, IInv, ControlOK
  <2>2. ASSUME NEW p \in DOMAIN jobs PROVE jobs'[p].objectFileTime = ObjectTime(p)
    <3>1. jobs[p] \in CompilerJob
      BY DEF IInv, RunOK, IsMap
    <3>2. CASE p = job
      BY <1>6, <3>1, <3>2 DEF CreateJob, CompilerJob, ObjectTime
    <3>3. CASE p # job
      BY <1>6, <2>1, <3>3 DEF CreateJob, TimesOK
    <3> QED BY <3>2, <3>3
  <2> QED BY <2>1, <2>2 DEF TimesOK, ObjectTime
<1>7. ASSUME NEW p \in Paths, NextJob(p) PROVE TimesOK'
  BY <1>1, <1>7 DEF NextJob, BeginMerge, Waiting, fileVars
<1>8. ASSUME NEW u \in Paths, StaleVisit(u) \/ MergeVisit(u) PROVE TimesOK'
  BY <1>1, <1>8 DEF StaleVisit, BeginMerge, MergeVisit, Waiting, fileVars
<1>9. ASSUME NEW u \in Paths, MissingUse(u) PROVE TimesOK'
  BY <1>3, <1>9 DEF MissingUse
<1>10. CASE StaleReturn \/ MergeReturn
  BY <1>1, <1>10 DEF StaleReturn, MergeReturn, EndJob, Waiting, fileVars
<1>11. CASE Build \/ BuildFails
  BY <1>1, <1>11 DEF Build, BuildFails, EndJob, Waiting, fileVars
<1>12. CASE Open \/ Emit
  <2>1. Waiting = todo /\ Waiting' = todo /\ jobs' = jobs /\ job \notin todo
    BY <1>12 DEF Open, Emit, EndJob, Waiting, TakenOnce
  <2>2. ASSUME NEW p \in todo PROVE ObjectTime(p)' = ObjectTime(p)
    BY <1>12, <2>1, <2>2 DEF Open, Emit, ObjectTime
  <2> QED BY <2>1, <2>2 DEF TimesOK
<1>13. CASE VerifyFails \/ BuildFailed \/ Link \/ Kill
  BY <1>3, <1>13 DEF VerifyFails, BuildFailed, Link, Kill
<1>14. ASSUME NEW p \in Paths, Edit(p) \/ Create(p) \/ Delete(p) PROVE TimesOK'
  BY <1>1, <1>14 DEF Edit, Create, Delete, Write, runVars, Waiting
<1>15. CASE UNCHANGED vars
  BY <1>1, <1>15 DEF vars, fileVars, runVars, Waiting
<1>16. CASE Driver
  BY <1>16, <1>5, <1>6, <1>7, <1>8, <1>9, <1>10, <1>11, <1>12, <1>13, Zenon DEF Driver
<1>17. CASE User
  BY <1>17, <1>4, <1>13, <1>14, Zenon DEF User
<1> QED BY <1>15, <1>16, <1>17 DEF Next

\* A compilation fails only if the job was stale, so one of the versions it
\* read is newer than the object.
LEMMA FailureOutdates ==
  ASSUME IInv, SearchInv, ClockOK, VersionsOK, TimesOK, ModuleOK, BuildFails, Grows,
         NEW p \in DOMAIN objects, p = job
  PROVE  Outdated(p)'
<1>1. /\ pc = "build" /\ UNCHANGED <<dir, objects, edits, jobs>> /\ p \in DOMAIN jobs
      /\ failed'[p] = [s \in DOMAIN Module |-> jobs[s].version]
  BY DEF BuildFails, fileVars, IInv, ControlOK
<1>2. jobs[p].objectFileTime = objects[p].mtime /\ objects[p].mtime >= 1
  BY <1>1 DEF TimesOK, Waiting, ObjectTime, ClockOK
<1>3. Stale(p)
  BY <1>1 DEF SearchInv, OnlyStaleIsBuilt
<1>4. PICK s \in Reach(p) : jobs[s].sourceFileTime > jobs[p].objectFileTime
  <2>1. jobs[p].objectFileTime # 0
    BY <1>2, FileTypes
  <2> QED BY <2>1, <1>3 DEF Stale, Promise!Stale, Reach
<1>5. s \in DOMAIN jobs /\ s \in DOMAIN Module
  BY <1>1, <1>4 DEF ModuleOK, Reach, Promise!Reach
<1>6. failed'[p][s] = jobs[s].version /\ jobs[s].version <= edits /\ edits' = edits
  BY <1>1, <1>5 DEF ClockOK
<1>7. ASSUME NEW h \in Held(s)', h.version = jobs[s].version PROVE h.time > objects'[p].mtime
  <2>1. PICK g \in Held(s) : g.version = h.version /\ h.time \in Nat /\ g.time <= h.time
    BY <1>6, <1>7, OldVersion DEF Known
  <2>2. InJobs(s).time = jobs[s].sourceFileTime
    BY <1>1 DEF InJobs, SourceTime
  <2>3. g = InJobs(s)
    <3>1. CASE s \in DOMAIN dir /\ g = InDir(s)
      BY <1>5, <1>7, <2>1, <3>1 DEF VersionsOK, InDir
    <3> QED BY <3>1, HeldIs
  <2> QED BY <1>1, <1>2, <1>4, <1>5, <2>1, <2>2, <2>3, FileTypes
<1> QED BY <1>1, <1>5, <1>6, <1>7 DEF Outdated

LEMMA FailedStep ==
  ASSUME IInv, SearchInv, ClockOK, VersionsOK, TimesOK, ModuleOK, BuiltOK, FailedOK,
         Grows, [Next]_vars
  PROVE  FailedOK'
<1> SUFFICES ASSUME NEW p \in DOMAIN failed' \cap DOMAIN objects' PROVE Outdated(p)'
  BY DEF FailedOK
<1>1. ASSUME p \in DOMAIN failed, p \in DOMAIN objects, failed'[p] = failed[p],
             objects'[p].mtime = objects[p].mtime
      PROVE  Outdated(p)'
  BY <1>1, OutdatedGrows DEF FailedOK
<1>2. CASE Build
  <2>1. p \in DOMAIN failed /\ failed'[p] = failed[p] /\ objects' = objects
    BY <1>2 DEF Build, fileVars
  <2> QED BY <1>1, <2>1
<1>3. CASE BuildFails
  <2>1. objects' = objects
    BY <1>3 DEF BuildFails, fileVars
  <2>2. CASE p = job
    BY <1>3, <2>1, <2>2, FailureOutdates
  <2>3. CASE p # job
    <3>1. p \in DOMAIN failed /\ failed'[p] = failed[p]
      BY <1>3, <2>3 DEF BuildFails
    <3> QED BY <1>1, <2>1, <3>1
  <2> QED BY <2>2, <2>3
<1>4. CASE Open \/ Emit
  <2>1. failed' = failed
    BY <1>4 DEF Open, Emit, historyVars
  <2>2. p # job
    BY <1>4, <2>1 DEF Open, Emit, BuiltOK
  <2>3. p \in DOMAIN objects /\ objects'[p] = objects[p]
    BY <1>4, <2>2 DEF Open, Emit
  <2> QED BY <1>1, <2>1, <2>3
<1>5. CASE UNCHANGED <<failed, objects>>
  BY <1>1, <1>5
<1> QED BY <1>2, <1>3, <1>4, <1>5, ObjectsChange

-----------------------------------------------------------------------------
(* What objects are made from.                                             *)

LEMMA EmitOrigin ==
  ASSUME IInv, ClockOK, VersionsOK, ModuleOK, Emit, Grows,
         NEW p \in DOMAIN objects, p = job
  PROVE  OriginAt(p)'
<1>1. /\ UNCHANGED <<dir, edits, jobs>> /\ p \in DOMAIN jobs /\ pc = "emit"
      /\ DOMAIN Module = Reach(p) /\ Promise!Complete(p)
  BY DEF Emit, IInv, ControlOK, ModuleOK
<1>2. From(p)' = [s \in Reach(p) |-> [version |-> jobs[s].version, readAt |-> jobs[s].readAt]]
  BY <1>1 DEF Emit, From
<1>3. Sources(p)' = Reach(p) /\ Reach(p) \subseteq DOMAIN jobs
  BY <1>2 DEF Sources, Reach, Promise!Reach
<1>4. \A s : Held(s)' \subseteq Held(s)
  BY <1>1, QuietHeld DEF Emit, EndJob
<1>5. ASSUME NEW s \in Reach(p), NEW h \in Held(s)', h.version = jobs[s].version
      PROVE  h.uses = jobs[s].content.uses
  <2>1. CASE s \in DOMAIN dir /\ h = InDir(s)
    BY <1>3, <1>5, <2>1 DEF VersionsOK, InDir, InJobs
  <2>2. CASE h = InJobs(s)
    BY <2>2 DEF InJobs
  <2> QED BY <1>4, <1>5, <2>1, <2>2, HeldIs
<1>6. ASSUME NEW s \in Reach(p) PROVE SourceOK(p, s)'
  <2>1. From(p)'[s].version = jobs[s].version /\ From(p)'[s].readAt = jobs[s].readAt
    BY <1>2
  <2>2. From(p)'[s].version <= edits' /\ From(p)'[s].readAt <= clock'
    BY <1>1, <1>3, <2>1, FileTypes DEF ClockOK, Grows
  <2>3. ASSUME NEW h \in Held(s)', h.version = jobs[s].version PROVE h.uses \subseteq Reach(p)
    <3>1. h.uses \subseteq DOMAIN jobs
      BY <1>1, <1>5, <2>3 DEF Promise!Complete, Reach
    <3> QED BY <1>5, <2>3, <3>1, ReachUse
  <2>4. ASSUME NEW h \in Held(s)', h.version # jobs[s].version PROVE h.time >= jobs[s].readAt
    <3>1. h # InJobs(s)
      BY <2>4 DEF InJobs
    <3>2. s \in DOMAIN dir /\ h = InDir(s)
      BY <1>4, <3>1, HeldIs
    <3> QED BY <1>3, <2>4, <3>2 DEF VersionsOK, InDir
  <2> QED BY <1>3, <2>1, <2>2, <2>3, <2>4 DEF SourceOK
<1>7. ASSUME NEW S \in SUBSET Reach(p), p \in S, S # Reach(p) PROVE LeadsOut(p, S)'
  <2>1. ~Promise!Closed(S)
    BY <1>3, <1>7, ReachLeast
  <2>2. PICK s \in S : ~(jobs[s].content.uses \cap DOMAIN jobs \subseteq S)
    BY <2>1 DEF Promise!Closed
  <2>3. jobs[s].content.uses \cap (Reach(p) \ S) # {}
    BY <1>7, <2>2, ReachUse
  <2>4. From(p)'[s].version = jobs[s].version
    BY <1>2, <1>7
  <2>5. \A h \in Held(s)' : h.version = From(p)'[s].version => h.uses \cap (Sources(p)' \ S) # {}
    BY <1>3, <1>5, <1>7, <2>3, <2>4
  <2> QED BY <2>5 DEF LeadsOut
<1>8. p \in Reach(p)
  BY <1>1, ReachSelf
<1> QED BY <1>3, <1>6, <1>7, <1>8 DEF OriginAt

LEMMA OriginStep ==
  ASSUME IInv, ClockOK, VersionsOK, ModuleOK, OriginOK, Grows, [Next]_vars PROVE OriginOK'
<1> SUFFICES ASSUME NEW p \in DOMAIN objects', objects'[p].whole PROVE OriginAt(p)'
  BY DEF OriginOK
<1>1. ASSUME p \in DOMAIN objects, objects'[p] = objects[p] PROVE OriginAt(p)'
  BY <1>1, OriginGrows DEF OriginOK, From
<1>2. CASE Open
  <2>1. p # job
    BY <1>2 DEF Open
  <2> QED BY <1>1, <1>2, <2>1 DEF Open
<1>3. CASE Emit
  <2>1. p \in DOMAIN objects
    BY <1>3 DEF Emit
  <2>2. CASE p = job
    BY <1>3, <2>1, <2>2, EmitOrigin
  <2>3. CASE p # job
    BY <1>1, <1>3, <2>1, <2>3 DEF Emit
  <2> QED BY <2>2, <2>3
<1> QED BY <1>1, <1>2, <1>3, ObjectsChange

\* What was decided about is not touched again.
LEMMA LinkedSame ==
  ASSUME LinkedOK, NEW p \in objectFiles, jobs' = jobs,
         p \in DOMAIN objects' <=> p \in DOMAIN objects, objects'[p] = objects[p],
         p \in DOMAIN failed' => p \in DOMAIN failed
  PROVE  (Made(p) \/ Kept(p))'
<1>1. /\ Reach(p)' = Reach(p) /\ (Stale(p)' <=> Stale(p))
      /\ (Promise!Complete(p)' <=> Promise!Complete(p))
  BY SameUses
<1>2. CASE Made(p)
  BY <1>1, <1>2 DEF Made, MadeOfTheJobs
<1>3. CASE Kept(p)
  BY <1>1, <1>3 DEF Kept, ObjectTime
<1> QED BY <1>2, <1>3 DEF LinkedOK

LEMMA EmitMade ==
  ASSUME IInv, ModuleOK, BuiltOK, Emit, NEW p, p = job PROVE Made(p)'
<1>1. jobs' = jobs /\ DOMAIN Module = Reach(p) /\ p \in DOMAIN objects /\ failed' = failed
      /\ p \notin DOMAIN failed
  BY DEF Emit, ModuleOK, BuiltOK, IInv, ControlOK, historyVars
<1>2. /\ p \in DOMAIN objects' /\ objects'[p].whole
      /\ objects'[p].from = [s \in DOMAIN Module |->
                              [version |-> jobs[s].version, readAt |-> jobs[s].readAt]]
  BY <1>1 DEF Emit
<1>3. Reach(p)' = Reach(p)
  BY <1>1, SameUses
<1> QED BY <1>1, <1>2, <1>3 DEF Made, MadeOfTheJobs

LEMMA LinkedStep ==
  ASSUME IInv, SearchInv, ListOK, DecidedOnce, TimesOK, ModuleOK, BuiltOK, LinkedOK,
         [Next]_vars
  PROVE  LinkedOK'
<1>1. ASSUME objectFiles' = {} PROVE LinkedOK'
  BY <1>1 DEF LinkedOK
<1>2. ASSUME objectFiles' = objectFiles, UNCHANGED <<jobs, objects, failed>> PROVE LinkedOK'
  BY <1>2, LinkedSame DEF LinkedOK
<1>3. ASSUME objectFiles' = objectFiles, pc \in {"idle", "scan", "create"} PROVE LinkedOK'
  BY <1>1, <1>3 DEF ListOK
<1>4. ASSUME NEW p \in Paths, Analyze(p) PROVE LinkedOK'
  BY <1>3, <1>4 DEF Analyze
<1>5. ASSUME NEW p \in Paths, NextJob(p) \/ StaleVisit(p) \/ MergeVisit(p) PROVE LinkedOK'
  BY <1>2, <1>5 DEF NextJob, StaleVisit, MergeVisit, fileVars, historyVars
<1>6. ASSUME NEW p \in Paths, MissingUse(p) PROVE LinkedOK'
  BY <1>1, <1>6 DEF MissingUse, Exit
<1>7. CASE CreateJob \/ Start
  BY <1>3, <1>7 DEF CreateJob, Start
<1>8. CASE StaleReturn
  <2>1. UNCHANGED <<jobs, objects, failed>>
    BY <1>8 DEF StaleReturn, fileVars, historyVars
  <2>2. CASE objectFiles' = objectFiles
    BY <1>2, <2>1, <2>2
  <2>3. CASE Len(stack) = 1 /\ objectFiles' = objectFiles \cup {job}
    <3>1. Kept(job)
      BY <1>8, <2>3, SearchFresh, SearchComplete
         DEF StaleReturn, FreshIsFresh, Kept, TimesOK, Waiting
    <3>2. ASSUME NEW p \in objectFiles' PROVE (Made(p) \/ Kept(p))'
      <4>1. CASE p = job
        BY <2>1, <3>1, <4>1, SameUses DEF Kept, ObjectTime
      <4>2. CASE p \in objectFiles
        BY <2>1, <4>2, LinkedSame
      <4> QED BY <2>3, <3>2, <4>1, <4>2
    <3> QED BY <3>2 DEF LinkedOK
  <2> QED BY <1>8, <2>2, <2>3 DEF StaleReturn
<1>9. CASE MergeReturn
  BY <1>2, <1>9 DEF MergeReturn, fileVars, historyVars
<1>10. CASE Build \/ BuildFails \/ Open \/ Emit
  <2>1. jobs' = jobs /\ job \notin objectFiles
    BY <1>10 DEF Build, BuildFails, Open, Emit, DecidedOnce
  <2>2. ASSUME NEW p \in objectFiles PROVE (Made(p) \/ Kept(p))'
    <3>1. p # job
      BY <2>1, <2>2
    <3>2. /\ p \in DOMAIN objects' <=> p \in DOMAIN objects
          /\ objects'[p] = objects[p]
      <4>1. p \in DOMAIN objects
        BY DEF IInv, ObjectsExist
      <4> QED BY <1>10, <3>1, <4>1 DEF Build, BuildFails, Open, Emit, fileVars
    <3>3. p \in DOMAIN failed' => p \in DOMAIN failed
      BY <1>10, <3>1 DEF Build, BuildFails, Open, Emit, historyVars
    <3> QED BY <2>1, <2>2, <3>2, <3>3, LinkedSame
  <2>3. CASE objectFiles' = objectFiles
    BY <2>2, <2>3 DEF LinkedOK
  <2>4. CASE Emit
    <3>1. objectFiles' = objectFiles \cup {job}
      BY <2>4 DEF Emit
    <3>2. ASSUME NEW p \in objectFiles' PROVE (Made(p) \/ Kept(p))'
      BY <2>2, <2>4, <3>1, <3>2, EmitMade
    <3> QED BY <3>2 DEF LinkedOK
  <2> QED BY <1>10, <2>3, <2>4 DEF Build, BuildFails, Open
<1>11. CASE VerifyFails \/ BuildFailed \/ Link \/ Kill
  BY <1>1, <1>11 DEF VerifyFails, BuildFailed, Link, Kill, Exit
<1>12. ASSUME NEW p \in Paths, Edit(p) \/ Create(p) \/ Delete(p) PROVE LinkedOK'
  BY <1>2, <1>12 DEF Edit, Create, Delete, Write, runVars, historyVars
<1>13. CASE UNCHANGED vars
  BY <1>2, <1>13 DEF vars, fileVars, runVars, historyVars
<1>14. CASE Driver
  BY <1>14, <1>4, <1>5, <1>6, <1>7, <1>8, <1>9, <1>10, <1>11, Zenon DEF Driver
<1>15. CASE User
  BY <1>15, <1>7, <1>11, <1>12, Zenon DEF User
<1> QED BY <1>13, <1>14, <1>15 DEF Next

-----------------------------------------------------------------------------
(* The theorems.                                                           *)

\* An object that is not stale is what the sources would give: a source that
\* is not what it was when the object was made is newer than the object, unless
\* it was edited while the object was made.
LEMMA KeptIsCurrent ==
  ASSUME IInv, OriginOK, pc # "create", NEW p \in DOMAIN objects \cap DOMAIN jobs,
         objects[p].whole, Kept(p), ~EditedMeanwhile(p)
  PROVE  MadeOfTheJobs(p)
<1>1. OriginAt(p)
  BY DEF OriginOK
<1>2. Reach(p) \subseteq DOMAIN jobs
  BY DEF Reach, Promise!Reach
<1>3. \A s \in DOMAIN jobs : InJobs(s) \in Held(s) /\ SourceTime(s) = jobs[s].sourceFileTime
  BY HeldIs DEF SourceTime
<1>4. ASSUME NEW s \in Sources(p) \cap Reach(p) PROVE jobs[s].version = From(p)[s].version
  <2>1. SUFFICES ASSUME jobs[s].version # From(p)[s].version PROVE FALSE
    OBVIOUS
  <2>2. jobs[s].sourceFileTime >= From(p)[s].readAt
    BY <1>1, <1>2, <1>3, <2>1 DEF OriginAt, SourceOK, InJobs
  <2>3. jobs[s].sourceFileTime <= objects[p].mtime
    BY <1>2, FileTypes DEF Kept, ObjectTime, Stale, Promise!Stale, Reach
  <2>4. From(p)[s].readAt \in Nat
    <3>1. IsMap(From(p), Origin)
      BY DEF IInv, FilesOK, IsObject, From
    <3> QED BY <3>1, Bounds DEF IsMap, Origin, Sources
  <2>5. jobs[s].sourceFileTime \in From(p)[s].readAt .. objects[p].mtime
    BY <1>2, <2>2, <2>3, <2>4, FileTypes
  <2> QED BY <1>2, <2>1, <2>5 DEF EditedMeanwhile, Sources, From
<1>5. ASSUME NEW s \in Sources(p) \cap Reach(p) PROVE jobs[s].content.uses \subseteq Sources(p)
  <2>1. InJobs(s).version = From(p)[s].version /\ InJobs(s) \in Held(s)
    BY <1>2, <1>3, <1>4 DEF InJobs
  <2> QED BY <1>1, <2>1 DEF OriginAt, SourceOK, InJobs
<1>6. Reach(p) \subseteq Sources(p)
  <2>1. Promise!Closed(Sources(p) \cap Reach(p))
    BY <1>5, ReachUse DEF Promise!Closed
  <2>2. p \in Sources(p) \cap Reach(p)
    BY <1>1, ReachSelf DEF OriginAt
  <2> QED BY <1>2, <2>1, <2>2, ReachLeast
<1>7. Reach(p) = Sources(p)
  <2>1. SUFFICES ASSUME Reach(p) # Sources(p) PROVE FALSE
    OBVIOUS
  <2>2. LeadsOut(p, Reach(p))
    BY <1>1, <1>6, <2>1, ReachSelf DEF OriginAt
  <2>3. PICK s \in Reach(p) : \A h \in Held(s) :
          h.version = From(p)[s].version => h.uses \cap (Sources(p) \ Reach(p)) # {}
    BY <2>2 DEF LeadsOut
  <2>4. jobs[s].content.uses \cap (Sources(p) \ Reach(p)) # {}
    BY <1>2, <1>3, <1>4, <1>6, <2>3 DEF InJobs
  <2>5. jobs[s].content.uses \subseteq DOMAIN jobs
    BY DEF Kept, Promise!Complete, Reach
  <2> QED BY <2>4, <2>5, ReachUse
<1> QED BY <1>4, <1>7 DEF MadeOfTheJobs, Sources, From

LEMMA LinksCurrent ==
  ASSUME IInv, OriginOK, TornOK, LinkedOK, Link, NEW p \in objectFiles \ killed
  PROVE  objects[p].whole /\ (MadeOfTheJobs(p) \/ EditedMeanwhile(p))
<1>1. p \in DOMAIN objects /\ p \in DOMAIN jobs /\ pc = "next"
  BY DEF IInv, ObjectsExist, RunOK, Link
<1>2. objects[p].whole
  BY <1>1 DEF TornOK
<1> QED BY <1>1, <1>2, KeptIsCurrent DEF LinkedOK, Made

LEMMA HistoryRemembers ==
  ASSUME IInv, FailedOK, LinkedOK, pc # "create" PROVE FailureIsRemembered
<1> SUFFICES ASSUME NEW p \in objectFiles \cap DOMAIN failed,
                    failed[p] = [s \in Reach(p) |-> jobs[s].version]
             PROVE  FALSE
  BY DEF FailureIsRemembered
<1>1. p \in DOMAIN objects /\ p \in DOMAIN jobs /\ Kept(p)
  BY DEF IInv, ObjectsExist, RunOK, LinkedOK, Made
<1>2. PICK s \in Reach(p) : \A h \in Held(s) :
          h.version = jobs[s].version => h.time > objects[p].mtime
  <2>1. Outdated(p)
    BY <1>1 DEF FailedOK
  <2>2. DOMAIN failed[p] = Reach(p) /\ \A s \in Reach(p) : failed[p][s] = jobs[s].version
    OBVIOUS
  <2> QED BY <2>1, <2>2 DEF Outdated
<1>3. s \in DOMAIN jobs
  BY DEF Reach, Promise!Reach
<1>4. jobs[s].sourceFileTime > objects[p].mtime
  <2>1. InJobs(s) \in Held(s)
    BY <1>3, HeldIs
  <2>2. InJobs(s).version = jobs[s].version /\ InJobs(s).time = jobs[s].sourceFileTime
    BY DEF InJobs, SourceTime
  <2> QED BY <1>2, <2>1, <2>2
<1> QED BY <1>1, <1>3, <1>4 DEF Kept, ObjectTime, Stale, Promise!Stale, Reach

AllInv == IInv /\ SearchInv /\ ListOK /\ TakenOnce /\ HistoryInv

LEMMA InitHistory == Init => HistoryInv
<1> SUFFICES ASSUME Init PROVE HistoryInv
  OBVIOUS
<1>1. /\ DOMAIN objects = {} /\ DOMAIN jobs = {} /\ DOMAIN failed = {}
      /\ objectFiles = {} /\ todo = {} /\ pc = "idle" /\ clock = 1 /\ edits = 0
  BY DEF Init
<1>2. \A s \in DOMAIN dir : dir[s].mtime = 1 /\ dir[s].version = 0
  BY DEF Init
<1>3. ClockOK
  BY <1>1, <1>2 DEF ClockOK
<1>4. VersionsOK /\ TimesOK /\ DecidedOnce /\ ModuleOK /\ BuiltOK
  BY <1>1 DEF VersionsOK, TimesOK, Waiting, DecidedOnce, ModuleOK, BuiltOK
<1>5. FailedOK /\ OriginOK /\ TornOK /\ LinkedOK
  BY <1>1 DEF FailedOK, OriginOK, TornOK, LinkedOK
<1> QED BY <1>3, <1>4, <1>5 DEF HistoryInv

LEMMA AllStep == ASSUME AllInv, [Next]_vars PROVE AllInv'
<1>1. IInv' /\ SearchInv' /\ ListOK' /\ TakenOnce'
  BY NextInv, NextSearch, NextList, NextTaken DEF AllInv
<1>2. Grows
  BY <1>1, StepGrows DEF AllInv, HistoryInv
<1>3. ClockOK' /\ VersionsOK' /\ TimesOK'
  BY <1>1, ClockStep, VersionsStep, TimesStep DEF AllInv, HistoryInv
<1>4. DecidedOnce' /\ ModuleOK' /\ BuiltOK' /\ TornOK'
  BY <1>1, DecidedStep, ModuleStep, BuiltStep, TornStep DEF AllInv, HistoryInv
<1>5. FailedOK' /\ OriginOK' /\ LinkedOK'
  BY <1>2, FailedStep, OriginStep, LinkedStep DEF AllInv, HistoryInv
<1> QED BY <1>1, <1>3, <1>4, <1>5 DEF AllInv, HistoryInv

LEMMA InitAll == Init => AllInv
<1>1. Init => ListOK /\ TakenOnce
  BY MapEmpty DEF Init, ListOK, TakenOnce
<1> QED BY <1>1, InitInv, InitSearch, InitHistory DEF AllInv

\* A failed compilation is not forgotten, by this run or any later one: while
\* the sources are the ones it failed on, the object from before is older than
\* one of them and is not linked (main.cpp:116, 318, 392).
THEOREM FailureCorrect == Spec => []FailureIsRemembered
<1>1. AllInv /\ [Next]_vars => AllInv'
  BY AllStep
<1>2. AllInv => FailureIsRemembered
  <2>1. CASE pc = "create"
    BY <2>1 DEF AllInv, ListOK, FailureIsRemembered
  <2> QED BY <2>1, HistoryRemembers DEF AllInv, HistoryInv
<1> QED BY InitAll, <1>1, <1>2, PTL DEF Spec

\* The executable is linked from objects that are what compiling the sources
\* would give, whatever earlier runs compiled, failed at or left torn, unless a
\* source was edited while its object was made (main.cpp:116, 274, 396).
THEOREM CurrentCorrect == Spec => LinkIsCurrent
<1>1. AllInv /\ [Next]_vars => AllInv'
  BY AllStep
<1>2. AllInv /\ [Next]_vars
        => [Link => \A p \in objectFiles \ killed :
                      objects[p].whole /\ (MadeOfTheJobs(p) \/ EditedMeanwhile(p))]_vars
  BY LinksCurrent DEF AllInv, HistoryInv
<1> QED BY InitAll, <1>1, <1>2, PTL DEF Spec, LinkIsCurrent
=============================================================================
