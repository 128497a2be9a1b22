------------------------- MODULE BuildDriverProofs -------------------------
(***************************************************************************)
(* The build driver, for any number of files, any graph of uses and any    *)
(* sequence of edits, kills and failures: the linker is only given objects *)
(* that exist (TypeCorrect), an object is compiled exactly when a source   *)
(* it depends on is newer (StalenessCorrect), from all the modules it      *)
(* needs (MergeCorrect), and what is linked is complete (LinkCorrect).     *)
(***************************************************************************)
EXTENDS BuildDriver, TLAPS

-----------------------------------------------------------------------------
(* The inductive invariant of the types.  TypeOK is not inductive: that    *)
(* the linker finds what it is given depends on createJob having seen an   *)
(* object for every job that is asked whether it is stale.                 *)

Results(S) == UNION {[T -> Nat] : T \in SUBSET S}

Frames == [left: SUBSET Paths, target: Results(DOMAIN jobs)]

FilesOK ==
  /\ IsMap(dir, Source)
  /\ DOMAIN objects \subseteq Paths /\ \A p \in DOMAIN objects : IsObject(objects[p])
  /\ DOMAIN executable \subseteq Paths /\ \A p \in DOMAIN executable : IsObject(executable[p])
  /\ clock \in Time
  /\ edits \in Version

RunOK ==
  /\ pc \in {"idle", "scan", "create", "next", "stale", "merge", "build", "open", "emit"}
  /\ IsMap(jobs, CompilerJob)
  /\ todo \in SUBSET Paths
  /\ job \in Paths \cup {NoPath}
  /\ processed \in SUBSET DOMAIN jobs
  /\ stack \in Seq(Frames)
  /\ objectFiles \in SUBSET DOMAIN jobs
  /\ success \in BOOLEAN

HistoryOK ==
  /\ DOMAIN failed \subseteq Paths /\ \A p \in DOMAIN failed : IsMap(failed[p], Version)
  /\ killed \in SUBSET Paths

\* Where main is, and what it has in hand there.
ControlOK ==
  /\ pc \in {"scan", "create"} => todo \subseteq DOMAIN dir
  /\ pc = "create" => job \in DOMAIN dir \cap DOMAIN jobs
  /\ pc \notin {"idle", "scan", "create"} => todo \subseteq DOMAIN jobs
  /\ pc \in {"stale", "merge"} => Len(stack) >= 1
  /\ pc \in {"build", "open", "emit"} => Len(stack) = 1
  /\ pc \in {"stale", "merge", "build", "open", "emit"} => job \in DOMAIN jobs
  /\ pc = "stale" => jobs[job].objectFileTime # 0
  /\ pc = "emit" => job \in DOMAIN objects
  /\ pc \in {"idle", "scan", "create", "next"} => stack = << >>

\* An object that createJob has found, or that is to be linked, exists.
ObjectsExist ==
  /\ \A p \in DOMAIN jobs : jobs[p].objectFileTime # 0 => p \in DOMAIN objects
  /\ objectFiles \subseteq DOMAIN objects

IInv == FilesOK /\ RunOK /\ HistoryOK /\ ControlOK /\ ObjectsExist

-----------------------------------------------------------------------------
(* Data. *)

\* The times and numbers are natural numbers, and there is a first time.
LEMMA Bounds == /\ 0 \in Time /\ 1 \in Time /\ 0 \in Version
                /\ Time \subseteq Nat /\ Version \subseteq Nat
BY BoundsAssumption DEF Time, Version

\* A time stamp is a time.
LEMMA StampTime == Stamps \subseteq Time
BY DEF Stamps

\* The map with no entries.
LEMMA MapEmpty == ASSUME NEW S PROVE IsMap(<< >>, S)
BY DEF IsMap

\* What processUses starts from and what it inserts are results.
LEMMA ResultsType ==
  ASSUME NEW S
  PROVE  /\ EmptyBag \in Results(S)
         /\ \A u \in S : SetToBag({u}) \in Results(S)
         /\ \A f, g \in Results(S) : f (+) g \in Results(S)
<1>1. EmptyBag \in [{} -> Nat]
  BY DEF EmptyBag, SetToBag
<1>2. ASSUME NEW u \in S PROVE SetToBag({u}) \in [{u} -> Nat]
  BY DEF SetToBag
<1>3. ASSUME NEW A \in SUBSET S, NEW B \in SUBSET S, NEW f \in [A -> Nat], NEW g \in [B -> Nat]
      PROVE  f (+) g \in [A \cup B -> Nat]
  BY DEF (+)
<1>4. \A T \in SUBSET S : [T -> Nat] \subseteq Results(S)
  BY DEF Results
<1>5. \A f \in Results(S) : \E T \in SUBSET S : f \in [T -> Nat]
  BY DEF Results
<1>6. ASSUME NEW f \in Results(S), NEW g \in Results(S) PROVE f (+) g \in Results(S)
  <2>1. PICK A \in SUBSET S : f \in [A -> Nat]
    BY <1>5
  <2>2. PICK B \in SUBSET S : g \in [B -> Nat]
    BY <1>5
  <2>3. f (+) g \in [A \cup B -> Nat]
    BY <1>3, <2>1, <2>2
  <2>4. A \cup B \in SUBSET S
    OBVIOUS
  <2> QED BY <2>3, <2>4, <1>4
<1>7. EmptyBag \in Results(S)
  BY <1>1, <1>4
<1>8. ASSUME NEW u \in S PROVE SetToBag({u}) \in Results(S)
  <2>1. {u} \in SUBSET S /\ SetToBag({u}) \in [{u} -> Nat]
    BY <1>2
  <2> QED BY <2>1, <1>4
<1> QED BY <1>6, <1>7, <1>8

\* A sequence without its last element.
LEMMA FrontType ==
  ASSUME NEW S, NEW s \in Seq(S), Len(s) > 1
  PROVE  /\ Front(s) \in Seq(S)
         /\ Len(Front(s)) = Len(s) - 1
         /\ \A i \in 1 .. Len(s) - 1 : Front(s)[i] = s[i]
BY DEF Front

\* The stack with which a search begins.
LEMMA CallerType ==
  ASSUME NEW p \in Paths
  PROVE  Caller(p) \in Seq(Frames) /\ Len(Caller(p)) = 1
<1>1. [left |-> {p}, target |-> EmptyBag] \in Frames
  BY ResultsType DEF Frames
<1> QED BY <1>1 DEF Caller

\* The innermost call, and the stack after it has visited a use.
LEMMA VisitedType ==
  ASSUME stack \in Seq(Frames), Len(stack) >= 1, NEW u
  PROVE  /\ Top \in Frames
         /\ Visited(u) \in Seq(Frames)
         /\ Len(Visited(u)) = Len(stack)
         /\ Visited(u)[Len(stack)] = [Top EXCEPT !.left = @ \ {u}]
         /\ \A i \in 1 .. Len(stack) - 1 : Visited(u)[i] = stack[i]
<1> DEFINE n == Len(stack)
<1>1. n \in Nat /\ n \in 1 .. n /\ n \in DOMAIN stack /\ stack \in [1 .. n -> Frames]
  OBVIOUS
<1>2. Top \in Frames
  BY <1>1 DEF Top
<1>3. [Top EXCEPT !.left = @ \ {u}] \in Frames
  BY <1>2 DEF Frames
<1>4. Visited(u) = [stack EXCEPT ![n] = [Top EXCEPT !.left = @ \ {u}]]
  BY <1>1 DEF Visited, Top
<1>5. Visited(u) \in [1 .. n -> Frames]
  BY <1>1, <1>3, <1>4
<1>6. Visited(u)[n] = [Top EXCEPT !.left = @ \ {u}]
  BY <1>1, <1>4
<1>7. \A i \in 1 .. n - 1 : Visited(u)[i] = stack[i]
  BY <1>1, <1>4
<1> QED BY <1>1, <1>2, <1>5, <1>6, <1>7

-----------------------------------------------------------------------------
(* What the steps leave alone. *)

LEMMA FilesUnchanged == FilesOK /\ UNCHANGED fileVars => FilesOK'
BY DEF FilesOK, fileVars, IsMap, IsObject

LEMMA HistoryUnchanged == HistoryOK /\ UNCHANGED historyVars => HistoryOK'
BY DEF HistoryOK, historyVars, IsMap

LEMMA FramesUnchanged == DOMAIN jobs' = DOMAIN jobs => Frames' = Frames
BY DEF Frames, Results

\* A step that changes neither jobs, objects nor objectFiles.
LEMMA ObjectsUnchanged ==
  ObjectsExist /\ jobs' = jobs /\ DOMAIN objects' = DOMAIN objects /\ objectFiles' = objectFiles
    => ObjectsExist'
BY DEF ObjectsExist

\* The end of a process.
LEMMA ExitOK == Exit => RunOK' /\ ControlOK' /\ ObjectsExist'
<1> SUFFICES ASSUME Exit PROVE RunOK' /\ ControlOK' /\ ObjectsExist'
  OBVIOUS
<1>1. DOMAIN jobs' = {} /\ IsMap(jobs, CompilerJob)'
  BY DEF Exit, IsMap
<1>2. RunOK'
  BY <1>1 DEF Exit, RunOK
<1>3. ControlOK'
  BY <1>1 DEF Exit, ControlOK
<1>4. ObjectsExist'
  BY <1>1 DEF Exit, ObjectsExist
<1> QED BY <1>2, <1>3, <1>4

-----------------------------------------------------------------------------
(* The scan. *)

LEMMA StartInv == IInv /\ Start => IInv'
<1> SUFFICES ASSUME IInv, Start PROVE IInv'
  OBVIOUS
<1>1. FilesOK' /\ HistoryOK'
  BY FilesUnchanged, HistoryUnchanged DEF IInv, Start
<1>2. DOMAIN dir \subseteq Paths /\ dir' = dir
  BY DEF IInv, FilesOK, IsMap, Start, fileVars
<1>3. RunOK'
  BY <1>2, FramesUnchanged DEF IInv, RunOK, Start, IsMap
<1>4. ControlOK'
  BY <1>2 DEF IInv, ControlOK, Start
<1>5. ObjectsExist'
  BY ObjectsUnchanged DEF IInv, Start, fileVars
<1> QED BY <1>1, <1>3, <1>4, <1>5 DEF IInv

LEMMA AnalyzeInv == ASSUME NEW p \in Paths PROVE IInv /\ Analyze(p) => IInv'
<1> SUFFICES ASSUME IInv, Analyze(p) PROVE IInv'
  OBVIOUS
<1>1. FilesOK' /\ HistoryOK'
  BY FilesUnchanged, HistoryUnchanged DEF IInv, Analyze
<1>2. p \in DOMAIN dir /\ dir[p] \in Source /\ clock \in Time /\ dir' = dir
  BY DEF IInv, FilesOK, ControlOK, IsMap, Analyze, fileVars
<1> DEFINE new == [content |-> dir[p].content, version |-> dir[p].version,
                   readAt |-> clock, sourceFileTime |-> 0, objectFileTime |-> 0]
<1>3. new \in CompilerJob
  BY <1>2, Bounds DEF Source, CompilerJob
<1>4. jobs' = [q \in DOMAIN jobs \cup {p} |-> IF q = p THEN new ELSE jobs[q]]
  BY DEF Analyze
<1> HIDE DEF new
<1>5. DOMAIN jobs' = DOMAIN jobs \cup {p}
  BY <1>4
<1>6. IsMap(jobs, CompilerJob)'
  BY <1>3, <1>4, <1>5 DEF IInv, RunOK, IsMap, CompilerJob
<1>7. stack' = << >>
  BY DEF IInv, ControlOK, Analyze
<1>8. RunOK'
  BY <1>5, <1>6, <1>7 DEF IInv, RunOK, Analyze
<1>9. ControlOK'
  BY <1>2, <1>5, <1>7 DEF IInv, ControlOK, Analyze
<1>10. ObjectsExist'
  <2>1. \A q \in DOMAIN jobs' : jobs'[q].objectFileTime # 0 => q \in DOMAIN jobs /\ jobs'[q] = jobs[q]
    BY <1>4 DEF new
  <2>2. objects' = objects /\ objectFiles' = objectFiles
    BY DEF Analyze, fileVars
  <2> QED BY <2>1, <2>2 DEF IInv, ObjectsExist
<1> QED BY <1>1, <1>8, <1>9, <1>10 DEF IInv

LEMMA CreateJobInv == IInv /\ CreateJob => IInv'
<1> SUFFICES ASSUME IInv, CreateJob PROVE IInv'
  OBVIOUS
<1>1. FilesOK' /\ HistoryOK'
  BY FilesUnchanged, HistoryUnchanged DEF IInv, CreateJob
<1>2. job \in DOMAIN jobs /\ job \in DOMAIN dir /\ dir[job].mtime \in Time /\ jobs[job] \in CompilerJob
  BY DEF IInv, FilesOK, RunOK, ControlOK, IsMap, CreateJob, Source
<1> DEFINE objectTime == IF job \in DOMAIN objects THEN objects[job].mtime ELSE 0
           new == [jobs[job] EXCEPT !.sourceFileTime = dir[job].mtime, !.objectFileTime = objectTime]
<1>3. objectTime \in Time
  BY Bounds DEF IInv, FilesOK, IsObject
<1>4. new \in CompilerJob /\ new.objectFileTime = objectTime
  BY <1>2, <1>3 DEF CompilerJob
<1>5. jobs' = [jobs EXCEPT ![job] = new]
  BY <1>2 DEF CreateJob, IInv, RunOK, IsMap
<1>6. objectTime # 0 => job \in DOMAIN objects
  OBVIOUS
<1> HIDE DEF objectTime, new
<1>7. DOMAIN jobs' = DOMAIN jobs /\ IsMap(jobs, CompilerJob)'
  BY <1>4, <1>5 DEF IInv, RunOK, IsMap, CompilerJob
<1>8. stack = << >> /\ stack' = stack
  BY DEF IInv, ControlOK, CreateJob
<1>9. RunOK'
  BY <1>7, <1>8, FramesUnchanged DEF IInv, RunOK, CreateJob, IsMap
<1>10. ControlOK'
  BY <1>7, <1>8 DEF IInv, ControlOK, CreateJob, fileVars
<1>11. ObjectsExist'
  <2>1. objects' = objects /\ objectFiles' = objectFiles
    BY DEF CreateJob, fileVars
  <2> QED BY <2>1, <1>4, <1>5, <1>6, <1>7 DEF IInv, ObjectsExist, RunOK, IsMap
<1> QED BY <1>1, <1>9, <1>10, <1>11 DEF IInv

-----------------------------------------------------------------------------
(* The jobs. *)

LEMMA NextJobInv == ASSUME NEW p \in Paths PROVE IInv /\ NextJob(p) => IInv'
<1> SUFFICES ASSUME IInv, NextJob(p) PROVE IInv'
  OBVIOUS
<1>1. FilesOK' /\ HistoryOK' /\ ObjectsExist'
  BY FilesUnchanged, HistoryUnchanged, ObjectsUnchanged DEF IInv, NextJob, fileVars
<1>2. p \in DOMAIN jobs /\ jobs' = jobs /\ Frames' = Frames
  BY FramesUnchanged DEF IInv, ControlOK, NextJob
<1>3. IsMap(jobs, CompilerJob)'
  BY <1>2 DEF IInv, RunOK, IsMap, CompilerJob
<1>4. CASE UNCHANGED <<pc, job, processed, stack>>
  <2>1. RunOK'
    BY <1>2, <1>3, <1>4 DEF IInv, RunOK, NextJob
  <2>2. ControlOK'
    BY <1>2, <1>4 DEF IInv, ControlOK, NextJob
  <2> QED BY <1>1, <2>1, <2>2 DEF IInv
<1>5. CASE BeginMerge(p)
  <2>1. RunOK'
    BY <1>2, <1>3, <1>5, CallerType DEF IInv, RunOK, NextJob, BeginMerge
  <2>2. ControlOK'
    BY <1>2, <1>5, CallerType DEF IInv, ControlOK, NextJob, BeginMerge
  <2> QED BY <1>1, <2>1, <2>2 DEF IInv
<1>6. CASE /\ jobs[p].objectFileTime # 0
           /\ pc' = "stale" /\ job' = p /\ processed' = {} /\ stack' = Caller(p)
  <2>1. RunOK'
    BY <1>2, <1>3, <1>6, CallerType DEF IInv, RunOK, NextJob
  <2>2. ControlOK'
    BY <1>2, <1>6, CallerType DEF IInv, ControlOK, NextJob
  <2> QED BY <1>1, <2>1, <2>2 DEF IInv
<1> QED BY <1>4, <1>5, <1>6 DEF NextJob

LEMMA StaleVisitInv == ASSUME NEW u \in Paths PROVE IInv /\ StaleVisit(u) => IInv'
<1> SUFFICES ASSUME IInv, StaleVisit(u) PROVE IInv'
  OBVIOUS
<1>1. FilesOK' /\ HistoryOK' /\ ObjectsExist'
  BY FilesUnchanged, HistoryUnchanged, ObjectsUnchanged DEF IInv, StaleVisit, fileVars
<1>2. jobs' = jobs /\ Frames' = Frames /\ u \in DOMAIN jobs /\ job \in DOMAIN jobs
  BY FramesUnchanged DEF IInv, ControlOK, StaleVisit
<1>3. IsMap(jobs, CompilerJob)'
  BY <1>2 DEF IInv, RunOK, IsMap, CompilerJob
<1>4. stack \in Seq(Frames) /\ Len(stack) >= 1
  BY DEF IInv, RunOK, ControlOK, StaleVisit
<1>5. Visited(u) \in Seq(Frames) /\ Len(Visited(u)) = Len(stack)
  BY <1>4, VisitedType
<1>6. CASE stack' = Visited(u) /\ UNCHANGED <<pc, job, processed>>
  <2>1. RunOK'
    BY <1>2, <1>3, <1>5, <1>6 DEF IInv, RunOK, StaleVisit
  <2>2. ControlOK'
    BY <1>2, <1>4, <1>5, <1>6 DEF IInv, ControlOK, StaleVisit
  <2> QED BY <1>1, <2>1, <2>2 DEF IInv
<1>7. CASE BeginMerge(job)
  <2>1. job \in Paths
    BY <1>2 DEF IInv, RunOK, IsMap
  <2>2. RunOK'
    BY <1>2, <1>3, <1>7, <2>1, CallerType DEF IInv, RunOK, StaleVisit, BeginMerge
  <2>3. pc' = "merge" /\ job' = job /\ todo' = todo /\ pc = "stale" /\ Len(stack') = 1
    BY <1>7, <2>1, CallerType DEF StaleVisit, BeginMerge
  <2>4. ControlOK'
    BY <1>2, <2>3 DEF IInv, ControlOK
  <2> QED BY <1>1, <2>2, <2>4 DEF IInv
<1>8. CASE /\ processed' = processed \cup {u}
           /\ stack' = Append(Visited(u), [left |-> jobs[u].content.uses, target |-> EmptyBag])
           /\ UNCHANGED <<pc, job>>
  <2>1. jobs[u].content.uses \in SUBSET Paths
    BY <1>2, ContentsAssumption DEF IInv, RunOK, IsMap, CompilerJob
  <2>2. [left |-> jobs[u].content.uses, target |-> EmptyBag] \in Frames
    BY <2>1, ResultsType DEF Frames
  <2>3. stack' \in Seq(Frames) /\ Len(stack') = Len(stack) + 1
    BY <1>5, <1>8, <2>2
  <2>4. RunOK'
    BY <1>2, <1>3, <1>8, <2>3 DEF IInv, RunOK, StaleVisit
  <2>5. ControlOK'
    BY <1>2, <1>4, <1>8, <2>3 DEF IInv, ControlOK, StaleVisit
  <2> QED BY <1>1, <2>4, <2>5 DEF IInv
<1> QED BY <1>6, <1>7, <1>8 DEF StaleVisit

LEMMA StaleReturnInv == IInv /\ StaleReturn => IInv'
<1> SUFFICES ASSUME IInv, StaleReturn PROVE IInv'
  OBVIOUS
<1>1. FilesOK' /\ HistoryOK'
  BY FilesUnchanged, HistoryUnchanged DEF IInv, StaleReturn, fileVars
<1>2. jobs' = jobs /\ Frames' = Frames /\ job \in DOMAIN jobs
  BY FramesUnchanged DEF IInv, ControlOK, StaleReturn
<1>3. IsMap(jobs, CompilerJob)'
  BY <1>2 DEF IInv, RunOK, IsMap, CompilerJob
<1>4. stack \in Seq(Frames) /\ Len(stack) >= 1
  BY DEF IInv, RunOK, ControlOK, StaleReturn
<1>5. CASE Len(stack) > 1 /\ stack' = Front(stack) /\ UNCHANGED <<pc, job, processed, objectFiles>>
  <2>1. stack' \in Seq(Frames) /\ Len(stack') = Len(stack) - 1
    BY <1>4, <1>5, FrontType
  <2>2. RunOK'
    BY <1>2, <1>3, <1>5, <2>1 DEF IInv, RunOK, StaleReturn
  <2>3. ControlOK'
    BY <1>2, <1>4, <1>5, <2>1 DEF IInv, ControlOK, StaleReturn
  <2>4. ObjectsExist'
    BY <1>5, ObjectsUnchanged DEF IInv, StaleReturn, fileVars
  <2> QED BY <1>1, <2>2, <2>3, <2>4 DEF IInv
<1>6. CASE objectFiles' = objectFiles \cup {job} /\ EndJob
  <2>1. RunOK'
    BY <1>2, <1>3, <1>6 DEF IInv, RunOK, StaleReturn, EndJob
  <2>2. ControlOK'
    BY <1>2, <1>6 DEF IInv, ControlOK, StaleReturn, EndJob
  <2>3. ObjectsExist'
    BY <1>2, <1>6 DEF IInv, ObjectsExist, ControlOK, StaleReturn, fileVars
  <2> QED BY <1>1, <2>1, <2>2, <2>3 DEF IInv
<1> QED BY <1>5, <1>6 DEF StaleReturn

LEMMA MissingUseInv == ASSUME NEW u \in Paths PROVE IInv /\ MissingUse(u) => IInv'
BY ExitOK, FilesUnchanged, HistoryUnchanged DEF MissingUse, IInv

LEMMA MergeVisitInv == ASSUME NEW u \in Paths PROVE IInv /\ MergeVisit(u) => IInv'
<1> SUFFICES ASSUME IInv, MergeVisit(u) PROVE IInv'
  OBVIOUS
<1>1. FilesOK' /\ HistoryOK' /\ ObjectsExist'
  BY FilesUnchanged, HistoryUnchanged, ObjectsUnchanged DEF IInv, MergeVisit, fileVars
<1>2. jobs' = jobs /\ Frames' = Frames /\ u \in DOMAIN jobs /\ job \in DOMAIN jobs
  BY FramesUnchanged DEF IInv, ControlOK, MergeVisit
<1>3. IsMap(jobs, CompilerJob)'
  BY <1>2 DEF IInv, RunOK, IsMap, CompilerJob
<1>4. stack \in Seq(Frames) /\ Len(stack) >= 1
  BY DEF IInv, RunOK, ControlOK, MergeVisit
<1>5. Visited(u) \in Seq(Frames) /\ Len(Visited(u)) = Len(stack)
  BY <1>4, VisitedType
<1>6. CASE stack' = Visited(u) /\ UNCHANGED processed
  <2>1. RunOK'
    BY <1>2, <1>3, <1>5, <1>6 DEF IInv, RunOK, MergeVisit
  <2>2. ControlOK'
    BY <1>2, <1>4, <1>5, <1>6 DEF IInv, ControlOK, MergeVisit
  <2> QED BY <1>1, <2>1, <2>2 DEF IInv
<1>7. CASE /\ processed' = processed \cup {u}
           /\ stack' = Append(Visited(u),
                              [left |-> jobs[u].content.uses, target |-> SetToBag({u})])
  <2>1. jobs[u].content.uses \in SUBSET Paths
    BY <1>2, ContentsAssumption DEF IInv, RunOK, IsMap, CompilerJob
  <2>2. [left |-> jobs[u].content.uses, target |-> SetToBag({u})] \in Frames
    BY <1>2, <2>1, ResultsType DEF Frames
  <2>3. stack' \in Seq(Frames) /\ Len(stack') = Len(stack) + 1
    BY <1>5, <1>7, <2>2
  <2>4. RunOK'
    BY <1>2, <1>3, <1>7, <2>3 DEF IInv, RunOK, MergeVisit
  <2>5. ControlOK'
    BY <1>2, <1>4, <1>7, <2>3 DEF IInv, ControlOK, MergeVisit
  <2> QED BY <1>1, <2>4, <2>5 DEF IInv
<1> QED BY <1>6, <1>7 DEF MergeVisit

LEMMA MergeReturnInv == IInv /\ MergeReturn => IInv'
<1> SUFFICES ASSUME IInv, MergeReturn PROVE IInv'
  OBVIOUS
<1>1. FilesOK' /\ HistoryOK' /\ ObjectsExist'
  BY FilesUnchanged, HistoryUnchanged, ObjectsUnchanged DEF IInv, MergeReturn, fileVars
<1>2. jobs' = jobs /\ Frames' = Frames /\ job \in DOMAIN jobs
  BY FramesUnchanged DEF IInv, ControlOK, MergeReturn
<1>3. IsMap(jobs, CompilerJob)'
  BY <1>2 DEF IInv, RunOK, IsMap, CompilerJob
<1>4. stack \in Seq(Frames) /\ Len(stack) >= 1
  BY DEF IInv, RunOK, ControlOK, MergeReturn
<1>5. CASE /\ Len(stack) > 1
           /\ stack' = [Front(stack) EXCEPT ![Len(stack) - 1].target = @ (+) Top.target]
           /\ UNCHANGED pc
  <2> DEFINE n == Len(stack) - 1
             below == Front(stack)
             new == [left |-> below[n].left, target |-> below[n].target (+) Top.target]
  <2>1. n \in Nat /\ n >= 1 /\ n \in 1 .. n
    BY <1>4, <1>5
  <2>2. below \in [1 .. n -> Frames] /\ below[n] \in Frames
    <3>1. below \in Seq(Frames) /\ Len(below) = n
      BY <1>4, <1>5, FrontType
    <3> HIDE DEF below
    <3>2. below \in [1 .. n -> Frames]
      BY <3>1
    <3> QED BY <3>2, <2>1
  <2>3. below[n].target (+) Top.target \in Results(DOMAIN jobs)
    <3>1. Top \in Frames
      BY <1>4, VisitedType
    <3> QED BY <2>2, <3>1, ResultsType DEF Frames
  <2>4. new \in Frames
    BY <2>2, <2>3 DEF Frames
  <2>5. stack' = [below EXCEPT ![n] = [below[n] EXCEPT !.target = below[n].target (+) Top.target]]
    BY <1>5
  <2>6. [below[n] EXCEPT !.target = below[n].target (+) Top.target] = new
    BY <2>2 DEF Frames
  <2>7. stack' = [below EXCEPT ![n] = new]
    BY <2>5, <2>6
  <2> HIDE DEF below, new
  <2>8. stack' \in [1 .. n -> Frames]
    BY <2>1, <2>2, <2>4, <2>7
  <2>9. stack' \in Seq(Frames) /\ Len(stack') = n
    BY <2>1, <2>8
  <2>10. RunOK'
    BY <1>2, <1>3, <1>5, <2>9 DEF IInv, RunOK, MergeReturn
  <2>11. ControlOK'
    BY <1>2, <1>5, <2>1, <2>9 DEF IInv, ControlOK, MergeReturn
  <2> QED BY <1>1, <2>10, <2>11 DEF IInv
<1>6. CASE Len(stack) = 1 /\ pc' = "build" /\ UNCHANGED stack
  <2>1. RunOK'
    BY <1>2, <1>3, <1>6 DEF IInv, RunOK, MergeReturn
  <2>2. ControlOK'
    BY <1>2, <1>6 DEF IInv, ControlOK, MergeReturn
  <2> QED BY <1>1, <2>1, <2>2 DEF IInv
<1> QED BY <1>5, <1>6 DEF MergeReturn

-----------------------------------------------------------------------------
(* Compiling and linking. *)

LEMMA BuildInv == IInv /\ Build => IInv'
<1> SUFFICES ASSUME IInv, Build PROVE IInv'
  OBVIOUS
<1>1. FilesOK' /\ ObjectsExist'
  BY FilesUnchanged, ObjectsUnchanged DEF IInv, Build, fileVars
<1>2. jobs' = jobs /\ Frames' = Frames /\ IsMap(jobs, CompilerJob)'
  BY FramesUnchanged DEF IInv, RunOK, Build, IsMap, CompilerJob
<1>3. HistoryOK'
  BY DEF IInv, HistoryOK, Build, IsMap, Version
<1>4. RunOK'
  BY <1>2 DEF IInv, RunOK, Build
<1>5. ControlOK'
  BY <1>2 DEF IInv, ControlOK, Build
<1> QED BY <1>1, <1>3, <1>4, <1>5 DEF IInv

\* The modules a job is compiled from are modules of jobs.
LEMMA ModuleType ==
  ASSUME IInv, Len(stack) = 1
  PROVE  /\ DOMAIN Module \subseteq DOMAIN jobs
         /\ \A s \in DOMAIN Module : jobs[s] \in CompilerJob
<1>1. stack[1] \in Frames
  BY DEF IInv, RunOK
<1>2. Module \in Results(DOMAIN jobs)
  BY <1>1 DEF Frames, Module
<1>3. DOMAIN Module \subseteq DOMAIN jobs
  BY <1>2 DEF Results
<1> QED BY <1>3 DEF IInv, RunOK, IsMap

LEMMA BuildFailsInv == IInv /\ BuildFails => IInv'
<1> SUFFICES ASSUME IInv, BuildFails PROVE IInv'
  OBVIOUS
<1>1. FilesOK' /\ ObjectsExist'
  BY FilesUnchanged, ObjectsUnchanged DEF IInv, BuildFails, fileVars
<1>2. jobs' = jobs /\ Frames' = Frames /\ IsMap(jobs, CompilerJob)'
  BY FramesUnchanged DEF IInv, RunOK, BuildFails, IsMap, CompilerJob
<1>3. job \in Paths
  BY DEF IInv, RunOK, ControlOK, BuildFails, IsMap
<1> DEFINE new == [s \in DOMAIN Module |-> jobs[s].version]
<1>4. DOMAIN Module \subseteq DOMAIN jobs /\ \A s \in DOMAIN Module : jobs[s] \in CompilerJob
  BY ModuleType DEF IInv, ControlOK, BuildFails
<1>5. IsMap(new, Version)
  BY <1>4 DEF IInv, RunOK, IsMap, CompilerJob
<1>6. failed' = [q \in DOMAIN failed \cup {job} |-> IF q = job THEN new ELSE failed[q]]
  BY DEF BuildFails
<1> HIDE DEF new
<1>7. HistoryOK'
  <2>1. DOMAIN failed' \subseteq Paths
    BY <1>3, <1>6 DEF IInv, HistoryOK
  <2>2. \A p \in DOMAIN failed' : IsMap(failed'[p], Version)
    BY <1>5, <1>6 DEF IInv, HistoryOK, IsMap
  <2>3. killed' = killed
    BY DEF BuildFails
  <2> QED BY <2>1, <2>2, <2>3 DEF IInv, HistoryOK, IsMap, Version
<1>8. RunOK'
  <2>1. success' \in BOOLEAN
    BY Zenon DEF BuildFails
  <2>2. /\ pc' = "next" /\ job' = NoPath /\ processed' = {} /\ stack' = << >>
        /\ todo' = todo /\ objectFiles' = objectFiles
    BY DEF BuildFails, EndJob
  <2> QED BY <1>2, <2>1, <2>2 DEF IInv, RunOK
<1>9. ControlOK'
  BY <1>2 DEF IInv, ControlOK, BuildFails, EndJob
<1> QED BY <1>1, <1>7, <1>8, <1>9 DEF IInv

LEMMA VerifyFailsInv == IInv /\ VerifyFails => IInv'
BY ExitOK, FilesUnchanged, HistoryUnchanged DEF VerifyFails, IInv

LEMMA OpenInv == IInv /\ Open => IInv'
<1> SUFFICES ASSUME IInv, Open PROVE IInv'
  OBVIOUS
<1>1. PICK t \in Stamps :
        /\ clock' = t
        /\ objects' = [q \in DOMAIN objects \cup {job} |->
                        IF q = job THEN [mtime |-> t, whole |-> FALSE, from |-> << >>]
                                   ELSE objects[q]]
  BY DEF Open
<1> DEFINE new == [mtime |-> t, whole |-> FALSE, from |-> << >>]
<1>2. t \in Time /\ job \in Paths
  BY StampTime DEF IInv, RunOK, ControlOK, Open, IsMap
<1>3. IsObject(new)
  BY <1>2, MapEmpty DEF IsObject
<1> HIDE DEF new
<1>4. \A p \in DOMAIN objects' : IsObject(objects'[p])
  BY <1>1, <1>3 DEF IInv, FilesOK, new
<1>5. FilesOK'
  <2>1. DOMAIN objects' \subseteq Paths
    BY <1>1, <1>2 DEF IInv, FilesOK
  <2> QED BY <1>1, <1>2, <1>4, <2>1 DEF IInv, FilesOK, Open, IsMap, IsObject
<1>6. jobs' = jobs /\ Frames' = Frames /\ IsMap(jobs, CompilerJob)'
  BY FramesUnchanged DEF IInv, RunOK, Open, IsMap, CompilerJob
<1>7. HistoryOK'
  BY DEF IInv, HistoryOK, Open, IsMap, Version
<1>8. RunOK'
  BY <1>6 DEF IInv, RunOK, Open
<1>9. ControlOK'
  BY <1>6 DEF IInv, ControlOK, Open
<1>10. ObjectsExist'
  BY <1>1, <1>6 DEF IInv, ObjectsExist, Open
<1> QED BY <1>5, <1>7, <1>8, <1>9, <1>10 DEF IInv

LEMMA EmitInv == IInv /\ Emit => IInv'
<1> SUFFICES ASSUME IInv, Emit PROVE IInv'
  OBVIOUS
<1> DEFINE from == [s \in DOMAIN Module |->
                     [version |-> jobs[s].version, readAt |-> jobs[s].readAt]]
<1>1. PICK t \in Stamps :
        /\ clock' = t
        /\ objects' = [objects EXCEPT ![job] = [mtime |-> t, whole |-> TRUE, from |-> from]]
  BY DEF Emit
<1> DEFINE new == [mtime |-> t, whole |-> TRUE, from |-> from]
<1>2. t \in Time /\ job \in Paths /\ job \in DOMAIN jobs
  BY StampTime DEF IInv, RunOK, ControlOK, Emit, IsMap
<1>3. DOMAIN Module \subseteq DOMAIN jobs /\ \A s \in DOMAIN Module : jobs[s] \in CompilerJob
  BY ModuleType DEF IInv, ControlOK, Emit
<1>4. IsMap(from, Origin)
  BY <1>3 DEF IInv, RunOK, IsMap, CompilerJob, Origin
<1> HIDE DEF from
<1>5. IsObject(new)
  BY <1>2, <1>4 DEF IsObject
<1>6. objects' = [objects EXCEPT ![job] = new]
  BY <1>1
<1> HIDE DEF new
<1>7. DOMAIN objects' = DOMAIN objects /\ \A p \in DOMAIN objects' : IsObject(objects'[p])
  BY <1>5, <1>6 DEF IInv, FilesOK
<1>8. FilesOK'
  BY <1>1, <1>2, <1>7 DEF IInv, FilesOK, Emit, IsMap, IsObject
<1>9. jobs' = jobs /\ Frames' = Frames /\ IsMap(jobs, CompilerJob)'
  BY FramesUnchanged DEF IInv, RunOK, Emit, IsMap, CompilerJob
<1>10. HistoryOK'
  BY HistoryUnchanged DEF IInv, Emit
<1>11. RunOK'
  BY <1>2, <1>9 DEF IInv, RunOK, Emit, EndJob
<1>12. ControlOK'
  BY <1>9 DEF IInv, ControlOK, Emit, EndJob
<1>13. ObjectsExist'
  BY <1>7, <1>9 DEF IInv, ObjectsExist, ControlOK, Emit
<1> QED BY <1>8, <1>10, <1>11, <1>12, <1>13 DEF IInv

LEMMA BuildFailedInv == IInv /\ BuildFailed => IInv'
BY ExitOK, FilesUnchanged, HistoryUnchanged DEF BuildFailed, IInv

LEMMA LinkInv == IInv /\ Link => IInv'
<1> SUFFICES ASSUME IInv, Link PROVE IInv'
  OBVIOUS
<1>1. objectFiles \subseteq DOMAIN objects
  BY DEF IInv, ObjectsExist
<1>2. /\ DOMAIN executable' \subseteq Paths
      /\ \A p \in DOMAIN executable' : IsObject(executable'[p])
  BY <1>1 DEF IInv, FilesOK, Link
<1>3. FilesOK'
  BY <1>2 DEF IInv, FilesOK, Link, IsMap, IsObject
<1>4. HistoryOK' /\ RunOK' /\ ControlOK' /\ ObjectsExist'
  BY HistoryUnchanged, ExitOK DEF IInv, Link
<1> QED BY <1>3, <1>4 DEF IInv

-----------------------------------------------------------------------------
(* The environment. *)

\* A step of the environment that is not a kill leaves the run alone.
LEMMA RunUnchanged ==
  ASSUME RunOK, HistoryOK, UNCHANGED <<runVars, historyVars>>
  PROVE  RunOK' /\ HistoryOK'
<1>1. jobs' = jobs /\ Frames' = Frames /\ IsMap(jobs, CompilerJob)'
  BY FramesUnchanged DEF RunOK, runVars, IsMap, CompilerJob
<1>2. RunOK'
  BY <1>1 DEF RunOK, runVars
<1> QED BY <1>2, HistoryUnchanged

LEMMA WriteInv ==
  ASSUME NEW p \in Paths, NEW c \in Contents, IInv, Write(p, c)
  PROVE  IInv'
<1>1. PICK t \in Stamps :
        /\ clock' = t
        /\ dir' = [q \in DOMAIN dir \cup {p} |->
                    IF q = p THEN [content |-> c, version |-> edits + 1, mtime |-> t]
                             ELSE dir[q]]
  BY DEF Write
<1> DEFINE new == [content |-> c, version |-> edits + 1, mtime |-> t]
<1>2. t \in Time /\ edits + 1 \in Version
  BY StampTime, BoundsAssumption DEF IInv, FilesOK, Write, Version
<1>3. new \in Source
  BY <1>2 DEF Source
<1> HIDE DEF new
<1>4. DOMAIN dir' = DOMAIN dir \cup {p} /\ IsMap(dir, Source)'
  BY <1>1, <1>3 DEF IInv, FilesOK, IsMap, Source, Time, Version, new
<1>5. FilesOK'
  BY <1>1, <1>2, <1>4 DEF IInv, FilesOK, Write, IsObject
<1>6. RunOK' /\ HistoryOK'
  BY RunUnchanged DEF IInv, Write
<1>7. ControlOK'
  BY <1>4 DEF IInv, ControlOK, Write, runVars
<1>8. ObjectsExist'
  BY ObjectsUnchanged DEF IInv, Write, runVars
<1> QED BY <1>5, <1>6, <1>7, <1>8 DEF IInv

LEMMA EditInv == ASSUME NEW p \in Paths PROVE IInv /\ Edit(p) => IInv'
<1> SUFFICES ASSUME IInv, Edit(p) PROVE IInv'
  OBVIOUS
<1>1. dir[p].content \in Contents
  BY DEF IInv, FilesOK, IsMap, Source, Edit
<1>2. PICK c \in Contents : Write(p, c)
  BY <1>1, ContentsAssumption DEF Edit
<1> QED BY <1>2, WriteInv

LEMMA CreateInv == ASSUME NEW p \in Paths PROVE IInv /\ Create(p) => IInv'
BY WriteInv DEF Create

LEMMA DeleteInv == ASSUME NEW p \in Paths PROVE IInv /\ Delete(p) => IInv'
<1> SUFFICES ASSUME IInv, Delete(p) PROVE IInv'
  OBVIOUS
<1>1. edits + 1 \in Version
  BY BoundsAssumption DEF IInv, FilesOK, Delete, Version
<1>2. IsMap(dir, Source)'
  BY DEF IInv, FilesOK, Delete, IsMap, Source, Time, Version
<1>3. FilesOK'
  BY <1>1, <1>2 DEF IInv, FilesOK, Delete, IsObject
<1>4. RunOK' /\ HistoryOK'
  BY RunUnchanged DEF IInv, Delete
<1>5. ControlOK'
  BY DEF IInv, ControlOK, Delete, runVars
<1>6. ObjectsExist'
  BY ObjectsUnchanged DEF IInv, Delete, runVars
<1> QED BY <1>3, <1>4, <1>5, <1>6 DEF IInv

LEMMA KillInv == IInv /\ Kill => IInv'
<1> SUFFICES ASSUME IInv, Kill PROVE IInv'
  OBVIOUS
<1>1. pc = "emit" => job \in Paths
  BY DEF IInv, RunOK, ControlOK, IsMap
<1>2. HistoryOK'
  BY <1>1 DEF IInv, HistoryOK, Kill, IsMap, Version
<1> QED BY <1>2, ExitOK, FilesUnchanged DEF IInv, Kill

-----------------------------------------------------------------------------

LEMMA InitInv == Init => IInv
<1> SUFFICES ASSUME Init PROVE IInv
  OBVIOUS
<1>1. PICK S \in SUBSET Paths : \E content \in [S -> Contents] :
        dir = [p \in S |-> [content |-> content[p], version |-> 0, mtime |-> 1]]
  BY DEF Init
<1>2. PICK content \in [S -> Contents] :
        dir = [p \in S |-> [content |-> content[p], version |-> 0, mtime |-> 1]]
  BY <1>1
<1>3. IsMap(dir, Source)
  BY <1>2, Bounds DEF IsMap, Source
<1>4. FilesOK
  BY <1>3, Bounds DEF Init, FilesOK
<1>5. RunOK
  <2>1. success \in BOOLEAN
    BY Zenon DEF Init
  <2>2. IsMap(jobs, CompilerJob)
    BY MapEmpty DEF Init
  <2> QED BY <2>1, <2>2 DEF Init, RunOK
<1>6. HistoryOK /\ ControlOK /\ ObjectsExist
  BY DEF Init, HistoryOK, ControlOK, ObjectsExist
<1> QED BY <1>4, <1>5, <1>6 DEF IInv

LEMMA NextInv == IInv /\ [Next]_vars => IInv'
<1> SUFFICES ASSUME IInv, [Next]_vars PROVE IInv'
  OBVIOUS
<1>1. CASE Driver
  BY <1>1, AnalyzeInv, NextJobInv, StaleVisitInv, MergeVisitInv, MissingUseInv, CreateJobInv,
     StaleReturnInv, MergeReturnInv, BuildInv, BuildFailsInv, VerifyFailsInv, OpenInv, EmitInv,
     BuildFailedInv, LinkInv, Zenon DEF Driver
<1>2. CASE User
  BY <1>2, StartInv, KillInv, EditInv, CreateInv, DeleteInv, Zenon DEF User
<1>3. CASE UNCHANGED vars
  <2>1. UNCHANGED fileVars /\ UNCHANGED <<runVars, historyVars>>
    BY <1>3 DEF vars
  <2>2. FilesOK' /\ RunOK' /\ HistoryOK'
    BY <2>1, FilesUnchanged, RunUnchanged DEF IInv
  <2>3. ControlOK' /\ ObjectsExist'
    BY <2>1 DEF IInv, ControlOK, ObjectsExist, runVars, fileVars
  <2> QED BY <2>2, <2>3 DEF IInv
<1> QED BY <1>1, <1>2, <1>3 DEF Next

LEMMA InvTypeOK == IInv => TypeOK
<1> SUFFICES ASSUME IInv PROVE TypeOK
  OBVIOUS
<1>1. ASSUME NEW i \in DOMAIN stack PROVE IsFrame(stack[i])
  <2>1. stack[i] \in Frames
    BY DEF IInv, RunOK
  <2>2. DOMAIN jobs \subseteq Paths
    BY DEF IInv, RunOK, IsMap
  <2>3. stack[i].target \in Results(DOMAIN jobs)
    BY <2>1 DEF Frames
  <2>4. IsMap(stack[i].target, Nat)
    BY <2>2, <2>3 DEF Results, IsMap
  <2> QED BY <2>1, <2>4 DEF IsFrame, Frames
<1> QED BY <1>1 DEF IInv, FilesOK, RunOK, HistoryOK, TypeOK

\* Every state of the driver is well typed.  In particular the linker is given
\* objects that exist (the values of executable are objects), though nothing
\* in main.cpp checks it: a job gets among the objects to link because its
\* object was just written or was there when createJob looked (main.cpp:48,
\* 396, 423).
THEOREM TypeCorrect == Spec => []TypeOK
<1>1. IInv /\ [Next]_vars => IInv'
  BY NextInv
<1> QED BY InitInv, <1>1, InvTypeOK, PTL DEF Spec

-----------------------------------------------------------------------------
(* The searches of isStale and processUses.  What is used by something     *)
(* processed is processed or still to be visited, so when nothing is left  *)
(* to visit the processed files are closed under use.  isStale has         *)
(* processed only files that are not newer than the object; the running    *)
(* calls of processUses share out the processed files among them.          *)

LeftIn(t) == UNION {t[i].left : i \in DOMAIN t}

Pending == LeftIn(stack)

SearchOK ==
  pc \in {"stale", "merge"} =>
    /\ \A s \in processed : jobs[s].content.uses \subseteq processed \cup Pending
    /\ job \in processed \cup Pending
    /\ processed \cup (Pending \cap DOMAIN jobs) \subseteq Reach(job)

StaleOK == pc = "stale" => \A s \in processed : ~Newer(s)

\* The targets of the calls are sets without an element in common.
Shares(t, S) ==
  /\ \A i \in DOMAIN t : t[i].target = SetToBag(DOMAIN t[i].target)
  /\ \A i, j \in DOMAIN t : i # j => DOMAIN t[i].target \cap DOMAIN t[j].target = {}
  /\ S = UNION {DOMAIN t[i].target : i \in DOMAIN t}

MergeOK == pc = "merge" => Shares(stack, processed)

SearchInv == SearchOK /\ StaleOK /\ OnlyStaleIsBuilt /\ MergeOK /\ ModuleIsComplete

\* Reach(p) has p in it, is closed under use, and is within every such set.
LEMMA ReachSelf == ASSUME NEW p \in DOMAIN jobs PROVE p \in Reach(p)
BY DEF Reach, Promise!Reach

LEMMA ReachUse ==
  ASSUME NEW p, NEW s \in Reach(p), NEW u \in jobs[s].content.uses \cap DOMAIN jobs
  PROVE  u \in Reach(p)
<1> SUFFICES ASSUME NEW S \in SUBSET DOMAIN jobs, p \in S, Promise!Closed(S) PROVE u \in S
  BY DEF Reach, Promise!Reach
<1>1. s \in S
  BY DEF Reach, Promise!Reach
<1> QED BY <1>1 DEF Promise!Closed

LEMMA ReachLeast ==
  ASSUME NEW p, NEW S \in SUBSET DOMAIN jobs, p \in S, Promise!Closed(S)
  PROVE  Reach(p) \subseteq S
BY DEF Reach, Promise!Reach

LEMMA ReachUnchanged ==
  ASSUME jobs' = jobs, job' = job
  PROVE  Reach(job)' = Reach(job) /\ (Stale(job)' <=> Stale(job))
<1>1. Reach(job)' = Reach(job)
  BY DEF Reach, Promise!Reach, Promise!Closed
<1> QED BY <1>1 DEF Stale, Promise!Stale, Reach

\* What is still to be visited after a use has been visited.
LEMMA PendingVisited ==
  ASSUME stack \in Seq(Frames), Len(stack) >= 1, NEW u \in Top.left,
         NEW t, t = Visited(u)
  PROVE  LeftIn(t) \cup {u} = Pending
<1> DEFINE n == Len(stack)
<1>1. n \in Nat /\ DOMAIN stack = 1 .. n /\ n \in 1 .. n
  OBVIOUS
<1>2. t \in Seq(Frames) /\ Len(t) = n /\ \A i \in 1 .. n - 1 : t[i] = stack[i]
  BY VisitedType
<1>3. DOMAIN t = 1 .. n
  BY <1>2
<1>4. t[n] = [Top EXCEPT !.left = @ \ {u}] /\ Top \in Frames
  BY VisitedType
<1>5. t[n].left = stack[n].left \ {u} /\ u \in stack[n].left
  BY <1>4 DEF Frames, Top
<1>6. ASSUME NEW i \in 1 .. n PROVE t[i].left \subseteq stack[i].left /\ stack[i].left \subseteq t[i].left \cup {u}
  <2>1. CASE i = n
    BY <2>1, <1>5
  <2>2. CASE i # n
    <3>1. i \in 1 .. n - 1
      BY <2>2, <1>1
    <3> QED BY <3>1, <1>2
  <2> QED BY <2>1, <2>2
<1>7. LeftIn(t) \cup {u} \subseteq Pending
  BY <1>1, <1>3, <1>5, <1>6 DEF Pending, LeftIn
<1>8. Pending \subseteq LeftIn(t) \cup {u}
  BY <1>1, <1>3, <1>6 DEF Pending, LeftIn
<1> QED BY <1>7, <1>8

\* What is still to be visited after a call with a frame more, or one less
\* that has nothing left.
LEMMA PendingAppend ==
  ASSUME NEW S, NEW t \in Seq(S), NEW f, NEW r, r = Append(t, f)
  PROVE  LeftIn(r) = LeftIn(t) \cup f.left
<1>1. Len(t) \in Nat /\ DOMAIN t = 1 .. Len(t) /\ DOMAIN r = 1 .. Len(t) + 1
  OBVIOUS
<1>2. \A i \in 1 .. Len(t) : r[i] = t[i]
  OBVIOUS
<1>3. r[Len(t) + 1] = f
  OBVIOUS
<1>4. DOMAIN r = DOMAIN t \cup {Len(t) + 1}
  BY <1>1
<1> QED BY <1>1, <1>2, <1>3, <1>4 DEF LeftIn

LEMMA PendingFront ==
  ASSUME stack \in Seq(Frames), Len(stack) > 1, Top.left = {}, NEW t, t = Front(stack)
  PROVE  LeftIn(t) = Pending
<1>1. /\ Len(stack) \in Nat /\ DOMAIN stack = 1 .. Len(stack) /\ DOMAIN t = 1 .. Len(stack) - 1
      /\ \A i \in DOMAIN t : t[i] = stack[i]
  BY FrontType
<1>2. DOMAIN stack = DOMAIN t \cup {Len(stack)}
  BY <1>1
<1>3. stack[Len(stack)].left = {}
  BY DEF Top
<1> QED BY <1>1, <1>2, <1>3 DEF Pending, LeftIn

\* A search begins.
LEMMA CallerSearch ==
  ASSUME NEW p \in DOMAIN jobs, jobs' = jobs, job' = p, processed' = {}, stack' = Caller(p)
  PROVE  SearchOK' /\ StaleOK' /\ MergeOK'
<1>1. /\ DOMAIN stack' = {1} /\ stack'[1].left = {p} /\ stack'[1].target = EmptyBag
      /\ DOMAIN EmptyBag = {} /\ EmptyBag = SetToBag({})
  BY DEF Caller, EmptyBag, SetToBag
<1>2. Pending' = {p}
  BY <1>1 DEF Pending, LeftIn
<1>3. Reach(job)' = Reach(p)
  BY DEF Reach, Promise!Reach, Promise!Closed
<1>4. p \in Reach(p)
  BY ReachSelf
<1>5. SearchOK'
  BY <1>2, <1>3, <1>4 DEF SearchOK
<1>6. MergeOK'
  BY <1>1 DEF MergeOK, Shares
<1> QED BY <1>5, <1>6 DEF StaleOK

\* A use is visited that was visited before.
LEMMA SkipSearch ==
  ASSUME IInv, SearchOK, Len(stack) >= 1, NEW u \in Top.left, u \in processed,
         pc \in {"stale", "merge"}, stack' = Visited(u), UNCHANGED <<pc, jobs, job, processed>>
  PROVE  SearchOK'
<1>1. LeftIn(Visited(u)) \cup {u} = Pending
  BY PendingVisited DEF IInv, RunOK
<1>2. Pending' = LeftIn(Visited(u))
  BY DEF Pending, LeftIn
<1>3. Reach(job)' = Reach(job)
  BY ReachUnchanged
<1>4. processed' \cup Pending' = processed \cup Pending
  BY <1>1, <1>2
<1> QED BY <1>1, <1>2, <1>3, <1>4 DEF SearchOK

\* A use is visited for the first time.
LEMMA DescendSearch ==
  ASSUME IInv, SearchOK, Len(stack) >= 1, NEW u \in Top.left, u \in DOMAIN jobs,
         pc \in {"stale", "merge"}, UNCHANGED <<pc, jobs, job>>,
         processed' = processed \cup {u}, NEW f, f.left = jobs[u].content.uses,
         stack' = Append(Visited(u), f)
  PROVE  SearchOK' /\ u \in Reach(job)
<1> DEFINE uses == jobs[u].content.uses
           left == LeftIn(Visited(u))
<1>1. left \cup {u} = Pending
  BY PendingVisited DEF IInv, RunOK
<1>2. Visited(u) \in Seq(Frames)
  BY VisitedType DEF IInv, RunOK
<1>3. LeftIn(stack') = left \cup uses
  BY <1>2, PendingAppend
<1>4. Pending' = left \cup uses
  BY <1>3 DEF Pending, LeftIn
<1> HIDE DEF left
<1>5. u \in Reach(job)
  BY <1>1 DEF SearchOK
<1>6. uses \cap DOMAIN jobs \subseteq Reach(job)
  BY <1>5, ReachUse
<1>7. Reach(job)' = Reach(job)
  BY ReachUnchanged
<1>8. processed' \cup Pending' = processed \cup Pending \cup uses
  BY <1>1, <1>4
<1>9. \A s \in processed' : jobs'[s].content.uses \subseteq processed' \cup Pending'
  BY <1>8 DEF SearchOK
<1>10. job' \in processed' \cup Pending'
  BY <1>8 DEF SearchOK
<1>11. processed' \cup (Pending' \cap DOMAIN jobs') \subseteq Reach(job)'
  BY <1>1, <1>4, <1>5, <1>6, <1>7 DEF SearchOK
<1> QED BY <1>5, <1>9, <1>10, <1>11 DEF SearchOK

\* A call returns to another one.
LEMMA ReturnSearch ==
  ASSUME SearchOK, LeftIn(stack') = Pending, UNCHANGED <<pc, jobs, job, processed>>
  PROVE  SearchOK'
<1>1. Pending' = Pending
  BY DEF Pending, LeftIn
<1>2. Reach(job)' = Reach(job)
  BY ReachUnchanged
<1> QED BY <1>1, <1>2 DEF SearchOK

\* The outermost call has nothing left to visit.
LEMMA SearchEnds ==
  ASSUME IInv, SearchOK, pc \in {"stale", "merge"}, Len(stack) = 1, Top.left = {}
  PROVE  Reach(job) = processed
<1>1. Pending = {}
  <2>1. DOMAIN stack = {1} /\ stack[1].left = {}
    BY DEF IInv, RunOK, Top
  <2> QED BY <2>1 DEF Pending, LeftIn
<1>2. processed \subseteq DOMAIN jobs /\ job \in processed
  BY <1>1 DEF IInv, RunOK, SearchOK
<1>3. Promise!Closed(processed)
  BY <1>1 DEF SearchOK, Promise!Closed
<1>4. Reach(job) \subseteq processed
  BY <1>2, <1>3, ReachLeast
<1> QED BY <1>4 DEF SearchOK

LEMMA NextJobSearch ==
  ASSUME NEW p \in Paths, IInv, SearchInv, NextJob(p) PROVE SearchInv'
<1>1. jobs' = jobs /\ p \in DOMAIN jobs
  BY DEF IInv, ControlOK, NextJob
<1>2. CASE pc' = "next"
  BY <1>2 DEF SearchInv, SearchOK, StaleOK, OnlyStaleIsBuilt, MergeOK, ModuleIsComplete
<1>3. CASE jobs[p].objectFileTime = 0 /\ BeginMerge(p)
  <2>1. SearchOK' /\ StaleOK' /\ MergeOK'
    BY <1>1, <1>3, CallerSearch DEF BeginMerge
  <2>2. OnlyStaleIsBuilt' /\ ModuleIsComplete'
    BY <1>1, <1>3 DEF OnlyStaleIsBuilt, ModuleIsComplete, Stale, Promise!Stale, BeginMerge, Reach
  <2> QED BY <2>1, <2>2 DEF SearchInv
<1>4. CASE pc' = "stale" /\ job' = p /\ processed' = {} /\ stack' = Caller(p)
  <2>1. SearchOK' /\ StaleOK' /\ MergeOK'
    BY <1>1, <1>4, CallerSearch
  <2> QED BY <1>4, <2>1 DEF SearchInv, OnlyStaleIsBuilt, ModuleIsComplete
<1> QED BY <1>2, <1>3, <1>4 DEF NextJob

LEMMA StaleVisitSearch ==
  ASSUME NEW u \in Paths, IInv, SearchInv, StaleVisit(u) PROVE SearchInv'
<1>1. /\ jobs' = jobs /\ pc = "stale" /\ u \in Top.left /\ u \in DOMAIN jobs
      /\ stack \in Seq(Frames) /\ Len(stack) >= 1 /\ job \in DOMAIN jobs
  BY DEF IInv, RunOK, ControlOK, StaleVisit
<1>2. SearchOK /\ StaleOK
  BY DEF SearchInv
<1>3. CASE u \in processed /\ stack' = Visited(u) /\ UNCHANGED <<pc, job, processed>>
  <2>1. SearchOK'
    BY <1>1, <1>2, <1>3, SkipSearch
  <2> QED BY <1>1, <1>2, <1>3, <2>1
       DEF SearchInv, StaleOK, Newer, OnlyStaleIsBuilt, MergeOK, ModuleIsComplete
<1>4. CASE Newer(u) /\ BeginMerge(job)
  <2>1. u \in Pending
    BY <1>1, PendingVisited
  <2>2. Stale(job)
    BY <1>1, <1>2, <1>4, <2>1 DEF SearchOK, Stale, Promise!Stale, Newer, Reach
  <2>3. Stale(job)'
    BY <1>1, <1>4, <2>2, ReachUnchanged DEF BeginMerge
  <2>4. SearchOK' /\ StaleOK' /\ MergeOK'
    BY <1>1, <1>4, CallerSearch DEF BeginMerge
  <2> QED BY <1>4, <2>3, <2>4 DEF SearchInv, OnlyStaleIsBuilt, ModuleIsComplete, BeginMerge
<1>5. CASE /\ ~Newer(u)
           /\ processed' = processed \cup {u}
           /\ stack' = Append(Visited(u), [left |-> jobs[u].content.uses, target |-> EmptyBag])
           /\ UNCHANGED <<pc, job>>
  <2> DEFINE f == [left |-> jobs[u].content.uses, target |-> EmptyBag]
  <2>1. f.left = jobs[u].content.uses /\ stack' = Append(Visited(u), f)
    BY <1>5
  <2> HIDE DEF f
  <2>2. SearchOK'
    BY <1>1, <1>2, <1>5, <2>1, DescendSearch
  <2>3. StaleOK'
    BY <1>1, <1>2, <1>5 DEF StaleOK, Newer
  <2> QED BY <1>1, <1>5, <2>2, <2>3 DEF SearchInv, OnlyStaleIsBuilt, MergeOK, ModuleIsComplete
<1> QED BY <1>3, <1>4, <1>5 DEF StaleVisit

LEMMA StaleReturnSearch == ASSUME IInv, SearchInv, StaleReturn PROVE SearchInv'
<1>1. /\ jobs' = jobs /\ pc = "stale" /\ Top.left = {}
      /\ stack \in Seq(Frames) /\ Len(stack) >= 1
  BY DEF IInv, RunOK, ControlOK, StaleReturn
<1>2. CASE Len(stack) > 1 /\ stack' = Front(stack) /\ UNCHANGED <<pc, job, processed, objectFiles>>
  <2>1. LeftIn(Front(stack)) = Pending
    BY <1>1, <1>2, PendingFront
  <2>2. SearchOK'
    BY <1>1, <1>2, <2>1, ReturnSearch DEF SearchInv
  <2> QED BY <1>1, <1>2, <2>2
       DEF SearchInv, StaleOK, Newer, OnlyStaleIsBuilt, MergeOK, ModuleIsComplete
<1>3. CASE EndJob
  BY <1>3 DEF EndJob, SearchInv, SearchOK, StaleOK, OnlyStaleIsBuilt, MergeOK, ModuleIsComplete
<1> QED BY <1>2, <1>3 DEF StaleReturn

-----------------------------------------------------------------------------
(* What processUses collects. *)

\* The union of sets without a common element, as bags.
LEMMA DisjointUnion ==
  ASSUME NEW A, NEW B, A \cap B = {}
  PROVE  SetToBag(A) (+) SetToBag(B) = SetToBag(A \cup B)
BY DEF SetToBag, (+)

\* The targets after a use has been visited.
LEMMA VisitedShares ==
  ASSUME stack \in Seq(Frames), Len(stack) >= 1, NEW u, NEW S, Shares(stack, S)
  PROVE  Shares(Visited(u), S)
<1> DEFINE n == Len(stack)
           t == Visited(u)
<1>1. n \in Nat /\ n \in 1 .. n /\ DOMAIN stack = 1 .. n
  OBVIOUS
<1>2. /\ t \in Seq(Frames) /\ Len(t) = n
      /\ t[n] = [Top EXCEPT !.left = @ \ {u}] /\ Top \in Frames
      /\ \A i \in 1 .. n - 1 : t[i] = stack[i]
  BY VisitedType
<1> HIDE DEF t
<1>3. DOMAIN t = 1 .. n
  BY <1>2
<1>4. t[n].target = stack[n].target
  BY <1>2 DEF Frames, Top
<1> HIDE DEF n
<1>5. \A i \in 1 .. n : t[i].target = stack[i].target
  <2>1. \A i \in 1 .. n : i = n \/ i \in 1 .. n - 1
    BY <1>1
  <2> QED BY <1>2, <1>4, <2>1
<1>6. Shares(t, S)
  BY <1>1, <1>3, <1>5 DEF Shares
<1> QED BY <1>6 DEF t

\* The targets with one more call, which begins with the module of u.
LEMMA AppendShares ==
  ASSUME NEW R, NEW t \in Seq(R), NEW S, Shares(t, S), NEW u, u \notin S,
         NEW f, f.target = SetToBag({u})
  PROVE  Shares(Append(t, f), S \cup {u})
<1> DEFINE n == Len(t) + 1
           r == Append(t, f)
<1>1. DOMAIN t = 1 .. n - 1 /\ DOMAIN r = 1 .. n /\ n \in Nat /\ n \in 1 .. n
  OBVIOUS
<1>2. r[n] = f /\ \A i \in 1 .. n - 1 : r[i] = t[i]
  OBVIOUS
<1>3. DOMAIN r = DOMAIN t \cup {n} /\ n \notin DOMAIN t
  BY <1>1
<1> HIDE DEF n, r
<1>4. DOMAIN f.target = {u}
  BY DEF SetToBag
<1>5. \A i \in DOMAIN t : r[i].target = t[i].target /\ u \notin DOMAIN t[i].target
  BY <1>1, <1>2 DEF Shares
<1>6. \A i \in DOMAIN r : r[i].target = SetToBag(DOMAIN r[i].target)
  BY <1>2, <1>3, <1>4, <1>5 DEF Shares
<1>7. \A i, j \in DOMAIN r : i # j => DOMAIN r[i].target \cap DOMAIN r[j].target = {}
  BY <1>2, <1>3, <1>4, <1>5 DEF Shares
<1>8. S \cup {u} = UNION {DOMAIN r[i].target : i \in DOMAIN r}
  BY <1>2, <1>3, <1>4, <1>5 DEF Shares
<1>9. Shares(r, S \cup {u})
  BY <1>6, <1>7, <1>8 DEF Shares
<1> QED BY <1>9 DEF r

\* The targets after the innermost call has returned its own.
LEMMA ReturnShares ==
  ASSUME NEW R, NEW s \in Seq(R), Len(s) > 1, NEW S, Shares(s, S),
         NEW t \in Seq(R), Len(t) = Len(s) - 1,
         \A i \in 1 .. Len(s) - 2 : t[i] = s[i],
         t[Len(s) - 1].target = s[Len(s) - 1].target (+) s[Len(s)].target
  PROVE  Shares(t, S)
<1> DEFINE n == Len(s)
           m == Len(s) - 1
<1>1. /\ n \in Nat /\ m \in Nat /\ m # n /\ m \in 1 .. m
      /\ DOMAIN s = 1 .. n /\ DOMAIN t = 1 .. m
  OBVIOUS
<1>2. /\ DOMAIN s = DOMAIN t \cup {n} /\ n \notin DOMAIN t /\ m \in DOMAIN t
      /\ \A i \in DOMAIN t : i # m => t[i] = s[i]
  <2>1. 1 .. n = (1 .. m) \cup {n} /\ n \notin 1 .. m
    BY <1>1
  <2>2. \A i \in 1 .. m : i # m => i \in 1 .. Len(s) - 2
    BY <1>1
  <2>3. \A i \in 1 .. m : i # m => t[i] = s[i]
    BY <2>2
  <2> HIDE DEF n, m
  <2> QED BY <1>1, <2>1, <2>3
<1>3. t[m].target = s[m].target (+) s[n].target
  OBVIOUS
<1> HIDE DEF n, m
<1>4. DOMAIN s[m].target \cap DOMAIN s[n].target = {}
  BY <1>1, <1>2 DEF Shares
<1>5. s[m].target = SetToBag(DOMAIN s[m].target) /\ s[n].target = SetToBag(DOMAIN s[n].target)
  BY <1>1, <1>2 DEF Shares
<1>6. t[m].target = SetToBag(DOMAIN s[m].target \cup DOMAIN s[n].target)
  BY <1>3, <1>4, <1>5, DisjointUnion
<1>7. DOMAIN t[m].target = DOMAIN s[m].target \cup DOMAIN s[n].target
  BY <1>6 DEF SetToBag
<1>8. \A i \in DOMAIN t : t[i].target = SetToBag(DOMAIN t[i].target)
  BY <1>2, <1>6, <1>7 DEF Shares
<1>9. \A i, j \in DOMAIN t : i # j => DOMAIN t[i].target \cap DOMAIN t[j].target = {}
  BY <1>1, <1>2, <1>7 DEF Shares
<1>10. S = UNION {DOMAIN t[i].target : i \in DOMAIN t}
  BY <1>1, <1>2, <1>7 DEF Shares
<1> QED BY <1>8, <1>9, <1>10 DEF Shares

LEMMA MergeVisitSearch ==
  ASSUME NEW u \in Paths, IInv, SearchInv, MergeVisit(u) PROVE SearchInv'
<1>1. /\ jobs' = jobs /\ job' = job /\ pc = "merge" /\ pc' = pc /\ u \in Top.left
      /\ u \in DOMAIN jobs /\ stack \in Seq(Frames) /\ Len(stack) >= 1
  BY DEF IInv, RunOK, ControlOK, MergeVisit
<1>2. Visited(u) \in Seq(Frames) /\ Shares(Visited(u), processed)
  BY <1>1, VisitedType, VisitedShares DEF SearchInv, MergeOK
<1>3. OnlyStaleIsBuilt' /\ StaleOK' /\ ModuleIsComplete'
  BY <1>1, ReachUnchanged DEF SearchInv, OnlyStaleIsBuilt, StaleOK, ModuleIsComplete
<1>4. CASE u \in processed /\ stack' = Visited(u) /\ UNCHANGED processed
  <2>1. SearchOK'
    BY <1>1, <1>4, SkipSearch DEF SearchInv
  <2>2. Shares(stack', processed')
    BY <1>2, <1>4
  <2>3. MergeOK'
    BY <2>2 DEF MergeOK, Shares
  <2> QED BY <1>3, <2>1, <2>3 DEF SearchInv
<1>5. CASE /\ u \notin processed
           /\ processed' = processed \cup {u}
           /\ stack' = Append(Visited(u),
                              [left |-> jobs[u].content.uses, target |-> SetToBag({u})])
  <2> DEFINE f == [left |-> jobs[u].content.uses, target |-> SetToBag({u})]
  <2>1. /\ f.left = jobs[u].content.uses /\ f.target = SetToBag({u})
        /\ stack' = Append(Visited(u), f)
    BY <1>5
  <2> HIDE DEF f
  <2>2. SearchOK'
    BY <1>1, <1>5, <2>1, DescendSearch DEF SearchInv
  <2>3. Shares(stack', processed')
    BY <1>2, <1>5, <2>1, AppendShares
  <2>4. MergeOK'
    BY <2>3 DEF MergeOK, Shares
  <2> QED BY <1>3, <2>2, <2>4 DEF SearchInv
<1> QED BY <1>4, <1>5 DEF MergeVisit

LEMMA MergeReturnSearch == ASSUME IInv, SearchInv, MergeReturn PROVE SearchInv'
<1>1. /\ jobs' = jobs /\ job' = job /\ processed' = processed /\ pc = "merge" /\ Top.left = {}
      /\ stack \in Seq(Frames) /\ Len(stack) >= 1 /\ Shares(stack, processed)
  BY DEF IInv, RunOK, ControlOK, SearchInv, MergeOK, MergeReturn
<1>2. CASE /\ Len(stack) > 1
           /\ stack' = [Front(stack) EXCEPT ![Len(stack) - 1].target = @ (+) Top.target]
           /\ UNCHANGED pc
  <2> DEFINE m == Len(stack) - 1
             below == Front(stack)
  <2>1. m \in Nat /\ m >= 1 /\ m \in 1 .. m
    BY <1>1, <1>2
  <2>2. below \in Seq(Frames) /\ Len(below) = m /\ \A i \in 1 .. m : below[i] = stack[i]
    BY <1>1, <1>2, FrontType
  <2>3. LeftIn(below) = Pending
    BY <1>1, <1>2, PendingFront
  <2>4. stack' = [below EXCEPT ![m] = [below[m] EXCEPT !.target = below[m].target (+) Top.target]]
    BY <1>2
  <2> HIDE DEF below
  <2>5. DOMAIN below = 1 .. m /\ below[m] \in Frames
    BY <2>1, <2>2
  <2>6. /\ DOMAIN stack' = 1 .. m /\ \A i \in 1 .. m - 1 : stack'[i] = below[i]
        /\ stack'[m] = [below[m] EXCEPT !.target = below[m].target (+) Top.target]
    BY <2>1, <2>4, <2>5
  <2>7. stack'[m].left = below[m].left /\ stack'[m].target = stack[m].target (+) stack[Len(stack)].target
    BY <2>1, <2>2, <2>5, <2>6 DEF Frames, Top
  <2>8. \A i \in 1 .. m : stack'[i].left = below[i].left
    <3>1. \A i \in 1 .. m : i = m \/ i \in 1 .. m - 1
      BY <2>1
    <3> QED BY <2>6, <2>7, <3>1
  <2>9. LeftIn(stack') = Pending
    BY <2>3, <2>5, <2>6, <2>8 DEF LeftIn
  <2>10. SearchOK'
    BY <1>1, <1>2, <2>9, ReturnSearch DEF SearchInv
  <2>11. IInv'
    BY MergeReturnInv
  <2>12. stack' \in Seq(Frames) /\ Len(stack') = m
    <3>1. Frames' = Frames /\ stack' \in Seq(Frames')
      BY <1>1, <2>11, FramesUnchanged DEF IInv, RunOK
    <3> QED BY <2>1, <2>6, <3>1
  <2>13. \A i \in 1 .. Len(stack) - 2 : stack'[i] = stack[i]
    BY <1>1, <2>1, <2>2, <2>6
  <2>14. Shares(stack', processed)
    BY <1>1, <1>2, <2>7, <2>12, <2>13, ReturnShares
  <2>15. MergeOK'
    BY <1>1, <2>14 DEF MergeOK, Shares
  <2>16. OnlyStaleIsBuilt' /\ StaleOK' /\ ModuleIsComplete'
    BY <1>1, <1>2, ReachUnchanged DEF SearchInv, OnlyStaleIsBuilt, StaleOK, ModuleIsComplete
  <2> QED BY <2>10, <2>15, <2>16 DEF SearchInv
<1>3. CASE Len(stack) = 1 /\ pc' = "build" /\ UNCHANGED stack
  <2>1. Reach(job) = processed
    BY <1>1, <1>3, SearchEnds DEF SearchInv
  <2>2. DOMAIN stack = {1}
    BY <1>1, <1>3
  <2>3. Module = SetToBag(processed)
    <3>1. stack[1].target = SetToBag(DOMAIN stack[1].target)
      BY <1>1, <2>2 DEF Shares
    <3>2. processed = UNION {DOMAIN stack[i].target : i \in DOMAIN stack}
      BY <1>1 DEF Shares
    <3>3. {DOMAIN stack[i].target : i \in DOMAIN stack} = {DOMAIN stack[1].target}
      BY <2>2
    <3>4. UNION {DOMAIN stack[1].target} = DOMAIN stack[1].target
      OBVIOUS
    <3> QED BY <3>1, <3>2, <3>3, <3>4 DEF Module
  <2>4. Module' = Module /\ Reach(job)' = Reach(job)
    BY <1>1, <1>3, ReachUnchanged DEF Module
  <2>5. ModuleIsComplete'
    BY <2>1, <2>3, <2>4 DEF ModuleIsComplete, SetToBag
  <2>6. OnlyStaleIsBuilt'
    BY <1>1, <1>3, ReachUnchanged DEF SearchInv, OnlyStaleIsBuilt
  <2> QED BY <1>3, <2>5, <2>6 DEF SearchInv, SearchOK, StaleOK, MergeOK
<1> QED BY <1>2, <1>3 DEF MergeReturn

-----------------------------------------------------------------------------
(* The other steps. *)

\* A step of a job whose module has been put together.
LEMMA CompileSearch ==
  ASSUME SearchInv, jobs' = jobs, job' = job, pc \in {"build", "open"}, pc' \in {"open", "emit"}
  PROVE  SearchInv'
BY ReachUnchanged DEF SearchInv, SearchOK, StaleOK, OnlyStaleIsBuilt, MergeOK, ModuleIsComplete

\* A step after which no job is in work.
LEMMA QuietSearch ==
  ASSUME pc' \in {"idle", "scan", "create", "next"} PROVE SearchInv'
BY DEF SearchInv, SearchOK, StaleOK, OnlyStaleIsBuilt, MergeOK, ModuleIsComplete

\* A step that leaves the run alone.
LEMMA UnchangedSearch == ASSUME SearchInv, UNCHANGED runVars PROVE SearchInv'
<1>1. jobs' = jobs /\ job' = job /\ pc' = pc /\ processed' = processed /\ stack' = stack
  BY DEF runVars
<1>2. Reach(job)' = Reach(job) /\ (Stale(job)' <=> Stale(job)) /\ Pending' = Pending
  BY <1>1, ReachUnchanged DEF Pending, LeftIn
<1>3. SearchOK' /\ StaleOK' /\ OnlyStaleIsBuilt'
  BY <1>1, <1>2 DEF SearchInv, SearchOK, StaleOK, OnlyStaleIsBuilt, Newer
<1>4. MergeOK'
  BY <1>1 DEF SearchInv, MergeOK, Shares
<1>5. ModuleIsComplete'
  BY <1>1, <1>2 DEF SearchInv, ModuleIsComplete, Module, SetToBag
<1> QED BY <1>3, <1>4, <1>5 DEF SearchInv

LEMMA NextSearch == ASSUME IInv, SearchInv, [Next]_vars PROVE SearchInv'
<1>1. CASE Driver
  <2>1. ASSUME NEW p \in Paths, Analyze(p) \/ NextJob(p) PROVE SearchInv'
    BY <2>1, QuietSearch, NextJobSearch DEF Analyze
  <2>2. ASSUME NEW u \in Paths, StaleVisit(u) \/ MergeVisit(u) \/ MissingUse(u) PROVE SearchInv'
    <3>1. CASE StaleVisit(u)
      BY <3>1, StaleVisitSearch
    <3>2. CASE MergeVisit(u)
      BY <3>2, MergeVisitSearch
    <3>3. CASE MissingUse(u)
      BY <3>3, QuietSearch DEF MissingUse, Exit
    <3> QED BY <2>2, <3>1, <3>2, <3>3
  <2>3. CASE CreateJob \/ BuildFails \/ VerifyFails \/ Emit \/ BuildFailed \/ Link
    BY <2>3, QuietSearch DEF CreateJob, BuildFails, VerifyFails, Emit, BuildFailed, Link, Exit, EndJob
  <2>4. CASE StaleReturn
    BY <2>4, StaleReturnSearch
  <2>5. CASE MergeReturn
    BY <2>5, MergeReturnSearch
  <2>6. CASE Build \/ Open
    BY <2>6, CompileSearch DEF Build, Open
  <2> QED BY <1>1, <2>1, <2>2, <2>3, <2>4, <2>5, <2>6, Zenon DEF Driver
<1>2. CASE User
  <2>1. CASE Start \/ Kill
    BY <2>1, QuietSearch DEF Start, Kill, Exit
  <2>2. ASSUME NEW p \in Paths, Edit(p) \/ Create(p) \/ Delete(p) PROVE UNCHANGED runVars
    BY <2>2 DEF Edit, Create, Delete, Write
  <2>3. ASSUME NEW p \in Paths, Edit(p) \/ Create(p) \/ Delete(p) PROVE SearchInv'
    BY <2>2, <2>3, UnchangedSearch
  <2> QED BY <1>2, <2>1, <2>3, Zenon DEF User
<1>3. CASE UNCHANGED vars
  BY <1>3, UnchangedSearch DEF vars
<1> QED BY <1>1, <1>2, <1>3 DEF Next

LEMMA InitSearch == Init => SearchInv
BY DEF Init, SearchInv, SearchOK, StaleOK, OnlyStaleIsBuilt, MergeOK, ModuleIsComplete

\* When the search has nothing left to visit, the job is not stale.
LEMMA SearchFresh == IInv /\ SearchInv => FreshIsFresh
<1> SUFFICES ASSUME IInv, SearchInv, pc = "stale", Len(stack) = 1, Top.left = {}
             PROVE  ~Stale(job)
  BY DEF FreshIsFresh
<1>1. Reach(job) = processed
  BY SearchEnds DEF SearchInv
<1>2. jobs[job].objectFileTime # 0
  BY DEF IInv, ControlOK
<1> QED BY <1>1, <1>2 DEF Stale, Promise!Stale, SearchInv, StaleOK, Newer, Reach

\* isStale is right when it answers no, for every graph of uses, with cycles,
\* shared files and files that use themselves: no file the job uses, directly
\* or not, is newer than the object (main.cpp:101-156).
THEOREM StalenessCorrect == Spec => []FreshIsFresh
<1>1. IInv /\ [Next]_vars => IInv'
  BY NextInv
<1>2. IInv /\ SearchInv /\ [Next]_vars => SearchInv'
  BY NextSearch
<1>3. IInv /\ SearchInv => FreshIsFresh
  BY SearchFresh
<1> QED BY InitInv, InitSearch, <1>1, <1>2, <1>3, PTL DEF Spec

\* It is right when it answers yes: a job is compiled only if it has no object
\* or some file it uses is newer (main.cpp:116, 274).
THEOREM CompilesOnlyStale == Spec => []OnlyStaleIsBuilt
<1>1. IInv /\ [Next]_vars => IInv'
  BY NextInv
<1>2. IInv /\ SearchInv /\ [Next]_vars => SearchInv'
  BY NextSearch
<1>3. SearchInv => OnlyStaleIsBuilt
  BY DEF SearchInv
<1> QED BY InitInv, InitSearch, <1>1, <1>2, <1>3, PTL DEF Spec

\* processUses is right for the same graphs: a job is compiled from its own
\* module and those of all the files it uses, directly or not, each of them
\* once (main.cpp:158-202).
THEOREM MergeCorrect == Spec => []ModuleIsComplete
<1>1. IInv /\ [Next]_vars => IInv'
  BY NextInv
<1>2. IInv /\ SearchInv /\ [Next]_vars => SearchInv'
  BY NextSearch
<1>3. SearchInv => ModuleIsComplete
  BY DEF SearchInv
<1> QED BY InitInv, InitSearch, <1>1, <1>2, <1>3, PTL DEF Spec

-----------------------------------------------------------------------------
(* What is linked.  While main goes through the jobs, every job with roots *)
(* is still to come, in work or among the objects to link, unless some job *)
(* has failed; and only such jobs are among them.                          *)

Rooted == {p \in DOMAIN jobs : jobs[p].content.roots}

InWork == IF pc = "next" THEN {} ELSE {job}

ListOK ==
  IF pc \in {"idle", "scan", "create"}
  THEN objectFiles = {} /\ (pc = "idle" => DOMAIN jobs = {})
  ELSE /\ success => Rooted \subseteq todo \cup InWork \cup objectFiles
       /\ InWork \cup objectFiles \subseteq Rooted

LEMMA ExitList == Exit => ListOK'
BY MapEmpty DEF Exit, ListOK

\* A step that leaves open which job is in work and what is linked.
LEMMA SameList ==
  ASSUME ListOK, jobs' = jobs, todo' = todo, job' = job, objectFiles' = objectFiles,
         success' = success,
         pc \in {"stale", "merge", "build", "open", "emit"},
         pc' \in {"stale", "merge", "build", "open", "emit"}
  PROVE  ListOK'
BY DEF ListOK, Rooted, InWork

\* The job in work is done, or has failed.
LEMMA EndList ==
  ASSUME ListOK, jobs' = jobs, todo' = todo, EndJob,
         pc \in {"stale", "merge", "build", "open", "emit"},
         \/ objectFiles' = objectFiles \cup {job} /\ success' = success
         \/ objectFiles' = objectFiles /\ success' = FALSE
  PROVE  ListOK'
BY DEF ListOK, Rooted, InWork, EndJob

LEMMA NextJobList == ASSUME IInv, ListOK, NEW p \in Paths, NextJob(p) PROVE ListOK'
<1>1. pc = "next" /\ p \in DOMAIN jobs /\ UNCHANGED <<jobs, objectFiles, success>> /\ todo' = todo \ {p}
  BY DEF IInv, ControlOK, NextJob
<1>2. CASE ~jobs[p].content.roots /\ UNCHANGED <<pc, job, processed, stack>>
  BY <1>1, <1>2 DEF ListOK, Rooted, InWork
<1>3. CASE jobs[p].content.roots /\ pc' \in {"stale", "merge"} /\ job' = p
  BY <1>1, <1>3 DEF ListOK, Rooted, InWork
<1> QED BY <1>2, <1>3 DEF NextJob, BeginMerge

LEMMA UnchangedList == ASSUME ListOK, UNCHANGED runVars PROVE ListOK'
BY DEF runVars, ListOK, Rooted, InWork

LEMMA NextList == ASSUME IInv, ListOK, [Next]_vars PROVE ListOK'
<1>1. CASE Driver
  <2>1. ASSUME NEW p \in Paths, Analyze(p) \/ NextJob(p) PROVE ListOK'
    BY <2>1, NextJobList DEF Analyze, ListOK
  <2>2. ASSUME NEW u \in Paths, StaleVisit(u) \/ MergeVisit(u) \/ MissingUse(u) PROVE ListOK'
    <3>1. CASE StaleVisit(u)
      BY <3>1, SameList DEF StaleVisit, BeginMerge
    <3>2. CASE MergeVisit(u)
      BY <3>2, SameList DEF MergeVisit
    <3>3. CASE MissingUse(u)
      BY <3>3, ExitList DEF MissingUse
    <3> QED BY <2>2, <3>1, <3>2, <3>3
  <2>3. CASE CreateJob
    BY <2>3 DEF CreateJob, ListOK, Rooted, InWork
  <2>4. CASE StaleReturn
    BY <2>4, SameList, EndList DEF StaleReturn
  <2>5. CASE MergeReturn
    BY <2>5, SameList DEF MergeReturn
  <2>6. CASE Build \/ Open
    BY <2>6, SameList DEF Build, Open
  <2>7. CASE BuildFails \/ Emit
    BY <2>7, EndList DEF BuildFails, Emit
  <2>8. CASE VerifyFails \/ BuildFailed \/ Link
    BY <2>8, ExitList DEF VerifyFails, BuildFailed, Link
  <2> QED BY <1>1, <2>1, <2>2, <2>3, <2>4, <2>5, <2>6, <2>7, <2>8, Zenon DEF Driver
<1>2. CASE User
  <2>1. CASE Start
    BY <2>1 DEF Start, ListOK, Rooted, InWork
  <2>2. CASE Kill
    BY <2>2, ExitList DEF Kill
  <2>3. ASSUME NEW p \in Paths, Edit(p) \/ Create(p) \/ Delete(p) PROVE UNCHANGED runVars
    BY <2>3 DEF Edit, Create, Delete, Write
  <2>4. ASSUME NEW p \in Paths, Edit(p) \/ Create(p) \/ Delete(p) PROVE ListOK'
    BY <2>3, <2>4, UnchangedList
  <2> QED BY <1>2, <2>1, <2>2, <2>4, Zenon DEF User
<1>3. CASE UNCHANGED vars
  BY <1>3, UnchangedList DEF vars
<1> QED BY <1>1, <1>2, <1>3 DEF Next

\* The linker is called only when every job with roots was compiled or found
\* up to date, and gets exactly their objects: one failed job keeps it from
\* being called, whatever happens to the others (main.cpp:263-271, 392-401).
THEOREM LinkCorrect == Spec => LinkIsComplete
<1>1. Init => ListOK
  BY MapEmpty DEF Init, ListOK
<1>2. IInv /\ [Next]_vars => IInv'
  BY NextInv
<1>3. IInv /\ ListOK /\ [Next]_vars => ListOK'
  BY NextList
<1>4. IInv /\ ListOK /\ [Next]_vars
        => [Link => objectFiles = {p \in DOMAIN jobs : jobs[p].content.roots}]_vars
  BY DEF Link, ListOK, Rooted, InWork
<1> QED BY InitInv, <1>1, <1>2, <1>3, <1>4, PTL DEF Spec, LinkIsComplete
=============================================================================
