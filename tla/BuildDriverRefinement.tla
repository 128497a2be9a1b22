------------------------ MODULE BuildDriverRefinement ------------------------
(***************************************************************************)
(* The build driver implements Make: for any number of files and any graph *)
(* of uses, its two searches amount to one decision per job.  The scan is  *)
(* a scan, what a search does before it ends is not seen, its end is the   *)
(* decision, and whatever ends a process early is a Stop.                  *)
(***************************************************************************)
EXTENDS BuildDriverProofs

-----------------------------------------------------------------------------
(* A job that is in work is not on the list any more. *)
TakenOnce == pc \in {"stale", "merge", "build", "open", "emit"} => job \notin todo

LEMMA ExitTaken == Exit => TakenOnce'
BY DEF Exit, TakenOnce

LEMMA SameTaken ==
  ASSUME TakenOnce, todo' = todo, job' = job,
         pc \in {"stale", "merge", "build", "open", "emit"}
  PROVE  TakenOnce'
BY DEF TakenOnce

LEMMA EndTaken == EndJob => TakenOnce'
BY DEF EndJob, TakenOnce

LEMMA NextTaken == ASSUME TakenOnce, [Next]_vars PROVE TakenOnce'
<1>1. CASE Driver
  <2>1. ASSUME NEW p \in Paths, Analyze(p) \/ NextJob(p) PROVE TakenOnce'
    BY <2>1 DEF Analyze, NextJob, BeginMerge, TakenOnce
  <2>2. ASSUME NEW u \in Paths, StaleVisit(u) \/ MergeVisit(u) \/ MissingUse(u)
        PROVE  TakenOnce'
    BY <2>2, SameTaken, ExitTaken DEF StaleVisit, MergeVisit, MissingUse, BeginMerge
  <2>3. CASE CreateJob
    BY <2>3 DEF CreateJob, TakenOnce
  <2>4. CASE StaleReturn \/ MergeReturn \/ Build \/ Open
    BY <2>4, SameTaken, EndTaken DEF StaleReturn, MergeReturn, Build, Open
  <2>5. CASE BuildFails \/ Emit
    BY <2>5, EndTaken DEF BuildFails, Emit
  <2>6. CASE VerifyFails \/ BuildFailed \/ Link
    BY <2>6, ExitTaken DEF VerifyFails, BuildFailed, Link
  <2> QED BY <1>1, <2>1, <2>2, <2>3, <2>4, <2>5, <2>6, Zenon DEF Driver
<1>2. CASE User
  <2>1. CASE Start
    BY <2>1 DEF Start, TakenOnce
  <2>2. CASE Kill
    BY <2>2, ExitTaken DEF Kill
  <2>3. ASSUME NEW p \in Paths, Edit(p) \/ Create(p) \/ Delete(p) PROVE TakenOnce'
    BY <2>3 DEF Edit, Create, Delete, Write, runVars, TakenOnce
  <2> QED BY <1>2, <2>1, <2>2, <2>3, Zenon DEF User
<1>3. CASE UNCHANGED vars
  BY <1>3 DEF vars, runVars, TakenOnce
<1> QED BY <1>1, <1>2, <1>3 DEF Next

-----------------------------------------------------------------------------
(* The steps. *)

MakeStep == [Promise!Next]_(Promise!vars)

\* Steps that are not seen: inside a search, of the user, and of a build
\* that succeeds.
LEMMA Unseen ==
  ASSUME Phase' = Phase, Undecided' = Undecided, Compiling' <=> Compiling,
         Compiling => job' = job /\ stack' = stack,
         UNCHANGED <<jobs, objectFiles, success, objects, executable>>
  PROVE  MakeStep
BY DEF MakeStep, Promise!vars, Promise!run, Module

\* All that ends a process.
LEMMA Stopped ==
  ASSUME Exit, UNCHANGED <<objects, executable>>, pc # "idle", IInv
  PROVE  MakeStep
<1>1. Phase # "idle"
  BY DEF Phase, IInv, RunOK
<1>2. Phase' = "idle" /\ Undecided' = {} /\ ~Compiling'
  BY DEF Exit, Phase, Undecided, Compiling
<1>3. Promise!Idle'
  BY <1>2 DEF Promise!Idle, Exit
<1>4. Promise!Stop
  BY <1>1, <1>3 DEF Promise!Stop
<1> QED BY <1>4 DEF MakeStep, Promise!Next

\* A search that has ended has found all uses, and each of them exists.
LEMMA SearchComplete ==
  ASSUME IInv, SearchInv, pc \in {"stale", "merge"}, Len(stack) = 1, Top.left = {}
  PROVE  Promise!Complete(job)
<1>1. Reach(job) = processed
  BY SearchEnds DEF SearchInv
<1>2. Pending = {}
  <2>1. DOMAIN stack = {1} /\ stack[1].left = {}
    BY DEF IInv, RunOK, Top
  <2> QED BY <2>1 DEF Pending, LeftIn
<1>3. \A s \in processed : jobs[s].content.uses \subseteq DOMAIN jobs
  BY <1>2 DEF SearchInv, SearchOK, IInv, RunOK
<1> QED BY <1>1, <1>3 DEF Promise!Complete, Reach

LEMMA ScanStep ==
  ASSUME IInv, NEW p \in Paths, Analyze(p) \/ CreateJob PROVE MakeStep
<1>1. CASE Analyze(p)
  <2>1. Phase = "scan" /\ Phase' = "scan" /\ Undecided = {} /\ Undecided' = {}
        /\ ~Compiling /\ ~Compiling'
    BY <1>1 DEF Analyze, Phase, Undecided, Compiling
  <2>2. DOMAIN jobs \subseteq DOMAIN jobs'
    BY <1>1 DEF Analyze
  <2>3. Promise!Scan
    BY <1>1, <2>1, <2>2 DEF Promise!Scan, Analyze, fileVars
  <2> QED BY <2>3 DEF MakeStep, Promise!Next
<1>2. CASE CreateJob
  <2>1. Phase = "scan" /\ Undecided = {} /\ ~Compiling /\ ~Compiling'
    BY <1>2 DEF CreateJob, Phase, Undecided, Compiling
  <2>2. DOMAIN jobs' = DOMAIN jobs
    BY <1>2 DEF CreateJob
  <2>3. \/ Phase' = "scan" /\ Undecided' = {}
        \/ Phase' = "decide" /\ Undecided' = DOMAIN jobs'
    BY <1>2, <2>2 DEF CreateJob, Phase, Undecided
  <2>4. Promise!Scan
    BY <1>2, <2>1, <2>2, <2>3 DEF Promise!Scan, CreateJob, fileVars
  <2> QED BY <2>4 DEF MakeStep, Promise!Next
<1> QED BY <1>1, <1>2

LEMMA NextJobStep ==
  ASSUME IInv, NEW p \in Paths, NextJob(p) PROVE MakeStep
<1>1. /\ pc = "next" /\ p \in todo /\ todo' = todo \ {p} /\ p \in DOMAIN jobs
      /\ UNCHANGED <<jobs, objectFiles, success, objects, executable>>
  BY DEF NextJob, fileVars, IInv, ControlOK
<1>2. Phase = "decide" /\ Undecided = todo /\ ~Compiling
  BY <1>1 DEF Phase, Undecided, Compiling
<1>3. CASE ~jobs[p].content.roots /\ UNCHANGED <<pc, job, processed, stack>>
  <2>1. Phase' = "decide" /\ Undecided' = todo' /\ ~Compiling'
    BY <1>1, <1>3 DEF Phase, Undecided, Compiling
  <2>2. jobs[p].content.roots = FALSE
    <3>1. jobs[p].content.roots \in BOOLEAN
      BY <1>1, ContentsAssumption DEF IInv, RunOK, IsMap, CompilerJob
    <3> QED BY <3>1, <1>3
  <2>3. Promise!Skip(p)
    BY <1>1, <1>2, <2>1, <2>2 DEF Promise!Skip, Promise!Decide
  <2> QED BY <2>3 DEF MakeStep, Promise!Next
<1>4. CASE pc' \in {"stale", "merge"} /\ job' = p
  <2>1. Phase' = "decide" /\ Undecided' = todo /\ ~Compiling'
    BY <1>1, <1>4 DEF Phase, Undecided, Compiling
  <2> QED BY <1>1, <1>2, <2>1, Unseen
<1> QED BY <1>3, <1>4 DEF NextJob, BeginMerge

\* Within a search nothing is decided.
LEMMA SearchStep ==
  ASSUME pc \in {"stale", "merge"}, pc' \in {"stale", "merge"},
         UNCHANGED <<fileVars, jobs, todo, job, objectFiles, success>>
  PROVE  MakeStep
<1>1. Phase' = Phase /\ Undecided' = Undecided /\ ~Compiling /\ ~Compiling'
  BY DEF Phase, Undecided, Compiling
<1> QED BY <1>1, Unseen DEF fileVars

LEMMA StaleReturnStep ==
  ASSUME IInv, SearchInv, ListOK, TakenOnce, StaleReturn PROVE MakeStep
<1>1. CASE UNCHANGED <<pc, job, processed, objectFiles>>
  BY <1>1, SearchStep DEF StaleReturn
<1>2. CASE Len(stack) = 1 /\ objectFiles' = objectFiles \cup {job} /\ EndJob
  <2>1. /\ Phase = "decide" /\ Phase' = "decide"
        /\ Undecided = todo \cup {job} /\ Undecided' = todo /\ ~Compiling /\ ~Compiling'
    BY <1>2 DEF StaleReturn, EndJob, Phase, Undecided, Compiling
  <2>2. Undecided' = Undecided \ {job}
    BY <2>1 DEF TakenOnce, StaleReturn
  <2>3. jobs[job].content.roots = TRUE /\ job \in Paths
    <3>1. job \in DOMAIN jobs /\ jobs[job].content.roots
      BY DEF StaleReturn, ListOK, Rooted, InWork
    <3>2. jobs[job].content.roots \in BOOLEAN /\ job \in Paths
      BY <3>1, ContentsAssumption DEF IInv, RunOK, IsMap, CompilerJob
    <3> QED BY <3>1, <3>2
  <2>4. Promise!Complete(job)
    BY <1>2, SearchComplete DEF StaleReturn
  <2>5. ~Promise!Stale(job)
    BY <1>2, SearchFresh DEF FreshIsFresh, StaleReturn, Stale
  <2>6. Promise!Decide(job, TRUE)
    BY <2>1, <2>2, <2>3 DEF Promise!Decide
  <2>7. Promise!Keep(job)
    BY <1>2, <2>1, <2>4, <2>5, <2>6 DEF Promise!Keep, StaleReturn, fileVars
  <2> QED BY <2>3, <2>7 DEF MakeStep, Promise!Next
<1> QED BY <1>1, <1>2 DEF StaleReturn

LEMMA MergeReturnStep ==
  ASSUME IInv, SearchInv, SearchInv', ListOK, TakenOnce, MergeReturn PROVE MakeStep
<1>1. CASE Len(stack) > 1 /\ UNCHANGED pc
  BY <1>1, SearchStep DEF MergeReturn
<1>2. CASE Len(stack) = 1 /\ pc' = "build" /\ UNCHANGED stack
  <2>1. /\ Phase = "decide" /\ Phase' = "compile"
        /\ Undecided = todo \cup {job} /\ Undecided' = todo /\ ~Compiling /\ Compiling'
    BY <1>2 DEF MergeReturn, Phase, Undecided, Compiling
  <2>2. Undecided' = Undecided \ {job}
    BY <2>1 DEF TakenOnce, MergeReturn
  <2>3. jobs[job].content.roots = TRUE /\ job \in Paths
    <3>1. job \in DOMAIN jobs /\ jobs[job].content.roots
      BY DEF MergeReturn, ListOK, Rooted, InWork
    <3>2. jobs[job].content.roots \in BOOLEAN /\ job \in Paths
      BY <3>1, ContentsAssumption DEF IInv, RunOK, IsMap, CompilerJob
    <3> QED BY <3>1, <3>2
  <2>4. Promise!Complete(job)
    BY <1>2, SearchComplete DEF MergeReturn
  <2>5. Promise!Stale(job)
    BY DEF SearchInv, OnlyStaleIsBuilt, MergeReturn, Stale
  <2>6. Module' = [s \in Promise!Reach(job) |-> 1]
    <3>1. jobs' = jobs /\ job' = job
      BY DEF MergeReturn
    <3>2. Module' = SetToBag(Reach(job)')
      BY <1>2 DEF SearchInv, ModuleIsComplete
    <3> QED BY <3>1, <3>2, ReachUnchanged DEF Reach, SetToBag
  <2>7. Promise!Decide(job, TRUE)
    BY <2>1, <2>2, <2>3 DEF Promise!Decide
  <2>8. Promise!Compile(job)
    BY <1>2, <2>1, <2>4, <2>5, <2>6, <2>7 DEF Promise!Compile, MergeReturn, fileVars
  <2> QED BY <2>3, <2>8 DEF MakeStep, Promise!Next
<1> QED BY <1>1, <1>2 DEF MergeReturn

\* The steps of a job that is compiled.
LEMMA CompileStep ==
  ASSUME IInv, Build \/ BuildFails \/ Open \/ Emit PROVE MakeStep
<1>1. CASE Build
  BY <1>1, Unseen DEF Build, Phase, Undecided, Compiling, fileVars
<1>2. CASE BuildFails
  <2>1. /\ Phase = "compile" /\ Phase' = "decide" /\ Undecided = todo /\ Undecided' = todo
        /\ ~Compiling' /\ UNCHANGED <<jobs, objectFiles, objects, executable>> /\ success' = FALSE
    BY <1>2 DEF BuildFails, EndJob, Phase, Undecided, Compiling, fileVars
  <2>2. Promise!Fail
    BY <1>2, <2>1 DEF Promise!Fail, Promise!Decided, BuildFails
  <2> QED BY <2>2 DEF MakeStep, Promise!Next
<1>3. CASE Open
  <2>1. /\ Phase = "compile" /\ Phase' = "write" /\ Undecided = todo /\ Undecided' = todo
        /\ Compiling /\ Compiling' /\ Module' = Module
        /\ UNCHANGED <<jobs, job, objectFiles, success, executable>>
    BY <1>3 DEF Open, Phase, Undecided, Compiling, Module
  <2>2. PICK t \in Stamps :
          objects' = [q \in DOMAIN objects \cup {job} |->
                       IF q = job THEN [mtime |-> t, whole |-> FALSE, from |-> << >>]
                                  ELSE objects[q]]
    BY <1>3 DEF Open
  <2>3. Promise!Put([mtime |-> t, whole |-> FALSE, from |-> << >>])
    BY <2>1, <2>2 DEF Promise!Put
  <2>4. Promise!Open
    BY <2>1, <2>3, StampTime DEF Promise!Open
  <2> QED BY <2>4 DEF MakeStep, Promise!Next
<1>4. CASE Emit
  <2>1. /\ Phase = "write" /\ Phase' = "decide" /\ Undecided = todo /\ Undecided' = todo
        /\ Compiling /\ ~Compiling' /\ UNCHANGED <<jobs, success, executable>>
        /\ objectFiles' = objectFiles \cup {job}
    BY <1>4 DEF Emit, EndJob, Phase, Undecided, Compiling
  <2> DEFINE o(t) == [mtime |-> t, whole |-> TRUE,
                      from |-> [s \in DOMAIN Module |->
                        [version |-> jobs[s].version, readAt |-> jobs[s].readAt]]]
  <2>2. PICK t \in Stamps : objects' = [objects EXCEPT ![job] = o(t)]
    BY <1>4 DEF Emit
  <2>3. job \in DOMAIN objects
    BY <1>4 DEF Emit, IInv, ControlOK
  <2>4. Promise!Put(o(t))
    BY <2>1, <2>2, <2>3 DEF Promise!Put
  <2>5. Promise!Finish
    BY <2>1, <2>4, StampTime DEF Promise!Finish, Promise!Decided
  <2> QED BY <2>5 DEF MakeStep, Promise!Next
<1> QED BY <1>1, <1>2, <1>3, <1>4

LEMMA LinkStep == ASSUME IInv, Link PROVE MakeStep
<1>1. Phase = "decide" /\ Undecided = {} /\ success
  BY DEF Link, Phase, Undecided
<1>2. Phase' = "idle" /\ Undecided' = {} /\ ~Compiling'
  BY DEF Link, Exit, Phase, Undecided, Compiling
<1>3. Promise!Idle'
  BY <1>2 DEF Promise!Idle, Link, Exit
<1>4. Promise!Link
  BY <1>1, <1>3 DEF Promise!Link, Link
<1> QED BY <1>4 DEF MakeStep, Promise!Next

LEMMA StartStep == ASSUME Start PROVE MakeStep
<1>1. /\ Phase = "idle" /\ Phase' \in {"scan", "decide"} /\ Undecided = {} /\ Undecided' = {}
      /\ ~Compiling /\ ~Compiling'
  BY DEF Start, Phase, Undecided, Compiling
<1>2. Promise!Start
  BY <1>1 DEF Promise!Start, Start, fileVars
<1> QED BY <1>2 DEF MakeStep, Promise!Next

\* What the user does is not seen.
LEMMA UserStep == ASSUME UNCHANGED <<runVars, objects, executable>> PROVE MakeStep
BY DEF runVars, MakeStep, Promise!vars, Promise!run, Phase, Undecided, Compiling, Module

LEMMA EveryStep ==
  ASSUME IInv, SearchInv, SearchInv', ListOK, TakenOnce, [Next]_vars PROVE MakeStep
<1>1. CASE Driver
  <2>1. ASSUME NEW p \in Paths, Analyze(p) \/ NextJob(p) PROVE MakeStep
    BY <2>1, ScanStep, NextJobStep
  <2>2. ASSUME NEW u \in Paths, StaleVisit(u) \/ MergeVisit(u) \/ MissingUse(u)
        PROVE  MakeStep
    <3>1. CASE StaleVisit(u)
      BY <3>1, SearchStep DEF StaleVisit, BeginMerge
    <3>2. CASE MergeVisit(u)
      BY <3>2, SearchStep DEF MergeVisit
    <3>3. CASE MissingUse(u)
      BY <3>3, Stopped DEF MissingUse, fileVars
    <3> QED BY <2>2, <3>1, <3>2, <3>3
  <2>3. CASE CreateJob
    <3>1. \E p \in Paths : TRUE
      BY <2>3 DEF CreateJob, IInv, ControlOK, FilesOK, IsMap
    <3> QED BY <2>3, <3>1, ScanStep
  <2>4. CASE VerifyFails \/ BuildFailed
    BY <2>4, Stopped DEF VerifyFails, BuildFailed, fileVars
  <2> QED BY <1>1, <2>1, <2>2, <2>3, <2>4, StaleReturnStep, MergeReturnStep, CompileStep,
             LinkStep, Zenon DEF Driver
<1>2. CASE User
  <2>1. CASE Kill
    BY <2>1, Stopped DEF Kill, fileVars
  <2>2. ASSUME NEW p \in Paths, Edit(p) \/ Create(p) \/ Delete(p) PROVE MakeStep
    BY <2>2, UserStep DEF Edit, Create, Delete, Write
  <2> QED BY <1>2, <2>1, <2>2, StartStep, Zenon DEF User
<1>3. CASE UNCHANGED vars
  BY <1>3, UserStep DEF vars, fileVars
<1> QED BY <1>1, <1>2, <1>3 DEF Next

\* The driver implements Make: every run of it is one in which each job is
\* kept or compiled in one step, by what the files it uses are, directly or
\* not, and from exactly those (main.cpp:101-193, 263-401).
THEOREM Refinement == Spec => ImplementsMake
<1>1. Init => Promise!Init
  <2>1. ASSUME Init PROVE Phase = "idle" /\ Undecided = {} /\ ~Compiling
    BY <2>1 DEF Init, Phase, Undecided, Compiling
  <2> QED BY <2>1 DEF Promise!Init, Promise!Idle, Init
<1>2. Init => ListOK /\ TakenOnce
  BY MapEmpty DEF Init, ListOK, TakenOnce
<1>3. IInv /\ [Next]_vars => IInv'
  BY NextInv
<1>4. IInv /\ SearchInv /\ [Next]_vars => SearchInv'
  BY NextSearch
<1>5. IInv /\ ListOK /\ [Next]_vars => ListOK'
  BY NextList
<1>6. TakenOnce /\ [Next]_vars => TakenOnce'
  BY NextTaken
<1>7. IInv /\ SearchInv /\ SearchInv' /\ ListOK /\ TakenOnce /\ [Next]_vars
        => [Promise!Next]_(Promise!vars)
  BY EveryStep DEF MakeStep
<1> QED
  BY InitInv, InitSearch, <1>1, <1>2, <1>3, <1>4, <1>5, <1>6, <1>7, PTL
  DEF Spec, ImplementsMake, Promise!Spec
=============================================================================
