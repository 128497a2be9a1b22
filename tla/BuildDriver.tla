----------------------------- MODULE BuildDriver -----------------------------
(***************************************************************************)
(* The build driver, src/main.cpp: an incremental build.  A run scans the  *)
(* working directory, decides for every source file with roots whether its *)
(* object file is older than any source it uses, directly or not, compiles *)
(* those that are, and links all objects.  Between and during runs a user  *)
(* edits the sources; a run can be killed at any point.                    *)
(*                                                                         *)
(* What a run remembers of earlier runs is in the file system only: the    *)
(* object files and their times.                                           *)
(*                                                                         *)
(* The recursions isStale and processUses are made explicit.  A frame is   *)
(* one running call: the uses its loop has still to visit and, for         *)
(* processUses, the modules collected so far.  The bottom frame is the     *)
(* caller, which has the job itself to visit.                              *)
(***************************************************************************)
EXTENDS Naturals, Sequences, SequencesExt, Bags

CONSTANTS
  Paths,     \* the source files that may exist; p's object is its stem + ".o"
  Contents,  \* what a source may contain: [uses, roots]
  Rewrites,  \* Rewrites[c]: what an edit may make of c
  NoPath,    \* no source file
  MaxClock,  \* bound on the clock of the file system
  MaxEdits   \* bound on the number of edits

ASSUME ContentsAssumption ==
  /\ Contents \subseteq [uses: SUBSET Paths, roots: BOOLEAN]
  /\ Rewrites \in [Contents -> SUBSET Contents]
  /\ NoPath \notin Paths

ASSUME BoundsAssumption == MaxClock \in Nat \ {0} /\ MaxEdits \in Nat

VARIABLES
  dir,          \* the source files that exist
  objects,      \* the object files that exist
  executable,   \* the objects the last link put together
  clock,        \* the time of the file system
  edits,        \* the number of edits so far, which numbers the versions
  pc,           \* where main() is
  jobs,         \* main's map of jobs
  todo,         \* the entries the current loop of main has still to visit
  job,          \* the path the current iteration is about
  processed,    \* the set that isStale and processUses pass around
  stack,        \* their running calls
  objectFiles,  \* what will be linked
  success,      \* what the accumulate will return
  failed,       \* history: jobs whose latest compilation threw, and the versions it read
  killed        \* history: jobs whose object was being written at a kill

fileVars    == <<dir, objects, executable, clock, edits>>
runVars     == <<pc, jobs, todo, job, processed, stack, objectFiles, success>>
historyVars == <<failed, killed>>
vars        == <<fileVars, runVars, historyVars>>

-----------------------------------------------------------------------------
(* Data. *)

Time    == 0 .. MaxClock
Version == 0 .. MaxEdits

(* A source file: its content, which edit wrote it, and when. *)
Source == [content: Contents, version: Version, mtime: Time]

(* What went into an object: the version of a module and when it was read. *)
Origin == [version: Version, readAt: Time]

(* A partial function from paths: what is known of the files there are. *)
IsMap(f, S) == DOMAIN f \subseteq Paths /\ f \in [DOMAIN f -> S]

(* An object file.  It is torn (not whole) from the moment it is opened    *)
(* until its last byte is flushed.                                         *)
IsObject(o) ==
  /\ o = [mtime |-> o.mtime, whole |-> o.whole, from |-> o.from]
  /\ o.mtime \in Time
  /\ o.whole \in BOOLEAN
  /\ IsMap(o.from, Origin)

(* Time zero is file_time_type(), "there is no object": the clock starts at 1. *)
CompilerJob == [content: Contents, version: Version, readAt: Time,
                sourceFileTime: Time, objectFileTime: Time]

(* A running call: the uses to visit and, for processUses, its result. *)
IsFrame(f) ==
  /\ f = [left |-> f.left, target |-> f.target]
  /\ f.left \subseteq Paths
  /\ IsMap(f.target, Nat)

(* The bottom frame: the caller of isStale(job) or processUses(job). *)
Caller(p) == <<[left |-> {p}, target |-> EmptyBag]>>

Top == stack[Len(stack)]

(* Mutant of Visited: the loop does not go on to the next use. *)
VisitedNone(u) == stack

(* stack with its top frame having visited u. *)
Visited(u) == [stack EXCEPT ![Len(stack)].left = @ \ {u}]

(* Mutants of Newer: the time of the job's own source; a source that is no  *)
(* newer than the object.                                                  *)
NewerItself(s) == jobs[job].sourceFileTime > jobs[job].objectFileTime
NewerOrEqual(s) == jobs[s].sourceFileTime >= jobs[job].objectFileTime

(* current.sourceFileTime > job.objectFileTime *)
Newer(s) == jobs[s].sourceFileTime > jobs[job].objectFileTime

(* File times are coarse: two writes can bear the same time. *)
Stamps == {clock, clock + 1} \cap Time

-----------------------------------------------------------------------------
TypeOK ==
  /\ IsMap(dir, Source)
  /\ DOMAIN objects \subseteq Paths /\ \A p \in DOMAIN objects : IsObject(objects[p])
  /\ DOMAIN executable \subseteq Paths /\ \A p \in DOMAIN executable : IsObject(executable[p])
  /\ clock \in Time
  /\ edits \in Version
  /\ pc \in {"idle", "scan", "create", "next", "stale", "merge", "build", "open", "emit"}
  /\ IsMap(jobs, CompilerJob)
  /\ todo \in SUBSET Paths
  /\ job \in Paths \cup {NoPath}
  /\ processed \in SUBSET DOMAIN jobs
  /\ \A i \in DOMAIN stack : IsFrame(stack[i])
  /\ objectFiles \in SUBSET DOMAIN jobs
  /\ success \in BOOLEAN
  /\ DOMAIN failed \subseteq Paths /\ \A p \in DOMAIN failed : IsMap(failed[p], Version)
  /\ killed \in SUBSET Paths

Init ==
  /\ \E S \in SUBSET Paths : \E content \in [S -> Contents] :
       dir = [p \in S |-> [content |-> content[p], version |-> 0, mtime |-> 1]]
  /\ objects = << >>
  /\ executable = << >>
  /\ clock = 1
  /\ edits = 0
  /\ pc = "idle"
  /\ jobs = << >>
  /\ todo = {}
  /\ job = NoPath
  /\ processed = {}
  /\ stack = << >>
  /\ objectFiles = {}
  /\ success = TRUE
  /\ failed = << >>
  /\ killed = {}

-----------------------------------------------------------------------------
(* Scanning (main.cpp:232-261). *)

(* fcc is started. *)
Start ==
  /\ pc = "idle"
  /\ pc' = IF DOMAIN dir = {} THEN "next" ELSE "scan"
  /\ todo' = DOMAIN dir
  /\ UNCHANGED <<fileVars, historyVars, jobs, job, processed, stack, objectFiles, success>>

(* analyze: the content is read. *)
Analyze(p) ==
  /\ pc = "scan"
  /\ p \in todo
  /\ job' = p
  /\ todo' = todo \ {p}
  /\ jobs' = [q \in DOMAIN jobs \cup {p} |->
               IF q = p
               THEN [content |-> dir[p].content, version |-> dir[p].version,
                     readAt |-> clock, sourceFileTime |-> 0, objectFileTime |-> 0]
               ELSE jobs[q]]
  /\ pc' = "create"
  /\ UNCHANGED <<fileVars, historyVars, processed, stack, objectFiles, success>>

(* createJob: the times are read, after the content. *)
CreateJob ==
  /\ pc = "create"
  /\ jobs' = [jobs EXCEPT
       ![job].sourceFileTime = dir[job].mtime,
       ![job].objectFileTime = IF job \in DOMAIN objects THEN objects[job].mtime ELSE 0]
  /\ IF todo = {} THEN pc' = "next" /\ todo' = DOMAIN jobs
                  ELSE pc' = "scan" /\ UNCHANGED todo
  /\ job' = NoPath
  /\ UNCHANGED <<fileVars, historyVars, processed, stack, objectFiles, success>>

-----------------------------------------------------------------------------
(* The accumulate over the jobs (main.cpp:263-399). *)

(* An iteration is over: its locals are gone. *)
EndJob == pc' = "next" /\ job' = NoPath /\ processed' = {} /\ stack' = << >>

(* The process ends, and with it all that is not in the file system. *)
Exit ==
  /\ pc' = "idle"
  /\ jobs' = << >>
  /\ todo' = {}
  /\ processed' = {}
  /\ stack' = << >>
  /\ job' = NoPath
  /\ objectFiles' = {}
  /\ success' = TRUE

(* Mutant of BeginMerge: the set of isStale is used on. *)
BeginMergeShared(p) ==
  /\ pc' = "merge"
  /\ job' = p
  /\ processed' = processed
  /\ stack' = Caller(p)

(* processUses(job, jobs) is called. *)
BeginMerge(p) ==
  /\ pc' = "merge"
  /\ job' = p
  /\ processed' = {}
  /\ stack' = Caller(p)

(* The next job, in the order of the map's buckets.  One without roots is  *)
(* skipped; one without an object is stale.                                *)
NextJob(p) ==
  /\ pc = "next"
  /\ p \in todo
  /\ todo' = todo \ {p}
  /\ \/ ~jobs[p].content.roots /\ UNCHANGED <<pc, job, processed, stack>>
     \/ jobs[p].content.roots /\ jobs[p].objectFileTime = 0 /\ BeginMerge(p)
     \/ /\ jobs[p].content.roots /\ jobs[p].objectFileTime # 0
        /\ pc' = "stale"
        /\ job' = p
        /\ processed' = {}
        /\ stack' = Caller(p)
  /\ UNCHANGED <<fileVars, historyVars, jobs, objectFiles, success>>

(* Mutant of StaleVisit: only the uses of the job itself are looked at. *)
StaleVisitDirect(u) ==
  /\ pc = "stale"
  /\ u \in Top.left
  /\ u \in DOMAIN jobs
  /\ \/ u \in processed /\ stack' = Visited(u) /\ UNCHANGED <<pc, job, processed>>
     \/ u \notin processed /\ Newer(u) /\ BeginMerge(job)
     \/ /\ u \notin processed /\ ~Newer(u)
        /\ processed' = processed \cup {u}
        /\ stack' = Append(Visited(u), [target |-> EmptyBag,
                                        left |-> IF u = job THEN jobs[u].content.uses ELSE {}])
        /\ UNCHANGED <<pc, job>>
  /\ UNCHANGED <<fileVars, historyVars, jobs, todo, objectFiles, success>>

(* isStale visits a use: one that was visited is skipped, a newer one ends *)
(* the search, and otherwise its own uses are next.                        *)
StaleVisit(u) ==
  /\ pc = "stale"
  /\ u \in Top.left
  /\ u \in DOMAIN jobs
  /\ \/ u \in processed /\ stack' = Visited(u) /\ UNCHANGED <<pc, job, processed>>
     \/ u \notin processed /\ Newer(u) /\ BeginMerge(job)
     \/ /\ u \notin processed /\ ~Newer(u)
        /\ processed' = processed \cup {u}
        /\ stack' = Append(Visited(u), [left |-> jobs[u].content.uses, target |-> EmptyBag])
        /\ UNCHANGED <<pc, job>>
  /\ UNCHANGED <<fileVars, historyVars, jobs, todo, objectFiles, success>>

(* A running isStale has visited all its uses.  If it is the outermost the *)
(* object is up to date, and is linked as it is.                           *)
StaleReturn ==
  /\ pc = "stale"
  /\ Top.left = {}
  /\ \/ Len(stack) > 1 /\ stack' = Front(stack) /\ UNCHANGED <<pc, job, processed, objectFiles>>
     \/ Len(stack) = 1 /\ objectFiles' = objectFiles \cup {job} /\ EndJob
  /\ UNCHANGED <<fileVars, historyVars, jobs, todo, success>>

(* Mutant of MissingUse: the use is passed over, after it was recorded. *)
MissingUseIgnored(u) ==
  /\ pc \in {"stale", "merge"}
  /\ u \in Top.left
  /\ u \notin DOMAIN jobs
  /\ processed' = processed \cup {u}
  /\ stack' = Visited(u)
  /\ UNCHANGED <<fileVars, historyVars, pc, jobs, todo, job, objectFiles, success>>

(* isStale or processUses meets a use of a file that is not there, and     *)
(* throws what nothing catches.                                            *)
MissingUse(u) ==
  /\ pc \in {"stale", "merge"}
  /\ u \in Top.left
  /\ u \notin DOMAIN jobs
  /\ Exit
  /\ UNCHANGED <<fileVars, historyVars>>

(* Mutant of MergeVisit: a file that was visited gives its module again. *)
MergeVisitAgain(u) ==
  /\ pc = "merge"
  /\ u \in Top.left
  /\ u \in DOMAIN jobs
  /\ processed' = processed \cup {u}
  /\ stack' = Append(Visited(u),
                     [left |-> IF u \in processed THEN {} ELSE jobs[u].content.uses,
                      target |-> SetToBag({u})])
  /\ UNCHANGED <<fileVars, historyVars, pc, jobs, todo, job, objectFiles, success>>

(* processUses visits a use: one that was visited adds nothing, otherwise  *)
(* the result starts with its own module.                                  *)
MergeVisit(u) ==
  /\ pc = "merge"
  /\ u \in Top.left
  /\ u \in DOMAIN jobs
  /\ \/ u \in processed /\ stack' = Visited(u) /\ UNCHANGED processed
     \/ /\ u \notin processed
        /\ processed' = processed \cup {u}
        /\ stack' = Append(Visited(u),
                           [left |-> jobs[u].content.uses, target |-> SetToBag({u})])
  /\ UNCHANGED <<fileVars, historyVars, pc, jobs, todo, job, objectFiles, success>>

(* A running processUses returns; the caller inserts all it got. *)
MergeReturn ==
  /\ pc = "merge"
  /\ Top.left = {}
  /\ \/ /\ Len(stack) > 1
        /\ stack' = [Front(stack) EXCEPT ![Len(stack) - 1].target = @ (+) Top.target]
        /\ UNCHANGED pc
     \/ Len(stack) = 1 /\ pc' = "build" /\ UNCHANGED stack
  /\ UNCHANGED <<fileVars, historyVars, jobs, todo, job, processed, objectFiles, success>>

(* The modules the job is compiled from. *)
Module == stack[1].target

(* The roots are built and the module is verified. *)
Build ==
  /\ pc = "build"
  /\ pc' = "open"
  /\ failed' = [q \in DOMAIN failed \ {job} |-> failed[q]]
  /\ UNCHANGED <<fileVars, jobs, todo, job, processed, stack, objectFiles, success, killed>>

(* Mutants of BuildFails: the result of the accumulate stays what it was;   *)
(* the object file has been opened before the roots are built.             *)
BuildFailsUnnoticed ==
  /\ pc = "build"
  /\ failed' = [q \in DOMAIN failed \cup {job} |->
                IF q = job THEN [s \in DOMAIN Module |-> jobs[s].version] ELSE failed[q]]
  /\ EndJob
  /\ UNCHANGED <<fileVars, jobs, todo, objectFiles, success, killed>>
BuildFailsOpen ==
  /\ pc = "build"
  /\ success' = FALSE
  /\ failed' = [q \in DOMAIN failed \cup {job} |->
                IF q = job THEN [s \in DOMAIN Module |-> jobs[s].version] ELSE failed[q]]
  /\ objects' = [q \in DOMAIN objects \cup {job} |->
                  IF q = job THEN [mtime |-> clock, whole |-> FALSE, from |-> << >>]
                             ELSE objects[q]]
  /\ EndJob
  /\ UNCHANGED <<dir, executable, clock, edits, jobs, todo, objectFiles, killed>>

(* A CompilerException is caught: the other jobs are still built. *)
BuildFails ==
  /\ pc = "build"
  /\ success' = FALSE
  /\ failed' = [q \in DOMAIN failed \cup {job} |->
                IF q = job THEN [s \in DOMAIN Module |-> jobs[s].version] ELSE failed[q]]
  /\ EndJob
  /\ UNCHANGED <<fileVars, jobs, todo, objectFiles, killed>>

(* verifyModule rejects the module, and the exception is of another type. *)
VerifyFails == pc = "build" /\ Exit /\ UNCHANGED <<fileVars, historyVars>>

(* raw_fd_ostream truncates the object file, or creates it. *)
Open ==
  /\ pc = "open"
  /\ \E t \in Stamps :
       /\ clock' = t
       /\ objects' = [q \in DOMAIN objects \cup {job} |->
                       IF q = job THEN [mtime |-> t, whole |-> FALSE, from |-> << >>]
                                  ELSE objects[q]]
  /\ killed' = killed \ {job}
  /\ pc' = "emit"
  /\ UNCHANGED <<dir, executable, edits, jobs, todo, job, processed, stack, objectFiles,
                 success, failed>>

(* The passes run and the stream is flushed. *)
Emit ==
  /\ pc = "emit"
  /\ \E t \in Stamps :
       /\ clock' = t
       /\ objects' = [objects EXCEPT ![job] =
            [mtime |-> t, whole |-> TRUE,
             from |-> [s \in DOMAIN Module |->
                        [version |-> jobs[s].version, readAt |-> jobs[s].readAt]]]]
  /\ objectFiles' = objectFiles \cup {job}
  /\ EndJob
  /\ UNCHANGED <<dir, executable, edits, jobs, todo, success, historyVars>>

-----------------------------------------------------------------------------
(* The end of main (main.cpp:401-438). *)

BuildFailed ==
  /\ pc = "next"
  /\ todo = {}
  /\ ~success
  /\ Exit
  /\ UNCHANGED <<fileVars, historyVars>>

Link ==
  /\ pc = "next"
  /\ todo = {}
  /\ success
  /\ executable' = [p \in objectFiles |-> objects[p]]
  /\ Exit
  /\ UNCHANGED <<dir, objects, clock, edits, historyVars>>

-----------------------------------------------------------------------------
(* The environment. *)

(* The user rewrites a source.  Files appear and disappear only between runs. *)
Write(p, c) ==
  /\ edits < MaxEdits
  /\ edits' = edits + 1
  /\ \E t \in Stamps :
       /\ clock' = t
       /\ dir' = [q \in DOMAIN dir \cup {p} |->
                   IF q = p THEN [content |-> c, version |-> edits + 1, mtime |-> t]
                            ELSE dir[q]]
  /\ UNCHANGED <<objects, executable, runVars, historyVars>>

Edit(p) == p \in DOMAIN dir /\ \E c \in Rewrites[dir[p].content] : Write(p, c)

Create(p) == pc = "idle" /\ p \notin DOMAIN dir /\ \E c \in Contents : Write(p, c)

Delete(p) ==
  /\ pc = "idle"
  /\ p \in DOMAIN dir
  /\ edits < MaxEdits
  /\ edits' = edits + 1
  /\ dir' = [q \in DOMAIN dir \ {p} |-> dir[q]]
  /\ UNCHANGED <<objects, executable, clock, runVars, historyVars>>

(* The process ends early: a signal, an object file that cannot be written, *)
(* a fatal error of LLVM.                                                   *)
Kill ==
  /\ pc # "idle"
  /\ killed' = IF pc = "emit" THEN killed \cup {job} ELSE killed
  /\ Exit
  /\ UNCHANGED <<fileVars, failed>>

-----------------------------------------------------------------------------
Driver ==
  \/ \E p \in Paths : Analyze(p) \/ NextJob(p)
  \/ \E u \in Paths : StaleVisit(u) \/ MergeVisit(u) \/ MissingUse(u)
  \/ CreateJob \/ StaleReturn \/ MergeReturn
  \/ Build \/ BuildFails \/ VerifyFails \/ Open \/ Emit
  \/ BuildFailed \/ Link

User == Start \/ Kill \/ \E p \in Paths : Edit(p) \/ Create(p) \/ Delete(p)

Next == Driver \/ User

(* The driver is one thread that never waits: it is scheduled as long as it *)
(* can go on.  Nobody has to start it or to edit anything.                  *)
Spec == Init /\ [][Next]_vars /\ WF_vars(Driver)

-----------------------------------------------------------------------------
(* Properties. *)

(* The run as it looks from outside: a job that is being searched for is   *)
(* still to be decided, and only one that is compiled has a module.        *)
Phase ==
  IF pc \in {"scan", "create"} THEN "scan"
  ELSE IF pc \in {"next", "stale", "merge"} THEN "decide"
  ELSE IF pc \in {"build", "open"} THEN "compile"
  ELSE IF pc = "emit" THEN "write"
  ELSE "idle"

Undecided ==
  IF pc \in {"idle", "scan", "create"} THEN {}
  ELSE IF pc \in {"stale", "merge"} THEN todo \cup {job}
  ELSE todo

Compiling == pc \in {"build", "open", "emit"}

Promise == INSTANCE Make WITH
  phase <- Phase, todo <- Undecided, ready <- objectFiles,
  current <- IF Compiling THEN job ELSE NoPath,
  module <- IF Compiling THEN Module ELSE << >>

(* The driver does what it would do if it knew which files a job uses: the *)
(* two searches, with the set of visited files they share, their early end *)
(* and their merging on the way back, amount to one decision per job, made *)
(* from all the files the job uses and from no others, whatever fails in   *)
(* between (main.cpp:101-193, 263-399).                                    *)
ImplementsMake == Promise!Spec

Reach(p) == Promise!Reach(p)

Stale(p) == Promise!Stale(p)

(* When isStale is about to answer no, nothing the job uses is newer than  *)
(* its object, though the search skips what it has met before and follows  *)
(* uses that form cycles (main.cpp:101-140).                               *)
FreshIsFresh ==
  pc = "stale" /\ Len(stack) = 1 /\ Top.left = {} => ~Stale(job)

(* A job is compiled only if it is stale: a source that nothing leads to   *)
(* does not cause work (main.cpp:116, 274).                                *)
OnlyStaleIsBuilt == pc \in {"merge", "build", "open", "emit"} => Stale(job)

(* A job is compiled from the modules of all the files it uses, each once: *)
(* the functions are in a multimap, where a second copy would make every   *)
(* call of them ambiguous (main.cpp:158-193).                              *)
ModuleIsComplete == pc = "build" => Module = SetToBag(Reach(job))

(* What the object of p would be made of if p were compiled in this run. *)
MadeOfTheJobs(p) ==
  /\ DOMAIN objects[p].from = Reach(p)
  /\ \A s \in Reach(p) : objects[p].from[s].version = jobs[s].version

(* Some source of p's object was last edited after it was read and not     *)
(* after the object was written.  The driver compares times only, and      *)
(* takes such an edit for one that was compiled.                           *)
EditedMeanwhile(p) ==
  \E s \in DOMAIN objects[p].from \cap DOMAIN jobs :
    /\ jobs[s].version # objects[p].from[s].version
    /\ jobs[s].sourceFileTime \in objects[p].from[s].readAt .. objects[p].mtime

(* The executable is linked from objects that are what compiling the       *)
(* sources this run read would give, no matter what earlier runs did:      *)
(* which failed, which were killed, and what was edited in between.  The   *)
(* exceptions are edits while fcc was at work and objects a kill tore      *)
(* (main.cpp:116, 274, 396).                                               *)
LinkIsCurrent ==
  [][Link => \A p \in objectFiles \ killed :
               objects[p].whole /\ (MadeOfTheJobs(p) \/ EditedMeanwhile(p))]_vars

(* The linker gets the object of every file with roots, or is not called:  *)
(* neither a job that fails nor one that is up to date changes what        *)
(* happens to the others (main.cpp:392-401).                               *)
LinkIsComplete ==
  [][Link => objectFiles = {p \in DOMAIN jobs : jobs[p].content.roots}]_vars

(* A failed compilation is not forgotten: as long as the sources are the   *)
(* ones it failed on, the object that may exist from before is not linked. *)
(* Nothing but the times in the file system says that it failed            *)
(* (main.cpp:116, 318, 392).                                               *)
FailureIsRemembered ==
  \A p \in objectFiles \cap DOMAIN failed :
    failed[p] # [s \in Reach(p) |-> jobs[s].version]

(* A run comes to an end, whatever the files use (main.cpp:111, 167). *)
RunsEnd == (pc # "idle") ~> (pc = "idle")

=============================================================================
