-------------------------------- MODULE Make --------------------------------
(***************************************************************************)
(* What the build driver promises, without how it finds out: every program *)
(* is dealt with in one step, kept if its object is not older than what it *)
(* uses and compiled otherwise, from the modules of exactly those files.   *)
(* The scan and the searches are not seen, and neither is the clock.       *)
(***************************************************************************)
EXTENDS Naturals

CONSTANTS
  Paths,    \* the source files that may exist
  NoPath,   \* no source file
  Time      \* the times of files

VARIABLES
  phase,       \* where a run is
  jobs,        \* the files it has found
  todo,        \* those it has still to decide about
  current,     \* the one it compiles
  module,      \* the bag of modules it compiles it from
  ready,       \* the objects to link
  success,     \* whether nothing has failed
  objects,     \* the object files
  executable   \* the objects the last link put together

run  == <<phase, jobs, todo, current, module, ready, success>>
vars == <<run, objects, executable>>

-----------------------------------------------------------------------------
(* The sources a set contains all uses of. *)
Closed(S) == \A s \in S : jobs[s].content.uses \cap DOMAIN jobs \subseteq S

(* What p uses, directly or not, and p: the least closed set with p. *)
Reach(p) == {s \in DOMAIN jobs : \A S \in SUBSET DOMAIN jobs : p \in S /\ Closed(S) => s \in S}

Stale(p) ==
  \/ jobs[p].objectFileTime = 0
  \/ \E s \in Reach(p) : jobs[s].sourceFileTime > jobs[p].objectFileTime

(* All that p uses is there. *)
Complete(p) == \A s \in Reach(p) : jobs[s].content.uses \subseteq DOMAIN jobs

-----------------------------------------------------------------------------
Idle ==
  /\ phase = "idle"
  /\ jobs = << >> /\ todo = {} /\ current = NoPath /\ module = << >>
  /\ ready = {} /\ success = TRUE

Init == Idle /\ objects = << >> /\ executable = << >>

Start ==
  /\ phase = "idle"
  /\ phase' \in {"scan", "decide"}
  /\ UNCHANGED <<jobs, todo, current, module, ready, success, objects, executable>>

(* More of the directory is known; then all there is has to be decided. *)
Scan ==
  /\ phase = "scan"
  /\ DOMAIN jobs \subseteq DOMAIN jobs'
  /\ \/ phase' = "scan" /\ UNCHANGED todo
     \/ phase' = "decide" /\ todo' = DOMAIN jobs'
  /\ UNCHANGED <<current, module, ready, success, objects, executable>>

(* p, a file with roots or without, is decided about. *)
Decide(p, roots) ==
  /\ phase = "decide" /\ p \in todo
  /\ todo' = todo \ {p}
  /\ jobs[p].content.roots = roots

(* A file without roots is of use to others only. *)
Skip(p) ==
  /\ Decide(p, FALSE)
  /\ UNCHANGED <<phase, jobs, current, module, ready, success, objects, executable>>

(* The object is up to date with everything p uses. *)
Keep(p) ==
  /\ Decide(p, TRUE)
  /\ ready' = ready \cup {p}
  /\ UNCHANGED <<phase, jobs, current, module, success, objects, executable>>
  /\ Complete(p) /\ ~Stale(p)

(* It is not, and p is compiled from every file it uses, each once. *)
Compile(p) ==
  /\ Decide(p, TRUE)
  /\ phase' = "compile"
  /\ current' = p
  /\ UNCHANGED <<jobs, ready, success, objects, executable>>
  /\ Complete(p) /\ Stale(p)
  /\ module' = [s \in Reach(p) |-> 1]

Decided == phase' = "decide" /\ current' = NoPath /\ module' = << >>

Fail ==
  /\ phase = "compile"
  /\ Decided
  /\ success' = FALSE
  /\ UNCHANGED <<jobs, todo, ready, objects, executable>>

(* The object in the file system becomes o. *)
Put(o) ==
  objects' = [q \in DOMAIN objects \cup {current} |-> IF q = current THEN o ELSE objects[q]]

Open ==
  /\ phase = "compile"
  /\ phase' = "write"
  /\ \E t \in Time : Put([mtime |-> t, whole |-> FALSE, from |-> << >>])
  /\ UNCHANGED <<jobs, todo, current, module, ready, success, executable>>

Finish ==
  /\ phase = "write"
  /\ Decided
  /\ \E t \in Time :
       Put([mtime |-> t, whole |-> TRUE,
            from |-> [s \in DOMAIN module |->
                       [version |-> jobs[s].version, readAt |-> jobs[s].readAt]]])
  /\ ready' = ready \cup {current}
  /\ UNCHANGED <<jobs, todo, success, executable>>

(* A run that ends leaves nothing but files. *)
Link ==
  /\ phase = "decide" /\ todo = {} /\ success
  /\ executable' = [p \in ready |-> objects[p]]
  /\ Idle'
  /\ UNCHANGED objects

Stop == phase # "idle" /\ Idle' /\ UNCHANGED <<objects, executable>>

Next ==
  \/ Start \/ Scan
  \/ \E p \in Paths : Skip(p) \/ Keep(p) \/ Compile(p)
  \/ Fail \/ Open \/ Finish
  \/ Link \/ Stop

Spec == Init /\ [][Next]_vars
=============================================================================
