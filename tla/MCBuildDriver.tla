---------------------------- MODULE MCBuildDriver ----------------------------
(***************************************************************************)
(* Directories for the runs of BuildDriver.                                *)
(***************************************************************************)
EXTENDS BuildDriver, TLC

CONSTANTS main, lib, other

(* A program with a use, and a library without: either file is one of      *)
(* them, and becomes the other or stays what it is when it is edited.      *)
TwoFiles == {main, lib}
TwoContents ==
  {[uses |-> {lib}, roots |-> TRUE], [uses |-> {}, roots |-> FALSE]}
ToAnything == [x \in TwoContents |-> TwoContents]

(* Two files that use each other or themselves.                            *)
CyclicContents == [uses: {{main}, {lib}}, roots: BOOLEAN]
ToAnyCycle == [x \in CyclicContents |-> CyclicContents]

(* Three files: programs that use one file, and libraries that use any     *)
(* files, in every combination, with cycles and missing files.  An edit    *)
(* leaves uses and roots as they are.                                      *)
ThreeFiles == {main, lib, other}
ThreeContents ==
  [uses: {{p} : p \in ThreeFiles}, roots: {TRUE}] \cup [uses: SUBSET ThreeFiles, roots: {FALSE}]
ToItself == [x \in ThreeContents |-> {x}]

Symmetry == Permutations(ThreeFiles)

(* At first one of the files is a program. *)
OneProgram ==
  /\ Init
  /\ \E p \in DOMAIN dir : {q \in DOMAIN dir : dir[q].content.roots} = {p}

OneProgramSpec == OneProgram /\ [][Next]_vars /\ WF_vars(Driver)
=============================================================================
