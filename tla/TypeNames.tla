----------------------------- MODULE TypeNames -----------------------------
(***************************************************************************)
(* How a name that is written in a program finds a type.  A name is the    *)
(* sequence of its segments, "Foo::Bar" is <<"Foo", "Bar">>; an absolute   *)
(* one ("::Bar") has an empty first segment.                               *)
(***************************************************************************)
EXTENDS SequencesExt, FiniteSetsExt

(* What a name written inside of the namespaces can stand for, the nearest *)
(* first: only the innermost namespace and the outermost are looked into.  *)
QualifiedNames(namespaces, name) ==
  IF name[1] = "" THEN <<Tail(name)>>
  ELSE <<namespaces \o name, name>>

(* The declarations of a program, in the order they are written in, become *)
(* a table from full names to declarations.  The first one of a name wins. *)
FullName(d) == QualifiedNames(d.namespaces, <<d.tag>>)[1]

TypeTable(declarations) ==
  [name \in {FullName(declarations[i]) : i \in DOMAIN declarations} |->
    declarations[Min({i \in DOMAIN declarations : FullName(declarations[i]) = name})]]

Builtin ==
  {<<name>> : name \in {"int", "long", "uint", "byte", "bool", "string", "void",
                        "without", "any", "..."}}

UnknownType == << >>

(* Mutant of ResolveType: the outermost namespace goes first. *)
ResolveTypeOutermost(table, names) ==
  LET known == {i \in DOMAIN names : names[i] \in Builtin \cup DOMAIN table}
  IN  IF known = {} THEN UnknownType ELSE names[Max(known)]

(* The first of the names that is one of a type. *)
ResolveType(table, names) ==
  LET known == {i \in DOMAIN names : names[i] \in Builtin \cup DOMAIN table}
  IN  IF known = {} THEN UnknownType ELSE names[Min(known)]
=============================================================================
