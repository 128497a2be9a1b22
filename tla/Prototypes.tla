----------------------------- MODULE Prototypes -----------------------------
(***************************************************************************)
(* Structures and their base types: which fields a prototype has, and how  *)
(* well a structure fits a parameter.  A program declares its structures   *)
(* in some order, each with the namespaces it is in; base types are        *)
(* written names.  Hierarchies are acyclic, and every base type is a       *)
(* structure of the program.                                               *)
(***************************************************************************)
EXTENDS Integers, TypeNames

CONSTANTS
  FieldName,  \* the names of fields
  Scalar,     \* the scalar values: [type, value]
  NoDefault,  \* a field that is declared without a default
  NoType      \* and one that is declared without a type

ASSUME ScalarAssumption ==
  /\ \A s \in Scalar : s = [type |-> s.type, value |-> s.value]
  /\ NoDefault \notin Scalar
  /\ NoType \notin {s.type : s \in Scalar}

FieldEmbryo ==
  [name: FieldName, default: Scalar \cup {NoDefault},
   type: {s.type : s \in Scalar} \cup {NoType}]

Declaration ==
  [namespaces: Seq(STRING), tag: STRING \ {""}, fields: Seq(FieldEmbryo),
   parents: Seq(Seq(STRING))]

(* The types the base types of p are resolved to, where p is declared. *)
Parents(table, p) ==
  [i \in DOMAIN table[p].parents |->
    ResolveType(table, QualifiedNames(table[p].namespaces, table[p].parents[i]))]

(* No structure is a base type of itself, directly or through others.      *)
Acyclic(table) ==
  \E height \in [DOMAIN table -> 0 .. Cardinality(DOMAIN table)] :
    \A p \in DOMAIN table : \A q \in Range(Parents(table, p)) : height[q] < height[p]

(* The fields of all prototypes: their own, then those of their parents,   *)
(* as often as the parents have them.                                      *)
Fields(table) ==
  LET fields[p \in DOMAIN table] ==
        table[p].fields \o
        FlattenSeq([i \in DOMAIN table[p].parents |-> fields[Parents(table, p)[i]]])
  IN  fields

(* Mutant of Better: the first base type that matches decides. *)
BetterFirst(found, other) == IF found.match THEN found ELSE other

(* Two branches of the search: a match is better than none, and of two     *)
(* matches the nearer one.  If neither matches the later score remains.    *)
Better(found, other) ==
  IF ~found.match THEN other
  ELSE IF ~other.match \/ found.score <= other.score THEN found ELSE other

(* What the search comes to over the branches, from the first to the last. *)
Nearest(branches) ==
  LET upTo[i \in 0 .. Len(branches)] ==
        IF i = 0 THEN [match |-> FALSE, score |-> 0] ELSE Better(upTo[i - 1], branches[i])
  IN  upTo[Len(branches)]

(* The search for a type of that name among p and its base types.  Only    *)
(* the last segment of a name is compared.  A score counts the steps to    *)
(* where the search ended.                                                 *)
Search(table, name) ==
  LET search[p \in DOMAIN table] ==
        IF table[p].tag = name THEN [match |-> TRUE, score |-> 0]
        ELSE Nearest([i \in DOMAIN table[p].parents |->
                        LET up == search[Parents(table, p)[i]]
                        IN  [match |-> up.match, score |-> up.score + 1]])
  IN  search

(* Type::name. *)
NameOf(table, type) == IF type \in DOMAIN table THEN table[type].tag ELSE Last(type)

(* How well the prototype p fits a parameter of that type.  One that is    *)
(* not among the base types fits "any", a step further than where the      *)
(* search ended.                                                           *)
PrototypeCompatibility(table, p, type) ==
  LET found == Search(table, NameOf(table, type))[p] IN
  IF found.match THEN found.score + 1
  ELSE IF type = <<"any">> THEN found.score + 2
  ELSE -1

(* Mutant of UserTypeCompatibility: the elements there are are compared.   *)
UserTypeCompatibilityPrefix(table, type, other) ==
  IF IsPrefix(type.elements, other.elements) THEN 0
  ELSE PrototypeCompatibility(table, type.prototype, other.prototype)

(* How well a value fits the storage of another value.  A type is here a   *)
(* prototype and the types its fields have at the moment.  Types of        *)
(* scalars fit if they are the same; if all do, the prototypes are not     *)
(* asked.                                                                  *)
UserTypeCompatibility(table, type, other) ==
  IF Len(type.elements) # Len(other.elements) THEN -1
  ELSE IF type.elements = other.elements THEN 0
  ELSE PrototypeCompatibility(table, type.prototype, other.prototype)

(* An overload is where it is declared and the type of its parameter.      *)
ParameterType(table, o) ==
  ResolveType(table, QualifiedNames(o.namespaces, o.type))

Score(table, p, o) == PrototypeCompatibility(table, p, ParameterType(table, o))

(* The candidates for an argument of prototype p, and the callee: the one  *)
(* that fits best, unless two fit equally well.                            *)
Viable(table, overloads, p) == {o \in overloads : Score(table, p, o) >= 0}

OfKnownType(table, overloads) ==
  {o \in overloads : ParameterType(table, o) # UnknownType}

(* What a lookup may throw: nothing if it succeeds.  The overloads are     *)
(* tried one by one, in the order of the program; the first one of an      *)
(* unknown type, or with the score of an earlier one, ends it.             *)
ResolutionErrors(table, overloads, p) ==
  LET known == OfKnownType(table, overloads)
      viable == Viable(table, known, p)
  IN  {e \in {"UnknownTypeException", "AmbiguousFunctionException",
              "FunctionNotFoundException"} :
        CASE e = "UnknownTypeException" -> known # overloads
          [] e = "AmbiguousFunctionException" ->
               \E o, q \in viable : o # q /\ Score(table, p, o) = Score(table, p, q)
          [] e = "FunctionNotFoundException" -> known = overloads /\ viable = {}}

Resolve(table, overloads, p) ==
  CHOOSE o \in Viable(table, overloads, p) :
    \A q \in Viable(table, overloads, p) : Score(table, p, o) <= Score(table, p, q)
=============================================================================
