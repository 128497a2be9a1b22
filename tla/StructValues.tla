---------------------------- MODULE StructValues ----------------------------
(***************************************************************************)
(* Structures at work: instantiation, `with', and calls that take a        *)
(* structure.  The compiled program is followed as it runs, since what a   *)
(* node emits is one load or store after the other: memory is what the     *)
(* allocas hold.  A structure is a list of named cells, and the same cell  *)
(* can be part of several structures.                                      *)
(*                                                                         *)
(* The program consists of one function per level, with the overloads of   *)
(* Overloads[program].  An invocation makes structures, binds them, passes *)
(* them to the function of the next level, calls its own function again as *)
(* the last thing it does, or returns.                                     *)
(***************************************************************************)
EXTENDS Prototypes

CONSTANTS
  Program,    \* the programs
  Declarations, \* the structures each declares: [Program -> Seq(Declaration)]
  Overloads,  \* the function of each level: [Program -> sets of overloads]
  Written,    \* the names of types its instantiations use
  Assignments, \* the values an instantiation can be given, by field
  MaxCells,   \* bound on the allocas of one execution
  MaxLocals,  \* bound on the structures an invocation binds
  MaxLevel    \* bound on the levels

ASSUME AssignmentAssumption ==
  \A given \in Assignments : DOMAIN given \subseteq FieldName /\ Range(given) \subseteq Scalar

VARIABLES
  program,  \* the program that runs
  memory,   \* the contents of the allocas
  frames,   \* the running invocations: the overload, its argument, its locals
  error     \* the exception that ended the compilation

vars == <<program, memory, frames, error>>

-----------------------------------------------------------------------------
TypeTables == [p \in Program |-> TypeTable(Declarations[p])]
Structs == TypeTables[program]

FieldTables == [p \in Program |-> Fields(TypeTables[p])]
FieldsOf(tag) == FieldTables[program][tag]

Main == [namespaces |-> << >>, type |-> << >>]

(* Base types are structures, and what is instantiated is one if there is  *)
(* a type of that name: the code casts them unchecked.                     *)
ASSUME ProgramAssumption ==
  \A p \in Program :
    LET table == TypeTable(Declarations[p]) IN
    /\ Declarations[p] \in Seq(Declaration)
    /\ Overloads[p] \subseteq [namespaces: Seq(STRING), type: Seq(STRING)]
    /\ Written[p] \subseteq Seq(STRING)
    /\ \A q \in DOMAIN table : Range(Parents(table, q)) \subseteq DOMAIN table
    /\ Acyclic(table)
    /\ \A o \in Overloads[p] \cup {Main}, written \in Written[p] :
         ResolveType(table, QualifiedNames(o.namespaces, written))
           \in DOMAIN table \cup {UnknownType}

NamedCell == [name: FieldName, cell: DOMAIN memory]

StructValue == [prototype: DOMAIN Structs, fields: Seq(NamedCell)]

NoStruct == [prototype |-> << >>, fields |-> << >>]

Frame == [overload: Overloads[program] \cup {Main},
          argument: StructValue \cup {NoStruct},
          locals: SUBSET StructValue]

Current == frames[Len(frames)]

(* What an invocation can name. *)
Known(frame) == (frame.locals \cup {frame.argument}) \ {NoStruct}

Cells(v) == {v.fields[i].cell : i \in DOMAIN v.fields}

TypeOf(v) ==
  [prototype |-> v.prototype,
   elements |-> [i \in DOMAIN v.fields |-> memory[v.fields[i].cell].type]]

Names(fields) == {fields[i].name : i \in DOMAIN fields}

(* The members of an argument are bound in order: of two fields with one   *)
(* name the last can be read.                                              *)
Member(v, name) ==
  LET found == {i \in DOMAIN v.fields : v.fields[i].name = name}
  IN  v.fields[CHOOSE i \in found : \A j \in found : j <= i].cell

-----------------------------------------------------------------------------
TypeOK ==
  /\ program \in Program
  /\ memory \in Seq(Scalar)
  /\ frames \in Seq(Frame)
  /\ error \in {"none", "MissingDefaultValueException", "MissingFieldException",
                "FunctionNotFoundException", "AmbiguousFunctionException",
                "UnknownTypeException", "Crash"}

Init ==
  /\ program \in Program
  /\ memory = << >>
  /\ frames = <<[overload |-> Main, argument |-> NoStruct, locals |-> {}]>>
  /\ error = "none"

Running == error = "none" /\ frames # << >>

Throw(exception) == error' = exception /\ UNCHANGED <<program, memory, frames>>

Bind(stack, v) ==
  LET locals == stack[Len(stack)].locals \cup {v} IN
  /\ Cardinality(locals) <= MaxLocals
  /\ frames' = [stack EXCEPT ![Len(stack)].locals = locals]

-----------------------------------------------------------------------------
(* InstantiationNode. *)

(* The field at i takes the assigned value: the first of its name does.    *)
Takes(fields, given, i) ==
  fields[i].name \in DOMAIN given /\ \A j \in 1 .. i - 1 : fields[j].name # fields[i].name

Initial(fields, given, i) ==
  IF Takes(fields, given, i) THEN given[fields[i].name] ELSE fields[i].default

(* Mutant of InstantiationError: values that no field takes are dropped.   *)
InstantiationErrorLenient(fields, given) ==
  IF \E i \in DOMAIN fields : ~Takes(fields, given, i) /\ fields[i].default = NoDefault
  THEN "MissingDefaultValueException" ELSE "none"

InstantiationError(fields, given) ==
  IF \E i \in DOMAIN fields : ~Takes(fields, given, i) /\ fields[i].default = NoDefault
  THEN "MissingDefaultValueException"
  ELSE IF \E name \in DOMAIN given : name \notin Names(fields)
  THEN "MissingFieldException"
  ELSE "none"

(* What a name of a type stands for in a function. *)
TypesNamed ==
  [p \in Program |->
    [o \in Overloads[p] \cup {Main} |->
      [written \in Written[p] |->
        ResolveType(TypeTables[p], QualifiedNames(o.namespaces, written))]]]
TypeNamed(written) == TypesNamed[program][Current.overload][written]

(* The exception an instantiation is rejected with. *)
Rejection(written, given) ==
  LET type == TypeNamed(written) IN
  IF type = UnknownType THEN "UnknownTypeException"
  ELSE InstantiationError(FieldsOf(type), given)

(* type { name: value, ... }: every field is stored in an alloca of its    *)
(* own.                                                                    *)
Instantiate(written, given) ==
  LET type == TypeNamed(written)
      fields == FieldsOf(type)
  IN
  /\ Running
  /\ \/ Rejection(written, given) # "none" /\ Throw(Rejection(written, given))
     \/ /\ Rejection(written, given) = "none"
        /\ Len(memory) + Len(fields) <= MaxCells
        /\ memory' = memory \o [i \in DOMAIN fields |-> Initial(fields, given, i)]
        /\ Bind(frames, [prototype |-> type,
                 fields |-> [i \in DOMAIN fields |->
                              [name |-> fields[i].name, cell |-> Len(memory) + i]]])
        /\ UNCHANGED <<program, error>>

(* Mutant of KeepsCell: any value is stored in the alloca there is.        *)
KeepsCellAlways(v, given, i) == TRUE

(* The field keeps its alloca unless it takes a value of another type.     *)
KeepsCell(v, given, i) ==
  Takes(v.fields, given, i) =>
    given[v.fields[i].name].type = memory[v.fields[i].cell].type

(* v with { name: value, ... }: a value of the type the field has is       *)
(* stored in the field of v itself, which the new structure shares; one of *)
(* another type gets an alloca of its own.                                 *)
With(v, given) ==
  LET moved == {i \in DOMAIN v.fields : ~KeepsCell(v, given, i)}
      stored == {i \in DOMAIN v.fields : Takes(v.fields, given, i) /\ KeepsCell(v, given, i)}
      fresh(i) == Len(memory) + Cardinality({j \in moved : j <= i})
  IN
  /\ Running
  /\ v \in Known(Current)
  /\ \/ DOMAIN given \ Names(v.fields) # {} /\ Throw("MissingFieldException")
     \/ /\ DOMAIN given \subseteq Names(v.fields)
        /\ Len(memory) + Cardinality(moved) <= MaxCells
        /\ memory' =
             [c \in 1 .. Len(memory) + Cardinality(moved) |->
               IF c > Len(memory)
               THEN given[v.fields[CHOOSE i \in moved : fresh(i) = c].name]
               ELSE IF \E i \in stored : v.fields[i].cell = c
               THEN given[v.fields[CHOOSE i \in stored : v.fields[i].cell = c].name]
               ELSE memory[c]]
        /\ Bind(frames, [v EXCEPT !.fields =
                  [i \in DOMAIN v.fields |->
                    IF i \in moved THEN [v.fields[i] EXCEPT !.cell = fresh(i)]
                                   ELSE v.fields[i]]])
        /\ UNCHANGED <<program, error>>

-----------------------------------------------------------------------------
(* Calls. *)

(* Mutant of Copy: a structure is passed as it is. *)
CopyShallow(v) == v

(* ReferenceSinkNode: the argument is a copy in allocas of its own. *)
Copy(v) ==
  [v EXCEPT !.fields =
    [i \in DOMAIN v.fields |-> [v.fields[i] EXCEPT !.cell = Len(memory) + i]]]

(* Mutant of Copied: nothing is stored in the new allocas. *)
CopiedUninitialized(v) == memory

Copied(v) == memory \o [i \in DOMAIN v.fields |-> memory[v.fields[i].cell]]

Invocation(v) ==
  [overload |-> Resolve(Structs, Overloads[program], v.prototype),
   argument |-> Copy(v), locals |-> {}]

Resolutions ==
  [p \in Program |->
    [q \in DOMAIN TypeTables[p] |-> ResolutionErrors(TypeTables[p], Overloads[p], q)]]
Resolution(v) == Resolutions[program][v.prototype]

(* The function of the next level is called. *)
Call(v) ==
  /\ Running
  /\ v \in Known(Current)
  /\ Len(frames) < MaxLevel
  /\ \/ \E exception \in Resolution(v) : Throw(exception)
     \/ /\ Resolution(v) = {}
        /\ Len(memory) + Len(v.fields) <= MaxCells
        /\ memory' = Copied(v)
        /\ frames' = Append(frames, Invocation(v))
        /\ UNCHANGED <<program, error>>

(* The running invocation fits the argument: the call becomes a jump. *)
Fits(v) ==
  /\ Current.argument # NoStruct
  /\ UserTypeCompatibility(Structs, TypeOf(v), TypeOf(Current.argument)) = 0

(* return f(v), where f is the running function: the argument is moved to  *)
(* where the running invocation has its own, field by field.               *)
Jump(v) ==
  /\ Running
  /\ Len(frames) > 1
  /\ v \in Known(Current)
  /\ Fits(v)
  /\ memory' =
       [c \in DOMAIN memory |->
         IF \E i \in DOMAIN v.fields : Current.argument.fields[i].cell = c
         THEN memory[v.fields[CHOOSE i \in DOMAIN v.fields :
                                Current.argument.fields[i].cell = c].cell]
         ELSE memory[c]]
  /\ frames' = [frames EXCEPT ![Len(frames)].locals = {}]
  /\ UNCHANGED <<program, error>>

(* The same where it does not fit: the overload is built in place of the   *)
(* call, and what it returns is returned.                                  *)
TailCall(v) ==
  /\ Running
  /\ Len(frames) > 1
  /\ v \in Known(Current)
  /\ ~Fits(v)
  /\ \/ \E exception \in Resolution(v) : Throw(exception)
     \/ /\ Resolution(v) = {}
        /\ Len(memory) + Len(v.fields) <= MaxCells
        /\ memory' = Copied(v)
        /\ frames' = [frames EXCEPT ![Len(frames)] = Invocation(v)]
        /\ UNCHANGED <<program, error>>

(* A structure is returned as it is, and bound by the caller. *)
Return(v) ==
  /\ Running
  /\ Len(frames) > 1
  /\ v \in Known(Current)
  /\ Bind(Front(frames), v)
  /\ UNCHANGED <<program, memory, error>>

(* main returns. *)
End == Running /\ Len(frames) = 1 /\ frames' = << >> /\ UNCHANGED <<program, memory, error>>

Stopped == ~Running /\ UNCHANGED vars

Next ==
  \/ \E given \in Assignments :
       \/ \E written \in Written[program] : Instantiate(written, given)
       \/ Running /\ \E v \in Known(Current) : With(v, given)
  \/ Running /\ \E v \in Known(Current) : Call(v) \/ Jump(v) \/ TailCall(v) \/ Return(v)
  \/ End
  \/ Stopped

Spec == Init /\ [][Next]_vars

-----------------------------------------------------------------------------
(* Properties. *)

(* The declaration of a field that is nearest to the structure. *)
DefaultOf(tag, name) ==
  LET fields == FieldsOf(tag)
      found == {i \in DOMAIN fields : fields[i].name = name}
  IN  fields[CHOOSE i \in found : \A j \in found : i <= j].default

(* What a step binds. *)
Bound ==
  IF Running /\ Len(frames') = Len(frames) THEN frames'[Len(frames)].locals \ Current.locals
  ELSE {}

(* The structure a name means: the one that is declared in the namespaces  *)
(* where the name is written, and if there is none, in no namespace.       *)
Meant(namespaces, written) ==
  LET full(d) == Append(d.namespaces, d.tag)
      declared(name) == {full(d) : d \in {d \in Range(Declarations[program]) : full(d) = name}}
  IN  IF written[1] = "" THEN declared(Tail(written))
      ELSE IF declared(namespaces \o written) # {} THEN declared(namespaces \o written)
      ELSE declared(written)

(* The function a new structure is passed to reads what was assigned, and  *)
(* the default of what was not, wherever in the hierarchy a field is       *)
(* declared (InstantiationNode.cpp:54, Prototype.cpp:28,                   *)
(* FunctionNode.cpp:118).                                                  *)
FieldsReadBack ==
  [][\A v \in Bound, given \in Assignments, written \in Written[program] :
       Instantiate(written, given) =>
         /\ {v.prototype} = Meant(Current.overload.namespaces, written)
         /\ \A name \in Names(v.fields) :
              memory'[Member(v, name)] =
                IF name \in DOMAIN given THEN given[name] ELSE DefaultOf(v.prototype, name)]_vars

(* What an instantiation can be rejected for: no structure of that name is *)
(* declared, it names a field the structure does not have or leaves one    *)
(* without a value.                                                        *)
Incomplete(written, given) ==
  \A tag \in Meant(Current.overload.namespaces, written) :
    \/ ~(DOMAIN given \subseteq Names(FieldsOf(tag)))
    \/ \E name \in Names(FieldsOf(tag)) \ DOMAIN given : DefaultOf(tag, name) = NoDefault

(* An instantiation is rejected if there is a reason, and only then        *)
(* (DzTypeName.cpp:86, InstantiationNode.cpp:88, 96).                      *)
RejectedForAReason ==
  Running =>
    \A written \in Written[program], given \in Assignments :
      (Rejection(written, given) # "none") = Incomplete(written, given)

(* Whatever an invocation does with its argument, with what it made of it  *)
(* and with what was returned to it, the structures of the invocations     *)
(* that wait for it stay as they are, though `with' and jumps overwrite    *)
(* structures in place (ReferenceSinkNode.cpp:51, InstantiationNode.cpp:64,*)
(* FunctionCallNode.cpp:119).                                              *)
CallersStructsAreKept ==
  [][\A i \in 1 .. Len(frames) - 1 : \A v \in Known(frames[i]) : \A c \in Cells(v) :
       memory'[c] = memory[c]]_vars

(* An alloca has one type for good: a store of another type is not a valid *)
(* instruction (InstantiationNode.cpp:66).                                 *)
CellsKeepTheirType ==
  [][\A c \in DOMAIN memory : memory'[c].type = memory[c].type]_vars

(* The number of base types between p and its ancestor a, on the shortest  *)
(* way: a is reached in n steps but not in fewer.                          *)
BasesMeant(p) ==
  UNION {Meant(Structs[p].namespaces, written) : written \in Range(Structs[p].parents)}
Farthest == Cardinality(DOMAIN Structs)
Within(p) ==
  LET within[n \in 0 .. Farthest] ==
        IF n = 0 THEN {p}
        ELSE within[n - 1] \cup UNION {BasesMeant(q) : q \in within[n - 1]}
  IN  within
Distance(p, a) ==
  LET steps == {n \in 0 .. Farthest : a \in Within(p)[n]}
  IN  IF steps = {} THEN Farthest + 1 ELSE Min(steps)

(* How far an overload is from p: that of its parameter, if it means one.  *)
DistanceOf(p, o) ==
  Min({Distance(p, a) : a \in Meant(o.namespaces, o.type)}
        \cup {Farthest + 1})

IsBase(p, o) == DistanceOf(p, o) <= Farthest

TakesAny == [namespaces |-> << >>, type |-> <<"any">>]

(* A call runs the overload for the nearest base type, the one for `any'   *)
(* only if there is none for a base type, and is ambiguous only if two     *)
(* overloads are for base types equally near.  It is rejected for an       *)
(* unknown type only if a parameter has one (Prototype.cpp:67-108,         *)
(* FunctionCallNode.cpp:176-206).                                          *)
NearestOverload ==
  [][Running => \A v \in Known(Current) :
       Call(v) =>
         LET overloads == Overloads[program]
             bases == {o \in overloads : IsBase(v.prototype, o)}
             callee == frames'[Len(frames')].overload
         IN  \/ error' = "none" /\ \A o \in bases \ {callee} :
                  DistanceOf(v.prototype, callee) < DistanceOf(v.prototype, o)
             \/ error' = "FunctionNotFoundException" /\ bases = {} /\ TakesAny \notin overloads
             \/ error' = "AmbiguousFunctionException" /\ \E o, q \in bases :
                  o # q /\ DistanceOf(v.prototype, o) = DistanceOf(v.prototype, q)
             \/ error' = "UnknownTypeException" /\ \E o \in overloads \ {TakesAny} :
                  Meant(o.namespaces, o.type) = {}]_vars

(* A jump stays in the overload that resolution picks for the argument     *)
(* (UserType.cpp:57-81, FunctionCallNode.cpp:93-107).                      *)
JumpsStayInTheOverload ==
  [][Running => \A v \in Known(Current) :
       Jump(v) => Resolution(v) = {} /\ Current.overload = Invocation(v).overload]_vars
=============================================================================
