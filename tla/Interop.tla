------------------------------ MODULE Interop ------------------------------
(***************************************************************************)
(* Structures that are passed to C and come back.  An imported function    *)
(* gets a pointer to the fields the value has, one after the other, each   *)
(* at its natural alignment; what it returns is read as the fields its     *)
(* return type declares.  Both sides only agree if the declarations are    *)
(* what the values are.                                                    *)
(*                                                                         *)
(* A block of memory of C is a set of pieces: a scalar and where it is.    *)
(* The fields of a structure are scalars here, not structures.             *)
(***************************************************************************)
EXTENDS StructValues

CONSTANTS
  Imports,  \* the imported functions: [Program -> sets of [parameter, returns]]
  Size      \* the bytes of a scalar of each type, and its alignment

ASSUME SizeAssumption ==
  /\ DOMAIN Size = {s.type : s \in Scalar}
  /\ \A type \in DOMAIN Size : Size[type] \in Nat \ {0}

(* Parameters and results are structures. *)
ASSUME ImportAssumption ==
  \A p \in Program : \A f \in Imports[p] :
    {f.parameter, f.returns} \subseteq DOMAIN TypeTable(Declarations[p])

(* The first place from n on for something of that size. *)
Aligned(n, size) == ((n + size - 1) \div size) * size

(* Where the fields of a block are. *)
Offsets(types) ==
  LET offset[i \in DOMAIN types] ==
        IF i = 1 THEN 0
        ELSE Aligned(offset[i - 1] + Size[types[i - 1]], Size[types[i]])
  IN  offset

(* Mutant of WriteProxy: the last field is written first. *)
WriteProxyLastFirst(v) ==
  LET fields == Reverse(v.fields)
      offset == Offsets([i \in DOMAIN fields |-> memory[fields[i].cell].type])
  IN  {[at |-> offset[i], value |-> memory[fields[i].cell]] : i \in DOMAIN fields}

(* The fields of the value, with the types they have. *)
WriteProxy(v) ==
  LET offset == Offsets(TypeOf(v).elements)
  IN  {[at |-> offset[i], value |-> memory[v.fields[i].cell]] : i \in DOMAIN v.fields}

(* The types a structure declares for its fields. *)
DeclaredTypes(type) == [i \in DOMAIN FieldsOf(type) |-> FieldsOf(type)[i].type]

(* What fields of these types can be, read from a block.  Where it holds   *)
(* something else than a scalar of the type, any is read.                  *)
ReadProxy(block, types) ==
  {read \in [DOMAIN types -> Scalar] :
    \A i \in DOMAIN types :
      /\ read[i].type = types[i]
      /\ \A piece \in block :
           piece.at = Offsets(types)[i] /\ piece.value.type = types[i] => read[i] = piece.value}

(* C returns the block it was given, or one of its own. *)
Returned(f, v) ==
  LET types == DeclaredTypes(f.returns)
  IN  {WriteProxy(v)} \cup
      {{[at |-> Offsets(types)[i], value |-> values[i]] : i \in DOMAIN types} :
         values \in ReadProxy({}, types)}

(* The function of the next level is called with f(v).  The imported       *)
(* function is the only candidate of its name.  A field without a type     *)
(* cannot be read: the compiler dereferences null where it finds out.      *)
Import(f, v) ==
  LET fields == FieldsOf(f.returns)
      result == [prototype |-> f.returns,
                 fields |-> [i \in DOMAIN fields |->
                              [name |-> fields[i].name, cell |-> Len(memory) + i]]]
  IN
  /\ Running
  /\ v \in Known(Current)
  /\ Len(frames) < MaxLevel
  /\ \/ /\ PrototypeCompatibility(Structs, v.prototype, f.parameter) < 0
        /\ Throw("FunctionNotFoundException")
     \/ /\ PrototypeCompatibility(Structs, v.prototype, f.parameter) >= 0
        /\ \/ NoType \in Range(DeclaredTypes(f.returns)) /\ Throw("Crash")
           \/ /\ NoType \notin Range(DeclaredTypes(f.returns))
              /\ \E exception \in Resolution(result) : Throw(exception)
           \/ /\ NoType \notin Range(DeclaredTypes(f.returns))
              /\ Resolution(result) = {}
              /\ Len(memory) + Len(fields) <= MaxCells
              /\ \E block \in Returned(f, v) :
                   \E read \in ReadProxy(block, DeclaredTypes(f.returns)) :
                     memory' = memory \o read
              /\ frames' = Append(frames,
                   [overload |-> Resolve(Structs, Overloads[program], f.returns),
                    argument |-> result, locals |-> {}])
              /\ UNCHANGED <<program, error>>

NextOrImport ==
  \/ Next
  \/ Running /\ \E v \in Known(Current), f \in Imports[program] : Import(f, v)

InteropSpec == Init /\ [][NextOrImport]_vars

-----------------------------------------------------------------------------
(* A structure that has the fields a type declares, of the declared types, *)
(* arrives in C as it is: what is read of the declared fields is what was  *)
(* written, and nothing else can be (InteropHelper.cpp:31-75, 92-150).     *)
ArrivesAsItIs ==
  Running =>
    \A v \in Known(Current), f \in Imports[program] :
      TypeOf(v).elements = DeclaredTypes(f.parameter) =>
        ReadProxy(WriteProxy(v), DeclaredTypes(f.parameter))
          = {[i \in DOMAIN v.fields |-> memory[v.fields[i].cell]]}
=============================================================================
