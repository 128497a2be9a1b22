--------------------------- MODULE MCStructValues ---------------------------
(***************************************************************************)
(* Programs for the runs of StructValues and Interop.                      *)
(***************************************************************************)
EXTENDS Interop

CONSTANT none

FieldNames == {"x", "y"}

zero == [type |-> "int", value |-> 0]
one == [type |-> "int", value |-> 1]
long == [type |-> "long", value |-> 0]
Scalars == {zero, one, long}

(* Nothing, a value of either type for one field, a value for the other,   *)
(* or for both.                                                            *)
Given == {<< >>, [y |-> one], [x |-> one, y |-> one]} \cup {[x |-> value] : value \in {one, long}}

Default(name) == [name |-> name, default |-> zero, type |-> none]
Required(name) == [name |-> name, default |-> none, type |-> none]

Declared(name, value) == [name |-> name, default |-> value, type |-> value.type]

StructIn(namespaces, tag, fields, parents) ==
  [namespaces |-> namespaces, tag |-> tag, fields |-> fields, parents |-> parents]

Struct(tag, fields, parents) ==
  StructIn(<< >>, tag, fields, [i \in DOMAIN parents |-> <<parents[i]>>])

(* Overloads outside of namespaces. *)
For(tags) == {[namespaces |-> << >>, type |-> <<tag>>] : tag \in tags}

Top == Struct("Top", << >>, << >>)

(* One base type each, fields with and without a default. *)
Chain == <<Top, Struct("Mid", <<Default("x")>>, <<"Top">>), Struct("Far", << >>, <<"Top">>),
           Struct("Child", <<Required("y")>>, <<"Mid">>)>>

(* Two base types, one of which is also a base type of the other. *)
Shortcut == <<Top, Struct("Mid", <<Default("x")>>, <<"Top">>), Struct("Far", << >>, <<"Mid">>),
              Struct("Child", <<Default("y")>>, <<"Far", "Top">>)>>

(* Two unrelated base types. *)
Mixed == <<Top, Struct("Mid", <<Default("y")>>, << >>), Struct("Far", << >>, <<"Top">>),
           Struct("Child", <<Required("x")>>, <<"Top", "Mid">>)>>

(* A field that is inherited along two paths. *)
Diamond == <<Struct("Top", <<Default("x")>>, << >>), Struct("Mid", << >>, <<"Top">>),
             Struct("Far", << >>, <<"Top">>), Struct("Child", << >>, <<"Mid", "Far">>)>>

(* A base type, and a last path that is shorter than the way to it. *)
Uneven == <<Top, Struct("Mid", << >>, <<"Top">>), Struct("Far", << >>, << >>),
            Struct("Child", <<Default("x")>>, <<"Mid", "Far">>)>>

(* Unrelated structures whose fields have the same types. *)
Twins == <<Struct("Top", <<Default("x")>>, << >>), Struct("Mid", <<Default("y")>>, << >>)>>

(* A base type that the namespace declares anew, one that only the         *)
(* outermost namespace has, and one that is named from there.              *)
Scoped == <<Top,
            StructIn(<<"Foo">>, "Top", <<Default("x")>>, << >>),
            StructIn(<<"Foo">>, "Mid", <<Default("y")>>, <<<<"Top">>>>),
            StructIn(<<"Foo">>, "Far", <<Required("y")>>, <<<<"", "Top">>>>),
            Struct("Mid", << >>, <<"Top">>)>>

(* Two structures of one name in two namespaces. *)
Namesakes == <<StructIn(<<"Foo">>, "Top", <<Default("x")>>, << >>),
               StructIn(<<"Bar">>, "Top", <<Default("x"), Default("y")>>, << >>)>>

(* Structures that C knows, one in which the fields of a base type are not *)
(* where C looks for them, and one whose field has no declared type.       *)
Foreign == <<Struct("Top", <<Declared("x", long)>>, << >>),
             Struct("Mid", <<Declared("y", zero), Declared("x", long)>>, << >>),
             Struct("Far", <<Declared("y", zero)>>, <<"Top">>),
             Struct("Child", <<Default("x")>>, << >>)>>

(* In the first six, no two structures of different overloads have the    *)
(* same fields.                                                            *)
ProgramDeclarations ==
  [chain |-> Chain, shortcut |-> Shortcut, mixed |-> Mixed, unfit |-> Mixed,
   scoped |-> Scoped, interop |-> Foreign, diamond |-> Diamond, uneven |-> Uneven, twins |-> Twins,
   namesakes |-> Namesakes]

ProgramOverloads ==
  [chain |-> For({"Mid", "any"}), shortcut |-> For({"Mid", "Top"}),
   mixed |-> For({"Top", "Mid"}), unfit |-> For({"Child"}),
   scoped |-> {[namespaces |-> <<"Foo">>, type |-> <<"Mid">>],
               [namespaces |-> <<"Foo">>, type |-> <<"any">>]},
   interop |-> For({"any"}), diamond |-> For({"any"}), uneven |-> For({"Top", "any"}), twins |-> For({"Top", "Mid"}),
   namesakes |-> {[namespaces |-> <<"Foo">>, type |-> <<"Top">>],
                  [namespaces |-> <<"Bar">>, type |-> <<"Top">>]}]

Tags == {<<tag>> : tag \in {"Top", "Mid", "Far", "Child"}}

ProgramWritten ==
  [p \in {"chain", "shortcut", "mixed", "unfit", "interop", "diamond", "uneven"} |-> Tags]
  @@ [twins |-> {<<"Top">>, <<"Mid">>},
      scoped |-> {<<"Top">>, <<"Far">>, <<"Foo", "Mid">>},
      namesakes |-> {<<"Foo", "Top">>, <<"Bar", "Top">>}]

Function(parameter, returns) == [parameter |-> <<parameter>>, returns |-> <<returns>>]

ProgramImports ==
  [interop |-> {Function("Mid", "Mid"), Function("Top", "Mid"), Function("Mid", "Child")}]
  @@ [p \in DOMAIN ProgramDeclarations |-> {}]

Sizes == [int |-> 4, long |-> 8]
=============================================================================
