--------------------------- MODULE CallResolution ---------------------------
(***************************************************************************)
(* How a call finds its callee: scoring of signatures, overload            *)
(* resolution, and the two tests that turn a call into a jump.  Values are *)
(* stacks whose top (last element) is the first argument.                  *)
(***************************************************************************)
EXTENDS EntryPoint, Integers, FiniteSets

\* BuiltinType::compatibility for the builtin singletons; "any" is the type
\* the source writes as "...".
Compatibility(valueType, storageType) ==
  IF valueType = storageType THEN 0
  ELSE IF storageType = "any" THEN 1 ELSE -1

\* Argument i is matched with the i-th value from the top of the stack.
ArgumentScore(f, vs, i) ==
  Compatibility(vs[Len(vs) + 1 - i].type, f.params[i].type)

\* FunctionNode adds the scores of the arguments up, ImportedFunctionNode
\* keeps the largest; either rejects when one argument does.  Scores are 0
\* or 1, so the sum counts the inexact ones (int8_t: fewer than 128).
SignatureCompatibility(f, vs) ==
  LET scores == {ArgumentScore(f, vs, i) : i \in DOMAIN f.params}
      inexact == {i \in DOMAIN f.params : ArgumentScore(f, vs, i) = 1}
  IN  IF Len(f.params) # Len(vs) \/ -1 \in scores THEN -1
      ELSE IF f.attribute = "import"
           THEN IF 1 \in scores THEN 1 ELSE 0
           ELSE Cardinality(inexact)

Viable(functions, name, vs) ==
  {f \in functions : f.key = name /\ SignatureCompatibility(f, vs) >= 0}

Shadowed(ep, name) == ep.locals[name] # NoValue

\* The position of the first name at which the search of findFunction stops;
\* 0 when it runs through all of them.
StopsAt(ep, functions, names, vs) ==
  LET stops == {k \in DOMAIN names :
                  \/ Shadowed(ep, names[k])
                  \/ Viable(functions, names[k], vs) # {}}
  IN  IF stops = {} THEN 0
      ELSE CHOOSE k \in stops : \A l \in stops : k <= l

\* Mutant: a tie is settled silently.
AmbiguousNever(fs, vs) == FALSE

\* A tie between any two viable candidates is an error, best or not.
Ambiguous(fs, vs) ==
  \E f, g \in fs : /\ f # g
                   /\ SignatureCompatibility(f, vs) =
                        SignatureCompatibility(g, vs)

ResolutionError(ep, functions, names, vs) ==
  LET k == StopsAt(ep, functions, names, vs) IN
  IF k = 0 THEN "FunctionNotFoundException"
  ELSE IF Shadowed(ep, names[k]) THEN "InvalidFunctionPointerTypeException"
  ELSE IF Ambiguous(Viable(functions, names[k], vs), vs)
       THEN "AmbiguousFunctionException"
  ELSE "none"

\* The callee, as a set of at most one function.
FindFunction(ep, functions, names, vs) ==
  IF ResolutionError(ep, functions, names, vs) # "none" THEN {}
  ELSE LET fs == Viable(functions,
                        names[StopsAt(ep, functions, names, vs)], vs)
       IN  {f \in fs : \A g \in fs :
              SignatureCompatibility(f, vs) <= SignatureCompatibility(g, vs)}

\* Mutant: stacks of different sizes are compared as far as both go.
FitsPrefix(entry, vs) ==
  /\ entry # NoEntry
  /\ \A i \in DOMAIN vs \cap DOMAIN entry.values :
       Compatibility(vs[i].type, entry.values[i].type) = 0

\* min < 0 || max > 0 rejects: the values must fit the frozen ones exactly.
Fits(entry, vs) ==
  /\ entry # NoEntry
  /\ Len(entry.values) = Len(vs)
  /\ \A i \in DOMAIN vs : Compatibility(vs[i].type, entry.values[i].type) = 0

\* FunctionCallNode::tryCreateTailCall jumps to the first enclosing scope
\* with one of the names that fits.
TailCallTarget(ep, names, vs) ==
  LET fitting == {k \in DOMAIN names : Fits(ByName(ep, names[k]), vs)} IN
  IF fitting = {} THEN NoEntry
  ELSE LET k == CHOOSE k \in fitting : \A l \in fitting : k <= l
       IN  ByName(ep, names[k])

\* FunctionCallProxyNode::build wants every name to fit, and it measures the
\* values PENDING in the surrounding expression, not the arguments of the call.
ProxyTakesTailPath(ep, names, pending) ==
  \A k \in DOMAIN names : Fits(ByName(ep, names[k]), pending)
=============================================================================
