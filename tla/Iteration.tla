----------------------------- MODULE Iteration -----------------------------
(***************************************************************************)
(* How iteration is compiled: lazy values, the loops over arrays, strings  *)
(* and iterator functions, expansion (`...xs'), chained returns (`->') and *)
(* the tail calls that close a loop (src/src/nodes, src/src/values).       *)
(*                                                                         *)
(* Every operator below is one build, generate or transfer of the C++: it  *)
(* takes the code so far and returns an outcome, the code with what was    *)
(* emitted and the vector of results, the open ends of the code with the   *)
(* stack of values each carries (top last).  What CodeGen already treats   *)
(* in depth (namespaces, imports, globals, the order in which groups of    *)
(* results are met) is left out here, and CodeGen leaves out all of this.  *)
(***************************************************************************)
EXTENDS FlowCode, TLC

RECURSIVE TypeOf(_), Compatibility(_, _), Clone(_, _), MakeReference(_, _, _),
          Transfer(_, _, _, _), Element(_, _, _, _, _, _), Digest(_, _, _),
          Expansions(_, _), Locals(_, _), ParameterType(_), Build(_, _, _, _)

Result(ep, values) == [ep |-> ep, values |-> values]

Outcome(code, results) == [code |-> code, results |-> results]

One(code, ep, values) == Outcome(code, <<Result(ep, values)>>)

Thrown(code, what) == Outcome(Throw(code, what), <<>>)

\* for (auto &r : o) for (auto &c : Next(r)) results.push_back(c); a throw
\* ends the loop.
ForEach(o, Next(_, _)) ==
  LET after[i \in 0 .. Len(o.results)] ==
        IF i = 0 THEN Outcome(o.code, <<>>)
        ELSE LET done == after[i - 1]
                 more == Next(o.results[i], done.code)
             IN  IF done.code.error # "none" THEN done
                 ELSE Outcome(more.code, done.results \o more.results)
  IN  after[Len(o.results)]

-----------------------------------------------------------------------------
(* Types and values.  Iterator types are objects and told apart by their   *)
(* identity: 0 is IteratorType::instance(), every function has one of its  *)
(* own (negative) and so has every lazy call of an iterator function.      *)

BuiltinType(name) == [tag |-> name, id |-> 0, of |-> <<>>]
IteratorType(id) == [tag |-> "iterator", id |-> id, of |-> <<>>]
StringType(length) == [tag |-> "string", id |-> length, of |-> <<>>]
CompositeType(tag, types) == [tag |-> tag, id |-> 0, of |-> types]

Scalar(type, at) == [rep |-> "scalar", type |-> type, at |-> at]
Reference(type, slot) == [rep |-> "reference", type |-> type, slot |-> slot]
Tuple(values) == [rep |-> "tuple", values |-> values]
Lazy(generator) == [rep |-> "lazy", generator |-> generator]
FunctionValue(f) == [rep |-> "function", function |-> f]
Placeholder == [rep |-> "placeholder"]
Without == [rep |-> "without"]
Expandable(type, ep, chain) ==
  [rep |-> "expandable", type |-> type, provider |-> ep, chain |-> chain]
Expanded(type, ep) == [rep |-> "expanded", type |-> type, provider |-> ep]

TypesOf(values) == [i \in DOMAIN values |-> TypeOf(values[i])]

GeneratorType(generator) ==
  IF generator.is = "iterator" THEN generator.type
  ELSE IF generator.is = "array" /\ Len(generator.contents) = 1
       THEN CompositeType("array",
                          TypesOf(Reverse(generator.contents[1].values)))
       ELSE IteratorType(0)

TypeOf(v) ==
  CASE v.rep \in {"scalar", "reference", "expandable", "expanded"} -> v.type
    [] v.rep = "indexed" -> TypeOf(v.subject)
    [] v.rep = "tuple" -> CompositeType("tuple", TypesOf(v.values))
    [] v.rep = "struct" ->
         CompositeType("struct",
                       TypesOf([i \in DOMAIN v.fields |-> v.fields[i].value]))
    [] v.rep = "lazy" -> GeneratorType(v.generator)
    [] v.rep = "string" -> StringType(Len(v.text))
    [] v.rep = "function" -> \* not its result, and not which one it is
         CompositeType("function",
                       [i \in DOMAIN v.function.parameters |->
                         ParameterType(v.function.parameters[i])])
    [] OTHER -> BuiltinType(v.rep)

\* The worst of the scores of the elements: -1 beats 1 beats 0.
Worst(scores) ==
  IF \E i \in DOMAIN scores : scores[i] = -1 THEN -1
  ELSE IF \E i \in DOMAIN scores : scores[i] = 1 THEN 1 ELSE 0

Elementwise(t, u) ==
  IF Len(t.of) # Len(u.of) THEN -1
  ELSE Worst([i \in DOMAIN t.of |-> Compatibility(t.of[i], u.of[i])])

\* Builtin types of one name fit, which strings of different lengths are.  An
\* array fits any iterator and an iterator any array; a structure whose
\* elements do not fit exactly is compared by its prototype instead.
Compatibility(t, u) ==
  CASE t.tag = "placeholder" -> 0
    [] t.tag = "array" ->
         IF u.tag = "array" THEN (IF t = u THEN 0 ELSE -1)
         ELSE IF u.tag = "iterator" THEN 0 ELSE -1
    [] t.tag = "iterator" ->
         IF u.tag = "iterator" THEN (IF t.id = u.id THEN 0 ELSE 1)
         ELSE IF u.tag = "array" THEN 0 ELSE -1
    [] t.tag \in {"tuple", "function"} ->
         IF u.tag = t.tag THEN Elementwise(t, u) ELSE -1
    [] t.tag = "struct" ->
         IF u.tag # "struct" THEN -1
         ELSE IF Elementwise(t, u) = 0 THEN 0 ELSE 1
    [] OTHER -> IF t = u THEN 0 ELSE IF t.tag = u.tag THEN 1 ELSE -1

\* Every value of one stack fits the value of the other exactly.
FitsExactly(values, storage) ==
  /\ Len(values) = Len(storage)
  /\ \A i \in DOMAIN values :
       Compatibility(TypeOf(values[i]), TypeOf(storage[i])) = 0

\* Mutant: the register is not told from the one of the next load.
LoadUncounted(code, ep, reference) ==
  LET r == code.slots + 1
  IN  [code |-> Emit(code, ep.block, Set(r, Slot(reference.slot))),
       value |-> Scalar(reference.type, Slot(r))]

\* A load leaves the value in a register.
Load(code, ep, reference) ==
  LET r == code.slots + 1
  IN  [code |-> EmitInto(code, ep.block, Set(r, Slot(reference.slot))),
       value |-> Scalar(reference.type, Slot(r))]

\* Something new is made of each of a sequence of values.
MapValues(code, values, Make(_, _)) ==
  FoldLeft(LAMBDA done, v :
             LET made == Make(v, done.code)
             IN  [code |-> made.code, values |-> Append(done.values, made.value)],
           [code |-> code, values |-> <<>>], values)

\* Fields are values with a name that is kept.
MapFields(code, fields, Make(_, _)) ==
  LET made == MapValues(code, [i \in DOMAIN fields |-> fields[i].value], Make)
  IN  [code |-> made.code,
       value |-> [rep |-> "struct",
                  fields |-> [i \in DOMAIN fields |->
                    [name |-> fields[i].name, value |-> made.values[i]]]]]

\* BaseValue::clone: fresh storage of the same shape, not filled yet.  A clone
\* of an array keeps the id of the literal.
Clone(v, code) ==
  LET same == [code |-> code, value |-> v] IN
  CASE v.rep = "reference" ->
         [code |-> AddSlot(code), value |-> Reference(v.type, code.slots + 1)]
    [] v.rep = "string" -> [code |-> AddSlot(code), value |-> v]
    [] v.rep = "indexed" ->
         LET c == Clone(v.subject, code)
         IN  [code |-> c.code, value |-> [v EXCEPT !.subject = c.value]]
    [] v.rep = "tuple" ->
         LET c == MapValues(code, v.values, Clone)
         IN  [code |-> c.code, value |-> Tuple(c.values)]
    [] v.rep = "struct" -> MapFields(code, v.fields, Clone)
    [] v.rep = "lazy" /\ v.generator.is = "array" ->
         LET contents == v.generator.contents
             c == MapValues(code, contents[1].values, Clone)
         IN  IF Len(contents) # 1 THEN [same EXCEPT !.code = Throw(code, "clone")]
             ELSE [code |-> c.code,
                   value |-> Lazy([v.generator EXCEPT
                               !.contents[1].values = c.values])]
    [] OTHER -> same

\* ReferenceSinkNode: an argument or element gets storage of its own.
MakeReference(v, ep, code) ==
  LET stored(c, from) ==
        [code |-> EmitInto(c, ep.block, Set(c.slots + 1, from)),
         value |-> Reference(v.type, c.slots + 1)]
      inside(w, c) == MakeReference(w, ep, c)
  IN  CASE v.rep = "scalar" -> stored(code, v.at)
        [] v.rep = "reference" ->
             LET l == Load(code, ep, v) IN stored(l.code, l.value.at)
        [] v.rep = "tuple" ->
             LET c == MapValues(code, v.values, inside)
             IN  [code |-> c.code, value |-> Tuple(c.values)]
        [] v.rep = "struct" -> MapFields(code, v.fields, inside)
        [] OTHER -> [code |-> code, value |-> v]

-----------------------------------------------------------------------------
(* Generators: what a lazy value becomes when it is evaluated.             *)

NewStorage(code) ==
  [code EXCEPT !.storages = Append(@, [id \in {} |-> 0])]

\* Mutant: the index of a literal is looked up but never created anew, as if
\* one storage served the whole function.
GetOrCreateOnce(code, ep, id) ==
  IF \E s \in DOMAIN code.storages : id \in DOMAIN code.storages[s]
  THEN LET s == CHOOSE s \in DOMAIN code.storages :
                  id \in DOMAIN code.storages[s]
       IN  [code |-> code, index |-> code.storages[s][id]]
  ELSE LET index == code.slots + 1
       IN  [code |-> [EmitInto(code, ep.block, Zero(index)) EXCEPT
                        !.storages[ep.storage] = (id :> index) @@ @],
            index |-> index]

\* The index of a literal, set to zero where the loop over it is first
\* compiled; the same index serves every later loop with this storage.
GetOrCreate(code, ep, id) ==
  LET known == code.storages[ep.storage]
      index == code.slots + 1
  IN  IF id \in DOMAIN known THEN [code |-> code, index |-> known[id]]
      ELSE [code |-> [EmitInto(code, ep.block, Zero(index)) EXCEPT
                        !.storages[ep.storage] = (id :> index) @@ @],
            index |-> index]

\* An iterator function needs no index; its iteratable is its generator.
Generate(generator, ep, code) ==
  IF generator.is = "iterator"
  THEN [code |-> code, iteratable |-> [of |-> generator, index |-> 0]]
  ELSE LET found == GetOrCreate(code, ep, generator.id)
       IN  [code |-> found.code,
            iteratable |-> [of |-> generator, index |-> found.index]]

\* The block a loop over an array or a string goes back to.
LoopHead(code, ep, name, index) ==
  LET b == Len(code.blocks) + 1
  IN  [code |-> [LinkBlocks(AddBlock(InsertBlock(code, ep.block)), ep.block, b)
                   EXCEPT !.heads = @ \cup {[block |-> b, index |-> index]}],
       ep |-> MarkEntry(WithName(WithBlock(ep, b), name))]

\* Mutant: the block that branches is not part of the function.
SplitDetached(code, b) == AddBlock(AddBlock(code))

\* A block that branches, and the two blocks it goes on in.
Split(code, b) == AddBlock(AddBlock(InsertBlock(code, b)))

\* ArrayContinuationNode, the chain of an array or a string.
Advance(index) == [kind |-> "advance", index |-> index]

\* The pair a loop hands out while there are more elements.
More(type, ep, index, subject) ==
  Tuple(<<Expandable(type, ep, Advance(index)), subject>>)

\* ArrayElementNode: a chain of as many nodes as there are elements, the
\* values of which are on the stack; all but the last compare the index.
Element(left, type, index, ep, values, code) ==
  LET value == Last(values)
      yes == Len(code.blocks) + 1
      no == yes + 1
      tested == Emit(Split(code, ep.block), ep.block,
                     IfIndex(index, "=", value.index, yes, no))
      others == Element(left - 1, type, index, WithBlock(ep, no),
                        Front(values), tested)
  IN  IF left = 1 THEN One(code, ep, Append(Front(values), value.subject))
      ELSE Outcome(others.code,
             <<Result(WithBlock(ep, yes),
                      <<More(type, ep, index, value.subject)>>)>>
               \o others.results)

\* StringIteratable: the character is read before the index is tested, and the
\* last one is handed out alone.  Behind the text lies its terminator.
BuildString(text, index, ep, code) ==
  LET head == LoopHead(code, ep, "__iterator", index)
      b == head.ep.block
      character == head.code.slots + 1
      yes == b + 1
      no == b + 2
      read == EmitInto(Split(head.code, b), b,
                       Character(character, text, index))
      value == Scalar(BuiltinType("int"), Slot(character))
  IN  Outcome(Emit(read, b,
                   IfIndex(index, "<", Len(text) - 1, yes, no)),
              <<Result(WithBlock(head.ep, yes),
                       <<More(IteratorType(0), head.ep, index, value)>>),
                Result(WithBlock(head.ep, no), <<value>>)>>)

\* ArrayValue: a loop for each result of the elements.
BuildArray(array, index, ep, code) ==
  ForEach(Outcome(InsertBlock(code, ep.block), array.contents),
    LAMBDA content, c :
      LET head == LoopHead(c, ep, "__array", index)
      IN  Element(array.size, GeneratorType(array), index, head.ep,
                  content.values, head.code))

\* IIteratable::build.  The call of an iterator function is compiled here and
\* now, in the context it was written in.
BuildIteratable(it, ep, code) ==
  LET of == it.of IN
  CASE of.is = "array" -> BuildArray(of, it.index, ep, code)
    [] of.is = "string" -> BuildString(of.text, it.index, ep, code)
    [] of.is = "iterator" ->
         Build(of.subject,
               WithStorage(WithLocals(WithBlock(of.ep, ep.block),
                                      of.ep.locals @@ ep.locals),
                           ep.storage),
               <<>>, code)

-----------------------------------------------------------------------------
(* Transfers and jumps.                                                    *)

\* What an expandable leaves to do before the next element is there.
BuildChain(expandable, block, code) ==
  Build(expandable.chain, WithBlock(expandable.provider, block), <<>>, code)

\* Go back to where the chain says the loop starts.
LoopBack(expandable, block, code) ==
  ForEach(BuildChain(expandable, block, code),
    LAMBDA r, c : Outcome(LinkBlocks(c, block, EntryOf(r.ep).block), <<>>)).code

\* One pair of branches, an element of the source and one of the target:
\* LazyValue::assignFrom.  Only when both are at their last is the copy done.
AssignElement(source, target, exit, code) ==
  LET from == Last(source.values)
      to == Last(target.values)
      b == target.ep.block
      transferred(v, w) == Transfer(target.ep, v, w, code)
  IN  IF to.rep = "tuple"
      THEN IF from.rep # "tuple" THEN LinkBlocks(code, b, source.ep.block)
           ELSE LET t == transferred(Last(from.values), Last(to.values))
                    stepped == BuildChain(to.values[1], t.ep.block, t.code)
                IN  LoopBack(from.values[1], t.ep.block, stepped.code)
      ELSE IF from.rep = "tuple" THEN LoopBack(from.values[1], b, code)
      ELSE LET t == transferred(from, to)
           IN  LinkBlocks(t.code, t.ep.block, exit)

\* LazyValue::assignFrom: for every branch of the source one for every branch
\* of the target, with indices that nothing else shares.
AssignFrom(ep, target, source, code) ==
  LET exit == Len(code.blocks) + 1
      begun == NewStorage(AddBlock(InsertBlock(code, ep.block)))
      own == WithStorage(ep, Len(begun.storages))
      src == Generate(source.generator, own, begun)
      tgt == Generate(target.generator, own, src.code)
      copied ==
        ForEach(BuildIteratable(src.iteratable, ep, tgt.code), LAMBDA s, c :
          ForEach(BuildIteratable(tgt.iteratable, s.ep,
                                  InsertBlock(c, s.ep.block)), LAMBDA t, d :
            Outcome(AssignElement(s, t, exit, InsertBlock(d, t.ep.block)), <<>>)))
  IN  [code |-> InsertBlock(copied.code, exit), ep |-> WithBlock(ep, exit)]

\* Mutant: only the first value is transferred.
TransferFirst(ep, values, storage, code) ==
  IF values = <<>> THEN [code |-> code, ep |-> ep]
  ELSE Transfer(ep, values[1], storage[1], code)

TransferAll(ep, values, storage, code) ==
  FoldLeft(LAMBDA done, i : Transfer(done.ep, values[i], storage[i], done.code),
           [code |-> code, ep |-> ep], [i \in DOMAIN values |-> i])

\* ValueHelper::transferValue; storage that is no reference keeps nothing, and
\* the address of a string is stored into its own characters.
Transfer(ep, v, storage, code) ==
  LET values(w) == [i \in DOMAIN w.fields |-> w.fields[i].value]
      store(c, from) == Emit(c, ep.block, Set(storage.slot, from))
      same == [code |-> code, ep |-> ep]
  IN  CASE v.rep = "scalar" /\ storage.rep = "reference" ->
             [same EXCEPT !.code = store(code, v.at)]
        [] v.rep = "reference" /\ storage.rep = "reference" ->
             LET l == Load(code, ep, v)
             IN  [same EXCEPT !.code = store(l.code, l.value.at)]
        [] v.rep = "struct" ->
             TransferAll(ep, values(v), values(storage), code)
        [] v.rep = "lazy" -> AssignFrom(ep, storage, v, code)
        [] v.rep = "string" -> [same EXCEPT !.code = Emit(code, ep.block, Misfit)]
        [] v.rep = "tuple" ->
             TransferAll(ep, v.values, storage.values, code)
        [] OTHER -> same

\* The contexts of the expansions among some values, from the bottom up, and
\* among the parts of those values that are entered.
Expansions(values, entered) ==
  FlattenSeq([i \in DOMAIN values |->
    LET v == values[i] IN
    CASE v.rep = "expanded" -> <<v.provider>>
      [] v.rep \in entered ->
           Expansions(IF v.rep = "tuple" THEN v.values
                      ELSE [k \in DOMAIN v.fields |-> v.fields[k].value], entered)
      [] OTHER -> <<>>])

\* Mutant: the innermost loop is gone back to.
InnermostOf(candidate, targets) ==
  IF targets = <<>> THEN candidate ELSE Last(targets)

\* findTailCallTarget: the outermost of the loops that are to go on.  A call
\* looks for the place it starts at, also in the fields of structures, a
\* chained return for its context, and not in structures.
OutermostLoop(candidate, targets) ==
  FoldLeft(LAMBDA t, p : IF p.depth < t.depth THEN EntryOf(p) ELSE t,
           candidate, targets)

OutermostOf(candidate, targets) ==
  FoldLeft(LAMBDA t, p : IF p.depth < t.depth THEN p ELSE t, candidate, targets)

\* The n values popped first.
Top(values, n) == SubSeq(values, Len(values) - n + 1, Len(values))

\* ContinuationNode: the arguments of `-> f(...)' replace those of the running
\* call, whatever f is, and the loop to continue is that of an expansion.
BuildContinuation(ep, values, code) ==
  LET moved == TransferAll(ep, Reverse(values),
                           Reverse(Top(ep.values, Len(values))), code)
  IN  One(moved.code, OutermostOf(moved.ep, Reverse(Expansions(values, {"tuple"}))),
          <<>>)

-----------------------------------------------------------------------------
(* Nodes that produce or keep values.                                      *)

\* A local hides the functions of its name, of which the first is a value.
BuildMember(n, ep, values, code) ==
  LET function == SelectInSeq(ep.functions, LAMBDA f : <<f.name>> = n.name)
      local == ep.locals[n.name]
      l == Load(code, ep, local)
      continue(v, c) == Build(n.next, ep, Append(values, v), c)
  IN  IF n.name \in DOMAIN ep.locals
      THEN IF local.rep = "reference" THEN continue(l.value, l.code)
           ELSE continue(local, code)
      ELSE IF function # 0
      THEN continue(FunctionValue(ep.functions[function]), code)
      ELSE Thrown(code, "UndeclaredIdentifierException")

\* The left operand was pushed last.
BuildBinary(n, ep, values, code) ==
  LET left == Last(values)
      right == values[Len(values) - 1]
      r == code.slots + 1
      type == IF n.operator = "+" THEN left.type ELSE BuiltinType("bool")
  IN  IF Len(values) < 2 \/ left.rep # "scalar" \/ right.rep # "scalar"
      THEN Thrown(code, "InvalidTypeException")
      ELSE Build(n.next, ep,
                 Append(SubSeq(values, 1, Len(values) - 2), Scalar(type, Slot(r))),
                 EmitInto(code, ep.block,
                          Compute(r, n.operator, left.at, right.at)))

BuildSink(n, ep, values, code) ==
  LET made == MakeReference(Last(values), ep, code)
  IN  Build(n.next, ep, Append(Front(values), made.value), made.code)

BuildIndexSink(n, ep, values, code) ==
  Build(n.next, ep,
        Append(Front(values), [rep |-> "indexed", index |-> n.index,
                               subject |-> Last(values)]), code)

\* InstantiationNode, every field given a value and none a default.
BuildInstantiation(n, ep, values, code) ==
  LET given == Reverse(Top(values, Len(n.fields)))
      stored(v, c) == IF v.rep = "scalar" THEN MakeReference(v, ep, c)
                      ELSE [code |-> c, value |-> v]
      made == MapFields(code, [i \in DOMAIN n.fields |->
                                 [name |-> n.fields[i], value |-> given[i]]],
                        stored)
  IN  Build(n.next, ep,
            Append(SubSeq(values, 1, Len(values) - Len(n.fields)), made.value),
            made.code)

\* ArraySinkNode: the elements are evaluated where the literal stands; all
\* their results go into one generator, the consumer is built for each.
BuildArrayLiteral(n, ep, values, code) ==
  LET contents == Build(n.elements, ep, <<>>, code)
      lazy == Lazy([is |-> "array", id |-> n.id, size |-> n.size,
                    contents |-> contents.results])
  IN  ForEach(contents, LAMBDA r, c : Build(n.next, r.ep, Append(values, lazy), c))

\* ReturnNode: a scalar goes through memory, and with a chain the value is
\* handed out together with what leads to the next one.
BuildReturn(n, ep, values, code) ==
  LET inserted == InsertBlock(code, ep.block)
      stored == MakeReference(Last(values), ep, inserted)
      fetched == IF Last(values).rep = "scalar"
                 THEN Load(stored.code, ep, stored.value)
                 ELSE [code |-> inserted, value |-> Last(values)]
      value == IF n.chain.kind = "none" THEN fetched.value
               ELSE Tuple(<<Expandable(n.type, ep, n.chain), fetched.value>>)
  IN  Build(n.next, ep, Append(Front(values), value), fetched.code)

\* ExpansionNode: the chain runs at once, in the present block; what follows
\* is compiled in the context of the expansion, knowing where to go back to.
BuildExpansion(n, ep, values, code) ==
  LET ran == BuildChain(Last(values), ep.block, code)
      again == Tuple(<<Expanded(Last(values).type, ran.results[1].ep),
                       Placeholder>>)
  IN  IF Last(values).rep # "expandable"
      THEN Thrown(code, "InvalidTypeException")
      ELSE IF ran.results = <<>> THEN Thrown(ran.code, "exception")
      ELSE Build(n.next, ep, Append(Front(values), again), ran.code)

\* ExportedFunctionTerminatorNode.
BuildExportTerminator(ep, values, code) ==
  LET b == Len(code.blocks) + 1
      linked == LinkBlocks(InsertBlock(AddBlock(InsertBlock(code, ep.block)), b),
                           ep.block, b)
  IN  IF values = <<>> \/ Last(values).rep # "scalar"
      THEN Thrown(code, "InvalidTypeException")
      ELSE One(Emit(linked, b, Ret(Last(values).at)), WithBlock(ep, b),
               Front(values))

-----------------------------------------------------------------------------
(* Branches and how they meet again.                                       *)

TypeOfResult(r) == TypeOf(Last(r.values))

\* The results with exactly one value, a group for each of their types.  The
\* source orders the groups by address, here they come as they are met.
Groups(results) ==
  FoldLeft(LAMBDA groups, r :
             LET i == SelectInSeq(groups,
                        LAMBDA g : TypeOfResult(g[1]) = TypeOfResult(r))
             IN  IF i = 0 THEN Append(groups, <<r>>)
                 ELSE [groups EXCEPT ![i] = Append(@, r)],
           <<>>, SelectSeq(results, LAMBDA r : Len(r.values) = 1))

\* All results of a group store their value and go on in one block.
Meet(group, storage, block, insert, code) ==
  ForEach(Outcome(code, group), LAMBDA r, c :
    LET t == Transfer(r.ep, r.values[1], storage, c)
        d == IF insert THEN InsertBlock(t.code, t.ep.block) ELSE t.code
    IN  Outcome(LinkBlocks(d, t.ep.block, block), <<>>)).code

\* ConditionalNode merges scalars per type; a single value that is none
\* prevents all merging.
Merge(results, ep, values, code) ==
  IF \E i \in DOMAIN results : /\ Len(results[i].values) = 1
                               /\ results[i].values[1].rep # "scalar"
  THEN Outcome(code, results)
  ELSE FoldLeft(LAMBDA done, group :
         LET type == TypeOfResult(group[1])
             storage == Reference(type, done.code.slots + 1)
             b == Len(done.code.blocks) + 1
             merge == WithBlock(ep, b)
             met == Meet(group, storage, b, FALSE,
                         InsertBlock(AddBlock(AddSlot(done.code)), b))
             l == Load(met, merge, storage)
         IN  Outcome(l.code, Append(done.results,
                                    Result(merge, Append(values, l.value)))),
         Outcome(code, <<>>), Groups(results))

BuildConditional(n, ep, values, code) ==
  LET yes == Len(code.blocks) + 1
      no == yes + 1
      rest == Front(values)
      tested == Emit(Split(code, ep.block), ep.block,
                     If(Last(values).at, yes, no))
      branch(name, b) == WithBlock(WithName(ep, name), b)
      ifTrue == Build(n.ifTrue, branch("ifTrue", yes), rest, tested)
      ifFalse == Build(n.ifFalse, branch("ifFalse", no), rest, ifTrue.code)
  IN  IF Last(values).rep # "scalar" THEN Thrown(code, "InvalidTypeException")
      ELSE Merge(ifTrue.results \o ifFalse.results, ep, rest, ifFalse.code)

\* JunctionNode::tryJoin: one result stays as it is; several are joined, in a
\* slot if they are scalars, in a clone of the first otherwise.
Join(group, ep, values, code) ==
  LET b == Len(code.blocks) + 1
      junction == WithBlock(ep, b)
      first == group[1].values[1]
      isScalar == first.rep = "scalar"
      added == AddBlock(code)
      made == IF isScalar
              THEN [code |-> AddSlot(added),
                    value |-> Reference(first.type, added.slots + 1)]
              ELSE Clone(first, added)
      met == Meet(group, made.value, b, TRUE, made.code)
      loaded == Load(met, junction, made.value)
  IN  IF Len(group) = 1
      THEN One(code, group[1].ep, Append(values, first))
      ELSE IF isScalar
      THEN One(loaded.code, junction, Append(values, loaded.value))
      ELSE One(met, junction, Append(values, made.value))

BuildJunction(subject, ep, values, code) ==
  LET subjects == Build(subject, ep, <<>>, code)
      several == SelectSeq(subjects.results, LAMBDA r : Len(r.values) # 1)
      joined == FoldLeft(LAMBDA done, group :
                  LET j == Join(group, ep, values, done.code)
                  IN  Outcome(j.code, done.results \o j.results),
                  Outcome(subjects.code, <<>>), Groups(subjects.results))
  IN  Outcome(joined.code, several \o joined.results)

-----------------------------------------------------------------------------
(* Calls.                                                                  *)

\* LazyEvaluationNode::digestDepth: lazy values are replaced by their elements
\* from the top down; every element is a result of its own.
Digest(ep, values, code) ==
  LET v == Last(values)
      rest == Front(values)
      generated == Generate(v.generator, ep, code)
      keep(o, w) == ForEach(o, LAMBDA r, c :
                              One(c, r.ep, Append(r.values, w)))
  IN  IF values = <<>> THEN One(code, ep, values)
      ELSE IF v.rep = "lazy"
      THEN ForEach(BuildIteratable(generated.iteratable, ep, generated.code),
             LAMBDA r, c : Digest(WithStorage(r.ep, ep.storage),
                                  rest \o r.values, c))
      ELSE IF v.rep = "string"
      THEN Digest(ep, Append(rest, Lazy([is |-> "string", id |-> v.id,
                                         text |-> v.text])), code)
      ELSE IF v.rep = "tuple"
      THEN ForEach(Digest(ep, v.values, code), LAMBDA d, c :
             keep(Digest(d.ep, rest, c), Tuple(d.values)))
      ELSE keep(Digest(ep, rest, code), v)

\* LazyEvaluationNode: the storage of the indices is shared with the lazy
\* evaluations around this one, if there are any.
BuildEvaluation(n, ep, values, code) ==
  LET forked == IF ep.storage # 0 THEN ep
                ELSE WithStorage(ep, Len(code.storages) + 1)
  IN  ForEach(Digest(forked, values,
                     IF ep.storage # 0 THEN code ELSE NewStorage(code)),
        LAMBDA r, c : Build(n.next, WithStorage(r.ep, ep.storage), r.values, c))

ParameterType(p) ==
  IF p.is = "plain" THEN p.type
  ELSE CompositeType("tuple",
         Reverse([i \in DOMAIN p.parameters |-> ParameterType(p.parameters[i])]))

\* FunctionNode::signatureCompatibility: the sum of the scores.
Score(f, values) ==
  LET scores == [i \in DOMAIN f.parameters |->
                   Compatibility(TypeOf(values[Len(values) + 1 - i]),
                                 ParameterType(f.parameters[i]))]
      inexact == SelectSeq(scores, LAMBDA s : s = 1)
  IN  IF Len(f.parameters) # Len(values) THEN -1
      ELSE IF Worst(scores) = -1 THEN -1 ELSE Len(inexact)

\* Every parameter of a tuple takes a value from the top; the fields of a
\* structure become locals of their own.
Locals(p, v) ==
  IF p.is = "tuple"
  THEN FoldLeft(LAMBDA all, i :
                  Locals(p.parameters[i], v.values[Len(v.values) + 1 - i]) @@ all,
                [name \in {} |-> v], [i \in DOMAIN p.parameters |-> i])
  ELSE (<<p.name>> :> v) @@
         IF v.rep # "struct" THEN [name \in {} |-> v]
         ELSE FoldLeft(LAMBDA all, field :
                         (<<p.name, field.name>> :> field.value) @@ all,
                       [name \in {} |-> v], v.fields)

\* FunctionNode::build: the body starts with the arguments as its values and
\* no iterator storage.
BuildFunction(f, ep, values, code) ==
  LET arguments == FoldLeft(LAMBDA all, i :
                     Locals(f.parameters[i], values[Len(values) + 1 - i]) @@ all,
                     ep.locals, [i \in DOMAIN f.parameters |-> i])
  IN  Build(f.body,
            WithStorage(WithLocals(MarkEntry(WithName(WithValues(ep, values),
                                                      f.name)),
                                   arguments), 0),
            <<>>, code)

\* The functions of a name that take the values.
Viable(name, ep, values) ==
  {f \in Range(ep.functions) : f.name = name /\ Score(f, values) >= 0}

ResolutionError(name, ep, values) ==
  LET viable == Viable(name, ep, values) IN
  IF <<name>> \in DOMAIN ep.locals
  THEN IF ep.locals[<<name>>].rep = "function" THEN "none"
       ELSE "InvalidFunctionPointerTypeException"
  ELSE IF viable = {} THEN "FunctionNotFoundException"
  ELSE IF \E f, g \in viable : f # g /\ Score(f, values) = Score(g, values)
  THEN "AmbiguousFunctionException"
  ELSE "none"

\* findFunction: a local of the name is called as it is, or the function that
\* takes the values best.
FindFunction(name, ep, values) ==
  IF <<name>> \in DOMAIN ep.locals THEN ep.locals[<<name>>].function
  ELSE CHOOSE f \in Viable(name, ep, values) :
         \A g \in Viable(name, ep, values) : Score(f, values) <= Score(g, values)

RegularCall(n, ep, values, code) ==
  LET error == ResolutionError(n.name, ep, values)
      callee == FindFunction(n.name, ep, values)
      b == Len(code.blocks) + 1
      caller == WithBlock(ep, b)
  IN  IF error # "none" THEN Thrown(code, error)
      ELSE IF Len(callee.parameters) > Len(values) THEN Thrown(code, "crash")
      ELSE ForEach(BuildFunction(callee, caller, values,
                                 LinkBlocks(AddBlock(code), ep.block, b)),
             LAMBDA r, c :
               LET next == Len(c.blocks) + 1
               IN  One(LinkBlocks(AddBlock(InsertBlock(c, r.ep.block)),
                                  r.ep.block, next),
                       WithBlock(WithDepth(caller, r.ep.depth), next), r.values))

\* FunctionCallNode: a call of a function that is running with values of the
\* very same types jumps to it, or to the loop that is to go on.
BuildCall(n, ep, values, code) ==
  LET inserted == InsertBlock(code, ep.block)
      running == ByName(ep, n.name)
      moved == TransferAll(ep, values, running.values, inserted)
      target == OutermostLoop(running, Expansions(values, {"tuple", "struct"}))
  IN  IF running.block # 0 /\ FitsExactly(values, running.values)
      THEN Outcome(LinkBlocks(moved.code, moved.ep.block, target.block), <<>>)
      ELSE RegularCall(n, ep, values, inserted)

IsIterator(ep, name) ==
  \E i \in DOMAIN ep.functions :
    ep.functions[i].name = name /\ ep.functions[i].attribute = "iterator"

\* FunctionCallProxyNode: the call of an iterator is not compiled here but
\* becomes a lazy value with the context it stands in.
BuildProxy(n, ep, values, code) ==
  LET running == ByName(ep, n.name)
      fresh == AddSlot(code)
      generator == [is |-> "iterator", type |-> IteratorType(fresh.slots),
                    subject |-> n.segment, ep |-> ep]
  IN  IF running.block # 0 /\ FitsExactly(values, running.values)
      THEN Build(n.segment, ep, values, code)
      ELSE IF IsIterator(ep, n.name)
      THEN Build(n.next, ep, Append(values, Lazy(generator)), fresh)
      ELSE ForEach(BuildJunction(n.segment, ep, values, code),
             LAMBDA r, c : Build(n.next, r.ep, r.values, c))

\* StackSegmentNode: one argument after the other, from every result of those
\* before; the first argument ends on top.
BuildSegment(n, ep, values, code) ==
  LET arguments ==
        FoldLeft(LAMBDA done, argument :
                   ForEach(done, LAMBDA r, c :
                     ForEach(Build(argument, r.ep, <<>>, c), LAMBDA s, d :
                       One(d, s.ep, s.values \o r.values))),
                 One(code, ep, <<>>), n.arguments)
  IN  ForEach(arguments, LAMBDA r, c :
        ForEach(Build(n.call, r.ep, r.values, c), LAMBDA s, d :
          One(d, s.ep, values \o s.values)))

Build(n, ep, values, code) ==
  CASE code.error # "none" -> Outcome(code, <<>>)
    [] n.kind = "terminator" -> One(code, ep, values)
    [] n.kind = "empty" -> One(code, ep, Append(values, Without))
    [] n.kind = "literal" ->
         Build(n.next, ep,
               Append(values, Scalar(BuiltinType("int"), Constant(n.value))), code)
    [] n.kind = "string" ->
         Build(n.next, ep, Append(values, [rep |-> "string", id |-> n.id,
                                           text |-> n.text]), code)
    [] n.kind = "frame" -> Build(n.next, ep, <<>>, code)
    [] n.kind = "local" ->
         Build(n.next, WithLocals(ep, (<<n.name>> :> Last(values)) @@ ep.locals),
               Front(values), code)
    [] n.kind = "advance" ->
         One(Emit(code, ep.block, Increment(n.index)), ep, <<>>)
    [] n.kind = "member" -> BuildMember(n, ep, values, code)
    [] n.kind = "binary" -> BuildBinary(n, ep, values, code)
    [] n.kind = "sink" -> BuildSink(n, ep, values, code)
    [] n.kind = "indexSink" -> BuildIndexSink(n, ep, values, code)
    [] n.kind = "instantiation" -> BuildInstantiation(n, ep, values, code)
    [] n.kind = "array" -> BuildArrayLiteral(n, ep, values, code)
    [] n.kind = "expansion" -> BuildExpansion(n, ep, values, code)
    [] n.kind = "continuation" -> BuildContinuation(ep, values, code)
    [] n.kind = "return" -> BuildReturn(n, ep, values, code)
    [] n.kind = "conditional" -> BuildConditional(n, ep, values, code)
    [] n.kind = "exportTerminator" -> BuildExportTerminator(ep, values, code)
    [] n.kind = "proxy" -> BuildProxy(n, ep, values, code)
    [] n.kind = "segment" -> BuildSegment(n, ep, values, code)
    [] n.kind = "evaluation" -> BuildEvaluation(n, ep, values, code)
    [] n.kind = "call" -> BuildCall(n, ep, values, code)

\* ExportedFunctionNode: the alloc block links to the one the body starts in.
Compile(program) ==
  LET start == LinkBlocks(InsertBlock(AddBlock(AddBlock(NoCode)), 1), 1, 2)
  IN  Build(program.main, RootContext(program.functions, 2), <<>>, start).code
=============================================================================
