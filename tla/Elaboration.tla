---------------------------- MODULE Elaboration ----------------------------
(***************************************************************************)
(* The interpreter of programs (interpreter/eval.rs, include.rs,           *)
(* binding.rs, resolve.rs) over the global store                           *)
(* (interpreter/global_store.rs). Modules are interpreted one after the    *)
(* other. A block of a module makes a type, from that of an address, or    *)
(* adds to one that is there. An instruction that fails is reported and    *)
(* the next one is interpreted, but in the body of a local block.          *)
(*                                                                         *)
(* The program is a CONSTANT of which any instruction may be left out. So  *)
(* is what its expressions stand for (Expressions): an operator of the     *)
(* store, the complex the expression is in, and the expression.            *)
(***************************************************************************)
EXTENDS Scopes

CONSTANTS
    Programs,                   \* sequence of [file, name, resolutions, program]
    diagram_as_term(_, _, _),   \* of a store, a complex and an expression
    pmap_as_term(_, _, _, _),   \* of a store, a complex, a domain and a definition
    map_applied(_, _)           \* of a map and a diagram

VARIABLES
    next_id,        \* the counter of global identifiers
    module_names,   \* [short name -> file]
    current,        \* how many modules were started
    frame,          \* the block that is interpreted
    scope,          \* the complex it works on, if it is a copy
    todo,           \* the rest of the block
    errors          \* how many instructions of the module failed

vars == <<classifier, cell_data, complexes, next_id, module_names, current, frame, scope, todo, errors>>
cells == <<classifier, cell_data, next_id>>
Store == [classifier |-> classifier, cell_data |-> cell_data, complexes |-> complexes]

NoType == 0
Type(type_id) == <<"type", type_id>>
Module(file) == <<"module", file>>
NoDomain == <<"none">>

NoFrame == [kind |-> "none"]
ModuleFrame == [kind |-> "module"]

Init ==
    /\ classifier = <<>> /\ cell_data = <<>> /\ complexes = <<>>
    /\ next_id = 1 /\ module_names = <<>> /\ current = 0
    /\ frame = NoFrame /\ scope = Complex /\ todo = <<>> /\ errors = 0

ThisModule == Module(Programs[current].file)
current_module_scope == complexes[ThisModule]
Working == IF frame.kind = "module" THEN current_module_scope ELSE scope

----------------------------------------------------------------------------
(* Addresses.                                                              *)

\* The module that is included under a name.
SubmoduleAt(c, part) ==
    IF c = Failed THEN Failed
    ELSE IF <<part>> \notin DOMAIN c.maps THEN Failed
    ELSE IF c.maps[<<part>>].domain[1] # "module" THEN Failed
    ELSE complexes[c.maps[<<part>>].domain]

resolve_address_prefix_scope(c, prefix) == FoldLeft(SubmoduleAt, c, prefix)

type_id_of_named_diagram(c, name) ==
    IF c = Failed THEN NoType
    ELSE IF name \in DOMAIN c.diagrams /\ is_cell(c.diagrams[name]) THEN top_label(c.diagrams[name])
    ELSE NoType

resolve_root_owner_type_id == (CHOOSE g \in Named(current_module_scope, <<>>) : TRUE).tag

\* The type at an address, or NoType; the root for the empty one.
interpret_address(address) ==
    LET type_id == type_id_of_named_diagram(resolve_address_prefix_scope(current_module_scope, Front(address)),
                                       <<Last(address)>>)
    IN  IF address = <<>> THEN resolve_root_owner_type_id
        ELSE IF Type(type_id) \in DOMAIN complexes THEN type_id
        ELSE NoType

\* Maps at the top level go from modules, all others from types.
resolve_map_domain(address) ==
    IF frame.kind = "module"
    THEN IF Len(address) = 1 /\ address[1] \in DOMAIN module_names THEN Module(module_names[address[1]]) ELSE NoDomain
    ELSE IF interpret_address(address) = NoType THEN NoDomain
    ELSE Type(interpret_address(address))

----------------------------------------------------------------------------
(* Expressions.                                                            *)

interpret_diagram(c, e) ==
    LET term == diagram_as_term(Store, c, e)
    IN  IF IsDiagram(term) THEN term ELSE Failed

interpret_boundaries(c, faces) == [i \in DOMAIN faces |-> interpret_diagram(c, faces[i])]

\* The map is recorded as one from the domain that is declared.
Declared(f, domain, total) ==
    IF f = Failed THEN Failed
    ELSE IF total /\ ~check_map_totality([f EXCEPT !.domain = domain]) THEN Failed
    ELSE [f EXCEPT !.domain = domain]

finish_def_pmap(c, domain, dp) == Declared(pmap_as_term(Store, c, domain, dp.value), domain, dp.total)

----------------------------------------------------------------------------
(* Blocks.                                                                 *)

Instr == Head(todo)
InstrName == <<Instr.name>>
Doing(op, kinds) == todo # <<>> /\ Instr.op = op /\ frame.kind \in kinds

Fail == errors' = errors + 1

initialize_module_context ==
    /\ frame.kind = "none" /\ current < Len(Programs)
    /\ LET program == Programs[current + 1]
           root == cell0(next_id)
       IN  /\ classifier' = With(classifier, next_id, root)
           /\ cell_data' = With(cell_data, next_id, <<>>)
           /\ complexes' = With(With(complexes, Type(next_id), Complex), Module(program.file),
                                add_diagram(add_generator(Complex, <<>>, next_id), <<>>, root))
           /\ module_names' = With(module_names, program.name, program.file)
           /\ todo' = program.program
    /\ next_id' = next_id + 1 /\ current' = current + 1
    /\ frame' = ModuleFrame
    /\ UNCHANGED <<scope, errors>>

\* The next module is interpreted if nothing was wrong with this one.
next_module ==
    /\ frame.kind = "module" /\ todo = <<>> /\ errors = 0
    /\ frame' = NoFrame
    /\ UNCHANGED <<cells, complexes, module_names, current, scope, todo, errors>>

Omit ==
    /\ todo # <<>> /\ "keep" \notin DOMAIN Instr
    /\ todo' = Tail(todo)
    /\ UNCHANGED <<cells, complexes, module_names, current, frame, scope, errors>>

\* A block works on a copy of the complex of the type it starts from.
Open(kind, type_id, block) ==
    /\ frame' = [kind |-> kind, owner |-> type_id, block |-> block, rest |-> Tail(todo)]
    /\ scope' = complexes[Type(type_id)]
    /\ UNCHANGED errors

Refuse == Fail /\ todo' = Tail(todo) /\ UNCHANGED <<frame, scope>>

\* The generators of a module are objects.
interpret_type_generator ==
    /\ Doing("type", {"module"})
    /\ IF \/ name_in_use(current_module_scope, InstrName)
          \/ Instr.faces # <<>>
          \/ interpret_address(Instr.address) = NoType
       THEN Refuse
       ELSE Open("type", interpret_address(Instr.address), Instr) /\ todo' = Instr.body
    /\ UNCHANGED <<cells, complexes, module_names, current>>

Leave == frame' = ModuleFrame /\ scope' = Complex /\ todo' = frame.rest

\* The complex of the block becomes that of a new type, with an identity map
\* of its name.
EndOfType ==
    LET name == <<frame.block.name>>
        object == cell0(next_id)
        m == current_module_scope
    IN  /\ frame.kind = "type" /\ todo = <<>>
        /\ next_id' = next_id + 1
        /\ IF name \in DOMAIN scope.maps THEN Fail /\ UNCHANGED <<classifier, cell_data, complexes>>
           ELSE /\ complexes' = With(With(complexes, Type(next_id),
                                          add_map(scope, name, identity_map(scope, Type(next_id)))),
                                     ThisModule, add_diagram(add_generator(m, name, next_id), name, object))
                /\ classifier' = With(classifier, next_id, object)
                /\ cell_data' = With(cell_data, next_id, <<>>)
                /\ UNCHANGED errors
        /\ Leave
        /\ UNCHANGED <<module_names, current>>

\* A local block may extend its complex before its body.
interpret_local_block ==
    /\ Doing("local", {"module"})
    /\ IF interpret_address(Instr.address) = NoType THEN Refuse
       ELSE Open("extend", interpret_address(Instr.address), Instr) /\ todo' = Instr.extend
    /\ UNCHANGED <<cells, complexes, module_names, current>>

interpret_local_body ==
    /\ frame.kind = "extend" /\ todo = <<>>
    /\ frame' = [frame EXCEPT !.kind = "local"] /\ todo' = frame.block.body
    /\ UNCHANGED <<cells, complexes, module_names, current, scope, errors>>

EndOfLocalBlock ==
    /\ frame.kind = "local" /\ todo = <<>>
    /\ Leave
    /\ UNCHANGED <<cells, complexes, module_names, current, errors>>

----------------------------------------------------------------------------
(* Instructions of a body, which leave its complex as it is when they      *)
(* fail.                                                                   *)

\* The complex of the block is c from now on.
Update(c) ==
    /\ todo' = Tail(todo)
    /\ IF c = Failed THEN Fail /\ UNCHANGED scope ELSE scope' = c /\ UNCHANGED errors
    /\ UNCHANGED <<module_names, current, frame>>

insert_complex_binding(c, name, bound) == IF name_in_use(c, name) THEN Failed ELSE bound

EnterCell(data, new) ==
    /\ next_id' = next_id + 1
    /\ IF new = Failed THEN Update(Failed) /\ UNCHANGED <<classifier, cell_data>>
       ELSE /\ Update(add_diagram(add_generator(scope, InstrName, next_id), InstrName, new))
            /\ classifier' = With(classifier, next_id, new)
            /\ cell_data' = With(cell_data, next_id, data)

insert_global_cell(data) == EnterCell(data, cell(next_id, data))

GeneratorOver(data) ==
    IF name_in_use(scope, InstrName) \/ \E i \in DOMAIN data : data[i] = Failed
    THEN Update(Failed) /\ UNCHANGED cells
    ELSE insert_global_cell(data)

interpret_complex_generator ==
    /\ Doing("generator", {"type", "extend"})
    /\ GeneratorOver(interpret_boundaries(scope, Instr.faces))
    /\ UNCHANGED complexes

ValueOf(instr, domain) ==
    IF instr.op = "let" THEN interpret_diagram(Working, instr.value)
    ELSE IF domain = NoDomain THEN Failed
    ELSE finish_def_pmap(Working, domain, instr)

Value(instr) == ValueOf(instr, IF instr.op = "let" THEN NoDomain ELSE resolve_map_domain(instr.address))

Binding(c, name, value) ==
    IF value = Failed THEN Failed
    ELSE IF IsMap(value) THEN add_map(c, name, value)
    ELSE add_diagram(c, name, value)

interpret_complex_index ==
    /\ Doing("index", {"type", "extend"})
    /\ Update(insert_complex_binding(scope, InstrName, add_index(scope, InstrName, Instr.values)))
    /\ UNCHANGED <<cells, complexes>>

\* The name that is given, or that of the type in the module if it has no dot.
IncludeNames(type_id) ==
    IF "alias" \in DOMAIN Instr THEN {<<Instr.alias>>}
    ELSE {g.name : g \in {g \in Image(current_module_scope.by_name) : g.tag = type_id /\ Len(g.name) < 2}}

Included(type_id, name) ==
    LET subtype == complexes[Type(type_id)]
    IN  add_map(insert_generators_by_tag(scope, prefixed_generators(subtype, name, FALSE)),
                name, identity_map(subtype, Type(type_id)))

interpret_include_instr ==
    /\ Doing("include", {"type", "extend"})
    /\ LET type_id == interpret_address(Instr.address)
           name == CHOOSE name \in IncludeNames(type_id) : TRUE
       IN  Update(IF type_id = NoType \/ IncludeNames(type_id) = {} THEN Failed
                  ELSE insert_complex_binding(scope, name, Included(type_id, name)))
    /\ UNCHANGED <<cells, complexes>>

----------------------------------------------------------------------------
(* Attachment: what the map has no image of gets a new cell.               *)

\* Fault: only the input is mapped.
mapped_cell_data_input(map, tag) ==
    [i \in DOMAIN cell_data[tag] |-> IF i = 1 THEN map_applied(map, cell_data[tag][i]) ELSE cell_data[tag][i]]

mapped_cell_data(map, tag) == [i \in DOMAIN cell_data[tag] |-> map_applied(map, cell_data[tag][i])]

\* A cell is recorded before it is known to be one.
AddCopy(acc, tag, data, copy) ==
    LET recorded == [acc EXCEPT !.next = @ + 1, !.data = With(@, acc.next, data)]
    IN  IF copy = Failed THEN [recorded EXCEPT !.failed = TRUE]
        ELSE [recorded EXCEPT
                 !.scope = add_generator(@, qualify_name(acc.prefix, acc.names[tag]), acc.next),
                 !.classifiers = With(@, acc.next, copy),
                 !.map = [table |-> With(@.table, tag, copy), cellular |-> @.cellular]]

AttachOver(acc, tag, data) ==
    IF \E i \in DOMAIN data : data[i] = Failed THEN acc
    ELSE IF \E i \in DOMAIN data : top_dim(data[i]) # dim_of(tag) - 1 THEN [acc EXCEPT !.failed = TRUE]
    ELSE AddCopy(acc, tag, data, cell(acc.next, data))

AttachGenerator(acc, tag) ==
    IF acc.failed \/ is_defined_at(acc.map, tag) \/ Type(tag) \in DOMAIN complexes THEN acc
    ELSE AttachOver(acc, tag, mapped_cell_data(acc.map, tag))

Start(map, prefix, attachment) ==
    [scope |-> scope, map |-> map, prefix |-> prefix, names |-> attachment.by_tag,
     next |-> next_id, data |-> <<>>, classifiers |-> <<>>, failed |-> FALSE]

extend_scope_with_attached_generators(map, prefix, attachment) ==
    LET generators == sorted_generators(attachment)
        attached[n \in 0..Len(generators)] ==
            IF n = 0 THEN Start(map, prefix, attachment) ELSE AttachGenerator(attached[n - 1], generators[n])
    IN  attached[Len(generators)]

AttachedScope(acc, domain) ==
    IF acc.failed THEN Failed ELSE add_map(acc.scope, InstrName, EvalMap(domain, acc.map, <<>>))

\* Fault: what was made before a failure stays.
Attached_partly(acc, domain) ==
    /\ todo' = Tail(todo) /\ UNCHANGED <<module_names, current, frame>>
    /\ IF acc.failed THEN Fail /\ scope' = acc.scope
       ELSE scope' = AttachedScope(acc, domain) /\ UNCHANGED errors
    /\ next_id' = acc.next
    /\ cell_data' = Over(acc.data, cell_data)
    /\ classifier' = Over(acc.classifiers, classifier)

Attached(acc, domain) ==
    /\ Update(AttachedScope(acc, domain))
    /\ next_id' = acc.next
    /\ cell_data' = Over(acc.data, cell_data)
    /\ classifier' = Over(acc.classifiers, classifier)

AlongMap(domain) ==
    IF "along" \in DOMAIN Instr THEN pmap_as_term(Store, scope, domain, Instr.along)
    ELSE EvalMap(domain, empty_map, <<>>)

AttachAlong(f, domain) ==
    IF f = Failed THEN Update(Failed) /\ UNCHANGED cells
    ELSE IF f.holes # <<>> \/ name_in_use(scope, InstrName) THEN Update(Failed) /\ UNCHANGED cells
    ELSE Attached(extend_scope_with_attached_generators(f.map, InstrName, complexes[domain]), domain)

interpret_attach_instr ==
    /\ Doing("attach", {"type", "extend"})
    /\ LET type_id == interpret_address(Instr.address)
       IN  IF type_id = NoType THEN Update(Failed) /\ UNCHANGED cells
           ELSE AttachAlong(AlongMap(Type(type_id)), Type(type_id))
    /\ UNCHANGED complexes

----------------------------------------------------------------------------
(* Instructions of a local block: the type gets what is named, too. The    *)
(* first failure ends the block.                                           *)

Break == Fail /\ todo' = <<>> /\ UNCHANGED <<scope, complexes>>

insert_type_binding(value) ==
    IF value = Failed \/ name_in_use(scope, InstrName) THEN Break
    ELSE /\ scope' = Binding(scope, InstrName, value)
         /\ complexes' = [complexes EXCEPT ![Type(frame.owner)] = Binding(@, InstrName, value)]
         /\ todo' = Tail(todo) /\ UNCHANGED errors

interpret_local_index ==
    /\ Doing("index", {"local"})
    /\ IF name_in_use(scope, InstrName) THEN Break
       ELSE /\ scope' = add_index(scope, InstrName, Instr.values)
            /\ todo' = Tail(todo) /\ UNCHANGED <<complexes, errors>>
    /\ UNCHANGED <<cells, module_names, current, frame>>

\* Maps are compared where either is defined, and only from one domain.
check_assert(left, right) ==
    IF IsDiagram(left) /\ IsDiagram(right) THEN isomorphic(left, right)
    ELSE IF ~IsMap(left) \/ ~IsMap(right) THEN FALSE
    ELSE /\ left.domain = right.domain
         /\ DOMAIN left.map.table = DOMAIN right.map.table
         /\ \A tag \in DOMAIN left.map.table : isomorphic(left.map.table[tag], right.map.table[tag])

interpret_assert ==
    /\ Doing("assert", {"local"})
    /\ IF check_assert(diagram_as_term(Store, scope, Instr.lhs),
                       diagram_as_term(Store, scope, Instr.rhs))
       THEN todo' = Tail(todo) /\ UNCHANGED <<scope, complexes, errors>>
       ELSE Break
    /\ UNCHANGED <<cells, module_names, current, frame>>

----------------------------------------------------------------------------
(* Instructions at the top level of a module.                              *)

UpdateModule(c) ==
    /\ todo' = Tail(todo)
    /\ IF c = Failed THEN Fail /\ UNCHANGED complexes
       ELSE complexes' = [complexes EXCEPT ![ThisModule] = c] /\ UNCHANGED errors
    /\ UNCHANGED <<module_names, current, frame, scope>>

\* At the top level, whether the name is free is not looked at.
Bind(value) ==
    \/ /\ frame.kind \in {"type", "extend"}
       /\ Update(insert_complex_binding(scope, InstrName, Binding(scope, InstrName, value)))
       /\ UNCHANGED complexes
    \/ /\ frame.kind = "local"
       /\ insert_type_binding(value)
       /\ UNCHANGED <<module_names, current, frame>>
    \/ /\ frame.kind = "module"
       /\ UpdateModule(Binding(current_module_scope, InstrName, value))

interpret_let_diag ==
    /\ todo # <<>> /\ Instr.op \in {"let", "map"}
    /\ Bind(Value(Instr))
    /\ UNCHANGED cells

interpret_type_index ==
    /\ Doing("index", {"module"})
    /\ UpdateModule(IF name_in_use(current_module_scope, InstrName) THEN Failed
                    ELSE add_index(current_module_scope, InstrName, Instr.values))
    /\ UNCHANGED cells

IncludedModule(file, alias) ==
    LET source == complexes[Module(file)]
    IN  add_map(insert_generators_by_tag(current_module_scope, prefixed_generators(source, alias, TRUE)),
                alias, identity_map(source, Module(file)))

interpret_include_module_instr ==
    /\ Doing("include", {"module"})
    /\ LET resolutions == Programs[current].resolutions
           alias == <<Instr.alias>>
       IN  UpdateModule(IF name_in_use(current_module_scope, alias) THEN Failed
                        ELSE IF Instr.name \notin DOMAIN resolutions THEN Failed
                        ELSE IF Module(resolutions[Instr.name]) \notin DOMAIN complexes THEN Failed
                        ELSE IncludedModule(resolutions[Instr.name], alias))
    /\ UNCHANGED cells

\* A for-block is replaced by its body, once for each value.
expand_for ==
    /\ Doing("for", {"module", "type", "extend", "local"})
    /\ IF CanExpand(Working, Instr) THEN todo' = expand_body(Working, Instr) \o Tail(todo) /\ UNCHANGED errors
       ELSE Fail /\ todo' = IF frame.kind = "local" THEN <<>> ELSE Tail(todo)
    /\ UNCHANGED <<cells, complexes, module_names, current, frame, scope>>

Next ==
    \/ initialize_module_context
    \/ next_module
    \/ Omit
    \/ interpret_type_generator
    \/ EndOfType
    \/ interpret_local_block
    \/ interpret_local_body
    \/ EndOfLocalBlock
    \/ interpret_complex_generator
    \/ interpret_complex_index
    \/ interpret_include_instr
    \/ interpret_attach_instr
    \/ interpret_local_index
    \/ interpret_assert
    \/ interpret_let_diag
    \/ interpret_type_index
    \/ interpret_include_module_instr
    \/ expand_for

Spec == Init /\ [][Next]_vars

----------------------------------------------------------------------------
(* Properties.                                                             *)

Complexes == Image(complexes) \cup {scope}

\* The tables of a complex agree whatever is included and attached, and
\* however often: each generator has one name, by which it is found, its
\* cell is in the store, and no two generators share a name
\* (Complex::assert_invariants, insert_generators_by_tag).
IndicesAgree ==
    \A c \in Complexes :
        /\ DOMAIN c.by_tag = Image(GeneratorsOf(c))
        /\ \A g \in Image(c.by_name) :
               /\ c.by_tag[g.tag] = g.name
               /\ Named(c, g.name) = {g}
               /\ g.tag \in DOMAIN classifier \cap DOMAIN cell_data

\* Every map there is preserves boundaries: the image of a boundary of a
\* generator is the boundary of its image. An attachment enters its images
\* without the test that a clause is put to (mapped_cell_data, insert_raw).
MapsPreserveBoundaries ==
    \A c \in Complexes : \A name \in DOMAIN c.maps :
        LET map == c.maps[name].map
        IN  \A tag \in DOMAIN map.table : \A i \in DOMAIN cell_data[tag] :
                MatchesBoundary(map_applied(map, cell_data[tag][i]), Signs[i], dim_of(tag) - 1, map.table[tag])

Components(name) == [i \in DOMAIN name |-> [name |-> name[i]]]

\* What can be written after the name of a map.
NamesUnder(f) ==
    LET domain == complexes[f.domain]
    IN  ({g.name : g \in Image(domain.by_name)} \cup DOMAIN domain.diagrams) \ {<<>>}

Read(c, dotted) == diagram_as_term(Store, c, <<[dim |-> 0, exprs |-> <<dotted>>]>>)

Same(term, d) == IsDiagram(term) /\ isomorphic(term, d)

\* What the name reads where the map f starts, d, is read in c as its image.
ReadAlike(c, dotted, d, image) ==
    (d # Failed /\ image # Failed) =>
        /\ Same(Read(c, dotted), image)
        /\ top_dim(d) > 0 =>
               \A sign \in {"in", "out"} :
                   Same(Read(c, Append(dotted, [bd |-> sign])),
                        diagram_boundary(sign, top_dim(d) - 1, image))

FollowsMap(c, dotted, f, d) == ReadAlike(c, dotted, d, IF d = Failed THEN Failed ELSE map_applied(f.map, d))

\* A dotted name means the same however it is read: found as one name, or
\* followed map by map; with the boundary taken before the maps are applied,
\* or after (decompose, execute).
DottedNamesAgree ==
    \A c \in Complexes : \A prefix \in DOMAIN c.maps \ DOMAIN c.diagrams : \A name \in NamesUnder(c.maps[prefix]) :
        FollowsMap(c, Components(prefix \o name), c.maps[prefix],
                   Read(complexes[c.maps[prefix].domain], Components(name)))

\* What is included or attached has an image in full: nothing of it is left
\* out because one of its faces had no image yet (sorted_generators,
\* extend_scope_with_attached_generators).
GluedInFull ==
    [][(todo # <<>> /\ frame.kind \in {"type", "extend"}) =>
          (Instr.op \in {"include", "attach"} =>
              \A name \in DOMAIN scope'.maps \ DOMAIN scope.maps :
                  Image(GeneratorsOf(complexes[scope'.maps[name].domain]))
                      \subseteq DOMAIN scope'.maps[name].map.table)]_vars

\* An instruction that fails, in its last step or before, leaves no trace but
\* the report: the store's complexes and that of the block are as they were,
\* unless the failure ends the block (interpret_attach_instr).
FailureChangesNothing ==
    [][errors' > errors => complexes' = complexes /\ (frame' = frame => scope' = scope)]_vars

=============================================================================
