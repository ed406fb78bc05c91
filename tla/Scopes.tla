------------------------------- MODULE Scopes -------------------------------
(***************************************************************************)
(* Complexes as tables of names (core/complex.rs), and what is entered in  *)
(* them from elsewhere (interpreter/include.rs). A name is a sequence of   *)
(* parts: A.x, the generator x of what is included as A, is <<"A", "x">>,  *)
(* and the root of a module has the name <<>>.                             *)
(***************************************************************************)
EXTENDS MapTables

CONSTANT Alphabet   \* the parts of names, in alphabetical order

\* f, and g where f has nothing.
Over(f, g) == [x \in DOMAIN f \cup DOMAIN g |-> IF x \in DOMAIN f THEN f[x] ELSE g[x]]
With(f, x, value) == [y \in DOMAIN f \cup {x} |-> IF y = x THEN value ELSE f[y]]

Complex == [by_name |-> <<>>, by_tag |-> <<>>, diagrams |-> <<>>, maps |-> <<>>, indices |-> <<>>]

----------------------------------------------------------------------------
(* Generators by name and by tag, diagrams, maps and indices.              *)

Position(part) == CHOOSE i \in DOMAIN Alphabet : Alphabet[i] = part

Before(m, n) ==
    \/ Len(m) < Len(n) /\ m = SubSeq(n, 1, Len(m))
    \/ \E i \in DOMAIN m \cap DOMAIN n :
           SubSeq(m, 1, i - 1) = SubSeq(n, 1, i - 1) /\ Position(m[i]) < Position(n[i])

Entry(name, tag) == [name |-> name, tag |-> tag]

Named(c, name) == {g \in Image(c.by_name) : g.name = name}

\* In its place by name, which may be that of another.
Entered(c, name, tag) ==
    IF Named(c, name) = {}
    THEN InsertAt(c.by_name, Cardinality({i \in DOMAIN c.by_name : Before(c.by_name[i].name, name)}) + 1,
                  Entry(name, tag))
    ELSE [i \in DOMAIN c.by_name |-> IF c.by_name[i].name = name THEN Entry(name, tag) ELSE c.by_name[i]]

add_generator(c, name, tag) == [c EXCEPT !.by_name = Entered(c, name, tag), !.by_tag = With(@, tag, name)]

add_diagram(c, name, d) == [c EXCEPT !.diagrams = With(@, name, d)]
add_map(c, name, f) == [c EXCEPT !.maps = With(@, name, f)]
add_index(c, name, values) == [c EXCEPT !.indices = With(@, name, values)]

name_in_use(c, name) == name \in DOMAIN c.diagrams \cup DOMAIN c.maps \cup DOMAIN c.indices

\* What a whole name stands for, dots included.
IsName(c, name) == name \in DOMAIN c.diagrams \/ Named(c, name) # {}
FindDotted(c, name) ==
    IF name \in DOMAIN c.diagrams THEN c.diagrams[name]
    ELSE classifier[(CHOOSE g \in Named(c, name) : TRUE).tag]

----------------------------------------------------------------------------
(* What is included.                                                       *)

qualify_name(prefix, name) == prefix \o name

\* The root of a module, which has no name, is left out.
prefixed_generators(c, prefix, skip_empty_name) ==
    FlattenSeq([i \in DOMAIN c.by_name |->
                   IF skip_empty_name /\ c.by_name[i].name = <<>> THEN <<>>
                   ELSE <<Entry(qualify_name(prefix, c.by_name[i].name), c.by_name[i].tag)>>])

\* Fault: what is there already gets its new name as well.
insert_generators_by_tag_again(c, generators) ==
    FoldLeft(LAMBDA scope, g : add_generator(scope, g.name, g.tag), c, generators)

InsertByTag(c, g) == IF g.tag \in DOMAIN c.by_tag THEN c ELSE add_generator(c, g.name, g.tag)

insert_generators_by_tag(c, generators) ==
    LET inserted[n \in 0..Len(generators)] ==
            IF n = 0 THEN c ELSE InsertByTag(inserted[n - 1], generators[n])
    IN  inserted[Len(generators)]

identity_map(c, domain) ==
    EvalMap(domain, [table |-> Table([tag \in Image(GeneratorsOf(c)) |-> classifier[tag]]), cellular |-> TRUE], <<>>)

----------------------------------------------------------------------------
(* Values of indices, for which a body is repeated.                        *)

Found(c, index) == "values" \in DOMAIN index \/ <<index.name>> \in DOMAIN c.indices

resolve_for_index(c, index) == IF "values" \in DOMAIN index THEN index.values ELSE c.indices[<<index.name>>]

resolve_index_values(c, for) ==
    LET excluded == ToSet(resolve_for_index(c, for.exclude))
    IN  SelectSeq(resolve_for_index(c, for.index), LAMBDA v : v \notin excluded)

CanExpand(c, for) == Found(c, for.index) /\ Found(c, for.exclude)

expand_body(c, for) ==
    FlattenSeq([i \in DOMAIN resolve_index_values(c, for) |-> for.body[resolve_index_values(c, for)[i]]])
=============================================================================
