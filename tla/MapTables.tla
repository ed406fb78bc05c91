----------------------------- MODULE MapTables -----------------------------
(***************************************************************************)
(* Generators, complexes as what maps go from, and maps as what they       *)
(* record: an image for each generator that has one (core/partial_map.rs), *)
(* and what is pending of the others (core/map_hole.rs).                   *)
(***************************************************************************)
EXTENDS Diagrams

VARIABLES
    cell_data,  \* [tag -> <<input, output>>], <<>> for a generator of dimension 0
    complexes   \* [domain of maps -> a record with by_name, its generators by name]

Signs == <<"in", "out">>

dim_of(tag) == top_dim(classifier[tag])

is_cell(d) == IsLeaf(TopTree(d))
top_label(d) == d.labels[<<top_dim(d), 0>>]

GeneratorsOf(complex) == [i \in DOMAIN complex.by_name |-> complex.by_name[i].tag]

\* Fault: the generators in the order of their names.
sorted_generators_by_name(complex) == GeneratorsOf(complex)

\* The tag after those of its dimension and of lower ones.
InOrder(tags, tag) ==
    InsertAt(tags, Cardinality({i \in DOMAIN tags : dim_of(tags[i]) =< dim_of(tag)}) + 1, tag)

\* In ascending dimension, and by name within one.
sorted_generators(complex) ==
    LET tags == GeneratorsOf(complex)
        sorted[n \in 0..Len(tags)] == IF n = 0 THEN <<>> ELSE InOrder(sorted[n - 1], tags[n])
    IN  sorted[Len(tags)]

----------------------------------------------------------------------------
(* Maps.                                                                   *)

empty_map == [table |-> <<>>, cellular |-> TRUE]
is_defined_at(f, tag) == tag \in DOMAIN f.table

MatchesBoundary(mapped, sign, k, image) ==
    mapped # Failed /\ SameDiagram(normal(mapped), boundary_normal(sign, k, image))

\* A map with holes over a complex.
EvalMap(domain, map, holes) == [domain |-> domain, map |-> map, holes |-> holes]
IsMap(term) == "domain" \in DOMAIN term
IsDiagram(term) == "shape" \in DOMAIN term

sources(holes) == {holes[i].source : i \in DOMAIN holes}
Covered(b) == DOMAIN b.map.table \cup sources(b.holes)

check_map_totality(b) == Image(GeneratorsOf(complexes[b.domain])) \subseteq Covered(b)
=============================================================================
