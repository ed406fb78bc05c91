--------------------------- MODULE MapDefinitions ---------------------------
(***************************************************************************)
(* Definitions of maps (interpreter/partial_map.rs): a definition starts   *)
(* from nothing, from a map defined before or from a composite of two,     *)
(* takes clauses, each of which may fail, and is named.                    *)
(***************************************************************************)
EXTENDS MapsWithHoles

CONSTANTS
    Generators,     \* the generators, as declared, of all complexes
    Complexes,      \* [name -> the generators of a complex that maps go from]
    Target,         \* the complex the definitions are written in
    ScopeOf,        \* the complex each map is defined in, [name -> complex]
    FirstMaps(_),   \* the maps that are there before, in terms of diagrams
    Clauses,        \* the clauses that may be written, [complex -> sequence of pairs of expressions]
    Names,          \* the names of the maps to come, in order
    MaxClauses      \* clauses that are written
ASSUME BoundsAssumption == MaxClauses \in Nat

VARIABLES
    maps,           \* the maps defined
    build,          \* the map under construction, or NoBuild
    origin,         \* what it started from
    given,          \* which clauses it has taken
    written         \* how many clauses were written, in all definitions
vars == <<classifier, cell_data, complexes, maps, build, origin, given, written>>

NoBuild == [none |-> TRUE]

Init ==
    /\ classifier = ComplexOf(Generators)
    /\ cell_data = [tag \in DOMAIN classifier |->
                       BoundariesIn(classifier, SelectSeq(Generators, LAMBDA g : g.tag = tag)[1].faces)]
    /\ complexes = [name \in DOMAIN Complexes |->
                       [by_name |-> [i \in DOMAIN Complexes[name] |->
                                        [name |-> Complexes[name][i], tag |-> Complexes[name][i]]]]]
    /\ maps = FirstMaps(classifier)
    /\ build = NoBuild /\ origin = NoBuild /\ given = {} /\ written = 0

----------------------------------------------------------------------------
(* A definition starts.                                                    *)

From(start, maps_read) ==
    /\ build = NoBuild /\ start # Failed
    /\ build' = start
    /\ origin' = [start |-> start, maps |-> maps_read]
    /\ UNCHANGED <<classifier, cell_data, complexes, maps, given, written>>

FromNothing(domain) == From(EvalMap(domain, empty_map, <<>>), <<>>)

FromMap(name) ==
    /\ ScopeOf[name] = Target
    /\ \E domain \in DOMAIN Clauses :
           /\ validate_map_as_source(maps[name], domain)
           /\ From([maps[name] EXCEPT !.domain = domain], <<name>>)

\* outer.inner: inner is looked up where outer is defined on.
FromComposite(outer, inner) ==
    /\ ScopeOf[outer] = Target
    /\ ScopeOf[inner] = maps[outer].domain
    /\ From(compose_with_holes(maps[outer], maps[inner]), <<outer, inner>>)

----------------------------------------------------------------------------
(* It takes a clause and is named.                                         *)

Abandon == build' = NoBuild /\ origin' = NoBuild /\ given' = {}

\* What an expression of a clause stands for: a map by its name, a diagram by
\* a tree of pastes, or nothing.
Term(expression) ==
    IF expression = Unknown THEN Unknown
    ELSE IF "map" \in DOMAIN expression THEN maps[expression.map]
    ELSE realise_tree(expression)

Interpreted(b, i) ==
    LET clause == Clauses[b.domain][i]
    IN  interpret_partial_map_clause(b, Term(clause.lhs), Term(clause.rhs))

\* A clause that fails ends the definition.
Continue(b, i) ==
    IF b = Failed THEN Abandon ELSE build' = b /\ given' = given \cup {i} /\ UNCHANGED origin

Clause ==
    /\ build # NoBuild /\ written < MaxClauses /\ written' = written + 1
    /\ \E i \in DOMAIN Clauses[build.domain] \ given : Continue(Interpreted(build, i), i)
    /\ UNCHANGED <<classifier, cell_data, complexes, maps>>

Unused == SelectSeq(Names, LAMBDA name : name \notin DOMAIN maps)

finish_def_pmap(total) ==
    /\ build # NoBuild /\ Unused # <<>>
    /\ maps' = IF total /\ ~check_map_totality(build) THEN maps ELSE Head(Unused) :> build @@ maps
    /\ Abandon
    /\ UNCHANGED <<classifier, cell_data, complexes, written>>

Next ==
    \/ \E domain \in DOMAIN Clauses : FromNothing(domain)
    \/ \E name \in DOMAIN maps : FromMap(name)
    \/ \E outer, inner \in DOMAIN maps : FromComposite(outer, inner)
    \/ Clause
    \/ \E total \in BOOLEAN : finish_def_pmap(total)

Spec == Init /\ [][Next]_vars

----------------------------------------------------------------------------
(* Properties.                                                             *)

Building == build # NoBuild

FacesIn(tag) == Image(FacesOf(tag))

\* While a definition takes its clauses, the boundary kept for each pending
\* image is the one its faces have now, whatever order they were given in;
\* what it waits for is exactly the faces without an image, each of which is
\* pending itself; no conditional is left whose faces all have images; and
\* what has an image rests on faces that have one (transport_cell_boundaries,
\* commit_one, cascade).
PendingIsCurrent ==
    Building =>
        /\ \A i \in DOMAIN build.holes :
               LET h == build.holes[i]
               IN  /\ h.boundary = transport_cell_boundaries(build, h.source)
                   /\ deps(h) = FacesIn(h.source) \ DOMAIN build.map.table
                   /\ deps(h) \subseteq sources(build.holes)
                   /\ h.image # Unknown => deps(h) # {}
        /\ \A tag \in DOMAIN build.map.table : FacesIn(tag) \subseteq DOMAIN build.map.table

\* A map takes each boundary of its generators, and each generator, to the
\* diagram pasted from the images of its cells, and commutes with taking
\* boundaries; so reading the image off the labels, where the map keeps
\* cells, is no different from pasting it (apply).
MapIsFunctorial ==
    LET images_agree(image, d) ==
            /\ well_formed(image)
            /\ isomorphic(image, apply_tree(build.map, TopTree(d)))
            /\ \A k \in 0..top_dim(d) - 1, sign \in {"in", "out"} :
                   isomorphic(apply(build.map, diagram_boundary(sign, k, d)), diagram_boundary(sign, k, image))
    IN  Building =>
            \A tag \in Image(GeneratorsOf(complexes[build.domain])) :
                \A d \in {classifier[tag]} \cup Image(cell_data[tag]) :
                    leaf_tags(TopTree(d)) \subseteq DOMAIN build.map.table => images_agree(apply(build.map, d), d)

\* The generator a clause gives an image, if it does.
About(i) ==
    LET clause == Clauses[build.domain][i]
    IN  IF clause.rhs # Unknown /\ DOMAIN clause.lhs = {"leaf"} THEN {clause.lhs.leaf} ELSE {}

\* The images that follow from one: a boundary that is a single generator goes
\* to the boundary of the image.
RECURSIVE Implied(_, _)
Implied(tag, image) ==
    {<<tag, image>>} \cup
    UNION {Implied(top_label(cell_data[tag][i]), diagram_boundary(Signs[i], dim_of(tag) - 1, image)) :
              i \in {i \in DOMAIN cell_data[tag] : is_cell(cell_data[tag][i])}}

\* What a clause gives to which generators.
Gives(i) ==
    LET clause == Clauses[build.domain][i]
        pairs == interpret_assign(Term(clause.lhs), Term(clause.rhs))
    IN  UNION {Implied(top_label(pairs[n].left), pairs[n].right) :
                  n \in {n \in DOMAIN pairs : is_cell(pairs[n].left) /\ pairs[n].right \notin {Unknown, Failed}}}

Agree(images) == \A x, y \in images : x[1] = y[1] => isomorphic(x[2], y[2])

\* All the images a map with holes knows, pending ones included.
KnownMap(f) ==
    LET conditionals == {i \in DOMAIN f.holes : f.holes[i].image # Unknown}
    IN  [table |-> f.map.table @@ [tag \in {f.holes[i].source : i \in conditionals} |->
                                      f.holes[entry_index(f, tag)].image],
         cellular |-> FALSE]

Known(f) == {<<tag, KnownMap(f).table[tag]>> : tag \in DOMAIN KnownMap(f).table}

SameMap(b, c) ==
    /\ c # Failed
    /\ DOMAIN b.map.table = DOMAIN c.map.table
    /\ \A tag \in DOMAIN b.map.table : isomorphic(b.map.table[tag], c.map.table[tag])
    /\ Image(b.holes) = Image(c.holes)

Taken(start, chosen) ==
    FoldLeft(LAMBDA b, i : IF b = Failed THEN b ELSE Interpreted(b, i),
             start, SelectSeq([i \in 1..Len(Clauses[start.domain]) |-> i], LAMBDA i : i \in chosen))

\* Clauses that give images to different generators, none of which had one,
\* and whose images agree on what follows for their boundaries, make the same
\* map with the same holes in whatever order they are written (assign_cell,
\* cascade).
OrderDoesNotMatter ==
    (/\ Building
     /\ \A i \in given : About(i) # {} /\ About(i) \cap DOMAIN KnownMap(origin.start).table = {}
     /\ \A i, j \in given : About(i) = About(j) => i = j
     /\ Agree(Known(origin.start) \cup UNION {Gives(i) : i \in given}))
    => SameMap(build, Taken(origin.start, given))

\* A clause forgets nothing: what is covered stays covered, and an image once
\* given, committed or pending, stays what it was unless the clause gives
\* another to the same generator, or to one that has it as a boundary
\* (upsert_entry, commit_one).
ImagesAreKept ==
    [][Building /\ build' # NoBuild =>
          \A tag \in Covered(build) :
              /\ tag \in Covered(build')
              /\ \/ KnownImage(build, tag) = Unknown
                 \/ KnownImage(build', tag) = KnownImage(build, tag)
                 \/ \E i \in given' \ given : <<tag, KnownImage(build', tag)>> \in Gives(i)]_vars

\* A composite knows the image of a generator whenever the inner map knows it
\* and the outer map knows the images of its cells, and then it is the one
\* pasted from these; it is committed wherever composing the committed parts
\* gives an image; and it covers what the outer map covers
\* (compose_with_holes, PartialMap::compose).
CompositeIsPointwise ==
    (Building /\ given = {} /\ Len(origin.maps) = 2) =>
        LET f == maps[origin.maps[1]]
            g == maps[origin.maps[2]]
            composed == compose(f.map, g.map)
        IN  /\ \A x \in DOMAIN KnownMap(g).table :
                   LET image == KnownMap(g).table[x]
                       cells == leaf_tags(TopTree(image))
                   IN  /\ x \in Covered(build) <=> cells \subseteq Covered(f)
                       /\ cells \subseteq DOMAIN KnownMap(f).table =>
                              isomorphic(KnownImage(build, x), apply_tree(KnownMap(f), TopTree(image)))
            /\ \A x \in DOMAIN composed.table :
                   /\ is_defined_at(build.map, x)
                   /\ isomorphic(build.map.table[x], composed.table[x])
=============================================================================
