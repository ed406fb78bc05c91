---------------------------- MODULE Expressions ----------------------------
(***************************************************************************)
(* What an expression stands for in a complex (interpreter/diagram.rs,     *)
(* partial_map.rs).                                                        *)
(***************************************************************************)
EXTENDS MapsWithHoles, Scopes

----------------------------------------------------------------------------
(* Expressions: dotted components, each a name, a boundary or an           *)
(* expression in parentheses; sequences of these; and pastes at a given    *)
(* dimension.                                                              *)

RECURSIVE interpret_diagram_as_term(_, _)

IsBoundary(component) == "bd" \in DOMAIN component

interpret_dcomponent(c, component) ==
    IF IsBoundary(component) THEN component
    ELSE IF "paren" \in DOMAIN component THEN interpret_diagram_as_term(c, component.paren)
    ELSE IF <<component.name>> \in DOMAIN c.diagrams THEN c.diagrams[<<component.name>>]
    ELSE IF <<component.name>> \in DOMAIN c.maps THEN [c.maps[<<component.name>>] EXCEPT !.holes = <<>>]
    ELSE Failed

\* Maps, the outermost first, around a diagram, if any, and boundaries of it.
Decomp(maps, diagram, bds) == [maps |-> maps, diagram |-> diagram, bds |-> bds]

\* One component more, found where the innermost map starts.
Within(maps, term) ==
    IF term = Failed \/ IsBoundary(term) THEN Failed
    ELSE IF IsMap(term) THEN Decomp(Append(maps, term), Undefined, <<>>)
    ELSE Decomp(maps, term, <<>>)

\* With anything but names in it an expression has no name as a whole.
NoName == <<"">>
dotted_name(components) ==
    IF \E i \in DOMAIN components : "name" \notin DOMAIN components[i] THEN NoName
    ELSE [i \in DOMAIN components |-> components[i].name]

\* Fault: the name after a map is looked up where the expression is.
Inside_outside(d, c) == c

\* Where a component is looked up.
Inside(d, c) == IF d.maps = <<>> THEN c ELSE complexes[Last(d.maps).domain]

WithField(d, c, field) ==
    IF d = Failed THEN Failed
    ELSE IF d.diagram = Undefined THEN Within(d.maps, interpret_dcomponent(Inside(d, c), field))
    ELSE IF IsBoundary(field) THEN [d EXCEPT !.bds = Append(@, field.bd)]
    ELSE Failed

\* The longest beginning of two names or more that is a name as a whole.
WholeName(c, components) ==
    LET whole == {n \in 2..Len(components) : IsName(c, dotted_name(SubSeq(components, 1, n)))}
    IN  IF whole = {} THEN 0 ELSE Max(whole)

Base(c, components, n) ==
    Decomp(<<>>, IF n = 0 THEN Undefined ELSE FindDotted(c, dotted_name(SubSeq(components, 1, n))), <<>>)

decompose(c, components) ==
    FoldLeft(LAMBDA d, field : WithField(d, c, field), Base(c, components, WholeName(c, components)),
             SubSeq(components, WholeName(c, components) + 1, Len(components)))

applied(maps, d) == FoldRight(LAMBDA f, image : IF image = Failed THEN Failed ELSE apply(f.map, image), maps, d)

Composed(f, g) == IF f = Failed \/ g = Failed THEN Failed ELSE compose_with_holes(f, g)
composite(maps) == FoldRight(Composed, Front(maps), Last(maps))

\* The boundary is taken first, of the small diagram, and the maps go last.
execute(d) ==
    IF d = Failed THEN Failed
    ELSE IF d.diagram = Undefined THEN composite(d.maps)
    ELSE IF d.bds = <<>> THEN applied(d.maps, d.diagram)
    ELSE IF Len(d.bds) > top_dim(d.diagram) THEN Failed
    ELSE applied(d.maps, diagram_boundary(Last(d.bds), top_dim(d.diagram) - Len(d.bds), d.diagram))

interpret_dexpr(c, components) == execute(decompose(c, components))

Nothing == [nothing |-> TRUE]

\* Diagrams follow each other at the principal dimension.
Juxtaposed(left, right) ==
    IF left = Nothing THEN right
    ELSE IF ~IsDiagram(left) \/ ~IsDiagram(right) THEN Failed
    ELSE IF Min({top_dim(left), top_dim(right)}) = 0 THEN Failed
    ELSE paste(Min({top_dim(left), top_dim(right)}) - 1, left, right)

interpret_sequence_as_term(c, exprs) ==
    FoldLeft(LAMBDA left, components : Juxtaposed(left, interpret_dexpr(c, components)), Nothing, exprs)

interpret_paste(k, left, right) ==
    IF left = Nothing THEN right
    ELSE IF ~IsDiagram(left) \/ ~IsDiagram(right) THEN Failed
    ELSE paste(k, left, right)

interpret_diagram_as_term(c, pastes) ==
    FoldLeft(LAMBDA left, right : interpret_paste(right.dim, left, interpret_sequence_as_term(c, right.exprs)),
             Nothing, pastes)

----------------------------------------------------------------------------
(* Maps: a path of maps, and clauses that extend it.                       *)

\* The maps of a path, each found where the one before it starts.
RECURSIVE Along(_, _)
Along(c, path) ==
    IF path = <<>> THEN <<>>
    ELSE IF <<Head(path)>> \notin DOMAIN c.maps THEN <<Failed>>
    ELSE <<c.maps[<<Head(path)>>]>> \o Along(complexes[c.maps[<<Head(path)>>].domain], Tail(path))

eval_partial_map(c, path) == composite(Along(c, path))

Reinterpreted(f, domain) ==
    IF f = Failed THEN Failed
    ELSE IF validate_map_as_source(f, domain) THEN [f EXCEPT !.domain = domain]
    ELSE Failed

\* What clauses extend: a map that is one of the domain, or none.
initial_eval_map(prefix, domain) ==
    IF prefix = Nothing THEN EvalMap(domain, empty_map, <<>>) ELSE Reinterpreted(prefix, domain)

Taken(b, left, right) ==
    IF left = Failed \/ right = Failed THEN Failed ELSE interpret_partial_map_clause(b, left, right)

ClauseTaken(c, b, clause) ==
    Taken(b, interpret_diagram_as_term(complexes[b.domain], clause.lhs),
          IF "rhs" \in DOMAIN clause THEN interpret_diagram_as_term(c, clause.rhs) ELSE Unknown)

IsClause(entry) == "lhs" \in DOMAIN entry

\* The clauses, those of for-blocks among them; Failed for one of no values.
RECURSIVE expand_clauses(_, _)
expand_clauses(c, entries) ==
    IF entries = <<>> THEN <<>>
    ELSE IF IsClause(Head(entries)) THEN <<Head(entries)>> \o expand_clauses(c, Tail(entries))
    ELSE IF CanExpand(c, Head(entries)) THEN expand_clauses(c, expand_body(c, Head(entries)) \o Tail(entries))
    ELSE <<Failed>>

eval_pmap_clauses(c, start, entries) ==
    FoldLeft(LAMBDA b, clause : IF b = Failed \/ clause = Failed THEN Failed ELSE ClauseTaken(c, b, clause),
             start, expand_clauses(complexes[start.domain], entries))

\* A path alone is taken as it is.
Extended(c, domain, def, prefix) ==
    IF "clauses" \notin DOMAIN def THEN prefix
    ELSE IF initial_eval_map(prefix, domain) = Failed THEN Failed
    ELSE eval_pmap_clauses(c, initial_eval_map(prefix, domain), def.clauses)

interpret_pmap_def(c, domain, def) ==
    Extended(c, domain, def, IF def.path = <<>> THEN Nothing ELSE eval_partial_map(c, def.path))
=============================================================================
