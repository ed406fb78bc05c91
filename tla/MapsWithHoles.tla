--------------------------- MODULE MapsWithHoles ---------------------------
(***************************************************************************)
(* Maps under construction (interpreter/partial_map.rs,                    *)
(* core/map_hole.rs). Clauses give images in any order. What cannot be     *)
(* added to the map yet is pending: a hole x => ?, or a conditional x =>   *)
(* a some face of which has no image. The boundary of a pending image is   *)
(* kept as a pair of paste trees in which a pending face stands for its    *)
(* image.                                                                  *)
(***************************************************************************)
EXTENDS PartialMaps

\* An image that is not known.
Unknown == [unknown |-> TRUE]

\* The tree that stands for the image of a pending generator.
Metavariable(tag) == [hole |-> tag]
IsMetavariable(t) == DOMAIN t = {"hole"}

RECURSIVE collect_hole_deps(_)
collect_hole_deps(t) ==
    IF IsMetavariable(t) THEN {t.hole}
    ELSE IF IsLeaf(t) THEN {}
    ELSE collect_hole_deps(t.left) \cup collect_hole_deps(t.right)

deps(h) == UNION {collect_hole_deps(h.boundary[i]) : i \in DOMAIN h.boundary}

entry_index(b, tag) == CHOOSE i \in DOMAIN b.holes : b.holes[i].source = tag

----------------------------------------------------------------------------
(* Boundaries.                                                             *)

FacesOf(tag) ==
    FlattenSeq([i \in DOMAIN cell_data[tag] |-> labels_at(cell_data[tag][i], top_dim(cell_data[tag][i]))])

boundary_dependencies(tag, map) == SelectSeq(FacesOf(tag), LAMBDA face : ~is_defined_at(map, face))

\* What an image must be whose boundary is of lower dimension than a boundary.
LowImage(images, n) ==
    LET low == {i \in DOMAIN images : images[i] # Failed /\ top_dim(images[i]) + 1 < n}
    IN  IF low = {} THEN Unknown ELSE images[Min(low)]

collapsed_boundary_image(map, tag) ==
    LowImage(Table([i \in DOMAIN cell_data[tag] |-> apply(map, cell_data[tag][i])]), dim_of(tag))

transport_leaf(b, tag) ==
    IF is_defined_at(b.map, tag) THEN TopTree(b.map.table[tag]) ELSE Metavariable(tag)

\* The boundaries of what a generator is to be mapped to.
transport_cell_boundaries(b, tag) ==
    LET trees == Table([face \in Covered(b) |-> transport_leaf(b, face)])
    IN  [i \in DOMAIN cell_data[tag] |-> substitute(TopTree(cell_data[tag][i]), trees)]

----------------------------------------------------------------------------
(* Entries become pending and are committed.                               *)

RECURSIVE splice(_, _, _)
splice(t, tag, image) ==
    IF IsMetavariable(t) THEN IF t.hole = tag THEN image ELSE t
    ELSE IF IsLeaf(t) THEN t
    ELSE paste_node(t.dim, splice(t.left, tag, image), splice(t.right, tag, image))

upsert_entry(b, tag, image, trees) ==
    IF tag \in sources(b.holes)
    THEN LET i == entry_index(b, tag)
             kept == IF image = Unknown THEN b.holes[i].image ELSE image
         IN  [b EXCEPT !.holes[i].image = kept, !.holes[i].boundary = trees]
    ELSE [b EXCEPT !.holes = Append(@, [source |-> tag, image |-> image, boundary |-> trees])]

\* Fault: the image reaches only the input boundaries that wait for it.
Close_input(h, tag, image) ==
    IF h.boundary = <<>> THEN h
    ELSE [h EXCEPT !.boundary[1] = splice(h.boundary[1], tag, TopTree(image))]

Close(h, tag, image) ==
    [h EXCEPT !.boundary = [i \in DOMAIN h.boundary |-> splice(h.boundary[i], tag, TopTree(image))]]

\* Fault: what waits for nothing is dropped.
Committed_waiting(b, map, tag, image) ==
    LET others == SelectSeq(b.holes, LAMBDA h : h.source # tag /\ deps(h) # {})
    IN  IF map = Failed THEN Failed
        ELSE [b EXCEPT !.map = map, !.holes = [i \in DOMAIN others |-> Close(others[i], tag, image)]]

Committed(b, map, tag, image) ==
    LET others == SelectSeq(b.holes, LAMBDA h : h.source # tag)
    IN  IF map = Failed THEN Failed
        ELSE [b EXCEPT !.map = map,
                       !.holes = IF others = b.holes THEN b.holes
                                 ELSE [i \in DOMAIN others |-> Close(others[i], tag, image)]]

commit_one(b, tag, image) == Committed(b, extend(b.map, tag, image), tag, image)

\* The conditionals that wait for nothing, in order of creation.
Ready(b) == SelectSeq(b.holes, LAMBDA h : h.image # Unknown /\ deps(h) = {})

RECURSIVE cascade(_)

\* Fault: what a commit makes ready is left pending.
cascade_none(b) == b

cascade(b) ==
    IF b = Failed \/ Ready(b) = <<>> THEN b
    ELSE cascade(commit_one(b, Head(Ready(b)).source, Head(Ready(b)).image))

----------------------------------------------------------------------------
(* x => image, or x => ? when the image is Unknown.                        *)

RECURSIVE assign_cell(_, _, _)

ensure_defined(b, tag) ==
    IF b = Failed \/ tag \in Covered(b) THEN b ELSE assign_cell(b, classifier[tag], Unknown)

\* A boundary that is a single cell can only go to the boundary of the image.
Infer(start, tag, image) ==
    LET infer(b, i) ==
            LET source == cell_data[tag][i]
            IN  IF b = Failed \/ ~is_cell(source) \/ is_defined_at(b.map, top_label(source)) THEN b
                ELSE assign_cell(b, source, diagram_boundary(Signs[i], dim_of(tag) - 1, image))
    IN  FoldLeft(infer, start, [i \in DOMAIN cell_data[tag] |-> i])

\* All faces are committed or pending. An image that is not known may follow.
Enter(b, x, tag, image, collapsed) ==
    IF image # Unknown /\ boundary_dependencies(tag, b.map) = <<>> THEN cascade(commit_one(b, tag, image))
    ELSE IF image = Unknown /\ collapsed # Unknown THEN assign_cell(b, x, collapsed)
    ELSE upsert_entry(b, tag, image, transport_cell_boundaries(b, tag))

Settled(b, x, tag, image) ==
    IF b = Failed THEN Failed ELSE Enter(b, x, tag, image, collapsed_boundary_image(b.map, tag))

WithFaces(b, tag) ==
    IF b = Failed THEN Failed ELSE FoldLeft(ensure_defined, b, boundary_dependencies(tag, b.map))

\* A generator without an image yet: its faces come first.
Assign(b, x, tag, image) ==
    Settled(WithFaces(IF image = Unknown THEN b ELSE Infer(b, tag, image), tag), x, tag, image)

assign_cell(b, x, image) ==
    LET tag == top_label(x)
    IN  IF b = Failed \/ ~is_cell(x) THEN Failed
        ELSE IF is_defined_at(b.map, tag)
             THEN IF image = Unknown \/ isomorphic(b.map.table[tag], image) THEN b ELSE Failed
        ELSE IF image = Unknown /\ tag \in sources(b.holes) THEN b
        ELSE Assign(b, x, tag, image)

----------------------------------------------------------------------------
(* A clause assigns an image to a diagram, a point or a map to what a map  *)
(* hits, or leaves images open. It comes down to a sequence of             *)
(* assignments.                                                            *)

\* What a map has an image of, in ascending dimension.
Mapped(f) == SelectSeq(sorted_generators(complexes[f.domain]), LAMBDA tag : is_defined_at(f.map, tag))

Pair(left, right) == [left |-> left, right |-> right]

hole_map_image(f) ==
    FlattenSeq([i \in DOMAIN Mapped(f) |->
        LET labels == all_labels(f.map.table[Mapped(f)[i]])
        IN  [j \in DOMAIN labels |-> Pair(classifier[labels[j]], Unknown)]])

extend_matching_map_images(f, g) ==
    [i \in DOMAIN Mapped(f) |->
        LET tag == Mapped(f)[i]
        IN  Pair(f.map.table[tag], IF is_defined_at(g.map, tag) THEN g.map.table[tag] ELSE Failed)]

extend_map_to_constant(f, d) ==
    [i \in DOMAIN Mapped(f) |-> Pair(f.map.table[Mapped(f)[i]], d)]

interpret_assign(left, right) ==
    IF ~IsMap(left) THEN <<Pair(left, IF IsMap(right) THEN Failed ELSE right)>>
    ELSE IF right = Unknown THEN hole_map_image(left)
    ELSE IF IsMap(right)
         THEN IF left.domain = right.domain THEN extend_matching_map_images(left, right)
              ELSE <<Pair(left, Failed)>>
    ELSE IF top_dim(right) = 0 THEN extend_map_to_constant(left, right)
    ELSE <<Pair(left, Failed)>>

\* The image of a map that is no cell gets its image from those of its cells.
interpret_partial_map_clause(start, lhs, rhs) ==
    LET assign(b, pair) ==
            IF b = Failed \/ pair.right = Failed THEN Failed
            ELSE IF IsMap(lhs) /\ ~is_cell(pair.left)
                 THEN IF Image(pair.left.labels) \subseteq DOMAIN b.map.table THEN b ELSE Failed
            ELSE assign_cell(b, pair.left, pair.right)
    IN  FoldLeft(assign, start, interpret_assign(lhs, rhs))

\* A map extended by clauses is one of the complex they are written for.
validate_map_as_source(f, domain) == DOMAIN f.map.table \subseteq Image(GeneratorsOf(complexes[domain]))

----------------------------------------------------------------------------
(* f after g, with what is pending.                                        *)

Undefined == [undefined |-> TRUE]

\* Fault: the image of a conditional is forgotten.
KnownImage_committed(f, tag) ==
    IF is_defined_at(f.map, tag) THEN f.map.table[tag]
    ELSE IF tag \in sources(f.holes) THEN Unknown
    ELSE Undefined

\* What is known of an image: a conditional has one, a hole has none.
KnownImage(f, tag) ==
    IF is_defined_at(f.map, tag) THEN f.map.table[tag]
    ELSE IF tag \in sources(f.holes) THEN f.holes[entry_index(f, tag)].image
    ELSE Undefined

PasteKnown(k, d) ==
    LET none == Image(d) \cap {Failed, Undefined, Unknown}
    IN  IF none = {} THEN paste(k, d.left, d.right)
        ELSE IF Failed \in none THEN Failed
        ELSE IF Undefined \in none THEN Undefined
        ELSE Unknown

RECURSIVE image_under(_, _)
image_under(f, t) ==
    IF IsLeaf(t) THEN KnownImage(f, t.leaf)
    ELSE PasteKnown(t.dim, Table([side \in Sides |-> image_under(f, t[side])]))

has_undefined_face(b, tag) == \E i \in DOMAIN FacesOf(tag) : FacesOf(tag)[i] \notin Covered(b)

ComposedImage(b, f, g_image, x) ==
    IF g_image = Undefined THEN Undefined
    ELSE IF g_image # Unknown THEN image_under(f, TopTree(g_image))
    ELSE IF has_undefined_face(b, x) THEN Undefined
    ELSE Unknown

AssignComposed(b, x, image) ==
    IF image = Undefined THEN b
    ELSE IF image = Failed THEN Failed
    ELSE assign_cell(b, classifier[x], image)

compose_generator(b, f, g, x) ==
    IF b = Failed THEN Failed ELSE AssignComposed(b, x, ComposedImage(b, f, KnownImage(g, x), x))

compose_with_holes(f, g) ==
    FoldLeft(LAMBDA b, x : compose_generator(b, f, g, x),
             EvalMap(g.domain, empty_map, <<>>), sorted_generators(complexes[g.domain]))
=============================================================================
