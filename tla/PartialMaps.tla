---------------------------- MODULE PartialMaps ----------------------------
(***************************************************************************)
(* Partial maps between complexes at work (core/partial_map.rs). The image *)
(* of a diagram is pasted from the images of its generators or, when each  *)
(* image is a cell of its generator's dimension, read off its labels.      *)
(***************************************************************************)
EXTENDS PasteTrees, MapTables

RECURSIVE leaf_tags(_)
leaf_tags(t) == IF IsLeaf(t) THEN {t.leaf} ELSE leaf_tags(t.left) \cup leaf_tags(t.right)

labels_at(d, k) == [i \in 1..Cardinality(Level(d.shape, k)) |-> d.labels[<<k, i - 1>>]]
all_labels(d) == FlattenSeq([k \in 1..top_dim(d) + 1 |-> labels_at(d, k - 1)])

\* Fault: a map that collapses a generator to a lower cell is cellular too.
KeepsCells_any_dimension(tag, image) == is_cell(image)

KeepsCells(tag, image) == is_cell(image) /\ top_dim(image) = dim_of(tag)

----------------------------------------------------------------------------
(* The image of a diagram.                                                 *)

RECURSIVE apply_tree(_, _)
apply_tree(f, t) ==
    IF IsLeaf(t) THEN f.table[t.leaf]
    ELSE paste_results(t.dim, Table([side \in Sides |-> apply_tree(f, t[side])]))

\* The same shape, each label replaced by the cell it goes to.
relabel(f, d) ==
    LET remap == Table([tag \in DOMAIN f.table |-> top_label(f.table[tag])])
        leaf == [tag \in DOMAIN f.table |-> Leaf(remap[tag])]
    IN  Diagram(d.shape, [c \in DOMAIN d.labels |-> remap[d.labels[c]]],
                [k \in DOMAIN d.history |-> [in |-> substitute(d.history[k].in, leaf),
                                             out |-> substitute(d.history[k].out, leaf)]])

apply(f, d) ==
    IF ~(leaf_tags(TopTree(d)) \subseteq DOMAIN f.table) THEN Failed
    ELSE IF f.cellular THEN relabel(f, d)
    ELSE apply_tree(f, TopTree(d))

check_boundary_match(f, boundary_diag, sign, k, image) == MatchesBoundary(apply(f, boundary_diag), sign, k, image)

\* One more generator, with an image whose boundaries are the images of its own.
extend(f, tag, image) ==
    LET k == dim_of(tag) - 1
        data == cell_data[tag]
    IN  IF /\ ~is_defined_at(f, tag)
           /\ top_dim(image) =< dim_of(tag)
           /\ \A i \in DOMAIN data : check_boundary_match(f, data[i], Signs[i], k, image)
        THEN [table |-> tag :> image @@ f.table,
              cellular |-> f.cellular /\ (data # <<>> => KeepsCells(tag, image))]
        ELSE Failed

Defined(images) == {tag \in DOMAIN images : images[tag] # Failed}
MapOf(images) == [table |-> Restrict(images, Defined(images)),
                  cellular |-> \A tag \in Defined(images) : KeepsCells(tag, images[tag])]

\* g after f, without what leaves the domain of g.
compose(g, f) == MapOf(Table([tag \in DOMAIN f.table |-> apply(g, f.table[tag])]))
=============================================================================
