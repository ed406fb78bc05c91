----------------------------- MODULE PasteTrees -----------------------------
(***************************************************************************)
(* Paste trees (core/paste_tree.rs): what diagram a tree stands for, and   *)
(* its normal forms.                                                       *)
(***************************************************************************)
EXTENDS Diagrams

paste_results(k, d) == IF Failed \in Image(d) THEN Failed ELSE paste(k, d.left, d.right)

Sides == {"left", "right"}

RECURSIVE realise_in(_, _)
realise_in(complex, t) ==
    IF ~IsLeaf(t) THEN paste_results(t.dim, Table([side \in Sides |-> realise_in(complex, t[side])]))
    ELSE IF t.leaf \in DOMAIN complex THEN complex[t.leaf]
    ELSE Failed

realise_tree(t) == realise_in(classifier, t)

RECURSIVE substitute(_, _)
substitute(t, trees) ==
    IF IsLeaf(t) THEN IF t.leaf \in DOMAIN trees THEN trees[t.leaf] ELSE t
    ELSE paste_node(t.dim, substitute(t.left, trees), substitute(t.right, trees))

RECURSIVE flatten_at(_, _)
flatten_at(t, k) == IF ~IsLeaf(t) /\ t.dim = k THEN flatten_at(t.left, k) \o flatten_at(t.right, k)
                    ELSE <<t>>

RECURSIVE tree_dimension(_)
tree_dimension(t) == IF IsLeaf(t) THEN top_dim(classifier[t.leaf])
                     ELSE Max({tree_dimension(t.left), tree_dimension(t.right)})

RECURSIVE CellsAt(_, _)
CellsAt(t, top) == IF IsLeaf(t) THEN IF tree_dimension(t) = top THEN <<t.leaf>> ELSE <<>>
                   ELSE CellsAt(t.left, top) \o CellsAt(t.right, top)
top_generators(t) == CellsAt(t, tree_dimension(t))

RECURSIVE pasting_dimension(_)
pasting_dimension(t) ==
    IF IsLeaf(t) THEN -1
    ELSE Max({t.dim, pasting_dimension(t.left), pasting_dimension(t.right)})

RECURSIVE is_pseudo_normal(_)
is_pseudo_normal(t) ==
    IsLeaf(t) \/ /\ pasting_dimension(t) = t.dim
                 /\ is_pseudo_normal(t.left) /\ is_pseudo_normal(t.right)

RECURSIVE remove_units(_)

\* Fault: a side of one dimension more is dropped too.
remove_units_and_more(t) ==
    IF IsLeaf(t) THEN t
    ELSE IF tree_dimension(t.left) =< t.dim + 1 THEN remove_units(t.right)
    ELSE IF tree_dimension(t.right) =< t.dim + 1 THEN remove_units(t.left)
    ELSE paste_node(t.dim, remove_units(t.left), remove_units(t.right))

\* A side of dimension k or less is a unit of a paste at k.
remove_units(t) ==
    IF IsLeaf(t) THEN t
    ELSE IF tree_dimension(t.left) =< t.dim THEN remove_units(t.right)
    ELSE IF tree_dimension(t.right) =< t.dim THEN remove_units(t.left)
    ELSE paste_node(t.dim, remove_units(t.left), remove_units(t.right))

output_boundary_tree(j, t) == TopTree(diagram_boundary("out", j, realise_tree(t)))

\* The highest paste is lifted to the root by interchange.
RECURSIVE pseudo_normalise(_)
pseudo_normalise(tree_) ==
    LET t == remove_units(tree_)
        k == t.dim
        t1 == pseudo_normalise(t.left)
        t2 == pseudo_normalise(t.right)
        higher == IF pasting_dimension(t1) >= pasting_dimension(t2) THEN t1 ELSE t2
        j == higher.dim
        first == IF higher = t1 THEN paste_node(k, t1.left, t2) ELSE paste_node(k, t1, t2.left)
        second == IF higher = t1 THEN paste_node(k, t1.right, output_boundary_tree(j, t2))
                  ELSE paste_node(k, output_boundary_tree(j, t1), t2.right)
    IN  IF IsLeaf(t) THEN t
        ELSE IF k >= pasting_dimension(higher) THEN paste_node(k, t1, t2)
        ELSE paste_node(j, pseudo_normalise(first), pseudo_normalise(second))

----------------------------------------------------------------------------
(* Generators, each declared with the trees of its boundaries, if any.     *)

BoundariesIn(complex, faces) == [i \in DOMAIN faces |-> realise_in(complex, faces[i])]

ComplexOf(declarations) ==
    FoldLeft(LAMBDA complex, g : g.tag :> cell(g.tag, BoundariesIn(complex, g.faces)) @@ complex,
             <<>>, declarations)
=============================================================================
