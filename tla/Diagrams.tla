------------------------------ MODULE Diagrams ------------------------------
(***************************************************************************)
(* Diagrams (core/diagram.rs): a shape, a label for each of its cells,     *)
(* and for each dimension and side the paste tree its boundary was built   *)
(* by. They are made of cells and pastes, both of which glue two shapes    *)
(* along a common part (core/pushout.rs).                                  *)
(***************************************************************************)
EXTENDS Shapes

VARIABLE classifier     \* [tag -> diagram]: the generators of the complex

\* An operation that returns an error.
Failed == [failed |-> TRUE]

Leaf(tag) == [leaf |-> tag]
paste_node(k, t1, t2) == [dim |-> k, left |-> t1, right |-> t2]
IsLeaf(t) == DOMAIN t = {"leaf"}

Diagram(shape, labels, history) == [shape |-> shape, labels |-> labels, history |-> Table(history)]

top_dim(d) == Max({Dim(d.shape), 0})

well_formed(d) ==
    /\ DOMAIN d.labels = Cells(d.shape)
    /\ DOMAIN d.history = 0..Dim(d.shape)
    /\ d.labels # <<>>

tree(d, sign, k) == d.history[k][sign]

TopTree(d) == tree(d, "in", top_dim(d))

----------------------------------------------------------------------------
(* Gluing.                                                                 *)

\* The cells of an extension that it shares go where the base has them, the
\* others get the next positions.
Unshared(span) == Cells(span.into_ext.cod) \ Image(span.into_ext.map)

Place(tip, span, c) ==
    IF c \in Unshared(span)
    THEN <<c[1], Cardinality(Level(tip, c[1])) + Cardinality({x \in Unshared(span) : x[1] = c[1] /\ x[2] < c[2]})>>
    ELSE span.into_base.map[Preimage(span.into_ext.map, c)]

Placed(tip, span) == Table([c \in Cells(span.into_ext.cod) |-> Place(tip, span, c)])

FacesAfter(old, new, inr) ==
    Table([c \in DOMAIN old \cup Image(inr) |->
              IF c \in DOMAIN old THEN old[c] ELSE {inr[x] : x \in new[Preimage(inr, c)]}])

\* One extension attached to the tip so far.
Attach(acc, span) ==
    LET ext == span.into_ext.cod
        inr == Placed(acc.tip, span)
    IN  [tip |-> [in |-> FacesAfter(acc.tip.in, ext.in, inr), out |-> FacesAfter(acc.tip.out, ext.out, inr),
                  normal |-> FALSE],
         inrs |-> Append(acc.inrs, inr)]

multi_pushout(base, spans) ==
    LET glued[n \in 0..Len(spans)] ==
            IF n = 0 THEN [tip |-> [in |-> base.in, out |-> base.out, normal |-> FALSE], inrs |-> <<>>]
            ELSE Attach(glued[n - 1], spans[n])
    IN  glued[Len(spans)]

\* The larger side is the base.
pushout(f, g) ==
    LET first_is_base == Cardinality(Cells(f.cod)) >= Cardinality(Cells(g.cod))
        glued(b, e) == multi_pushout(b.cod, <<[into_base |-> b, into_ext |-> e]>>)
        into(p) == [tip |-> p.tip,
                    inl |-> IF first_is_base THEN id(f.cod).map ELSE p.inrs[1],
                    inr |-> IF first_is_base THEN p.inrs[1] ELSE id(g.cod).map]
    IN  into(glued(IF first_is_base THEN f ELSE g, IF first_is_base THEN g ELSE f))

pullback_labels(d, e) == Table([c \in DOMAIN e.map |-> d.labels[e.map[c]]])

merge_pushout_labels(p, u, v) ==
    Table([c \in Cells(p.tip) |-> IF c \in Image(p.inr) THEN v.labels[Preimage(p.inr, c)]
                                  ELSE u.labels[Preimage(p.inl, c)]])

SameLabelled(u, e, v, f) == equal(e.dom, f.dom) /\ pullback_labels(u, e) = pullback_labels(v, f)

----------------------------------------------------------------------------
(* Boundaries.                                                             *)

boundary_history(d, sign, k) ==
    [j \in 0..k |-> IF j < k THEN d.history[j]
                    ELSE [in |-> tree(d, sign, k), out |-> tree(d, sign, k)]]

BoundaryOf(d, sign, k, embedding) ==
    Diagram(embedding.dom, pullback_labels(d, embedding),
            boundary_history(d, sign, Min({k, top_dim(d)})))

diagram_boundary(sign, k, d) == BoundaryOf(d, sign, k, boundary(sign, k, d.shape))
boundary_normal(sign, k, d) == BoundaryOf(d, sign, k, boundary_traverse(sign, k, d.shape))

RestrictedTo(d, e) == Diagram(e.dom, pullback_labels(d, e), d.history)
normal(d) == RestrictedTo(d, normalisation(d.shape))

SameDiagram(u, v) == equal(u.shape, v.shape) /\ u.labels = v.labels

LabelsAgree(u, v, iso) == iso # <<>> /\ u.labels = [c \in DOMAIN iso |-> v.labels[iso[c]]]
isomorphic(u, v) == SameDiagram(u, v) \/ LabelsAgree(u, v, find_isomorphism(u.shape, v.shape))

----------------------------------------------------------------------------
(* Pasting at dimension k.                                                 *)

hist_tree_or_top(d, sign, k) == tree(d, sign, Min({k, top_dim(d)}))

\* Fault: the output at the dimension of the paste is the first diagram's.
PastedTree_of_first(u, v, n, k, sign) ==
    IF k > n THEN paste_node(n, hist_tree_or_top(u, sign, k), hist_tree_or_top(v, sign, k))
    ELSE hist_tree_or_top(u, sign, k)

PastedTree(u, v, n, k, sign) ==
    IF k > n THEN paste_node(n, hist_tree_or_top(u, sign, k), hist_tree_or_top(v, sign, k))
    ELSE hist_tree_or_top(IF k = n /\ sign = "out" THEN v ELSE u, sign, k)

PastedOver(p, k, u, v) ==
    Diagram(p.tip, merge_pushout_labels(p, u, v),
            [j \in 0..Dim(p.tip) |-> [in |-> PastedTree(u, v, k, j, "in"), out |-> PastedTree(u, v, k, j, "out")]])

\* The output boundary of u is the input boundary of v.
PastedAlong(e, f, k, u, v) == IF SameLabelled(u, e, v, f) THEN PastedOver(pushout(e, f), k, u, v) ELSE Failed

paste(k, u, v) == PastedAlong(boundary_traverse("out", k, u.shape), boundary_traverse("in", k, v.shape), k, u, v)

----------------------------------------------------------------------------
(* Cells.                                                                  *)

cell0(tag) == Diagram(point, [c \in Cells(point) |-> tag],
                      [k \in {0} |-> [in |-> Leaf(tag), out |-> Leaf(tag)]])

\* With a cell of the next dimension.
WithTop(f, d, value) == Table([c \in DOMAIN f \cup {<<d + 1, 0>>} |-> IF c = <<d + 1, 0>> THEN value ELSE f[c]])

build_cell_shape(d, p) ==
    LET side(map) == {x \in Image(map) : x[1] = d}
    IN  [in |-> WithTop(p.tip.in, d, side(p.inl)), out |-> WithTop(p.tip.out, d, side(p.inr)), normal |-> FALSE]

CellOver(p, d, tag, u, v) ==
    Diagram(build_cell_shape(d, p), WithTop(merge_pushout_labels(p, u, v), d, tag),
            [k \in 0..d + 1 |->
                IF k > d THEN [in |-> Leaf(tag), out |-> Leaf(tag)]
                ELSE [in |-> tree(u, "in", k), out |-> tree(IF k = d THEN v ELSE u, "out", k)]])

CellAlong(e, f, d, tag, u, v) == IF SameLabelled(u, e, v, f) THEN CellOver(pushout(e, f), d, tag, u, v) ELSE Failed

\* A cell needs parallel round boundaries.
cell_n(tag, u, v) ==
    LET d == top_dim(u)
    IN  IF Dim(u.shape) # Dim(v.shape) \/ ~is_round(u.shape) \/ ~is_round(v.shape) THEN Failed
        ELSE CellAlong(boundary_traverse("both", d, u.shape), boundary_traverse("both", d, v.shape), d, tag, u, v)

cell(tag, data) == IF data = <<>> THEN cell0(tag) ELSE cell_n(tag, data[1], data[2])
=============================================================================
