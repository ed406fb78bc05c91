------------------------------- MODULE Shapes -------------------------------
(***************************************************************************)
(* Oriented graded posets (core/ogposet.rs) and maps between them          *)
(* (core/embeddings.rs). A cell is <<dimension, position>>; a shape gives  *)
(* each cell its input and its output faces. Cofaces are read off the      *)
(* faces, which the code keeps as tables of their own.                     *)
(***************************************************************************)
EXTENDS Integers, Sequences, FiniteSets, SequencesExt, FiniteSetsExt, TLC

\* The same function; the comparison makes TLC evaluate it once and not at
\* every application.
Table(f) == IF f = f THEN f ELSE f

Cells(g) == DOMAIN g.in
Dim(g) == Max({c[1] : c \in Cells(g)} \cup {-1})
Level(g, k) == {c \in Cells(g) : c[1] = k}
sizes(g) == [k \in 0..Dim(g) |-> Cardinality(Level(g, k))]

empty == [in |-> <<>>, out |-> <<>>, normal |-> TRUE]
point == [in |-> [c \in {<<0, 0>>} |-> {}], out |-> [c \in {<<0, 0>>} |-> {}], normal |-> TRUE]

\* The cells of S, all of dimension k, by position.
Listed(g, k, S) ==
    LET size == Cardinality(Level(g, k))
        listed[n \in 0..size] ==
            IF n = 0 THEN <<>>
            ELSE IF <<k, n - 1>> \in S THEN Append(listed[n - 1], <<k, n - 1>>) ELSE listed[n - 1]
    IN  listed[size]

First(S) == CHOOSE c \in S : \A x \in S : c[2] =< x[2]

\* The dimensions from k down to 1.
Downwards(k) == [i \in 1..k |-> k + 1 - i]

Opposite(sign) == IF sign = "in" THEN "out" ELSE "in"

faces_of(g, sign, c) == IF sign = "both" THEN g.in[c] \cup g.out[c] ELSE g[sign][c]
cofaces_of(g, sign, c) == {x \in Level(g, c[1] + 1) : c \in faces_of(g, sign, x)}

equal(a, b) == a.in = b.in /\ a.out = b.out

\* The input boundary is what no cell has as an output, and conversely.
extremal(g, sign, k) == {c \in Level(g, k) : cofaces_of(g, Opposite(sign), c) = {}}
maximal(g, k) == {c \in Level(g, k) : cofaces_of(g, "both", c) = {}}

MaximalFrom(g, k) == UNION {maximal(g, j) : j \in k..Dim(g)}

layering_dimension(g) ==
    IF Dim(g) < 0 THEN -1
    ELSE Min({k \in -1..Dim(g) - 1 : Cardinality(MaximalFrom(g, k + 2)) =< 1} \cup {Dim(g) - 1})

is_pure(g) == \A k \in 0..Dim(g) - 1 : maximal(g, k) = {}

\* What is below the cells of S, all of dimension j, without what is in accum.
build_layer(g, S, j, accum) ==
    FoldLeft(LAMBDA layer, k : layer \cup ((UNION {faces_of(g, "both", c) : c \in {x \in layer : x[1] = k}}) \ accum),
             S, Downwards(j))

\* Dimension by dimension, the two sides share nothing that is not below them.
InteriorsDisjoint(g) ==
    LET add(acc, j) ==
            LET layer_in == build_layer(g, extremal(g, "in", j), j, acc.accum)
                layer_out == build_layer(g, extremal(g, "out", j), j, acc.accum)
            IN  [disjoint |-> acc.disjoint /\ layer_in \cap layer_out = {},
                 accum |-> acc.accum \cup layer_in \cup layer_out]
    IN  FoldLeft(add, [disjoint |-> TRUE, accum |-> {}], [j \in 1..Dim(g) |-> j - 1]).disjoint

is_round(g) ==
    \/ Dim(g) =< 0
    \/ /\ is_pure(g)
       /\ Cardinality(Level(g, Dim(g))) = 1 \/ InteriorsDisjoint(g)

----------------------------------------------------------------------------
(* Parts of a shape, with their embedding into it.                         *)

Embedding(dom, cod, map) == [dom |-> dom, cod |-> cod, map |-> map]
id(g) == Embedding(g, g, Table([c \in Cells(g) |-> c]))

\* The preimage of a cell in the image of a map.
Preimage(map, c) == CHOOSE x \in DOMAIN map : map[x] = c
Image(map) == {map[x] : x \in DOMAIN map}

\* The part of g made of the cells of a list, numbered in the order of the list.
remap_adjacency(g, list, normal) ==
    LET rank(i) == Cardinality({j \in 1..i - 1 : list[j][1] = list[i][1]})
        new == Table([i \in DOMAIN list |-> <<list[i][1], rank(i)>>])
        map == Table([c \in Image(new) |-> list[Preimage(new, c)]])
        remapped(adj) == Table([c \in DOMAIN map |-> {x \in DOMAIN map : map[x] \in adj[map[c]]}])
    IN  Embedding([in |-> remapped(g.in), out |-> remapped(g.out), normal |-> normal], g, map)

FacesAdded(g, S, k) == S \cup UNION {faces_of(g, "both", c) : c \in {x \in S : x[1] = k}}

\* Dimension by dimension, from the highest down.
closure(g, S) ==
    LET below[n \in 0..Dim(g) + 1] == IF n = 0 THEN S ELSE FacesAdded(g, below[n - 1], Dim(g) + 1 - n)
    IN  below[Dim(g) + 1]

Distinct(s) == FoldLeft(LAMBDA t, c : IF c \in ToSet(t) THEN t ELSE Append(t, c), <<>>, s)

\* Fault: what is maximal in a lower dimension is left out.
AddRow_of_faces(g, list, j) ==
    LET above == SelectSeq(list, LAMBDA c : c[1] = j + 1)
    IN  list \o Distinct(FlattenSeq([i \in DOMAIN above |-> Listed(g, j, faces_of(g, "both", above[i]))]))

\* One row below another: the faces in the order they are met, then what is
\* maximal.
AddRow(g, list, j) ==
    LET above == SelectSeq(list, LAMBDA c : c[1] = j + 1)
        faces == Distinct(FlattenSeq([i \in DOMAIN above |-> Listed(g, j, faces_of(g, "both", above[i]))]))
    IN  list \o faces \o Listed(g, j, maximal(g, j) \ ToSet(faces))

boundary(sign, k, g) ==
    IF k >= Dim(g) THEN id(g)
    ELSE remap_adjacency(g, FoldLeft(LAMBDA list, j : AddRow(g, list, j - 1),
                                     Listed(g, k, extremal(g, sign, k)), Downwards(k)), FALSE)

\* The restriction keeps the order of the cells.
restrict_ogposet(g, keep) ==
    LET rows[n \in 0..Dim(g) + 1] == IF n = 0 THEN <<>> ELSE rows[n - 1] \o Listed(g, n - 1, keep)
    IN  remap_adjacency(g, rows[Dim(g) + 1], FALSE)

signed_k_boundary_of_cell(g, sign, k, c) ==
    IF c[1] =< k THEN {}
    ELSE LET atom == closure(g, {c})
         IN  {x \in atom : x[1] = k /\ cofaces_of(g, Opposite(sign), x) \cap atom = {}}

----------------------------------------------------------------------------
(* The canonical order: cells are marked inputs first, the stack says      *)
(* what is in focus, its last entry first.                                 *)

Rank(marked, c) == Cardinality({i \in 1..Preimage(marked, c) : marked[i][1] = c[1]})

\* One round of the loop.
MarkRound(g, stack, marked) ==
    LET focus == Last(stack)
        rest == Front(stack)
        seen == Image(marked)
        open(S) == S \ seen
        inputs == UNION {g.in[c] : c \in focus}
        outputs == UNION {g.out[c] : c \in focus}
        first_user(x) == First(open(cofaces_of(g, "in", x) \cap focus))
        starts == {x \in inputs \cap seen : open(cofaces_of(g, "in", x) \cap focus) # {}}
        best == CHOOSE x \in starts : \A y \in starts : Rank(marked, x) =< Rank(marked, y)
        q == First(open(focus))
    IN  IF open(focus) = {} THEN <<rest, marked>>
        ELSE IF \E c \in focus : c[1] = 0 THEN <<rest, marked \o Listed(g, 0, open(focus))>>
        ELSE IF open(inputs \ outputs) # {} THEN <<Append(stack, inputs \ outputs), marked>>
        ELSE IF Cardinality(focus) = 1
            THEN <<IF open(outputs) = {} THEN rest ELSE Append(rest, outputs), Append(marked, q)>>
        ELSE IF starts # {} THEN <<Append(stack, {first_user(best)}), marked>>
        ELSE <<Append(rest, focus \ {q}), Append(marked, q)>>

Marked(g, start) ==
    LET mark[s \in Seq(SUBSET Cells(g)) \X Seq(Cells(g))] ==
            IF s[1] = <<>> THEN s[2] ELSE mark[MarkRound(g, s[1], s[2])]
    IN  mark[<<start, <<>>>>]

\* The inputs of some cells that are no outputs of theirs.
Under(g, S) == (UNION {g.in[c] : c \in S}) \ (UNION {g.out[c] : c \in S})

\* What a traversal may have in focus, in dimension Dim(g) - n: a side of the
\* shape, a cell, the outputs of one, or what is under a focus one dimension
\* above.
Foci(g) ==
    LET foci[n \in 0..Dim(g)] ==
            LET k == Dim(g) - n
            IN  {extremal(g, "in", k), extremal(g, "out", k)}
                \cup {{c} : c \in Level(g, k)} \cup {g.out[c] : c \in Level(g, k + 1)}
                \cup (IF n = 0 THEN {} ELSE {Under(g, F) : F \in foci[n - 1]})
    IN  foci

\* The cells of no focus run in circles: whichever of them one takes, there is
\* something under them.
HasInputs(g) ==
    \A n \in 0..Dim(g) - 1 : \A F \in Foci(g)[n] : \A S \in (SUBSET F) \ {{}} : Under(g, S) # {}

traverse(g, stack, normal) ==
    IF Dim(g) < 0 \/ stack = <<>> THEN Embedding(empty, g, <<>>)
    ELSE remap_adjacency(g, Marked(g, stack), normal)

\* From dimension k down, so that the lowest is on top of the stack.
build_stack_paste(sign, g, k) ==
    [i \in 1..k + 1 |-> extremal(g, IF i = 1 THEN sign ELSE "in", k + 1 - i)]

build_stack_extremal(g) == build_stack_paste("in", g, Dim(g))

build_stack_cell_n(g) ==
    LET d == Dim(g)
    IN  IF d = 0 THEN <<>> ELSE <<extremal(g, "out", d - 1)>> \o build_stack_paste("in", g, d - 1)

normalisation(g) == IF g.normal THEN id(g) ELSE traverse(g, build_stack_extremal(g), TRUE)

boundary_traverse(sign, k, g) ==
    traverse(g, IF sign = "both" THEN build_stack_cell_n(g) ELSE build_stack_paste(sign, g, Min({k, Dim(g)})),
             sign # "both")

\* From the one to the other through the normal form of both, if it is the same.
Through(nu, nv) ==
    IF ~equal(nu.dom, nv.dom) THEN <<>>
    ELSE Table([c \in Cells(nu.cod) |-> nv.map[Preimage(nu.map, c)]])

\* The isomorphism from u to v, as the map of its cells; none is <<>>.
find_isomorphism(u, v) ==
    IF sizes(u) # sizes(v) THEN <<>>
    ELSE IF equal(u, v) THEN id(u).map
    ELSE Through(normalisation(u), normalisation(v))
=============================================================================
