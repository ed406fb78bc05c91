----------------------------- MODULE Reconstruct -----------------------------
(***************************************************************************)
(* From a shape and its labels back to a paste tree                        *)
(* (core/reconstruct.rs): the flow of the maximal cells over a dimension   *)
(* k (core/flow.rs) is put in a topological order (aux/graph.rs), the      *)
(* shape is cut into one layer for each cell of the order, and each layer  *)
(* is decomposed in its turn.                                              *)
(***************************************************************************)
EXTENDS PasteTrees

CONSTANT Limit      \* topological orders tried above dimension 3 (10000)
ASSUME LimitAssumption == Limit \in Nat

NoTree == [failed |-> TRUE]

----------------------------------------------------------------------------
(* Flow graphs. Nodes are cells, in the order of dimension and position.   *)

Before(c, d) == c[1] < d[1] \/ (c[1] = d[1] /\ c[2] < d[2])
Sorted(S) == [i \in 1..Cardinality(S) |->
                 CHOOSE c \in S : Cardinality({x \in S : Before(x, c)}) = i - 1]

FlowOver(g, k, nodes) ==
    LET out == Table([c \in nodes |-> signed_k_boundary_of_cell(g, "out", k, c)])
        in == Table([c \in nodes |-> signed_k_boundary_of_cell(g, "in", k, c)])
    IN  [node |-> nodes, edge |-> {e \in nodes \X nodes : e[1] # e[2] /\ out[e[1]] \cap in[e[2]] # {}}]

flow_graph(g, k) == FlowOver(g, k, {c \in Cells(g) : c[1] > k})
maximal_flow_graph(g, k) == FlowOver(g, k, MaximalFrom(g, k + 1))

successors(graph, v) == {w \in graph.node : <<v, w>> \in graph.edge}
predecessors(graph, v) == {w \in graph.node : <<w, v>> \in graph.edge}

\* Kahn's algorithm: what is ready waits on a stack. A cycle leaves nodes out.
RECURSIVE Kahn(_, _, _)
Kahn(graph, queue, order) ==
    IF queue = <<>> THEN order
    ELSE LET v == Last(queue)
             done == ToSet(order) \cup {v}
             ready == {w \in successors(graph, v) : predecessors(graph, w) \subseteq done}
         IN  Kahn(graph, Front(queue) \o Sorted(ready), Append(order, v))

Acyclic(graph, order) == IF Len(order) = Cardinality(graph.node) THEN order ELSE NoTree
topological_sort(graph) ==
    Acyclic(graph, Kahn(graph, Sorted({v \in graph.node : predecessors(graph, v) = {}}), <<>>))

----------------------------------------------------------------------------
(* Layers and trees.                                                       *)

\* With one maximal cell of positive dimension, the diagram is that cell.
leaf_for_top_element(g, labels) ==
    LET tops == MaximalFrom(g, 1)
    IN  IF Dim(g) < 0 THEN NoTree
        ELSE IF tops # {} THEN Leaf(labels[CHOOSE c \in tops : TRUE])
        ELSE IF Cells(g) = {<<0, 0>>} THEN Leaf(labels[<<0, 0>>])
        ELSE NoTree

Layered(acc, layer, k) ==
    [running |-> {layer.map[x] : x \in Image(boundary("out", k, layer.dom).map)},
     layers |-> Append(acc.layers, layer)]

\* The running boundary and the next cell of the order make a layer; its
\* output boundary runs on.
AddLayer(g, k, acc, c) == Layered(acc, restrict_ogposet(g, acc.running \cup closure(g, {c})), k)

build_layers(g, order, k) ==
    FoldLeft(LAMBDA acc, c : AddLayer(g, k, acc, c),
             [running |-> Image(boundary("in", k, g).map), layers |-> <<>>], order).layers

Flowing(g) == {k \in 0..Dim(g) - 1 : maximal_flow_graph(g, k).edge # {}}

\* Fault: the least dimension with a flow.
DecompositionDimension_least(g) ==
    IF Dim(g) > 3 THEN layering_dimension(g) ELSE Min(Flowing(g) \cup {Dim(g) - 1})

\* The dimension decomposed at. Up to dimension 3 the greatest at which the
\* maximal cells flow into one another.
DecompositionDimension(g) == IF Dim(g) > 3 THEN layering_dimension(g) ELSE Max(Flowing(g) \cup {0})

\* A tree that realises to as many cells in each dimension.
HasSizes(d, g) == d # Failed /\ sizes(d.shape) = sizes(g)
check_sizes(g, t) == HasSizes(realise_tree(t), g)

PasteLayers(trees, k) ==
    IF trees = <<>> \/ NoTree \in ToSet(trees) THEN NoTree
    ELSE FoldLeft(LAMBDA t, next : paste_node(k, t, next), Head(trees), Tail(trees))

RECURSIVE build_paste_tree(_, _), try_sort(_, _, _, _), topo_try_backtrack(_, _, _, _, _, _)

LayerTrees(layers, labels) ==
    [i \in DOMAIN layers |-> build_paste_tree(layers[i].dom, pullback_labels([labels |-> labels], layers[i]))]

\* The trees of the layers are pasted from the left.
try_sort(g, labels, order, k) == PasteLayers(LayerTrees(build_layers(g, order, k), labels), k)

Outcome(found, tried, stop) == [tree |-> found, tried |-> tried + 1, stop |-> stop]

OutcomeOf(g, t, tried) == Outcome(IF t # NoTree /\ check_sizes(g, t) THEN t ELSE NoTree, tried, FALSE)

\* Depth first through the topological orders, the least ready node first,
\* until one gives a tree of the right size or Limit orders have been tried.
topo_try_backtrack(g, labels, graph, k, order, tried) ==
    LET left == graph.node \ ToSet(order)
        ready == Sorted({v \in left : predecessors(graph, v) \subseteq ToSet(order)})
        extend(acc, v) == IF acc.tree # NoTree \/ acc.stop THEN acc
                          ELSE topo_try_backtrack(g, labels, graph, k, Append(order, v), acc.tried)
    IN  IF left = {}
        THEN IF tried >= Limit THEN Outcome(NoTree, tried, TRUE)
             ELSE OutcomeOf(g, try_sort(g, labels, order, k), tried)
        ELSE IF ready = <<>> THEN Outcome(NoTree, tried, TRUE)
        ELSE FoldLeft(extend, [tree |-> NoTree, tried |-> tried, stop |-> FALSE], ready)

SortAndPaste(g, labels, order, k) == IF order = NoTree THEN NoTree ELSE try_sort(g, labels, order, k)

TreeAt(g, labels, graph, k) ==
    IF Dim(g) > 3 THEN topo_try_backtrack(g, labels, graph, k, <<>>, 0).tree
    ELSE SortAndPaste(g, labels, topological_sort(graph), k)

TreeOver(g, labels, k) == TreeAt(g, labels, maximal_flow_graph(g, k), k)

build_paste_tree(g, labels) ==
    IF layering_dimension(g) = -1 THEN leaf_for_top_element(g, labels)
    ELSE TreeOver(g, labels, DecompositionDimension(g))

RealiseChecked(g, t) == IF t = NoTree \/ ~check_sizes(g, t) THEN Failed ELSE realise_tree(t)
reconstruct(g, labels) == RealiseChecked(g, build_paste_tree(g, labels))
=============================================================================
