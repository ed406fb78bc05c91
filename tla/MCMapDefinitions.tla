-------------------------- MODULE MCMapDefinitions --------------------------
(***************************************************************************)
(* Complexes of one shape: an arrow from one object to another, an arrow   *)
(* on the second, and a 2-cell that absorbs it, in S; two such 2-cells and *)
(* a 3-cell between them in D and in T. Maps go from D to T, from S to D   *)
(* and from S to T.                                                        *)
(***************************************************************************)
EXTENDS MapDefinitions

object(tag) == [tag |-> tag, faces |-> <<>>]
generator(tag, input, output) == [tag |-> tag, faces |-> <<input, output>>]
arrow(tag, source, target) == generator(tag, Leaf(source), Leaf(target))
two(first, second) == paste_node(0, Leaf(first), Leaf(second))

MCGenerators ==
    <<object("y"), object("z"), arrow("u", "y", "z"), arrow("w", "y", "z"), arrow("v", "z", "z"),
      generator("t", two("u", "v"), Leaf("u")), generator("s", two("u", "v"), Leaf("u")),
      generator("X", Leaf("t"), Leaf("s")),
      object("p"), object("q"), arrow("f", "p", "q"), arrow("g", "q", "q"), generator("a", two("f", "g"), Leaf("f")),
      generator("b", two("f", "g"), Leaf("f")), generator("A", Leaf("a"), Leaf("b")),
      object("i"), object("j"), arrow("e", "i", "j"), arrow("l", "j", "j"), generator("k", two("e", "l"), Leaf("e"))>>

MCComplexes == [S |-> <<"i", "j", "e", "l", "k">>, D |-> <<"p", "q", "f", "g", "a", "b", "A">>]

\* Into D: one that keeps cells and leaves l open, one that leaves it open
\* with k conditional, and one that collapses l. Into T: one that stops below k.
committed(table, cellular, holes) == EvalMap("S", [table |-> table, cellular |-> cellular], holes)
MCFirstMaps(c) ==
    LET fg == paste(0, c["f"], c["g"])
    IN  [Cells |-> committed("i" :> c["p"] @@ "j" :> c["q"] @@ "e" :> c["f"] @@ "l" :> c["g"] @@ "k" :> c["a"],
                           TRUE, <<>>),
         Open |-> committed("i" :> c["p"] @@ "j" :> c["q"] @@ "e" :> c["f"], TRUE,
                      <<[source |-> "l", image |-> Unknown, boundary |-> <<Leaf("q"), Leaf("q")>>],
                        [source |-> "k", image |-> c["a"],
                         boundary |-> <<paste_node(0, Leaf("f"), Metavariable("l")), Leaf("f")>>]>>),
         Collapsed |-> committed("i" :> c["p"] @@ "j" :> c["q"] @@ "e" :> fg @@ "l" :> c["q"] @@ "k" :> fg,
                               FALSE, <<>>),
         Below |-> committed("i" :> c["y"] @@ "j" :> c["z"] @@ "e" :> c["u"] @@ "l" :> c["v"], TRUE, <<>>)]

MCScopeOf == [name \in {"Cells", "Open", "Collapsed"} |-> "D"] @@ [name \in {"Below", "F"} |-> "T"]

rule(x, image) == [lhs |-> x, rhs |-> image]
gives(tag, image) == rule(Leaf(tag), Leaf(image))
opens(tag) == rule(Leaf(tag), Unknown)
named(name) == [map |-> name]

\* Holes come last, in ascending dimension.
MCClauses ==
    [D |-> <<gives("p", "y"), gives("q", "z"), gives("f", "u"), gives("f", "w"), gives("f", "z"),
             gives("g", "v"), gives("g", "z"), gives("a", "t"), gives("a", "u"), gives("a", "z"),
             gives("b", "t"), gives("A", "X"), gives("A", "t"),
             rule(two("f", "g"), Leaf("u")),
             rule(named("Collapsed"), Leaf("z")), rule(named("Collapsed"), named("Below")),
             rule(named("Cells"), named("Below")), rule(named("Open"), named("Below")),
             rule(named("Open"), Unknown), opens("q"), opens("f"), opens("g"), opens("a")>>,
     S |-> <<gives("e", "u"), gives("l", "v"), gives("k", "t"), opens("l")>>]

MCNames == <<"F">>
=============================================================================
