---------------------------- MODULE MCRewriting ----------------------------
(***************************************************************************)
(* One object x and an arrow f; 2-cells m, a product of two fs, and c on   *)
(* f; a 3-cell s on c and a 4-cell w on s.                                 *)
(***************************************************************************)
EXTENDS Rewriting

generator(tag, input, output) == [tag |-> tag, faces |-> <<input, output>>]
on(tag, source) == generator(tag, Leaf(source), Leaf(source))
two(k, tag) == paste_node(k, Leaf(tag), Leaf(tag))

MCGenerators ==
    <<[tag |-> "x", faces |-> <<>>], on("f", "x"), generator("m", two(0, "f"), Leaf("f")), on("c", "f"),
      on("s", "c"), on("w", "s")>>

MCNames == <<"c", "f", "m", "s", "w", "x">>
=============================================================================
