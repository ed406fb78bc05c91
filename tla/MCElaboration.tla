--------------------------- MODULE MCElaboration ---------------------------
(***************************************************************************)
(* A module with an arrow and a 2-cell between parallel arrows, and a      *)
(* module whose types include and attach them.                             *)
(***************************************************************************)
EXTENDS Elaboration, Expressions

\* What expressions stand for. Elaboration only asks for it in the store of
\* the state it is in, which is the one that Expressions reads.
MCTerm(store, c, e) == interpret_diagram_as_term(c, e)
MCMap(store, c, domain, def) == interpret_pmap_def(c, domain, def)
MCApply(f, d) == apply(f, d)

MCAlphabet ==
    <<"A", "B", "C", "D", "E", "F", "G", "H", "I", "J", "K", "L", "M", "N", "O", "T", "U", "V", "W",
      "a", "c", "d", "e", "f", "g", "h", "i", "j", "k", "l", "m", "p", "q", "w", "x", "y", "z">>

kept(instr) == instr @@ [keep |-> TRUE]

component(part) == IF part \in {"in", "out"} THEN [bd |-> part] ELSE [name |-> part]
seq(exprs) == <<[dim |-> 0, exprs |-> exprs]>>
dots(parts) == seq(<<[i \in DOMAIN parts |-> component(parts[i])]>>)

type(name, address, body) == [op |-> "type", name |-> name, address |-> address, faces |-> <<>>, body |-> body]
object(name) == [op |-> "generator", name |-> name, faces |-> <<>>]
cell_of(name, input, output) == [op |-> "generator", name |-> name, faces |-> <<input, output>>]
let(name, value) == [op |-> "let", name |-> name, value |-> value]
map(name, address, value, total) ==
    [op |-> "map", name |-> name, address |-> address, value |-> value, total |-> total]
clause(left, right) == [lhs |-> left, rhs |-> right]
ext(path, clauses) == [path |-> path, clauses |-> clauses]
include(address, alias) == [op |-> "include", address |-> address, alias |-> alias]
include_module(name, alias) == [op |-> "include", name |-> name, alias |-> alias]
attach(name, address) == [op |-> "attach", name |-> name, address |-> address]
attach_along(name, address, along) == attach(name, address) @@ [along |-> along]
local(address, before, body) == [op |-> "local", address |-> address, extend |-> before, body |-> body]
index(name, values) == [op |-> "index", name |-> name, values |-> values]
assert(left, right) == [op |-> "assert", lhs |-> left, rhs |-> right]
none == [values |-> <<>>]
for(name, body) == [op |-> "for", index |-> [name |-> name], exclude |-> none, body |-> body]

BaseProgram ==
    <<kept(type("C", <<>>, <<kept(object("x")), kept(object("y")), kept(object("z")),
                            kept(cell_of("f", dots(<<"x">>), dots(<<"y">>))),
                            kept(cell_of("e", dots(<<"y">>), dots(<<"z">>))),
                            kept(let("c", seq(<<<<[name |-> "f"]>>, <<[name |-> "e"]>>>>)))>>)),
      kept(type("K", <<>>, <<kept(object("p")), kept(object("q")), kept(cell_of("g", dots(<<"p">>), dots(<<"q">>))),
                            kept(cell_of("h", dots(<<"p">>), dots(<<"q">>))),
                            kept(cell_of("a", dots(<<"g">>), dots(<<"h">>)))>>))>>

\* Along: on an arrow that is included, and on a point, where the 2-cell fails.
on_arrow == ext(<<>>, <<clause(dots(<<"g">>), dots(<<"A", "f">>))>>)
on_point == ext(<<>>, <<clause(dots(<<"g">>), dots(<<"z">>))>>)

Body ==
    <<object("z"),
      include(<<"B", "C">>, "A"),
      include(<<"B", "C">>, "E"),
      attach_along("D", <<"B", "K">>, on_arrow),
      attach_along("D", <<"B", "K">>, on_point),
      attach("E", <<"B", "C">>),
      kept(let("d", dots(<<"D", "a", "out">>))),
      kept(let("d", dots(<<"z">>))),
      kept(cell_of("k", dots(<<"E", "f">>), dots(<<"D", "h">>))),
      kept(map("F", <<"B", "K">>, ext(<<"D">>, <<>>), TRUE))>>

\* A type whose name is taken in its own complex, and one for each value of an
\* index.
Rest ==
    <<kept(type("U", <<>>, <<kept(include(<<"B", "C">>, "U")), kept(attach("D", <<"B", "W">>)),
                            kept(attach_along("D", <<"B", "C">>, [path |-> <<"W">>]))>>)),
      index("N", <<"V", "W">>),
      kept(for("N", [v \in {"V", "W"} |->
          <<kept(type(v, <<>>, <<kept(object("x")), kept(index("I", <<"y", "z">>)),
                                 kept(for("I", [i \in {"y", "z"} |-> <<kept(object(i))>>]))>>))>>])),
      kept(let("w", dots(<<"B", "C">>))),
      kept(for("M", [v \in {} |-> <<>>])),
      kept(map("G", <<"Base">>, [path |-> <<"B">>], FALSE)),
      kept(include_module("Other", "O"))>>

\* Two expressions for one point, two maps with the same images, and what is
\* no equation.
Checks ==
    <<let("m", dots(<<"l">>)),
      kept(map("H", <<"B", "K">>, ext(<<>>, <<clause(dots(<<"g">>), dots(<<"l">>))>>), FALSE)),
      kept(index("J", <<"p", "q">>)),
      kept(for("J", [v \in {"p", "q"} |-> <<kept(assert(dots(<<"H", "p">>), dots(<<"H", v>>)))>>])),
      kept(assert(dots(<<"H">>), dots(<<"H">>))),
      assert(dots(<<"H">>), dots(<<"l">>)),
      kept(let("e", dots(<<"l">>))),
      kept(let("x", dots(<<"l">>)))>>

Group == [op |-> "for", index |-> [values |-> <<"once">>], exclude |-> none,
          body |-> [v \in {"once"} |-> Rest \o <<kept(local(<<"G", "C">>, <<kept(object("l"))>>, Checks))>>]]

Main ==
    <<kept(include_module("Base", "B")),
      type("T", <<>>, Body),
      Group>>

MCPrograms ==
    <<[file |-> "base", name |-> "Base", resolutions |-> <<>>, program |-> BaseProgram],
      [file |-> "main", name |-> "Main", resolutions |-> [name \in {"Base"} |-> "base"], program |-> Main]>>
=============================================================================
