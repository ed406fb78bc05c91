-------------------------- MODULE MCInterpretation --------------------------
(***************************************************************************)
(* Whole loads: a root r and a module a beside it, each of which may keep  *)
(* an x of its own.                                                        *)
(***************************************************************************)
EXTENDS Interpretation, TLC

It(kind, name) == [kind |-> kind, name |-> name, alias |-> name]

MCSubdir == <<"top", "a">> :> "a/" @@ <<"top", "r">> :> "r/"
MCCanonical == [file \in File |-> file]
MCRoot == <<"top", "r">>
MCBase == <<"top">>

MCProgram ==
    {<<>>, <<It("other", "r")>>}
    \cup {<<It("include", m)>> : m \in {"a", "x"}}
    \cup {<<It("include", m), It(kind, n)>> :
             kind \in {"include", "for", "map"}, m \in {"a", "x"}, n \in {"a", "x"}}
    \cup {<<It("include", "x"), [It("include", "x") EXCEPT !.alias = "a"]>>,
          <<It("include", "x"), It("include", "a"), It("map", "x")>>}

Disks(present) ==
    {[file \in {Canonical[f] : f \in File} |-> IF file \in present THEN said[file] ELSE Missing] :
        said \in [present -> Text]}

MCInit ==
    /\ text \in Disks({MCRoot, <<"top", "a">>, <<"r/", "x">>, <<"a/", "x">>})
    /\ LoadInit

MCSpec == MCInit /\ [][LoadNext]_vars
=============================================================================
