-------------------------- MODULE MCRewriteEngine --------------------------
(***************************************************************************)
(* RewriteEngine on a diagram with two independent redexes, p -> q1 and    *)
(* p -> q2, that can also be rewritten at once, p -> r, and a rule r -> s  *)
(* that only applies when both are done: s is normal forward, p backward.  *)
(***************************************************************************)
EXTENDS RewriteEngine, TLC

MCDiagram == {"p", "q1", "q2", "r", "s"}
MCStep == {"a", "b", "ba", "ab", "a|b", "c"}
MCInput  == [s \in MCStep |-> CASE s \in {"a", "b", "a|b"} -> "p" [] s = "ba" -> "q1"
                                [] s = "ab" -> "q2" [] s = "c" -> "r"]
MCOutput == [s \in MCStep |-> CASE s = "a" -> "q1" [] s = "b" -> "q2"
                                [] s \in {"ba", "ab", "a|b"} -> "r" [] s = "c" -> "s"]

Forward  == [d \in MCDiagram |-> CASE d = "p" -> <<"a", "b">> [] d = "q1" -> <<"ba">>
                                    [] d = "q2" -> <<"ab">> [] d = "r" -> <<"c">>
                                    [] d = "s" -> <<>>]
Backward == [d \in MCDiagram |-> CASE d = "p" -> <<>> [] d = "q1" -> <<"a">>
                                    [] d = "q2" -> <<"b">> [] d = "r" -> <<"ab", "ba">>
                                    [] d = "s" -> <<"c">>]
MCMatches == (FALSE :> Forward) @@ (TRUE :> Backward)

Families2(d0) == [d \in MCDiagram |-> IF d = d0 THEN ({1, 2} :> "a|b") ELSE <<>>]
MCFamilies == (FALSE :> Families2("p")) @@ (TRUE :> Families2("r"))

FirstOrFamily(matches, d0) ==
    [d \in MCDiagram |-> IF d = d0 THEN {1, 2} ELSE IF matches[d] = <<>> THEN {} ELSE {1}]
MCGreedy == (FALSE :> FirstOrFamily(Forward, "p")) @@ (TRUE :> FirstOrFamily(Backward, "r"))
============================================================================
