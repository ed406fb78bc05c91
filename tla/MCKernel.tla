------------------------------ MODULE MCKernel ------------------------------
(***************************************************************************)
(* A map with a 0-cell hole z and a hole h over it, from p to q, and a     *)
(* text where z is filled and another 0-cell hole k stands in a `for`      *)
(* block.  p rewrites to q in two steps, or in one of both.                *)
(***************************************************************************)
EXTENDS Kernel

MCHole == {"z", "h", "k"}
MCHoleOrder == [hole \in MCHole |-> CASE hole = "k" -> 1 [] hole = "z" -> 2 [] hole = "h" -> 3]
MCNeeds == [hole \in MCHole |-> IF hole = "h" THEN {"z"} ELSE {}]
MCLeaves == [text \in Text |-> CASE text = "early" -> {"z", "h"} [] text = "late" -> {"h", "k"}
                                  [] OTHER -> {}]
MCBoundary == [hole \in {"h"} |-> <<"p", "q">>]
MCRewrites == {<<"p", "m">>, <<"m", "q">>}
MCTogether == {<<"p", "q">>}
=============================================================================
