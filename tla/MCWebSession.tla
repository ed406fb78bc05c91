---------------------------- MODULE MCWebSession ----------------------------
(***************************************************************************)
(* Two pages, or one, on a kernel that can look two ways and restarts      *)
(* once.                                                                   *)
(***************************************************************************)
EXTENDS WebSession, TLC

Symmetry == Permutations(Page) \cup Permutations(Image) \cup Permutations(Text)
=============================================================================
