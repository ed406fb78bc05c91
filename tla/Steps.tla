------------------------------- MODULE Steps -------------------------------
(***************************************************************************)
(* What `undo` and `redo` promise: a linear history addressed by a         *)
(* cursor, with the undone end kept for redo.  This is the trait `Steps`   *)
(* of interactive/engine.rs, and the specification both of its             *)
(* implementors (RewriteEngine, ZeroCellFill) are shown to implement.      *)
(*                                                                         *)
(* trail[1] is where the history starts and trail[i + 1] what its i-th     *)
(* step leads to; `at` is the number of steps applied.                     *)
(***************************************************************************)
EXTENDS Integers, Sequences

CONSTANT State          \* what a step leads to: a diagram, or a 0-cell choice

VARIABLES trail, at

vars == <<trail, at>>

applied  == at
recorded == Len(trail) - 1

TypeOK ==
    /\ trail \in Seq(State) /\ Len(trail) > 0
    /\ at \in 0 .. recorded

\* A history opens with all its steps applied: none, or those of a resumed proof.
Init == TypeOK /\ at = recorded

----------------------------------------------------------------------------

\* Move to a step of the history, keeping the later ones for redo.
seek(step) ==
    /\ at' = step
    /\ UNCHANGED trail

undo == applied > 0 /\ seek(applied - 1)

redo == applied < recorded /\ seek(applied + 1)

undo_to(step) == step \in 0 .. (applied - 1) /\ seek(step)

redo_to(step) == step \in (applied + 1) .. recorded /\ seek(step)

\* Drop what was kept for redo and record `new` in its place.
Extend(new) ==
    /\ trail' = SubSeq(trail, 1, at + 1) \o new
    /\ at' = at + Len(new)

Next ==
    \/ undo
    \/ redo
    \/ \E step \in 0 .. recorded : undo_to(step) \/ redo_to(step)
    \/ Extend(SubSeq(trail', at + 2, Len(trail')))

Spec == Init /\ [][Next]_vars
============================================================================
