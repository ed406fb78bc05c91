--------------------------- MODULE RewriteEngine ---------------------------
(***************************************************************************)
(* One rewrite session: interactive/engine.rs, `RewriteEngine`.            *)
(*                                                                         *)
(* The session rewrites an n-diagram.  A step is an (n+1)-diagram between  *)
(* two n-diagrams; the steps applied so far are kept one by one, followed  *)
(* by those kept for redo, and are pasted into one proof only on demand.   *)
(* What the matcher finds in a diagram is a constant here.                 *)
(***************************************************************************)
EXTENDS Integers, Sequences, SequencesExt

CONSTANTS
    Diagram,        \* normal n-diagrams, up to isomorphism, all parallel
    Step,           \* (n+1)-diagrams between them
    Input, Output,  \* the boundaries of a step: [Step -> Diagram]
    Matches,        \* [BOOLEAN -> [Diagram -> Seq(Step)]]: the confirmed
                    \* matches of the rules, in menu order, forward (FALSE)
                    \* and backward (TRUE)
    Families,       \* [BOOLEAN -> [Diagram -> ...]]: the steps of the sets
                    \* of two or more matches that apply in parallel
    Greedy,         \* the set of matches parallel auto applies ({}: none)
    None,           \* no diagram, no cache
    Name,           \* names of diagrams
    TakenNames,     \* those the type complex uses when the session starts
    MaxSteps,       \* bound: steps recorded
    MaxAuto         \* bound: steps asked of one `auto` or `random`

Index(b, d) == 1 .. Len(Matches[b][d])

ASSUME BoundaryAssumption ==
    /\ Input \in [Step -> Diagram]
    /\ Output \in [Step -> Diagram]
    /\ None \notin Diagram
    /\ TakenNames \subseteq Name

ASSUME BoundsAssumption == MaxSteps \in Nat /\ MaxAuto \in Nat

\* The side of a step facing the initial diagram, and the side facing away.
Near(b, s) == IF b THEN Output[s] ELSE Input[s]
Far(b, s)  == IF b THEN Input[s] ELSE Output[s]

\* The step a set of menu entries stands for, and the sets that stand for one.
FamilyStep(b, d, choices) ==
    IF \E i \in Index(b, d) : choices = {i}
    THEN Matches[b][d][CHOOSE i \in Index(b, d) : choices = {i}]
    ELSE Families[b][d][choices]

MenuIndex == UNION {Index(b, d) : b \in BOOLEAN, d \in Diagram}

Applicable(b, d) == {{i} : i \in Index(b, d)} \cup DOMAIN Families[b][d]

\* What the matcher promises: every match is a step from the diagram matched,
\* and a greedy family of one is the first match.
ASSUME MatcherAssumption ==
    \A b \in BOOLEAN, d \in Diagram :
        /\ Matches[b][d] \in Seq(Step)
        /\ \A choices \in DOMAIN Families[b][d] :
               choices \subseteq Index(b, d) /\ \A i \in Index(b, d) : choices \notin {{}, {i}}
        /\ \A choices \in Applicable(b, d) :
               /\ FamilyStep(b, d, choices) \in Step
               /\ Near(b, FamilyStep(b, d, choices)) = d
        /\ Greedy[b][d] \in {{}} \cup Applicable(b, d)
        /\ \A i \in Index(b, d) : Greedy[b][d] = {i} => i = 1

----------------------------------------------------------------------------

VARIABLES
    initial_diagram, target_diagram, backward,   \* fixed for the session
    current_diagram,
    steps,          \* the steps recorded: applied, then kept for redo
    history,        \* for each, the menu entries chosen ({}: no choice)
    active_len,     \* how many are applied
    rewrites,       \* the menu: the matches in current_diagram
    parallel,       \* whether auto applies families
    proof_cache,    \* None, or an assembled proof and the steps it covers
    diagrams        \* the proofs stored under a name

fixed == <<initial_diagram, target_diagram, backward>>
vars == <<fixed, current_diagram, steps, history, active_len, rewrites,
          parallel, proof_cache, diagrams>>

(***************************************************************************)
(* Proofs.  A proof is its steps in paste order, from input to output;     *)
(* the proof of no steps is the initial diagram, an n-diagram (`unit`),    *)
(* and what is pasted onto it still has it as a factor.                    *)
(***************************************************************************)
Unit == [unit |-> TRUE, pieces |-> <<>>]

PasteOrder(s) == IF backward THEN Reverse(s) ELSE s

\* Pasting the steps s one by one after (backward: before) the proof acc.
Extend(acc, s) ==
    [unit |-> acc.unit,
     pieces |-> IF backward THEN PasteOrder(s) \o acc.pieces ELSE acc.pieces \o PasteOrder(s)]

assemble_proof(s) ==
    IF s = <<>> THEN Unit
    ELSE Extend([unit |-> FALSE, pieces |-> <<>>], s)

\* Two steps paste when the boundary they share is one diagram.
Pastes(s) == \A i \in 1 .. Len(s) - 1 : Far(backward, s[i]) = Near(backward, s[i + 1])

Active == SubSeq(steps, 1, active_len)

----------------------------------------------------------------------------
(* Opening a session                                                       *)

\* from_diagrams
Fresh ==
    /\ initial_diagram \in Diagram
    /\ steps = <<>>
    /\ current_diagram = initial_diagram

\* resume: the pieces of a proof, in session order, all applied.
Resumed(pieces) ==
    /\ \A i \in 1 .. Len(pieces) - 1 : Output[pieces[i]] = Input[pieces[i + 1]]
    /\ initial_diagram = IF backward THEN Output[pieces[Len(pieces)]] ELSE Input[pieces[1]]
    /\ steps = PasteOrder(pieces)
    /\ current_diagram = Far(backward, steps[Len(steps)])

Init ==
    /\ backward \in BOOLEAN
    /\ target_diagram \in Diagram \cup {None}
    /\ \/ Fresh
       \/ \E k \in 1 .. MaxSteps : \E pieces \in [1 .. k -> Step] : Resumed(pieces)
    /\ history = [i \in 1 .. Len(steps) |-> {}]
    /\ active_len = Len(steps)
    /\ rewrites = Matches[backward][current_diagram]
    /\ parallel = TRUE
    /\ proof_cache = None
    /\ diagrams = [name \in {} |-> Unit]

----------------------------------------------------------------------------
(* Moving in the history                                                   *)

refresh_rewrites == rewrites' = Matches[backward][current_diagram']

\* Faults: the menu of the diagram left behind; the steps undone forgotten.
seek_stale_menu(to) ==
    /\ current_diagram' = IF to = 0 THEN initial_diagram ELSE Far(backward, steps[to])
    /\ active_len' = to
    /\ UNCHANGED <<fixed, steps, history, rewrites, parallel, proof_cache, diagrams>>

seek_forgetting(to) ==
    /\ current_diagram' = IF to = 0 THEN initial_diagram ELSE Far(backward, steps[to])
    /\ active_len' = to
    /\ steps' = SubSeq(steps, 1, to)
    /\ history' = SubSeq(history, 1, to)
    /\ refresh_rewrites
    /\ UNCHANGED <<fixed, parallel, proof_cache, diagrams>>

seek(to) ==
    /\ current_diagram' = IF to = 0 THEN initial_diagram ELSE Far(backward, steps[to])
    /\ active_len' = to
    /\ refresh_rewrites
    /\ UNCHANGED <<fixed, steps, history, parallel, proof_cache, diagrams>>

undo == active_len > 0 /\ seek(active_len - 1)

redo == active_len < Len(history) /\ seek(active_len + 1)

undo_to(to) == to \in 0 .. (active_len - 1) /\ seek(to)

redo_to(to) == to \in (active_len + 1) .. Len(history) /\ seek(to)

----------------------------------------------------------------------------
(* Rewriting                                                               *)

\* Fault: the cache outlives the steps it covers.
truncate_redo_stale == UNCHANGED proof_cache

\* A cached proof that covers steps of the redo buffer goes with them.
truncate_redo ==
    proof_cache' = IF proof_cache # None /\ proof_cache.at_step > active_len
                   THEN None ELSE proof_cache

\* The steps `new`, and the choices that made them, take the place of what was
\* kept for redo.
Record(new, choices) ==
    /\ active_len + Len(new) =< MaxSteps
    /\ steps' = Active \o new
    /\ history' = SubSeq(history, 1, active_len) \o choices
    /\ truncate_redo
    /\ active_len' = active_len + Len(new)
    /\ current_diagram' = IF new = <<>> THEN current_diagram ELSE Far(backward, new[Len(new)])
    /\ refresh_rewrites
    /\ UNCHANGED <<fixed, parallel, diagrams>>

step(choice) ==
    /\ choice \in 1 .. Len(rewrites)
    /\ Record(<<rewrites[choice]>>, <<{choice}>>)

\* Two or more disjoint matches at once.
step_multi(choices) ==
    /\ choices \in DOMAIN Families[backward][current_diagram]
    /\ Record(<<Families[backward][current_diagram][choices]>>, <<choices>>)

target_reached(d) == target_diagram # None /\ d = target_diagram

\* A drive of k =< n steps from the current diagram through the diagrams
\* run[1], ..., run[k]: it goes on exactly as long as it meets neither the n-th
\* step nor a diagram it stops at.
Drives(n, k, run, new, stops) ==
    /\ run[0] = current_diagram
    /\ \A i \in 0 .. k - 1 : run[i] \notin stops
    /\ \A i \in 1 .. k : run[i] = Far(backward, new[i])
    /\ k = n \/ run[k] \in stops

\* The family of a parallel auto, the first match of a sequential one.
auto_choice(d) ==
    IF parallel THEN Greedy[backward][d]
    ELSE IF Matches[backward][d] = <<>> THEN {} ELSE {1}

\* Fault: a family is recorded as the first match.
auto_record_first(choices) == {1}

\* What auto writes in the history: a family has no choice, a single match is
\* recorded as the first.
auto_record(choices) ==
    IF parallel /\ \A i \in choices : choices # {i} THEN {} ELSE {1}

auto(n) ==
    \E k \in 0 .. n : \E run \in [0 .. k -> Diagram] :
        LET chosen == [i \in 1 .. k |-> auto_choice(run[i - 1])]
            new == [i \in 1 .. k |-> FamilyStep(backward, run[i - 1], chosen[i])]
            stops == {d \in Diagram : target_reached(d) \/ auto_choice(d) = {}}
        IN  /\ Drives(n, k, run, new, stops)
            /\ Record(new, [i \in 1 .. k |-> auto_record(chosen[i])])

\* Up to n times `step` with a random menu entry: the redo buffer goes with
\* the first step, and stays when there is none.
random(n) ==
    \E k \in 1 .. n : \E run \in [0 .. k -> Diagram], picks \in [1 .. k -> MenuIndex] :
        LET new == [i \in 1 .. k |-> Matches[backward][run[i - 1]][picks[i]]]
            stops == {d \in Diagram : target_reached(d) \/ Matches[backward][d] = <<>>}
        IN  /\ \A i \in 1 .. k : picks[i] \in Index(backward, run[i - 1])
            /\ Drives(n, k, run, new, stops)
            /\ Record(new, [i \in 1 .. k |-> {picks[i]}])

set_parallel(on) ==
    /\ parallel' = on
    /\ UNCHANGED <<fixed, current_diagram, steps, history, active_len, rewrites,
                   proof_cache, diagrams>>

----------------------------------------------------------------------------
(* The proof                                                               *)

\* Fault: a step-0 snapshot is taken for a prefix.
CurrentProof_from_unit ==
    IF proof_cache = None THEN assemble_proof(Active)
    ELSE IF proof_cache.at_step = active_len THEN proof_cache.snapshot
    ELSE IF proof_cache.at_step < active_len
    THEN Extend(proof_cache.snapshot, SubSeq(steps, proof_cache.at_step + 1, active_len))
    ELSE assemble_proof(Active)

\* The assembled proof of the active steps, out of the cache where it covers a
\* proper prefix of them.  A snapshot of step 0 is the initial diagram, not a
\* prefix.
CurrentProof ==
    IF proof_cache = None THEN assemble_proof(Active)
    ELSE IF proof_cache.at_step = active_len THEN proof_cache.snapshot
    ELSE IF 0 < proof_cache.at_step /\ proof_cache.at_step < active_len
    THEN Extend(proof_cache.snapshot, SubSeq(steps, proof_cache.at_step + 1, active_len))
    ELSE assemble_proof(Active)

cache_proof ==
    /\ Pastes(Active)
    /\ proof_cache' = [snapshot |-> CurrentProof, at_step |-> active_len]

proof_diagram ==
    /\ cache_proof
    /\ UNCHANGED <<fixed, current_diagram, steps, history, active_len, rewrites,
                   parallel, diagrams>>

\* `store`: a name in use is refused, after the proof was assembled.
register_proof(name) ==
    /\ cache_proof
    /\ diagrams' = IF name \in TakenNames \cup DOMAIN diagrams THEN diagrams
                   ELSE [bound \in DOMAIN diagrams \cup {name} |->
                            IF bound = name THEN CurrentProof ELSE diagrams[bound]]
    /\ UNCHANGED <<fixed, current_diagram, steps, history, active_len, rewrites, parallel>>

----------------------------------------------------------------------------

Next ==
    \/ undo
    \/ redo
    \/ \E to \in 0 .. MaxSteps : undo_to(to) \/ redo_to(to)
    \/ \E choice \in 1 .. Len(rewrites) : step(choice)
    \/ \E choices \in DOMAIN Families[backward][current_diagram] : step_multi(choices)
    \/ \E n \in 0 .. MaxAuto : auto(n) \/ random(n)
    \/ \E on \in BOOLEAN : set_parallel(on)
    \/ proof_diagram
    \/ \E name \in Name : register_proof(name)

Spec == Init /\ [][Next]_vars

----------------------------------------------------------------------------
(* Properties                                                              *)

\* The diagram after i steps of the history.
DiagramAt(i) == IF i = 0 THEN initial_diagram ELSE Far(backward, steps[i])

Proof == [unit : BOOLEAN, pieces : Seq(Step)]

TypeOK ==
    /\ initial_diagram \in Diagram
    /\ target_diagram \in Diagram \cup {None}
    /\ backward \in BOOLEAN
    /\ current_diagram \in Diagram
    /\ steps \in Seq(Step)
    /\ history \in Seq(SUBSET MenuIndex)
    /\ Len(history) = Len(steps)
    /\ active_len \in 0 .. Len(steps)
    /\ rewrites \in Seq(Step)
    /\ parallel \in BOOLEAN
    /\ proof_cache \in [snapshot : Proof, at_step : Nat] \cup {None}
    /\ DOMAIN diagrams \subseteq Name
    /\ diagrams \in [DOMAIN diagrams -> Proof]

\* The steps recorded, those kept for redo included, follow one another from
\* the initial diagram: whatever was undone, redone, discarded or driven
\* automatically, forward or backward, redoing is legal and the steps paste.
Chain == \A i \in 1 .. Len(steps) : Near(backward, steps[i]) = DiagramAt(i - 1)

\* The current diagram is where the applied steps lead, and the menu is the
\* matches of that diagram: the menu of a session does not depend on the route
\* taken (the tests rewrite_order_independent_of_route sample this).
AtTheActiveStep ==
    /\ current_diagram = DiagramAt(active_len)
    /\ rewrites = Matches[backward][current_diagram]

\* A recorded choice is the one that replays its step: `history` shows, for
\* each step with a choice, the menu entries that make it from the diagram the
\* step started from.
HistoryReplays ==
    \A i \in 1 .. Len(history) : history[i] # {} =>
        /\ history[i] \in Applicable(backward, DiagramAt(i - 1))
        /\ steps[i] = FamilyStep(backward, DiagramAt(i - 1), history[i])

\* The cached proof is the one assembling its steps afresh would give, and the
\* steps it covers are still recorded.
CacheIsAPrefix ==
    proof_cache # None =>
        /\ proof_cache.at_step =< Len(steps)
        /\ proof_cache.snapshot = assemble_proof(SubSeq(steps, 1, proof_cache.at_step))

\* `store` binds a name to the proof of exactly the steps applied when it was
\* given, whatever the cache went through before, and never rebinds one.
StoreBindsTheActiveProof ==
    [][\A name \in DOMAIN diagrams' :
           diagrams'[name] = IF name \in DOMAIN diagrams THEN diagrams[name]
                             ELSE assemble_proof(Active)]_vars

\* Undo, redo, stepping and driving are the operations of one linear history.
History == INSTANCE Steps WITH
    State <- Diagram,
    trail <- <<initial_diagram>> \o [i \in 1 .. Len(steps) |-> Far(backward, steps[i])],
    at    <- active_len

\* The engine implements the trait `Steps`.
ImplementsSteps == History!Spec

============================================================================
