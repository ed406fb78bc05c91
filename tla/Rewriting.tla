------------------------------ MODULE Rewriting ------------------------------
(***************************************************************************)
(* Diagrams as a session has them: one is pasted from cells, becomes the   *)
(* start of a session, and is rewritten step by step while the steps are   *)
(* pasted to a proof (interactive/engine.rs over core/matching.rs).        *)
(***************************************************************************)
EXTENDS Matching

CONSTANTS
    Generators,     \* the generators of the complex, as declared
    MaxLeaves,      \* generators that are pasted
    MaxCells,       \* cells of what they are pasted to
    MaxSteps        \* steps of a session
ASSUME BoundsAssumption == MaxLeaves \in Nat /\ MaxCells \in Nat /\ MaxSteps \in Nat

VARIABLES
    current,        \* the diagram pasted so far, then the one rewritten
    initial,        \* what the session starts from; NoDiagram before it starts
    steps,          \* the steps applied
    history,        \* the rules each step applies
    backward        \* whether rules apply from output to input

vars == <<classifier, current, initial, steps, history, backward>>

NoDiagram == [none |-> TRUE]

Init ==
    /\ classifier = ComplexOf(Generators)
    /\ current \in Image(classifier)
    /\ initial = NoDiagram /\ steps = <<>> /\ history = <<>>
    /\ backward \in BOOLEAN

----------------------------------------------------------------------------
(* A diagram is pasted.                                                    *)

RECURSIVE leaves(_)
leaves(t) == IF IsLeaf(t) THEN 1 ELSE leaves(t.left) + leaves(t.right)

Pasted(d) ==
    /\ initial = NoDiagram
    /\ d # Failed /\ Cardinality(Cells(d.shape)) =< MaxCells
    /\ leaves(tree(d, "in", top_dim(d))) =< MaxLeaves
    /\ current' = d
    /\ UNCHANGED <<classifier, initial, steps, history, backward>>

PasteAfter == \E t \in DOMAIN classifier, k \in 0..top_dim(current) - 1 : Pasted(paste(k, current, classifier[t]))
PasteBefore == \E t \in DOMAIN classifier, k \in 0..top_dim(current) - 1 : Pasted(paste(k, classifier[t], current))

----------------------------------------------------------------------------
(* A session starts, from a diagram or from a proof.                       *)

step_sign == IF backward THEN "in" ELSE "out"

from_diagrams ==
    /\ initial = NoDiagram
    /\ current' = normal(current)
    /\ initial' = current'
    /\ UNCHANGED <<classifier, steps, history, backward>>

\* The trees of the steps of a proof: the parts of its tree pasted above the
\* dimension of what is rewritten.
InOrder(parts) == IF backward THEN Reverse(parts) ELSE parts
Parts(proof) ==
    InOrder(flatten_at(pseudo_normalise(TopTree(proof)), top_dim(proof) - 1))

Realised(trees) == [i \in DOMAIN trees |-> realise_tree(trees[i])]

ResumeAt(k, realised, applied) ==
    /\ initial' = boundary_normal(Opposite(step_sign), k, current)
    /\ current' = boundary_normal(step_sign, k, Last(realised))
    /\ steps' = realised
    /\ history' = applied
    /\ UNCHANGED <<classifier, backward>>

ResumeFrom(parts) ==
    ResumeAt(top_dim(current) - 1, Table(Realised(parts)), [i \in DOMAIN parts |-> top_generators(parts[i])])

resume ==
    /\ initial = NoDiagram /\ top_dim(current) > 0
    /\ ResumeFrom(Parts(current))

----------------------------------------------------------------------------
(* It is rewritten.                                                        *)

n == top_dim(initial)

Joined(k, first, second) == IF first = Failed \/ second = Failed THEN Failed ELSE paste(k, first, second)

\* Fault: the steps of a backward session are pasted in the order they were taken.
Composite_forward(built, k) == FoldLeft(LAMBDA acc, d : Joined(k, acc, d), Head(built), Tail(built))

\* The steps pasted at k, in the order of the proof.
Composite(built, k) ==
    FoldLeft(LAMBDA acc, d : Joined(k, IF backward THEN d ELSE acc, IF backward THEN acc ELSE d),
             Head(built), Tail(built))

assemble_proof == IF steps = <<>> THEN initial ELSE Composite(steps, n)

Advance(built, family) ==
    /\ built # Failed
    /\ current' = boundary_normal(step_sign, n, built)
    /\ steps' = Append(steps, built)
    /\ history' = Append(history, [i \in DOMAIN family |-> family[i].rule.name])
    /\ UNCHANGED <<classifier, initial, backward>>

Apply(family) ==
    /\ initial # NoDiagram /\ Len(steps) < MaxSteps
    /\ family # <<>>
    /\ Advance(construct_parallel_step(current, family), family)

step == \E cand \in ToSet(for_each_rule_candidate(current, backward)) : Apply(<<cand>>)
auto_parallel == Apply(greedy_parallel_auto_step(current, backward))

Next == PasteAfter \/ PasteBefore \/ from_diagrams \/ resume \/ step \/ auto_parallel
Spec == Init /\ [][Next]_vars

----------------------------------------------------------------------------
(* What holds.                                                             *)

Signs == {"in", "out"}

\* Each tree of a history realises to the boundary it is kept for, whether
\* the diagram was pasted, normalised, or taken from a step that was never
\* realised (construct_parallel_step up to dimension 3).
HistoryIsHonest ==
    \A d \in {current} \cup ToSet(steps) :
        /\ well_formed(d)
        /\ \A k \in 0..top_dim(d), sign \in Signs :
              isomorphic(realise_tree(tree(d, sign, k)), diagram_boundary(sign, k, d))

\* The two ways to a boundary agree, the one that is marked normal is in the
\* canonical order, and both sides of a boundary have the same boundaries; no
\* cells run in circles, which is what every traversal relies on.
BoundariesAreCanonical ==
    /\ HasInputs(current.shape)
    /\ \A k \in 0..top_dim(current), sign \in Signs :
           LET b == boundary_normal(sign, k, current)
           IN  /\ isomorphic(b, diagram_boundary(sign, k, current))
               /\ b.shape.normal /\ equal(traverse(b.shape, build_stack_extremal(b.shape), TRUE).dom, b.shape)
               /\ \A j \in 0..k - 1, side \in Signs :
                     isomorphic(boundary_normal(side, j, b), boundary_normal(side, j, current))

\* A diagram is found again from its shape and its labels.
Reconstructs ==
    LET found == reconstruct(current.shape, current.labels)
    IN  found # Failed /\ isomorphic(found, current)

times(t, s) == Cardinality({i \in DOMAIN s : s[i] = t})

RunsToCurrent(proof) ==
    /\ proof # Failed
    /\ isomorphic(boundary_normal(Opposite(step_sign), n, proof), initial)
    /\ isomorphic(boundary_normal(step_sign, n, proof), current)
    /\ \A t \in DOMAIN classifier :
          Cardinality({c \in Level(proof.shape, n + 1) : proof.labels[c] = t}) = times(t, FlattenSeq(history))

\* The steps paste to a proof from the initial diagram to the current one, and
\* the history names the rules in it, with as many of each.
ProofRunsToCurrent == steps = <<>> \/ RunsToCurrent(assemble_proof)

SameAsCurrent(proof) == proof # Failed /\ isomorphic(proof, current)

\* A session resumed from a proof has steps that paste to that proof.
ResumedIsTheProof ==
    initial = NoDiagram /\ top_dim(current) > 0 =>
        SameAsCurrent(Composite(Realised(Parts(current)), top_dim(current) - 1))

\* The cells a rule applies to: those whose closure is the pattern, and on
\* which the rule can be glued.
Rewrites(rule, part) ==
    /\ isomorphic(rule.pattern, BoundaryOf(current, "in", top_dim(current), part))
    /\ Confirmed(current, <<Candidate(rule, current, Onto(find_isomorphism(rule.pattern.shape, part.dom), part))>>)

AppliesTo(rule) ==
    {S \in kSubset(Cardinality(Level(rule.pattern.shape, top_dim(current))), Level(current.shape, top_dim(current))) :
        Rewrites(rule, restrict_ogposet(current.shape, closure(current.shape, S)))}

OfferedOnce(offered, applies) ==
    /\ {cand.positions : cand \in ToSet(offered)} = applies
    /\ Len(offered) = Cardinality(applies)

IsAllMatches(menu) ==
    \A t \in ToSet(RulesFor(current)) :
        OfferedOnce(SelectSeq(menu, LAMBDA cand : cand.rule.name = t), AppliesTo(RulePattern(t, backward)))

\* The search through flow graphs misses no place where a rule applies, offers
\* each once and no other; and what it compares has a normal form to be found
\* by, since no cells run in circles there.
MatchesAreAll ==
    initial # NoDiagram =>
        /\ RulesHaveInputs /\ PartsHaveInputs(current)
        /\ IsAllMatches(confirmed_matches(current, backward))

MaximalIn(menu, family) ==
    /\ family = <<>> <=> menu = <<>>
    /\ \A i, j \in DOMAIN family : i # j => family[i].positions \cap family[j].positions = {}
    /\ \A i \in DOMAIN menu : menu[i].positions \cap Positions(family) # {}

\* A parallel auto takes disjoint matches that can be applied at once, as many
\* as no other match of the menu can be added to, and rests only when no rule
\* applies.
AutoIsMaximal ==
    initial # NoDiagram =>
        MaximalIn(confirmed_matches(current, backward), greedy_parallel_auto_step(current, backward))
=============================================================================
