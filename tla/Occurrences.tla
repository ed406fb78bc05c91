---------------------------- MODULE Occurrences ----------------------------
(***************************************************************************)
(* Where a rule occurs in a diagram, and what is glued there               *)
(* (core/matching.rs). A rule is a generator; its pattern is the side of   *)
(* its boundary that is rewritten, and an occurrence is an embedding of    *)
(* the pattern that keeps the labels.                                      *)
(***************************************************************************)
EXTENDS Diagrams

RulePattern(t, backward) ==
    LET sign == IF backward THEN "out" ELSE "in"
        n == top_dim(classifier[t]) - 1
    IN  [name |-> t, backward |-> backward,
         pattern |-> boundary_normal(sign, n, classifier[t]),
         pattern_to_rewrite |-> boundary_traverse(sign, n, classifier[t].shape)]

MatchingLabels(pattern, target, map) ==
    IF \A c \in DOMAIN map : pattern.labels[c] = target.labels[map[c]] THEN map ELSE <<>>
Onto(iso, sub) == [c \in DOMAIN iso |-> sub.map[iso[c]]]
MatchOnto(pattern, target, sub) ==
    MatchingLabels(pattern, target, Onto(find_isomorphism(pattern.shape, sub.dom), sub))

\* The embedding of the pattern onto the closure of the matched cells, as the
\* map of its cells; none is <<>>.
check_match_isomorphism(pattern, target, cells) ==
    MatchOnto(pattern, target, restrict_ogposet(target.shape, closure(target.shape, cells)))

Candidate(rule, target, map) ==
    [rule |-> rule, iso |-> Embedding(rule.pattern.shape, target.shape, map),
     positions |-> {c \in Image(map) : c[1] = top_dim(target)}]

\* No focus runs in circles in a rule, in its pattern, or in what any top
\* cells of d span.
RulesHaveInputs ==
    \A t \in DOMAIN classifier :
        /\ HasInputs(classifier[t].shape)
        /\ top_dim(classifier[t]) >= 1 =>
              \A backward \in BOOLEAN : HasInputs(RulePattern(t, backward).pattern.shape)
PartsHaveInputs(d) ==
    \A S \in SUBSET Level(d.shape, top_dim(d)) :
        HasInputs(restrict_ogposet(d.shape, closure(d.shape, S)).dom)

\* Each rule of a family, along its pattern.
SpansOf(family) ==
    [i \in DOMAIN family |-> [into_base |-> family[i].iso, into_ext |-> family[i].rule.pattern_to_rewrite]]
=============================================================================
