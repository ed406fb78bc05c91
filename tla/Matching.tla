------------------------------ MODULE Matching ------------------------------
(***************************************************************************)
(* Where the rules of a complex apply in a diagram (core/matching.rs): a   *)
(* candidate embeds the pattern of a rule, and is confirmed by gluing the  *)
(* rule onto the diagram and finding how the result was pasted.            *)
(* Candidates that touch no common top cell make a family, applied in one  *)
(* step.                                                                   *)
(***************************************************************************)
EXTENDS Reconstruct, Occurrences

CONSTANT names      \* the generators in the order of their names

Size(s) == Cardinality(DOMAIN s)

RulesFor(d) == SelectSeq(names, LAMBDA t : top_dim(classifier[t]) = top_dim(d) + 1)

----------------------------------------------------------------------------
(* Candidates.                                                             *)

\* All label-preserving injections of a flow graph that reflect its edges.
RECURSIVE backtrack_subgraph(_, _, _, _, _)
backtrack_subgraph(pattern, target, candidates, order, assignment) ==
    LET pi == order[Size(assignment) + 1]
        fits(ti) == /\ ti \notin Image(assignment)
                    /\ \A pj \in DOMAIN assignment :
                          /\ (<<pi, pj>> \in pattern.edge) = (<<ti, assignment[pj]>> \in target.edge)
                          /\ (<<pj, pi>> \in pattern.edge) = (<<assignment[pj], ti>> \in target.edge)
        tries == SelectSeq(candidates[pi], fits)
    IN  IF Size(assignment) = Len(order) THEN <<assignment>>
        ELSE FlattenSeq([i \in DOMAIN tries |->
                 backtrack_subgraph(pattern, target, candidates, order, assignment @@ pi :> tries[i])])

\* Fault: a pattern of the size of the target does not match it.
Fits_within(pattern, target) == Cardinality(pattern.node) < Cardinality(target.node)

Fits(pattern, target) == Cardinality(pattern.node) =< Cardinality(target.node)

\* The most constrained nodes first, then those of the highest degree.
find_path_induced_matches(pattern, target, p_labels, t_labels) ==
    LET candidates == Table([p \in pattern.node |-> Sorted({t \in target.node : t_labels[t] = p_labels[p]})])
        degree(p) == Cardinality(successors(pattern, p)) + Cardinality(predecessors(pattern, p))
        precedes(p, q) == \/ Len(candidates[p]) < Len(candidates[q])
                          \/ /\ Len(candidates[p]) = Len(candidates[q])
                             /\ degree(p) > degree(q) \/ (degree(p) = degree(q) /\ Before(p, q))
        order == Table([i \in 1..Cardinality(pattern.node) |->
                     CHOOSE p \in pattern.node :
                         Cardinality({q \in pattern.node : precedes(q, p)}) = i - 1])
    IN  IF ~Fits(pattern, target) THEN <<>>
        ELSE backtrack_subgraph(pattern, target, candidates, order, <<>>)

Candidates(rule, target, images) ==
    LET maps == [i \in DOMAIN images |-> check_match_isomorphism(rule.pattern, target, images[i])]
        found == SelectSeq(maps, LAMBDA map : map # <<>>)
    IN  [i \in DOMAIN found |-> Candidate(rule, target, found[i])]

\* The cells that a match of the flow graphs of the top cells hits; a point
\* matches every point.
MatchedCells(matches, target) ==
    IF top_dim(target) = 0 THEN [i \in 1..Cardinality(Cells(target.shape)) |-> {<<0, i - 1>>}]
    ELSE Distinct([i \in DOMAIN matches |-> Image(matches[i])])

for_each_candidate_in_rule(rule, target, occupied) ==
    LET k == top_dim(target) - 1
        matches == find_path_induced_matches(flow_graph(rule.pattern.shape, k), flow_graph(target.shape, k),
                                             rule.pattern.labels, target.labels)
    IN  Candidates(rule, target, SelectSeq(MatchedCells(matches, target), LAMBDA S : S \cap occupied = {}))

for_each_rule_candidate(target, backward) ==
    FlattenSeq([i \in DOMAIN RulesFor(target) |->
        for_each_candidate_in_rule(RulePattern(RulesFor(target)[i], backward), target, {})])

----------------------------------------------------------------------------
(* Confirmation.                                                           *)

StepLabels(p, target, family) ==
    FoldLeft(LAMBDA labels, i : labels @@ [c \in Image(p.inrs[i]) |->
                 classifier[family[i].rule.name].labels[Preimage(p.inrs[i], c)]],
             target.labels, [i \in DOMAIN family |-> i])

\* Up to dimension 3 the tree found is taken without realising it. The other
\* boundary of the step has each rule in it replaced by its other side.
WithStepTree(shape, labels, target, backward, t) ==
    LET k == top_dim(target)
        rules == {r \in DOMAIN classifier : top_dim(classifier[r]) = k + 1}
        derived == substitute(t, [r \in rules |-> tree(classifier[r], IF backward THEN "in" ELSE "out", k)])
    IN  IF t = NoTree THEN Failed
        ELSE Diagram(shape, labels,
                 [j \in 0..k + 1 |->
                     IF j < k THEN target.history[j]
                     ELSE IF j > k THEN [in |-> t, out |-> t]
                     ELSE IF backward THEN [in |-> derived, out |-> tree(target, "out", k)]
                     ELSE [in |-> tree(target, "in", k), out |-> derived]])

assemble_low_dim_step(shape, labels, target, backward) ==
    WithStepTree(shape, labels, target, backward, build_paste_tree(shape, labels))

Assembled(shape, labels, target, family) ==
    IF Dim(shape) =< 3 THEN assemble_low_dim_step(shape, labels, target, family[1].rule.backward)
    ELSE reconstruct(shape, labels)

StepOver(p, target, family) == Assembled(p.tip, StepLabels(p, target, family), target, family)

construct_parallel_step(target, family) ==
    StepOver(multi_pushout(target.shape, SpansOf(family)), target, family)

Confirmed(target, family) == construct_parallel_step(target, family) # Failed

confirmed_matches(target, backward) ==
    SelectSeq(for_each_rule_candidate(target, backward), LAMBDA cand : Confirmed(target, <<cand>>))

----------------------------------------------------------------------------
(* Families.                                                               *)

Positions(family) == UNION {family[i].positions : i \in DOMAIN family}

\* Fault: the first match of each rule is taken.
AddDisjoint_first(family, occupied, cand) ==
    IF /\ cand.positions \cap (occupied \cup Positions(family)) = {}
       /\ \A i \in DOMAIN family : family[i].rule.name # cand.rule.name
    THEN Append(family, cand) ELSE family

AddDisjoint(family, occupied, cand) ==
    IF cand.positions \cap (occupied \cup Positions(family)) = {} THEN Append(family, cand) ELSE family

build_greedy_family(target, backward, occupied) ==
    FoldLeft(LAMBDA family, t :
                 FoldLeft(LAMBDA f, cand : AddDisjoint(f, occupied, cand), family,
                          for_each_candidate_in_rule(RulePattern(t, backward), target,
                                                     occupied \cup Positions(family))),
             <<>>, RulesFor(target))

RECURSIVE try_or_shrink(_, _, _)

TryRefilled(target, backward, prefix, full) ==
    IF full # prefix /\ Confirmed(target, full) THEN full ELSE try_or_shrink(target, backward, prefix)

\* A family that cannot be confirmed loses its last member; what is left is
\* tried with fresh members, then alone. None is <<>>.
try_or_shrink(target, backward, family) ==
    IF Confirmed(target, family) THEN family
    ELSE IF Len(family) =< 1 THEN <<>>
    ELSE TryRefilled(target, backward, Front(family),
                     Front(family) \o build_greedy_family(target, backward, Positions(Front(family))))

TryFamily(target, backward, family) == IF family = <<>> THEN <<>> ELSE try_or_shrink(target, backward, family)
greedy_parallel_auto_step(target, backward) ==
    TryFamily(target, backward, build_greedy_family(target, backward, {}))
=============================================================================
