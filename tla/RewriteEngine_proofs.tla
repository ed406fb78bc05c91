------------------------ MODULE RewriteEngine_proofs ------------------------
(***************************************************************************)
(* What holds of RewriteEngine for every set of diagrams and steps and any *)
(* matcher that keeps its promise.  The inductive invariant is the         *)
(* conjunction of the invariants TLC checks: the cache is right only       *)
(* because the history is never out of step with it, and the history only  *)
(* because the menu is that of the diagram the next step leaves from.      *)
(***************************************************************************)
EXTENDS RewriteEngine, TLAPS

IInv ==
    /\ TypeOK
    /\ Chain
    /\ AtTheActiveStep
    /\ HistoryReplays
    /\ CacheIsAPrefix

----------------------------------------------------------------------------
(* Sequences                                                               *)

\* Reversal turns a concatenation round (PasteOrder in a backward session).
LEMMA ReverseConcat ==
    ASSUME NEW S, NEW s \in Seq(S), NEW t \in Seq(S)
    PROVE  /\ Reverse(s) \in Seq(S)
           /\ Len(Reverse(s)) = Len(s)
           /\ Reverse(s \o t) = Reverse(t) \o Reverse(s)
  BY DEF Reverse

\* A sequence cut in two is the concatenation of its parts.
LEMMA CutInTwo ==
    ASSUME NEW S, NEW s \in Seq(S), NEW n \in 0 .. Len(s), NEW k \in 0 .. n
    PROVE  /\ SubSeq(s, 1, k) \in Seq(S) /\ Len(SubSeq(s, 1, k)) = k
           /\ SubSeq(s, k + 1, n) \in Seq(S) /\ Len(SubSeq(s, k + 1, n)) = n - k
           /\ SubSeq(s, 1, n) = SubSeq(s, 1, k) \o SubSeq(s, k + 1, n)
  OBVIOUS

\* Of a concatenation, what lies within the first part is that part's.
LEMMA PrefixOfConcat ==
    ASSUME NEW S, NEW s \in Seq(S), NEW t \in Seq(S), NEW n \in 0 .. Len(s),
           NEW k \in 0 .. n
    PROVE  SubSeq(SubSeq(s, 1, n) \o t, 1, k) = SubSeq(s, 1, k)
  OBVIOUS

\* The elements of a prefix followed by another sequence.
LEMMA ConcatElements ==
    ASSUME NEW S, NEW s \in Seq(S), NEW t \in Seq(S), NEW n \in 0 .. Len(s)
    PROVE  LET r == SubSeq(s, 1, n) \o t
           IN  /\ r \in Seq(S)
               /\ Len(r) = n + Len(t)
               /\ \A i \in 1 .. n : r[i] = s[i]
               /\ \A i \in 1 .. Len(t) : r[n + i] = t[i]
               /\ \A i \in 1 .. Len(r) : i > n => r[i] = t[i - n]
  OBVIOUS


----------------------------------------------------------------------------
(* The matcher                                                             *)

\* The step a single menu entry stands for is that entry, and every set of
\* entries that applies gives a step from the diagram matched.
LEMMA SingleMatch ==
    ASSUME NEW b \in BOOLEAN, NEW d \in Diagram, NEW i \in Index(b, d)
    PROVE  /\ FamilyStep(b, d, {i}) = Matches[b][d][i]
           /\ {i} \in Applicable(b, d)
           /\ Matches[b][d][i] \in Step
           /\ Near(b, Matches[b][d][i]) = d
           /\ {i} \in SUBSET MenuIndex
<1>1. \A j \in Index(b, d) : {i} = {j} => j = i
  OBVIOUS
<1>2. FamilyStep(b, d, {i}) = Matches[b][d][i]
  BY <1>1 DEF FamilyStep
<1>3. {i} \in Applicable(b, d)
  BY DEF Applicable
<1>4. {i} \in SUBSET MenuIndex
  BY DEF MenuIndex
<1>. QED
  BY <1>2, <1>3, <1>4, MatcherAssumption

\* What a set of entries that applies is made of, and the step it stands for.
LEMMA FamilyMatch ==
    ASSUME NEW b \in BOOLEAN, NEW d \in Diagram, NEW choices \in Applicable(b, d)
    PROVE  /\ FamilyStep(b, d, choices) \in Step
           /\ Near(b, FamilyStep(b, d, choices)) = d
           /\ choices \in SUBSET MenuIndex
<1>1. choices \in SUBSET Index(b, d)
  BY MatcherAssumption DEF Applicable
<1>2. Index(b, d) \subseteq MenuIndex
  BY DEF MenuIndex
<1>. QED
  BY <1>1, <1>2, MatcherAssumption

\* Both boundaries of a step are diagrams.
LEMMA Boundaries ==
    ASSUME NEW b \in BOOLEAN, NEW s \in Step
    PROVE  Near(b, s) \in Diagram /\ Far(b, s) \in Diagram
  BY BoundaryAssumption DEF Near, Far

----------------------------------------------------------------------------
(* Each operation                                                          *)

\* Moving in the history: `seek`, which undo and redo end in.
LEMMA SeekInv ==
    ASSUME IInv, NEW to \in 0 .. Len(steps), seek(to)
    PROVE  IInv'
<1>. USE DEF IInv, seek, fixed
<1>1. DiagramAt(to) \in Diagram
  BY Boundaries DEF TypeOK, DiagramAt
<1>2. current_diagram' = DiagramAt(to)
  BY DEF DiagramAt
<1>3. rewrites' = Matches[backward][current_diagram']
  BY DEF refresh_rewrites
<1>4. TypeOK'
  BY <1>1, <1>2, <1>3, MatcherAssumption DEF TypeOK, Proof
<1>5. Chain'
  BY DEF Chain, DiagramAt
<1>6. AtTheActiveStep'
  BY <1>2, <1>3 DEF AtTheActiveStep, DiagramAt
<1>7. HistoryReplays'
  BY DEF HistoryReplays, DiagramAt
<1>8. CacheIsAPrefix'
  BY DEF CacheIsAPrefix, assemble_proof, Extend, PasteOrder
<1>. QED
  BY <1>4, <1>5, <1>6, <1>7, <1>8

\* What `new` must be for it to continue the active steps: a chain from the
\* current diagram, whose recorded choices replay it.
Continues(new, choices) ==
    LET from(i) == IF i = 1 THEN current_diagram ELSE Far(backward, new[i - 1]) IN
    /\ new \in Seq(Step)
    /\ choices \in Seq(SUBSET MenuIndex)
    /\ Len(choices) = Len(new)
    /\ \A i \in 1 .. Len(new) :
           /\ Near(backward, new[i]) = from(i)
           /\ choices[i] # {} =>
                  /\ choices[i] \in Applicable(backward, from(i))
                  /\ new[i] = FamilyStep(backward, from(i), choices[i])

\* Recording what continues the active steps, whatever was kept for redo.
LEMMA RecordInv ==
    ASSUME IInv, NEW new, NEW choices, Continues(new, choices), Record(new, choices)
    PROVE  IInv'
<1>. USE DEF IInv, fixed
<1>. DEFINE n == active_len
<1>1. n \in 0 .. Len(steps) /\ Len(history) = Len(steps)
      /\ steps \in Seq(Step) /\ history \in Seq(SUBSET MenuIndex)
  BY DEF TypeOK
<1>2. new \in Seq(Step) /\ choices \in Seq(SUBSET MenuIndex) /\ Len(choices) = Len(new)
  BY DEF Continues
<1>3. /\ steps' \in Seq(Step)
      /\ Len(steps') = n + Len(new)
      /\ \A i \in 1 .. n : steps'[i] = steps[i]
      /\ \A i \in 1 .. Len(new) : steps'[n + i] = new[i]
      /\ \A i \in 1 .. Len(steps') : i > n => steps'[i] = new[i - n]
  <2>1. steps' = SubSeq(steps, 1, n) \o new
    BY DEF Record, Active
  <2>. HIDE DEF n
  <2>. QED
    BY <1>1, <1>2, <2>1, ConcatElements
<1>4. /\ history' \in Seq(SUBSET MenuIndex)
      /\ Len(history') = n + Len(new)
      /\ \A i \in 1 .. n : history'[i] = history[i]
      /\ \A i \in 1 .. Len(history') : i > n => history'[i] = choices[i - n]
  <2>1. history' = SubSeq(history, 1, n) \o choices
    BY DEF Record
  <2>. HIDE DEF n
  <2>. QED
    BY <1>1, <1>2, <2>1, ConcatElements
<1>5. /\ UNCHANGED <<initial_diagram, target_diagram, backward, parallel, diagrams>>
      /\ active_len' = n + Len(new)
      /\ current_diagram' = IF new = <<>> THEN current_diagram ELSE Far(backward, new[Len(new)])
      /\ rewrites' = Matches[backward][current_diagram']
  BY DEF Record, refresh_rewrites
<1>6. /\ current_diagram \in Diagram /\ backward \in BOOLEAN
      /\ current_diagram = IF n = 0 THEN initial_diagram ELSE Far(backward, steps[n])
  BY DEF TypeOK, AtTheActiveStep, DiagramAt
<1>7. current_diagram' \in Diagram /\ current_diagram' = DiagramAt(active_len)'
  <2>1. CASE new = <<>>
    <3>1. active_len' = n /\ current_diagram' = current_diagram
      <4>1. n + Len(new) = n
        BY <1>1, <2>1
      <4>. QED
        BY <4>1, <1>5, <2>1
    <3>2. n # 0 => steps'[n] = steps[n]
      BY <1>1, <1>3
    <3>. HIDE DEF n
    <3>. QED
      BY <3>1, <3>2, <1>5, <1>6 DEF DiagramAt
  <2>2. CASE new # <<>>
    <3>1. Len(new) \in 1 .. Len(new) /\ new[Len(new)] \in Step
      BY <1>2, <2>2
    <3>2. steps'[n + Len(new)] = new[Len(new)] /\ n + Len(new) # 0
      BY <3>1, <1>1, <1>3
    <3>. HIDE DEF n
    <3>. QED
      BY <3>1, <3>2, <2>2, <1>5, <1>6, Boundaries DEF DiagramAt
  <2>. QED
    BY <2>1, <2>2
\* The diagram each new step starts from, seen from the old and the new state.
<1>8. \A i \in 1 .. Len(steps') : i > n =>
          DiagramAt(i - 1)' = IF i - n = 1 THEN current_diagram ELSE Far(backward, new[(i - n) - 1])
  <2>. SUFFICES ASSUME NEW i \in 1 .. Len(steps'), i > n
       PROVE  DiagramAt(i - 1)' = IF i - n = 1 THEN current_diagram
                                  ELSE Far(backward, new[(i - n) - 1])
    OBVIOUS
  <2>1. CASE i = n + 1
    <3>1. i - 1 = n /\ i - n = 1
      BY <1>1, <2>1
    <3>2. n # 0 => steps'[n] = steps[n]
      BY <1>1, <1>3
    <3>. HIDE DEF n
    <3>. QED
      BY <3>1, <3>2, <1>5, <1>6 DEF DiagramAt
  <2>2. CASE i # n + 1
    <3>1. i - 1 \in 1 .. Len(steps') /\ i - 1 > n /\ i - n # 1 /\ i - 1 # 0
          /\ (i - 1) - n = (i - n) - 1
      BY <1>1, <1>3, <2>2
    <3>2. steps'[i - 1] = new[(i - n) - 1]
      BY <3>1, <1>3
    <3>. HIDE DEF n
    <3>. QED
      BY <3>1, <3>2, <1>5 DEF DiagramAt
  <2>. QED
    BY <2>1, <2>2
<1>9. \A i \in 1 .. n : DiagramAt(i - 1)' = DiagramAt(i - 1)
  BY <1>1, <1>3, <1>5 DEF DiagramAt
<1>10. proof_cache' # None => proof_cache' = proof_cache /\ proof_cache.at_step =< n
  BY <1>1 DEF Record, truncate_redo, TypeOK
<1>11. proof_cache' \in [snapshot : Proof, at_step : Nat] \cup {None}
  BY <1>10 DEF TypeOK
<1>12. TypeOK'
  <2>. HIDE DEF n
  <2>1. rewrites' \in Seq(Step)
    BY <1>5, <1>6, <1>7, MatcherAssumption
  <2>. QED
    BY <2>1, <1>1, <1>2, <1>3, <1>4, <1>5, <1>7, <1>11 DEF TypeOK, Proof
<1>13. Chain'
  <2>. SUFFICES ASSUME NEW i \in 1 .. Len(steps')
       PROVE  Near(backward, steps'[i]) = DiagramAt(i - 1)'
    BY <1>5 DEF Chain
  <2>1. CASE i > n
    <3>1. i - n \in 1 .. Len(new)
      BY <1>1, <1>2, <1>3, <2>1
    <3>. HIDE DEF n
    <3>. QED
      BY <3>1, <2>1, <1>3, <1>8 DEF Continues
  <2>2. CASE ~(i > n)
    <3>1. i \in 1 .. n
      BY <1>1, <1>3, <2>2
    <3>2. Near(backward, steps[i]) = DiagramAt(i - 1)
      BY <3>1, <1>1 DEF Chain
    <3>. HIDE DEF n
    <3>. QED
      BY <3>1, <3>2, <1>3, <1>9
  <2>. QED
    BY <2>1, <2>2
<1>14. AtTheActiveStep'
  BY <1>5, <1>7 DEF AtTheActiveStep
<1>15. HistoryReplays'
  <2>. SUFFICES ASSUME NEW i \in 1 .. Len(steps'), history'[i] # {}
       PROVE  /\ history'[i] \in Applicable(backward, DiagramAt(i - 1)')
              /\ steps'[i] = FamilyStep(backward, DiagramAt(i - 1)', history'[i])
    BY <1>3, <1>4, <1>5 DEF HistoryReplays
  <2>1. CASE i > n
    <3>1. i - n \in 1 .. Len(new)
      BY <1>1, <1>2, <1>3, <2>1
    <3>2. history'[i] = choices[i - n] /\ steps'[i] = new[i - n]
      BY <1>3, <1>4, <2>1
    <3>. HIDE DEF n
    <3>. QED
      BY <3>1, <3>2, <2>1, <1>8 DEF Continues
  <2>2. CASE ~(i > n)
    <3>1. i \in 1 .. n
      BY <1>1, <1>3, <2>2
    <3>2. history[i] # {} => /\ history[i] \in Applicable(backward, DiagramAt(i - 1))
                            /\ steps[i] = FamilyStep(backward, DiagramAt(i - 1), history[i])
      BY <3>1, <1>1 DEF HistoryReplays
    <3>. HIDE DEF n
    <3>. QED
      BY <3>1, <3>2, <1>3, <1>4, <1>9
  <2>. QED
    BY <2>1, <2>2
<1>16. CacheIsAPrefix'
  <2>. SUFFICES ASSUME proof_cache' # None
       PROVE  (/\ proof_cache.at_step =< Len(steps)
               /\ proof_cache.snapshot = assemble_proof(SubSeq(steps, 1, proof_cache.at_step)))'
    BY DEF CacheIsAPrefix
  <2>1. proof_cache.at_step \in 0 .. n
    BY <1>1, <1>10 DEF TypeOK
  <2>2. SubSeq(steps', 1, proof_cache.at_step) = SubSeq(steps, 1, proof_cache.at_step)
    <3>1. steps' = SubSeq(steps, 1, n) \o new
      BY DEF Record, Active
    <3>. DEFINE k == proof_cache.at_step
    <3>2. k \in 0 .. n
      BY <2>1
    <3>. HIDE DEF n, k
    <3>3. SubSeq(SubSeq(steps, 1, n) \o new, 1, k) = SubSeq(steps, 1, k)
      BY <3>2, <1>1, <1>2, PrefixOfConcat
    <3>. QED
      BY <3>1, <3>3 DEF k
  <2>3. proof_cache.at_step =< Len(steps')
    BY <2>1, <1>1, <1>2, <1>3
  <2>4. assemble_proof(SubSeq(steps, 1, proof_cache.at_step))'
            = assemble_proof(SubSeq(steps, 1, proof_cache.at_step))
    BY <2>2, <1>5, <1>10 DEF assemble_proof, Extend, PasteOrder, Unit
  <2>. QED
    BY <2>3, <2>4, <1>10 DEF CacheIsAPrefix
<1>. QED
  BY <1>12, <1>13, <1>14, <1>15, <1>16

\* Pasting further steps onto the proof of some gives the proof of all of them.
LEMMA ExtendProof ==
    ASSUME backward \in BOOLEAN, NEW s \in Seq(Step), NEW n \in 0 .. Len(s), NEW k \in 1 .. n
    PROVE  Extend(assemble_proof(SubSeq(s, 1, k)), SubSeq(s, k + 1, n))
             = assemble_proof(SubSeq(s, 1, n))
<1>. DEFINE p == SubSeq(s, 1, k)
            q == SubSeq(s, k + 1, n)
<1>1. p \in Seq(Step) /\ Len(p) = k /\ q \in Seq(Step) /\ SubSeq(s, 1, n) = p \o q
  BY CutInTwo
<1>2. p # <<>> /\ p \o q # <<>>
  BY <1>1
<1>. HIDE DEF p, q
<1>3. /\ Reverse(p \o q) = Reverse(q) \o Reverse(p)
      /\ Reverse(p) \in Seq(Step)
      /\ Reverse(q) \in Seq(Step)
      /\ Reverse(p \o q) \in Seq(Step)
  <2>1. p \o q \in Seq(Step)
    BY <1>1
  <2>. QED
    BY <1>1, <2>1, ReverseConcat
<1>4. \A t \in Seq(Step) : t \o <<>> = t /\ <<>> \o t = t
  OBVIOUS
<1>5. Extend(assemble_proof(p), q) = assemble_proof(p \o q)
  <2>1. CASE backward
    BY <1>1, <1>2, <1>3, <1>4, <2>1 DEF Extend, assemble_proof, PasteOrder
  <2>2. CASE ~backward
    BY <1>1, <1>2, <1>3, <1>4, <2>2 DEF Extend, assemble_proof, PasteOrder
  <2>. QED
    BY <2>1, <2>2
<1>. QED
  BY <1>1, <1>5 DEF p, q

\* A proof is made of steps.
LEMMA ProofType ==
    ASSUME backward \in BOOLEAN, NEW s \in Seq(Step)
    PROVE  assemble_proof(s) \in Proof
<1>1. PasteOrder(s) \in Seq(Step)
  BY ReverseConcat DEF PasteOrder
<1>2. <<>> \o PasteOrder(s) = PasteOrder(s) /\ PasteOrder(s) \o <<>> = PasteOrder(s)
  BY <1>1
<1>3. Extend([unit |-> FALSE, pieces |-> <<>>], s) = [unit |-> FALSE, pieces |-> PasteOrder(s)]
  BY <1>2 DEF Extend
<1>4. <<>> \in Seq(Step)
  OBVIOUS
<1>5. \A pieces \in Seq(Step), unit \in BOOLEAN : [unit |-> unit, pieces |-> pieces] \in Proof
  BY DEF Proof
<1>6. Unit \in Proof
  BY <1>4, <1>5 DEF Unit
<1>7. [unit |-> FALSE, pieces |-> PasteOrder(s)] \in Proof
  BY <1>1, <1>5
<1>. QED
  BY <1>3, <1>6, <1>7 DEF assemble_proof

\* The proof given out is that of the applied steps, cache or no cache.
LEMMA CurrentProofCorrect ==
    ASSUME IInv
    PROVE  CurrentProof = assemble_proof(Active) /\ CurrentProof \in Proof
<1>. USE DEF IInv
<1>1. /\ backward \in BOOLEAN /\ steps \in Seq(Step) /\ active_len \in 0 .. Len(steps)
      /\ proof_cache # None => proof_cache.at_step \in Nat
  BY DEF TypeOK
<1>2. Active \in Seq(Step)
  BY <1>1 DEF Active
<1>3. CurrentProof = assemble_proof(Active)
  <2>1. CASE proof_cache # None /\ proof_cache.at_step = active_len
    BY <2>1 DEF CurrentProof, CacheIsAPrefix, Active
  <2>2. CASE proof_cache # None /\ 0 < proof_cache.at_step /\ proof_cache.at_step < active_len
    <3>. DEFINE k == proof_cache.at_step
    <3>1. k \in 1 .. active_len
      BY <1>1, <2>2
    <3>2. proof_cache.snapshot = assemble_proof(SubSeq(steps, 1, k))
      BY <2>2 DEF CacheIsAPrefix
    <3>3. CurrentProof = Extend(proof_cache.snapshot, SubSeq(steps, k + 1, active_len))
      BY <1>1, <2>2 DEF CurrentProof
    <3>. HIDE DEF k
    <3>. QED
      BY <3>1, <3>2, <3>3, <1>1, ExtendProof DEF Active
  <2>3. CASE \/ proof_cache = None
             \/ ~(proof_cache.at_step = active_len)
                /\ ~(0 < proof_cache.at_step /\ proof_cache.at_step < active_len)
    BY <2>3 DEF CurrentProof
  <2>. QED
    BY <2>1, <2>2, <2>3
<1>. QED
  BY <1>1, <1>2, <1>3, ProofType

\* Assembling the proof, as proof_diagram and register_proof do.
LEMMA CacheInv ==
    ASSUME IInv, cache_proof,
           UNCHANGED <<fixed, current_diagram, steps, history, active_len, rewrites, parallel>>,
           (DOMAIN diagrams \subseteq Name /\ diagrams \in [DOMAIN diagrams -> Proof])'
    PROVE  IInv'
<1>. USE DEF IInv, fixed
<1>1. proof_cache' = [snapshot |-> assemble_proof(Active), at_step |-> active_len]
  BY CurrentProofCorrect DEF cache_proof
<1>2. /\ steps \in Seq(Step) /\ active_len \in 0 .. Len(steps)
      /\ assemble_proof(Active) \in Proof
  BY CurrentProofCorrect DEF TypeOK
<1>3. TypeOK'
  BY <1>1, <1>2 DEF TypeOK, Proof
<1>4. Chain' /\ AtTheActiveStep' /\ HistoryReplays'
  BY DEF Chain, AtTheActiveStep, HistoryReplays, DiagramAt
<1>5. CacheIsAPrefix'
  BY <1>1, <1>2 DEF CacheIsAPrefix, assemble_proof, Extend, PasteOrder, Unit, Active
<1>. QED
  BY <1>3, <1>4, <1>5

----------------------------------------------------------------------------
(* Driving                                                                 *)

\* What a drive passes through: diagrams, from the current one.
LEMMA DriveContinues ==
    ASSUME TypeOK, NEW n, NEW k \in Nat, NEW run \in [0 .. k -> Diagram],
           NEW new \in Seq(Step), NEW choices \in Seq(SUBSET MenuIndex), NEW stops,
           Len(new) = k, Len(choices) = k, Drives(n, k, run, new, stops),
           \A i \in 1 .. k :
               /\ Near(backward, new[i]) = run[i - 1]
               /\ choices[i] # {} => /\ choices[i] \in Applicable(backward, run[i - 1])
                                     /\ new[i] = FamilyStep(backward, run[i - 1], choices[i])
    PROVE  Continues(new, choices)
<1>1. \A i \in 1 .. k : run[i - 1] = IF i = 1 THEN current_diagram ELSE Far(backward, new[i - 1])
  <2>. SUFFICES ASSUME NEW i \in 1 .. k, i # 1
       PROVE  run[i - 1] = Far(backward, new[i - 1])
    BY DEF Drives
  <2>1. i - 1 \in 1 .. k
    OBVIOUS
  <2>. QED
    BY <2>1 DEF Drives
<1>. QED
  BY <1>1 DEF Continues

\* A sequence given by its elements.
LEMMA SequenceByElements ==
    ASSUME NEW k \in Nat, NEW S, NEW f(_), \A i \in 1 .. k : f(i) \in S
    PROVE  /\ [i \in 1 .. k |-> f(i)] \in Seq(S)
           /\ Len([i \in 1 .. k |-> f(i)]) = k
  OBVIOUS

\* A step from the menu, one or a family.
LEMMA StepInv ==
    ASSUME IInv,
           \/ \E choice \in 1 .. Len(rewrites) : step(choice)
           \/ \E choices \in DOMAIN Families[backward][current_diagram] : step_multi(choices)
    PROVE  IInv'
<1>. USE DEF IInv
<1>1. /\ backward \in BOOLEAN /\ current_diagram \in Diagram
      /\ rewrites = Matches[backward][current_diagram]
  BY DEF TypeOK, AtTheActiveStep
<1>2. \A s \in Step, c \in SUBSET MenuIndex :
        (/\ c \in Applicable(backward, current_diagram)
         /\ s = FamilyStep(backward, current_diagram, c)) => Continues(<<s>>, <<c>>)
  <2>. SUFFICES ASSUME NEW s \in Step, NEW c \in SUBSET MenuIndex,
                       c \in Applicable(backward, current_diagram),
                       s = FamilyStep(backward, current_diagram, c)
       PROVE  Continues(<<s>>, <<c>>)
    OBVIOUS
  <2>1. Near(backward, s) = current_diagram
    BY <1>1, FamilyMatch
  <2>2. <<s>> \in Seq(Step) /\ <<c>> \in Seq(SUBSET MenuIndex)
        /\ Len(<<s>>) = 1 /\ Len(<<c>>) = 1 /\ <<s>>[1] = s /\ <<c>>[1] = c
    OBVIOUS
  <2>. QED
    BY <2>1, <2>2 DEF Continues
<1>3. ASSUME NEW choice \in 1 .. Len(rewrites), step(choice)
      PROVE  IInv'
  <2>1. choice \in Index(backward, current_diagram)
    BY <1>1 DEF Index
  <2>2. Continues(<<rewrites[choice]>>, <<{choice}>>)
    BY <2>1, <1>1, <1>2, SingleMatch
  <2>. QED
    BY <2>2, <1>3, RecordInv DEF step
<1>4. ASSUME NEW choices \in DOMAIN Families[backward][current_diagram], step_multi(choices)
      PROVE  IInv'
  <2>1. choices \in Applicable(backward, current_diagram)
    BY DEF Applicable
  <2>2. Families[backward][current_diagram][choices]
          = FamilyStep(backward, current_diagram, choices)
    BY <1>1, MatcherAssumption DEF FamilyStep
  <2>. QED
    BY <2>1, <2>2, <1>1, <1>2, <1>4, FamilyMatch, RecordInv DEF step_multi
<1>. QED
  BY <1>3, <1>4

\* What auto applies to a diagram is a match or a family of it, and what it
\* writes in the history replays it.
LEMMA AutoChoice ==
    ASSUME TypeOK, NEW d \in Diagram, auto_choice(d) # {}
    PROVE  LET c == auto_choice(d) IN
           /\ c \in Applicable(backward, d)
           /\ FamilyStep(backward, d, c) \in Step
           /\ Near(backward, FamilyStep(backward, d, c)) = d
           /\ auto_record(c) \in SUBSET MenuIndex
           /\ auto_record(c) # {} => auto_record(c) = c
<1>1. backward \in BOOLEAN
  BY DEF TypeOK
<1>2. auto_choice(d) \in Applicable(backward, d)
      /\ (auto_record(auto_choice(d)) # {} => auto_choice(d) = {1})
  <2>1. CASE parallel
    <3>1. /\ auto_choice(d) = Greedy[backward][d]
          /\ Greedy[backward][d] \in Applicable(backward, d)
      BY <2>1, <1>1, MatcherAssumption DEF auto_choice
    <3>2. \A i \in Greedy[backward][d] : Greedy[backward][d] = {i} => i = 1
      <4>1. Greedy[backward][d] \subseteq Index(backward, d)
        BY <3>1, <1>1, MatcherAssumption DEF Applicable
      <4>. QED
        BY <4>1, <1>1, MatcherAssumption
    <3>3. auto_record(auto_choice(d)) # {} => \E i \in auto_choice(d) : auto_choice(d) = {i}
      BY <2>1 DEF auto_record
    <3>. QED
      BY <3>1, <3>2, <3>3
  <2>2. CASE ~parallel
    <3>1. auto_choice(d) = {1} /\ Matches[backward][d] # <<>>
      BY <2>2 DEF auto_choice
    <3>2. 1 \in Index(backward, d)
      <4>1. Matches[backward][d] \in Seq(Step)
        BY <1>1, MatcherAssumption
      <4>. QED
        BY <3>1, <4>1 DEF Index
    <3>. QED
      BY <3>1, <3>2 DEF Applicable
  <2>. QED
    BY <2>1, <2>2
<1>3. auto_record(auto_choice(d)) \in {{}, {1}}
  BY DEF auto_record
<1>4. auto_choice(d) \in SUBSET MenuIndex
  BY <1>1, <1>2, FamilyMatch
<1>. QED
  BY <1>1, <1>2, <1>3, <1>4, FamilyMatch

\* auto, parallel or sequential.
LEMMA AutoRecords ==
    ASSUME IInv, NEW n \in Nat, auto(n)
    PROVE  \E new, choices : Continues(new, choices) /\ Record(new, choices)
<1>. USE DEF IInv
<1>1. PICK k \in 0 .. n : \E run \in [0 .. k -> Diagram] :
        LET chosen == [i \in 1 .. k |-> auto_choice(run[i - 1])]
            new == [i \in 1 .. k |-> FamilyStep(backward, run[i - 1], chosen[i])]
            stops == {d \in Diagram : target_reached(d) \/ auto_choice(d) = {}}
        IN  /\ Drives(n, k, run, new, stops)
            /\ Record(new, [i \in 1 .. k |-> auto_record(chosen[i])])
  BY DEF auto
<1>run. PICK run \in [0 .. k -> Diagram] :
        LET chosen == [i \in 1 .. k |-> auto_choice(run[i - 1])]
            new == [i \in 1 .. k |-> FamilyStep(backward, run[i - 1], chosen[i])]
            stops == {d \in Diagram : target_reached(d) \/ auto_choice(d) = {}}
        IN  /\ Drives(n, k, run, new, stops)
            /\ Record(new, [i \in 1 .. k |-> auto_record(chosen[i])])
  BY <1>1
<1>. DEFINE chosen == [i \in 1 .. k |-> auto_choice(run[i - 1])]
            new == [i \in 1 .. k |-> FamilyStep(backward, run[i - 1], chosen[i])]
            choices == [i \in 1 .. k |-> auto_record(chosen[i])]
            stops == {d \in Diagram : target_reached(d) \/ auto_choice(d) = {}}
<1>2. k \in Nat
  OBVIOUS
<1>3. Drives(n, k, run, new, stops) /\ Record(new, choices)
  BY <1>run
<1>4. \A i \in 1 .. k :
        /\ run[i - 1] \in Diagram
        /\ chosen[i] = auto_choice(run[i - 1])
        /\ chosen[i] # {}
  <2>. SUFFICES ASSUME NEW i \in 1 .. k
       PROVE  run[i - 1] \in Diagram /\ auto_choice(run[i - 1]) # {}
    OBVIOUS
  <2>1. i - 1 \in 0 .. k /\ i - 1 \in 0 .. k - 1
    BY <1>2
  <2>2. run[i - 1] \in Diagram
    BY <2>1
  <2>3. run[i - 1] \notin stops
    BY <2>1, <1>3 DEF Drives
  <2>. QED
    BY <2>2, <2>3
<1>. HIDE DEF stops
<1>5. \A i \in 1 .. k :
        /\ new[i] = FamilyStep(backward, run[i - 1], chosen[i])
        /\ choices[i] = auto_record(chosen[i])
  OBVIOUS
<1>. HIDE DEF chosen
<1>6. \A i \in 1 .. k :
        /\ FamilyStep(backward, run[i - 1], chosen[i]) \in Step
        /\ Near(backward, FamilyStep(backward, run[i - 1], chosen[i])) = run[i - 1]
        /\ chosen[i] \in Applicable(backward, run[i - 1])
        /\ auto_record(chosen[i]) \in SUBSET MenuIndex
        /\ auto_record(chosen[i]) # {} => auto_record(chosen[i]) = chosen[i]
  BY <1>4, AutoChoice
<1>7. new \in Seq(Step) /\ Len(new) = k /\ choices \in Seq(SUBSET MenuIndex) /\ Len(choices) = k
  BY <1>2, <1>6
<1>. HIDE DEF new, choices
<1>8. \A i \in 1 .. k :
        /\ Near(backward, new[i]) = run[i - 1]
        /\ choices[i] # {} => /\ choices[i] \in Applicable(backward, run[i - 1])
                              /\ new[i] = FamilyStep(backward, run[i - 1], choices[i])
  BY <1>5, <1>6
<1>9. Continues(new, choices)
  BY <1>2, <1>3, <1>7, <1>8, DriveContinues
<1>. QED
  BY <1>3, <1>9

\* random.
LEMMA RandomRecords ==
    ASSUME IInv, NEW n \in Nat, random(n)
    PROVE  \E new, choices : Continues(new, choices) /\ Record(new, choices)
<1>. USE DEF IInv
<1>1. PICK k \in 1 .. n : \E run \in [0 .. k -> Diagram], picks \in [1 .. k -> MenuIndex] :
        LET new == [i \in 1 .. k |-> Matches[backward][run[i - 1]][picks[i]]]
            stops == {d \in Diagram : target_reached(d) \/ Matches[backward][d] = <<>>}
        IN  /\ \A i \in 1 .. k : picks[i] \in Index(backward, run[i - 1])
            /\ Drives(n, k, run, new, stops)
            /\ Record(new, [i \in 1 .. k |-> {picks[i]}])
  BY DEF random
<1>run. PICK run \in [0 .. k -> Diagram], picks \in [1 .. k -> MenuIndex] :
        LET new == [i \in 1 .. k |-> Matches[backward][run[i - 1]][picks[i]]]
            stops == {d \in Diagram : target_reached(d) \/ Matches[backward][d] = <<>>}
        IN  /\ \A i \in 1 .. k : picks[i] \in Index(backward, run[i - 1])
            /\ Drives(n, k, run, new, stops)
            /\ Record(new, [i \in 1 .. k |-> {picks[i]}])
  BY <1>1
<1>. DEFINE new == [i \in 1 .. k |-> Matches[backward][run[i - 1]][picks[i]]]
            choices == [i \in 1 .. k |-> {picks[i]}]
            stops == {d \in Diagram : target_reached(d) \/ Matches[backward][d] = <<>>}
<1>2. backward \in BOOLEAN /\ k \in Nat
  BY DEF TypeOK
<1>3. \A i \in 1 .. k :
        /\ run[i - 1] \in Diagram
        /\ Matches[backward][run[i - 1]][picks[i]] \in Step
        /\ Near(backward, Matches[backward][run[i - 1]][picks[i]]) = run[i - 1]
        /\ {picks[i]} \in Applicable(backward, run[i - 1])
        /\ {picks[i]} \in SUBSET MenuIndex
        /\ Matches[backward][run[i - 1]][picks[i]]
             = FamilyStep(backward, run[i - 1], {picks[i]})
  <2>. SUFFICES ASSUME NEW i \in 1 .. k
       PROVE  run[i - 1] \in Diagram /\ picks[i] \in Index(backward, run[i - 1])
    BY <1>2, SingleMatch
  <2>1. i - 1 \in 0 .. k
    BY <1>2
  <2>. QED
    BY <2>1, <1>run
<1>4. new \in Seq(Step) /\ Len(new) = k /\ choices \in Seq(SUBSET MenuIndex) /\ Len(choices) = k
  <2>1. new \in [1 .. k -> Step]
    BY <1>3
  <2>2. choices \in [1 .. k -> SUBSET MenuIndex]
    BY <1>3
  <2>. HIDE DEF new, choices
  <2>. QED
    BY <1>2, <2>1, <2>2
<1>5. Drives(n, k, run, new, stops) /\ Record(new, choices)
  BY <1>run
<1>6. \A i \in 1 .. k :
        /\ Near(backward, new[i]) = run[i - 1]
        /\ choices[i] \in Applicable(backward, run[i - 1])
        /\ new[i] = FamilyStep(backward, run[i - 1], choices[i])
  BY <1>3
<1>. HIDE DEF new, choices, stops
<1>7. Continues(new, choices)
  BY <1>2, <1>4, <1>5, <1>6, DriveContinues
<1>. QED
  BY <1>5, <1>7

----------------------------------------------------------------------------
(* The session                                                             *)

\* A session opens consistent, a fresh one and a resumed one.
LEMMA InitInv == Init => IInv
<1>. SUFFICES ASSUME Init PROVE IInv
  OBVIOUS
<1>1. /\ backward \in BOOLEAN
      /\ target_diagram \in Diagram \cup {None}
      /\ active_len = Len(steps)
      /\ history = [i \in 1 .. Len(steps) |-> {}]
      /\ rewrites = Matches[backward][current_diagram]
      /\ parallel = TRUE
      /\ proof_cache = None
      /\ diagrams = [name \in {} |-> Unit]
  BY DEF Init
<1>2. /\ initial_diagram \in Diagram /\ current_diagram \in Diagram /\ steps \in Seq(Step)
      /\ Chain
      /\ current_diagram = DiagramAt(Len(steps))
  <2>1. CASE Fresh
    BY <2>1 DEF Fresh, Chain, DiagramAt
  <2>2. ASSUME NEW k \in 1 .. MaxSteps, NEW pieces \in [1 .. k -> Step], Resumed(pieces)
        PROVE  /\ initial_diagram \in Diagram /\ current_diagram \in Diagram /\ steps \in Seq(Step)
               /\ Chain
               /\ current_diagram = DiagramAt(Len(steps))
    <3>1. /\ k \in Nat /\ k > 0 /\ pieces \in Seq(Step) /\ Len(pieces) = k
          /\ pieces # <<>>
      BY BoundsAssumption
    <3>2. /\ steps \in Seq(Step) /\ Len(steps) = k
          /\ \A i \in 1 .. k : steps[i] = IF backward THEN pieces[k - i + 1] ELSE pieces[i]
      <4>1. CASE backward
        <5>1. steps = Reverse(pieces)
          BY <4>1, <2>2 DEF Resumed, PasteOrder
        <5>2. \A i \in 1 .. k : Reverse(pieces)[i] = pieces[k - i + 1]
          BY <3>1 DEF Reverse
        <5>. QED
          BY <5>1, <5>2, <4>1, <3>1, ReverseConcat
      <4>2. CASE ~backward
        BY <4>2, <3>1, <2>2 DEF Resumed, PasteOrder
      <4>. QED
        BY <4>1, <4>2
    <3>3. \A i \in 1 .. k - 1 : Output[pieces[i]] = Input[pieces[i + 1]]
      BY <3>1, <2>2 DEF Resumed
    <3>4. initial_diagram = Near(backward, steps[1])
      <4>1. 1 \in 1 .. k /\ k - 1 + 1 = k
        BY <3>1
      <4>2. steps[1] = IF backward THEN pieces[k] ELSE pieces[1]
        BY <3>2, <4>1
      <4>. QED
        BY <4>2, <3>1, <2>2 DEF Resumed, Near
    <3>5. current_diagram = Far(backward, steps[k])
      BY <3>2, <2>2 DEF Resumed
    <3>6. \A i \in 2 .. k : Near(backward, steps[i]) = Far(backward, steps[i - 1])
      <4>. SUFFICES ASSUME NEW i \in 2 .. k
           PROVE  Near(backward, steps[i]) = Far(backward, steps[i - 1])
        OBVIOUS
      <4>1. i \in 1 .. k /\ i - 1 \in 1 .. k /\ i - 1 \in 1 .. k - 1
            /\ k - i + 1 \in 1 .. k - 1 /\ k - (i - 1) + 1 = (k - i + 1) + 1
            /\ (i - 1) + 1 = i
        BY <3>1
      <4>2. CASE backward
        <5>1. steps[i] = pieces[k - i + 1] /\ steps[i - 1] = pieces[(k - i + 1) + 1]
          BY <4>1, <4>2, <3>2
        <5>. QED
          BY <5>1, <4>1, <4>2, <3>3 DEF Near, Far
      <4>3. CASE ~backward
        <5>1. steps[i] = pieces[i] /\ steps[i - 1] = pieces[i - 1]
          BY <4>1, <4>3, <3>2
        <5>. QED
          BY <5>1, <4>1, <4>3, <3>3 DEF Near, Far
      <4>. QED
        BY <4>2, <4>3
    <3>7. steps[1] \in Step /\ steps[k] \in Step
      BY <3>1, <3>2
    <3>8. Chain
      <4>. SUFFICES ASSUME NEW i \in 1 .. k
           PROVE  Near(backward, steps[i]) = DiagramAt(i - 1)
        BY <3>2 DEF Chain
      <4>1. CASE i = 1
        BY <4>1, <3>4 DEF DiagramAt
      <4>2. CASE i # 1
        <5>1. i \in 2 .. k /\ i - 1 # 0
          BY <4>2, <3>1
        <5>. QED
          BY <5>1, <3>6 DEF DiagramAt
      <4>. QED
        BY <4>1, <4>2
    <3>. QED
      BY <3>1, <3>2, <3>4, <3>5, <3>7, <3>8, <1>1, Boundaries DEF DiagramAt
  <2>. QED
    BY <2>1, <2>2 DEF Init
<1>3. /\ history \in Seq(SUBSET MenuIndex) /\ Len(history) = Len(steps)
      /\ \A i \in 1 .. Len(history) : history[i] = {}
  BY <1>1, <1>2
<1>4. rewrites \in Seq(Step)
  BY <1>1, <1>2, MatcherAssumption
<1>5. Len(steps) \in 0 .. Len(steps)
  BY <1>2
<1>6. TypeOK
  BY <1>1, <1>2, <1>3, <1>4, <1>5 DEF TypeOK
<1>7. AtTheActiveStep /\ HistoryReplays /\ CacheIsAPrefix
  BY <1>1, <1>2, <1>3 DEF AtTheActiveStep, HistoryReplays, CacheIsAPrefix
<1>. QED
  BY <1>2, <1>6, <1>7 DEF IInv

\* Every operation keeps the session consistent.
LEMMA NextInv == IInv /\ [Next]_vars => IInv'
<1>. SUFFICES ASSUME IInv, [Next]_vars PROVE IInv'
  OBVIOUS
<1>1. /\ active_len \in 0 .. Len(steps) /\ Len(history) = Len(steps) /\ steps \in Seq(Step)
  BY DEF IInv, TypeOK
<1>2. CASE undo
  <2>1. active_len - 1 \in 0 .. Len(steps)
    BY <1>1, <1>2 DEF undo
  <2>. QED
    BY <2>1, <1>2, SeekInv DEF undo
<1>3. CASE redo
  <2>1. active_len + 1 \in 0 .. Len(steps)
    BY <1>1, <1>3 DEF redo
  <2>. QED
    BY <2>1, <1>3, SeekInv DEF redo
<1>4. ASSUME NEW to \in 0 .. MaxSteps, undo_to(to) \/ redo_to(to) PROVE IInv'
  <2>1. to \in 0 .. Len(steps) /\ seek(to)
    BY <1>1, <1>4 DEF undo_to, redo_to
  <2>. QED
    BY <2>1, SeekInv
<1>5. CASE \/ \E choice \in 1 .. Len(rewrites) : step(choice)
           \/ \E choices \in DOMAIN Families[backward][current_diagram] : step_multi(choices)
  BY <1>5, StepInv
<1>6. ASSUME NEW n \in 0 .. MaxAuto, auto(n) \/ random(n) PROVE IInv'
  <2>1. n \in Nat
    BY BoundsAssumption
  <2>. QED
    BY <2>1, <1>6, AutoRecords, RandomRecords, RecordInv
<1>7. ASSUME NEW on \in BOOLEAN, set_parallel(on) PROVE IInv'
  BY <1>7 DEF set_parallel, IInv, TypeOK, Chain, AtTheActiveStep, HistoryReplays, CacheIsAPrefix,
     DiagramAt, assemble_proof, Extend, PasteOrder, Unit, Proof, fixed
<1>8. CASE proof_diagram
  <2>1. (DOMAIN diagrams \subseteq Name /\ diagrams \in [DOMAIN diagrams -> Proof])'
    BY <1>8 DEF proof_diagram, IInv, TypeOK, Proof
  <2>. QED
    BY <2>1, <1>8, CacheInv DEF proof_diagram
<1>9. ASSUME NEW name \in Name, register_proof(name) PROVE IInv'
  <2>1. CurrentProof \in Proof /\ DOMAIN diagrams \subseteq Name
        /\ diagrams \in [DOMAIN diagrams -> Proof]
    BY CurrentProofCorrect DEF IInv, TypeOK
  <2>2. DOMAIN diagrams' \subseteq Name /\ diagrams' \in [DOMAIN diagrams' -> Proof]
    BY <2>1, <1>9 DEF register_proof
  <2>3. (DOMAIN diagrams \subseteq Name /\ diagrams \in [DOMAIN diagrams -> Proof])'
    BY <2>2 DEF Proof
  <2>. QED
    BY <2>3, <1>9, CacheInv DEF register_proof
<1>10. CASE UNCHANGED vars
  BY <1>10 DEF vars, IInv, TypeOK, Chain, AtTheActiveStep, HistoryReplays, CacheIsAPrefix,
     DiagramAt, assemble_proof, Extend, PasteOrder, Unit, Proof, fixed
<1>. QED
  BY <1>2, <1>3, <1>4, <1>5, <1>6, <1>7, <1>8, <1>9, <1>10 DEF Next

\* Every state of every session is consistent: the conjunction of the
\* invariants is inductive.
THEOREM Consistent == Spec => []IInv
<1>1. Init => IInv
  BY InitInv
<1>2. IInv /\ [Next]_vars => IInv'
  BY NextInv
<1>. QED
  BY <1>1, <1>2, PTL DEF Spec

\* The types of a session's state hold throughout.
THEOREM TypeCorrect == Spec => []TypeOK
<1>1. IInv => TypeOK
  BY DEF IInv
<1>. QED
  BY <1>1, Consistent, PTL

\* Undone, redone, driven or resumed, forward or backward, the recorded steps
\* chain and the menu is that of the diagram they lead to.
THEOREM RouteIndependence == Spec => [](Chain /\ AtTheActiveStep)
<1>1. IInv => Chain /\ AtTheActiveStep
  BY DEF IInv
<1>. QED
  BY <1>1, Consistent, PTL

\* What `history` shows as a choice replays its step.
THEOREM ChoicesReplay == Spec => []HistoryReplays
<1>1. IInv => HistoryReplays
  BY DEF IInv
<1>. QED
  BY <1>1, Consistent, PTL

\* The proof cache never holds anything but a prefix of the recorded steps.
THEOREM CacheCorrect == Spec => []CacheIsAPrefix
<1>1. IInv => CacheIsAPrefix
  BY DEF IInv
<1>. QED
  BY <1>1, Consistent, PTL

\* `store` binds a fresh name to the proof of the applied steps, cached or not.
THEOREM StoreCorrect == Spec => StoreBindsTheActiveProof
<1>. DEFINE Bound == \A name \in DOMAIN diagrams' :
                diagrams'[name] = IF name \in DOMAIN diagrams THEN diagrams[name]
                                  ELSE assemble_proof(Active)
<1>1. IInv /\ [Next]_vars => [Bound]_vars
  <2>. SUFFICES ASSUME IInv, Next PROVE Bound \/ UNCHANGED diagrams
    BY DEF vars
  <2>1. ASSUME NEW name \in Name, register_proof(name) PROVE Bound
    BY <2>1, CurrentProofCorrect DEF register_proof
  <2>. QED
    BY <2>1 DEF Next, undo, redo, undo_to, redo_to, seek, step, step_multi, auto, random,
       Record, set_parallel, proof_diagram
<1>. QED
  BY <1>1, Consistent, PTL DEF Spec, StoreBindsTheActiveProof

----------------------------------------------------------------------------
(* Refinement of Steps                                                     *)

\* The diagrams a sequence of steps passes through: the refinement mapping of
\* ImplementsSteps.
TrailOf(d, b, s) == <<d>> \o [i \in 1 .. Len(s) |-> Far(b, s[i])]

trail == TrailOf(initial_diagram, backward, steps)

\* The elements of a trail are the diagrams before and after each step.
LEMMA TrailElements ==
    ASSUME NEW d \in Diagram, NEW b \in BOOLEAN, NEW s \in Seq(Step)
    PROVE  /\ TrailOf(d, b, s) \in Seq(Diagram)
           /\ Len(TrailOf(d, b, s)) = Len(s) + 1
           /\ TrailOf(d, b, s)[1] = d
           /\ \A i \in 1 .. Len(s) : TrailOf(d, b, s)[i + 1] = Far(b, s[i])
<1>. DEFINE t == [i \in 1 .. Len(s) |-> Far(b, s[i])]
<1>1. \A i \in 1 .. Len(s) : Far(b, s[i]) \in Diagram
  BY Boundaries
<1>2. t \in Seq(Diagram) /\ Len(t) = Len(s) /\ \A i \in 1 .. Len(s) : t[i] = Far(b, s[i])
  BY <1>1
<1>. HIDE DEF t
<1>3. TrailOf(d, b, s) = <<d>> \o t
  BY DEF TrailOf, t
<1>4. <<d>> \in Seq(Diagram) /\ Len(<<d>>) = 1 /\ <<d>>[1] = d
  OBVIOUS
<1>. QED
  BY <1>2, <1>3, <1>4

\* Recording puts `new` after the first n steps of s; its trail keeps the first
\* n + 1 diagrams of the trail of s.
IsExtension(s, n, new, s2) == s2 = SubSeq(s, 1, n) \o new

ContinuesTrail(t, n, k, u) ==
    LET rest == SubSeq(u, n + 2, Len(u))
    IN  u = SubSeq(t, 1, n + 1) \o rest /\ Len(rest) = k

\* Steps put after the first n of a history leave the trail up to there.
LEMMA TrailExtend ==
    ASSUME NEW d \in Diagram, NEW b \in BOOLEAN, NEW s \in Seq(Step), NEW new \in Seq(Step),
           NEW n \in 0 .. Len(s), NEW s2, IsExtension(s, n, new, s2)
    PROVE  ContinuesTrail(TrailOf(d, b, s), n, Len(new), TrailOf(d, b, s2))
<1>. DEFINE u == TrailOf(d, b, s2)
            t == TrailOf(d, b, s)
<1>1. s2 \in Seq(Step) /\ Len(s2) = n + Len(new) /\ \A i \in 1 .. n : s2[i] = s[i]
  BY ConcatElements DEF IsExtension
<1>2. /\ t \in Seq(Diagram) /\ Len(t) = Len(s) + 1
      /\ u \in Seq(Diagram) /\ Len(u) = n + Len(new) + 1
      /\ t[1] = d /\ u[1] = d
      /\ \A i \in 1 .. Len(s) : t[i + 1] = Far(b, s[i])
      /\ \A i \in 1 .. n : u[i + 1] = Far(b, s2[i])
  <2>1. t \in Seq(Diagram) /\ Len(t) = Len(s) + 1 /\ t[1] = d
        /\ \A i \in 1 .. Len(s) : t[i + 1] = Far(b, s[i])
    BY TrailElements
  <2>3. u \in Seq(Diagram) /\ Len(u) = Len(s2) + 1 /\ u[1] = d
        /\ \A i \in 1 .. Len(s2) : u[i + 1] = Far(b, s2[i])
    BY <1>1, TrailElements
  <2>4. n \in Nat /\ Len(new) \in Nat /\ n =< Len(s2)
    BY <1>1
  <2>. QED
    BY <1>1, <2>1, <2>3, <2>4
<1>. HIDE DEF t, u
<1>3. \A i \in 1 .. n + 1 : u[i] = t[i]
  <2>. SUFFICES ASSUME NEW i \in 1 .. n + 1, i # 1 PROVE u[i] = t[i]
    BY <1>2
  <2>1. i - 1 \in 1 .. n /\ i - 1 \in 1 .. Len(s) /\ (i - 1) + 1 = i
    OBVIOUS
  <2>. QED
    BY <2>1, <1>1, <1>2
<1>4. n + 1 =< Len(u) /\ n + 1 =< Len(t)
  BY <1>2
<1>5. u = SubSeq(u, 1, n + 1) \o SubSeq(u, n + 2, Len(u))
      /\ Len(SubSeq(u, n + 2, Len(u))) = Len(new)
  <2>1. Len(u) \in 0 .. Len(u) /\ n + 1 \in 0 .. Len(u) /\ (n + 1) + 1 = n + 2
        /\ Len(u) - (n + 1) = Len(new)
    BY <1>2, <1>4
  <2>2. SubSeq(u, 1, Len(u)) = u
    BY <1>2
  <2>3. /\ Len(SubSeq(u, (n + 1) + 1, Len(u))) = Len(u) - (n + 1)
        /\ SubSeq(u, 1, Len(u)) = SubSeq(u, 1, n + 1) \o SubSeq(u, (n + 1) + 1, Len(u))
    <3>. DEFINE m == Len(u)
                k == n + 1
    <3>1. m \in 0 .. Len(u) /\ k \in 0 .. m
      BY <1>2, <2>1
    <3>. HIDE DEF m, k
    <3>2. /\ Len(SubSeq(u, k + 1, m)) = m - k
          /\ SubSeq(u, 1, m) = SubSeq(u, 1, k) \o SubSeq(u, k + 1, m)
      <4>1. u \in Seq(Diagram)
        BY <1>2
      <4>. QED
        BY ONLY <4>1, <3>1
    <3>. QED
      BY <3>2 DEF m, k
  <2>. QED
    BY <2>1, <2>2, <2>3
<1>6. SubSeq(u, 1, n + 1) = SubSeq(t, 1, n + 1)
  BY <1>2, <1>3, <1>4
<1>. QED
  BY <1>5, <1>6 DEF t, u, ContinuesTrail

\* Every operation of a session is an operation of its history.
LEMMA RefineNext == IInv /\ [Next]_vars => [History!Next]_(History!vars)
<1>. SUFFICES ASSUME IInv, [Next]_vars PROVE [History!Next]_(History!vars)
  OBVIOUS
<1>1. /\ initial_diagram \in Diagram /\ backward \in BOOLEAN /\ steps \in Seq(Step)
      /\ active_len \in 0 .. Len(steps) /\ Len(history) = Len(steps)
  BY DEF IInv, TypeOK
<1>2. Len(trail) = Len(steps) + 1
  BY <1>1, TrailElements DEF trail
<1>3. ASSUME NEW to, seek(to) PROVE trail' = trail /\ active_len' = to
  BY <1>3 DEF seek, fixed, trail
<1>4. CASE undo
  <2>1. active_len > 0 /\ trail' = trail /\ active_len' = active_len - 1
    BY <1>3, <1>4 DEF undo
  <2>. QED
    BY <2>1 DEF History!Next, History!undo, History!seek, History!applied, trail, TrailOf
<1>5. CASE redo
  <2>1. active_len < Len(trail) - 1 /\ trail' = trail /\ active_len' = active_len + 1
    BY <1>1, <1>2, <1>3, <1>5 DEF redo
  <2>. QED
    BY <2>1 DEF History!Next, History!redo, History!seek, History!applied, History!recorded, trail, TrailOf
<1>6. ASSUME NEW to \in 0 .. MaxSteps, undo_to(to) \/ redo_to(to)
      PROVE  History!Next
  <2>1. /\ to \in 0 .. Len(trail) - 1
        /\ to \in 0 .. (active_len - 1) \/ to \in (active_len + 1) .. Len(trail) - 1
        /\ seek(to)
    BY <1>1, <1>2, <1>6 DEF undo_to, redo_to
  <2>2. trail' = trail /\ active_len' = to
    BY <2>1, <1>3
  <2>. QED
    BY <2>1, <2>2 DEF History!Next, History!undo_to, History!redo_to, History!seek,
       History!applied, History!recorded, trail, TrailOf
<1>. DEFINE rest == SubSeq(trail', active_len + 2, Len(trail'))
<1>7. ASSUME NEW new \in Seq(Step), NEW choices, Record(new, choices)
      PROVE  History!Next
  <2>1. /\ UNCHANGED <<initial_diagram, backward>>
        /\ steps' = SubSeq(steps, 1, active_len) \o new
        /\ active_len' = active_len + Len(new)
    BY <1>7 DEF Record, Active, fixed
  <2>2. trail' = TrailOf(initial_diagram, backward, steps')
    BY <2>1 DEF trail
  <2>3. ContinuesTrail(trail, active_len, Len(new), trail')
    <3>1. IsExtension(steps, active_len, new, steps')
      BY <2>1 DEF IsExtension
    <3>2. trail = TrailOf(initial_diagram, backward, steps)
      BY DEF trail
    <3>3. ContinuesTrail(TrailOf(initial_diagram, backward, steps), active_len, Len(new),
                         TrailOf(initial_diagram, backward, steps'))
      BY <1>1, <3>1, TrailExtend
    <3>. QED
      BY <2>2, <3>2, <3>3
  <2>4. History!Extend(rest)
    BY <2>1, <2>3 DEF History!Extend, trail, TrailOf, ContinuesTrail
  <2>. QED
    BY <2>4 DEF History!Next, TrailOf, trail
<1>8. ASSUME NEW choice \in 1 .. Len(rewrites), step(choice) PROVE History!Next
  <2>1. <<rewrites[choice]>> \in Seq(Step)
    BY DEF IInv, TypeOK
  <2>. QED
    BY <2>1, <1>7, <1>8 DEF step
<1>9. ASSUME NEW choices \in DOMAIN Families[backward][current_diagram], step_multi(choices)
      PROVE  History!Next
  <2>1. Families[backward][current_diagram][choices] \in Step
    <3>1. choices \in Applicable(backward, current_diagram)
      BY DEF Applicable
    <3>2. Families[backward][current_diagram][choices]
            = FamilyStep(backward, current_diagram, choices)
      BY <1>1, MatcherAssumption DEF FamilyStep, IInv, TypeOK
    <3>. QED
      BY <1>1, <3>1, <3>2, FamilyMatch DEF IInv, TypeOK
  <2>2. <<Families[backward][current_diagram][choices]>> \in Seq(Step)
    BY <2>1
  <2>. QED
    BY <2>2, <1>7, <1>9 DEF step_multi
<1>10. ASSUME NEW n \in 0 .. MaxAuto, auto(n) \/ random(n) PROVE History!Next
  <2>1. n \in Nat
    BY BoundsAssumption
  <2>2. \E new, choices : Continues(new, choices) /\ Record(new, choices)
    BY <2>1, <1>10, AutoRecords, RandomRecords
  <2>. QED
    BY <2>2, <1>7 DEF Continues
<1>11. ASSUME \/ \E on \in BOOLEAN : set_parallel(on)
              \/ proof_diagram
              \/ \E name \in Name : register_proof(name)
              \/ UNCHANGED vars
       PROVE  UNCHANGED History!vars
  <2>1. UNCHANGED <<initial_diagram, backward, steps, active_len>>
    BY <1>11 DEF set_parallel, proof_diagram, register_proof, vars, fixed
  <2>. QED
    BY <2>1 DEF History!vars, Far
<1>. QED
  BY <1>4, <1>5, <1>6, <1>8, <1>9, <1>10, <1>11 DEF Next

\* A session opens at the end of its trail.
LEMMA RefineInit == Init => History!Init
<1>. SUFFICES ASSUME Init PROVE History!Init
  OBVIOUS
<1>1. /\ initial_diagram \in Diagram /\ backward \in BOOLEAN /\ steps \in Seq(Step)
      /\ active_len = Len(steps)
  BY InitInv DEF Init, IInv, TypeOK
<1>2. trail \in Seq(Diagram) /\ Len(trail) = Len(steps) + 1
  BY <1>1, TrailElements DEF trail
<1>. QED
  BY <1>1, <1>2 DEF History!Init, History!TypeOK, History!recorded, trail, TrailOf

\* The engine implements Steps: undo, redo and every way of rewriting are the
\* operations of one linear history.
THEOREM Refinement == Spec => ImplementsSteps
<1>1. Init => History!Init
  BY RefineInit
<1>2. IInv /\ [Next]_vars => [History!Next]_(History!vars)
  BY RefineNext
<1>. QED
  BY <1>1, <1>2, Consistent, PTL DEF Spec, ImplementsSteps, History!Spec

============================================================================
