---------------------------- MODULE Kernel_proofs ----------------------------
(***************************************************************************)
(* What holds of the kernel for any module, files, holes and rewrites,     *)
(* and histories of any length.                                            *)
(*                                                                         *)
(* The invariant follows a proof from the engine to the module.  A         *)
(* history is a run in the direction of its session; a fill's begins at    *)
(* one side of its hole and is to reach the other; a definition, and the   *)
(* filler of a hole, is a run of the map's own direction.                  *)
(***************************************************************************)
EXTENDS Kernel, TLAPS

\* Diagrams of which each rewrites to the next, or, backward, the next to it.
Linked(a, b, back) ==
    (IF back THEN <<b, a>> ELSE <<a, b>>) \in Rewrites \cup Together

IsRun(t, back) ==
    /\ t \in Seq(Diagram) /\ Len(t) > 0
    /\ \A i \in 1 .. Len(t) - 1 : Linked(t[i], t[i + 1], back)

\* What fills a hole.
IsFiller(hole, filler) ==
    IF hole \in ZeroHole THEN filler \in [1 .. 1 -> Cell]
    ELSE /\ <<filler[1], filler[Len(filler)]>> = Boundary[hole]
         /\ \A i \in 1 .. Len(filler) - 1 :
                <<filler[i], filler[i + 1]>> \in Rewrites \cup Together

SoundSource(source) ==
    /\ source \in Source
    /\ \A hole \in DOMAIN source.fills : IsFiller(hole, source.fills[hole])
    /\ \A name \in DOMAIN source.lets : IsRun(source.lets[name], FALSE)

SoundFile(f) ==
    /\ f \in File
    /\ SoundSource(f.source)
    /\ f.store = interpret(f.source)

SoundActivity(a, f, back) ==
    /\ a \in Activity
    /\ a.kind # "idle" => f # None
    /\ a.kind \in {"rewrite", "fill"} =>
           /\ IsRun(a.trail, back) /\ a.at < Len(a.trail)
           /\ a.store = f.store
    /\ a.kind = "fill" =>
           /\ a.hole \in Hole \ ZeroHole
           /\ a.trail[1] = Boundary[a.hole][IF back THEN 2 ELSE 1]
           /\ a.target = Boundary[a.hole][IF back THEN 1 ELSE 2]
    /\ a.kind = "zero_cell" =>
           /\ a.hole \in ZeroHole
           /\ a.at < Len(a.trail)
           /\ \A i \in 2 .. Len(a.trail) : a.trail[i] \in Cell
    /\ a.kind \in {"fill", "zero_cell"} =>
           a.hole \in f.store.open /\ Needs[a.hole] \cap f.store.open = {}

SoundNumbers ==
    /\ revision \in Nat /\ generation \in Nat /\ module_revision \in Nat
    /\ generation =< revision /\ module_revision =< revision

SoundDisk ==
    /\ DOMAIN disk = Path
    /\ \A path \in Path : disk[path] # None => SoundSource(disk[path])

IInv ==
    /\ SoundNumbers
    /\ begun \in Nat /\ backward \in BOOLEAN
    /\ SoundDisk
    /\ file # None => SoundFile(file)
    /\ SoundActivity(activity, file, backward)

----------------------------------------------------------------------------
(* Runs                                                                    *)

\* A run read from its end is one of the other direction.
LEMMA ReverseIsRun ==
    ASSUME NEW t, NEW back \in BOOLEAN, IsRun(t, back)
    PROVE  /\ IsRun(Reverse(t), ~back) /\ Len(Reverse(t)) = Len(t)
           /\ Reverse(t)[1] = t[Len(t)] /\ Reverse(t)[Len(t)] = t[1]
<1>1. t \in Seq(Diagram) /\ Len(t) \in Nat /\ Len(t) > 0
  BY DEF IsRun
<1>2. /\ Reverse(t) \in Seq(Diagram) /\ Len(Reverse(t)) = Len(t)
      /\ \A i \in 1 .. Len(t) : Reverse(t)[i] = t[Len(t) - i + 1]
  BY <1>1 DEF Reverse
<1>3. ASSUME NEW i \in 1 .. Len(t) - 1
      PROVE  Linked(Reverse(t)[i], Reverse(t)[i + 1], ~back)
  <2>1. /\ Len(t) - i \in 1 .. Len(t) - 1
        /\ i \in 1 .. Len(t) /\ i + 1 \in 1 .. Len(t)
        /\ Len(t) - (i + 1) + 1 = Len(t) - i
    BY <1>1
  <2>2. Reverse(t)[i] = t[(Len(t) - i) + 1] /\ Reverse(t)[i + 1] = t[Len(t) - i]
    BY <1>2, <2>1
  <2>3. Linked(t[Len(t) - i], t[(Len(t) - i) + 1], back)
    BY <2>1 DEF IsRun
  <2>. QED
    BY <2>2, <2>3 DEF Linked
<1>. QED
  BY <1>1, <1>2, <1>3 DEF IsRun

LEMMA PrefixIsRun ==
    ASSUME NEW t, NEW back, IsRun(t, back), NEW at \in Nat, at < Len(t)
    PROVE  LET s == SubSeq(t, 1, at + 1)
           IN  IsRun(s, back) /\ Len(s) = at + 1 /\ s[1] = t[1] /\ s[at + 1] = t[at + 1]
<1>. DEFINE s == SubSeq(t, 1, at + 1)
<1>1. t \in Seq(Diagram) /\ Len(t) \in Nat
  BY DEF IsRun
<1>2. /\ s \in Seq(Diagram) /\ Len(s) = at + 1
      /\ \A i \in 1 .. at + 1 : s[i] = t[i]
  BY <1>1
<1>3. ASSUME NEW i \in 1 .. at
      PROVE  Linked(s[i], s[i + 1], back)
  <2>1. i \in 1 .. at + 1 /\ i + 1 \in 1 .. at + 1 /\ i \in 1 .. Len(t) - 1
    BY <1>1
  <2>. QED
    BY <1>2, <2>1 DEF IsRun
<1>. HIDE DEF s
<1>4. IsRun(s, back)
  BY <1>2, <1>3 DEF IsRun
<1>. QED
  BY <1>2, <1>4 DEF s

\* A run goes on from where it ends.
LEMMA ExtendedIsRun ==
    ASSUME NEW t, NEW back, IsRun(t, back), NEW new \in Seq(Diagram),
           \A i \in 1 .. Len(new) :
               Linked((<<t[Len(t)]>> \o new)[i], (<<t[Len(t)]>> \o new)[i + 1], back)
    PROVE  IsRun(t \o new, back) /\ (t \o new)[1] = t[1] /\ Len(t \o new) = Len(t) + Len(new)
<1>. DEFINE r == t \o new
            n == <<t[Len(t)]>> \o new
<1>1. t \in Seq(Diagram) /\ Len(t) \in Nat /\ Len(t) > 0 /\ Len(new) \in Nat
  BY DEF IsRun
<1>2. /\ r \in Seq(Diagram) /\ Len(r) = Len(t) + Len(new)
      /\ \A i \in 1 .. Len(t) : r[i] = t[i]
      /\ \A i \in 1 .. Len(new) : r[Len(t) + i] = new[i]
  BY <1>1
<1>3. n[1] = t[Len(t)] /\ \A i \in 1 .. Len(new) : n[i + 1] = new[i]
  BY <1>1
<1>4. ASSUME NEW i \in 1 .. Len(r) - 1
      PROVE  Linked(r[i], r[i + 1], back)
  <2>1. CASE i < Len(t)
    <3>1. r[i] = t[i] /\ r[i + 1] = t[i + 1] /\ i \in 1 .. Len(t) - 1
      BY <1>1, <1>2, <2>1
    <3>. QED
      BY <3>1 DEF IsRun
  <2>2. CASE i >= Len(t)
    <3>. DEFINE j == i - Len(t) + 1
    <3>1. j \in 1 .. Len(new) /\ i + 1 = Len(t) + j
      BY <1>1, <1>2, <2>2
    <3>2. r[i + 1] = n[j + 1]
      BY <1>2, <1>3, <3>1
    <3>3. r[i] = n[j]
      <4>1. CASE j = 1
        <5>1. i = Len(t)
          BY <1>1, <4>1
        <5>. QED
          BY <1>1, <1>2, <1>3, <4>1, <5>1
      <4>2. CASE j # 1
        <5>1. j - 1 \in 1 .. Len(new) /\ i = Len(t) + (j - 1) /\ j = (j - 1) + 1
          BY <1>1, <3>1, <4>2
        <5>. QED
          BY <1>2, <1>3, <5>1
      <4>. QED
        BY <4>1, <4>2
    <3>. HIDE DEF j, n, r
    <3>4. Linked(n[j], n[j + 1], back)
      BY <3>1 DEF n
    <3>. QED
      BY <3>2, <3>3, <3>4
  <2>. QED
    BY <1>1, <1>2, <2>1, <2>2
<1>. HIDE DEF r
<1>5. IsRun(r, back)
  BY <1>1, <1>2, <1>4 DEF IsRun
<1>. QED
  BY <1>1, <1>2, <1>5 DEF r

----------------------------------------------------------------------------
(* The shape of a step                                                     *)

\* Nothing the clock dates changes.
Idles == UNCHANGED <<session, counters>>

\* A load, of a module or of nothing.
Loads ==
    /\ revision' = revision + 1 /\ generation' = revision' /\ module_revision' = revision'
    /\ activity' = Idle

\* A command: refused, accepted, or accepted with an edit, which only adds.
Refused == UNCHANGED <<session, module_revision>>

Acted == UNCHANGED <<file, in_memory, module_revision>> /\ reply'.status = "ok"

Edited ==
    /\ UNCHANGED in_memory
    /\ module_revision' = revision' /\ reply'.status = "ok"
    /\ file' # None
    /\ file'.source.text = file.source.text
    /\ Grows(file.source.fills, file'.source.fills)
    /\ Grows(file.source.lets, file'.source.lets)

Began(new) == activity' = new /\ begun' = begun + 1 /\ UNCHANGED <<file, backward>>

Counts == file # None /\ revision' = revision + 1 /\ UNCHANGED <<generation, outside>>

Command == Counts /\ (Refused \/ Acted \/ Edited)

\* What is to be shown of a command.
LEMMA CommandInv ==
    ASSUME IInv, Command, file' # None => SoundFile(file'),
           begun' \in Nat, backward' \in BOOLEAN, SoundActivity(activity', file', backward')
    PROVE  IInv'
<1>1. SoundNumbers'
  <2>1. /\ revision' = revision + 1 /\ generation' = generation
        /\ module_revision' \in {module_revision, revision'}
    BY DEF Command, Counts, Refused, Acted, Edited
  <2>. QED
    BY <2>1 DEF IInv, SoundNumbers
<1>2. SoundDisk'
  BY DEF IInv, SoundDisk, Command, Counts, outside
<1>. QED
  BY <1>1, <1>2 DEF IInv

LEMMA RefusedInv ==
    ASSUME IInv, Counts, Refused
    PROVE  IInv' /\ Command
<1>1. UNCHANGED <<file, activity, begun, backward>> /\ Command
  BY DEF Refused, session, Command
<1>. QED
  BY <1>1, CommandInv DEF IInv

\* What is to be shown of a command that begins a session, and of one that goes
\* on with it.
LEMMA BegunInv ==
    ASSUME IInv, Counts, Acted, NEW new, Began(new), SoundActivity(new, file, backward)
    PROVE  IInv' /\ Command
<1>1. activity' = new /\ begun' = begun + 1 /\ UNCHANGED <<file, backward>>
  BY DEF Began
<1>. QED
  BY <1>1, CommandInv DEF IInv, Command

LEMMA WorkInv ==
    ASSUME IInv, Counts, Acted, UNCHANGED <<file, begun, backward>>,
           SoundActivity(activity', file, backward)
    PROVE  IInv' /\ Command
  BY CommandInv DEF IInv, Command

\* An engine as it is made.
LEMMA EngineIsSound ==
    ASSUME IInv, file # None, NEW kind \in {"rewrite", "fill"}, NEW hole \in Hole \cup {None},
           NEW trail, IsRun(trail, backward), NEW target \in Diagram \cup {None},
           kind = "fill" =>
               /\ hole \in Hole \ ZeroHole
               /\ trail[1] = Boundary[hole][IF backward THEN 2 ELSE 1]
               /\ target = Boundary[hole][IF backward THEN 1 ELSE 2]
               /\ hole \in file.store.open /\ Needs[hole] \cap file.store.open = {}
    PROVE  SoundActivity(engine(kind, hole, trail, target), file, backward)
<1>. DEFINE new == engine(kind, hole, trail, target)
<1>1. /\ new = [kind |-> kind, hole |-> hole, trail |-> trail, at |-> Len(trail) - 1,
                target |-> target, parallel |-> TRUE, store |-> file.store]
      /\ new.kind = kind /\ new.hole = hole /\ new.trail = trail /\ new.at = Len(trail) - 1
      /\ new.target = target /\ new.store = file.store
  BY DEF engine
<1>2. trail \in Seq(Diagram) /\ Len(trail) - 1 \in Nat /\ Len(trail) - 1 < Len(trail)
  BY DEF IsRun
<1>3. file.store \in Store
  BY DEF IInv, SoundFile, File
<1>4. new \in Activity
  BY <1>1, <1>2, <1>3 DEF Activity
<1>. HIDE DEF new
<1>5. SoundActivity(new, file, backward)
  BY <1>1, <1>2, <1>4 DEF SoundActivity
<1>. QED
  BY <1>5 DEF new

LEMMA SingleIsRun ==
    ASSUME NEW d \in Diagram, NEW back
    PROVE  IsRun(<<d>>, back) /\ <<d>>[1] = d
  BY DEF IsRun

----------------------------------------------------------------------------
(* The commands of a session                                               *)

LEMMA StartInv ==
    ASSUME IInv, NEW initial \in Diagram, NEW target \in Diagram \cup {None},
           start(initial, target)
    PROVE  IInv' /\ Command
<1>. DEFINE new == engine("rewrite", None, <<initial>>, target)
<1>1. Counts /\ (Refused \/ (Acted /\ Began(new)))
  BY DEF start, ensure_idle, begin, Mutate, Leave, Require, Assign, Begin, Counts, Refused, Acted,
         Answer, Refuse, session, Began
<1>2. SoundActivity(new, file, backward)
  <2>1. file # None
    BY <1>1 DEF Counts
  <2>. QED
    BY <2>1, SingleIsRun, EngineIsSound
<1>. HIDE DEF new
<1>. QED
  BY <1>1, <1>2, RefusedInv, BegunInv

\* A definition resumed runs in the direction of the session.
LEMMA ResumeInv ==
    ASSUME IInv, NEW name \in Name, NEW target \in Diagram \cup {None}, resume(name, target)
    PROVE  IInv' /\ Command
<1>. DEFINE proof == file.store.lets[name]
            new == engine("rewrite", None, Forward(proof), target)
<1>1. /\ Counts
      /\ Refused \/ (Acted /\ Began(new) /\ name \in DOMAIN file.store.lets)
  <2>. HIDE DEF new
  <2>. QED
    BY DEF resume, ensure_idle, begin, Mutate, Leave, Require, Assign, Begin, Counts, Refused,
           Acted, Answer, Refuse, session, Began, new
<1>2. ASSUME name \in DOMAIN file.store.lets
      PROVE  SoundActivity(new, file, backward)
  <2>1. file # None
    BY <1>1 DEF Counts
  <2>2. IsRun(proof, FALSE)
    <3>1. file.store.lets = file.source.lets
      BY <2>1 DEF IInv, SoundFile, interpret
    <3>2. \A n \in DOMAIN file.source.lets : IsRun(file.source.lets[n], FALSE)
      BY <2>1 DEF IInv, SoundFile, SoundSource
    <3>. QED
      BY <1>2, <3>1, <3>2
  <2>3. IsRun(Forward(proof), backward)
    <3>. HIDE DEF proof
    <3>. QED
      BY <2>2, ReverseIsRun DEF IInv, Forward
  <2>. HIDE DEF proof
  <2>. QED
    BY <2>1, <2>3, EngineIsSound
<1>. HIDE DEF new, proof
<1>. QED
  BY <1>1, <1>2, RefusedInv, BegunInv

\* A fill begins at one side of its hole, and is to reach the other.
LEMMA BeginFillInv ==
    ASSUME IInv, NEW index, begin_fill(index)
    PROVE  IInv' /\ Command
<1>. DEFINE hole == HoleNumbered(index)
            in == Boundary[hole][1]
            out == Boundary[hole][2]
            fill == engine("fill", hole, <<IF backward THEN out ELSE in>>,
                           IF backward THEN in ELSE out)
            new == fill_session(hole)
<1>1. /\ Counts
      /\ \/ Refused
         \/ /\ Acted /\ Began(new)
            /\ \E h \in file.store.open : list_open_holes[h] = index
            /\ Needs[hole] \cap file.store.open = {}
  <2>. DEFINE is_numbered == \E h \in file.store.open : list_open_holes[h] = index
              is_free == Needs[hole] \cap file.store.open = {}
              numbered == Require(ensure_idle, is_numbered)
              unblocked == Require(numbered, is_free)
  <2>1. Mutate(begin(unblocked, new), FALSE)
    BY DEF begin_fill
  <2>. HIDE DEF hole, new, is_numbered, is_free
  <2>2. IF activity = Idle /\ is_numbered /\ is_free THEN unblocked = Begin
        ELSE unblocked = [Begin EXCEPT !.status = "error"]
    BY DEF ensure_idle, Require, Begin
  <2>. HIDE DEF unblocked
  <2>. QED
    BY <2>1, <2>2 DEF begin, Mutate, Leave, Assign, Begin, Counts, Refused, Acted, Answer, Refuse,
                      session, Began, is_numbered, is_free
<1>2. ASSUME \E h \in file.store.open : list_open_holes[h] = index,
             Needs[hole] \cap file.store.open = {}
      PROVE  SoundActivity(new, file, backward)
  <2>1. hole \in file.store.open
    BY <1>2 DEF HoleNumbered
  <2>2. file # None /\ backward \in BOOLEAN
    BY <1>1 DEF Counts, IInv
  <2>3. hole \in Hole
    BY <2>1, <2>2 DEF IInv, SoundFile, File, Store
  <2>4. CASE hole \in ZeroHole
    <3>. DEFINE zero == zero_cell_fill(hole)
    <3>. HIDE DEF hole
    <3>1. zero = [kind |-> "zero_cell", hole |-> hole, trail |-> <<None>>, at |-> 0]
      BY DEF zero_cell_fill
    <3>2. zero \in Activity
      BY <2>3, <3>1 DEF Activity
    <3>3. /\ zero.kind = "zero_cell" /\ zero.hole = hole /\ zero.at = 0 /\ Len(zero.trail) = 1
      BY <3>1
    <3>4. SoundActivity(zero, file, backward)
      <4>. HIDE DEF zero
      <4>. QED
        BY <1>2, <2>1, <2>2, <2>4, <3>2, <3>3 DEF SoundActivity
    <3>. QED
      BY <2>4, <3>4 DEF fill_session
  <2>5. CASE hole \notin ZeroHole
    <3>. HIDE DEF hole
    <3>1. in \in Diagram /\ out \in Diagram
      BY <2>3, <2>5, KernelAssumption
    <3>2. SoundActivity(fill, file, backward)
      <4>. DEFINE first == IF backward THEN out ELSE in
                  last == IF backward THEN in ELSE out
      <4>1. /\ first \in Diagram /\ last \in Diagram
            /\ first = Boundary[hole][IF backward THEN 2 ELSE 1]
            /\ last = Boundary[hole][IF backward THEN 1 ELSE 2]
        BY <2>2, <3>1
      <4>. HIDE DEF first, last
      <4>2. SoundActivity(engine("fill", hole, <<first>>, last), file, backward)
        BY <1>2, <2>1, <2>2, <2>3, <2>5, <4>1, SingleIsRun, EngineIsSound
      <4>. QED
        BY <4>2 DEF first, last
    <3>. QED
      BY <2>5, <3>2 DEF fill_session
  <2>. QED
    BY <2>4, <2>5
<1>. HIDE DEF new, hole
<1>. QED
  BY <1>1, <1>2, RefusedInv, BegunInv

LEMMA IdleIsSound ==
    ASSUME NEW f, NEW back
    PROVE  SoundActivity(Idle, f, back)
  BY DEF Idle, SoundActivity, Activity

LEMMA StopInv ==
    ASSUME IInv, stop
    PROVE  IInv' /\ Command
<1>1. Counts /\ Acted /\ activity' = Idle /\ UNCHANGED <<file, begun, backward>>
  BY DEF stop, Mutate, Leave, Assign, Begin, Counts, Acted, Answer
<1>. QED
  BY <1>1, IdleIsSound, WorkInv

LEMMA SetBackwardInv ==
    ASSUME IInv, NEW on \in BOOLEAN, set_backward(on)
    PROVE  IInv' /\ Command
<1>1. /\ Counts /\ Acted /\ UNCHANGED <<file, activity, begun>>
      /\ backward' = IF activity = Idle THEN on ELSE backward
  BY DEF set_backward, Mutate, Leave, Assign, Begin, Counts, Acted, Answer
<1>2. SoundActivity(activity', file', backward') /\ backward' \in BOOLEAN
  BY <1>1, IdleIsSound DEF IInv
<1>. QED
  BY <1>1, <1>2, CommandInv DEF IInv, Command

----------------------------------------------------------------------------
(* The work of a session                                                   *)

Engines == {"rewrite", "fill"}

At(a, trail, at, parallel) ==
    [kind |-> a.kind, hole |-> a.hole, trail |-> trail, at |-> at, target |-> a.target,
     parallel |-> parallel, store |-> a.store]

Chosen(a, trail, at) == [kind |-> "zero_cell", hole |-> a.hole, trail |-> trail, at |-> at]

\* An engine is a record of its fields.
LEMMA EngineFields ==
    ASSUME NEW a \in Activity, a.kind \in Engines
    PROVE  /\ a = [kind |-> a.kind, hole |-> a.hole, trail |-> a.trail, at |-> a.at,
                   target |-> a.target, parallel |-> a.parallel, store |-> a.store]
           /\ a.hole \in Hole \cup {None} /\ a.trail \in Seq(Diagram) /\ a.at \in Nat
           /\ a.target \in Diagram \cup {None} /\ a.parallel \in BOOLEAN /\ a.store \in Store
  BY DEF Activity, Engines

LEMMA ZeroFields ==
    ASSUME NEW a \in Activity, a.kind = "zero_cell"
    PROVE  /\ a = [kind |-> "zero_cell", hole |-> a.hole, trail |-> a.trail, at |-> a.at]
           /\ a.hole \in Hole /\ a.trail \in Seq(Cell \cup {None}) /\ a.at \in Nat
  BY DEF Activity

LEMMA EngineMoved ==
    ASSUME NEW a \in Activity, a.kind \in Engines, NEW trail, NEW at, NEW d,
           d = [a EXCEPT !.trail = trail, !.at = at]
    PROVE  d = At(a, trail, at, a.parallel)
<1>. DEFINE e == [a EXCEPT !.trail = trail]
<1>1. a = [kind |-> a.kind, hole |-> a.hole, trail |-> a.trail, at |-> a.at,
           target |-> a.target, parallel |-> a.parallel, store |-> a.store]
  BY EngineFields
<1>2. e = [kind |-> a.kind, hole |-> a.hole, trail |-> trail, at |-> a.at,
           target |-> a.target, parallel |-> a.parallel, store |-> a.store]
  BY ONLY <1>1
<1>3. d = [e EXCEPT !.at = at]
  OBVIOUS
<1>. HIDE DEF e
<1>. QED
  BY ONLY <1>2, <1>3 DEF At

LEMMA ZeroMoved ==
    ASSUME NEW a \in Activity, a.kind = "zero_cell", NEW trail, NEW at, NEW d,
           d = [a EXCEPT !.trail = trail, !.at = at]
    PROVE  d = Chosen(a, trail, at)
<1>. DEFINE e == [a EXCEPT !.trail = trail]
<1>1. a = [kind |-> "zero_cell", hole |-> a.hole, trail |-> a.trail, at |-> a.at]
  BY ZeroFields
<1>2. e = [kind |-> "zero_cell", hole |-> a.hole, trail |-> trail, at |-> a.at]
  BY ONLY <1>1
<1>3. d = [e EXCEPT !.at = at]
  OBVIOUS
<1>. HIDE DEF e
<1>. QED
  BY ONLY <1>2, <1>3 DEF Chosen

\* An engine with another history from the same start, at a step of it.
LEMMA MovedIsSound ==
    ASSUME NEW a, NEW f, NEW back, SoundActivity(a, f, back), a.kind \in Engines,
           NEW trail, IsRun(trail, back), trail[1] = a.trail[1],
           NEW at \in Nat, at < Len(trail), NEW parallel \in BOOLEAN
    PROVE  SoundActivity(At(a, trail, at, parallel), f, back)
<1>. DEFINE b == At(a, trail, at, parallel)
<1>1. a \in Activity /\ trail \in Seq(Diagram)
  BY DEF SoundActivity, IsRun
<1>2. b \in Activity
  BY <1>1, EngineFields DEF Activity, Engines, At
<1>3. /\ b.kind = a.kind /\ b.hole = a.hole /\ b.trail = trail /\ b.at = at
      /\ b.target = a.target /\ b.store = a.store
  BY DEF At
<1>. HIDE DEF b
<1>4. SoundActivity(b, f, back)
  BY <1>2, <1>3 DEF SoundActivity, Engines
<1>. QED
  BY <1>4 DEF b

\* The steps applied are a run, which ends where the session is.
LEMMA AppliedIsRun ==
    ASSUME IInv, Engine
    PROVE  /\ IsRun(Applied, backward) /\ Len(Applied) = activity.at + 1
           /\ Applied[1] = activity.trail[1] /\ Applied[activity.at + 1] = Here
           /\ activity.at \in Nat /\ activity \in Activity /\ file # None
<1>1. SoundActivity(activity, file, backward) /\ activity.kind \in Engines
  BY DEF IInv, Engine, Engines
<1>2. activity \in Activity /\ IsRun(activity.trail, backward) /\ activity.at < Len(activity.trail)
      /\ file # None
  BY <1>1 DEF SoundActivity, Engines
<1>3. activity.at \in Nat
  BY <1>1, <1>2, EngineFields
<1>. QED
  BY <1>2, <1>3, PrefixIsRun DEF Applied, Here

\* What is recorded applies.
Goes(d, new, back) ==
    \A i \in 1 .. Len(new) : Linked((<<d>> \o new)[i], (<<d>> \o new)[i + 1], back)

LEMMA ExtendInv ==
    ASSUME IInv, Counts, Acted, UNCHANGED <<file, begun, backward>>, Engine,
           NEW new \in Seq(Diagram), activity' = Extended(new),
           Goes(Here, new, backward)
    PROVE  IInv' /\ Command
<1>. DEFINE trail == Applied \o new
            at == activity.at + Len(new)
<1>1. /\ SoundActivity(activity, file, backward) /\ activity.kind \in Engines
      /\ activity \in Activity /\ activity.at \in Nat /\ Len(new) \in Nat
  BY AppliedIsRun DEF IInv, Engine, Engines
<1>2. IsRun(trail, backward) /\ trail[1] = activity.trail[1] /\ at < Len(trail) /\ at \in Nat
  <2>1. IsRun(Applied, backward) /\ Len(Applied) = activity.at + 1
        /\ Applied[Len(Applied)] = Here /\ Applied[1] = activity.trail[1]
    BY AppliedIsRun
  <2>. HIDE DEF Applied
  <2>2. IsRun(trail, backward) /\ trail[1] = Applied[1] /\ Len(trail) = Len(Applied) + Len(new)
    BY <2>1, ExtendedIsRun DEF Goes
  <2>. QED
    BY <1>1, <2>1, <2>2
<1>3. activity' = At(activity, trail, at, activity.parallel)
  <2>1. activity' = [activity EXCEPT !.trail = trail, !.at = at]
    BY DEF Extended, Moved
  <2>. HIDE DEF trail, at
  <2>. QED
    BY <1>1, <2>1, EngineMoved
<1>4. activity.parallel \in BOOLEAN
  BY <1>1, EngineFields
<1>. HIDE DEF trail, at
<1>5. SoundActivity(activity', file, backward)
  BY <1>1, <1>2, <1>3, <1>4, MovedIsSound
<1>. QED
  BY <1>5, WorkInv

\* One diagram more.
LEMMA OneMore ==
    ASSUME NEW d, NEW next \in Diagram, NEW back, Linked(d, next, back)
    PROVE  Goes(d, <<next>>, back) /\ <<next>> \in Seq(Diagram)
<1>1. Len(<<next>>) = 1 /\ (<<d>> \o <<next>>)[1] = d /\ (<<d>> \o <<next>>)[2] = next
  OBVIOUS
<1>. QED
  BY <1>1 DEF Goes

LEMMA LeadsIsLinked ==
    ASSUME NEW pairs \in SUBSET (Rewrites \cup Together), NEW a, NEW b, Leads(pairs, a, b)
    PROVE  Linked(a, b, backward)
  BY DEF Leads, Linked

\* A history with a choice of a 0-cell.
LEMMA ChosenIsSound ==
    ASSUME IInv, activity.kind = "zero_cell", NEW trail \in Seq(Cell \cup {None}),
           \A i \in 2 .. Len(trail) : trail[i] \in Cell, NEW at \in Nat, at < Len(trail)
    PROVE  SoundActivity(Chosen(activity, trail, at), file, backward)
<1>. DEFINE b == Chosen(activity, trail, at)
<1>1. SoundActivity(activity, file, backward)
  BY DEF IInv
<1>2. activity \in Activity
  BY <1>1 DEF SoundActivity
<1>3. b \in Activity
  BY <1>2, ZeroFields DEF Activity, Chosen
<1>4. b.kind = "zero_cell" /\ b.hole = activity.hole /\ b.trail = trail /\ b.at = at
  BY DEF Chosen
<1>. HIDE DEF b
<1>5. SoundActivity(b, file, backward)
  BY <1>1, <1>3, <1>4 DEF SoundActivity
<1>. QED
  BY <1>5 DEF b

LEMMA ApplyChoiceInv ==
    ASSUME IInv, NEW next \in Diagram \cup Cell, apply_choice(next)
    PROVE  IInv' /\ Command
<1>1. /\ Counts
      /\ \/ Refused
         \/ /\ Acted /\ UNCHANGED <<file, begun, backward>>
            /\ \/ /\ activity.kind = "zero_cell" /\ next \in Cell
                  /\ activity' = [activity EXCEPT !.trail = <<None, next>>, !.at = 1]
               \/ /\ Engine /\ Leads(Rewrites, Here, next)
                  /\ activity' = Extended(<<next>>)
  <2>. DEFINE after == Extended(<<next>>)
              chosen == Moved(<<None, next>>, 1)
  <2>. HIDE DEF after, chosen
  <2>1. /\ Counts
        /\ \/ Refused
           \/ /\ Acted /\ UNCHANGED <<file, begun, backward>>
              /\ \/ activity.kind = "zero_cell" /\ next \in Cell /\ activity' = chosen
                 \/ Engine /\ Leads(Rewrites, Here, next) /\ activity' = after
    BY DEF apply_choice, Mutate, Leave, Require, Assign, Begin, Counts, Refused, Acted, Answer,
           Refuse, session, after, chosen
  <2>. QED
    BY <2>1 DEF after, chosen, Moved
<1>2. ASSUME Acted, UNCHANGED <<file, begun, backward>>, activity.kind = "zero_cell",
             next \in Cell, activity' = [activity EXCEPT !.trail = <<None, next>>, !.at = 1]
      PROVE  IInv' /\ Command
  <2>1. activity \in Activity
    BY DEF IInv, SoundActivity
  <2>. DEFINE trail == <<None, next>>
  <2>2. trail \in Seq(Cell \cup {None}) /\ Len(trail) = 2 /\ \A i \in 2 .. Len(trail) : trail[i] \in Cell
    BY <1>2
  <2>3. activity' = [activity EXCEPT !.trail = trail, !.at = 1]
    BY <1>2
  <2>. HIDE DEF trail
  <2>4. SoundActivity(activity', file, backward)
    <3>1. activity' = Chosen(activity, trail, 1)
      BY <1>2, <2>1, <2>3, ZeroMoved
    <3>2. SoundActivity(Chosen(activity, trail, 1), file, backward)
      BY <1>2, <2>2, ChosenIsSound
    <3>. QED
      BY <3>1, <3>2
  <2>. QED
    BY <1>1, <1>2, <2>4, WorkInv
<1>3. ASSUME Acted, UNCHANGED <<file, begun, backward>>, Engine, Leads(Rewrites, Here, next),
             activity' = Extended(<<next>>)
      PROVE  IInv' /\ Command
  <2>1. Linked(Here, next, backward)
    BY <1>3, LeadsIsLinked
  <2>2. next \in Diagram
    BY <2>1, KernelAssumption DEF Linked
  <2>3. Goes(Here, <<next>>, backward) /\ <<next>> \in Seq(Diagram)
    BY <2>1, <2>2, OneMore
  <2>. QED
    BY <1>1, <1>3, <2>2, <2>3, ExtendInv
<1>. QED
  BY <1>1, <1>2, <1>3, RefusedInv

LEMMA ApplyChoicesInv ==
    ASSUME IInv, NEW next \in Diagram, apply_choices(next)
    PROVE  IInv' /\ Command
<1>1. /\ Counts
      /\ \/ Refused
         \/ /\ Acted /\ UNCHANGED <<file, begun, backward>>
            /\ Engine /\ Leads(Together, Here, next) /\ activity' = Extended(<<next>>)
  BY DEF apply_choices, Mutate, Leave, Require, Assign, Begin, Counts, Refused, Acted, Answer,
         Refuse, session
<1>2. Leads(Together, Here, next) =>
          Goes(Here, <<next>>, backward) /\ <<next>> \in Seq(Diagram)
  BY LeadsIsLinked, OneMore
<1>. QED
  BY <1>1, <1>2, RefusedInv, ExtendInv

LEMMA EngineAutoInv ==
    ASSUME IInv, NEW new \in Runs, NEW random \in BOOLEAN, engine_auto(new, random)
    PROVE  IInv' /\ Command
<1>. DEFINE run == <<Here>> \o new
            pairs == IF ~random /\ activity.parallel THEN Rewrites \cup Together ELSE Rewrites
<1>1. /\ Counts
      /\ \/ Refused
         \/ /\ Acted /\ UNCHANGED <<file, begun, backward>>
            /\ Engine
            /\ \A i \in 1 .. Len(new) : Leads(pairs, run[i], run[i + 1])
            /\ UNCHANGED activity \/ activity' = Extended(new)
  <2>. DEFINE after == Extended(new)
  <2>. HIDE DEF after
  <2>1. /\ Counts
        /\ \/ Refused
           \/ /\ Acted /\ UNCHANGED <<file, begun, backward>> /\ Engine
              /\ UNCHANGED activity \/ activity' = after
    BY DEF engine_auto, Mutate, Leave, Require, Assign, Begin, Counts, Refused, Acted, Answer,
           Refuse, session, after
  <2>2. Engine => \A i \in 1 .. Len(new) : Leads(pairs, run[i], run[i + 1])
    BY DEF engine_auto
  <2>. QED
    BY <2>1, <2>2 DEF after
<1>2. new \in Seq(Diagram)
  BY DEF Runs
<1>3. ASSUME \A i \in 1 .. Len(new) : Leads(pairs, run[i], run[i + 1])
      PROVE  Goes(Here, new, backward)
  <2>1. \A i \in 1 .. Len(new) : Linked(run[i], run[i + 1], backward)
    <3>. HIDE DEF run
    <3>. QED
      BY <1>3, LeadsIsLinked
  <2>. QED
    BY <2>1 DEF Goes
<1>4. ASSUME Acted, UNCHANGED <<file, begun, backward>>, UNCHANGED activity
      PROVE  IInv' /\ Command
  BY <1>1, <1>4, WorkInv DEF IInv
<1>. QED
  BY <1>1, <1>2, <1>3, <1>4, RefusedInv, ExtendInv

LEMMA TravelInv ==
    ASSUME IInv, NEW to \in Int, NEW redo \in BOOLEAN, travel(to, redo)
    PROVE  IInv' /\ Command
<1>. DEFINE there == IF redo /\ to < activity.at THEN activity.at ELSE to
<1>1. /\ Counts
      /\ \/ Refused
         \/ /\ Acted /\ UNCHANGED <<file, begun, backward>>
            /\ Active /\ to \in 0 .. IF redo THEN Len(activity.trail) - 1 ELSE activity.at
            /\ activity' = [activity EXCEPT !.at = there]
  <2>. HIDE DEF there
  <2>. QED
    BY DEF travel, Mutate, Leave, Require, Assign, Begin, Counts, Refused, Acted, Answer, Refuse,
           session, there
<1>2. SoundActivity(activity, file, backward) /\ activity \in Activity
  BY DEF IInv, SoundActivity
<1>3. ASSUME Active, to \in 0 .. IF redo THEN Len(activity.trail) - 1 ELSE activity.at
      PROVE  there \in Nat /\ there < Len(activity.trail)
  <2>1. activity.at \in Nat /\ activity.at < Len(activity.trail) /\ Len(activity.trail) \in Nat
    <3>1. CASE activity.kind \in Engines
      BY <1>2, <3>1, EngineFields DEF SoundActivity, Engines
    <3>2. CASE activity.kind = "zero_cell"
      BY <1>2, <3>2, ZeroFields DEF SoundActivity
    <3>. QED
      BY <1>2, <1>3, <3>1, <3>2 DEF Active, Activity, Engines
  <2>. QED
    BY <1>3, <2>1
<1>. HIDE DEF there
<1>4. ASSUME activity.kind \in Engines, there \in Nat, there < Len(activity.trail),
             activity' = [activity EXCEPT !.at = there]
      PROVE  SoundActivity(activity', file, backward)
  <2>1. /\ activity' = At(activity, activity.trail, there, activity.parallel)
        /\ activity.trail \in Seq(Diagram) /\ activity.parallel \in BOOLEAN
    BY <1>2, <1>4, EngineFields DEF At
  <2>2. IsRun(activity.trail, backward)
    BY <1>2, <1>4 DEF SoundActivity, Engines
  <2>. QED
    BY <1>2, <1>4, <2>1, <2>2, MovedIsSound
<1>5. ASSUME activity.kind = "zero_cell", there \in Nat, there < Len(activity.trail),
             activity' = [activity EXCEPT !.at = there]
      PROVE  SoundActivity(activity', file, backward)
  <2>1. /\ activity' = Chosen(activity, activity.trail, there)
        /\ activity.trail \in Seq(Cell \cup {None})
    BY <1>2, <1>5, ZeroFields DEF Chosen
  <2>2. \A i \in 2 .. Len(activity.trail) : activity.trail[i] \in Cell
    BY <1>2, <1>5 DEF SoundActivity
  <2>. QED
    BY <1>5, <2>1, <2>2, ChosenIsSound
<1>6. Active => activity.kind \in Engines \/ activity.kind = "zero_cell"
  BY <1>2 DEF Active, Activity, Engines
<1>. QED
  BY <1>1, <1>3, <1>4, <1>5, <1>6, RefusedInv, WorkInv

LEMMA SetParallelInv ==
    ASSUME IInv, NEW on \in BOOLEAN, set_parallel(on)
    PROVE  IInv' /\ Command
<1>1. /\ Counts
      /\ \/ Refused
         \/ /\ Acted /\ UNCHANGED <<file, begun, backward>>
            /\ Engine /\ activity' = [activity EXCEPT !.parallel = on]
  BY DEF set_parallel, Mutate, Leave, Require, Assign, Begin, Counts, Refused, Acted, Answer,
         Refuse, session
<1>2. ASSUME Engine, activity' = [activity EXCEPT !.parallel = on]
      PROVE  SoundActivity(activity', file, backward)
  <2>1. SoundActivity(activity, file, backward) /\ activity \in Activity
        /\ activity.kind \in Engines
    BY <1>2 DEF IInv, SoundActivity, Engine, Engines
  <2>2. activity' = At(activity, activity.trail, activity.at, on) /\ activity.at \in Nat
    BY <1>2, <2>1, EngineFields DEF At
  <2>3. IsRun(activity.trail, backward) /\ activity.at < Len(activity.trail)
    BY <2>1 DEF SoundActivity, Engines
  <2>. QED
    BY <2>1, <2>2, <2>3, MovedIsSound
<1>. QED
  BY <1>1, <1>2, RefusedInv, WorkInv

----------------------------------------------------------------------------
(* The edits                                                               *)

LEMMA FillsWith ==
    ASSUME NEW f \in Fills, NEW hole \in Hole, NEW filler \in Seq(Diagram \cup Cell)
    PROVE  With(f, hole, filler) \in Fills
<1>1. DOMAIN f \subseteq Hole /\ \A y \in DOMAIN f : f[y] \in Seq(Diagram \cup Cell)
  BY DEF Fills
<1>2. With(f, hole, filler) \in [DOMAIN f \cup {hole} -> Seq(Diagram \cup Cell)]
  BY <1>1 DEF With
<1>. QED
  BY <1>1, <1>2 DEF Fills

LEMMA LetsWith ==
    ASSUME NEW f \in Lets, NEW name \in Name, NEW proof \in Seq(Diagram)
    PROVE  With(f, name, proof) \in Lets
<1>1. DOMAIN f \subseteq Name /\ \A y \in DOMAIN f : f[y] \in Seq(Diagram)
  BY DEF Lets
<1>2. With(f, name, proof) \in [DOMAIN f \cup {name} -> Seq(Diagram)]
  BY <1>1 DEF With
<1>. QED
  BY <1>1, <1>2 DEF Lets

\* A module is what its source interprets to.
LEMMA ModuleIsSound ==
    ASSUME NEW path \in Path \cup {Memory}, NEW source, SoundSource(source)
    PROVE  /\ SoundFile(Module(path, source)) /\ Module(path, source) # None
           /\ Module(path, source).source = source
           /\ Module(path, source).store = interpret(source)
<1>1. Module(path, source) = [path |-> path, source |-> source, store |-> interpret(source)]
  BY DEF Module
<1>2. source \in Source
  BY DEF SoundSource
<1>3. interpret(source) \in Store
  <2>1. source.text \in Text /\ source.lets \in Lets
    BY <1>2 DEF Source
  <2>2. Leaves[source.text] \subseteq Hole
    BY <2>1, KernelAssumption
  <2>. QED
    BY <2>1, <2>2 DEF interpret, Store
<1>4. Module(path, source) \in File
  BY <1>1, <1>2, <1>3 DEF File
<1>. QED
  BY <1>1, <1>4, KernelAssumption DEF SoundFile

\* The steps of a session, in the direction of the map.
LEMMA ForwardIsRun ==
    ASSUME IInv, Engine
    PROVE  LET proof == Forward(Applied)
           IN  /\ IsRun(proof, FALSE) /\ Len(proof) = activity.at + 1
               /\ proof[1] = IF backward THEN Here ELSE activity.trail[1]
               /\ proof[Len(proof)] = IF backward THEN activity.trail[1] ELSE Here
<1>. DEFINE proof == Forward(Applied)
<1>1. /\ IsRun(Applied, backward) /\ Len(Applied) = activity.at + 1
      /\ Applied[1] = activity.trail[1] /\ Applied[activity.at + 1] = Here
  BY AppliedIsRun
<1>2. backward \in BOOLEAN
  BY DEF IInv
<1>. HIDE DEF Applied
<1>3. CASE backward = TRUE
  <2>1. proof = Reverse(Applied)
    BY <1>3 DEF Forward
  <2>2. /\ IsRun(proof, FALSE) /\ Len(proof) = Len(Applied)
        /\ proof[1] = Applied[Len(Applied)] /\ proof[Len(Applied)] = Applied[1]
    BY <1>1, <1>3, <2>1, ReverseIsRun
  <2>. QED
    BY <1>1, <1>3, <2>2
<1>4. CASE backward = FALSE
  BY <1>1, <1>4 DEF Forward
<1>. QED
  BY <1>2, <1>3, <1>4

LEMMA FillerIsSound ==
    ASSUME IInv, activity.kind \in {"fill", "zero_cell"}, Complete
    PROVE  /\ activity.hole \in Hole /\ filled_with \in Seq(Diagram \cup Cell)
           /\ IsFiller(activity.hole, filled_with)
<1>1. SoundActivity(activity, file, backward) /\ activity \in Activity /\ backward \in BOOLEAN
  BY DEF IInv, SoundActivity
<1>2. CASE activity.kind = "zero_cell"
  <2>1. activity.at = 1 /\ activity.trail \in Seq(Cell \cup {None}) /\ activity.hole \in Hole
    BY <1>1, <1>2, ZeroFields DEF Complete
  <2>2. 2 \in 2 .. Len(activity.trail) /\ Here = activity.trail[2]
    BY <1>1, <1>2, <2>1 DEF SoundActivity, Here
  <2>3. Here \in Cell
    BY <1>1, <1>2, <2>2 DEF SoundActivity
  <2>4. filled_with = <<Here>>
    BY <1>2 DEF filled_with
  <2>5. activity.hole \in ZeroHole
    BY <1>1, <1>2 DEF SoundActivity
  <2>. HIDE DEF Here
  <2>. QED
    BY <2>1, <2>3, <2>4, <2>5 DEF IsFiller
<1>3. CASE activity.kind = "fill"
  <2>. DEFINE proof == Forward(Applied)
              hole == activity.hole
  <2>1. /\ activity.hole \in Hole \ ZeroHole
        /\ activity.trail[1] = Boundary[hole][IF backward THEN 2 ELSE 1]
        /\ activity.target = Boundary[hole][IF backward THEN 1 ELSE 2]
    BY <1>1, <1>3 DEF SoundActivity
  <2>2. Here = activity.target
    BY <1>3 DEF Complete
  <2>3. Engine
    BY <1>3 DEF Engine
  <2>4. filled_with = proof
    BY <1>3 DEF filled_with
  <2>5. /\ IsRun(proof, FALSE)
        /\ proof[1] = IF backward THEN Here ELSE activity.trail[1]
        /\ proof[Len(proof)] = IF backward THEN activity.trail[1] ELSE Here
    BY <2>3, ForwardIsRun
  <2>6. Boundary[hole] = <<Boundary[hole][1], Boundary[hole][2]>>
    BY <2>1, KernelAssumption
  <2>. HIDE DEF proof, hole
  <2>7. proof[1] = Boundary[hole][1] /\ proof[Len(proof)] = Boundary[hole][2]
    BY <1>1, <2>1, <2>2, <2>5
  <2>8. proof \in Seq(Diagram \cup Cell)
    BY <2>5 DEF IsRun
  <2>9. \A i \in 1 .. Len(proof) - 1 : <<proof[i], proof[i + 1]>> \in Rewrites \cup Together
    BY <2>5 DEF IsRun, Linked
  <2>10. IsFiller(hole, proof)
    BY <2>1, <2>6, <2>7, <2>9 DEF IsFiller, hole
  <2>. QED
    BY <2>1, <2>4, <2>8, <2>10 DEF hole
<1>. QED
  BY <1>2, <1>3

LEMMA GrowsItself ==
    ASSUME NEW f
    PROVE  Grows(f, f)
  BY DEF Grows

\* `done` closes the hole with what fills it.
LEMMA FinalizeFillInv ==
    ASSUME IInv, finalize_fill
    PROVE  IInv' /\ Command
<1>. DEFINE source == edit_for_fill(file.source)
<1>1. /\ Counts
      /\ \/ Refused
         \/ /\ activity.kind \in {"fill", "zero_cell"} /\ Complete
            /\ file' = Module(file.path, source) /\ activity' = Idle
            /\ UNCHANGED <<begun, backward, in_memory>>
            /\ module_revision' = revision' /\ reply'.status = "ok"
  <2>. HIDE DEF source
  <2>. QED
    BY DEF finalize_fill, fillable, Mutate, Leave, Require, Assign, Begin, Counts, Refused, Answer,
           Refuse, session, source
<1>2. CASE Refused
  BY <1>1, <1>2, RefusedInv
<1>3. ASSUME activity.kind \in {"fill", "zero_cell"}, Complete,
             file' = Module(file.path, source), activity' = Idle,
             UNCHANGED <<begun, backward, in_memory>>,
             module_revision' = revision', reply'.status = "ok"
      PROVE  IInv' /\ Command
  <2>1. /\ file \in File /\ SoundSource(file.source) /\ file.store = interpret(file.source)
    BY <1>1 DEF Counts, IInv, SoundFile
  <2>2. /\ file.path \in Path \cup {Memory} /\ file.source \in Source
        /\ file.source.fills \in Fills /\ file.source.text \in Text /\ file.source.lets \in Lets
    BY <2>1 DEF File, Source
  <2>. DEFINE old == file.source.fills
              new == With(old, activity.hole, filled_with)
  <2>3. /\ activity.hole \in Hole /\ filled_with \in Seq(Diagram \cup Cell)
        /\ IsFiller(activity.hole, filled_with)
    BY <1>3, FillerIsSound
  <2>4. /\ new \in Fills /\ DOMAIN new = DOMAIN old \cup {activity.hole}
        /\ new[activity.hole] = filled_with
        /\ \A hole \in DOMAIN old : hole # activity.hole => new[hole] = old[hole]
    <3>1. old \in Fills
      BY <2>2
    <3>. HIDE DEF old
    <3>2. new \in Fills
      BY <2>3, <3>1, FillsWith
    <3>3. /\ DOMAIN new = DOMAIN old \cup {activity.hole} /\ new[activity.hole] = filled_with
          /\ \A y \in DOMAIN old : y # activity.hole => new[y] = old[y]
      BY DEF With
    <3>. QED
      BY <3>2, <3>3
  <2>5. source = [text |-> file.source.text, fills |-> new, lets |-> file.source.lets]
    <3>. HIDE DEF new
    <3>1. source = [file.source EXCEPT !.fills = new]
      BY DEF new, edit_for_fill
    <3>. HIDE DEF source
    <3>. QED
      BY <2>2, <3>1 DEF Source
  <2>. HIDE DEF new, source
  <2>6. SoundSource(source)
    <3>1. source \in Source /\ source.fills = new /\ source.lets = file.source.lets
      BY <2>2, <2>4, <2>5 DEF Source
    <3>2. \A hole \in DOMAIN new : IsFiller(hole, new[hole])
      BY <2>1, <2>3, <2>4 DEF SoundSource
    <3>. QED
      BY <2>1, <3>1, <3>2 DEF SoundSource
  <2>7. SoundFile(file') /\ file' # None /\ file'.source = source
    BY <1>3, <2>2, <2>6, ModuleIsSound
  <2>8. activity.hole \notin DOMAIN old
    <3>1. activity.hole \in file.store.open
      BY <1>3 DEF IInv, SoundActivity
    <3>. QED
      BY <2>1, <3>1 DEF interpret
  <2>9. Grows(old, new)
    BY <2>4, <2>8 DEF Grows
  <2>10. Edited
    BY <1>3, <2>5, <2>7, <2>9, GrowsItself DEF Edited
  <2>11. Command
    BY <1>1, <2>10 DEF Command
  <2>. QED
    BY <1>3, <2>7, <2>11, CommandInv, IdleIsSound DEF IInv
<1>. QED
  BY <1>1, <1>2, <1>3

\* `store` defines the proof in the source, and in the store the session keeps.
LEMMA StoreProofInv ==
    ASSUME IInv, NEW name \in Name, store_proof(name)
    PROVE  IInv' /\ Command
<1>. DEFINE proof == Forward(Applied)
            store == register_proof(activity.store, name)
            edited == register_proof(file.source, name)
<1>1. /\ Counts
      /\ \/ Refused
         \/ /\ Engine /\ name \notin DOMAIN activity.store.lets
            /\ file' = [file EXCEPT !.store = store, !.source = edited]
            /\ activity' = [activity EXCEPT !.store = store]
            /\ UNCHANGED <<begun, backward, in_memory>>
            /\ module_revision' = revision' /\ reply'.status = "ok"
  <2>. DEFINE registered == [activity EXCEPT !.store = store]
              kept == [file EXCEPT !.store = store]
              defined == [file EXCEPT !.store = store, !.source = edited]
  <2>. HIDE DEF store, edited, registered, kept, defined
  <2>. DEFINE is_free == name \notin DOMAIN activity.store.lets
              free == Require(Require(Begin, Engine), is_free)
  <2>1. Mutate(Assign(Assign(Assign(free, "activity", registered), "file", kept),
                      "file", defined), TRUE)
    BY DEF store_proof, store, edited, registered, kept, defined
  <2>. HIDE DEF is_free
  <2>2. IF Engine /\ is_free THEN free = Begin ELSE free = [Begin EXCEPT !.status = "error"]
    BY DEF Require, Begin
  <2>. HIDE DEF free
  <2>3. /\ Counts
        /\ \/ Refused
           \/ /\ Engine /\ is_free /\ file' = defined /\ activity' = registered
              /\ UNCHANGED <<begun, backward, in_memory>>
              /\ module_revision' = revision' /\ reply'.status = "ok"
    BY <2>1, <2>2 DEF Mutate, Leave, Assign, Begin, Counts, Refused, Answer, Refuse, session
  <2>. QED
    BY <2>3 DEF registered, defined, is_free
<1>2. CASE Refused
  BY <1>1, <1>2, RefusedInv
<1>3. ASSUME Engine, name \notin DOMAIN activity.store.lets,
             file' = [file EXCEPT !.store = store, !.source = edited],
             activity' = [activity EXCEPT !.store = store],
             UNCHANGED <<begun, backward, in_memory>>,
             module_revision' = revision', reply'.status = "ok"
      PROVE  IInv' /\ Command
  <2>1. /\ file \in File /\ SoundSource(file.source) /\ file.store = interpret(file.source)
        /\ SoundActivity(activity, file, backward) /\ activity \in Activity
        /\ activity.kind \in Engines /\ activity.store = file.store
    BY <1>1, <1>3 DEF Counts, IInv, SoundFile, SoundActivity, Engine, Engines
  <2>2. /\ file = [path |-> file.path, source |-> file.source, store |-> file.store]
        /\ file.path \in Path \cup {Memory} /\ file.source \in Source
        /\ file.source = [text |-> file.source.text, fills |-> file.source.fills,
                          lets |-> file.source.lets]
        /\ file.source.fills \in Fills /\ file.source.text \in Text /\ file.source.lets \in Lets
    BY <2>1 DEF File, Source
  <2>. DEFINE old == file.source.lets
              new == With(old, name, proof)
              source == [text |-> file.source.text, fills |-> file.source.fills, lets |-> new]
  <2>3. IsRun(proof, FALSE) /\ proof \in Seq(Diagram)
    BY <1>3, ForwardIsRun DEF IsRun
  <2>. HIDE DEF proof
  <2>4. /\ new \in Lets /\ DOMAIN new = DOMAIN old \cup {name} /\ new[name] = proof
        /\ \A other \in DOMAIN old : other # name => new[other] = old[other]
    <3>1. old \in Lets
      BY <2>2
    <3>. HIDE DEF old
    <3>2. new \in Lets
      BY <2>3, <3>1, LetsWith
    <3>3. /\ DOMAIN new = DOMAIN old \cup {name} /\ new[name] = proof
          /\ \A y \in DOMAIN old : y # name => new[y] = old[y]
      BY DEF With
    <3>. QED
      BY <3>2, <3>3
  <2>5. activity.store = [open |-> Leaves[file.source.text] \ DOMAIN file.source.fills, lets |-> old]
    BY <2>1 DEF interpret
  <2>6. store = [open |-> file.store.open, lets |-> new] /\ store = interpret(source)
    <3>1. store = [activity.store EXCEPT !.lets = new]
      BY <2>5 DEF register_proof, proof
    <3>2. file.store.open = Leaves[file.source.text] \ DOMAIN file.source.fills
      BY <2>1, <2>5
    <3>. HIDE DEF new, store
    <3>. QED
      BY <2>5, <3>1, <3>2 DEF interpret
  <2>7. file' = Module(file.path, source)
    <3>. DEFINE f == [file EXCEPT !.store = store]
                g == [file.source EXCEPT !.lets = new]
    <3>. HIDE DEF store
    <3>1. file' = [f EXCEPT !.source = edited]
      BY <1>3
    <3>2. edited = g
      BY DEF register_proof, proof
    <3>. HIDE DEF new, edited
    <3>3. g = source
      BY ONLY <2>2 DEF source
    <3>4. f = [path |-> file.path, source |-> file.source, store |-> store]
      BY ONLY <2>2
    <3>. HIDE DEF g, f, source
    <3>. QED
      BY ONLY <2>6, <3>1, <3>2, <3>3, <3>4 DEF Module
  <2>8. source \in Source /\ source.lets = new /\ source.fills = file.source.fills
        /\ source.text = file.source.text
    BY <2>2, <2>4 DEF Source
  <2>9. SoundSource(source)
    <3>1. \A other \in DOMAIN new : IsRun(new[other], FALSE)
      BY <2>1, <2>3, <2>4 DEF SoundSource
    <3>. HIDE DEF new, source
    <3>. QED
      BY <2>1, <2>8, <3>1 DEF SoundSource
  <2>. HIDE DEF store, new, source
  <2>10. /\ SoundFile(file') /\ file' # None /\ file'.source = source
         /\ file'.store = store
    BY <2>2, <2>6, <2>7, <2>9, ModuleIsSound
  <2>11. SoundActivity(activity', file', backward)
    <3>1. activity' = [kind |-> activity.kind, hole |-> activity.hole, trail |-> activity.trail,
                       at |-> activity.at, target |-> activity.target,
                       parallel |-> activity.parallel, store |-> store]
      BY <1>3, <2>1, EngineFields
    <3>2. /\ activity'.kind = activity.kind /\ activity'.hole = activity.hole
          /\ activity'.trail = activity.trail /\ activity'.at = activity.at
          /\ activity'.target = activity.target /\ activity'.store = store
      BY <3>1
    <3>3. store \in Store /\ store.open = file.store.open
      <4>1. file.store \in Store
        BY <2>1 DEF File
      <4>. QED
        BY <2>4, <2>6, <4>1 DEF Store
    <3>4. activity' \in Activity
      BY <2>1, <3>1, <3>3, EngineFields DEF Activity, Engines
    <3>. QED
      BY <2>1, <2>10, <3>2, <3>3, <3>4 DEF SoundActivity, Engines
  <2>12. Grows(old, new)
    BY <1>3, <2>1, <2>4, <2>5 DEF Grows
  <2>13. Edited
    BY <1>3, <2>8, <2>10, <2>12, GrowsItself DEF Edited
  <2>14. Command
    BY <1>1, <2>13 DEF Command
  <2>. QED
    BY <1>3, <2>10, <2>11, <2>14, CommandInv DEF IInv
<1>. QED
  BY <1>1, <1>2, <1>3

----------------------------------------------------------------------------
(* Loads, and what leaves the session alone                                *)

\* A text as it is written: nothing filled, nothing defined.
LEMMA WrittenIsSound ==
    ASSUME NEW text \in Text
    PROVE  SoundSource(Written(text))
<1>1. <<>> \in Fills /\ <<>> \in Lets /\ DOMAIN <<>> = {}
  <2>1. \A S : <<>> \in [{} -> S]
    OBVIOUS
  <2>. QED
    BY <2>1 DEF Fills, Lets
<1>2. Written(text) \in Source
  BY <1>1 DEF Written, Source
<1>. QED
  BY <1>1, <1>2 DEF Written, SoundSource

LEMMA LoadInv ==
    ASSUME IInv, NEW path \in Path \cup {Memory}, NEW source, SoundSource(source),
           NEW memory \in BOOLEAN, load(path, source, memory)
    PROVE  IInv' /\ Loads
<1>1. /\ Loads
      /\ begun' = 0 /\ backward' = FALSE
      /\ file' = Module(path, source) \/ file' = None
      /\ UNCHANGED outside
  BY DEF load, Loads
<1>2. SoundNumbers'
  BY <1>1 DEF IInv, SoundNumbers, Loads
<1>3. SoundDisk'
  BY <1>1 DEF IInv, SoundDisk, outside
<1>4. file' # None => SoundFile(file')
  BY <1>1, ModuleIsSound
<1>5. SoundActivity(activity', file', backward')
  BY <1>1, IdleIsSound DEF Loads
<1>. QED
  BY <1>1, <1>2, <1>3, <1>4, <1>5 DEF IInv

LEMMA OpenInv ==
    ASSUME IInv, NEW path \in Path, open(path)
    PROVE  IInv' /\ Loads
<1>1. SoundSource(disk[path])
  BY DEF open, IInv, SoundDisk
<1>. QED
  BY <1>1, LoadInv DEF open

LEMMA OpenTextInv ==
    ASSUME IInv, NEW text \in Text, open_text(text)
    PROVE  IInv' /\ Loads
  BY WrittenIsSound, LoadInv DEF open_text

\* What changes the disk, or nothing.
LEMMA OutsideInv ==
    ASSUME IInv, UNCHANGED <<session, counters>>, SoundDisk'
    PROVE  IInv' /\ Idles
<1>1. /\ UNCHANGED <<file, activity, begun, backward>>
      /\ UNCHANGED <<revision, generation, module_revision>>
  BY DEF session, counters
<1>2. SoundNumbers'
  BY <1>1 DEF IInv, SoundNumbers
<1>. QED
  BY <1>1, <1>2 DEF IInv, Idles

LEMMA SaveInv ==
    ASSUME IInv, NEW path \in Path, save(path)
    PROVE  IInv' /\ Idles
<1>1. SoundSource(file.source) /\ disk' = [disk EXCEPT ![path] = file.source]
      /\ UNCHANGED <<session, counters>>
  BY DEF save, IInv, SoundFile
<1>2. SoundDisk'
  BY <1>1 DEF IInv, SoundDisk
<1>. QED
  BY <1>1, <1>2, OutsideInv

LEMMA DiskChangesInv ==
    ASSUME IInv, NEW path \in Path, NEW text \in Text \cup {None}, disk_changes(path, text)
    PROVE  IInv' /\ Idles
<1>1. /\ disk' = [disk EXCEPT ![path] = IF text = None THEN None ELSE Written(text)]
      /\ UNCHANGED <<session, counters>>
  BY DEF disk_changes
<1>2. SoundDisk'
  BY <1>1, WrittenIsSound DEF IInv, SoundDisk
<1>. QED
  BY <1>1, <1>2, OutsideInv

LEMMA RestInv ==
    ASSUME IInv, UNCHANGED <<session, counters, disk>>
    PROVE  IInv' /\ Idles
<1>1. SoundDisk'
  BY DEF IInv, SoundDisk
<1>. QED
  BY <1>1, OutsideInv

----------------------------------------------------------------------------
(* The invariant and what follows                                          *)

LEMMA InitInv ==
    ASSUME Init
    PROVE  IInv
<1>1. SoundDisk
  BY WrittenIsSound DEF Init, SoundDisk
<1>2. SoundNumbers
  BY DEF Init, SoundNumbers
<1>. QED
  BY <1>1, <1>2, IdleIsSound DEF Init, IInv

\* Every step keeps the invariant, and is idle, a load or a command.
LEMMA NextInv ==
    ASSUME IInv, [Next]_vars
    PROVE  IInv' /\ (Idles \/ Loads \/ Command)
<1>1. CASE UNCHANGED vars \/ answer_reply \/ refusal \/ dependencies_change
  BY <1>1, RestInv DEF vars, outside, answer_reply, refusal, dependencies_change
<1>2. ASSUME NEW path \in Path, open(path) \/ save(path)
      PROVE  IInv' /\ (Idles \/ Loads)
  BY <1>2, OpenInv, SaveInv
<1>3. ASSUME NEW text \in Text, open_text(text)
      PROVE  IInv' /\ Loads
  BY <1>3, OpenTextInv
<1>4. CASE load_again
  BY <1>4, OpenInv DEF load_again
<1>5. ASSUME NEW initial \in Diagram, NEW target \in Diagram \cup {None}, start(initial, target)
      PROVE  IInv' /\ Command
  BY <1>5, StartInv
<1>6. ASSUME NEW name \in Name, NEW target \in Diagram \cup {None}, resume(name, target)
      PROVE  IInv' /\ Command
  BY <1>6, ResumeInv
<1>7. ASSUME NEW index \in 0 .. Cardinality(Hole) - 1, begin_fill(index)
      PROVE  IInv' /\ Command
  BY <1>7, BeginFillInv
<1>8. CASE stop
  BY <1>8, StopInv
<1>9. ASSUME NEW on \in BOOLEAN, set_backward(on) \/ set_parallel(on)
      PROVE  IInv' /\ Command
  BY <1>9, SetBackwardInv, SetParallelInv
<1>10. ASSUME NEW next \in Diagram \cup Cell, apply_choice(next)
       PROVE  IInv' /\ Command
  BY <1>10, ApplyChoiceInv
<1>11. ASSUME NEW next \in Diagram, apply_choices(next)
       PROVE  IInv' /\ Command
  BY <1>11, ApplyChoicesInv
<1>12. ASSUME NEW new \in Runs, NEW random \in BOOLEAN, engine_auto(new, random)
       PROVE  IInv' /\ Command
  BY <1>12, EngineAutoInv
<1>13. ASSUME NEW to \in -1 .. MaxSteps + 1, NEW redo \in BOOLEAN, travel(to, redo)
       PROVE  IInv' /\ Command
  BY <1>13, TravelInv
<1>14. CASE finalize_fill
  BY <1>14, FinalizeFillInv
<1>15. ASSUME NEW name \in Name, store_proof(name)
       PROVE  IInv' /\ Command
  BY <1>15, StoreProofInv
<1>16. ASSUME NEW path \in Path, NEW text \in Text \cup {None}, disk_changes(path, text)
       PROVE  IInv' /\ Idles
  BY <1>16, DiskChangesInv
<1>. QED
  BY <1>1, <1>2, <1>3, <1>4, <1>5, <1>6, <1>7, <1>8, <1>9, <1>10, <1>11, <1>12, <1>13, <1>14,
     <1>15, <1>16 DEF Next

\* Histories run as their sessions go, fills are of holes that wait for nothing,
\* fillers and definitions are runs of the map, and the store is the source's.
THEOREM Inductive == Spec => []IInv
<1>1. Init => IInv
  BY InitInv
<1>2. IInv /\ [Next]_vars => IInv'
  BY NextInv
<1>. QED
  BY <1>1, <1>2, PTL DEF Spec

\* The store holds what the source defines, and the session works on it.
THEOREM StoreIsTheSources == Spec => []StoreIsWhatTheSourceSays
<1>1. IInv => StoreIsWhatTheSourceSays
  BY DEF IInv, SoundFile, SoundActivity, StoreIsWhatTheSourceSays, Engine
<1>. QED
  BY <1>1, Inductive, PTL

\* The hole being filled is open, and those its boundary mentions are not.
THEOREM FillsAreOfOpenHoles == Spec => []FillIsOfAnOpenHole
<1>1. IInv => FillIsOfAnOpenHole
  BY DEF IInv, SoundActivity, FillIsOfAnOpenHole
<1>. QED
  BY <1>1, Inductive, PTL

\* Holes are filled by proofs from their input to their output.
THEOREM FillersAreProofs == Spec => []FillersHaveTheBoundary
<1>1. IInv => FillersHaveTheBoundary
  BY DEF IInv, SoundFile, SoundSource, IsFiller, FillersHaveTheBoundary
<1>. QED
  BY <1>1, Inductive, PTL

\* No fill and no stored proof is lost while the module stays loaded.
THEOREM NothingIsLost == Spec => EditsSurvive
<1>1. ASSUME IInv, [Next]_vars, file # None, generation' = generation
      PROVE  /\ file' # None
             /\ file'.source.text = file.source.text
             /\ Grows(file.source.fills, file'.source.fills)
             /\ Grows(file.source.lets, file'.source.lets)
  <2>1. CASE UNCHANGED file
    BY <1>1, <2>1, GrowsItself
  <2>2. CASE Loads
    BY <1>1, <2>2 DEF Loads, IInv, SoundNumbers
  <2>3. CASE Edited
    BY <2>3 DEF Edited
  <2>. QED
    BY <1>1, <2>1, <2>2, <2>3, NextInv DEF Idles, Command, Refused, Acted, session
<1>2. IInv /\ [Next]_vars => [file # None /\ generation' = generation =>
           /\ file' # None
           /\ file'.source.text = file.source.text
           /\ Grows(file.source.fills, file'.source.fills)
           /\ Grows(file.source.lets, file'.source.lets)]_vars
  BY <1>1
<1>. QED
  BY <1>2, Inductive, PTL DEF Spec, EditsSurvive

\* A command knows its error before it assigns anything, and so leaves session and
\* module as they were when it is refused: the lemma of each command shows it.
THEOREM RefusalsUndo == Spec => RefusedIsUndone
<1>1. ASSUME IInv, [Next]_vars, revision' # revision, reply'.status = "error",
             generation' = generation
      PROVE  UNCHANGED session
  <2>1. CASE Idles
    BY <1>1, <2>1 DEF Idles, counters
  <2>2. CASE Loads
    BY <1>1, <2>2 DEF Loads, IInv, SoundNumbers
  <2>3. CASE Command
    BY <1>1, <2>3 DEF Command, Refused, Acted, Edited
  <2>. QED
    BY <1>1, <2>1, <2>2, <2>3, NextInv
<1>2. IInv /\ [Next]_vars =>
          [revision' # revision /\ reply'.status = "error" /\ generation' = generation =>
               UNCHANGED session]_vars
  BY <1>1
<1>. QED
  BY <1>2, Inductive, PTL DEF Spec, RefusedIsUndone

----------------------------------------------------------------------------
(* The clock                                                               *)

\* With a module loaded there is something to show.
LEMMA ImageOfAModule == IInv => (StateImage = None <=> file = None)
<1>. SUFFICES ASSUME IInv
              PROVE  StateImage = None <=> file = None
  OBVIOUS
<1>1. CASE file = None
  BY <1>1 DEF StateImage
<1>2. CASE file # None
  <2>1. /\ file.path \in Path \cup {Memory} /\ backward \in BOOLEAN /\ activity \in Activity
        /\ begun \in Nat
    BY <1>2 DEF IInv, SoundFile, File, SoundActivity
  <2>. DEFINE number == IF Active THEN begun ELSE 0
  <2>2. number \in Nat
    BY <2>1
  <2>. HIDE DEF number
  <2>3. StateImage = [path |-> file.path, backward |-> backward, activity |-> activity,
                      number |-> number]
    BY <1>2 DEF StateImage, number
  <2>4. StateImage \in [path : Path \cup {Memory}, backward : BOOLEAN, activity : Activity,
                        number : Nat]
    BY <2>1, <2>2, <2>3
  <2>. QED
    BY <1>2, <2>4, KernelAssumption
<1>. QED
  BY <1>1, <1>2

LEMMA ImageRests ==
    ASSUME UNCHANGED session
    PROVE  StateImage' = StateImage /\ file' = file
  BY DEF session, StateImage, Active

\* The kernel implements its clock: whatever a page can show has a revision.
THEOREM KeepsTheClock == Spec => ImplementsClock
<1>1. Init => Clock!Init
  BY DEF Init, Clock!Init, StateImage
<1>0. IInv' => (StateImage = None <=> file = None)'
  BY ImageOfAModule, PTL
<1>2. ASSUME IInv, IInv', [Next]_vars
      PROVE  [Clock!Next]_(Clock!clock)
  <2>1. CASE Idles
    BY <2>1, ImageRests DEF Idles, counters, Clock!clock
  <2>2. (StateImage = None <=> file = None) /\ (StateImage' = None <=> file' = None)
    BY <1>0, <1>2, ImageOfAModule
  <2>3. CASE Loads
    BY <2>2, <2>3 DEF Loads, Clock!Next, Clock!Load, Clock!Tick
  <2>4. CASE Counts /\ Refused
    BY <2>2, <2>4, ImageRests DEF Counts, Refused, Clock!Next, Clock!Act, Clock!Tick
  <2>5. CASE Counts /\ Acted
    BY <2>2, <2>5 DEF Counts, Acted, Clock!Next, Clock!Act, Clock!Tick
  <2>6. CASE Counts /\ Edited
    BY <2>2, <2>6 DEF Counts, Edited, Clock!Next, Clock!Edit, Clock!Tick
  <2>. QED
    BY <1>2, <2>1, <2>3, <2>4, <2>5, <2>6, NextInv DEF Command
<1>. QED
  BY <1>1, <1>2, Inductive, PTL DEF Spec, ImplementsClock, Clock!Spec
=============================================================================
