---------------------------- MODULE Loader_proofs ----------------------------
(***************************************************************************)
(* What holds of Loader for every disk, every set of programs and any      *)
(* number of edits between two reads.                                      *)
(*                                                                         *)
(* DependenciesFirst and CyclesAreReal speak of the modules that are done; *)
(* what makes them inductive is what holds of those under way: the files   *)
(* met are those that are done and those on the stack, each once           *)
(* (UnderWay), and a call has resolved every include it is past (Past).    *)
(***************************************************************************)
EXTENDS Loader, WellFoundedInduction, TLAPS

Frame == [file : File, program : Program, todo : SUBSET Nat, search : Seq(Dir)]

Typed ==
    /\ text \in [{Canonical[file] : file \in File} -> Text]
    /\ edits \in Nat
    /\ stack \in Seq(Frame)
    /\ \A i \in DOMAIN stack : stack[i].todo \subseteq collect_includes(stack[i].program)
    /\ visited \subseteq {Canonical[file] : file \in File}
    /\ \A file \in DOMAIN modules : modules[file] \in Program
    /\ dep_order \in Seq(File)
    /\ resolutions \in [DOMAIN resolutions -> DOMAIN modules]

Phased ==
    /\ phase \in {"idle", "resolving", "resolved", "failed"}
    /\ phase = "idle" =>
           /\ stack = <<>> /\ visited = {}
           /\ modules = <<>> /\ dep_order = <<>> /\ resolutions = <<>>
    /\ phase \in {"resolving", "resolved"} => Len(stack) > 0
    /\ phase = "resolved" => stack[1].todo = {}
    /\ phase # "failed" => failure = None

UnderWay ==
    /\ visited = DOMAIN modules \cup {stack[i].file : i \in DOMAIN stack}
    /\ \A i \in DOMAIN stack : stack[i].file \notin DOMAIN modules
    /\ \A i, j \in DOMAIN stack : i # j => stack[i].file # stack[j].file

\* A call has resolved the includes it is past.
Past ==
    \A i \in DOMAIN stack : \A k \in collect_includes(stack[i].program) \ stack[i].todo :
        <<stack[i].file, stack[i].program[k].name>> \in DOMAIN resolutions

\* A call below another waits for what it found by the name it is including.
Waiting ==
    \A i \in 1 .. (Len(stack) - 1) :
        /\ stack[i].todo # {}
        /\ edits = 0 => find_file(stack[i].search, next_include(stack[i])) = stack[i + 1].file

\* A call searches the directory of its file first, and then its same-named one.
LooksNear(search, file) ==
    /\ Len(search) >= 1 /\ search[1] = file[1]
    /\ file \in DOMAIN Subdir => Len(search) >= 2 /\ search[2] = Subdir[file]

Searching == \A i \in DOMAIN stack : LooksNear(stack[i].search, stack[i].file)

Ordered ==
    /\ DOMAIN modules = ToSet(dep_order)
    /\ \A i, j \in DOMAIN dep_order : i # j => dep_order[i] # dep_order[j]
    /\ \A j \in DOMAIN dep_order : IncludesComeBefore(dep_order[j], modules[dep_order[j]], j)

IInv ==
    /\ Typed
    /\ Phased
    /\ UnderWay
    /\ Past
    /\ Waiting
    /\ Searching
    /\ Ordered
    /\ CyclesAreReal
    /\ OwnFirst

----------------------------------------------------------------------------
(* Positions and sequences                                                 *)

Less == OpToRel(<, Nat)

LEMMA LessIs == \A i, j \in Nat : <<i, j>> \in Less <=> i < j
  BY DEF Less, OpToRel

LEMMA LessIsWellFounded == IsWellFoundedOn(Less, Nat)
  BY NatLessThanWellFounded DEF Less

\* The first of some positions is one of them.
LEMMA LeastIsIn ==
    ASSUME NEW S \in SUBSET Nat, S # {}
    PROVE  least(S) \in S /\ \A j \in S : least(S) =< j
<1>1. PICK i \in S : \A j \in S : ~(<<j, i>> \in Less)
  BY LessIsWellFounded, WFMin
<1>2. ASSUME NEW j \in S PROVE i =< j
  <2>1. i \in Nat /\ j \in Nat
    OBVIOUS
  <2>2. ~(j < i)
    BY <2>1, <1>1, <1>2, LessIs, Zenon
  <2>. QED
    BY <2>1, <2>2
<1>. QED
  BY <1>2 DEF least

\* A prefix.
LEMMA PrefixOf ==
    ASSUME NEW S, NEW s \in Seq(S), NEW n \in 0 .. Len(s)
    PROVE  /\ SubSeq(s, 1, n) \in Seq(S) /\ Len(SubSeq(s, 1, n)) = n
           /\ \A i \in 1 .. n : SubSeq(s, 1, n)[i] = s[i]
  OBVIOUS

LEMMA BelowTheTop ==
    ASSUME NEW n \in Nat, NEW i \in 1 .. n, NEW j \in i .. n, j # n
    PROVE  j \in 1 .. (n - 1) /\ j + 1 \in 1 .. n
  OBVIOUS

\* Leaving out the last element.
LEMMA FrontOf ==
    ASSUME NEW S, NEW s \in Seq(S), Len(s) > 0
    PROVE  /\ Front(s) \in Seq(S) /\ Len(Front(s)) = Len(s) - 1
           /\ \A i \in 1 .. (Len(s) - 1) : Front(s)[i] = s[i]
<1>1. Len(s) - 1 \in 0 .. Len(s)
  OBVIOUS
<1>. QED
  BY ONLY <1>1, PrefixOf, s \in Seq(S) DEF Front

\* Replacing the last element.
LEMMA ReplaceLast ==
    ASSUME NEW S, NEW s \in Seq(S), Len(s) > 0, NEW e \in S
    PROVE  /\ Append(Front(s), e) \in Seq(S)
           /\ Len(Append(Front(s), e)) = Len(s)
           /\ \A i \in 1 .. (Len(s) - 1) : Append(Front(s), e)[i] = s[i]
           /\ Append(Front(s), e)[Len(s)] = e
  BY FrontOf

\* Leaving out the last element and replacing the one before.
LEMMA ReplaceBelowLast ==
    ASSUME NEW S, NEW s \in Seq(S), NEW n \in Nat, n > 0, Len(s) = n + 1, NEW e \in S
    PROVE  /\ Last(Front(s)) = s[n]
           /\ Append(Front(Front(s)), e) = [i \in 1 .. n |-> IF i < n THEN s[i] ELSE e]
<1>1. Front(s) \in Seq(S) /\ Len(Front(s)) = n /\ \A i \in 1 .. n : Front(s)[i] = s[i]
  <2>1. Len(s) > 0 /\ Len(s) - 1 = n
    OBVIOUS
  <2>. QED
    BY <2>1, FrontOf
<1>. DEFINE r == Append(Front(Front(s)), e)
<1>2. /\ r \in Seq(S) /\ Len(r) = n
      /\ \A i \in 1 .. (n - 1) : r[i] = Front(s)[i]
      /\ r[n] = e
  BY <1>1, ReplaceLast
<1>. HIDE DEF r
<1>3. r \in [1 .. n -> S]
  BY <1>2
<1>4. \A i \in 1 .. n : r[i] = IF i < n THEN s[i] ELSE e
  BY <1>1, <1>2
<1>5. r = [i \in 1 .. n |-> IF i < n THEN s[i] ELSE e]
  BY <1>3, <1>4
<1>. QED
  BY <1>1, <1>5 DEF Last, r

----------------------------------------------------------------------------
(* The operators of the walk                                               *)

\* What a search finds is the canonical name of a file that is there.
LEMMA FoundIsAFile ==
    ASSUME NEW search \in Seq(Dir), NEW name \in Name, find_file(search, name) # None
    PROVE  find_file(search, name) \in {Canonical[file] : file \in File}
<1>. DEFINE there == {i \in DOMAIN search : text[Canonical[<<search[i], name>>]] # Missing}
<1>1. there # {}
  BY DEF find_file
<1>2. least(there) \in there
  <2>1. there \in SUBSET Nat
    OBVIOUS
  <2>. HIDE DEF there
  <2>. QED
    BY <1>1, <2>1, LeastIsIn
<1>3. <<search[least(there)], name>> \in File
  BY <1>2 DEF File
<1>. QED
  BY <1>1, <1>3 DEF find_file

\* A search finds a module's own before any other.
LEMMA OwnFound ==
    ASSUME NEW search \in Seq(Dir), NEW name, NEW file, LooksNear(search, file)
    PROVE  IsItsOwn(file, name, find_file(search, name))
<1>. DEFINE there == {i \in DOMAIN search : text[Canonical[<<search[i], name>>]] # Missing}
<1>1. there \in SUBSET Nat /\ \A i \in there : i >= 1
  OBVIOUS
<1>2. CASE text[Canonical[<<file[1], name>>]] # Missing
  <2>1. 1 \in there
    BY <1>2 DEF LooksNear
  <2>2. least(there) = 1
    <3>. HIDE DEF there
    <3>1. least(there) \in there /\ least(there) =< 1
      BY <1>1, <2>1, LeastIsIn
    <3>2. least(there) \in Nat /\ least(there) >= 1
      BY <1>1, <3>1, Zenon
    <3>. QED
      BY <3>1, <3>2
  <2>. QED
    BY <1>2, <2>1, <2>2 DEF LooksNear, IsItsOwn, find_file
<1>3. CASE /\ text[Canonical[<<file[1], name>>]] = Missing
           /\ file \in DOMAIN Subdir
           /\ text[Canonical[<<Subdir[file], name>>]] # Missing
  <2>1. 1 \notin there /\ 2 \in there
    BY <1>3 DEF LooksNear
  <2>2. least(there) = 2
    <3>. HIDE DEF there
    <3>1. least(there) \in there /\ least(there) =< 2
      BY <1>1, <2>1, LeastIsIn
    <3>2. least(there) \in Nat /\ least(there) >= 1 /\ least(there) # 1
      BY <1>1, <2>1, <3>1, Zenon
    <3>. QED
      BY <3>1, <3>2
  <2>. QED
    BY <1>3, <2>1, <2>2 DEF LooksNear, IsItsOwn, find_file
<1>. QED
  BY <1>2, <1>3 DEF IsItsOwn

\* A call starts with all the includes of its program to do.
LEMMA FrameIs ==
    ASSUME NEW search \in Seq(Dir), NEW file \in File, text[file] \in Program
    PROVE  /\ frame(search, file) \in Frame
           /\ frame(search, file).file = file
           /\ frame(search, file).program = text[file]
           /\ frame(search, file).todo = collect_includes(text[file])
           /\ LooksNear(frame(search, file).search, file)
<1>1. collect_includes(text[file]) \in SUBSET Nat
  BY LoaderAssumption DEF collect_includes
<1>2. file[1] \in Dir
  BY DEF File
<1>3. with_parent_dir(search, file) \in Seq(Dir)
  BY <1>2, LoaderAssumption DEF with_parent_dir
<1>4. LooksNear(with_parent_dir(search, file), file)
  BY <1>2, LoaderAssumption DEF with_parent_dir, LooksNear
<1>. QED
  BY <1>1, <1>3, <1>4 DEF frame, Frame

\* Going on to the next include only takes one off what is left to do.
LEMMA AdvanceIs ==
    ASSUME NEW parent \in Frame, parent.todo # {},
           parent.todo \subseteq collect_includes(parent.program)
    PROVE  /\ advance(parent) \in Frame
           /\ advance(parent).file = parent.file
           /\ advance(parent).program = parent.program
           /\ advance(parent).search = parent.search
           /\ advance(parent).todo = parent.todo \ {least(parent.todo)}
           /\ least(parent.todo) \in parent.todo
           /\ next_include(parent) \in Name
<1>1. least(parent.todo) \in parent.todo
  BY LeastIsIn DEF Frame
<1>2. next_include(parent) \in Name
  BY <1>1, LoaderAssumption DEF next_include, collect_includes, Frame
<1>. QED
  BY <1>1, <1>2 DEF advance, Frame

\* What is registered is a module that is done.
LEMMA RegisterTyped ==
    ASSUME NEW parent, NEW Done, resolutions \in [DOMAIN resolutions -> Done], NEW file \in Done
    PROVE  register_resolution(parent, file) \in [DOMAIN register_resolution(parent, file) -> Done]
  BY DEF register_resolution

----------------------------------------------------------------------------
(* Each operation                                                          *)

LEMMA InitInv == Init => IInv
<1>. SUFFICES ASSUME Init PROVE IInv
  OBVIOUS
<1>. USE DEF Init, Start
<1>1. Typed
  BY DEF Typed
<1>2. Phased
  BY DEF Phased
<1>3. UnderWay /\ Past /\ Waiting /\ Searching
  BY DEF UnderWay, Past, Waiting, Searching
<1>4. Ordered
  BY DEF Ordered, ToSet
<1>5. CyclesAreReal /\ OwnFirst
  BY DEF CyclesAreReal, OwnFirst
<1>. QED
  BY <1>1, <1>2, <1>3, <1>4, <1>5 DEF IInv

\* A failure leaves the walk as it is.
LEMMA FailKeeps ==
    ASSUME IInv, NEW kind, NEW file, fail(kind, file)
    PROVE  /\ Typed' /\ Phased' /\ UnderWay' /\ Past' /\ Waiting' /\ Searching'
           /\ Ordered' /\ OwnFirst'
<1>. USE DEF IInv, fail, walk
<1>1. Typed'
  BY DEF Typed
<1>2. Phased'
  BY DEF Phased
<1>3. UnderWay' /\ Past' /\ Searching'
  BY DEF UnderWay, Past, Searching
<1>4. Waiting'
  BY DEF Waiting, find_file
<1>5. Ordered'
  BY DEF Ordered, IncludesComeBefore
<1>6. OwnFirst'
  BY DEF OwnFirst, IsItsOwn
<1>. QED
  BY <1>1, <1>2, <1>3, <1>4, <1>5, <1>6

LEMMA FailInv ==
    ASSUME IInv, NEW kind, NEW file, fail(kind, file), kind # "cycle"
    PROVE  IInv'
<1>1. CyclesAreReal'
  BY DEF CyclesAreReal, fail
<1>. QED
  BY <1>1, FailKeeps DEF IInv

\* An edit disturbs what was found by a name, and nothing that was read.
LEMMA EditInv ==
    ASSUME IInv, NEW file \in DOMAIN text, NEW said \in Text, edit(file, said)
    PROVE  IInv'
<1>. USE DEF IInv, edit, walk
<1>1. edits \in Nat /\ edits' # 0
  BY DEF Typed
<1>2. Typed'
  BY DEF Typed
<1>3. Phased'
  BY DEF Phased
<1>4. UnderWay' /\ Past' /\ Searching'
  BY DEF UnderWay, Past, Searching
<1>5. Waiting'
  BY <1>1 DEF Waiting
<1>6. Ordered'
  BY DEF Ordered, IncludesComeBefore
<1>7. CyclesAreReal' /\ OwnFirst'
  BY <1>1 DEF CyclesAreReal, OwnFirst
<1>. QED
  BY <1>2, <1>3, <1>4, <1>5, <1>6, <1>7

\* The root is met, and its call is the only one.
LEMMA LoadInv ==
    ASSUME IInv, load
    PROVE  IInv'
<1>. DEFINE root == Canonical[Root]
<1>1. CASE text[root] \in {Missing, Unreadable} /\ fail("load", Root)
  BY <1>1, FailInv
<1>2. CASE text[root] = Broken /\ fail("parse", root)
  BY <1>2, FailInv
<1>3. CASE /\ text[root] \in Program
           /\ phase' = "resolving"
           /\ stack' = <<frame(Base, root)>>
           /\ visited' = {root}
           /\ UNCHANGED <<text, edits, failure, modules, dep_order, resolutions>>
  <2>. USE <1>3
  <2>1. /\ phase = "idle" /\ failure = None
        /\ modules = <<>> /\ dep_order = <<>> /\ resolutions = <<>>
    BY DEF load, IInv, Phased
  <2>2. root \in File /\ root \in {Canonical[file] : file \in File}
    BY LoaderAssumption
  <2>3. /\ frame(Base, root) \in Frame
        /\ frame(Base, root).file = root
        /\ frame(Base, root).program = text[root]
        /\ frame(Base, root).todo = collect_includes(text[root])
        /\ LooksNear(frame(Base, root).search, root)
    BY <2>2, FrameIs, LoaderAssumption
  <2>4. /\ stack' \in Seq(Frame) /\ Len(stack') = 1 /\ DOMAIN stack' = {1}
        /\ stack'[1] = frame(Base, root)
    BY <2>3
  <2>5. Typed'
    BY <2>1, <2>2, <2>3, <2>4 DEF Typed, IInv
  <2>6. Phased'
    BY <2>1, <2>4 DEF Phased
  <2>7. UnderWay'
    BY <2>1, <2>3, <2>4 DEF UnderWay
  <2>8. Past'
    BY <2>3, <2>4 DEF Past
  <2>9. Waiting' /\ Searching'
    BY <2>3, <2>4 DEF Waiting, Searching
  <2>10. Ordered'
    BY <2>1 DEF Ordered, ToSet
  <2>11. CyclesAreReal' /\ OwnFirst'
    BY <2>1 DEF CyclesAreReal, OwnFirst
  <2>. QED
    BY <2>5, <2>6, <2>7, <2>8, <2>9, <2>10, <2>11 DEF IInv
<1>. QED
  BY <1>1, <1>2, <1>3 DEF load

\* The call on top of the stack, and what it includes next.
LEMMA OnTop ==
    ASSUME IInv, phase = "resolving"
    PROVE  /\ Len(stack) \in Nat /\ Len(stack) > 0 /\ DOMAIN stack = 1 .. Len(stack)
           /\ Parent = stack[Len(stack)] /\ Parent \in Frame
           /\ Parent.todo \subseteq collect_includes(Parent.program)
           /\ failure = None
  BY DEF IInv, Typed, Phased, Parent, Last

\* A cycle goes up the stack from the file that was met to the include of it.
LEMMA CyclicInv ==
    ASSUME IInv, cyclic
    PROVE  IInv'
<1>. USE DEF cyclic, Including
<1>0. Len(stack) \in Nat /\ DOMAIN stack = 1 .. Len(stack)
  BY OnTop
<1>1. PICK i \in DOMAIN stack : stack[i].file = Found
  BY DEF IInv, UnderWay, has_module
<1>2. \A j \in i .. Len(stack) :
          edits = 0 => find_file(stack[j].search, next_include(stack[j])) =
                           IF j = Len(stack) THEN Found ELSE stack[j + 1].file
  <2>1. ASSUME NEW j \in i .. Len(stack), edits = 0, j = Len(stack)
        PROVE  find_file(stack[j].search, next_include(stack[j])) = Found
    BY <2>1, OnTop DEF Found
  <2>2. ASSUME NEW j \in i .. Len(stack), edits = 0, j # Len(stack)
        PROVE  find_file(stack[j].search, next_include(stack[j])) = stack[j + 1].file
    <3>1. j \in 1 .. (Len(stack) - 1)
      BY <1>0, <2>2, BelowTheTop
    <3>. QED
      BY <2>2, <3>1 DEF IInv, Waiting
  <2>. QED
    BY <2>1, <2>2
<1>3. failure' = [kind |-> "cycle", file |-> Found] /\ UNCHANGED <<text, edits, stack>>
  BY DEF fail, walk
<1>4. CyclesAreReal'
  <2>1. i \in DOMAIN stack' /\ stack'[i].file = failure'.file
    BY <1>1, <1>3
  <2>2. edits' = 0 => \A j \in i .. Len(stack') :
            find_file(stack[j].search, next_include(stack[j]))' =
                           IF j = Len(stack') THEN failure'.file ELSE stack'[j + 1].file
    <3>1. \A j : find_file(stack[j].search, next_include(stack[j]))' =
                     find_file(stack[j].search, next_include(stack[j]))
      BY <1>3 DEF find_file, next_include
    <3>2. Len(stack') = Len(stack) /\ failure'.file = Found
      BY <1>3
    <3>. QED
      BY <1>2, <1>3, <3>1, <3>2
  <2>. QED
    BY <2>1, <2>2 DEF CyclesAreReal
<1>. QED
  BY <1>4, FailKeeps DEF IInv

\* The call at n goes on to its next include, which it was to make or was
\* waiting for, and the calls above it are over.
Advances(n, found) ==
    /\ stack' \in Seq(Frame) /\ Len(stack') = n
    /\ \A i \in 1 .. (n - 1) : stack'[i] = stack[i]
    /\ stack'[n] = advance(stack[n])
    /\ resolutions' = register_resolution(stack[n], found)
    /\ UNCHANGED <<text, edits, phase, failure, visited>>

\* What the call that goes on is past is resolved, what it was at included.
LEMMA AdvanceKeeps ==
    ASSUME IInv, phase = "resolving", NEW n \in 1 .. Len(stack), stack[n].todo # {},
           NEW found, Advances(n, found),
           edits = 0 => found = find_file(stack[n].search, next_include(stack[n]))
    PROVE  /\ \A i \in DOMAIN stack' : i \in DOMAIN stack /\ stack'[i].file = stack[i].file
           /\ \A i \in DOMAIN stack' : stack'[i].todo \subseteq collect_includes(stack'[i].program)
           /\ Past' /\ Waiting' /\ Searching' /\ OwnFirst'
           /\ DOMAIN resolutions \subseteq DOMAIN resolutions'
           /\ \A file, name : file # stack[n].file /\ <<file, name>> \in DOMAIN resolutions =>
                  resolutions'[<<file, name>>] = resolutions[<<file, name>>]
<1>. DEFINE parent == stack[n]
            at == <<parent.file, next_include(parent)>>
<1>1. /\ n \in Nat /\ Len(stack) \in Nat /\ DOMAIN stack = 1 .. Len(stack)
      /\ DOMAIN stack' = 1 .. n
      /\ n \in DOMAIN stack /\ parent \in Frame
      /\ parent.todo \subseteq collect_includes(parent.program)
  BY DEF IInv, Typed, Advances
<1>2. /\ stack'[n].file = parent.file /\ stack'[n].program = parent.program
      /\ stack'[n].search = parent.search
      /\ stack'[n].todo = parent.todo \ {least(parent.todo)}
      /\ least(parent.todo) \in parent.todo
  BY <1>1, AdvanceIs DEF Advances
<1>3. \A i \in DOMAIN stack' : i \in DOMAIN stack /\ (i = n \/ i \in 1 .. (n - 1))
  BY <1>1
<1>4. \A i \in DOMAIN stack' : i \in DOMAIN stack /\ stack'[i].file = stack[i].file
  BY <1>2, <1>3 DEF Advances
<1>5. \A i \in DOMAIN stack' : stack'[i].todo \subseteq collect_includes(stack'[i].program)
  <2>1. \A i \in DOMAIN stack : stack[i].todo \subseteq collect_includes(stack[i].program)
    BY DEF IInv, Typed
  <2>. QED
    BY <1>1, <1>2, <1>3, <2>1 DEF Advances
<1>6. /\ DOMAIN resolutions' = DOMAIN resolutions \cup {at}
      /\ \A pair \in DOMAIN resolutions : pair # at => resolutions'[pair] = resolutions[pair]
  <2>1. resolutions' = register_resolution(parent, found)
    BY DEF Advances
  <2>. QED
    BY <2>1, Zenon DEF register_resolution
<1>7. Past'
  <2>1. SUFFICES ASSUME NEW i \in DOMAIN stack',
                        NEW k \in collect_includes(stack'[i].program) \ stack'[i].todo
                 PROVE  <<stack'[i].file, stack'[i].program[k].name>> \in DOMAIN resolutions'
    BY DEF Past
  <2>2. CASE i # n
    <3>1. stack'[i] = stack[i] /\ i \in DOMAIN stack
      BY <1>3, <2>2 DEF Advances
    <3>. QED
      BY <3>1, <1>6 DEF IInv, Past
  <2>3. CASE i = n /\ k = least(parent.todo)
    BY <2>3, <1>2, <1>6 DEF next_include
  <2>4. CASE i = n /\ k # least(parent.todo)
    <3>1. k \in collect_includes(parent.program) \ parent.todo
      BY <2>4, <1>2
    <3>2. <<parent.file, parent.program[k].name>> \in DOMAIN resolutions
      BY <3>1, <1>1 DEF IInv, Past
    <3>. QED
      BY <2>4, <3>2, <1>2, <1>6
  <2>. QED
    BY <2>2, <2>3, <2>4
<1>8. Waiting'
  <2>1. SUFFICES ASSUME NEW i \in 1 .. (n - 1)
                 PROVE  /\ stack'[i].todo # {}
                        /\ edits' = 0 =>
                               find_file(stack[i].search, next_include(stack[i]))' =
                                   stack'[i + 1].file
    BY DEF Waiting, Advances
  <2>2. /\ i \in 1 .. (Len(stack) - 1) /\ i + 1 \in DOMAIN stack'
        /\ stack'[i] = stack[i]
    BY <1>1 DEF Advances
  <2>3. stack'[i + 1].file = stack[i + 1].file
    BY <2>2, <1>4
  <2>4. /\ stack[i].todo # {}
        /\ edits = 0 => find_file(stack[i].search, next_include(stack[i])) = stack[i + 1].file
    BY <2>2 DEF IInv, Waiting
  <2>5. edits' = edits /\ text' = text
    BY DEF Advances
  <2>6. find_file(stack[i].search, next_include(stack[i]))' =
            find_file(stack[i].search, next_include(stack[i]))
    BY <2>2, <2>5 DEF find_file, next_include
  <2>. QED
    BY <2>2, <2>3, <2>4, <2>5, <2>6
<1>9. \A file, name : file # stack[n].file => <<file, name>> # at
  OBVIOUS
<1>10. Searching'
  <2>1. \A i \in DOMAIN stack' : stack'[i].search = stack[i].search
    BY <1>2, <1>3 DEF Advances
  <2>. QED
    BY <1>4, <2>1 DEF IInv, Searching
<1>11. OwnFirst'
  <2>1. SUFFICES ASSUME edits = 0, NEW pair \in DOMAIN resolutions'
                 PROVE  IsItsOwn(pair[1], pair[2], resolutions'[pair])
    BY DEF Advances, OwnFirst, IsItsOwn
  <2>2. CASE pair = at
    <3>1. resolutions'[at] = find_file(parent.search, next_include(parent))
      <4>1. resolutions' = register_resolution(parent, found)
        BY DEF Advances
      <4>2. resolutions'[at] = found
        BY <4>1, Zenon DEF register_resolution
      <4>. QED
        BY <2>1, <4>2
    <3>2. parent.search \in Seq(Dir) /\ LooksNear(parent.search, parent.file)
      BY <1>1 DEF IInv, Searching, Frame
    <3>3. IsItsOwn(parent.file, next_include(parent),
                   find_file(parent.search, next_include(parent)))
      BY <3>2, OwnFound
    <3>. QED
      BY <2>2, <3>1, <3>3
  <2>3. CASE pair # at
    BY <1>6, <2>1, <2>3 DEF IInv, OwnFirst
  <2>. QED
    BY <2>2, <2>3
<1>. QED
  BY <1>4, <1>5, <1>6, <1>7, <1>8, <1>9, <1>10, <1>11

\* The include of a module that is done.
LEMMA AlreadyResolvedAdvances ==
    ASSUME IInv, already_resolved
    PROVE  Advances(Len(stack), Found)
<1>. DEFINE n == Len(stack)
<1>1. /\ phase = "resolving" /\ stack[n].todo # {}
      /\ UNCHANGED <<text, edits, phase, failure, visited>>
  BY DEF already_resolved, Including, Last
<1>2. n \in 1 .. Len(stack) /\ Parent = stack[n] /\ stack[n] \in Frame
  BY <1>1, OnTop
<1>3. advance(stack[n]) \in Frame
  BY <1>1, <1>2, OnTop, AdvanceIs
<1>4. stack' = Append(Front(stack), advance(stack[n]))
  BY <1>2 DEF already_resolved
<1>5. resolutions' = register_resolution(stack[n], Found)
  BY <1>2 DEF already_resolved
<1>6. stack \in Seq(Frame) /\ Len(stack) > 0
  BY <1>2 DEF IInv, Typed
<1>. QED
  BY <1>1, <1>3, <1>4, <1>5, <1>6, ReplaceLast DEF Advances

LEMMA AlreadyResolvedInv ==
    ASSUME IInv, already_resolved
    PROVE  IInv'
<1>. DEFINE n == Len(stack)
<1>1. /\ phase = "resolving" /\ stack[n].todo # {} /\ Found \in DOMAIN modules
      /\ UNCHANGED <<text, edits, phase, failure, visited, modules, dep_order>>
  BY DEF already_resolved, Including, Last, has_module
<1>2. n \in 1 .. Len(stack) /\ Parent = stack[n] /\ stack[n] \in Frame
  BY <1>1, OnTop
<1>3. advance(stack[n]) \in Frame
  BY <1>1, <1>2, OnTop, AdvanceIs
<1>4. Advances(n, Found)
  BY AlreadyResolvedAdvances
<1>5. /\ \A i \in DOMAIN stack' : i \in DOMAIN stack /\ stack'[i].file = stack[i].file
      /\ \A i \in DOMAIN stack' : stack'[i].todo \subseteq collect_includes(stack'[i].program)
      /\ Past' /\ Waiting' /\ Searching' /\ OwnFirst'
      /\ DOMAIN resolutions \subseteq DOMAIN resolutions'
      /\ \A file, name : file # stack[n].file /\ <<file, name>> \in DOMAIN resolutions =>
             resolutions'[<<file, name>>] = resolutions[<<file, name>>]
  BY <1>1, <1>2, <1>4, AdvanceKeeps DEF Found
<1>6. Len(stack') = Len(stack) /\ DOMAIN stack' = DOMAIN stack /\ stack' \in Seq(Frame)
  BY <1>4 DEF Advances, IInv, Typed
<1>7. resolutions' \in [DOMAIN resolutions' -> DOMAIN modules']
  BY <1>1, <1>4, RegisterTyped DEF Advances, IInv, Typed
<1>8. Typed'
  BY <1>1, <1>5, <1>6, <1>7 DEF Typed, IInv
<1>9. Phased'
  BY <1>1, <1>2, <1>6 DEF Phased, IInv
<1>10. UnderWay'
  BY <1>1, <1>5, <1>6 DEF UnderWay, IInv
<1>11. Ordered'
  <2>1. \A file \in DOMAIN modules : file # stack[n].file
    BY <1>2 DEF IInv, UnderWay
  <2>. QED
    BY <1>1, <1>5, <2>1 DEF Ordered, IncludesComeBefore, IInv, ToSet
<1>12. CyclesAreReal'
  BY <1>1, OnTop DEF CyclesAreReal
<1>. QED
  BY <1>5, <1>8, <1>9, <1>10, <1>11, <1>12 DEF IInv

\* A file that is met for the first time has its call put on the stack.
LEMMA DescendInv ==
    ASSUME IInv, descend
    PROVE  IInv'
<1>. DEFINE n == Len(stack)
            call == frame(Parent.search, Found)
<1>1. /\ phase = "resolving" /\ Parent.todo # {} /\ Found # None
      /\ Found \notin visited /\ text[Found] \in Program
      /\ visited' = visited \cup {Found}
      /\ stack' = Append(stack, call)
      /\ UNCHANGED <<text, edits, phase, failure, modules, dep_order, resolutions>>
  BY DEF descend, Including, Readable, Parent
<1>2. /\ n \in Nat /\ n > 0 /\ DOMAIN stack = 1 .. n /\ stack \in Seq(Frame)
      /\ Parent = stack[n] /\ Parent \in Frame /\ failure = None
      /\ Parent.todo \subseteq collect_includes(Parent.program)
  BY <1>1, OnTop DEF IInv, Typed
<1>3. Parent.search \in Seq(Dir) /\ next_include(Parent) \in Name
  BY <1>1, <1>2, AdvanceIs DEF Frame
<1>4. Found \in {Canonical[file] : file \in File} /\ Found \in File
  BY <1>1, <1>3, FoundIsAFile, LoaderAssumption DEF Found
<1>5. /\ call \in Frame /\ call.file = Found
      /\ call.todo = collect_includes(call.program)
      /\ LooksNear(call.search, call.file)
  BY <1>1, <1>3, <1>4, FrameIs
<1>. HIDE DEF call
<1>6. /\ stack' \in Seq(Frame) /\ Len(stack') = n + 1 /\ DOMAIN stack' = 1 .. (n + 1)
      /\ \A i \in 1 .. n : stack'[i] = stack[i]
      /\ stack'[n + 1] = call
  BY <1>1, <1>2, <1>5
<1>7. \A i \in DOMAIN stack' : i = n + 1 \/ (i \in 1 .. n /\ i \in DOMAIN stack)
  BY <1>2, <1>6
<1>8. Typed'
  <2>1. \A i \in DOMAIN stack' : stack'[i].todo \subseteq collect_includes(stack'[i].program)
    BY <1>5, <1>6, <1>7 DEF IInv, Typed
  <2>2. visited' \subseteq {Canonical[file] : file \in File}
    BY <1>1, <1>4 DEF IInv, Typed
  <2>. QED
    BY <1>1, <1>6, <2>1, <2>2 DEF IInv, Typed
<1>9. Phased'
  BY <1>1, <1>2, <1>6 DEF IInv, Phased
<1>10. UnderWay'
  <2>1. visited = DOMAIN modules \cup {stack[i].file : i \in DOMAIN stack}
    BY DEF IInv, UnderWay
  <2>2. \A i \in DOMAIN stack : stack[i].file # Found
    BY <1>1, <2>1
  <2>3. {stack'[i].file : i \in DOMAIN stack'} = {stack[i].file : i \in DOMAIN stack} \cup {Found}
    BY <1>2, <1>5, <1>6, <1>7
  <2>4. \A i \in DOMAIN stack' : stack'[i].file \notin DOMAIN modules'
    BY <1>1, <1>5, <1>6, <1>7, <2>1 DEF IInv, UnderWay
  <2>5. \A i, j \in DOMAIN stack' : i # j => stack'[i].file # stack'[j].file
    BY <1>5, <1>6, <1>7, <2>2 DEF IInv, UnderWay
  <2>. QED
    BY <1>1, <2>1, <2>3, <2>4, <2>5 DEF UnderWay
<1>11. Past'
  <2>1. SUFFICES ASSUME NEW i \in DOMAIN stack',
                        NEW k \in collect_includes(stack'[i].program) \ stack'[i].todo
                 PROVE  <<stack'[i].file, stack'[i].program[k].name>> \in DOMAIN resolutions
    BY <1>1 DEF Past
  <2>2. i # n + 1
    BY <1>5, <1>6
  <2>3. i \in DOMAIN stack /\ stack'[i] = stack[i]
    BY <1>6, <1>7, <2>2
  <2>. QED
    BY <2>3 DEF IInv, Past
<1>12. Waiting'
  <2>1. SUFFICES ASSUME NEW i \in 1 .. n
                 PROVE  /\ stack'[i].todo # {}
                        /\ edits' = 0 =>
                               find_file(stack[i].search, next_include(stack[i]))' =
                                   stack'[i + 1].file
    BY <1>2, <1>6 DEF Waiting
  <2>2. stack'[i] = stack[i] /\ edits' = edits
    BY <1>1, <1>6
  <2>3. find_file(stack[i].search, next_include(stack[i]))' =
            find_file(stack[i].search, next_include(stack[i]))
    BY <1>1, <2>2 DEF find_file, next_include
  <2>4. CASE i = n
    BY <1>1, <1>2, <1>5, <1>6, <2>2, <2>3, <2>4 DEF Found
  <2>5. CASE i # n
    <3>1. i \in 1 .. (n - 1) /\ i + 1 \in 1 .. n
      <4>1. i \in i .. n
        BY <1>2
      <4>. HIDE DEF n
      <4>. QED
        BY <4>1, <1>2, <2>5, BelowTheTop
    <3>. QED
      BY <1>6, <2>2, <2>3, <3>1 DEF IInv, Waiting
  <2>. QED
    BY <2>4, <2>5
<1>13. Ordered'
  BY <1>1 DEF IInv, Ordered, IncludesComeBefore
<1>14. CyclesAreReal' /\ OwnFirst'
  BY <1>1, <1>2 DEF CyclesAreReal, IInv, OwnFirst, IsItsOwn
<1>15. Searching'
  BY <1>5, <1>6, <1>7 DEF IInv, Searching
<1>. QED
  BY <1>8, <1>9, <1>10, <1>11, <1>12, <1>13, <1>14, <1>15 DEF IInv

\* The root's call ends: what is left is to go through the order.
LEMMA ResolvedInv ==
    ASSUME IInv, resolved
    PROVE  IInv'
<1>. USE DEF resolved, walk
<1>1. Typed'
  BY DEF IInv, Typed
<1>2. Phased'
  BY OnTop DEF IInv, Phased
<1>3. UnderWay' /\ Past' /\ Searching'
  BY DEF IInv, UnderWay, Past, Searching
<1>4. Waiting'
  BY DEF IInv, Waiting, find_file, next_include
<1>5. Ordered'
  BY DEF IInv, Ordered, IncludesComeBefore
<1>6. CyclesAreReal' /\ OwnFirst'
  BY OnTop DEF CyclesAreReal, IInv, OwnFirst, IsItsOwn
<1>. QED
  BY <1>1, <1>2, <1>3, <1>4, <1>5, <1>6 DEF IInv

\* When a call is over, the call below goes on with what it is waiting for.
LEMMA AscendAdvances ==
    ASSUME IInv, ascend
    PROVE  /\ Len(stack) - 1 \in 1 .. Len(stack)
           /\ stack[Len(stack) - 1].todo # {}
           /\ Advances(Len(stack) - 1, stack[Len(stack)].file)
<1>. DEFINE n == Len(stack) - 1
            child == stack[Len(stack)]
            below == stack[n]
<1>1. /\ phase = "resolving" /\ Len(stack) > 1
      /\ UNCHANGED <<text, edits, phase, failure, visited>>
  BY DEF ascend
<1>2. /\ n \in Nat /\ n > 0 /\ Len(stack) = n + 1 /\ DOMAIN stack = 1 .. (n + 1)
      /\ n \in 1 .. Len(stack) /\ n \in DOMAIN stack /\ n + 1 \in DOMAIN stack
      /\ stack \in Seq(Frame) /\ Parent = child /\ failure = None
      /\ child \in Frame /\ below \in Frame
  BY <1>1, OnTop DEF IInv, Typed
<1>3. Last(Front(stack)) = below
  <2>. HIDE DEF n
  <2>. QED
    BY <1>2, ReplaceBelowLast
<1>4. /\ resolutions' = register_resolution(below, child.file)
      /\ stack' = Append(Front(Front(stack)), advance(below))
  BY <1>2, <1>3 DEF ascend
<1>5. below.todo # {} /\ below.todo \subseteq collect_includes(below.program)
  BY <1>2 DEF IInv, Waiting, Typed
<1>6. advance(below) \in Frame
  BY <1>2, <1>5, AdvanceIs
<1>7. Advances(n, child.file)
  <2>. HIDE DEF n, below, child
  <2>1. /\ stack' \in Seq(Frame) /\ Len(stack') = n
        /\ \A i \in 1 .. (n - 1) : stack'[i] = stack[i]
        /\ stack'[n] = advance(below)
    <3>1. stack \in Seq(Frame) /\ n \in Nat /\ n > 0 /\ Len(stack) = n + 1
      BY <1>2
    <3>2. stack' = Append(Front(Front(stack)), advance(below))
      BY <1>4
    <3>3. stack' = [i \in 1 .. n |-> IF i < n THEN stack[i] ELSE advance(below)]
      BY <3>1, <3>2, <1>6, ReplaceBelowLast
    <3>4. \A i \in 1 .. n : stack[i] \in Frame
      BY <3>1
    <3>. QED
      BY <3>1, <1>6, <3>3, <3>4
  <2>2. below = stack[n]
    BY DEF below
  <2>. QED
    BY <1>1, <1>4, <2>1, <2>2 DEF Advances
<1>. QED
  BY <1>2, <1>5, <1>7

\* A call that is over: its module is done, and the call below goes on.
LEMMA AscendInv ==
    ASSUME IInv, ascend
    PROVE  IInv'
<1>. DEFINE n == Len(stack) - 1
            child == stack[Len(stack)]
            below == stack[n]
            m == Len(dep_order)
<1>1. /\ phase = "resolving" /\ Len(stack) > 1
      /\ UNCHANGED <<text, edits, phase, failure, visited>>
  BY DEF ascend
<1>2. /\ n \in Nat /\ n > 0 /\ Len(stack) = n + 1 /\ DOMAIN stack = 1 .. (n + 1)
      /\ n \in 1 .. Len(stack) /\ n \in DOMAIN stack /\ n + 1 \in DOMAIN stack
      /\ stack \in Seq(Frame) /\ Parent = child /\ failure = None
      /\ child \in Frame /\ below \in Frame
      /\ m \in Nat /\ dep_order \in Seq(File) /\ DOMAIN dep_order = 1 .. m
  BY <1>1, OnTop DEF IInv, Typed
<1>3. Last(Front(stack)) = below
  <2>. HIDE DEF n
  <2>. QED
    BY <1>2, ReplaceBelowLast
<1>4. /\ child.todo = {}
      /\ modules' = [file \in DOMAIN modules \cup {child.file} |->
                        IF file = child.file THEN child.program ELSE modules[file]]
      /\ dep_order' = Append(dep_order, child.file)
      /\ resolutions' = register_resolution(below, child.file)
      /\ stack' = Append(Front(Front(stack)), advance(below))
  BY <1>2, <1>3 DEF ascend
<1>5. below.todo # {} /\ below.todo \subseteq collect_includes(below.program)
  BY <1>2 DEF IInv, Waiting, Typed
<1>7. Advances(n, child.file)
  BY AscendAdvances
<1>8. /\ \A i \in DOMAIN stack' : i \in DOMAIN stack /\ stack'[i].file = stack[i].file
      /\ \A i \in DOMAIN stack' : stack'[i].todo \subseteq collect_includes(stack'[i].program)
      /\ Past' /\ Waiting' /\ Searching' /\ OwnFirst'
      /\ DOMAIN resolutions \subseteq DOMAIN resolutions'
      /\ \A file, name : file # below.file /\ <<file, name>> \in DOMAIN resolutions =>
             resolutions'[<<file, name>>] = resolutions[<<file, name>>]
  <2>1. edits = 0 => child.file = find_file(below.search, next_include(below))
    BY <1>2 DEF IInv, Waiting
  <2>. QED
    BY <1>1, <1>2, <1>5, <1>7, <2>1, AdvanceKeeps
<1>9. stack' \in Seq(Frame) /\ Len(stack') = n /\ DOMAIN stack' = 1 .. n
  BY <1>2, <1>7 DEF Advances
<1>. HIDE DEF n, m, child, below
<1>10. /\ child.file \notin DOMAIN modules /\ child.file # below.file
       /\ below.file \notin DOMAIN modules
       /\ child.file \in visited
       /\ visited = DOMAIN modules \cup {stack[i].file : i \in DOMAIN stack}
  <2>1. n # n + 1
    BY <1>2
  <2>. QED
    BY <1>2, <2>1 DEF IInv, UnderWay, child, below
<1>11. /\ DOMAIN modules' = DOMAIN modules \cup {child.file}
       /\ modules'[child.file] = child.program
       /\ \A file \in DOMAIN modules : modules'[file] = modules[file]
  BY <1>4, <1>10
<1>12. child.file \in File /\ child.program \in Program
  BY <1>2 DEF Frame
<1>13. /\ dep_order' \in Seq(File) /\ Len(dep_order') = m + 1
       /\ DOMAIN dep_order' = 1 .. (m + 1)
       /\ \A i \in 1 .. m : dep_order'[i] = dep_order[i]
       /\ dep_order'[m + 1] = child.file
  BY <1>2, <1>4, <1>12 DEF m
<1>14. Typed'
  <2>1. resolutions \in [DOMAIN resolutions -> DOMAIN modules']
    BY <1>11 DEF IInv, Typed
  <2>2. resolutions' \in [DOMAIN resolutions' -> DOMAIN modules']
    BY <1>4, <1>11, <2>1, RegisterTyped
  <2>3. \A file \in DOMAIN modules' : modules'[file] \in Program
    BY <1>11, <1>12 DEF IInv, Typed
  <2>. QED
    BY <1>1, <1>8, <1>9, <1>13, <2>2, <2>3 DEF IInv, Typed
<1>15. Phased'
  BY <1>1, <1>2, <1>9 DEF IInv, Phased
<1>16. UnderWay'
  <2>1. \A i \in DOMAIN stack : i = n + 1 \/ i \in DOMAIN stack'
    BY <1>2, <1>9
  <2>2. child.file = stack[n + 1].file
    BY <1>2 DEF child
  <2>3. {stack[i].file : i \in DOMAIN stack} = {stack'[i].file : i \in DOMAIN stack'} \cup {child.file}
    BY <1>2, <1>8, <2>1, <2>2
  <2>4. n + 1 \notin DOMAIN stack'
    BY <1>2, <1>9
  <2>5. \A i \in DOMAIN stack' : stack'[i].file \notin DOMAIN modules'
    BY <1>2, <1>8, <1>11, <2>2, <2>4 DEF IInv, UnderWay
  <2>6. \A i, j \in DOMAIN stack' : i # j => stack'[i].file # stack'[j].file
    BY <1>8 DEF IInv, UnderWay
  <2>. QED
    BY <1>1, <1>10, <1>11, <2>3, <2>5, <2>6 DEF UnderWay
<1>17. Ordered'
  <2>1. /\ DOMAIN modules = ToSet(dep_order)
        /\ \A i, j \in DOMAIN dep_order : i # j => dep_order[i] # dep_order[j]
        /\ \A j \in DOMAIN dep_order : IncludesComeBefore(dep_order[j], modules[dep_order[j]], j)
    BY DEF IInv, Ordered
  <2>2. \A i \in DOMAIN dep_order' : i = m + 1 \/ (i \in 1 .. m /\ i \in DOMAIN dep_order)
    BY <1>2, <1>13
  <2>3. \A i \in 1 .. m : i \in DOMAIN dep_order /\ i \in DOMAIN dep_order' /\ i # m + 1
    BY <1>2, <1>13
  <2>4. \A i \in 1 .. m : dep_order[i] \in DOMAIN modules
    BY <2>1, <2>3 DEF ToSet
  <2>5. DOMAIN modules' = ToSet(dep_order')
    <3>1. m + 1 \in DOMAIN dep_order'
      BY <1>2, <1>13
    <3>. QED
      BY <1>2, <1>11, <1>13, <2>1, <2>2, <2>3, <3>1 DEF ToSet
  <2>6. \A i, j \in DOMAIN dep_order' : i # j => dep_order'[i] # dep_order'[j]
    BY <1>10, <1>13, <2>1, <2>2, <2>4
  <2>7. ASSUME NEW j \in 1 .. m
        PROVE  IncludesComeBefore(dep_order[j], modules[dep_order[j]], j)'
    <3>1. dep_order'[j] = dep_order[j] /\ dep_order[j] # below.file
      BY <1>10, <1>13, <2>4
    <3>2. modules'[dep_order'[j]] = modules[dep_order[j]]
      BY <1>11, <2>4, <3>1
    <3>3. IncludesComeBefore(dep_order[j], modules[dep_order[j]], j)
      BY <2>1, <2>3
    <3>4. \A i \in 1 .. (j - 1) : dep_order'[i] = dep_order[i]
      BY <1>2, <1>13
    <3>. QED
      BY <1>8, <3>1, <3>2, <3>3, <3>4 DEF IncludesComeBefore
  <2>8. ASSUME NEW j, j = m + 1
        PROVE  IncludesComeBefore(dep_order[j], modules[dep_order[j]], j)'
    <3>1. dep_order'[j] = child.file /\ modules'[dep_order'[j]] = child.program
      BY <1>11, <1>13, <2>8
    <3>2. j - 1 = m
      BY <1>2, <2>8
    <3>3. ASSUME NEW k \in collect_includes(child.program)
          PROVE  /\ <<child.file, child.program[k].name>> \in DOMAIN resolutions'
                 /\ \E i \in 1 .. m : dep_order'[i] =
                        resolutions'[<<child.file, child.program[k].name>>]
      <4>1. <<child.file, child.program[k].name>> \in DOMAIN resolutions
        BY <1>2, <1>4 DEF IInv, Past, child
      <4>2. resolutions[<<child.file, child.program[k].name>>] \in ToSet(dep_order)
        BY <2>1, <4>1 DEF IInv, Typed
      <4>3. resolutions'[<<child.file, child.program[k].name>>] =
                resolutions[<<child.file, child.program[k].name>>]
        BY <1>8, <1>10, <4>1
      <4>4. PICK i \in 1 .. m : dep_order[i] = resolutions[<<child.file, child.program[k].name>>]
        BY <1>2, <4>2 DEF ToSet
      <4>. QED
        BY <1>8, <1>13, <4>1, <4>3, <4>4
    <3>. QED
      BY <3>1, <3>2, <3>3 DEF IncludesComeBefore
  <2>. QED
    BY <1>13, <2>2, <2>5, <2>6, <2>7, <2>8 DEF Ordered
<1>18. CyclesAreReal'
  BY <1>1, <1>2 DEF CyclesAreReal
<1>. QED
  BY <1>8, <1>14, <1>15, <1>16, <1>17, <1>18 DEF IInv

----------------------------------------------------------------------------
(* The specification                                                       *)

LEMMA ResolveInv == IInv /\ Resolve => IInv'
<1>. SUFFICES ASSUME IInv, Resolve PROVE IInv'
  OBVIOUS
<1>1. CASE load
  BY <1>1, LoadInv
<1>2. CASE not_found
  BY <1>2, FailInv DEF not_found
<1>3. CASE unreadable
  BY <1>3, FailInv DEF unreadable
<1>4. CASE already_resolved
  BY <1>4, AlreadyResolvedInv
<1>5. CASE cyclic
  BY <1>5, CyclicInv
<1>6. CASE unparsable
  BY <1>6, FailInv DEF unparsable
<1>7. CASE descend
  BY <1>7, DescendInv
<1>8. CASE ascend
  BY <1>8, AscendInv
<1>9. CASE resolved
  BY <1>9, ResolvedInv
<1>. QED
  BY <1>1, <1>2, <1>3, <1>4, <1>5, <1>6, <1>7, <1>8, <1>9 DEF Resolve

\* The interpreter's steps leave the walk alone.
LEMMA StutterInv ==
    ASSUME IInv, UNCHANGED loader
    PROVE  IInv'
<1>1. UNCHANGED <<text, edits, phase, failure, stack, visited, modules, dep_order,
                  resolutions>>
  BY DEF loader, walk
<1>2. Typed' /\ Phased'
  BY <1>1 DEF IInv, Typed, Phased
<1>3. UnderWay' /\ Past' /\ Searching'
  BY <1>1 DEF IInv, UnderWay, Past, Searching
<1>4. Waiting'
  BY <1>1 DEF IInv, Waiting, find_file, next_include
<1>5. Ordered'
  BY <1>1 DEF IInv, Ordered, IncludesComeBefore
<1>6. CyclesAreReal'
  <2>1. \A j : find_file(stack[j].search, next_include(stack[j]))' =
                   find_file(stack[j].search, next_include(stack[j]))
    BY <1>1 DEF find_file, next_include
  <2>. QED
    BY <1>1, <2>1 DEF IInv, CyclesAreReal
<1>7. OwnFirst'
  BY <1>1 DEF IInv, OwnFirst, IsItsOwn
<1>. QED
  BY <1>2, <1>3, <1>4, <1>5, <1>6, <1>7 DEF IInv

\* The inductive invariant holds of every walk, over every disk.
THEOREM Inductive == Spec => []IInv
<1>1. IInv /\ [Next]_loader => IInv'
  <2>. SUFFICES ASSUME IInv, [Next]_loader PROVE IInv'
    OBVIOUS
  <2>1. CASE Resolve
    BY <2>1, ResolveInv
  <2>2. ASSUME NEW file \in DOMAIN text, NEW said \in Text, edit(file, said)
        PROVE  IInv'
    BY <2>2, EditInv
  <2>3. CASE UNCHANGED loader
    BY <2>3, StutterInv
  <2>. QED
    BY <2>1, <2>2, <2>3 DEF Next
<1>. QED
  BY InitInv, <1>1, PTL DEF Spec

\* Every variable keeps its type: what the walk has met are files of the disk,
\* and a resolution names a module that is done.
THEOREM TypeCorrect == Spec => []TypeOK
<1>1. IInv => TypeOK
  <2>. SUFFICES ASSUME IInv PROVE TypeOK
    OBVIOUS
  <2>1. Typed
    BY DEF IInv
  <2>2. \A i \in DOMAIN stack : stack[i].program \in Program
    <3>1. stack \in Seq(Frame)
      BY <2>1 DEF Typed
    <3>2. \A i \in DOMAIN stack : stack[i] \in Frame
      BY <3>1
    <3>. QED
      BY <3>2 DEF Frame
  <2>3. \A i \in DOMAIN stack : stack[i].file \in visited
    BY DEF IInv, UnderWay
  <2>4. visited \subseteq DOMAIN text
    BY <2>1 DEF Typed
  <2>. QED
    BY <2>1, <2>2, <2>3, <2>4 DEF TypeOK, Typed
<1>. QED
  BY <1>1, Inductive, PTL

\* Whatever the files say and whatever is edited between two reads, each module
\* comes once, after all it includes, and the root can come last.
THEOREM OrderCorrect == Spec => []DependenciesFirst
<1>1. IInv => DependenciesFirst
  <2>. SUFFICES ASSUME IInv PROVE DependenciesFirst
    OBVIOUS
  <2>. DEFINE root == stack[1]
  <2>1. ASSUME phase = "resolved"
        PROVE  IncludesComeBefore(root.file, root.program, Len(dep_order) + 1)
    <3>1. 1 \in DOMAIN stack /\ root.todo = {} /\ Len(dep_order) \in Nat
      BY <2>1 DEF IInv, Phased, Typed
    <3>2. ASSUME NEW k \in collect_includes(root.program)
          PROVE  /\ <<root.file, root.program[k].name>> \in DOMAIN resolutions
                 /\ \E i \in 1 .. Len(dep_order) :
                        dep_order[i] = resolutions[<<root.file, root.program[k].name>>]
      <4>1. <<root.file, root.program[k].name>> \in DOMAIN resolutions
        BY <3>1 DEF IInv, Past
      <4>2. resolutions[<<root.file, root.program[k].name>>] \in ToSet(dep_order)
        BY <4>1 DEF IInv, Typed, Ordered
      <4>3. DOMAIN dep_order = 1 .. Len(dep_order)
        BY DEF IInv, Typed
      <4>. QED
        BY <4>1, <4>2, <4>3 DEF ToSet
    <3>3. 1 .. Len(dep_order) = 1 .. ((Len(dep_order) + 1) - 1)
      BY <3>1
    <3>. QED
      BY <3>2, <3>3 DEF IncludesComeBefore
  <2>. QED
    BY <2>1 DEF DependenciesFirst, IInv, Ordered
<1>. QED
  BY <1>1, Inductive, PTL

\* The loader reports a cycle only for a file that is still under way and that
\* the calls above it lead back to.
THEOREM CyclesCorrect == Spec => []CyclesAreReal
<1>1. IInv => CyclesAreReal
  BY DEF IInv
<1>. QED
  BY <1>1, Inductive, PTL

\* A module that lies beside its includer is the one that is included, by
\* whatever way the walk came to the includer.
THEOREM OwnModulesFirst == Spec => []OwnFirst
<1>1. IInv => OwnFirst
  BY DEF IInv
<1>. QED
  BY <1>1, Inductive, PTL

============================================================================
