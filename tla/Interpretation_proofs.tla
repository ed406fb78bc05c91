------------------------ MODULE Interpretation_proofs ------------------------
(***************************************************************************)
(* What holds of every load, whatever the programs say and whatever is     *)
(* edited meanwhile.                                                       *)
(*                                                                         *)
(* Until the load is done the walk keeps the invariant of Loader_proofs,   *)
(* and a resolution is always of an include at the top level of a file     *)
(* (Registered), so that also an include that a for-block makes finds its  *)
(* module interpreted when it finds it at all.  What is interpreted so far *)
(* is in the store in full (Interpreted).                                  *)
(***************************************************************************)
EXTENDS Interpretation, Loader_proofs

Includes(program, name) == \E k \in collect_includes(program) : program[k].name = name

Registered ==
    \A file, name : <<file, name>> \in DOMAIN resolutions =>
        \/ \E i \in DOMAIN stack : stack[i].file = file /\ Includes(stack[i].program, name)
        \/ file \in DOMAIN modules /\ Includes(modules[file], name)

Walked ==
    /\ IInv
    /\ Registered
    /\ phase = "resolved" => Len(stack) = 1

\* What a module holds once its first n - 1 items are interpreted.
Filled(file, program, n) ==
    \A j \in DOMAIN program : j < n /\ program[j].kind \in {"include", "for"} =>
        /\ program[j].alias \in DOMAIN store[file]
        /\ store[file][program[j].alias] = resolutions[<<file, program[j].name>>]

ProgramOf(i) == IF i = Len(load_order) THEN stack[1].program ELSE modules[load_order[i]]

Interpreted ==
    /\ at \in 1 .. Len(load_order)
    /\ pc \in 0 .. (Len(ProgramOf(at)) + 1)
    /\ \A i \in 1 .. (at - 1) :
           /\ load_order[i] \in DOMAIN store
           /\ Filled(load_order[i], ProgramOf(i), Len(ProgramOf(i)) + 1)
    /\ pc > 0 => Current \in DOMAIN store
    /\ errors = {} => Filled(Current, ProgramOf(at), pc)

WholeInv ==
    /\ phase # "done" => Walked
    /\ phase \in {"idle", "resolving"} => at = 1 /\ pc = 0 /\ errors = {}
    /\ phase = "resolved" => Interpreted
    /\ IncludesAreReady
    /\ LoadedInFull

----------------------------------------------------------------------------
(* The walk registers includes at the top level, and no other              *)

\* A name that is included anywhere at the top level is one of those collected.
LEMMA CollectedOnce ==
    ASSUME NEW program \in Program, NEW i \in DOMAIN program, program[i].kind = "include"
    PROVE  Includes(program, program[i].name)
<1>. DEFINE there == {j \in DOMAIN program :
                         program[j].kind = "include" /\ program[j].name = program[i].name}
<1>1. there \in SUBSET Nat /\ there # {}
  BY LoaderAssumption
<1>2. least(there) \in there /\ \A j \in there : least(there) =< j
  <2>. HIDE DEF there
  <2>. QED
    BY <1>1, LeastIsIn
<1>3. \A j \in DOMAIN program :
          j < least(there) /\ program[j].kind = "include"
              => program[j].name # program[least(there)].name
  <2>. SUFFICES ASSUME NEW j \in there, j < least(there) PROVE FALSE
    BY <1>2
  <2>1. least(there) =< j /\ j \in Nat /\ least(there) \in Nat
    BY <1>1, <1>2
  <2>. QED
    BY <2>1
<1>4. least(there) \in collect_includes(program)
  BY <1>2, <1>3 DEF collect_includes
<1>. QED
  BY <1>2, <1>4 DEF Includes

\* When a call goes on, what it registers is an include of its program.
LEMMA AdvanceRegisters ==
    ASSUME IInv, phase = "resolving", NEW n \in 1 .. Len(stack), stack[n].todo # {},
           NEW found, Advances(n, found)
    PROVE  /\ DOMAIN stack' = 1 .. n /\ DOMAIN stack = 1 .. Len(stack) /\ Len(stack) \in Nat
           /\ \A i \in 1 .. n : /\ stack'[i].file = stack[i].file
                                /\ stack'[i].program = stack[i].program
           /\ \A file, name : <<file, name>> \in DOMAIN resolutions' =>
                  \/ <<file, name>> \in DOMAIN resolutions
                  \/ stack[n].file = file /\ Includes(stack[n].program, name)
<1>1. /\ Len(stack) \in Nat /\ DOMAIN stack = 1 .. Len(stack)
      /\ DOMAIN stack' = 1 .. n /\ stack[n] \in Frame
      /\ stack[n].todo \subseteq collect_includes(stack[n].program)
  BY DEF IInv, Typed, Advances
<1>2. /\ stack'[n].file = stack[n].file /\ stack'[n].program = stack[n].program
      /\ least(stack[n].todo) \in stack[n].todo
  BY <1>1, AdvanceIs DEF Advances
<1>3. \A i \in 1 .. n : i = n \/ i \in 1 .. (n - 1)
  BY <1>1
<1>4. DOMAIN resolutions' = DOMAIN resolutions \cup {<<stack[n].file, next_include(stack[n])>>}
  BY DEF Advances, register_resolution
<1>5. Includes(stack[n].program, next_include(stack[n]))
  BY <1>1, <1>2 DEF Includes, next_include
<1>. QED
  BY <1>1, <1>2, <1>3, <1>4, <1>5 DEF Advances

LEMMA AlreadyResolvedRegisters ==
    ASSUME IInv, Registered, already_resolved
    PROVE  Registered'
<1>. DEFINE n == Len(stack)
<1>1. phase = "resolving" /\ stack[n].todo # {} /\ modules' = modules
  BY DEF already_resolved, Including, Last
<1>2. n \in 1 .. Len(stack)
  BY <1>1, OnTop
<1>3. Advances(n, Found)
  BY AlreadyResolvedAdvances
<1>4. /\ DOMAIN stack' = 1 .. n /\ DOMAIN stack = 1 .. n
      /\ \A i \in 1 .. n : stack'[i].file = stack[i].file /\ stack'[i].program = stack[i].program
      /\ \A file, name : <<file, name>> \in DOMAIN resolutions' =>
             \/ <<file, name>> \in DOMAIN resolutions
             \/ stack[n].file = file /\ Includes(stack[n].program, name)
  BY <1>1, <1>2, <1>3, AdvanceRegisters
<1>. QED
  BY <1>1, <1>2, <1>4 DEF Registered

\* A call that is over takes its includes along to the modules that are done.
LEMMA AscendRegisters ==
    ASSUME IInv, Registered, ascend
    PROVE  Registered'
<1>. DEFINE n == Len(stack) - 1
            child == stack[n + 1]
<1>1. /\ phase = "resolving" /\ Len(stack) \in Nat /\ n \in Nat /\ n > 0
      /\ Len(stack) = n + 1 /\ DOMAIN stack = 1 .. (n + 1)
      /\ n \in 1 .. Len(stack) /\ Parent = child
  BY OnTop DEF ascend
<1>2. stack[n].todo # {} /\ Advances(n, child.file)
  BY <1>1, AscendAdvances
<1>3. modules' = [file \in DOMAIN modules \cup {child.file} |->
                     IF file = child.file THEN child.program ELSE modules[file]]
  BY <1>1 DEF ascend
<1>4. child.file \notin DOMAIN modules
  BY <1>1 DEF IInv, UnderWay
<1>. HIDE DEF n, child
<1>5. /\ DOMAIN modules' = DOMAIN modules \cup {child.file}
      /\ modules'[child.file] = child.program
      /\ \A file \in DOMAIN modules : modules'[file] = modules[file]
  BY <1>3, <1>4
<1>6. /\ DOMAIN stack' = 1 .. n
      /\ \A i \in 1 .. n : stack'[i].file = stack[i].file /\ stack'[i].program = stack[i].program
      /\ \A file, name : <<file, name>> \in DOMAIN resolutions' =>
             \/ <<file, name>> \in DOMAIN resolutions
             \/ stack[n].file = file /\ Includes(stack[n].program, name)
  BY <1>1, <1>2, AdvanceRegisters
<1>7. SUFFICES ASSUME NEW file, NEW name, <<file, name>> \in DOMAIN resolutions'
               PROVE  \/ \E i \in DOMAIN stack' :
                             stack'[i].file = file /\ Includes(stack'[i].program, name)
                      \/ file \in DOMAIN modules' /\ Includes(modules'[file], name)
  BY DEF Registered
<1>8. CASE \E i \in DOMAIN stack : stack[i].file = file /\ Includes(stack[i].program, name)
  <2>1. PICK i \in 1 .. (n + 1) : stack[i].file = file /\ Includes(stack[i].program, name)
    BY <1>1, <1>8
  <2>2. i = n + 1 \/ i \in 1 .. n
    BY <1>1
  <2>3. CASE i = n + 1
    BY <1>5, <2>1, <2>3 DEF child
  <2>4. CASE i \in 1 .. n
    BY <1>6, <2>1, <2>4
  <2>. QED
    BY <2>2, <2>3, <2>4
<1>9. CASE file \in DOMAIN modules /\ Includes(modules[file], name)
  BY <1>5, <1>9
<1>10. CASE stack[n].file = file /\ Includes(stack[n].program, name)
  BY <1>1, <1>8, <1>10
<1>. QED
  BY <1>6, <1>7, <1>8, <1>9, <1>10 DEF Registered

\* Each step of the walk registers only what is included, and the root is alone
\* on the stack when the walk ends.
LEMMA ResolveWalks ==
    ASSUME Walked, Resolve
    PROVE  Walked'
<1>1. IInv /\ Registered /\ IInv'
  BY ResolveInv DEF Walked
<1>2. phase' = "resolved" => Len(stack') = 1
  BY DEF Resolve, load, fail, walk, not_found, unreadable, already_resolved, cyclic, unparsable,
         descend, ascend, resolved, Including
<1>. SUFFICES Registered'
  BY <1>1, <1>2 DEF Walked
<1>3. ASSUME NEW kind, NEW file, fail(kind, file)
      PROVE  Registered'
  BY <1>1, <1>3 DEF fail, walk, Registered
<1>4. CASE load
  <2>1. CASE resolutions' = resolutions /\ resolutions = <<>>
    BY <2>1 DEF Registered
  <2>. QED
    BY <1>1, <1>3, <1>4, <2>1 DEF load, IInv, Phased
<1>5. CASE not_found \/ unreadable \/ cyclic \/ unparsable
  BY <1>3, <1>5 DEF not_found, unreadable, cyclic, unparsable
<1>6. CASE already_resolved
  BY <1>1, <1>6, AlreadyResolvedRegisters
<1>7. CASE descend
  <2>1. /\ stack' = Append(stack, frame(Parent.search, Found))
        /\ modules' = modules /\ resolutions' = resolutions
        /\ stack \in Seq(Frame)
    BY <1>1, <1>7 DEF descend, IInv, Typed
  <2>2. \A i \in DOMAIN stack : i \in DOMAIN stack' /\ stack'[i] = stack[i]
    BY <2>1
  <2>. QED
    BY <1>1, <2>1, <2>2 DEF Registered
<1>8. CASE ascend
  BY <1>1, <1>8, AscendRegisters
<1>9. CASE resolved
  BY <1>1, <1>9 DEF resolved, walk, Registered
<1>. QED
  BY <1>4, <1>5, <1>6, <1>7, <1>8, <1>9 DEF Resolve

----------------------------------------------------------------------------
(* The order of interpretation                                             *)

\* The modules that are done, each once, and then the root.
LEMMA LoadOrderIs ==
    ASSUME Walked, phase = "resolved"
    PROVE  /\ Len(dep_order) \in Nat
           /\ Len(load_order) = Len(dep_order) + 1
           /\ DOMAIN load_order = 1 .. (Len(dep_order) + 1)
           /\ \A i \in 1 .. Len(dep_order) :
                  load_order[i] = dep_order[i] /\ dep_order[i] \in DOMAIN modules
           /\ load_order[Len(dep_order) + 1] = stack[1].file
           /\ \A i, j \in DOMAIN load_order : i # j => load_order[i] # load_order[j]
           /\ \A i \in DOMAIN load_order : ProgramOf(i) \in Program
           /\ stack[1].file \notin DOMAIN modules
           /\ 1 \in DOMAIN stack /\ \A i \in DOMAIN stack : i = 1
<1>. DEFINE m == Len(dep_order)
<1>1. /\ dep_order \in Seq(File) /\ m \in Nat /\ DOMAIN dep_order = 1 .. m
      /\ stack \in Seq(Frame) /\ Len(stack) = 1 /\ DOMAIN stack = 1 .. 1
  BY DEF Walked, IInv, Typed
<1>2. 1 \in DOMAIN stack /\ stack[1] \in Frame /\ \A i \in DOMAIN stack : i = 1
  BY <1>1
<1>3. stack[1].file \in File /\ stack[1].program \in Program
  BY <1>2 DEF Frame
<1>4. stack[1].file \notin DOMAIN modules
  BY <1>2 DEF Walked, IInv, UnderWay
<1>5. /\ load_order \in Seq(File) /\ Len(load_order) = m + 1
      /\ DOMAIN load_order = 1 .. (m + 1)
      /\ \A i \in 1 .. m : load_order[i] = dep_order[i]
      /\ load_order[m + 1] = stack[1].file
  BY <1>1, <1>3 DEF load_order
<1>6. \A i \in 1 .. m : dep_order[i] \in DOMAIN modules
  BY <1>1 DEF Walked, IInv, Ordered, ToSet
<1>7. \A i, j \in 1 .. m : i # j => dep_order[i] # dep_order[j]
  BY <1>1 DEF Walked, IInv, Ordered
<1>8. \A i \in DOMAIN load_order : i = m + 1 \/ i \in 1 .. m
  BY <1>1, <1>5
<1>9. \A i, j \in DOMAIN load_order : i # j => load_order[i] # load_order[j]
  BY <1>4, <1>5, <1>6, <1>7, <1>8
<1>10. \A i \in DOMAIN load_order : ProgramOf(i) \in Program
  <2>1. \A file \in DOMAIN modules : modules[file] \in Program
    BY DEF Walked, IInv, Typed
  <2>2. \A i \in 1 .. m : i # m + 1
    BY <1>1
  <2>. QED
    BY <1>3, <1>5, <1>6, <1>8, <2>1, <2>2 DEF ProgramOf
<1>. QED
  BY <1>1, <1>2, <1>4, <1>5, <1>6, <1>9, <1>10

\* What a file means by a name, if anything, is interpreted before it.
LEMMA MeantComeBefore ==
    ASSUME Walked, phase = "resolved", NEW i \in DOMAIN load_order, NEW name,
           <<load_order[i], name>> \in DOMAIN resolutions
    PROVE  \E j \in 1 .. (i - 1) : load_order[j] = resolutions[<<load_order[i], name>>]
<1>. DEFINE file == load_order[i]
            m == Len(dep_order)
<1>1. /\ m \in Nat /\ DOMAIN load_order = 1 .. (m + 1) /\ Len(load_order) = m + 1
      /\ \A j \in 1 .. m : load_order[j] = dep_order[j] /\ dep_order[j] \in DOMAIN modules
      /\ load_order[m + 1] = stack[1].file
      /\ stack[1].file \notin DOMAIN modules
      /\ \A j \in DOMAIN stack : j = 1
  BY LoadOrderIs
<1>2. DOMAIN dep_order = 1 .. m /\ DOMAIN modules = ToSet(dep_order)
  BY DEF Walked, IInv, Typed, Ordered
<1>3. i = m + 1 \/ i \in 1 .. m
  BY <1>1
<1>4. CASE i = m + 1
  <2>1. resolutions[<<file, name>>] \in DOMAIN modules
    BY DEF Walked, IInv, Typed
  <2>2. PICK j \in 1 .. m : dep_order[j] = resolutions[<<file, name>>]
    BY <1>2, <2>1 DEF ToSet
  <2>3. m = i - 1
    BY <1>1, <1>4
  <2>. QED
    BY <1>1, <2>2, <2>3
<1>5. CASE i \in 1 .. m
  <2>1. file = dep_order[i] /\ file \in DOMAIN modules /\ file # stack[1].file
    BY <1>1, <1>5
  <2>2. Includes(modules[file], name)
    BY <1>1, <2>1 DEF Walked, Registered
  <2>3. IncludesComeBefore(dep_order[i], modules[dep_order[i]], i)
    BY <1>2, <1>5 DEF Walked, IInv, Ordered
  <2>4. PICK j \in 1 .. (i - 1) : dep_order[j] = resolutions[<<file, name>>]
    BY <2>1, <2>2, <2>3 DEF Includes, IncludesComeBefore
  <2>5. j \in 1 .. m
    BY <1>1, <1>5
  <2>. QED
    BY <1>1, <2>4, <2>5
<1>. QED
  BY <1>3, <1>4, <1>5

\* A file means something by each name that it includes at the top level.
LEMMA IncludedAreMeant ==
    ASSUME Walked, phase = "resolved", NEW i \in DOMAIN load_order,
           NEW k \in DOMAIN ProgramOf(i), ProgramOf(i)[k].kind = "include"
    PROVE  <<load_order[i], ProgramOf(i)[k].name>> \in DOMAIN resolutions
<1>. DEFINE m == Len(dep_order)
<1>1. /\ m \in Nat /\ DOMAIN load_order = 1 .. (m + 1) /\ Len(load_order) = m + 1
      /\ \A j \in 1 .. m : load_order[j] = dep_order[j]
      /\ load_order[m + 1] = stack[1].file
      /\ ProgramOf(i) \in Program
      /\ 1 \in DOMAIN stack
  BY LoadOrderIs
<1>2. PICK l \in collect_includes(ProgramOf(i)) : ProgramOf(i)[l].name = ProgramOf(i)[k].name
  BY <1>1, CollectedOnce DEF Includes
<1>3. i = m + 1 \/ i \in 1 .. m
  BY <1>1
<1>4. CASE i = m + 1
  <2>1. ProgramOf(i) = stack[1].program /\ load_order[i] = stack[1].file
    BY <1>1, <1>4 DEF ProgramOf
  <2>2. stack[1].todo = {}
    BY DEF Walked, IInv, Phased
  <2>. QED
    BY <1>1, <1>2, <2>1, <2>2 DEF Walked, IInv, Past
<1>5. CASE i \in 1 .. m
  <2>1. ProgramOf(i) = modules[dep_order[i]] /\ load_order[i] = dep_order[i]
    <3>1. i # m + 1
      BY <1>1, <1>5
    <3>. QED
      BY <1>1, <1>5, <3>1 DEF ProgramOf
  <2>2. i \in DOMAIN dep_order
    BY <1>5 DEF Walked, IInv, Typed
  <2>3. IncludesComeBefore(dep_order[i], modules[dep_order[i]], i)
    BY <2>2 DEF Walked, IInv, Ordered
  <2>. QED
    BY <1>2, <2>1, <2>3 DEF IncludesComeBefore
<1>. QED
  BY <1>3, <1>4, <1>5

----------------------------------------------------------------------------
(* Each step of the interpreter                                            *)

\* The walk stays as it was found resolved.
LEMMA WalkStays ==
    ASSUME Walked, UNCHANGED loader
    PROVE  /\ Walked'
           /\ load_order' = load_order
           /\ \A i : ProgramOf(i)' = ProgramOf(i)
<1>1. load_order' = load_order
  BY DEF loader, walk, load_order
<1>2. \A i : ProgramOf(i)' = ProgramOf(i)
  BY <1>1 DEF loader, walk, ProgramOf
<1>3. IInv'
  BY StutterInv DEF Walked
<1>4. Registered' /\ (phase' = "resolved" => Len(stack') = 1)
  BY DEF loader, walk, Walked, Registered
<1>. QED
  BY <1>1, <1>2, <1>3, <1>4 DEF Walked

\* What is to be shown of a step that goes on in the module it is in.
LEMMA GoesOn ==
    ASSUME WholeInv, phase = "resolved", UNCHANGED loader, Interpreted', IncludesAreReady'
    PROVE  WholeInv'
<1>1. phase' = "resolved"
  BY DEF loader
<1>2. Walked'
  BY WalkStays DEF WholeInv
<1>3. LoadedInFull'
  BY <1>1 DEF LoadedInFull
<1>. QED
  BY <1>1, <1>2, <1>3 DEF WholeInv

\* What a module holds stays when neither it nor what is resolved changes.
LEMMA FilledStays ==
    ASSUME NEW file, NEW program, NEW n, Filled(file, program, n),
           resolutions' = resolutions, store'[file] = store[file]
    PROVE  Filled(file, program, n)'
  BY DEF Filled

LEMMA InitializeInv ==
    ASSUME WholeInv, initialize_module_context
    PROVE  WholeInv'
<1>1. /\ phase = "resolved" /\ at =< Len(load_order) /\ pc = 0 /\ pc' = 1
      /\ UNCHANGED <<loader, at, errors>>
  BY DEF initialize_module_context
<1>2. Walked /\ Interpreted /\ resolutions' = resolutions
  BY <1>1 DEF WholeInv, loader, walk
<1>3. load_order' = load_order /\ \A i : ProgramOf(i)' = ProgramOf(i)
  BY <1>1, <1>2, WalkStays
<1>4. /\ DOMAIN load_order = 1 .. Len(load_order) /\ Len(load_order) \in Nat
      /\ at \in 1 .. Len(load_order) /\ at \in Nat
      /\ \A i, j \in DOMAIN load_order : i # j => load_order[i] # load_order[j]
      /\ ProgramOf(at) \in Program
  BY <1>1, <1>2, LoadOrderIs DEF Interpreted
<1>5. /\ Len(ProgramOf(at)) \in Nat
      /\ DOMAIN ProgramOf(at) = 1 .. Len(ProgramOf(at))
  BY <1>4, InterpretationAssumption
<1>6. \A i \in 1 .. (at - 1) : i \in DOMAIN load_order /\ load_order[i] # Current
  <2>1. \A i \in 1 .. (at - 1) : i \in DOMAIN load_order /\ at \in DOMAIN load_order /\ i # at
    BY <1>4
  <2>. QED
    BY <1>4, <2>1 DEF Current
<1>7. /\ \A i \in 1 .. (at - 1) :
             load_order[i] \in DOMAIN store' /\ store'[load_order[i]] = store[load_order[i]]
      /\ Current \in DOMAIN store'
  <2>1. \A i \in 1 .. (at - 1) : load_order[i] \in DOMAIN store
    BY <1>2 DEF Interpreted
  <2>2. CASE Current \in DOMAIN store
    BY <2>1, <2>2 DEF initialize_module_context
  <2>3. CASE Current \notin DOMAIN store
    <3>1. store' = [file \in DOMAIN store \cup {Current} |->
                        IF file = Current THEN <<>> ELSE store[file]]
      BY <2>3 DEF initialize_module_context
    <3>. QED
      BY <1>6, <2>1, <3>1
  <2>. QED
    BY <2>2, <2>3
<1>8. \A i \in 1 .. (at - 1) : Filled(load_order[i], ProgramOf(i), Len(ProgramOf(i)) + 1)'
  BY <1>1, <1>2, <1>3, <1>7 DEF Interpreted, Filled
<1>9. Filled(Current, ProgramOf(at), 1)'
  <2>1. \A j \in DOMAIN ProgramOf(at) : ~(j < 1)
    BY <1>5
  <2>. QED
    BY <1>1, <1>3, <2>1 DEF Filled
<1>10. Interpreted'
  <2>1. ProgramOf(at)' = ProgramOf(at) /\ Current' = Current
    BY <1>1, <1>3 DEF Current, ProgramOf
  <2>2. pc' \in 0 .. (Len(ProgramOf(at)) + 1)
    BY <1>1, <1>5
  <2>. QED
    BY <1>1, <1>3, <1>4, <1>7, <1>8, <1>9, <2>1, <2>2 DEF Interpreted
<1>11. IncludesAreReady'
  BY <1>1 DEF WholeInv, IncludesAreReady
<1>. QED
  BY <1>1, <1>10, <1>11, GoesOn

\* Where the interpreter is while an item is to be interpreted.
LEMMA AtAnItem ==
    ASSUME WholeInv, NEW kind, Interpreting(kind)
    PROVE  /\ phase = "resolved" /\ Walked /\ Interpreted
           /\ at \in DOMAIN load_order /\ at \in Nat /\ Len(load_order) \in Nat
           /\ DOMAIN load_order = 1 .. Len(load_order)
           /\ pc \in Nat /\ pc > 0
           /\ pc + 1 \in 0 .. (Len(ProgramOf(at)) + 1)
           /\ CurrentProgram = ProgramOf(at)
           /\ ProgramOf(at) \in Program /\ pc \in DOMAIN ProgramOf(at)
           /\ \A j \in DOMAIN ProgramOf(at) : j < pc + 1 => j = pc \/ j < pc
           /\ Item = ProgramOf(at)[pc] /\ Item.kind = kind
           /\ Current \in DOMAIN store
           /\ \A i \in 1 .. (at - 1) : i \in DOMAIN load_order /\ load_order[i] # Current
<1>1. phase = "resolved" /\ Walked /\ Interpreted
  BY DEF Interpreting, WholeInv
<1>2. /\ at \in 1 .. Len(load_order) /\ Len(load_order) \in Nat
      /\ DOMAIN load_order = 1 .. Len(load_order)
      /\ \A i, j \in DOMAIN load_order : i # j => load_order[i] # load_order[j]
      /\ \A i \in DOMAIN load_order : ProgramOf(i) \in Program
  BY <1>1, LoadOrderIs DEF Interpreted
<1>3. CurrentProgram = ProgramOf(at)
  BY DEF CurrentProgram, ProgramOf, Current
<1>4. /\ Len(ProgramOf(at)) \in Nat
      /\ DOMAIN ProgramOf(at) = 1 .. Len(ProgramOf(at))
      /\ pc \in 1 .. Len(ProgramOf(at))
  BY <1>2, <1>3, InterpretationAssumption DEF Interpreting
<1>5. pc \in Nat /\ pc > 0 /\ pc + 1 \in 0 .. (Len(ProgramOf(at)) + 1)
  BY <1>4
<1>6. \A j \in DOMAIN ProgramOf(at) : j < pc + 1 => j = pc \/ j < pc
  BY <1>4
<1>7. \A i \in 1 .. (at - 1) : i \in DOMAIN load_order /\ load_order[i] # Current
  <2>1. \A i \in 1 .. (at - 1) : i \in DOMAIN load_order /\ at \in DOMAIN load_order /\ i # at
    BY <1>2
  <2>. QED
    BY <1>2, <2>1 DEF Current
<1>. QED
  BY <1>1, <1>2, <1>3, <1>4, <1>5, <1>6, <1>7 DEF Interpreting, Item, Interpreted

\* What is wrong with an include is never that its module is not interpreted,
\* nor, at the top level, that it is not resolved.
LEMMA IncludeErrors ==
    ASSUME WholeInv, NEW kind, Interpreting(kind)
    PROVE  /\ "not_interpreted" \notin include_error(Item)
           /\ kind = "include" => "unresolved" \notin include_error(Item)
<1>1. /\ phase = "resolved" /\ Walked /\ Interpreted /\ at \in DOMAIN load_order
      /\ Item = ProgramOf(at)[pc] /\ Item.kind = kind /\ pc \in DOMAIN ProgramOf(at)
      /\ Current = load_order[at]
  BY AtAnItem DEF Current
<1>2. kind = "include" => <<Current, Item.name>> \in DOMAIN resolutions
  BY <1>1, IncludedAreMeant
<1>3. <<Current, Item.name>> \in DOMAIN resolutions =>
          resolutions[<<Current, Item.name>>] \in DOMAIN store
  <2>. SUFFICES ASSUME <<Current, Item.name>> \in DOMAIN resolutions
                PROVE  resolutions[<<Current, Item.name>>] \in DOMAIN store
    OBVIOUS
  <2>1. PICK j \in 1 .. (at - 1) : load_order[j] = resolutions[<<load_order[at], Item.name>>]
    BY <1>1, MeantComeBefore
  <2>. QED
    BY <1>1, <2>1 DEF Interpreted
<1>. QED
  BY <1>2, <1>3 DEF include_error

LEMMA IncludeInv ==
    ASSUME WholeInv, NEW kind, Interpreting(kind), include_module
    PROVE  WholeInv'
<1>1. /\ phase = "resolved" /\ Walked /\ Interpreted
      /\ at \in DOMAIN load_order /\ at \in Nat /\ Len(load_order) \in Nat
      /\ DOMAIN load_order = 1 .. Len(load_order)
      /\ pc \in Nat /\ pc > 0
      /\ pc + 1 \in 0 .. (Len(ProgramOf(at)) + 1)
      /\ \A j \in DOMAIN ProgramOf(at) : j < pc + 1 => j = pc \/ j < pc
      /\ Item = ProgramOf(at)[pc] /\ Item.kind = kind
      /\ Current \in DOMAIN store
      /\ \A i \in 1 .. (at - 1) : load_order[i] # Current
  BY AtAnItem
<1>2. /\ pc' = pc + 1 /\ UNCHANGED <<loader, at>> /\ resolutions' = resolutions
      /\ errors' = errors \cup {[item |-> Item, error |-> e] : e \in include_error(Item)}
  BY DEF include_module, loader, walk
<1>3. load_order' = load_order /\ \A i : ProgramOf(i)' = ProgramOf(i)
  BY <1>1, <1>2, WalkStays
<1>4. ProgramOf(at)' = ProgramOf(at) /\ Current' = Current
  BY <1>2, <1>3 DEF Current, ProgramOf
<1>5. /\ DOMAIN store' = DOMAIN store
      /\ \A file \in DOMAIN store : file # Current => store'[file] = store[file]
  BY DEF include_module
<1>6. \A i \in 1 .. (at - 1) :
          /\ load_order[i] \in DOMAIN store'
          /\ Filled(load_order[i], ProgramOf(i), Len(ProgramOf(i)) + 1)'
  <2>. SUFFICES ASSUME NEW i \in 1 .. (at - 1)
                PROVE  /\ load_order[i] \in DOMAIN store'
                       /\ Filled(load_order[i], ProgramOf(i), Len(ProgramOf(i)) + 1)'
    OBVIOUS
  <2>1. load_order[i] \in DOMAIN store /\ store'[load_order[i]] = store[load_order[i]]
    BY <1>1, <1>5 DEF Interpreted
  <2>2. Filled(load_order[i], ProgramOf(i), Len(ProgramOf(i)) + 1)
    BY <1>1 DEF Interpreted
  <2>. QED
    BY <1>2, <1>3, <1>5, <2>1, <2>2 DEF Filled
<1>7. ASSUME errors' = {}
      PROVE  Filled(Current, ProgramOf(at), pc)'
  <2>1. errors = {} /\ include_error(Item) = {}
    BY <1>2, <1>7
  <2>2. /\ Item.alias \notin DOMAIN store[Current]
        /\ store'[Current] = [alias \in DOMAIN store[Current] \cup {Item.alias} |->
                                 IF alias = Item.alias THEN included(Item) ELSE store[Current][alias]]
    BY <1>1, <2>1 DEF include_module, include_error
  <2>3. Filled(Current, ProgramOf(at), pc)
    BY <1>1, <2>1 DEF Interpreted
  <2>4. SUFFICES ASSUME NEW j \in DOMAIN ProgramOf(at), j < pc + 1,
                        ProgramOf(at)[j].kind \in {"include", "for"}
                 PROVE  /\ ProgramOf(at)[j].alias \in DOMAIN store'[Current]
                        /\ store'[Current][ProgramOf(at)[j].alias] =
                               resolutions[<<Current, ProgramOf(at)[j].name>>]
    BY <1>2, <1>4 DEF Filled
  <2>5. CASE j = pc
    BY <1>1, <2>2, <2>5 DEF included
  <2>6. CASE j < pc
    <3>1. /\ ProgramOf(at)[j].alias \in DOMAIN store[Current]
          /\ store[Current][ProgramOf(at)[j].alias] =
                 resolutions[<<Current, ProgramOf(at)[j].name>>]
      BY <2>3, <2>4, <2>6 DEF Filled
    <3>2. ProgramOf(at)[j].alias # Item.alias
      BY <2>2, <3>1
    <3>. QED
      BY <2>2, <3>1, <3>2
  <2>. QED
    BY <1>1, <2>4, <2>5, <2>6
<1>8. Interpreted'
  BY <1>1, <1>2, <1>3, <1>4, <1>5, <1>6, <1>7 DEF Interpreted
<1>9. IncludesAreReady'
  <2>1. "not_interpreted" \notin include_error(Item)
        /\ (kind = "include" => "unresolved" \notin include_error(Item))
    BY IncludeErrors
  <2>2. SUFFICES ASSUME NEW error \in errors'
                 PROVE  /\ error.error # "not_interpreted"
                        /\ error.item.kind = "include" => error.error # "unresolved"
    BY DEF IncludesAreReady
  <2>3. CASE error \in errors
    BY <2>3 DEF WholeInv, IncludesAreReady
  <2>4. CASE error \notin errors
    <3>1. PICK e \in include_error(Item) : error = [item |-> Item, error |-> e]
      BY <1>2, <2>4
    <3>2. error.error = e /\ error.item.kind = kind
      BY <1>1, <3>1
    <3>. QED
      BY <2>1, <3>1, <3>2
  <2>. QED
    BY <2>3, <2>4
<1>. QED
  BY <1>1, <1>2, <1>8, <1>9, GoesOn

\* An item that includes nothing, right or wrong.
LEMMA OtherItemInv ==
    ASSUME WholeInv, NEW kind \in {"map", "other"}, Interpreting(kind),
           pc' = pc + 1, UNCHANGED <<loader, at, store>>,
           errors \subseteq errors',
           \A error \in errors' \ errors : error.error \in {"no_domain", "other"}
    PROVE  WholeInv'
<1>1. /\ phase = "resolved" /\ Walked /\ Interpreted
      /\ at \in DOMAIN load_order /\ at \in Nat /\ Len(load_order) \in Nat
      /\ DOMAIN load_order = 1 .. Len(load_order)
      /\ pc \in Nat /\ pc > 0
      /\ pc + 1 \in 0 .. (Len(ProgramOf(at)) + 1)
      /\ \A j \in DOMAIN ProgramOf(at) : j < pc + 1 => j = pc \/ j < pc
      /\ Item = ProgramOf(at)[pc] /\ Item.kind = kind
      /\ Current \in DOMAIN store
  BY AtAnItem
<1>2. resolutions' = resolutions /\ store' = store /\ at' = at
  BY DEF loader, walk
<1>3. load_order' = load_order /\ \A i : ProgramOf(i)' = ProgramOf(i)
  BY <1>1, WalkStays
<1>4. ProgramOf(at)' = ProgramOf(at) /\ Current' = Current
  BY <1>2, <1>3 DEF Current, ProgramOf
<1>5. \A i \in 1 .. (at - 1) :
          /\ load_order[i] \in DOMAIN store'
          /\ Filled(load_order[i], ProgramOf(i), Len(ProgramOf(i)) + 1)'
  BY <1>1, <1>2, <1>3 DEF Interpreted, Filled
<1>6. ASSUME errors' = {}
      PROVE  Filled(Current, ProgramOf(at), pc)'
  <2>1. Filled(Current, ProgramOf(at), pc)
    BY <1>1, <1>6 DEF Interpreted
  <2>2. SUFFICES ASSUME NEW j \in DOMAIN ProgramOf(at), j < pc + 1,
                        ProgramOf(at)[j].kind \in {"include", "for"}
                 PROVE  /\ ProgramOf(at)[j].alias \in DOMAIN store[Current]
                        /\ store[Current][ProgramOf(at)[j].alias] =
                               resolutions[<<Current, ProgramOf(at)[j].name>>]
    BY <1>2, <1>4 DEF Filled
  <2>3. j < pc
    BY <1>1, <2>2
  <2>. QED
    BY <2>1, <2>2, <2>3 DEF Filled
<1>7. Interpreted'
  BY <1>1, <1>2, <1>3, <1>4, <1>5, <1>6 DEF Interpreted
<1>8. IncludesAreReady'
  BY DEF WholeInv, IncludesAreReady
<1>. QED
  BY <1>1, <1>7, <1>8, GoesOn

LEMMA NextPosition ==
    ASSUME NEW n \in Nat, NEW i \in 1 .. n, i # n
    PROVE  i + 1 \in 1 .. n /\ (i + 1) - 1 = i
  OBVIOUS

\* The next module, or the end: what it is past is in the store in full.
LEMMA NextModuleInv ==
    ASSUME WholeInv, next_module
    PROVE  WholeInv'
<1>1. /\ phase = "resolved" /\ at =< Len(load_order) /\ pc = Len(CurrentProgram) + 1
      /\ errors = {} /\ errors' = {} /\ at' = at + 1 /\ pc' = 0
      /\ phase' = IF at = Len(load_order) THEN "done" ELSE phase
      /\ UNCHANGED <<text, edits, failure, walk, store>>
      /\ resolutions' = resolutions /\ stack' = stack /\ modules' = modules
      /\ dep_order' = dep_order
  BY DEF next_module, ItemsDone, Faultless, walk
<1>2. Walked /\ Interpreted
  BY <1>1 DEF WholeInv
<1>3. /\ at \in 1 .. Len(load_order) /\ at \in Nat /\ Len(load_order) \in Nat
      /\ DOMAIN load_order = 1 .. Len(load_order)
      /\ \A i \in DOMAIN load_order : ProgramOf(i) \in Program
  BY <1>1, <1>2, LoadOrderIs DEF Interpreted
<1>4. load_order' = load_order
  BY <1>1 DEF load_order
<1>5. \A i : ProgramOf(i)' = ProgramOf(i)
  BY <1>1, <1>4 DEF ProgramOf
<1>6. Filled(load_order[at], ProgramOf(at), Len(ProgramOf(at)) + 1) /\ load_order[at] \in DOMAIN store
  <2>1. CurrentProgram = ProgramOf(at) /\ Current = load_order[at]
    BY DEF CurrentProgram, ProgramOf, Current
  <2>2. Len(ProgramOf(at)) \in Nat
    BY <1>3, InterpretationAssumption
  <2>3. pc > 0
    BY <1>1, <2>1, <2>2
  <2>. QED
    BY <1>1, <1>2, <2>1, <2>3 DEF Interpreted
<1>7. \A i \in 1 .. at :
          /\ load_order[i] \in DOMAIN store
          /\ Filled(load_order[i], ProgramOf(i), Len(ProgramOf(i)) + 1)
  <2>1. \A i \in 1 .. at : i = at \/ i \in 1 .. (at - 1)
    BY <1>3
  <2>. QED
    BY <1>2, <1>6, <2>1 DEF Interpreted
<1>8. IncludesAreReady'
  BY <1>1 DEF IncludesAreReady
<1>9. CASE at = Len(load_order)
  <2>1. phase' = "done"
    BY <1>1, <1>9
  <2>2. \A i \in DOMAIN load_order : \A j \in DOMAIN ProgramOf(i) :
            ProgramOf(i)[j].kind \in {"include", "for"} =>
                /\ ProgramOf(i)[j].alias \in DOMAIN store[load_order[i]]
                /\ store[load_order[i]][ProgramOf(i)[j].alias] =
                       resolutions[<<load_order[i], ProgramOf(i)[j].name>>]
    <3>. SUFFICES ASSUME NEW i \in DOMAIN load_order, NEW j \in DOMAIN ProgramOf(i),
                         ProgramOf(i)[j].kind \in {"include", "for"}
                  PROVE  /\ ProgramOf(i)[j].alias \in DOMAIN store[load_order[i]]
                         /\ store[load_order[i]][ProgramOf(i)[j].alias] =
                                resolutions[<<load_order[i], ProgramOf(i)[j].name>>]
      OBVIOUS
    <3>1. Filled(load_order[i], ProgramOf(i), Len(ProgramOf(i)) + 1)
      BY <1>3, <1>7, <1>9
    <3>2. ProgramOf(i) \in Program
      BY <1>3
    <3>3. j < Len(ProgramOf(i)) + 1
      BY <3>2, InterpretationAssumption
    <3>. QED
      BY <3>1, <3>3 DEF Filled
  <2>3. LoadedInFull'
    BY <1>1, <1>4, <2>2 DEF LoadedInFull, ProgramOf
  <2>. QED
    BY <1>8, <2>1, <2>3 DEF WholeInv
<1>10. CASE at # Len(load_order)
  <2>1. phase' = "resolved" /\ UNCHANGED loader
    BY <1>1, <1>10 DEF loader
  <2>2. at' \in 1 .. Len(load_order) /\ at' - 1 = at /\ at' \in DOMAIN load_order
    BY <1>1, <1>3, <1>10, NextPosition
  <2>3. Walked'
    BY <1>2, <2>1, WalkStays
  <2>4. ProgramOf(at)' = ProgramOf(at') /\ Current' = load_order[at']
    BY <1>4, <1>5 DEF ProgramOf, Current
  <2>5. Len(ProgramOf(at')) \in Nat /\ DOMAIN ProgramOf(at') = 1 .. Len(ProgramOf(at'))
    BY <1>3, <2>2, InterpretationAssumption
  <2>6. pc' \in 0 .. (Len(ProgramOf(at')) + 1)
    BY <1>1, <2>5
  <2>7. Filled(Current, ProgramOf(at), pc)'
    <3>1. \A j \in DOMAIN ProgramOf(at') : ~(j < 0)
      BY <2>5
    <3>. QED
      BY <1>1, <2>4, <3>1 DEF Filled
  <2>8. \A i \in 1 .. at :
            /\ load_order[i] \in DOMAIN store'
            /\ Filled(load_order[i], ProgramOf(i), Len(ProgramOf(i)) + 1)'
    BY <1>1, <1>4, <1>5, <1>7 DEF Filled
  <2>9. Interpreted'
    BY <1>1, <1>4, <1>5, <2>2, <2>4, <2>6, <2>7, <2>8 DEF Interpreted
  <2>10. LoadedInFull'
    BY <2>1 DEF LoadedInFull
  <2>. QED
    BY <1>8, <2>1, <2>3, <2>9, <2>10 DEF WholeInv
<1>. QED
  BY <1>9, <1>10

LEMMA LoadFailureInv ==
    ASSUME WholeInv, load_failure
    PROVE  WholeInv'
<1>1. phase = "resolved" /\ fail("interpret", Current) /\ UNCHANGED interpreter
  BY DEF load_failure, ItemsDone
<1>2. phase' = "failed" /\ UNCHANGED walk
  BY <1>1 DEF fail
<1>3. Walked'
  <2>1. IInv'
    BY <1>1, FailInv DEF WholeInv, Walked
  <2>. QED
    BY <1>1, <1>2, <2>1 DEF WholeInv, Walked, Registered, walk
<1>4. IncludesAreReady' /\ LoadedInFull'
  BY <1>1, <1>2 DEF WholeInv, interpreter, IncludesAreReady, LoadedInFull
<1>. QED
  BY <1>2, <1>3, <1>4 DEF WholeInv

LEMMA InterpretInv == WholeInv /\ Interpret => WholeInv'
<1>. SUFFICES ASSUME WholeInv, Interpret PROVE WholeInv'
  OBVIOUS
<1>1. CASE initialize_module_context
  BY <1>1, InitializeInv
<1>2. CASE interpret_include_module_instr
  BY <1>2, IncludeInv DEF interpret_include_module_instr
<1>3. CASE expand_type_for
  BY <1>3, IncludeInv DEF expand_type_for
<1>4. CASE interpret_def_pmap_module
  <2>1. \A error \in errors' \ errors : error.error \in {"no_domain", "other"}
    BY <1>4 DEF interpret_def_pmap_module
  <2>2. /\ Interpreting("map") /\ pc' = pc + 1 /\ UNCHANGED <<loader, at, store>>
        /\ errors \subseteq errors'
    BY <1>4 DEF interpret_def_pmap_module
  <2>. QED
    BY <2>1, <2>2, OtherItemInv
<1>5. CASE interpret_other
  <2>1. \A error \in errors' \ errors : error.error \in {"no_domain", "other"}
    BY <1>5 DEF interpret_other
  <2>2. /\ Interpreting("other") /\ pc' = pc + 1 /\ UNCHANGED <<loader, at, store>>
        /\ errors \subseteq errors'
    BY <1>5 DEF interpret_other
  <2>. QED
    BY <2>1, <2>2, OtherItemInv
<1>6. CASE next_module
  BY <1>6, NextModuleInv
<1>7. CASE load_failure
  BY <1>7, LoadFailureInv
<1>. QED
  BY <1>1, <1>2, <1>3, <1>4, <1>5, <1>6, <1>7 DEF Interpret

----------------------------------------------------------------------------
(* The specification                                                       *)

\* While the modules are resolved nothing is interpreted.
LEMMA WalkInv ==
    ASSUME WholeInv, Resolve, UNCHANGED interpreter
    PROVE  WholeInv'
<1>1. /\ phase \in {"idle", "resolving"}
      /\ phase' \in {"resolving", "resolved", "failed"}
  BY DEF Resolve, load, fail, not_found, unreadable, already_resolved, cyclic, unparsable,
         descend, ascend, resolved, Including
<1>2. Walked /\ at = 1 /\ pc = 0 /\ errors = {}
  BY <1>1 DEF WholeInv
<1>3. /\ at' = 1 /\ pc' = 0 /\ errors' = {}
  BY <1>2 DEF interpreter
<1>4. Walked'
  BY <1>2, ResolveWalks
<1>5. ASSUME phase' = "resolved"
      PROVE  Interpreted'
  <2>1. /\ Len(load_order') = Len(dep_order') + 1 /\ Len(dep_order') \in Nat
        /\ DOMAIN load_order' = 1 .. (Len(dep_order') + 1)
        /\ \A i \in DOMAIN load_order' : ProgramOf(i)' \in Program
    <3>1. phase = "resolving" /\ resolved
      BY <1>5, <1>1 DEF Resolve, load, fail, not_found, unreadable, already_resolved, cyclic,
                        unparsable, descend, ascend, resolved, Including
    <3>2. dep_order' = dep_order /\ stack' = stack /\ modules' = modules
      BY <3>1 DEF resolved, walk
    <3>3. /\ dep_order' \in Seq(File) /\ stack' \in Seq(Frame) /\ Len(stack') = 1
          /\ \A file \in DOMAIN modules' : modules'[file] \in Program
          /\ DOMAIN modules' = ToSet(dep_order')
          /\ stack' \in Seq(Frame)
      BY <1>4, <1>5 DEF Walked, IInv, Typed, Ordered
    <3>4. stack'[1] \in Frame
      BY <3>3
    <3>5. stack'[1].file \in File /\ stack'[1].program \in Program
      BY <3>4 DEF Frame
    <3>6. /\ load_order' = Append(dep_order', stack'[1].file)
          /\ Len(load_order') = Len(dep_order') + 1 /\ Len(dep_order') \in Nat
          /\ DOMAIN load_order' = 1 .. (Len(dep_order') + 1)
          /\ \A i \in 1 .. Len(dep_order') :
                 load_order'[i] = dep_order'[i] /\ i \in DOMAIN dep_order'
      BY <3>3, <3>5 DEF load_order
    <3>7. \A i \in DOMAIN load_order' : i # Len(load_order') => i \in 1 .. Len(dep_order')
      BY <3>6
    <3>. QED
      BY <3>3, <3>5, <3>6, <3>7 DEF ProgramOf, ToSet
  <2>2. at' \in 1 .. Len(load_order') /\ at' \in DOMAIN load_order'
    BY <1>3, <2>1
  <2>3. ProgramOf(at)' \in Program
    BY <1>3, <2>1, <2>2 DEF ProgramOf
  <2>4. Len(ProgramOf(at)') \in Nat /\ DOMAIN ProgramOf(at)' = 1 .. Len(ProgramOf(at)')
    BY <2>3, InterpretationAssumption
  <2>5. pc' \in 0 .. (Len(ProgramOf(at)') + 1)
    BY <1>3, <2>4
  <2>6. 1 .. (at' - 1) = {}
    BY <1>3
  <2>7. Filled(Current, ProgramOf(at), pc)'
    <3>1. \A j \in DOMAIN ProgramOf(at)' : ~(j < pc')
      BY <1>3, <2>4
    <3>. QED
      BY <3>1 DEF Filled
  <2>. QED
    BY <1>3, <2>2, <2>5, <2>6, <2>7 DEF Interpreted
<1>6. IncludesAreReady' /\ LoadedInFull'
  BY <1>1, <1>3 DEF IncludesAreReady, LoadedInFull
<1>. QED
  BY <1>1, <1>3, <1>4, <1>5, <1>6 DEF WholeInv

\* What is edited is not read again.
LEMMA EditKeeps ==
    ASSUME WholeInv, NEW file \in DOMAIN text, NEW said \in Text, edit(file, said),
           UNCHANGED interpreter
    PROVE  WholeInv'
<1>1. UNCHANGED <<phase, failure, walk, interpreter>>
  BY DEF edit
<1>2. phase # "done" => Walked'
  <2>1. phase # "done" => IInv'
    BY EditInv DEF WholeInv, Walked
  <2>. QED
    BY <1>1, <2>1 DEF WholeInv, Walked, Registered, walk
<1>3. Interpreted' <=> Interpreted
  BY <1>1 DEF walk, interpreter, Interpreted, Filled, ProgramOf, Current, load_order
<1>4. IncludesAreReady' /\ LoadedInFull'
  BY <1>1 DEF WholeInv, IncludesAreReady, LoadedInFull, load_order, walk, interpreter
<1>. QED
  BY <1>1, <1>2, <1>3, <1>4 DEF WholeInv, interpreter

\* The inductive invariant holds of every load.
THEOREM WholeInductive == LoadSpec => []WholeInv
<1>1. LoadInit => WholeInv
  <2>. SUFFICES ASSUME LoadInit PROVE WholeInv
    OBVIOUS
  <2>1. IInv /\ phase = "idle" /\ at = 1 /\ pc = 0 /\ errors = {} /\ resolutions = <<>>
    BY InitInv DEF LoadInit, Init, Start
  <2>2. Walked
    BY <2>1 DEF Walked, Registered
  <2>3. IncludesAreReady /\ LoadedInFull
    BY <2>1 DEF IncludesAreReady, LoadedInFull
  <2>. QED
    BY <2>1, <2>2, <2>3 DEF WholeInv
<1>2. WholeInv /\ [LoadNext]_vars => WholeInv'
  <2>. SUFFICES ASSUME WholeInv, [LoadNext]_vars PROVE WholeInv'
    OBVIOUS
  <2>1. CASE Interpret
    BY <2>1, InterpretInv
  <2>2. CASE Resolve /\ UNCHANGED interpreter
    BY <2>2, WalkInv
  <2>3. ASSUME NEW file \in DOMAIN text, NEW said \in Text, edit(file, said),
               UNCHANGED interpreter
        PROVE  WholeInv'
    BY <2>3, EditKeeps
  <2>4. CASE UNCHANGED vars
    <3>1. UNCHANGED <<loader, interpreter>>
      BY <2>4 DEF vars
    <3>2. phase # "done" => Walked'
      BY <3>1, WalkStays DEF WholeInv
    <3>3. Interpreted' <=> Interpreted
      BY <3>1 DEF loader, walk, interpreter, Interpreted, Filled, ProgramOf, Current, load_order
    <3>4. IncludesAreReady' /\ LoadedInFull'
      BY <3>1 DEF WholeInv, IncludesAreReady, LoadedInFull, load_order, loader, walk, interpreter
    <3>. QED
      BY <3>1, <3>2, <3>3, <3>4 DEF WholeInv, interpreter, loader
  <2>. QED
    BY <2>1, <2>2, <2>3, <2>4 DEF LoadNext, Next
<1>. QED
  BY <1>1, <1>2, PTL DEF LoadSpec

\* No include, at the top level or from a for-block, is ever of a module that is
\* known and not interpreted, and none at the top level of one that is not known.
THEOREM IncludesReady == LoadSpec => []IncludesAreReady
<1>1. WholeInv => IncludesAreReady
  BY DEF WholeInv
<1>. QED
  BY <1>1, WholeInductive, PTL

\* A load that ends well leaves, for every include of every module and under its
\* alias, the module that the loader resolved for that very file.
THEOREM LoadedWhole == LoadSpec => []LoadedInFull
<1>1. WholeInv => LoadedInFull
  BY DEF WholeInv
<1>. QED
  BY <1>1, WholeInductive, PTL
=============================================================================
