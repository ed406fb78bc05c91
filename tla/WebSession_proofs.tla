-------------------------- MODULE WebSession_proofs --------------------------
(***************************************************************************)
(* What holds of WebSession for any set of pages, and whatever their users *)
(* do, the network loses, delays or repeats, and the server runs or stops  *)
(* in the middle of.                                                       *)
(*                                                                         *)
(* What a page shows, the entries that wait for the kernel, and the link   *)
(* of the editor each speak of the kernel by its numbers; each is sound    *)
(* when nothing of those numbers means another thing to the kernel as it   *)
(* is.  The kernel only moves on (Grows), and so what is sound stays so.   *)
(***************************************************************************)
EXTENDS WebSession, TLAPS

\* The kernel as it is.
Snapshot ==
    [instance |-> instance, revision |-> revision, generation |-> generation,
     module_revision |-> module_revision, state |-> state, module |-> module,
     poisoned |-> poisoned]

\* A cut: all of one state and module, and those of the kernel's while the
\* numbers are.
SoundCut(s, k) ==
    /\ s \in Cut
    /\ \A v \in DOMAIN s.views : s.views[v] = <<s.state, s.module>>
    /\ s.instance =< k.instance
    /\ ~k.poisoned /\ s.instance = k.instance =>
           /\ s.revision =< k.revision /\ s.module_revision =< k.revision
           /\ s.revision = k.revision =>
                  s.state = k.state /\ s.module_revision = k.module_revision
           /\ s.module_revision = k.module_revision => s.module = k.module

\* An entry: what it expects is what was seen.
SoundEntry(e, k) ==
    /\ e.kind = "load_source" => e.source \in Source
    /\ e.expect # None =>
           /\ e.expect \in [instance : Nat, revision : Nat]
           /\ e.expect.instance =< k.instance
           /\ ~k.poisoned /\ e.expect.instance = k.instance =>
                  /\ e.expect.revision =< k.revision
                  /\ e.expect.revision = k.revision => e.saw = k.state

Link == [instance : Nat, generation : Nat, text : Source]

\* One source is the other, or the same text with more written into it.
Extends(newer, older) ==
    /\ newer \in Source /\ older \in Source
    /\ newer.text = older.text /\ newer.edits >= older.edits

\* A link: while its generation is loaded, the module extends its text.
SoundLink(l, k) ==
    /\ l \in Link
    /\ l.instance =< k.instance
    /\ ~k.poisoned /\ l.instance = k.instance =>
           /\ l.generation =< k.revision
           /\ l.generation = k.generation => Extends(k.module, l.text)

\* An answer: the cut it makes of the one shown is sound, and so is the link,
\* whether or not the source goes to the tab.
SoundAnswer(c, s, l, k) ==
    LET link == relink(l, c.cut, c.entry)
    IN  /\ SoundCut(reduce(s, c.cut, c.answer), k)
        /\ link # None => SoundLink(link, k)
        /\ linked(link, c.cut) /\ c.answer.module # Absent =>
               /\ Extends(c.answer.module, link.text)
               /\ SoundLink([link EXCEPT !.text = c.answer.module], k)

\* A call is a record of its fields.
IsCall(c) ==
    c = [entry |-> c.entry, seen |-> c.seen, draw |-> c.draw, phase |-> c.phase,
         cut |-> c.cut, answer |-> c.answer]

\* A call is answered over the cut it was sent from.
SoundCall(c, s, l, k) ==
    /\ IsCall(c)
    /\ c.seen = s
    /\ c.draw \in Draw
    /\ SoundEntry(c.entry, k)
    /\ c.phase = "sent" => c.entry \in Asked \cup {Poll} /\ c.cut = None /\ c.answer = None
    /\ c.phase = "answered" => SoundAnswer(c, s, l, k)

SoundPage(s, q, c, t, l, k) ==
    /\ s # None => SoundCut(s, k)
    /\ q \in Seq(Asked) /\ \A i \in DOMAIN q : SoundEntry(q[i], k)
    /\ c # None => SoundCall(c, s, l, k)
    /\ t \in Source \cup {None}
    /\ l # None => SoundLink(l, k)

SoundKernel(k) ==
    /\ k.instance \in Nat /\ k.revision \in Nat /\ k.generation \in Nat
    /\ k.module_revision \in Nat
    /\ k.generation =< k.revision /\ k.module_revision =< k.revision
    /\ k.module \in Source \cup {None}
    /\ k.poisoned \in BOOLEAN
    /\ ~k.poisoned => k.state \in Whole

\* The call that holds the mutex.
SoundRun ==
    running # None =>
        /\ ~poisoned
        /\ running = [page |-> running.page, entry |-> running.entry, parts |-> running.parts]
        /\ running.parts \in Nat
        /\ SoundEntry(running.entry, Snapshot)
        /\ running.parts = 0 /\ running.entry.expect # None => running.entry.expect = Now
        /\ running.entry.kind = "load_source" /\ running.parts = 1 /\ module # None =>
               module = running.entry.source
        /\ running.page # None =>
               /\ running.page \in Page
               /\ LET p == running.page
                  IN  /\ SoundCall(call[p], shown[p], editorLink[p], Snapshot)
                      /\ call[p] # None /\ call[p].phase = "taken"
                      /\ call[p].entry = running.entry

IInv ==
    /\ Page = DOMAIN shown /\ Page = DOMAIN queue /\ Page = DOMAIN call
    /\ Page = DOMAIN tab /\ Page = DOMAIN editorLink /\ choice \in [Page -> View]
    /\ SoundKernel(Snapshot)
    /\ SoundRun
    /\ \A e \in orphans : SoundEntry(e, Snapshot)
    /\ \A p \in Page : SoundPage(shown[p], queue[p], call[p], tab[p], editorLink[p], Snapshot)

----------------------------------------------------------------------------
(* What is sound stays so                                                  *)

\* How the kernel moves on: not at all, into another process or a panic, or by
\* a tick that keeps the module, edits it or loads one.
Grows(k, k2) ==
    \/ k2 = k
    \/ k2.instance > k.instance
    \/ k2.instance = k.instance /\ k2.poisoned
    \/ /\ k2.instance = k.instance /\ ~k.poisoned /\ k2.revision = k.revision + 1
       /\ \/ /\ k2.module_revision = k.module_revision /\ k2.generation = k.generation
             /\ k2.module = k.module
          \/ /\ k2.module_revision = k2.revision /\ k2.generation = k.generation
             /\ Extends(k2.module, k.module)
          \/ k2.module_revision = k2.revision /\ k2.generation = k2.revision

LEMMA ExtendsIsTransitive ==
    ASSUME NEW a, NEW b, NEW c, Extends(a, b), Extends(b, c)
    PROVE  Extends(a, c)
  BY DEF Extends, Source

LEMMA ExtendsItself ==
    ASSUME NEW a \in Source
    PROVE  Extends(a, a)
  BY DEF Extends, Source

LEMMA CutFields ==
    ASSUME NEW s \in Cut
    PROVE  /\ s.instance \in Nat /\ s.revision \in Nat /\ s.module_revision \in Nat
           /\ s.state \in Whole /\ s.module \in Source \cup {None}
           /\ DOMAIN s.views \subseteq View
  BY DEF Cut

LEMMA CutStays ==
    ASSUME NEW k, NEW k2, SoundKernel(k), SoundKernel(k2), Grows(k, k2), NEW s, SoundCut(s, k)
    PROVE  SoundCut(s, k2)
<1>1. /\ s \in Cut /\ s.instance \in Nat /\ s.revision \in Nat /\ s.module_revision \in Nat
  BY CutFields DEF SoundCut
<1>. QED
  BY <1>1 DEF SoundKernel, Grows, SoundCut

LEMMA EntryStays ==
    ASSUME NEW k, NEW k2, SoundKernel(k), SoundKernel(k2), Grows(k, k2), NEW e, SoundEntry(e, k)
    PROVE  SoundEntry(e, k2)
<1>1. CASE e.expect = None
  BY <1>1 DEF SoundEntry
<1>2. CASE e.expect # None
  <2>1. e.expect.instance \in Nat /\ e.expect.revision \in Nat
    BY <1>2 DEF SoundEntry
  <2>. QED
    BY <1>2, <2>1 DEF SoundKernel, Grows, SoundEntry
<1>. QED
  BY <1>1, <1>2

LEMMA LinkStays ==
    ASSUME NEW k, NEW k2, SoundKernel(k), SoundKernel(k2), Grows(k, k2), NEW l, SoundLink(l, k)
    PROVE  SoundLink(l, k2)
<1>1. l.instance \in Nat /\ l.generation \in Nat /\ l \in Link
  BY DEF SoundLink, Link
<1>2. CASE /\ k2.instance = k.instance /\ ~k.poisoned /\ k2.revision = k.revision + 1
           /\ k2.module_revision = k2.revision /\ k2.generation = k.generation
           /\ Extends(k2.module, k.module)
  BY <1>1, <1>2, ExtendsIsTransitive DEF SoundKernel, SoundLink
<1>3. CASE ~(k2.module_revision = k2.revision /\ k2.generation = k.generation
             /\ Extends(k2.module, k.module))
  BY <1>1, <1>3 DEF SoundKernel, Grows, SoundLink
<1>4. CASE k2 = k \/ k2.instance > k.instance \/ (k2.instance = k.instance /\ k2.poisoned)
  BY <1>1, <1>4 DEF SoundKernel, SoundLink
<1>. QED
  BY <1>2, <1>3, <1>4 DEF Grows

LEMMA AnswerStays ==
    ASSUME NEW k, NEW k2, SoundKernel(k), SoundKernel(k2), Grows(k, k2),
           NEW c, NEW s, NEW l, SoundAnswer(c, s, l, k)
    PROVE  SoundAnswer(c, s, l, k2)
  BY CutStays, LinkStays DEF SoundAnswer

LEMMA CallStays ==
    ASSUME NEW k, NEW k2, SoundKernel(k), SoundKernel(k2), Grows(k, k2),
           NEW c, NEW s, NEW l, SoundCall(c, s, l, k)
    PROVE  SoundCall(c, s, l, k2)
  BY ONLY SoundKernel(k), SoundKernel(k2), Grows(k, k2), SoundCall(c, s, l, k),
          EntryStays, AnswerStays DEF SoundCall

LEMMA PageStays ==
    ASSUME NEW k, NEW k2, SoundKernel(k), SoundKernel(k2), Grows(k, k2),
           NEW s, NEW q, NEW c, NEW t, NEW l, SoundPage(s, q, c, t, l, k)
    PROVE  SoundPage(s, q, c, t, l, k2)
  BY CutStays, EntryStays, CallStays, LinkStays DEF SoundPage

----------------------------------------------------------------------------
(* The answer to a page                                                    *)

\* What is answered, over what the page shows, is the kernel as it is.
LEMMA ReduceIsNow ==
    ASSUME SoundKernel(Snapshot), ~poisoned,
           NEW s, s # None => SoundCut(s, Snapshot), NEW draw \in Draw, NEW cut,
           cut = [instance |-> instance, revision |-> revision, generation |-> generation,
                  module_revision |-> module_revision, loaded |-> cut.loaded]
    PROVE  LET answer == answer_page(s, draw)
               r == reduce(s, cut, answer)
           IN  /\ SoundCut(r, Snapshot)
               /\ answer.module # Absent => answer.module = module /\ module # None
<1>. DEFINE answer == answer_page(s, draw)
            r == reduce(s, cut, answer)
            known == s # None /\ s.instance = instance
            same_state == known /\ s.revision = revision
            same_module == known /\ s.module_revision = module_revision
<1>0. /\ instance \in Nat /\ revision \in Nat /\ generation \in Nat /\ module_revision \in Nat
      /\ generation =< revision /\ module_revision =< revision
      /\ module \in Source \cup {None} /\ state \in Whole
  BY DEF SoundKernel, Snapshot
<1>1. ASSUME known
      PROVE  /\ s.state \in Whole
             /\ \A v \in DOMAIN s.views : s.views[v] = <<s.state, s.module>>
             /\ s.revision = revision => s.state = state /\ s.module_revision = module_revision
             /\ s.module_revision = module_revision => s.module = module
  <2>1. s.state \in Whole
    BY <1>1, CutFields DEF SoundCut
  <2>. QED
    BY <1>1, <2>1 DEF SoundCut, Snapshot
<1>2. /\ answer.state = IF same_state THEN Absent ELSE state
      /\ answer.module = IF ~same_module /\ module # None THEN module ELSE Absent
      /\ answer.views = [v \in DOMAIN draw |-> IF ~same_state \/ ~draw[v] THEN Drawing ELSE Absent]
  BY DEF answer_page
<1>3. state # Absent /\ (module # Absent \/ module = None)
  BY <1>0, WebAssumption
<1>4. state # Absent /\ Drawing # Absent
  BY <1>0, WebAssumption DEF Drawing
<1>5. /\ r.instance = instance /\ r.revision = revision /\ r.module_revision = module_revision
      /\ r.state = IF answer.state # Absent THEN answer.state ELSE s.state
      /\ r.module = IF answer.module # Absent THEN answer.module
                    ELSE IF same_module THEN s.module ELSE None
  BY DEF reduce
<1>6. r.state = state
  BY <1>1, <1>2, <1>4, <1>5
<1>7. r.module = module
  BY <1>1, <1>2, <1>3, <1>5
<1>8. \A v \in DOMAIN r.views : r.views[v] = <<state, module>>
  <2>. DEFINE kept == IF s = None \/ answer.state # Absent THEN <<>> ELSE s.views
              new == {v \in DOMAIN answer.views : answer.views[v] # Absent}
  <2>1. r.views = [v \in DOMAIN kept \cup new |->
                      IF v \in new THEN answer.views[v] ELSE kept[v]]
    BY DEF reduce
  <2>2. ASSUME NEW v \in new PROVE answer.views[v] = <<state, module>>
    BY <1>2, <2>2 DEF Drawing
  <2>3. ASSUME NEW v \in DOMAIN kept PROVE kept[v] = <<state, module>>
    <3>1. CASE same_state
      <4>1. kept = s.views
        BY <1>2, <3>1
      <4>. QED
        BY <1>1, <2>3, <3>1, <4>1
    <3>2. CASE ~same_state
      <4>1. kept = <<>>
        BY <1>2, <1>4, <3>2
      <4>. QED
        BY <2>3, <4>1
    <3>. QED
      BY <3>1, <3>2
  <2>. HIDE DEF kept, new
  <2>. QED
    BY <2>1, <2>2, <2>3
<1>9. SoundCut(r, Snapshot)
  <2>1. r = [instance |-> r.instance, revision |-> r.revision,
             module_revision |-> r.module_revision, state |-> r.state, module |-> r.module,
             views |-> r.views]
    BY DEF reduce
  <2>2. DOMAIN r.views \subseteq View
    <3>1. DOMAIN draw \subseteq View
      BY DEF Draw
    <3>2. s # None => DOMAIN s.views \subseteq View
      BY CutFields DEF SoundCut
    <3>. QED
      BY <1>2, <3>1, <3>2 DEF reduce
  <2>3. r.views = [v \in DOMAIN r.views |-> r.views[v]]
    BY DEF reduce
  <2>. HIDE DEF r, answer, known
  <2>4. r.views \in [DOMAIN r.views -> Whole \X (Source \cup {None})]
    BY <1>0, <1>8, <2>3
  <2>5. r \in Cut
    BY <1>0, <1>5, <1>6, <1>7, <2>1, <2>2, <2>4 DEF Cut
  <2>. QED
    BY <1>0, <1>5, <1>6, <1>7, <1>8, <2>5 DEF SoundCut, Snapshot
<1>10. answer.module # Absent => answer.module = module /\ module # None
  BY <1>2
<1>. QED
  BY <1>9, <1>10

\* The cut an answer is of.
CutNow(loaded) ==
    [instance |-> instance, revision |-> revision, generation |-> generation,
     module_revision |-> module_revision, loaded |-> loaded]

AnsweredCall(c, loaded) ==
    [entry |-> c.entry, seen |-> c.seen, draw |-> c.draw, phase |-> "answered",
     cut |-> CutNow(loaded), answer |-> answer_page(c.seen, c.draw)]

\* Answering a call is as sound as the page it is sent from.
LEMMA AnsweredIsSound ==
    ASSUME SoundKernel(Snapshot), ~poisoned,
           NEW c, NEW s, NEW l, SoundCall(c, s, l, Snapshot),
           s # None => SoundCut(s, Snapshot), l # None => SoundLink(l, Snapshot),
           NEW loaded, loaded = TRUE => module \in Source /\ c.entry.source = module
    PROVE  SoundCall(AnsweredCall(c, loaded), s, l, Snapshot)
<1>. DEFINE a == AnsweredCall(c, loaded)
            answer == answer_page(s, c.draw)
            cut == CutNow(loaded)
            link == relink(l, cut, c.entry)
<1>1. /\ IsCall(a) /\ c.draw \in Draw /\ a.draw = c.draw /\ a.phase = "answered"
      /\ a.entry = c.entry /\ a.seen = s /\ a.cut = cut /\ a.answer = answer
  BY DEF AnsweredCall, SoundCall, IsCall
<1>2. SoundEntry(c.entry, Snapshot)
  BY DEF SoundCall
<1>3. cut = [instance |-> instance, revision |-> revision, generation |-> generation,
             module_revision |-> module_revision, loaded |-> cut.loaded] /\ cut.loaded = loaded
  BY DEF CutNow
<1>4. /\ SoundCut(reduce(s, cut, answer), Snapshot)
      /\ answer.module # Absent => answer.module = module /\ module # None
  <2>. HIDE DEF cut
  <2>. QED
    BY <1>1, <1>3, ReduceIsNow
<1>5. /\ instance \in Nat /\ generation \in Nat /\ revision \in Nat /\ generation =< revision
      /\ module \in Source \cup {None}
  BY DEF SoundKernel, Snapshot
<1>6. link # None => SoundLink(link, Snapshot)
  <2>1. CASE loaded = TRUE
    <3>1. link = [instance |-> instance, generation |-> generation, text |-> module]
      BY <1>3, <2>1 DEF relink, CutNow
    <3>2. module \in Source /\ Extends(module, module)
      BY <2>1 DEF Extends, Source
    <3>. QED
      BY <1>5, <3>1, <3>2 DEF SoundLink, Link, Snapshot
  <2>2. CASE loaded # TRUE
    <3>1. link = l
      BY <1>3, <2>2 DEF relink
    <3>. QED
      BY <3>1
  <2>. QED
    BY <2>1, <2>2
<1>7. ASSUME linked(link, cut), answer.module # Absent
      PROVE  /\ Extends(answer.module, link.text)
             /\ SoundLink([link EXCEPT !.text = answer.module], Snapshot)
  <2>1. /\ link # None /\ link.instance = instance /\ link.generation = generation
    BY <1>3, <1>7 DEF linked, CutNow
  <2>2. link \in Link /\ Extends(module, link.text) /\ answer.module = module
    BY <1>4, <1>6, <1>7, <2>1 DEF SoundLink, Snapshot
  <2>3. module \in Source /\ Extends(module, module)
    <3>1. module \in Source
      BY <2>2 DEF Extends
    <3>. QED
      BY <3>1, ExtendsItself
  <2>. HIDE DEF link
  <2>4. [link EXCEPT !.text = module] =
            [instance |-> instance, generation |-> generation, text |-> module]
    BY <2>1, <2>2 DEF Link
  <2>. QED
    BY <1>5, <2>2, <2>3, <2>4 DEF SoundLink, Link, Snapshot
<1>8. SoundAnswer(a, s, l, Snapshot)
  <2>. HIDE DEF a, answer, cut
  <2>. QED
    BY <1>1, <1>4, <1>6, <1>7 DEF SoundAnswer
<1>. HIDE DEF a
<1>9. SoundCall(a, s, l, Snapshot)
  BY <1>1, <1>2, <1>8 DEF SoundCall
<1>. QED
  BY <1>9 DEF a

----------------------------------------------------------------------------
(* The steps of the kernel                                                 *)

\* What is to be shown of a step of the kernel alone: the pages and the
\* requests in the network stay as sound as they were.
LEMMA KernelMoves ==
    ASSUME IInv, SoundKernel(Snapshot'), Grows(Snapshot, Snapshot')
    PROVE  /\ \A e : SoundEntry(e, Snapshot) => SoundEntry(e, Snapshot')
           /\ \A c, s, l : SoundCall(c, s, l, Snapshot) => SoundCall(c, s, l, Snapshot')
           /\ \A s, q, c, t, l : SoundPage(s, q, c, t, l, Snapshot)
                  => SoundPage(s, q, c, t, l, Snapshot')
<1>1. SoundKernel(Snapshot)
  BY DEF IInv
<1>. QED
  BY <1>1, EntryStays, CallStays, PageStays

\* Each part of a line ticks, and is a load, an edit, or leaves the module.
LEMMA TickGrows ==
    ASSUME IInv, ~poisoned, UNCHANGED <<instance, poisoned>>,
           revision' = revision + 1,
           \/ /\ state' \in Whole /\ UNCHANGED <<generation, module_revision, module>>
           \/ /\ state' \in Whole /\ module_revision' = revision' /\ generation' = generation
              /\ module # None /\ module' = [module EXCEPT !.edits = @ + 1]
           \/ /\ state' \in Whole /\ generation' = revision' /\ module_revision' = revision'
              /\ module' \in Source \cup {None}
    PROVE  SoundKernel(Snapshot') /\ Grows(Snapshot, Snapshot')
<1>1. SoundKernel(Snapshot)
  BY DEF IInv
<1>2. /\ instance \in Nat /\ revision \in Nat /\ generation \in Nat /\ module_revision \in Nat
      /\ generation =< revision /\ module_revision =< revision
      /\ module \in Source \cup {None} /\ poisoned \in BOOLEAN
  BY <1>1 DEF SoundKernel, Snapshot
<1>3. ASSUME module # None, module' = [module EXCEPT !.edits = @ + 1]
      PROVE  module' \in Source /\ Extends(module', module)
  BY <1>2, <1>3 DEF Source, Extends
<1>. QED
  BY <1>2, <1>3 DEF SoundKernel, Grows, Snapshot

LEMMA LoadTicks ==
    ASSUME NEW image, NEW loaded, Kernel!Load(image, loaded)
    PROVE  /\ revision' = revision + 1 /\ generation' = revision' /\ module_revision' = revision'
           /\ state' = image /\ module' = loaded
  BY DEF Kernel!Load, Kernel!Tick

LEMMA LinePartInv ==
    ASSUME IInv, line_part
    PROVE  IInv'
<1>1. /\ running # None /\ running.entry.kind = "eval"
      /\ running' = [running EXCEPT !.parts = @ + 1]
      /\ UNCHANGED <<instance, poisoned, orphans, shown, choice, queue, call, quiet, focusDemand,
                     tab, editorLink>>
  BY DEF line_part, pages
<1>2. /\ ~poisoned
      /\ running = [page |-> running.page, entry |-> running.entry, parts |-> running.parts]
      /\ running.parts \in Nat
  BY <1>1 DEF IInv, SoundRun
<1>3. SoundKernel(Snapshot') /\ Grows(Snapshot, Snapshot')
  <2>1. ASSUME NEW image \in Image, Kernel!Act(image)
        PROVE  /\ revision' = revision + 1 /\ state' \in Whole
               /\ UNCHANGED <<generation, module_revision, module>>
    BY <2>1 DEF Kernel!Act, Kernel!Tick, Whole
  <2>2. ASSUME NEW image \in Image, Kernel!Edit(image, [module EXCEPT !.edits = @ + 1])
        PROVE  /\ revision' = revision + 1 /\ state' \in Whole
               /\ module_revision' = revision' /\ generation' = generation
               /\ module # None /\ module' = [module EXCEPT !.edits = @ + 1]
    BY <2>2 DEF Kernel!Edit, Kernel!Tick, Whole
  <2>3. ASSUME NEW image \in Whole, NEW loaded \in Source \cup {None}, Kernel!Load(image, loaded)
        PROVE  /\ revision' = revision + 1 /\ state' \in Whole
               /\ generation' = revision' /\ module_revision' = revision'
               /\ module' \in Source \cup {None}
    BY <2>3, LoadTicks
  <2>4. Typed(OnDisk) \in Source
    BY DEF Typed, Source
  <2>. QED
    BY <1>1, <1>2, <2>1, <2>2, <2>3, <2>4, TickGrows DEF line_part, Whole
<1>4. running' = [page |-> running.page, entry |-> running.entry, parts |-> running.parts + 1]
  BY <1>1, <1>2
<1>5. SoundRun'
  <2>1. /\ running'.page = running.page /\ running'.entry = running.entry
        /\ running'.parts \in Nat /\ running'.parts # 0
        /\ running' = [page |-> running'.page, entry |-> running'.entry, parts |-> running'.parts]
    BY <1>2, <1>4
  <2>2. SoundEntry(running.entry, Snapshot)
    BY <1>1 DEF IInv, SoundRun
  <2>3. running.page # None =>
            /\ running.page \in Page
            /\ SoundCall(call[running.page], shown[running.page], editorLink[running.page], Snapshot)
            /\ call[running.page] # None /\ call[running.page].phase = "taken"
            /\ call[running.page].entry = running.entry
    BY <1>1 DEF IInv, SoundRun
  <2>. QED
    BY <1>1, <1>2, <1>3, <2>1, <2>2, <2>3, KernelMoves DEF SoundRun
<1>. QED
  BY <1>1, <1>3, <1>5, KernelMoves DEF IInv

\* An Evaluate loads the source of its entry, or nothing.
LEMMA EvaluatePartInv ==
    ASSUME IInv, evaluate_part
    PROVE  IInv'
<1>1. /\ running # None /\ running.entry.kind = "load_source" /\ running.parts = 0
      /\ running' = [running EXCEPT !.parts = 1]
      /\ UNCHANGED <<instance, poisoned, orphans, shown, choice, queue, call, quiet, focusDemand,
                     tab, editorLink>>
  BY DEF evaluate_part, pages
<1>2. /\ ~poisoned
      /\ running = [page |-> running.page, entry |-> running.entry, parts |-> running.parts]
      /\ SoundEntry(running.entry, Snapshot)
  BY <1>1 DEF IInv, SoundRun
<1>3. running.entry.source \in Source
  BY <1>1, <1>2 DEF SoundEntry
<1>4. /\ revision' = revision + 1 /\ state' \in Whole
      /\ generation' = revision' /\ module_revision' = revision'
      /\ module' \in {running.entry.source, None}
  BY LoadTicks DEF evaluate_part, Whole
<1>5. SoundKernel(Snapshot') /\ Grows(Snapshot, Snapshot')
  BY <1>1, <1>2, <1>3, <1>4, TickGrows
<1>6. running' = [page |-> running.page, entry |-> running.entry, parts |-> 1]
  BY <1>1, <1>2
<1>7. SoundRun'
  <2>1. /\ running'.page = running.page /\ running'.entry = running.entry
        /\ running'.parts \in Nat /\ running'.parts # 0
        /\ running' = [page |-> running'.page, entry |-> running'.entry, parts |-> running'.parts]
    BY <1>6
  <2>2. running.page # None =>
            /\ running.page \in Page
            /\ SoundCall(call[running.page], shown[running.page], editorLink[running.page], Snapshot)
            /\ call[running.page] # None /\ call[running.page].phase = "taken"
            /\ call[running.page].entry = running.entry
    BY <1>1 DEF IInv, SoundRun
  <2>. QED
    BY <1>1, <1>2, <1>4, <1>5, <2>1, <2>2, KernelMoves DEF SoundRun
<1>. QED
  BY <1>1, <1>5, <1>7, KernelMoves DEF IInv

\* A call whose server stops, or that panics, is not answered.
LEMMA DeadIsSound ==
    ASSUME NEW c, NEW s, NEW l, NEW k, SoundCall(c, s, l, k)
    PROVE  SoundCall([c EXCEPT !.phase = "dead"], s, l, k)
<1>1. [c EXCEPT !.phase = "dead"] =
          [entry |-> c.entry, seen |-> c.seen, draw |-> c.draw, phase |-> "dead",
           cut |-> c.cut, answer |-> c.answer]
  BY DEF SoundCall, IsCall
<1>. QED
  BY <1>1 DEF SoundCall, IsCall

LEMMA DeadPage ==
    ASSUME NEW c, NEW s, NEW q, NEW t, NEW l, NEW k, c # None, SoundPage(s, q, c, t, l, k)
    PROVE  SoundPage(s, q, [c EXCEPT !.phase = "dead"], t, l, k)
  BY DeadIsSound DEF SoundPage

LEMMA PanicInv ==
    ASSUME IInv, panic
    PROVE  IInv'
<1>1. /\ running # None /\ running' = None /\ poisoned' = TRUE
      /\ revision' \in {revision, revision + 1}
      /\ UNCHANGED <<generation, module_revision, module, instance, orphans, shown, choice, queue, tab,
                     editorLink>>
      /\ call' = [p \in Page |-> IF p = running.page THEN [call[p] EXCEPT !.phase = "dead"]
                                 ELSE call[p]]
  BY DEF panic
<1>2. SoundKernel(Snapshot') /\ Grows(Snapshot, Snapshot')
  BY <1>1 DEF IInv, SoundKernel, Grows, Snapshot
<1>3. SoundRun'
  BY <1>1 DEF SoundRun
<1>4. ASSUME NEW p \in Page
      PROVE  SoundPage(shown[p], queue[p], call'[p], tab[p], editorLink[p], Snapshot')
  <2>1. SoundPage(shown[p], queue[p], call[p], tab[p], editorLink[p], Snapshot')
    BY <1>2, KernelMoves DEF IInv
  <2>2. CASE p # running.page
    BY <1>1, <2>1, <2>2
  <2>3. CASE p = running.page
    <3>1. call'[p] = [call[p] EXCEPT !.phase = "dead"]
      BY <1>1, <2>3
    <3>2. SoundCall(call[p], shown[p], editorLink[p], Snapshot)
      BY <1>1, <2>3, WebAssumption DEF IInv, SoundRun
    <3>3. SoundCall(call'[p], shown[p], editorLink[p], Snapshot')
      BY <1>2, <3>1, <3>2, KernelMoves, DeadIsSound
    <3>. QED
      BY <2>1, <3>3 DEF SoundPage
  <2>. QED
    BY <2>2, <2>3
<1>. QED
  BY <1>1, <1>2, <1>3, <1>4, KernelMoves DEF IInv

\* A kernel as it starts.
LEMMA NewKernel ==
    ASSUME NEW n \in Nat
    PROVE  SoundKernel([instance |-> n, revision |-> 0, generation |-> 0, module_revision |-> 0,
                        state |-> Unloaded, module |-> None, poisoned |-> FALSE])
  BY DEF SoundKernel, Whole

LEMMA RestartInv ==
    ASSUME IInv, restart
    PROVE  IInv'
<1>1. /\ instance' = instance + 1 /\ revision' = 0 /\ generation' = 0 /\ module_revision' = 0
      /\ state' = Unloaded /\ module' = None /\ poisoned' = FALSE /\ running' = None
      /\ orphans' = {}
      /\ call' = [p \in Page |-> IF call[p] # None /\ call[p].phase # "answered"
                                 THEN [call[p] EXCEPT !.phase = "dead"] ELSE call[p]]
      /\ UNCHANGED <<shown, choice, queue, tab, editorLink>>
  BY DEF restart
<1>2. SoundKernel(Snapshot') /\ Grows(Snapshot, Snapshot')
  <2>1. instance \in Nat
    BY DEF IInv, SoundKernel, Snapshot
  <2>2. instance' \in Nat /\ instance' > instance
    BY <1>1, <2>1
  <2>3. SoundKernel(Snapshot')
    BY <1>1, <2>2, NewKernel DEF Snapshot
  <2>4. Snapshot'.instance > Snapshot.instance
    BY <2>2 DEF Snapshot
  <2>. QED
    BY <2>3, <2>4 DEF Grows
<1>3. SoundRun'
  BY <1>1 DEF SoundRun
<1>4. ASSUME NEW p \in Page
      PROVE  SoundPage(shown[p], queue[p], call'[p], tab[p], editorLink[p], Snapshot')
  <2>1. SoundPage(shown[p], queue[p], call[p], tab[p], editorLink[p], Snapshot')
    BY <1>2, KernelMoves DEF IInv
  <2>2. call'[p] = call[p] \/ (call[p] # None /\ call'[p] = [call[p] EXCEPT !.phase = "dead"])
    BY <1>1
  <2>. QED
    BY <2>1, <2>2, DeadPage
<1>. QED
  BY <1>1, <1>2, <1>3, <1>4 DEF IInv

----------------------------------------------------------------------------
(* The steps of the server that leave the kernel                           *)

LEMMA PhaseIs ==
    ASSUME NEW c, IsCall(c), NEW phase, NEW d, d = [c EXCEPT !.phase = phase]
    PROVE  d = [entry |-> c.entry, seen |-> c.seen, draw |-> c.draw, phase |-> phase,
                cut |-> c.cut, answer |-> c.answer]
  BY DEF IsCall

LEMMA CutIs ==
    ASSUME NEW c, IsCall(c), NEW cut, NEW d, d = [c EXCEPT !.cut = cut]
    PROVE  d = [entry |-> c.entry, seen |-> c.seen, draw |-> c.draw, phase |-> c.phase,
                cut |-> cut, answer |-> c.answer]
  BY DEF IsCall

LEMMA AnswerIs ==
    ASSUME NEW c, IsCall(c), NEW answer, NEW d, d = [c EXCEPT !.answer = answer]
    PROVE  d = [entry |-> c.entry, seen |-> c.seen, draw |-> c.draw, phase |-> c.phase,
                cut |-> c.cut, answer |-> answer]
  BY DEF IsCall

\* The calls of all pages with that of one in another phase, or answered.
WithPhase(calls, p, phase) == [calls EXCEPT ![p].phase = phase]

WithAnswer(calls, p, cut, answer) ==
    [calls EXCEPT ![p].phase = "answered", ![p].cut = cut, ![p].answer = answer]

LEMMA PhaseAt ==
    ASSUME NEW calls, NEW p \in DOMAIN calls, IsCall(calls[p]), NEW phase
    PROVE  /\ DOMAIN WithPhase(calls, p, phase) = DOMAIN calls
           /\ \A q \in DOMAIN calls : q # p => WithPhase(calls, p, phase)[q] = calls[q]
           /\ WithPhase(calls, p, phase)[p] =
                  [entry |-> calls[p].entry, seen |-> calls[p].seen, draw |-> calls[p].draw,
                   phase |-> phase, cut |-> calls[p].cut, answer |-> calls[p].answer]
<1>. DEFINE calls2 == WithPhase(calls, p, phase)
<1>1. /\ calls2[p] = [calls[p] EXCEPT !.phase = phase]
      /\ DOMAIN calls2 = DOMAIN calls
      /\ \A q \in DOMAIN calls : q # p => calls2[q] = calls[q]
  BY DEF WithPhase
<1>. QED
  BY <1>1, PhaseIs

LEMMA AnsweredAt ==
    ASSUME NEW calls, NEW p \in DOMAIN calls, IsCall(calls[p]), NEW cut, NEW answer
    PROVE  /\ DOMAIN WithAnswer(calls, p, cut, answer) = DOMAIN calls
           /\ \A q \in DOMAIN calls :
                  q # p => WithAnswer(calls, p, cut, answer)[q] = calls[q]
           /\ WithAnswer(calls, p, cut, answer)[p] =
                  [entry |-> calls[p].entry, seen |-> calls[p].seen, draw |-> calls[p].draw,
                   phase |-> "answered", cut |-> cut, answer |-> answer]
<1>. DEFINE calls2 == WithAnswer(calls, p, cut, answer)
            c == calls[p]
            d == [c EXCEPT !.phase = "answered"]
            e == [d EXCEPT !.cut = cut]
            f == [e EXCEPT !.answer = answer]
<1>1. /\ calls2[p] = f
      /\ DOMAIN calls2 = DOMAIN calls
      /\ \A q \in DOMAIN calls : q # p => calls2[q] = calls[q]
  BY DEF WithAnswer
<1>2. d = [entry |-> c.entry, seen |-> c.seen, draw |-> c.draw, phase |-> "answered",
           cut |-> c.cut, answer |-> c.answer]
  BY PhaseIs
<1>3. e = [entry |-> c.entry, seen |-> c.seen, draw |-> c.draw, phase |-> "answered",
           cut |-> cut, answer |-> c.answer]
  <2>. HIDE DEF d
  <2>1. IsCall(d)
    BY <1>2 DEF IsCall
  <2>. HIDE DEF e
  <2>2. e = [d EXCEPT !.cut = cut]
    BY DEF e
  <2>3. e = [entry |-> d.entry, seen |-> d.seen, draw |-> d.draw, phase |-> d.phase,
             cut |-> cut, answer |-> d.answer]
    BY <2>1, <2>2, CutIs
  <2>. QED
    BY <1>2, <2>3
<1>4. f = [entry |-> c.entry, seen |-> c.seen, draw |-> c.draw, phase |-> "answered",
           cut |-> cut, answer |-> answer]
  <2>. HIDE DEF e
  <2>1. IsCall(e)
    BY <1>3 DEF IsCall
  <2>. HIDE DEF f
  <2>2. f = [e EXCEPT !.answer = answer]
    BY DEF f
  <2>3. f = [entry |-> e.entry, seen |-> e.seen, draw |-> e.draw, phase |-> e.phase,
             cut |-> e.cut, answer |-> answer]
    BY <2>1, <2>2, AnswerIs
  <2>. QED
    BY <1>3, <2>3
<1>. QED
  BY ONLY <1>1, <1>4

\* A page's call once it is answered.
LEMMA AnsweredIs ==
    ASSUME NEW p \in DOMAIN call, IsCall(call[p]), NEW loaded
    PROVE  /\ DOMAIN Answered(p, loaded) = DOMAIN call
           /\ \A q \in DOMAIN call : q # p => Answered(p, loaded)[q] = call[q]
           /\ Answered(p, loaded)[p] = AnsweredCall(call[p], loaded)
<1>1. Answered(p, loaded) =
          WithAnswer(call, p, CutNow(loaded), answer_page(call[p].seen, call[p].draw))
  BY DEF Answered, WithAnswer, CutNow
<1>. QED
  BY <1>1, AnsweredAt DEF AnsweredCall

\* What is to be shown of a step that leaves the kernel as it is.
LEMMA KernelRests ==
    ASSUME IInv, UNCHANGED <<clock, instance, poisoned>>
    PROVE  Snapshot' = Snapshot /\ SoundKernel(Snapshot')
  BY DEF clock, Snapshot, IInv

LEMMA AnswerOnlyInv ==
    ASSUME IInv, NEW p \in Page, answer_only(p)
    PROVE  IInv'
<1>1. /\ ~poisoned /\ running = None /\ call[p] # None /\ call' = Answered(p, FALSE)
      /\ UNCHANGED <<clock, instance, poisoned, running, orphans, shown, choice, queue, tab, editorLink>>
  BY DEF answer_only, Runnable, Sent, server
<1>2. Snapshot' = Snapshot /\ SoundKernel(Snapshot) /\ SoundKernel(Snapshot')
  BY <1>1, KernelRests DEF IInv
<1>3. SoundPage(shown[p], queue[p], call[p], tab[p], editorLink[p], Snapshot)
  BY DEF IInv
<1>4. SoundCall(call[p], shown[p], editorLink[p], Snapshot)
  BY <1>1, <1>3 DEF SoundPage
<1>5. /\ DOMAIN call' = DOMAIN call /\ call'[p] = AnsweredCall(call[p], FALSE)
      /\ \A q \in Page : q # p => call'[q] = call[q]
  <2>1. p \in DOMAIN call /\ DOMAIN call = Page
    BY DEF IInv
  <2>. QED
    BY <1>1, <1>4, <2>1, AnsweredIs DEF SoundCall
<1>6. SoundCall(AnsweredCall(call[p], FALSE), shown[p], editorLink[p], Snapshot)
  BY <1>1, <1>2, <1>3, <1>4, AnsweredIsSound DEF SoundPage
<1>7. SoundPage(shown[p], queue[p], call'[p], tab[p], editorLink[p], Snapshot)
  BY <1>3, <1>5, <1>6 DEF SoundPage, IInv
<1>8. SoundRun'
  BY <1>1 DEF SoundRun
<1>. QED
  BY <1>1, <1>2, <1>5, <1>7, <1>8 DEF IInv

LEMMA TakeInv ==
    ASSUME IInv, NEW p \in Page, take(p)
    PROVE  IInv'
<1>. DEFINE c == call[p]
            taken == [entry |-> c.entry, seen |-> c.seen, draw |-> c.draw, phase |-> "taken",
                      cut |-> c.cut, answer |-> c.answer]
<1>1. /\ ~poisoned /\ running = None /\ call[p] # None /\ call[p].phase = "sent" /\ Admitted(c.entry)
      /\ running' = [page |-> p, entry |-> c.entry, parts |-> 0]
      /\ call' = [call EXCEPT ![p].phase = "taken"]
      /\ UNCHANGED <<clock, instance, poisoned, orphans, shown, choice, queue, tab, editorLink>>
  BY DEF take, Runnable, Sent
<1>2. Snapshot' = Snapshot /\ SoundKernel(Snapshot')
  BY <1>1, KernelRests
<1>3. SoundPage(shown[p], queue[p], c, tab[p], editorLink[p], Snapshot)
  BY DEF IInv
<1>4. SoundCall(c, shown[p], editorLink[p], Snapshot)
  BY <1>1, <1>3 DEF SoundPage
<1>5. /\ DOMAIN call' = DOMAIN call /\ call'[p] = taken
      /\ \A q \in Page : q # p => call'[q] = call[q]
  <2>1. p \in DOMAIN call /\ DOMAIN call = Page
    BY DEF IInv
  <2>. QED
    <3>1. call' = WithPhase(call, p, "taken")
      BY <1>1 DEF WithPhase
    <3>2. IsCall(call[p])
      BY <1>4 DEF SoundCall
    <3>. HIDE DEF c
    <3>. QED
      BY <2>1, <3>1, <3>2, PhaseAt DEF c
<1>6. SoundCall(taken, shown[p], editorLink[p], Snapshot)
  BY <1>4 DEF SoundCall, IsCall
<1>7. call'[p] = taken /\ \A q \in Page : q # p => call'[q] = call[q]
  BY <1>5
<1>8. SoundPage(shown[p], queue[p], call'[p], tab[p], editorLink[p], Snapshot)
  BY <1>3, <1>6, <1>7 DEF SoundPage
<1>9. SoundRun'
  <2>1. c.entry.expect # None => c.entry.expect = Now'
    BY <1>1 DEF Admitted, stale, Now, clock
  <2>2. SoundEntry(c.entry, Snapshot')
    BY <1>2, <1>4 DEF SoundCall
  <2>3. SoundCall(call'[p], shown'[p], editorLink'[p], Snapshot')
    BY <1>1, <1>2, <1>6, <1>7
  <2>4. /\ running'.page = p /\ running'.entry = c.entry /\ running'.parts = 0
        /\ running' = [page |-> running'.page, entry |-> running'.entry, parts |-> running'.parts]
    BY <1>1
  <2>5. call'[p] # None /\ call'[p].phase = "taken" /\ call'[p].entry = c.entry
    <3>1. /\ c.entry \in Asked /\ c.seen \in Cut \cup {None} /\ c.draw \in Draw
          /\ c.cut = None /\ c.answer = None
      BY <1>1, <1>3, <1>4 DEF SoundCall, SoundPage, SoundCut, Admitted, Poll
    <3>2. taken \in [entry : Asked, seen : Cut \cup {None}, draw : Draw, phase : {"taken"},
                     cut : {None}, answer : {None}]
      <4>. HIDE DEF c
      <4>. QED
        BY <3>1
    <3>. QED
      BY <1>7, <3>2, WebAssumption
  <2>. HIDE DEF c, taken
  <2>. QED
    BY <1>1, <2>1, <2>2, <2>3, <2>4, <2>5 DEF SoundRun
<1>10. DOMAIN call' = Page
  BY <1>5 DEF IInv
<1>. QED
  BY <1>1, <1>2, <1>7, <1>8, <1>9, <1>10 DEF IInv

\* A call that no page waits for.
LEMMA TakeUnwatchedInv ==
    ASSUME IInv, NEW entry, SoundEntry(entry, Snapshot), take_unwatched(entry),
           orphans' \subseteq orphans
    PROVE  IInv'
<1>1. /\ ~poisoned /\ Admitted(entry)
      /\ running' = [page |-> None, entry |-> entry, parts |-> 0]
      /\ UNCHANGED <<clock, instance, poisoned, shown, choice, queue, call, tab, editorLink>>
  BY DEF take_unwatched, Runnable, pages
<1>2. Snapshot' = Snapshot /\ SoundKernel(Snapshot')
  BY <1>1, KernelRests
<1>3. SoundRun'
  <2>1. entry.expect # None => entry.expect = Now'
    BY <1>1 DEF Admitted, stale, Now, clock
  <2>2. /\ running'.page = None /\ running'.entry = entry /\ running'.parts = 0
        /\ running' = [page |-> running'.page, entry |-> running'.entry, parts |-> running'.parts]
    BY <1>1
  <2>. QED
    BY <1>1, <1>2, <2>1, <2>2 DEF SoundRun
<1>. QED
  BY <1>1, <1>2, <1>3 DEF IInv

LEMMA TakeOrphanInv ==
    ASSUME IInv, NEW entry \in orphans, take_orphan(entry)
    PROVE  IInv'
<1>1. SoundEntry(entry, Snapshot) /\ orphans' \subseteq orphans
  BY DEF IInv, take_orphan
<1>2. CASE take_unwatched(entry)
  BY <1>1, <1>2, TakeUnwatchedInv
<1>3. CASE UNCHANGED <<server, pages>>
  <2>1. UNCHANGED <<clock, instance, poisoned, running, shown, choice, queue, call, tab, editorLink>>
    BY <1>3 DEF server, pages
  <2>2. Snapshot' = Snapshot /\ SoundKernel(Snapshot')
    BY <2>1, KernelRests
  <2>3. SoundRun'
    BY <2>1, <2>2 DEF IInv, SoundRun, Now, clock
  <2>. QED
    BY <1>1, <2>1, <2>2, <2>3 DEF IInv
<1>. QED
  BY <1>2, <1>3 DEF take_orphan

LEMMA DoLineInv ==
    ASSUME IInv, do_line
    PROVE  IInv'
<1>. DEFINE entry == [kind |-> "eval", expect |-> None]
<1>1. SoundEntry(entry, Snapshot)
  BY DEF SoundEntry
<1>2. take_unwatched(entry) /\ orphans' = orphans
  BY DEF do_line
<1>. HIDE DEF entry
<1>. QED
  BY <1>1, <1>2, TakeUnwatchedInv

\* The end of a call: the page that waits for it has its answer.
LEMMA FinishInv ==
    ASSUME IInv, finish
    PROVE  IInv'
<1>. DEFINE loaded == running.entry.kind = "load_source" /\ module # None
<1>1. /\ running # None /\ running' = None
      /\ running.entry.kind = "load_source" => running.parts = 1
      /\ call' = IF running.page = None THEN call ELSE Answered(running.page, loaded)
      /\ UNCHANGED <<clock, instance, poisoned, orphans, shown, choice, queue, tab, editorLink>>
  BY DEF finish
<1>2. Snapshot' = Snapshot /\ SoundKernel(Snapshot) /\ SoundKernel(Snapshot')
  BY <1>1, KernelRests DEF IInv
<1>3. SoundRun' /\ ~poisoned
  BY <1>1 DEF IInv, SoundRun
<1>4. CASE running.page = None
  BY <1>1, <1>2, <1>3, <1>4 DEF IInv
<1>5. CASE running.page # None
  <2>. DEFINE p == running.page
  <2>1. /\ p \in Page /\ SoundCall(call[p], shown[p], editorLink[p], Snapshot)
        /\ call[p].entry = running.entry
    BY <1>1, <1>5 DEF IInv, SoundRun
  <2>2. SoundPage(shown[p], queue[p], call[p], tab[p], editorLink[p], Snapshot)
    BY <2>1 DEF IInv
  <2>3. /\ DOMAIN call' = DOMAIN call /\ call'[p] = AnsweredCall(call[p], loaded)
        /\ \A q \in Page : q # p => call'[q] = call[q]
    <3>1. call' = Answered(p, loaded)
      BY <1>1, <1>5
    <3>2. p \in DOMAIN call /\ DOMAIN call = Page
      BY <2>1 DEF IInv
    <3>. HIDE DEF p, loaded
    <3>. QED
      BY <2>1, <3>1, <3>2, AnsweredIs DEF SoundCall
  <2>4. loaded = TRUE => module \in Source /\ call[p].entry.source = module
    <3>. SUFFICES ASSUME loaded PROVE module \in Source /\ call[p].entry.source = module
      OBVIOUS
    <3>1. module = running.entry.source
      BY <1>1 DEF IInv, SoundRun
    <3>2. module \in Source
      BY DEF IInv, SoundKernel, Snapshot
    <3>. QED
      BY <2>1, <3>1, <3>2
  <2>. HIDE DEF p, loaded
  <2>5. SoundCall(AnsweredCall(call[p], loaded), shown[p], editorLink[p], Snapshot)
    BY <1>2, <1>3, <2>1, <2>2, <2>4, AnsweredIsSound DEF SoundPage
  <2>6. SoundPage(shown[p], queue[p], call'[p], tab[p], editorLink[p], Snapshot)
    BY <2>1, <2>2, <2>3, <2>5 DEF SoundPage, IInv
  <2>. QED
    BY <1>1, <1>2, <1>3, <2>1, <2>3, <2>6 DEF IInv
<1>. QED
  BY <1>4, <1>5

----------------------------------------------------------------------------
(* The steps of a page                                                     *)

\* What a step of one page leaves to the others.
Elsewhere(p) ==
    /\ DOMAIN shown' = Page /\ DOMAIN queue' = Page /\ DOMAIN call' = Page
    /\ DOMAIN tab' = Page /\ DOMAIN editorLink' = Page
    /\ \A q \in Page : q # p =>
           /\ shown'[q] = shown[q] /\ queue'[q] = queue[q] /\ call'[q] = call[q]
           /\ tab'[q] = tab[q] /\ editorLink'[q] = editorLink[q]

\* The call that holds the mutex is another's, or nothing of its page changes.
LEMMA RunRests ==
    ASSUME IInv, NEW p \in Page, Elsewhere(p), UNCHANGED <<clock, instance, poisoned, running>>,
           \/ running # None => running.page # p
           \/ UNCHANGED <<shown, call, editorLink>>
    PROVE  SoundRun'
<1>1. SUFFICES ASSUME running # None
               PROVE  SoundRun'
  BY DEF SoundRun
<1>2. Snapshot' = Snapshot /\ Now' = Now
  BY KernelRests DEF Now, clock
<1>3. SoundRun
  BY DEF IInv
<1>4. ASSUME running.page # None
      PROVE  /\ running.page \in Page
             /\ shown'[running.page] = shown[running.page]
             /\ call'[running.page] = call[running.page]
             /\ editorLink'[running.page] = editorLink[running.page]
  BY <1>1, <1>3, <1>4 DEF SoundRun, Elsewhere
<1>. QED
  BY <1>1, <1>2, <1>3, <1>4 DEF SoundRun, clock

\* What is to be shown of a step of one page.
LEMMA PageStepInv ==
    ASSUME IInv, NEW p \in Page, Elsewhere(p), UNCHANGED <<clock, instance, poisoned>>,
           \A e \in orphans' : SoundEntry(e, Snapshot),
           choice' \in [Page -> View], SoundRun',
           SoundPage(shown'[p], queue'[p], call'[p], tab'[p], editorLink'[p], Snapshot)
    PROVE  IInv'
<1>1. Snapshot' = Snapshot /\ SoundKernel(Snapshot')
  BY KernelRests
<1>2. ASSUME NEW q \in Page
      PROVE  SoundPage(shown'[q], queue'[q], call'[q], tab'[q], editorLink'[q], Snapshot)
  <2>1. CASE q = p
    BY <2>1
  <2>2. CASE q # p
    BY <2>2 DEF Elsewhere, IInv
  <2>. QED
    BY <2>1, <2>2
<1>. QED
  BY <1>1, <1>2 DEF IInv, Elsewhere

\* What is expected is what the page shows.
LEMMA GuardedIsSound ==
    ASSUME IInv, NEW p \in Page, shown[p] # None
    PROVE  /\ Guarded(p) \in [instance : Nat, revision : Nat] /\ shown[p].state \in Whole
           /\ \A e : /\ e.expect = Guarded(p) /\ e.saw = shown[p].state
                     /\ e.kind = "load_source" => e.source \in Source
                     => SoundEntry(e, Snapshot)
<1>. DEFINE s == shown[p]
<1>1. SoundCut(s, Snapshot)
  BY DEF IInv, SoundPage
<1>2. s.instance \in Nat /\ s.revision \in Nat /\ s.state \in Whole
  BY <1>1, CutFields DEF SoundCut
<1>3. Guarded(p) = [instance |-> s.instance, revision |-> s.revision]
  BY DEF Guarded
<1>. HIDE DEF s
<1>. QED
  BY <1>1, <1>2, <1>3 DEF SoundEntry, SoundCut, s

LEMMA AppendedIsSound ==
    ASSUME NEW q \in Seq(Asked), NEW e \in Asked, SoundEntry(e, Snapshot),
           \A i \in DOMAIN q : SoundEntry(q[i], Snapshot)
    PROVE  /\ Append(q, e) \in Seq(Asked)
           /\ \A i \in DOMAIN Append(q, e) : SoundEntry(Append(q, e)[i], Snapshot)
<1>1. ASSUME NEW i \in DOMAIN Append(q, e)
      PROVE  Append(q, e)[i] = e \/ (i \in DOMAIN q /\ Append(q, e)[i] = q[i])
  OBVIOUS
<1>. QED
  BY <1>1

\* A line or Evaluate joins the queue.
LEMMA QueuedInv ==
    ASSUME IInv, NEW p \in Page, NEW e \in Asked, SoundEntry(e, Snapshot),
           queue' = [queue EXCEPT ![p] = Append(@, e)],
           UNCHANGED <<server, orphans, shown, choice, call, tab, editorLink>>
    PROVE  IInv'
<1>1. UNCHANGED <<clock, instance, poisoned, running, orphans, shown, choice, call, tab, editorLink>>
  BY DEF server
<1>2. Elsewhere(p) /\ queue'[p] = Append(queue[p], e)
  BY <1>1 DEF Elsewhere, IInv
<1>3. SoundRun'
  BY <1>1, <1>2, RunRests
<1>4. SoundPage(shown[p], queue[p], call[p], tab[p], editorLink[p], Snapshot)
  BY DEF IInv
<1>5. SoundPage(shown[p], queue'[p], call[p], tab[p], editorLink[p], Snapshot)
  <2>1. queue'[p] \in Seq(Asked) /\ \A i \in DOMAIN queue'[p] : SoundEntry(queue'[p][i], Snapshot)
    BY <1>2, <1>4, AppendedIsSound DEF SoundPage
  <2>. QED
    BY <1>4, <2>1 DEF SoundPage
<1>. QED
  BY <1>1, <1>2, <1>3, <1>5, PageStepInv DEF IInv

LEMMA SubmitInv ==
    ASSUME IInv, NEW p \in Page, submit(p)
    PROVE  IInv'
<1>. DEFINE e == [kind |-> "eval", expect |-> Guarded(p), saw |-> shown[p].state]
<1>1. /\ shown[p] # None /\ queue' = [queue EXCEPT ![p] = Append(@, e)]
      /\ UNCHANGED <<server, orphans, shown, choice, call, tab, editorLink>>
  BY DEF submit
<1>2. e \in Asked /\ SoundEntry(e, Snapshot)
  BY <1>1, GuardedIsSound DEF Asked
<1>. HIDE DEF e
<1>. QED
  BY <1>1, <1>2, QueuedInv

LEMMA EvaluateSourceInv ==
    ASSUME IInv, NEW p \in Page, evaluateSource(p)
    PROVE  IInv'
<1>. DEFINE e == [kind |-> "load_source", expect |-> Guarded(p), saw |-> shown[p].state,
                  source |-> tab[p]]
<1>1. /\ shown[p] # None /\ tab[p] # None /\ queue' = [queue EXCEPT ![p] = Append(@, e)]
      /\ UNCHANGED <<server, orphans, shown, choice, call, tab, editorLink>>
  BY DEF evaluateSource
<1>2. tab[p] \in Source
  BY <1>1 DEF IInv, SoundPage
<1>3. e \in Asked /\ SoundEntry(e, Snapshot)
  BY <1>1, <1>2, GuardedIsSound DEF Asked
<1>. HIDE DEF e
<1>. QED
  BY <1>1, <1>3, QueuedInv

\* The user types, or closes the tab.
LEMMA TabInv ==
    ASSUME IInv, NEW p \in Page, NEW text \in Source \cup {None}, tab' = [tab EXCEPT ![p] = text],
           UNCHANGED <<server, orphans, shown, choice, queue, call, editorLink>>
    PROVE  IInv'
<1>1. UNCHANGED <<clock, instance, poisoned, running, orphans, shown, choice, queue, call, editorLink>>
  BY DEF server
<1>2. Elsewhere(p) /\ tab'[p] = text
  BY <1>1 DEF Elsewhere, IInv
<1>3. SoundRun'
  BY <1>1, <1>2, RunRests
<1>4. SoundPage(shown[p], queue[p], call[p], tab'[p], editorLink[p], Snapshot)
  BY <1>2 DEF IInv, SoundPage
<1>. QED
  BY <1>1, <1>2, <1>3, <1>4, PageStepInv DEF IInv

\* The user looks elsewhere, or comes back to the page, or its loop sleeps.
LEMMA LookInv ==
    ASSUME IInv, choice' \in [Page -> View],
           UNCHANGED <<server, orphans, shown, queue, call, tab, editorLink>>
    PROVE  IInv'
<1>1. UNCHANGED <<clock, instance, poisoned, running, orphans, shown, queue, call, tab, editorLink>>
  BY DEF server
<1>2. Snapshot' = Snapshot /\ Now' = Now
  BY <1>1, KernelRests DEF Now, clock
<1>3. SoundRun'
  BY <1>1, <1>2 DEF IInv, SoundRun, clock
<1>. QED
  BY <1>1, <1>2, <1>3 DEF IInv

LEMMA UserInv ==
    ASSUME IInv, NEW p \in Page, UserOf(p)
    PROVE  IInv'
<1>1. CASE submit(p)
  BY <1>1, SubmitInv
<1>2. CASE evaluateSource(p)
  BY <1>2, EvaluateSourceInv
<1>3. CASE close(p)
  BY <1>3, TabInv DEF close
<1>4. CASE focus(p)
  BY <1>4, LookInv DEF focus, IInv
<1>5. ASSUME NEW text \in Text, type(p, text)
      PROVE  IInv'
  <2>1. Typed(text) \in Source
    BY DEF Typed, Source
  <2>. QED
    BY <1>5, <2>1, TabInv DEF type
<1>6. ASSUME NEW view \in View, choicesChanged(p, view)
      PROVE  IInv'
  <2>1. choice' \in [Page -> View]
    BY <1>6 DEF choicesChanged, IInv
  <2>. QED
    BY <1>6, <2>1, LookInv DEF choicesChanged
<1>. QED
  BY <1>1, <1>2, <1>3, <1>4, <1>5, <1>6 DEF UserOf

\* A call is sent from what the page shows, with the first entry of its queue.
LEMMA DispatchInv ==
    ASSUME IInv, NEW p \in Page, dispatch(p)
    PROVE  IInv'
<1>. DEFINE entry == IF queue[p] # <<>> THEN Head(queue[p]) ELSE Poll
            draw == [v \in wanted(p) |-> v \in held(p)]
            sent == [entry |-> entry, seen |-> shown[p], draw |-> draw, phase |-> "sent",
                     cut |-> None, answer |-> None]
<1>1. /\ call[p] = None
      /\ call' = [call EXCEPT ![p] = sent]
      /\ queue' = [queue EXCEPT ![p] = IF @ = <<>> THEN @ ELSE Tail(@)]
      /\ UNCHANGED <<clock, instance, poisoned, running, orphans, shown, choice, tab, editorLink>>
  BY DEF dispatch, server
<1>2. SoundPage(shown[p], queue[p], call[p], tab[p], editorLink[p], Snapshot)
  BY DEF IInv
<1>3. queue[p] \in Seq(Asked) /\ \A i \in DOMAIN queue[p] : SoundEntry(queue[p][i], Snapshot)
  BY <1>2 DEF SoundPage
<1>4. entry \in Asked \cup {Poll} /\ SoundEntry(entry, Snapshot)
  <2>1. CASE queue[p] = <<>>
    BY <2>1 DEF SoundEntry, Poll
  <2>2. CASE queue[p] # <<>>
    <3>1. 1 \in DOMAIN queue[p] /\ entry = queue[p][1] /\ entry \in Asked
      BY <1>3, <2>2
    <3>. QED
      BY <1>3, <3>1
  <2>. QED
    BY <2>1, <2>2
<1>5. LET rest == IF queue[p] = <<>> THEN queue[p] ELSE Tail(queue[p])
      IN  rest \in Seq(Asked) /\ \A i \in DOMAIN rest : SoundEntry(rest[i], Snapshot)
  <2>1. CASE queue[p] = <<>>
    BY <1>3, <2>1
  <2>2. CASE queue[p] # <<>>
    <3>1. Tail(queue[p]) \in Seq(Asked)
      BY <1>3, <2>2
    <3>2. ASSUME NEW i \in DOMAIN Tail(queue[p])
          PROVE  i + 1 \in DOMAIN queue[p] /\ Tail(queue[p])[i] = queue[p][i + 1]
      BY <1>3, <2>2, <3>2
    <3>. QED
      BY <1>3, <2>2, <3>1, <3>2
  <2>. QED
    BY <2>1, <2>2
<1>6. draw \in Draw
  <2>1. wanted(p) \subseteq View
    BY WebAssumption DEF wanted, IInv
  <2>2. draw \in [wanted(p) -> BOOLEAN]
    OBVIOUS
  <2>. QED
    BY <2>1, <2>2 DEF Draw
<1>. HIDE DEF entry, draw
<1>7. SoundCall(sent, shown[p], editorLink[p], Snapshot)
  BY <1>4, <1>6 DEF SoundCall, IsCall
<1>. HIDE DEF sent
<1>8. /\ Elsewhere(p) /\ call'[p] = sent
      /\ queue'[p] = IF queue[p] = <<>> THEN queue[p] ELSE Tail(queue[p])
  BY <1>1 DEF Elsewhere, IInv
<1>9. SoundRun'
  <2>1. running # None => running.page # p
    BY <1>1, WebAssumption DEF IInv, SoundRun
  <2>. QED
    BY <1>1, <1>8, <2>1, RunRests
<1>10. SoundPage(shown[p], queue'[p], call'[p], tab[p], editorLink[p], Snapshot)
  BY <1>2, <1>5, <1>7, <1>8 DEF SoundPage
<1>. QED
  BY <1>1, <1>8, <1>9, <1>10, PageStepInv DEF IInv

\* A page gives a call up: the server may have it still.
LEMMA FailInv ==
    ASSUME IInv, NEW p \in Page, fail(p)
    PROVE  IInv'
<1>1. /\ call[p] # None /\ call' = [call EXCEPT ![p] = None]
      /\ orphans' \in {orphans, orphans \cup {call[p].entry}}
      /\ running' = IF running # None /\ running.page = p THEN [running EXCEPT !.page = None]
                    ELSE running
      /\ UNCHANGED <<clock, instance, poisoned, shown, choice, queue, tab, editorLink>>
  BY DEF fail
<1>2. SoundPage(shown[p], queue[p], call[p], tab[p], editorLink[p], Snapshot)
  BY DEF IInv
<1>3. SoundEntry(call[p].entry, Snapshot)
  BY <1>1, <1>2 DEF SoundPage, SoundCall
<1>4. \A e \in orphans' : SoundEntry(e, Snapshot)
  BY <1>1, <1>3 DEF IInv
<1>5. Elsewhere(p) /\ call'[p] = None
  BY <1>1 DEF Elsewhere, IInv
<1>6. SoundRun'
  <2>1. CASE running # None /\ running.page = p
    <3>1. /\ ~poisoned /\ running.parts \in Nat
          /\ running = [page |-> running.page, entry |-> running.entry, parts |-> running.parts]
          /\ SoundEntry(running.entry, Snapshot)
          /\ running.parts = 0 /\ running.entry.expect # None => running.entry.expect = Now
          /\ running.entry.kind = "load_source" /\ running.parts = 1 /\ module # None =>
                 module = running.entry.source
      BY <2>1 DEF IInv, SoundRun
    <3>2. running' = [page |-> None, entry |-> running.entry, parts |-> running.parts]
      BY <1>1, <2>1, <3>1
    <3>3. /\ running'.page = None /\ running'.entry = running.entry
          /\ running'.parts = running.parts
          /\ running' = [page |-> running'.page, entry |-> running'.entry, parts |-> running'.parts]
      BY <3>2
    <3>4. Snapshot' = Snapshot /\ Now' = Now
      BY <1>1, KernelRests DEF Now, clock
    <3>. QED
      BY <1>1, <3>1, <3>3, <3>4 DEF SoundRun, clock
  <2>2. CASE ~(running # None /\ running.page = p)
    BY <1>1, <1>5, <2>2, RunRests
  <2>. QED
    BY <2>1, <2>2
<1>7. SoundPage(shown[p], queue[p], call'[p], tab[p], editorLink[p], Snapshot)
  BY <1>2, <1>5 DEF SoundPage
<1>. QED
  BY <1>1, <1>4, <1>5, <1>6, <1>7, PageStepInv DEF IInv

\* An answer is committed: what it makes of the page is sound.
LEMMA CommitInv ==
    ASSUME IInv, NEW p \in Page, commit(p)
    PROVE  IInv'
<1>. DEFINE cut == call[p].cut
            answer == call[p].answer
            link == relink(editorLink[p], cut, call[p].entry)
            write == writes(link, cut, answer, tab[p])
            link2 == IF write THEN [link EXCEPT !.text = answer.module] ELSE link
            text2 == IF write THEN answer.module ELSE tab[p]
<1>1. /\ call[p] # None /\ call[p].phase = "answered"
      /\ shown' = [shown EXCEPT ![p] = reduce(shown[p], cut, answer)]
      /\ editorLink' = [editorLink EXCEPT ![p] = link2]
      /\ tab' = [tab EXCEPT ![p] = text2]
      /\ call' = [call EXCEPT ![p] = None]
      /\ \E view \in View : choice' = [choice EXCEPT ![p] = IF resets(answer) THEN view ELSE @]
      /\ UNCHANGED <<clock, instance, poisoned, running, orphans, queue>>
  BY DEF commit, server
<1>0. choice' \in [Page -> View]
  BY <1>1 DEF IInv
<1>2. SoundPage(shown[p], queue[p], call[p], tab[p], editorLink[p], Snapshot)
  BY DEF IInv
<1>3. SoundAnswer(call[p], shown[p], editorLink[p], Snapshot)
  BY <1>1, <1>2 DEF SoundPage, SoundCall
<1>4. /\ SoundCut(reduce(shown[p], cut, answer), Snapshot)
      /\ link # None => SoundLink(link, Snapshot)
      /\ linked(link, cut) /\ answer.module # Absent =>
             /\ Extends(answer.module, link.text)
             /\ SoundLink([link EXCEPT !.text = answer.module], Snapshot)
  BY <1>3 DEF SoundAnswer
<1>5. /\ Elsewhere(p) /\ shown'[p] = reduce(shown[p], cut, answer) /\ call'[p] = None
      /\ editorLink'[p] = link2 /\ tab'[p] = text2
  <2>. HIDE DEF cut, answer, link2, text2
  <2>. QED
    BY <1>1 DEF Elsewhere, IInv
<1>6. write => linked(link, cut) /\ answer.module # Absent
  BY DEF writes
<1>. HIDE DEF write, link, cut, answer
<1>7. /\ link2 # None => SoundLink(link2, Snapshot)
      /\ text2 \in Source \cup {None}
  <2>1. write => text2 \in Source
    BY <1>4, <1>6 DEF Extends
  <2>2. tab[p] \in Source \cup {None}
    BY <1>2 DEF SoundPage
  <2>. QED
    BY <1>4, <1>6, <2>1, <2>2
<1>. HIDE DEF link2, text2
<1>8. SoundPage(shown'[p], queue[p], call'[p], tab'[p], editorLink'[p], Snapshot)
  BY <1>2, <1>4, <1>5, <1>7 DEF SoundPage
<1>9. SoundRun'
  <2>1. running # None => running.page # p
    BY <1>1, WebAssumption DEF IInv, SoundRun
  <2>. QED
    BY <1>1, <1>5, <2>1, RunRests
<1>. QED
  BY <1>0, <1>1, <1>5, <1>8, <1>9, PageStepInv DEF IInv

----------------------------------------------------------------------------
(* The invariant                                                           *)

LEMMA InitInv ==
    ASSUME Init
    PROVE  IInv
<1>1. SoundKernel(Snapshot)
  BY NewKernel DEF Init, Kernel!Init, Snapshot
<1>2. ASSUME NEW p \in Page
      PROVE  SoundPage(shown[p], queue[p], call[p], tab[p], editorLink[p], Snapshot)
  <2>1. shown[p] = None /\ queue[p] = <<>> /\ call[p] = None /\ editorLink[p] = None
    BY DEF Init
  <2>2. tab[p] \in Source
    BY DEF Init, Typed, Source
  <2>. QED
    BY <2>1, <2>2 DEF SoundPage
<1>. QED
  BY <1>1, <1>2, WebAssumption DEF Init, IInv, SoundRun

LEMMA StutterInv ==
    ASSUME IInv, UNCHANGED vars
    PROVE  IInv'
<1>1. UNCHANGED <<server, orphans, shown, choice, queue, call, tab, editorLink>>
  BY DEF vars, pages
<1>. QED
  BY <1>1, LookInv DEF IInv

LEMMA NextInv ==
    ASSUME IInv, [Next]_vars
    PROVE  IInv'
<1>1. CASE Serve
  <2>1. ASSUME NEW p \in Page, answer_only(p) \/ take(p)
        PROVE  IInv'
    BY <2>1, AnswerOnlyInv, TakeInv
  <2>2. ASSUME NEW entry \in orphans, take_orphan(entry)
        PROVE  IInv'
    BY <2>2, TakeOrphanInv
  <2>. QED
    BY <1>1, <2>1, <2>2, LinePartInv, EvaluatePartInv, FinishInv DEF Serve
<1>2. CASE do_line
  BY <1>2, DoLineInv
<1>3. CASE Crash
  BY <1>3, PanicInv, RestartInv DEF Crash
<1>4. ASSUME NEW p \in Page, UserOf(p) \/ Turn(p) \/ Settle(p)
      PROVE  IInv'
  <2>1. CASE sleep(p)
    BY <2>1, LookInv DEF sleep, IInv
  <2>. QED
    BY <1>4, <2>1, UserInv, DispatchInv, FailInv, CommitInv DEF Turn, Settle
<1>5. CASE UNCHANGED vars
  BY <1>5, StutterInv
<1>. QED
  BY <1>1, <1>2, <1>3, <1>4, <1>5 DEF Next

\* What every page shows, waits for and holds of the kernel is sound, after any
\* steps of users, pages, network and server.
THEOREM Inductive == Spec => []IInv
<1>1. Init => IInv
  BY InitInv
<1>2. IInv /\ [Next]_vars => IInv'
  BY NextInv
<1>. QED
  BY <1>1, <1>2, PTL DEF Spec

\* Each display is from one cut of the kernel.
THEOREM DisplaysAreCuts == Spec => []OneCut
<1>1. IInv => OneCut
  BY DEF IInv, SoundPage, SoundCut, OneCut
<1>. QED
  BY <1>1, Inductive, PTL

\* What a page shows under the kernel's numbers is the kernel's.
THEOREM ShownIsTheKernels == Spec => []ShownIsCurrent
<1>1. IInv => ShownIsCurrent
  <2>. SUFFICES ASSUME IInv, ~poisoned, NEW p \in Page, shown[p] # None,
                       shown[p].instance = instance
                PROVE  /\ shown[p].revision =< revision
                       /\ shown[p].revision = revision => shown[p].state = state
                       /\ shown[p].module_revision = module_revision => shown[p].module = module
    BY DEF ShownIsCurrent
  <2>1. SoundCut(shown[p], Snapshot)
    BY DEF IInv, SoundPage
  <2>. QED
    BY <2>1 DEF SoundCut, Snapshot
<1>. QED
  BY <1>1, Inductive, PTL

\* A session torn by a panic reaches no page.
THEOREM NothingTornIsShown == Spec => []TornIsNotShown
<1>1. IInv => TornIsNotShown
  BY CutFields, WebAssumption DEF IInv, SoundPage, SoundCut, TornIsNotShown
<1>. QED
  BY <1>1, Inductive, PTL

\* What runs, runs on the state its user saw.
THEOREM RunsOnWhatWasSeen == Spec => RunsOnWhatWasShown
<1>1. ASSUME IInv, running # None, running.parts = 0, running.entry.expect # None
      PROVE  running.entry.saw = state
  <2>1. /\ ~poisoned /\ SoundEntry(running.entry, Snapshot)
        /\ running.entry.expect = [instance |-> instance, revision |-> revision]
    BY <1>1 DEF IInv, SoundRun, Now
  <2>. QED
    BY <1>1, <2>1 DEF SoundEntry, Snapshot
<1>2. IInv /\ [Next]_vars => [running # None /\ running'= [running EXCEPT !.parts = 1]
              /\ running.parts = 0 /\ running.entry.expect # None
              => running.entry.saw = state]_vars
  BY <1>1
<1>. QED
  BY <1>2, Inductive, PTL DEF Spec, RunsOnWhatWasShown

\* Only commit changes what is shown and the tab at once, and writes into the tab
\* what the kernel wrote into the text in it.
LEMMA OnlyCommitWrites ==
    ASSUME IInv, Next, NEW p \in Page, tab'[p] # tab[p], shown'[p] # shown[p]
    PROVE  tab'[p].text = tab[p].text /\ tab'[p].edits > tab[p].edits
<1>1. ASSUME NEW q \in Page, commit(q)
      PROVE  q = p
  <2>1. CASE q # p
    BY <1>1, <2>1 DEF commit, IInv
  <2>. QED
    BY <2>1
<1>2. commit(p)
  <2>1. \E q \in Page : commit(q)
    BY DEF Next, Serve, answer_only, take, take_orphan, take_unwatched, do_line, line_part,
           evaluate_part, finish, Crash, panic, restart, UserOf, submit, evaluateSource, type,
           close, choicesChanged, focus, Turn, sleep, dispatch, Settle, fail, pages
  <2>. QED
    BY <1>1, <2>1
<1>. DEFINE cut == call[p].cut
            answer == call[p].answer
            link == relink(editorLink[p], cut, call[p].entry)
<1>3. SoundAnswer(call[p], shown[p], editorLink[p], Snapshot)
  BY <1>2 DEF commit, IInv, SoundPage, SoundCall
<1>4. writes(link, cut, answer, tab[p]) /\ tab'[p] = answer.module
  BY <1>2 DEF commit, IInv
<1>5. /\ linked(link, cut) /\ answer.module # Absent /\ answer.module # link.text
      /\ tab[p] = link.text
  BY <1>4 DEF writes
<1>6. Extends(answer.module, link.text)
  BY <1>3, <1>5 DEF SoundAnswer
<1>. HIDE DEF answer, link
<1>. QED
  BY <1>4, <1>5, <1>6 DEF Extends, Source

\* An answer never takes away what was typed.
THEOREM EditsOnly == Spec => OnlyEditsAreWritten
<1>1. IInv /\ [Next]_vars => [\A p \in Page : tab'[p] # tab[p] /\ shown'[p] # shown[p] =>
           /\ tab'[p].text = tab[p].text
           /\ tab'[p].edits > tab[p].edits]_vars
  BY OnlyCommitWrites
<1>. QED
  BY <1>1, Inductive, PTL DEF Spec, OnlyEditsAreWritten
=============================================================================
