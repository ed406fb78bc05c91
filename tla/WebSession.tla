----------------------------- MODULE WebSession -----------------------------
(***************************************************************************)
(* One kernel, shared by browser pages and by `do` over HTTP: the call     *)
(* surface (interactive/rpc.rs) behind the server's mutex (cli             *)
(* server.rs), and the call loop of each page (frontend sync.js).          *)
(*                                                                         *)
(* The kernel is its clock (module KernelClock).  A call holds the mutex   *)
(* while its line runs, part by part; its answer is one cut of the clock.  *)
(***************************************************************************)
EXTENDS Integers, Sequences, FiniteSets

CONSTANTS
    Page,           \* open browser pages
    Image,          \* what a loaded session can look like
    Torn,           \* what one left in the middle of a command looks like
    Text,           \* what users type in their editor
    OnDisk,         \* the text of the file a line can load
    View, Current,  \* what a page can draw; Current is drawn always
    Unloaded, None, \* the state and the module with nothing loaded
    Absent,         \* a field an answer leaves out
    MaxRevision, MaxInstance, MaxEdits, MaxParts, MaxQueue, MaxOrphans    \* bounds

\* What the kernel can hold when no call panicked, and a module with what was
\* written into it since it was loaded.
Whole == Image \cup {Unloaded}
Source == [text : Text \cup {OnDisk}, edits : Nat]

\* What a page can show, ask its views for, and queue.
Cut == [instance : Nat, revision : Nat, module_revision : Nat,
        state : Whole, module : Source \cup {None},
        views : UNION {[drawn -> Whole \X (Source \cup {None})] : drawn \in SUBSET View}]
Draw == UNION {[views -> BOOLEAN] : views \in SUBSET View}
Asked == [kind : {"eval"}, expect : [instance : Nat, revision : Nat], saw : Whole]
         \cup [kind : {"load_source"}, expect : [instance : Nat, revision : Nat], saw : Whole,
               source : Source]

ASSUME WebAssumption ==
    /\ Current \in View /\ OnDisk \notin Text /\ None \notin Page
    /\ Unloaded \notin Image /\ Torn \notin Whole
    /\ Absent \notin Whole /\ Absent \notin Source
    /\ Absent \notin Whole \X (Source \cup {None})
    /\ None \notin [entry : Asked, seen : Cut \cup {None}, draw : Draw, phase : {"taken"},
                    cut : {None}, answer : {None}]

VARIABLES
    revision, generation, module_revision, state, module,    \* the kernel
    instance,       \* the server process
    poisoned,       \* a call panicked holding the mutex
    running,        \* None, or the call that holds the mutex
    orphans,        \* requests in the network that no page waits for
    shown,          \* [Page -> None or the cut the page shows]
    choice,         \* [Page -> View]: what its user looks at
    queue,          \* [Page -> Seq(Entry)]: what its user asked for
    asleep,         \* [Page -> BOOLEAN]: its loop waits to be woken
    call,           \* [Page -> None or the call it awaits]
    quiet,          \* [Page -> SUBSET View]: views whose request failed
    focusDemand,    \* [Page -> "none", or "due"; "outdated": raised when the
                    \* answer in flight was already older than the kernel]
    tab,            \* [Page -> None (closed) or the text in the editor]
    editorLink      \* [Page -> None or what the tab was loaded as]

Kernel == INSTANCE KernelClock

clock == <<revision, generation, module_revision, state, module>>
server == <<clock, instance, poisoned, running>>
pages == <<shown, choice, queue, asleep, call, quiet, focusDemand, tab, editorLink>>
vars == <<server, orphans, pages>>

Typed(text) == [text |-> text, edits |-> 0]

Now == [instance |-> instance, revision |-> revision]

Poll == [kind |-> "poll", expect |-> None]

----------------------------------------------------------------------------
(* The server                                                              *)

\* Fault: numbers of two server processes compared.
stale_by_number(expect) == expect # None /\ expect.revision # revision

stale(expect) == expect # None /\ expect # Now

\* Whether an entry's line or Evaluate may run.
Admitted(entry) == entry.kind # "poll" /\ ~stale(entry.expect)

\* Fault: the poisoned mutex is entered.
Runnable_poisoned == running = None

Runnable == ~poisoned /\ running = None

\* What a view shows is drawn from the session and its module.
Drawing == <<state, module>>

\* Fault: what the page has seen of another process counts.
answer_page_by_number(seen, draw) ==
    LET state_changed == seen = None \/ seen.revision # revision
        module_changed == seen = None \/ seen.module_revision # module_revision
    IN  [state |-> IF state_changed THEN state ELSE Absent,
         module |-> IF module_changed /\ module # None THEN module ELSE Absent,
         views |-> [v \in DOMAIN draw |-> IF state_changed \/ ~draw[v] THEN Drawing ELSE Absent]]

\* What the page does not already hold in this cut.
answer_page(seen, draw) ==
    LET known == seen # None /\ seen.instance = instance
        state_changed == ~known \/ seen.revision # revision
        module_changed == ~known \/ seen.module_revision # module_revision
    IN  [state |-> IF state_changed THEN state ELSE Absent,
         module |-> IF module_changed /\ module # None THEN module ELSE Absent,
         views |-> [v \in DOMAIN draw |-> IF state_changed \/ ~draw[v] THEN Drawing ELSE Absent]]

\* The answer to a page's call, `loaded` for an Evaluate that succeeded: one cut.
Answered(p, loaded) ==
    [call EXCEPT ![p].phase = "answered",
                 ![p].cut = [instance |-> instance, revision |-> revision, generation |-> generation,
                             module_revision |-> module_revision, loaded |-> loaded],
                 ![p].answer = answer_page(call[p].seen, call[p].draw)]

Sent(p) == call[p] # None /\ call[p].phase = "sent"

\* A poll, or a call that is refused: nothing runs.
answer_only(p) ==
    /\ Runnable /\ Sent(p) /\ ~Admitted(call[p].entry)
    /\ call' = Answered(p, FALSE)
    /\ UNCHANGED <<server, orphans, shown, choice, queue, asleep, quiet, focusDemand, tab, editorLink>>

\* Any other call takes the mutex.
take(p) ==
    /\ Runnable /\ Sent(p) /\ Admitted(call[p].entry)
    /\ running' = [page |-> p, entry |-> call[p].entry, parts |-> 0]
    /\ call' = [call EXCEPT ![p].phase = "taken"]
    /\ UNCHANGED <<clock, instance, poisoned, orphans, shown, choice, queue, asleep, quiet,
                   focusDemand, tab, editorLink>>

take_unwatched(entry) ==
    /\ Runnable /\ Admitted(entry)
    /\ running' = [page |-> None, entry |-> entry, parts |-> 0]
    /\ UNCHANGED <<clock, instance, poisoned, pages>>

\* A request whose page has given up arrives, to run or to be refused.
take_orphan(entry) ==
    /\ orphans' = orphans \ {entry}
    /\ \/ take_unwatched(entry)
       \/ Runnable /\ ~Admitted(entry) /\ UNCHANGED <<server, pages>>

\* `do`: an unguarded line that no page waits for.
do_line == take_unwatched([kind |-> "eval", expect |-> None]) /\ UNCHANGED orphans

\* The next part of a line: it may change the session, edit the module, or load.
line_part ==
    /\ running # None /\ running.entry.kind = "eval"
    /\ running.parts < MaxParts
    /\ revision < MaxRevision
    /\ running' = [running EXCEPT !.parts = @ + 1]
    /\ \/ \E image \in Image : Kernel!Act(image)
       \/ /\ module # None /\ module.edits < MaxEdits
          /\ \E image \in Image : Kernel!Edit(image, [module EXCEPT !.edits = @ + 1])
       \/ \E image \in Image : Kernel!Load(image, Typed(OnDisk))
       \/ Kernel!Load(Unloaded, None)
    /\ UNCHANGED <<instance, poisoned, orphans, pages>>

evaluate_part ==
    /\ running # None /\ running.entry.kind = "load_source"
    /\ running.parts = 0
    /\ revision < MaxRevision
    /\ running' = [running EXCEPT !.parts = 1]
    /\ \/ \E image \in Image : Kernel!Load(image, running.entry.source)
       \/ Kernel!Load(Unloaded, None)
    /\ UNCHANGED <<instance, poisoned, orphans, pages>>

\* A part that panics leaves the session in the middle of it.  (Bound: not in
\* the last process.)
panic ==
    /\ running # None
    /\ instance < MaxInstance
    /\ poisoned' = TRUE
    /\ running' = None
    /\ revision' \in {revision, revision + 1} /\ revision' =< MaxRevision
    /\ state' \in {state, Torn}
    /\ call' = [p \in Page |-> IF p = running.page THEN [call[p] EXCEPT !.phase = "dead"] ELSE call[p]]
    /\ UNCHANGED <<generation, module_revision, module, instance, orphans, shown, choice, queue,
                   asleep, quiet, focusDemand, tab, editorLink>>

restart ==
    /\ instance < MaxInstance
    /\ instance' = instance + 1
    /\ revision' = 0 /\ generation' = 0 /\ module_revision' = 0
    /\ state' = Unloaded /\ module' = None
    /\ poisoned' = FALSE /\ running' = None
    /\ orphans' = {}
    /\ call' = [p \in Page |-> IF call[p] # None /\ call[p].phase # "answered"
                               THEN [call[p] EXCEPT !.phase = "dead"] ELSE call[p]]
    /\ UNCHANGED <<shown, choice, queue, asleep, quiet, focusDemand, tab, editorLink>>

\* The end of a call: its answer is cut before the mutex is released.
finish ==
    /\ running # None
    /\ running.entry.kind = "load_source" => running.parts = 1
    /\ call' = IF running.page = None THEN call
               ELSE Answered(running.page, running.entry.kind = "load_source" /\ module # None)
    /\ running' = None
    /\ UNCHANGED <<clock, instance, poisoned, orphans, shown, choice, queue, asleep, quiet,
                   focusDemand, tab, editorLink>>

----------------------------------------------------------------------------
(* The user of a page                                                      *)

\* What it wants drawn, and what of it is neither held nor quiet.
wanted(p) == {Current, choice[p]}
held(p) == IF shown[p] = None THEN {} ELSE DOMAIN shown[p].views
missing(p) == wanted(p) \ (held(p) \cup quiet[p])

\* The loop goes on, if it sleeps.
signal(p) == asleep' = [asleep EXCEPT ![p] = FALSE]

\* captureExpectation: what the page shows when its user acts.  `saw` is only
\* history: the state shown then.
Guarded(p) == [instance |-> shown[p].instance, revision |-> shown[p].revision]

submit(p) ==
    /\ shown[p] # None
    /\ Len(queue[p]) < MaxQueue
    /\ queue' = [queue EXCEPT ![p] =
                   Append(@, [kind |-> "eval", expect |-> Guarded(p), saw |-> shown[p].state])]
    /\ signal(p)
    /\ UNCHANGED <<server, orphans, shown, choice, call, quiet, focusDemand, tab, editorLink>>

evaluateSource(p) ==
    /\ shown[p] # None /\ tab[p] # None
    /\ Len(queue[p]) < MaxQueue
    /\ queue' = [queue EXCEPT ![p] =
                   Append(@, [kind |-> "load_source", expect |-> Guarded(p), saw |-> shown[p].state,
                              source |-> tab[p]])]
    /\ signal(p)
    /\ UNCHANGED <<server, orphans, shown, choice, call, quiet, focusDemand, tab, editorLink>>

type(p, text) ==
    /\ tab[p] # None
    /\ tab' = [tab EXCEPT ![p] = Typed(text)]
    /\ UNCHANGED <<server, orphans, shown, choice, queue, asleep, call, quiet, focusDemand,
                   editorLink>>

close(p) ==
    /\ tab[p] # None
    /\ tab' = [tab EXCEPT ![p] = None]
    /\ UNCHANGED <<server, orphans, shown, choice, queue, asleep, call, quiet, focusDemand,
                   editorLink>>

\* Fault: what is missing is asked before what failed is forgotten.
choicesChanged_signal_first(p, view) ==
    /\ choice' = [choice EXCEPT ![p] = view]
    /\ quiet' = [quiet EXCEPT ![p] = {}]
    /\ asleep' = [asleep EXCEPT ![p] = @ /\ {Current, view} \ (held(p) \cup quiet[p]) = {}]
    /\ UNCHANGED <<server, orphans, shown, queue, call, focusDemand, tab, editorLink>>

\* Only a view that is missing wakes the loop.
choicesChanged(p, view) ==
    /\ choice' = [choice EXCEPT ![p] = view]
    /\ quiet' = [quiet EXCEPT ![p] = {}]
    /\ asleep' = [asleep EXCEPT ![p] = @ /\ {Current, view} \subseteq held(p)]
    /\ UNCHANGED <<server, orphans, shown, queue, call, focusDemand, tab, editorLink>>

focus(p) ==
    /\ focusDemand' = [focusDemand EXCEPT ![p] =
                         IF /\ call[p] # None /\ call[p].phase = "answered"
                            /\ <<call[p].cut.instance, call[p].cut.revision>> # <<instance, revision>>
                         THEN "outdated" ELSE "due"]
    /\ signal(p)
    /\ UNCHANGED <<server, orphans, shown, choice, queue, call, quiet, tab, editorLink>>

----------------------------------------------------------------------------
(* The call loop of a page                                                 *)

Due(p) == queue[p] # <<>> \/ focusDemand[p] # "none" \/ missing(p) # {}

\* With nothing to do the loop sleeps: nothing comes between test and sleep.
sleep(p) ==
    /\ call[p] = None /\ ~asleep[p]
    /\ ~Due(p)
    /\ asleep' = [asleep EXCEPT ![p] = TRUE]
    /\ UNCHANGED <<server, orphans, shown, choice, queue, call, quiet, focusDemand, tab, editorLink>>

\* The next call of the loop; what it asks to draw is chosen now.
dispatch(p) ==
    /\ call[p] = None /\ ~asleep[p]
    /\ Due(p)
    /\ call' = [call EXCEPT ![p] =
                  [entry |-> IF queue[p] # <<>> THEN Head(queue[p]) ELSE Poll,
                   seen |-> shown[p],
                   draw |-> [v \in wanted(p) |-> v \in held(p)],
                   phase |-> "sent", cut |-> None, answer |-> None]]
    /\ queue' = [queue EXCEPT ![p] = IF @ = <<>> THEN @ ELSE Tail(@)]
    /\ focusDemand' = [focusDemand EXCEPT ![p] = "none"]
    /\ UNCHANGED <<server, orphans, shown, choice, asleep, quiet, tab, editorLink>>

\* The views a failed request asked for that the page does not hold.
failed(draw) == {v \in DOMAIN draw : ~draw[v]}

\* The page hears of a failure and goes on.  The request may still arrive, or
\* be running.
fail(p) ==
    /\ call[p] # None
    /\ quiet' = [quiet EXCEPT ![p] = failed(call[p].draw)]
    /\ call' = [call EXCEPT ![p] = None]
    /\ orphans' \in IF call[p].phase = "sent" /\ call[p].entry.kind # "poll"
                        /\ Cardinality(orphans) < MaxOrphans
                     THEN {orphans, orphans \cup {call[p].entry}} ELSE {orphans}
    /\ running' = IF running # None /\ running.page = p THEN [running EXCEPT !.page = None] ELSE running
    /\ UNCHANGED <<clock, instance, poisoned, shown, choice, queue, asleep, focusDemand, tab,
                   editorLink>>

\* Faults: views kept under a new state; what is left out taken for nothing.
reduce_keeping_views(old, cut, p) ==
    LET kept == IF old = None THEN <<>> ELSE old.views
        new == {v \in DOMAIN p.views : p.views[v] # Absent}
    IN  [instance |-> cut.instance, revision |-> cut.revision,
         module_revision |-> cut.module_revision,
         state |-> IF p.state # Absent THEN p.state ELSE old.state,
         module |-> IF p.module # Absent THEN p.module
                    ELSE IF old # None /\ old.instance = cut.instance
                            /\ old.module_revision = cut.module_revision
                    THEN old.module ELSE None,
         views |-> [v \in DOMAIN kept \cup new |-> IF v \in DOMAIN kept THEN kept[v] ELSE p.views[v]]]

\* Install an answer over the cut shown: what it leaves out is still held.
reduce(old, cut, p) ==
    LET kept == IF old = None \/ p.state # Absent THEN <<>> ELSE old.views
        new == {v \in DOMAIN p.views : p.views[v] # Absent}
    IN  [instance |-> cut.instance, revision |-> cut.revision,
         module_revision |-> cut.module_revision,
         state |-> IF p.state # Absent THEN p.state ELSE old.state,
         module |-> IF p.module # Absent THEN p.module
                    ELSE IF old # None /\ old.instance = cut.instance
                            /\ old.module_revision = cut.module_revision
                    THEN old.module ELSE None,
         views |-> [v \in DOMAIN kept \cup new |-> IF v \in new THEN p.views[v] ELSE kept[v]]]

\* A successful Evaluate links the tab to what it loaded.
relink(link, cut, entry) ==
    IF cut.loaded
    THEN [instance |-> cut.instance, generation |-> cut.generation, text |-> entry.source]
    ELSE link

linked(link, cut) ==
    link # None /\ link.instance = cut.instance /\ link.generation = cut.generation

\* Fault: the tab is written whatever its user did since.
writes_over(link, cut, p, text) == linked(link, cut) /\ p.module \notin {Absent, link.text} /\ text # None

\* Whether the source of the answer goes to the tab: it has moved, and the tab
\* has not.
writes(link, cut, p, text) ==
    /\ linked(link, cut)
    /\ p.module \notin {Absent, link.text}
    /\ text = link.text

\* A new state or module may end what the page's choices stand on.
resets(p) == p.state # Absent \/ p.module # Absent

commit(p) ==
    /\ call[p] # None /\ call[p].phase = "answered"
    /\ LET cut == call[p].cut
           answer == call[p].answer
           link == relink(editorLink[p], cut, call[p].entry)
           write == writes(link, cut, answer, tab[p])
       IN  /\ shown' = [shown EXCEPT ![p] = reduce(@, cut, answer)]
           /\ editorLink' = [editorLink EXCEPT ![p] =
                               IF write THEN [link EXCEPT !.text = answer.module] ELSE link]
           /\ tab' = [tab EXCEPT ![p] = IF write THEN answer.module ELSE @]
           /\ \E view \in View : choice' = [choice EXCEPT ![p] = IF resets(answer) THEN view ELSE @]
    /\ quiet' = [quiet EXCEPT ![p] = {}]
    /\ focusDemand' = [focusDemand EXCEPT ![p] = "none"]
    /\ call' = [call EXCEPT ![p] = None]
    /\ UNCHANGED <<server, orphans, queue, asleep>>

----------------------------------------------------------------------------

Init ==
    /\ Kernel!Init
    /\ instance = 1 /\ poisoned = FALSE /\ running = None /\ orphans = {}
    /\ shown = [p \in Page |-> None]
    /\ choice = [p \in Page |-> Current]
    /\ queue = [p \in Page |-> <<>>]
    /\ asleep = [p \in Page |-> FALSE]
    /\ call = [p \in Page |-> None]
    /\ quiet = [p \in Page |-> {}]
    /\ focusDemand = [p \in Page |-> "due"]
    /\ tab \in [Page -> {Typed(text) : text \in Text}]
    /\ editorLink = [p \in Page |-> None]

Serve ==
    \/ \E p \in Page : answer_only(p) \/ take(p)
    \/ \E entry \in orphans : take_orphan(entry)
    \/ line_part
    \/ evaluate_part
    \/ finish

Crash == panic \/ restart

UserOf(p) ==
    \/ submit(p) \/ evaluateSource(p) \/ close(p) \/ focus(p)
    \/ \E text \in Text : type(p, text)
    \/ \E view \in View : choicesChanged(p, view)

Turn(p) == sleep(p) \/ dispatch(p)

Settle(p) == fail(p) \/ commit(p)

Next ==
    \/ Serve
    \/ do_line
    \/ Crash
    \/ \E p \in Page : UserOf(p) \/ Turn(p) \/ Settle(p)

Spec == Init /\ [][Next]_vars

\* The loop of a page runs whenever it can, and every fetch settles, one way or
\* the other; nothing is assumed of the network, the server or the users.
FairSpec == Spec /\ \A p \in Page : WF_vars(Turn(p)) /\ WF_vars(Settle(p))

----------------------------------------------------------------------------
(* Properties                                                              *)

\* "each display is from one cut of the kernel" (docs/INTERACTIVE.md): a page
\* shows no view of another state or module than those it shows.
OneCut ==
    \A p \in Page : shown[p] # None =>
        \A v \in DOMAIN shown[p].views : shown[p].views[v] = <<shown[p].state, shown[p].module>>

\* A page that shows the kernel's revision shows the kernel's state, and one
\* that shows its module revision shows its module: what answers leave out,
\* restarts and lost answers never leave a page with another.
ShownIsCurrent ==
    ~poisoned => \A p \in Page : shown[p] # None /\ shown[p].instance = instance =>
        /\ shown[p].revision =< revision
        /\ shown[p].revision = revision => shown[p].state = state
        /\ shown[p].module_revision = module_revision => shown[p].module = module

\* A page's line or Evaluate runs only on the state its user saw when acting,
\* though it may wait in the queue, or arrive after the page gave it up.
RunsOnWhatWasShown ==
    [][running # None /\ running'= [running EXCEPT !.parts = 1] /\ running.parts = 0
           /\ running.entry.expect # None
           => running.entry.saw = state]_vars

\* The editor changes by its user's hand or by the kernel's edits of the very
\* text in it: an answer never takes away what was typed.
OnlyEditsAreWritten ==
    [][\A p \in Page : tab'[p] # tab[p] /\ shown'[p] # shown[p] =>
           /\ tab'[p].text = tab[p].text
           /\ tab'[p].edits > tab[p].edits]_vars

\* After a panic the torn session reaches no page, until the server restarts.
TornIsNotShown == \A p \in Page : shown[p] # None => shown[p].state # Torn

\* When nothing happens to it, a page comes to rest: its loop sleeps and
\* everything it was asked is done.  It does not call for ever for what fails,
\* nor sleep on what it was not woken for.
AtRest(p) == asleep[p] /\ ~Due(p)

PagesRest == \A p \in Page : <>[][~UserOf(p)]_vars => <>[]AtRest(p)

\* "focus() asks for a fresh cut; any answer arriving after it is that cut"
\* (sync.js): a cut no older than the focus.
FocusIsFresh ==
    [][\A p \in Page : shown'[p] # shown[p] => focusDemand[p] # "outdated"]_vars
=============================================================================
