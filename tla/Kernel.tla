------------------------------- MODULE Kernel -------------------------------
(***************************************************************************)
(* The kernel and its session: interactive/kernel.rs and session.rs.       *)
(*                                                                         *)
(* A module is loaded from disk or from the browser's tabs; a session on   *)
(* it is idle, rewrites, or fills one hole of a map.  A history is its     *)
(* trail (module Steps): RewriteEngine keeps one, ZeroCellFill one of a    *)
(* step.                                                                   *)
(***************************************************************************)
EXTENDS Integers, Sequences, FiniteSets, SequencesExt

CONSTANTS
    Path,           \* the .ali files the file scope lets commands touch
    Text,           \* what users write in them
    Broken,         \* the texts that do not interpret
    Hole,           \* the holes of the maps the module defines ...
    HoleOrder,      \* [Hole -> Nat]: ... and their place in the lists of holes
    Leaves,         \* [Text -> SUBSET Hole]: those a text leaves open
    Needs,          \* [Hole -> SUBSET Hole]: those its boundary mentions
    Pinned,         \* those written in a `for` block, where no fill can go
    Cell,           \* the 0-cells, which fill the holes of dimension 0
    ZeroHole,       \* the holes of dimension 0
    Diagram,        \* what sessions rewrite, all parallel
    Boundary,       \* [Hole \ ZeroHole -> Diagram \X Diagram]
    Rewrites,       \* the pairs of diagrams a match goes between
    Together,       \* the pairs several disjoint matches go between at once
    Name,           \* names a proof can be stored under
    None, Memory,
    MaxSteps,       \* bound: steps recorded
    MaxRevision     \* bound: commands that count

\* What the kernel can hold: definitions by name and fillers by hole, sources,
\* what they interpret to, and the activity of a session.
Lets == UNION {[names -> Seq(Diagram)] : names \in SUBSET Name}
Fills == UNION {[holes -> Seq(Diagram \cup Cell)] : holes \in SUBSET Hole}
Source == [text : Text, fills : Fills, lets : Lets]
Store == [open : SUBSET Hole, lets : Lets]
File == [path : Path \cup {Memory}, source : Source, store : Store]
Activity ==
    [kind : {"idle"}]
    \cup [kind : {"rewrite", "fill"}, hole : Hole \cup {None}, trail : Seq(Diagram), at : Nat,
          target : Diagram \cup {None}, parallel : BOOLEAN, store : Store]
    \cup [kind : {"zero_cell"}, hole : Hole, trail : Seq(Cell \cup {None}), at : Nat]

ASSUME KernelAssumption ==
    /\ Leaves \in [Text -> SUBSET Hole]
    /\ Boundary \in [Hole \ ZeroHole -> Diagram \X Diagram] /\ HoleOrder \in [Hole -> Nat]
    /\ Rewrites \cup Together \subseteq Diagram \X Diagram
    /\ None \notin Diagram \cup Path \cup Cell \cup File /\ Memory \notin Path \cup {None}
    /\ None \notin [path : Path \cup {Memory}, backward : BOOLEAN, activity : Activity,
                    number : Nat]

VARIABLES
    file,           \* the loaded module, or None
    activity, begun, backward,
    in_memory,      \* the session's loader: the tabs, not the disk
    last_load,
    revision, generation, module_revision,
    reply,          \* the last answer
    disk,           \* [Path -> source or None]
    dependencies    \* whether what the modules on disk include interprets

session == <<file, activity, begun, backward, in_memory>>
counters == <<revision, generation, module_revision>>
outside == <<disk, dependencies>>
vars == <<session, last_load, counters, reply, outside>>

With(f, x, v) == [y \in DOMAIN f \cup {x} |-> IF y = x THEN v ELSE f[y]]

----------------------------------------------------------------------------
(* Modules                                                                 *)

\* A source: what a user wrote, with the clauses `done` put in and the
\* definitions `store` added.
Written(text) == [text |-> text, fills |-> <<>>, lets |-> <<>>]

interpret(source) == [open |-> Leaves[source.text] \ DOMAIN source.fills, lets |-> source.lets]

\* An interpretation reads the root and, again, everything it includes.
Interprets(source, memory) == source.text \notin Broken /\ (memory \/ dependencies)

Module(path, source) == [path |-> path, source |-> source, store |-> interpret(source)]

\* The holes left, each with its number.
list_open_holes ==
    [hole \in file.store.open |->
        Cardinality({before \in file.store.open : HoleOrder[before] < HoleOrder[hole]})]

HoleNumbered(index) == CHOOSE hole \in file.store.open : list_open_holes[hole] = index

----------------------------------------------------------------------------
(* Histories                                                               *)

Idle == [kind |-> "idle"]

Active == activity.kind # "idle"
Engine == activity.kind \in {"rewrite", "fill"}

engine(kind, hole, trail, target) ==
    [kind |-> kind, hole |-> hole, trail |-> trail, at |-> Len(trail) - 1, target |-> target,
     parallel |-> TRUE, store |-> file.store]

zero_cell_fill(hole) == [kind |-> "zero_cell", hole |-> hole, trail |-> <<None>>, at |-> 0]

Forward(trail) == IF backward THEN Reverse(trail) ELSE trail

Here == activity.trail[activity.at + 1]

Leads(pairs, a, b) == IF backward THEN <<b, a>> \in pairs ELSE <<a, b>> \in pairs

Applied == SubSeq(activity.trail, 1, activity.at + 1)

\* Fault: the steps in the order the session took them.
filled_with_in_session_order == IF activity.kind = "zero_cell" THEN <<Here>> ELSE Applied

filled_with == IF activity.kind = "zero_cell" THEN <<Here>> ELSE Forward(Applied)

Complete == IF activity.kind = "zero_cell" THEN activity.at = 1 ELSE Here = activity.target

----------------------------------------------------------------------------
(* Commands                                                                *)

\* What a command is doing to the session: `Begin`, then in the order of the
\* code, `Require` where it returns an error and `Assign` where it assigns.
\* After an error it does nothing more, and nothing it did is put back.
Begin == [status |-> "ok", file |-> file, activity |-> activity, begun |-> begun,
          backward |-> backward]

Require(work, test) ==
    IF work.status = "ok" /\ ~test THEN [work EXCEPT !.status = "error"] ELSE work

Assign(work, field, value) ==
    IF work.status = "ok" THEN [work EXCEPT ![field] = value] ELSE work

Answer(edited) == reply' = [status |-> "ok", generation |-> generation', edited |-> edited]

Refuse == reply' = [status |-> "error", generation |-> generation', edited |-> FALSE]

\* What a command has made of the session is there, refused or not.
Leave(work) ==
    /\ file' = work.file /\ activity' = work.activity
    /\ begun' = work.begun /\ backward' = work.backward
    /\ UNCHANGED in_memory
    /\ work.activity.kind # "idle" => work.activity.at =< MaxSteps

\* Fault: an edit that does not date the module.
Mutate_undated(work, edits) ==
    /\ file # None
    /\ revision < MaxRevision
    /\ revision' = revision + 1
    /\ UNCHANGED <<generation, module_revision, last_load, outside>>
    /\ Leave(work)
    /\ IF work.status = "ok" THEN Answer(edits) ELSE Refuse

\* A command that may change the session counts before it runs, and counts when
\* it is refused; one that edited the module dates it.
Mutate(work, edits) ==
    /\ file # None
    /\ revision < MaxRevision
    /\ revision' = revision + 1
    /\ UNCHANGED <<generation, last_load, outside>>
    /\ Leave(work)
    /\ IF work.status = "ok"
       THEN Answer(edits) /\ module_revision' = IF edits THEN revision' ELSE module_revision
       ELSE Refuse /\ UNCHANGED module_revision

\* What only reads the session, and what is refused before it reaches it: a
\* line that does not parse, a path out of scope, a command with nothing
\* loaded, a `load` with no file to repeat, a `save` of the browser's source.
answer_reply == UNCHANGED <<session, last_load, counters, outside>> /\ Answer(FALSE)
refusal == UNCHANGED <<session, last_load, counters, outside>> /\ Refuse

----------------------------------------------------------------------------
(* Loading and saving                                                      *)

load(path, source, memory) ==
    /\ revision < MaxRevision
    /\ revision' = revision + 1
    /\ generation' = revision' /\ module_revision' = revision'
    /\ last_load' = IF memory THEN Memory ELSE path
    /\ activity' = Idle /\ begun' = 0 /\ backward' = FALSE
    /\ in_memory' = memory
    /\ IF Interprets(source, memory)
       THEN file' = Module(path, source) /\ Answer(FALSE)
       ELSE file' = None /\ Refuse
    /\ UNCHANGED outside

open(path) == disk[path] # None /\ load(path, disk[path], FALSE)

open_text(text) == load(Memory, Written(text), TRUE)

\* `load` with no path.
load_again == last_load \in Path /\ open(last_load)

save(path) ==
    /\ file # None
    /\ ~in_memory
    /\ disk' = [disk EXCEPT ![path] = file.source]
    /\ UNCHANGED <<session, last_load, counters, dependencies>>
    /\ Answer(FALSE)

----------------------------------------------------------------------------
(* Sessions                                                                *)

begin(work, new) == Assign(Assign(work, "activity", new), "begun", begun + 1)

ensure_idle == Require(Begin, activity = Idle)

start(initial, target) ==
    Mutate(begin(ensure_idle, engine("rewrite", None, <<initial>>, target)), FALSE)

\* A stored proof, all its steps applied.
resume(name, target) ==
    LET proof == Require(ensure_idle, name \in DOMAIN file.store.lets
                                      /\ Len(file.store.lets[name]) > 1)
    IN  Mutate(begin(proof, engine("rewrite", None, Forward(file.store.lets[name]), target)), FALSE)

\* The session on a hole: from one side of its boundary to the other.
fill_session(hole) ==
    LET in == Boundary[hole][1]
        out == Boundary[hole][2]
    IN  IF hole \in ZeroHole THEN zero_cell_fill(hole)
        ELSE engine("fill", hole, <<IF backward THEN out ELSE in>>, IF backward THEN in ELSE out)

\* Fault: a hole filled before those its boundary mentions.
begin_fill_blocked(index) ==
    LET numbered == Require(ensure_idle, \E h \in file.store.open : list_open_holes[h] = index)
    IN  Mutate(begin(numbered, fill_session(HoleNumbered(index))), FALSE)

begin_fill(index) ==
    LET hole == HoleNumbered(index)
        numbered == Require(ensure_idle, \E h \in file.store.open : list_open_holes[h] = index)
        unblocked == Require(numbered, Needs[hole] \cap file.store.open = {})
    IN  Mutate(begin(unblocked, fill_session(hole)), FALSE)

stop == Mutate(Assign(Begin, "activity", Idle), FALSE)

\* In a session the direction is only reported.
set_backward(on) ==
    Mutate(Assign(Begin, "backward", IF activity = Idle THEN on ELSE backward), FALSE)

Moved(trail, at) == [activity EXCEPT !.trail = trail, !.at = at]

\* The history with what comes after the steps applied; the redo buffer goes.
Extended(new) == Moved(Applied \o new, activity.at + Len(new))

apply_choice(next) ==
    LET choice == Require(Begin, IF activity.kind = "zero_cell" THEN next \in Cell
                                 ELSE Engine /\ Leads(Rewrites, Here, next))
        after == IF activity.kind = "zero_cell" THEN Moved(<<None, next>>, 1)
                 ELSE Extended(<<next>>)
    IN  Mutate(Assign(choice, "activity", after), FALSE)

apply_choices(next) ==
    LET choices == Require(Begin, Engine /\ activity.parallel /\ Leads(Together, Here, next))
    IN  Mutate(Assign(choices, "activity", Extended(<<next>>)), FALSE)

\* A drive through `new`; `random` takes one match at a time, and keeps the redo
\* buffer when it applies nothing.  RewriteEngine says which steps they take.
engine_auto(new, random) ==
    LET run == <<Here>> \o new
        pairs == IF ~random /\ activity.parallel THEN Rewrites \cup Together ELSE Rewrites
        driven == IF random /\ new = <<>> THEN activity ELSE Extended(new)
    IN  /\ Engine => \A i \in 1 .. Len(new) : Leads(pairs, run[i], run[i + 1])
        /\ Mutate(Assign(Require(Begin, Engine), "activity", driven), FALSE)

\* `undo` and `redo`, one step or to a step: undo_to must not go forward, and
\* redo_to a step that is applied already stays.
travel(to, redo) ==
    LET steps == Require(Begin, Active)
        found == Require(steps, to \in 0 .. IF redo THEN Len(activity.trail) - 1 ELSE activity.at)
        there == IF redo /\ to < activity.at THEN activity.at ELSE to
    IN  Mutate(Assign(found, "activity", [activity EXCEPT !.at = there]), FALSE)

set_parallel(on) ==
    Mutate(Assign(Require(Begin, Engine), "activity", [activity EXCEPT !.parallel = on]), FALSE)

\* The source with the hole under way filled.
edit_for_fill(root) == [root EXCEPT !.fills = With(@, activity.hole, filled_with)]

\* A session that may be done: its filler is there, and has a clause to go to.
fillable == Require(Begin, /\ activity.kind \in {"fill", "zero_cell"}
                           /\ Complete
                           /\ activity.hole \notin Pinned)

\* An evaluation over whatever holds the other modules; over the disk the
\* module's own file must be there.
Reloads(source) == (in_memory \/ disk[file.path] # None) /\ Interprets(source, in_memory)

\* Fault: the session is idle before the module is evaluated again.
finalize_fill_idle_first ==
    LET idle == Assign(fillable, "activity", Idle)
        loaded == Require(idle, Reloads(edit_for_fill(file.source)))
    IN  Mutate(Assign(loaded, "file", Module(file.path, edit_for_fill(file.source))), TRUE)

\* Fault: the root is the file as it is on disk, not as it was edited.
finalize_fill_of_disk ==
    LET source == edit_for_fill(IF in_memory THEN file.source ELSE disk[file.path])
        loaded == Require(fillable, in_memory \/ disk[file.path] # None)
        filled == Assign(Require(loaded, Reloads(source)), "file", Module(file.path, source))
    IN  Mutate(Assign(filled, "activity", Idle), TRUE)

\* `done`: the filler goes into the running source, which is evaluated again;
\* the session is over when that succeeds.
finalize_fill ==
    LET source == edit_for_fill(file.source)
        loaded == Require(fillable, Reloads(source))
        filled == Assign(loaded, "file", Module(file.path, source))
    IN  Mutate(Assign(filled, "activity", Idle), TRUE)

\* The store with the proof so far under a name, and the source that says so.
register_proof(store, name) == [store EXCEPT !.lets = With(@, name, Forward(Applied))]

\* Fault: the session keeps the store it had.
store_proof_engine_only(name) ==
    LET store == register_proof(activity.store, name)
        free == Require(Require(Begin, Engine), name \notin DOMAIN activity.store.lets)
        registered == Assign(free, "activity", [activity EXCEPT !.store = store])
    IN  Mutate(Assign(registered, "file", [file EXCEPT !.source = register_proof(@, name)]), TRUE)

\* `store`: the proof goes into the engine's store, unless the name is taken
\* there; then the module has that store, and the definition in its source.
\* Nothing is evaluated again.
store_proof(name) ==
    LET store == register_proof(activity.store, name)
        source == register_proof(file.source, name)
        free == Require(Require(Begin, Engine), name \notin DOMAIN activity.store.lets)
        registered == Assign(free, "activity", [activity EXCEPT !.store = store])
        kept == Assign(registered, "file", [file EXCEPT !.store = store])
    IN  Mutate(Assign(kept, "file", [file EXCEPT !.store = store, !.source = source]), TRUE)

----------------------------------------------------------------------------
(* Other programs write the files.                                         *)

disk_changes(path, text) ==
    /\ disk' = [disk EXCEPT ![path] = IF text = None THEN None ELSE Written(text)]
    /\ UNCHANGED <<session, last_load, counters, reply, dependencies>>

dependencies_change ==
    /\ dependencies' = ~dependencies
    /\ UNCHANGED <<session, last_load, counters, reply, disk>>

----------------------------------------------------------------------------

Init ==
    /\ file = None /\ activity = Idle /\ begun = 0 /\ backward = FALSE /\ in_memory = FALSE
    /\ last_load = None
    /\ revision = 0 /\ generation = 0 /\ module_revision = 0
    /\ reply = None
    /\ disk \in [Path -> {Written(text) : text \in Text}]
    /\ dependencies = TRUE

Runs == UNION {[1 .. n -> Diagram] : n \in 0 .. MaxSteps}

Next ==
    \/ answer_reply
    \/ refusal
    \/ \E path \in Path : open(path) \/ save(path)
    \/ \E text \in Text : open_text(text)
    \/ load_again
    \/ \E initial \in Diagram, target \in Diagram \cup {None} : start(initial, target)
    \/ \E name \in Name, target \in Diagram \cup {None} : resume(name, target)
    \/ \E index \in 0 .. Cardinality(Hole) - 1 : begin_fill(index)
    \/ stop
    \/ \E on \in BOOLEAN : set_backward(on) \/ set_parallel(on)
    \/ \E next \in Diagram \cup Cell : apply_choice(next)
    \/ \E next \in Diagram : apply_choices(next)
    \/ \E new \in Runs, random \in BOOLEAN : engine_auto(new, random)
    \/ \E to \in -1 .. MaxSteps + 1, redo \in BOOLEAN : travel(to, redo)
    \/ finalize_fill
    \/ \E name \in Name : store_proof(name)
    \/ \E path \in Path, text \in Text \cup {None} : disk_changes(path, text)
    \/ dependencies_change

Spec == Init /\ [][Next]_vars

----------------------------------------------------------------------------
(* Properties                                                              *)

\* The module in the store is the one its source defines, though `store` adds
\* to each by itself and evaluates nothing; and the session works on that store.
StoreIsWhatTheSourceSays ==
    /\ file # None => file.store = interpret(file.source)
    /\ Engine => activity.store = file.store

\* The hole being filled is open, and so is none its boundary mentions: what
\* the other commands of the session do to the module does not close it.
FillIsOfAnOpenHole ==
    activity.kind \in {"fill", "zero_cell"} =>
        /\ activity.hole \in file.store.open
        /\ Needs[activity.hole] \cap file.store.open = {}

\* A hole is only ever filled by a proof that goes from its input to its output
\* by steps that apply, whichever way the session rewrote.
FillersHaveTheBoundary ==
    file # None => \A hole \in DOMAIN file.source.fills :
        LET filler == file.source.fills[hole] IN
        IF hole \in ZeroHole THEN filler \in [1 .. 1 -> Cell]
        ELSE /\ <<filler[1], filler[Len(filler)]>> = Boundary[hole]
             /\ \A i \in 1 .. Len(filler) - 1 :
                    <<filler[i], filler[i + 1]>> \in Rewrites \cup Together

Grows(f, g) == DOMAIN f \subseteq DOMAIN g /\ \A x \in DOMAIN f : g[x] = f[x]

\* Within a load no fill and no stored proof is lost or changed, whatever
\* happens to the files on disk.
EditsSurvive ==
    [][file # None /\ generation' = generation =>
           /\ file' # None
           /\ file'.source.text = file.source.text
           /\ Grows(file.source.fills, file'.source.fills)
           /\ Grows(file.source.lets, file'.source.lets)]_vars

\* No command but a load is refused half way: what it returns an error for is
\* known before it assigns anything, though nothing would put that back.  A fill
\* whose module does not evaluate again is there to be retried, and a name that
\* is taken in the store is not in the source.
RefusedIsUndone ==
    [][revision' # revision /\ reply'.status = "error" /\ generation' = generation =>
           UNCHANGED session]_vars

\* What the pages are shown: the activity, and its number while there is one.
StateImage ==
    IF file = None THEN None
    ELSE [path |-> file.path, backward |-> backward, activity |-> activity,
          number |-> IF Active THEN begun ELSE 0]

Clock == INSTANCE KernelClock WITH Unloaded <- None, state <- StateImage, module <- file

\* Whatever changes in the session moves the revision, and in the module the
\* module revision; nothing else does but a refused command.
ImplementsClock == Clock!Spec
=============================================================================
