# A TLA+ development of alifib

alifib is an interpreter of higher-dimensional rewriting: a program declares
complexes (types whose generators are cells of any dimension, glued along
diagrams of lower ones), partial maps between them, and proofs, which are
diagrams of one dimension more. Around the interpreter stand an interactive
session (rewrite a diagram, or fill a hole of a map), a kernel that loads modules
and runs sessions, a call surface for browser pages and for `do` over HTTP, and
the pages' own call loop.

Paths below are relative to the repository; `PROJECT.json` maps every
definition to the lines it models.

## 1. The system

| Component | State it keeps | Operations | Talks to |
|---|---|---|---|
| Rewrite engine, `src/interactive/engine.rs` | initial, target and current diagram; recorded steps and choices with a redo tail; the menu; a cached proof; its store | step, step_multi, auto, random, undo, redo, undo_to, redo_to, set_parallel, proof_diagram, register_proof, from_diagrams, resume | matcher (pure), store (copy on write) |
| 0-cell choice, `fill.rs` `ZeroCellFill` | at most one chosen cell, and whether it is applied | choose, undo, redo | kernel |
| Hole filling, `fill.rs` | none of its own | list_open_holes, start_fill, filler, edit_for_fill | engine, store, source text |
| Session and kernel, `session.rs`, `kernel.rs` | loaded file with its source, activity, direction, last load; revision, generation, module revision | open, open_text, load, save, and every session command | loader, engine, disk |
| Call surface and server, `rpc.rs`, `cli/src/server.rs` | instance number; a mutex over the kernel | eval, load_source, poll; each answer one cut of the state | kernel; pages; `do` |
| Page call loop, `web/frontend/src/sync.js` | queue, the call awaited, the cut shown, views held and quietened, focus demand, editor link | enqueue, dispatch, sleep, reduce, settle, commit, fail, focus, choicesChanged | app.js, server |
| Module loader, `src/aux/loader.rs` | module store, resolutions, visited set, search path of each call | load, resolve_recursive | files |
| Load pipeline, `interpreter/load.rs`, `eval.rs`, `include.rs`, `resolve.rs` | global store, module names, context, errors | interpret each module in order, include, for-blocks, map domains | loader, store |
| Elaboration, `interpreter/eval.rs`, `include.rs`, `binding.rs`, `diagram.rs`, `types.rs` over `global_store.rs`, `core/complex.rs` | cells, types and modules of the store, each a complex with its indices; the complex a block works on | generators, includes, attachments, let, map, assert, indices, for-blocks, local blocks; dotted expressions | map builder, diagrams |
| Map builder, `interpreter/partial_map.rs`, `core/partial_map.rs`, `map_hole.rs` | committed images, pending entries with metavariables | assign_cell, ensure_defined, commit, cascade, compose | diagrams |
| Shapes and diagrams, `core/ogposet.rs`, `diagram.rs`, `pushout.rs`, `flow.rs`, `paste_tree.rs`, `reconstruct.rs` | values, with a flag for canonical order and a history of paste trees | boundary, normalisation, paste, pushout, reconstruct | - |
| Matching, `core/matching.rs` | values | candidates, confirmation, steps, greedy family | shapes |
| Analysis, code generation, language, output, command line | values, text | pure functions and I/O | - |

`PROJECT.json` "components" lists all of them, with what is left out and why.

**What is hard here.** Nothing in the interpreter runs concurrently; the
difficulty is in five places.

1. *Long sequences of legal calls.* The engine keeps five pieces of state that
   every operation must keep in step, in two directions, with a redo tail and a
   proof cache that is only extended, never rebuilt. The kernel adds an activity
   that works on a copy-on-write store, over a source text that is edited and
   evaluated again while the files under it may change.
2. *Concurrency and loss around the kernel.* Several pages and `do` share one
   kernel behind one mutex. A page acts on what it shows, its call waits in a
   queue, in the network and for the mutex; answers leave out what the page
   holds; a call may be lost after it ran, panic while it holds the mutex, or
   reach a restarted server; a user types while an answer is on its way.
3. *Order in the loader.* Includes form a graph with diamonds, cycles, links
   and several directories; modules are stored, interpreted and looked up in
   the order of a depth-first walk over files that may change under it.
4. *Redundancy in diagrams.* A diagram is a shape, labels, and for each side
   and dimension the paste tree it came from; steps take trees they never
   realised, shapes skip the normalisation a flag says they had, matches are
   found through flow graphs. Any of these going out of step with the others
   shows only in what is compared or pasted later.
5. *Order in definitions.* Clauses of a map wait for each other, composites are
   built of maps still under way, includes and attachments enter the same
   generators along several paths, and names are followed through maps in
   whatever order is cheapest.

"hazards" in `PROJECT.json` gives each at its line, with the properties that
would catch it.

**What makes each component correct.**
Engine: the steps compose, the diagram and the menu are those of the active
step by whatever route, recorded choices replay, and a stored proof is that of
the applied steps. Kernel: the store is what the source says, only an unblocked
open hole is filled and by something with its boundary, refused commands change
nothing, no edit is lost, the clock dates every change. Pages: one cut, current
when its number says so, no line run on what its user did not see, no typing
lost, rest. Loader: dependencies first, errors only for real causes, the file's
own directory first, an end. Interpretation: what is included is ready, and
success means everything was interpreted. Diagrams: histories realise to the
boundaries they are kept for, boundaries are canonical, diagrams are found again
from shape and labels. Matching: all matches, each once; a maximal family.
Maps: functorial, whatever the order of the clauses; nothing ready is pending,
nothing given is lost; composites are pointwise. Elaboration: the indices
agree, every map in a scope preserves boundaries, dotted names mean one thing,
and what fails changes nothing.

## 2. Modules

| Module | Models | Kind |
|---|---|---|
| `Steps` | the trait `Steps`: a linear history with a redo buffer | abstract specification |
| `RewriteEngine` | `RewriteEngine` | detailed; implements `Steps` |
| `KernelClock` | what the kernel promises those who watch it by number | abstract specification |
| `Kernel` | `Kernel`, `Session`, and the hole filling they drive | detailed; implements `KernelClock` |
| `WebSession` | pages, network, mutex and server over `KernelClock` | composition |
| `Loader` | `Loader`, `ModuleStore`, `resolve_recursive` | detailed |
| `Interpretation` | `InterpretedFile::load` over `Loader` | composition |
| `Shapes` | oriented graded posets, embeddings, the canonical traversal | operators |
| `Diagrams` | diagrams, pushouts, pastes, cells | operators over `Shapes` |
| `PasteTrees` | paste trees and what they realise to | operators over `Diagrams` |
| `Reconstruct` | flow graphs, topological orders, layers | operators over `PasteTrees` |
| `Occurrences` | rule patterns, embeddings of them in a diagram, the spans of a step | operators over `Diagrams` |
| `Matching` | the search for candidates, steps, greedy families | operators over `Reconstruct`, `Occurrences` |
| `Rewriting` | pasting a diagram, starting or resuming a session on it, rewriting it | composition of the six above |
| `MapTables` | maps as tables of images | operators over `Diagrams` |
| `PartialMaps` | application, extension and composition of maps | operators over `MapTables`, `PasteTrees` |
| `MapsWithHoles` | the map builder | operators over `PartialMaps` |
| `MapDefinitions` | definitions of maps by clauses | composition of the three above |
| `Scopes` | complexes as tables, the names in them | operators over `MapTables` |
| `Expressions` | dotted expressions, pastes, map expressions | operators over `Scopes`, `MapsWithHoles` |
| `Elaboration` | the interpreter of whole modules over the global store | over `Scopes`; programs and the meaning of expressions are constants, which `MCElaboration` gives as those of `Expressions` |
| `RewriteEngine_proofs`, `Kernel_proofs`, `WebSession_proofs`, `Loader_proofs`, `Interpretation_proofs`, `Shapes_proofs`, `Diagrams_proofs`, `Elaboration_proofs` | theorems about the modules they are named for (`Diagrams_proofs` also about `Occurrences`); `Interpretation_proofs` builds on `Loader_proofs`, `Elaboration_proofs` on `Diagrams_proofs`, and that on `Shapes_proofs` | proofs |
| `MC*` | constants of the instances | model checking |

Operators whose name carries a suffix and whose comment begins with *Fault*
are no part of a model: each is a plausible mistake in one definition, and
putting it in the place of that definition must make the named property fail
("mutants" in `PROJECT.json`).

### RewriteEngine

A diagram, a step, and the menu of a diagram are data: `Matches` gives the
confirmed matches in menu order in each direction, `Families` the steps of
compatible sets, `Greedy` what parallel `auto` picks. `steps` is the Rust
vector with its redo tail, `active_len` the field of that name, and a history
entry is its `choice` (`{}` for `None`). `seek`, `truncate_redo`, `Record` and
`refresh_rewrites` are the helpers of the code; every operation ends in one of
them as there. A proof is its steps in paste order with a flag for the unit
that pasting onto a step-0 snapshot would leave in. `auto` and `random` are one
action each: a drive through intermediate diagrams that goes on as long as the
loop does. `MatcherAssumption` says what the matcher promises: a match starts
at the diagram matched, and a greedy family of one is the first match
(`try_or_shrink` only ever drops members from the end). It does *not* promise
that the greedy family is non-empty when the menu is.

### Kernel

A source is its text, the fills put into it and the definitions stored in it;
`interpret` is what evaluating it gives. A command is written in the order of
its code, on a record of the session's fields: `Begin`, then `Require` wherever
it returns an error and `Assign` wherever it assigns. After an error nothing
more happens, and nothing that was assigned is put back, for the code has no
rollback. `Mutate` is `Kernel::execute`: it counts before it runs the command,
leaves whatever the command has made of the session, refused or not (`Leave`),
and dates the module when the answer edits it. `trail` is a history as `Steps` sees it, so that rewriting, filling by a
proof and choosing a 0-cell are one shape. Other programs write the file
(`disk_changes`) and what it includes (`dependencies_change`) at any time.

### WebSession

A page's loop is `dispatch`, then `commit` or `fail`, and `sleep` when nothing
is due: JavaScript lets nothing come between that test and the sleep. What wakes
it is the `signal` of an event, and `choicesChanged` gives one only if a view is
missing, as the code does; `commit`, which may reset choices under a new state or
module, gives none. The server is `take`,
parts of a line, `finish`; the mutex is held between, so that other pages'
calls wait while the user of every page goes on acting. `do` is an unguarded
line nobody waits for. A failed fetch may leave its request in the network
(`orphans`), or running. `panic` poisons the mutex with the session torn;
`restart` starts a process with the same numbers from zero. `saw` in a queued
entry is a history variable, read by no action: the state shown when the user
acted.

### Loader and Interpretation

`resolve_recursive` is an explicit stack of frames (file, includes left, search
path), one action per outcome of one include. The includes left are positions
in the program, the first of them the next to make. A disk maps files (directory and
name) to a text: a program, missing, unreadable, broken. A program is its
sequence of items; an include inside a for-block (`"for"`) is seen by the
interpreter and not by `collect_includes`. `Canonical` lets two paths name one
file. `Interpretation` starts where the walk ends and interprets item by item,
one module after the other, in the loader's order.

### Shapes, Diagrams, PasteTrees, Reconstruct, Occurrences, Matching, Rewriting

A cell of a shape is a pair of dimension and position, and a shape gives each
cell its input and output faces; cofaces are read off the faces. The traversal
that puts a shape in canonical order is a function of its stack and of the cells
marked so far. A diagram is a shape, labels, and `history`, as in the
code. `paste` and `cell` glue by `multi_pushout`. `reconstruct` follows the
code: the dimension to cut at, the flow of the maximal cells, an order of it
(one below dimension 4, at most `Limit` from there on), one layer for each
cell, and the check of sizes when the code realises the tree; below dimension
4 a step keeps its tree unrealised. A candidate is found as in the code, by a
backtracking search for the pattern's flow graph in the diagram's
(`Matching`) and a test of the closure of the cells it hits
(`check_match_isomorphism` in `Occurrences`); `Confirmed` constructs the step.
The traversal, the pushout and everything in `Occurrences` are recursive
functions or none, so that they can be proved about; trees, flow graphs and the
search use RECURSIVE operators.

`Rewriting` is the same session as `RewriteEngine`'s with the data left in: a
diagram is pasted from generators, on either side and at any dimension, starts
a session or resumes one, and is rewritten by any confirmed match, or by
parallel auto. `RewriteEngine` takes menus and families as data, with
`MatcherAssumption`; `MatchesAreAll` and `AutoIsMaximal` are what stands behind
it.

### MapTables, PartialMaps, MapsWithHoles, MapDefinitions

A map is a table of images with the flag `cellular`. A map under construction
adds `holes`, in the order they were made: an image or `Unknown`, and the two
boundary trees in which a pending face stands for its image
(`Metavariable`). `assign_cell`, `ensure_defined`, `upsert_entry`, `commit_one`
and `cascade` are those of the code; a clause that fails leaves `Failed`, as the
code drops the build. In `MapDefinitions` a definition starts from nothing, from
a map or from a composite, takes any clauses of a list in any order, and is named
when it is valid.

### Scopes, Expressions and Elaboration

A name is a sequence of parts. A complex is the record of the five tables of
`Complex`. `Elaboration` asks what an expression stands for in the store of its
state and nowhere else: `diagram_as_term`, `pmap_as_term` and `map_applied` are
its constants, so that what is proved of it holds whatever expressions mean. A
program is data: instructions with their expressions as trees, of which the action `Omit` may leave out any that is not marked as kept, so that
one run interprets every selection. `frame` is the block being
interpreted and `scope` the copy of the complex it works on; the store holds
`complexes` by module and by type, the boundaries of cells (`cell_data`) and
their classifiers. An instruction is one action: it commits or, at any of its
early returns, reports and leaves the rest to the next one. In a local block
the first failure ends the block, also from inside a for-block
(`interpret_items_in_type_scope` looks at the merged errors).

## 3. Checks

| Run | Shows | Bounds, and why they are enough |
|---|---|---|
| `rewrite_session` | AtTheActiveStep, HistoryReplays, CacheIsAPrefix, StoreBindsTheActiveProof, ImplementsSteps | A diamond of two independent rewrites, its parallel family, and one step that needs both; histories of 3, drives of 2: a cached prefix, a step past it, an undo behind it and a different branch all fit. Both directions, all resumed proofs. The theorems remove the bounds. |
| `kernel_session` | StoreIsWhatTheSourceSays, FillIsOfAnOpenHole, FillersHaveTheBoundary, EditsSurvive, RefusedIsUndone, ImplementsClock | 6 counted commands: load, turn, begin, step, done, and one more in between; a hole that blocks another, one in a for-block, one text that does not interpret |
| `page_restarts` | OneCut, ShownIsCurrent, TornIsNotShown, OnlyEditsAreWritten, RunsOnWhatWasShown | one page and `do`, two server processes with revisions to 2 in each, so that the same number can mean two states; two images, two typed texts, loads from tab and disk, an edit by the kernel, lines of two parts; no request outlives its call here, which is out of TLC's reach with the rest and left to the theorems |
| `page_loop` | PagesRest | one process; two views, so that choices change while a call is on its way, by an answer or while the loop sleeps on a view that failed; every call may fail, and a request may outlive its call |
| `loader` | DependenciesFirst, CyclesAreReal, OwnFirst, LoadEnds | all contents of 5 files out of 6 programs, missing, and those at the top unreadable or broken too; a same-named directory, a library that links into it; when at most 3 of them exist, any edit of any file between any two reads |
| `interpretation` | IncludesAreReady, LoadedInFull | 4 files of 21 texts each |
| `diagrams` | HistoryIsHonest, BoundariesAreCanonical and MatchesAreAll (each with a hypothesis of the theorems, that no cells run in circles), Reconstructs, ProofRunsToCurrent, ResumedIsTheProof, AutoIsMaximal | a generator in each dimension to 4, with a 2-cell that merges two arrows and one that keeps one, so that rules overlap, commute and nest; every diagram of up to 3 leaves and 9 cells and their sessions of 2 steps, either direction; 2 topological orders |
| `maps` | PendingIsCurrent, MapIsFunctorial, OrderDoesNotMatter, CompositeIsPointwise, ImagesAreKept | a 2-cell that absorbs an arrow, so that one image waits for up to four others, two parallel 2-cells, and a 3-cell between them, which gives the image of one when that of the other is known; up to 3 clauses of 27, which give, repeat, contradict, collapse and open images; composites of maps that keep, collapse or leave open |
| `elaboration` | IndicesAgree, MapsPreserveBoundaries, DottedNamesAgree, GluedInFull, FailureChangesNothing | two modules; a type that includes another twice and attaches one with nothing, along a map that fits and along one that does not; each of the instructions of the type and of the local block present or not; names that are taken, for-blocks with no value, nested for-blocks, modules that are not there |
| `focus_is_fresh`, `generated_includes`, `module_domains` | findings 1-3 | as the runs above |

A second page adds nothing `do` and the orphans do not already do to the first:
pages share only the kernel, and `do_line` may move it between any two steps.
Two pages with these bounds are out of TLC's reach.

In `diagrams`, dimension 4 is where reconstruction and the step over it change
their method, and 3 leaves are enough for two redexes with a rest; one more
leaf is out of TLC's reach, since every property normalises each diagram anew.

Where a cfg says `CHECK_DEADLOCK FALSE` the system really stops: a load ends, a
program is interpreted, a diagram or a session reaches its bound, a kernel its
bound on counted commands.

**Fairness.** `PagesRest` assumes that a page's loop runs when it is awake and
awaits nothing (`WF(Turn)`, its turn being a call or the sleep: nothing in
JavaScript blocks it; a loop that sleeps runs only when signalled) and that every fetch settles,
with an answer or an error (`WF(Settle)`: `fetch` resolves or rejects, and
both end in the loop). Nothing is assumed of the server, the network or the
users. `LoadEnds` assumes that a load goes on (`WF(Resolve)`: it is one
synchronous call). Elaboration is a fold over a finite program and its
termination needs no check.

### Findings

1. `focus_is_fresh`: a focus raised while an answer is in flight is taken to be
   met by it, though the answer's cut may be older.
2. `generated_includes`: an include generated by a for-block is never resolved.
3. `module_domains`: a map's module domain is looked up by short name in one
   table for all modules, and the last one loaded wins.

### Observations

Met while modelling, described by the models, with no run of their own:

1. `auto` (engine.rs:635) discards the redo buffer also when it then applies
   nothing; the comment on `active_len` says the buffer goes "only when a
   genuinely new step is applied".
2. `auto` (engine.rs:675) records menu entry 0 as the choice of a step it made
   by itself, where the comment on `HistoryEntry` says `None`. The replayed
   choice is right all the same (`HistoryReplays`).
3. An include is also searched in its includers' directories, before
   `ALIFIB_PATH` (loader.rs:173), so that what a library module means can
   depend on who included it first. `OwnFirst` is what holds.
4. A clause `x => ?` is taken where it stands (interpreter/partial_map.rs:660),
   though the comment at :632 speaks of a final pass in ascending dimension: a
   later clause that would have inferred the image then finds it pending.
   `OrderDoesNotMatter` is therefore stated for clauses that give images.
5. `interpret_local_block` (eval.rs:391) drops the working complex of the block;
   a generator that the block's complex adds is in no type, while a diagram
   over it that the block names is in its owner's complex.
6. At the top level of a module `let` and `map` do not look whether the name is
   free; a second definition replaces the first.
7. An image that waits for others may be given again, by a clause of its own or
   through a generator it bounds, and the last one stands without a check
   (`upsert_entry`, interpreter/partial_map.rs:178), where one that is
   committed is compared with the new one (:82). `OrderDoesNotMatter` is
   therefore stated for clauses that agree in what they say or imply, and
   `ImagesAreKept` allows the replacement.

## 4. Proofs

`RewriteEngine_proofs` proves every property of `rewrite_session`, and the type
invariant `TypeOK`, for all
constants that satisfy the assumptions of `RewriteEngine`: any diagrams, steps,
menus, families and names, histories and drives of any length
(`BoundsAssumption` only says that the bounds are numbers).

The invariant is `IInv`, the conjunction of TypeOK, Chain, AtTheActiveStep,
HistoryReplays and CacheIsAPrefix. None of the last four is inductive alone:
a step extends the chain only because the menu is that of the current diagram,
the menu is right after a `seek` only because the step sought ends where the
chain says, a recorded choice replays only because it was made in that menu,
and the cache stays a prefix only because the step that would replace its tail
truncates it. `Consistent` proves it (one lemma per operation, each with one
step per conjunct the operation disturbs); TypeCorrect, RouteIndependence,
ChoicesReplay and CacheCorrect are its parts. StoreCorrect adds that what
`register_proof` binds, cached or not, is the paste of the active steps, and
Refinement that every operation is one of `Steps` or a stutter.

`Loader_proofs` proves the three safety properties of `loader`, and the type
invariant `TypeOK`, for every disk,
search path, set of programs and any number of edits between two reads
(`LoaderAssumption`: the files are a product of directories and names, links
lead to files, a program is indexed by naturals and names modules). Its `IInv`
adds to the properties what holds of the calls under way, which is where they
are decided: the files met are those done and those on the stack, each once
(`UnderWay`, without which a shared module could pass for a cycle); a call has
resolved every include it is past (`Past`), so that all are when it is over;
and a call below another waits for the file it found by the name it is at
(`Waiting`), which makes the chain of a reported cycle real. An edit touches
none of this but what was found by a name, and the two properties that speak of
that are stated for an unedited disk. That the first of some positions is one
of them (`LeastIsIn`) is the well-founded order of the naturals.

`Interpretation_proofs` proves both properties of `interpretation` for the
specification `LoadSpec`, for every disk and all programs; its only assumption
besides the loader's is that a program is a list. The loader's `IInv` is half of
the invariant: while a load walks, every step is one of `Loader`. What it lacks
is the converse of `Past`: a resolution is there only because a module on the
stack or done includes that name (`Registered`), so that a for-block's include
of a module nobody else includes finds nothing. Of the interpretation,
`Interpreted` says that the modules it is past are in the store with every
include filled in, and the one it is at as far as its next item unless there
are errors. `IncludesAreReady` and `LoadedInFull` follow from `DependenciesFirst`
with those, one module and one item at a time.

`Kernel_proofs` proves every property of `kernel_session` for any paths, texts,
holes and dependencies of holes, diagrams, rewrites and names, and histories of
any length. `KernelAssumption` gives the types of these data, says that rewrites
are between diagrams, and that the two sentinels are none of the values they
stand beside. No assumption relates boundaries to rewrites. The invariant
follows a proof from the engine to the module. A history is a run *in the
direction of its session* (`IsRun`); that of a fill begins at the one side of
its hole's boundary and is to reach the other, which side depending on that
direction; what a source defines, and what fills its holes, is a run in the
map's own direction. `FillersHaveTheBoundary` is not inductive without the run
of the session under way, and that needs the direction to stay while an activity
lasts. `ReverseIsRun` and `PrefixIsRun` carry a run through `filler` and
`undo`; sources on disk are sound too, since `save` put them there and `load`
reads them back. For the rest, `NextInv` shows of every step that it keeps the
invariant and has one of three shapes: it leaves session and counters alone
(`Idles`), it loads (`Loads`), or it counts one and is refused, acts, or edits
(`Command`). That a refused command leaves the session alone (`Refused`) is no
rule of the model, where a refusal keeps what was assigned before it: it is
shown in the lemma of each command, from the order in which that command
requires and assigns. `done` is the hardest, which evaluates the edited source
before it touches the session, and `store` needs that the engine's refusal comes
before both stores change. `NothingIsLost`, `RefusalsUndo` and the refinement
`KeepsTheClock` (which maps each step to one of `KernelClock` or a stutter)
collect what these lemmas show.

`WebSession_proofs` proves every safety property of `page_restarts`, for any
set of pages, views, texts and states, and whatever the bounds on processes,
revisions, queues and orphans. `WebAssumption` keeps the sentinels (no state, no
module, a field left out of an answer, no call) apart from what they stand
beside. The invariant says that all that pages and network hold of the kernel is
*sound* of it: a cut, a queued expectation, an answer, the link of the editor,
each is of a process that is gone, or of this one with numbers that are no
later than the kernel's, and when its numbers are the kernel's so is what it
says. The argument has two halves. `Grows` lists how the kernel can move (a
tick that keeps the module, edits it or loads one; a panic; another process),
and what is sound stays so as it grows, so that a step of the server disturbs
nothing anywhere else; and a page makes sound things of sound ones, where
the cases are the fields an answer left out, as the page's own numbers said it
might. `OneCut` alone is not inductive: it takes that an answer left out only
what the page that asked still shows, which is why the invariant ties a call to
the cut it was sent from.

`Shapes_proofs` proves what the traversal and its uses return, for shapes of
any size and dimension. The traversal is a recursive function of its stack and
of the cells it has marked, so the argument is by descent: a round marks a
cell, or puts on the stack a focus that weighs less (twice its dimension, and
one more unless it is a single cell), or shortens the stack, and the order of
these three is well-founded. `Traversal` concludes that it numbers exactly the
cells below its stack, each once and with its faces, so that the result is a
shape embedded in the one traversed. The hypothesis is `HasInputs`: whichever
cells one takes of a focus, one of them has an input that is an output of none
of them, that is, they do not run in circles. It is asked of the foci
(`Foci`: the sides of the shape, single cells, the outputs of one, and what is
under a focus) and not of all cells of a dimension: a 3-cell may have an arrow
one way across its input and one the other way across its output. Without it
the code takes a fallback that may leave faces without a number;
`BoundariesAreCanonical` checks it of every diagram of the run, and
`MatchesAreAll` of the patterns and of every part that a match can span.
`BoundaryIsEmbedded`, `NormalFormIsIsomorphic` and `FoundIsIsomorphism` are
the uses. The converse of the last, that isomorphic shapes are found to be so,
needs that the traversal does not depend on the numbers it starts from; that
is checked by `MatchesAreAll` and `BoundariesAreCanonical` on the run.

`Diagrams_proofs` goes on from there. `MultiPushout` is by the fold over the
extensions: a tip so far has the base as it stands, each extension embedded,
and two extensions meet only in the base. `PasteIsSound` and `CellIsSound` are
about `paste` and `cell_n` themselves, with the early returns: whatever they
return has both diagrams in it with their labels, meeting in the boundaries
taken and nowhere else. `MatchesAreOccurrences` says that whatever passes the
test of a match is an embedding that keeps every label, and
`StepGluesTheFamily` that the step of *any* family of candidates, compatible
or not, has the diagram and every rule in it, with labels that agree wherever
two meet: the order in which `construct_parallel_step` writes them is then
immaterial. These are facts about single operations: they assume diagrams that
are labelled shapes (`IsMade`), and the hypothesis on foci where a traversal
is behind them: of the diagrams pasted, of the rules and their patterns, and
of the parts that are matched (`PartsHaveInputs`). That pasting keeps it is
not proved; it holds of all diagrams of the run.

`Elaboration_proofs` proves of the interpreter, for any programs and any
meaning of their expressions, without an assumption, that the indices of every
complex agree (`IndicesCorrect`), that an instruction that fails leaves no
trace (`FailuresLeaveNoTrace`), and that cells stay what they are
(`StoreIsAppendOnly`). `IndicesAgree` is not inductive. An entry is unique
because identifiers are fresh, which needs that no cell has one yet to come
(`Counted`); an included or attached generator takes a name that is free
because a name of several parts belongs to a map whose name was free
(`Filed`), and one of a single part to a diagram; a complex included as a
whole has no generator with the empty name, the root of a module, or it would
get the name of the inclusion itself (`NoRoot`); a block that ends finds its
owner's root with a complex that has nothing yet (`Rooted`), and the name it
checked when it began still free (`FrameInv`). `IInv` is their conjunction. A
failure in the last step of an instruction is why `FailureChangesNothing`
compares complexes and not the whole store: identifiers and cells may have
been used up.

**Only model-checked.** Both liveness properties, `LoadEnds` and `PagesRest`:
fairness and ENABLED are out of the prover's reach. The properties of `diagrams`
and `maps`, and of `elaboration` those that depend on what expressions come to
(MapsPreserveBoundaries, DottedNamesAgree, GluedInFull): they are about
recursive computations over trees, flow graphs and waiting images
(`PasteTrees`, `Reconstruct`, `Matching`, `PartialMaps`, `MapsWithHoles` and
`Expressions` declare RECURSIVE operators, which this prover does not reason
about). What such a computation returns for every input is an induction over
its data, and the library's induction theorems cannot be instantiated here; the
runs check it on all inputs of their bounds. The theorems about shapes and
diagrams are what stands behind them for every input.

## 5. Not modelled

Text and presentation: lexing, parsing and printing, the text of for-bodies (a
for-block is its expansions), rendering and the DOM, code generation, the
command line and the REPL, the wording and places of diagnostics.

Pure functions of finished values, used for display: homology (with its
unchecked `i64` arithmetic, homology.rs:454) and the layout of string diagrams.

HTTP messages: the deadlines of one connection (http.rs:158: one for the head,
one for each read of a body) end in a lost answer, which `WebSession` has.

Of the interpreter: anonymous complexes and maps (`Mode::Local`), `run auto`
(the greedy step of `Matching` repeated to its limit of 1024) and the views of
open holes for reports. Of the matcher: `find_compatible_families`, which
nothing calls; and no rule of the run has a gluing that fails, so that
`try_or_shrink` never gives up there. `bitset.rs` and `intset.rs` are sets.

Left to do: that pasting and rewriting keep `HasInputs`, which would make the theorems about
single operations an invariant of `Rewriting`; and the bookkeeping of
`MapsWithHoles` (which entries a clause touches) as a recursive function instead
of `assign_cell` and `cascade` calling each other, so that `ImagesAreKept` and
`PendingIsCurrent` could be proved.
