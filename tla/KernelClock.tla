---------------------------- MODULE KernelClock ----------------------------
(***************************************************************************)
(* What the kernel promises the pages that watch it: one revision clock    *)
(* for everything they can show (interactive/kernel.rs, `Kernel`).         *)
(*                                                                         *)
(* `state` is the image of the session and `module` that of the loaded     *)
(* module.  A page that holds the revision of an image holds the image.    *)
(***************************************************************************)
EXTENDS Integers

CONSTANTS
    Unloaded,       \* the state with nothing loaded
    None            \* the module then

VARIABLES
    revision,           \* moves with every command that may change a thing
    generation,         \* the revision of the last load
    module_revision,    \* the revision of the last load or edit
    state, module

clock == <<revision, generation, module_revision, state, module>>

Init ==
    /\ revision = 0 /\ generation = 0 /\ module_revision = 0
    /\ state = Unloaded
    /\ module = None

Tick == revision' = revision + 1

\* A load, of a module or, when it fails, of nothing.
Load(image, loaded) ==
    /\ Tick
    /\ generation' = revision' /\ module_revision' = revision'
    /\ state' = image /\ module' = loaded
    /\ image = Unloaded <=> loaded = None

\* A command that may change the session, and does when it is accepted.
Act(image) ==
    /\ module # None
    /\ Tick
    /\ state' = image /\ image # Unloaded
    /\ UNCHANGED <<generation, module_revision, module>>

\* A command that edits the module: `done` and `store`.
Edit(image, edited) ==
    /\ module # None
    /\ Tick
    /\ module_revision' = revision'
    /\ state' = image /\ image # Unloaded
    /\ module' = edited /\ edited # None
    /\ UNCHANGED generation

Next ==
    \/ Load(state', module')
    \/ Act(state')
    \/ Edit(state', module')

Spec == Init /\ [][Next]_clock

============================================================================
