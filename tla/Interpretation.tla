--------------------------- MODULE Interpretation ---------------------------
(***************************************************************************)
(* A whole load (interpreter/load.rs): once the loader has resolved the    *)
(* modules, each is interpreted, in its order, into one global store, and  *)
(* the root last (interpreter/eval.rs, include.rs).                        *)
(*                                                                         *)
(* An item of a program either includes a module, or is a for-block that   *)
(* expands to such an include, or defines a map over a module, or is       *)
(* anything else, which may be wrong.                                      *)
(***************************************************************************)
EXTENDS Loader

VARIABLES
    at, pc,         \* the module under interpretation, its next item
    store,          \* [file -> [alias -> file]]: modules in the global store
    module_names,   \* [name -> file]
    errors,         \* what is wrong in the module under interpretation
    domains         \* set of [module, name, domain]: history of the map domains

\* A program is a list of items.
ASSUME InterpretationAssumption ==
    \A program \in Program : Len(program) \in Nat /\ DOMAIN program = 1 .. Len(program)

interpreter == <<at, pc, store, module_names, errors, domains>>
vars == <<loader, interpreter>>

----------------------------------------------------------------------------

load_order == Append(dep_order, stack[1].file)

Current == load_order[at]
CurrentProgram == IF at = Len(load_order) THEN stack[1].program ELSE modules[Current]
Item == CurrentProgram[pc]

Interpreting(kind) ==
    /\ phase = "resolved"
    /\ at =< Len(load_order) /\ pc \in DOMAIN CurrentProgram
    /\ Item.kind = kind

initialize_module_context ==
    /\ phase = "resolved" /\ at =< Len(load_order) /\ pc = 0
    /\ IF Current \in DOMAIN store THEN UNCHANGED <<store, module_names>>
       ELSE /\ store' = [file \in DOMAIN store \cup {Current} |->
                            IF file = Current THEN <<>> ELSE store[file]]
            /\ module_names' = [name \in DOMAIN module_names \cup {Current[2]} |->
                                   IF name = Current[2] THEN Current ELSE module_names[name]]
    /\ pc' = 1
    /\ UNCHANGED <<loader, at, errors, domains>>

\* What is wrong with an include, if anything; an error ends the item, and the
\* items after it are interpreted all the same.
include_error(item) ==
    IF item.alias \in DOMAIN store[Current] THEN {"taken"}
    ELSE IF <<Current, item.name>> \notin DOMAIN resolutions THEN {"unresolved"}
    ELSE IF resolutions[<<Current, item.name>>] \notin DOMAIN store THEN {"not_interpreted"}
    ELSE {}

included(item) == resolutions[<<Current, item.name>>]

include_module ==
    /\ errors' = errors \cup {[item |-> Item, error |-> e] : e \in include_error(Item)}
    /\ store' = IF include_error(Item) # {} THEN store
                ELSE [store EXCEPT ![Current] =
                        [alias \in DOMAIN @ \cup {Item.alias} |->
                            IF alias = Item.alias THEN included(Item) ELSE @[alias]]]
    /\ pc' = pc + 1
    /\ UNCHANGED <<loader, at, module_names, domains>>

interpret_include_module_instr == Interpreting("include") /\ include_module

\* The items a for-block expands to are interpreted on the spot.
expand_type_for == Interpreting("for") /\ include_module

\* The domain of a map at the top level is a module, named by its short name.
resolve_module_domain(name) == IF name \in DOMAIN module_names THEN module_names[name] ELSE None

interpret_def_pmap_module ==
    /\ Interpreting("map")
    /\ LET domain == resolve_module_domain(Item.name)
       IN  IF domain = None
           THEN /\ errors' = errors \cup {[item |-> Item, error |-> "no_domain"]}
                /\ UNCHANGED domains
           ELSE /\ domains' = domains \cup {[module |-> Current, name |-> Item.name, domain |-> domain]}
                /\ UNCHANGED errors
    /\ pc' = pc + 1
    /\ UNCHANGED <<loader, at, store, module_names>>

\* Any other item, right or wrong.
interpret_other ==
    /\ Interpreting("other")
    /\ errors' \in {errors, errors \cup {[item |-> Item, error |-> "other"]}}
    /\ pc' = pc + 1
    /\ UNCHANGED <<loader, at, store, module_names, domains>>

ItemsDone == phase = "resolved" /\ at =< Len(load_order) /\ pc = Len(CurrentProgram) + 1

\* Fault: errors of a dependency do not stop the load.
Faultless_root_only == at < Len(load_order) \/ errors = {}

Faultless == errors = {}

next_module ==
    /\ ItemsDone /\ Faultless
    /\ at' = at + 1 /\ pc' = 0
    /\ errors' = {}
    /\ phase' = IF at = Len(load_order) THEN "done" ELSE phase
    /\ UNCHANGED <<text, edits, failure, walk, store, module_names, domains>>

load_failure ==
    /\ ItemsDone /\ ~Faultless
    /\ fail("interpret", Current)
    /\ UNCHANGED interpreter

Interpret ==
    \/ initialize_module_context
    \/ interpret_include_module_instr
    \/ expand_type_for
    \/ interpret_def_pmap_module
    \/ interpret_other
    \/ next_module
    \/ load_failure

LoadInit == Init /\ at = 1 /\ pc = 0 /\ store = <<>> /\ module_names = <<>> /\ errors = {} /\ domains = {}

LoadNext == Interpret \/ (Next /\ UNCHANGED interpreter)

LoadSpec == LoadInit /\ [][LoadNext]_vars

----------------------------------------------------------------------------
(* Properties                                                              *)

\* When an include is interpreted, the module it names has been resolved for
\* this very file, and is interpreted (include.rs calls the contrary an internal
\* error).
IncludesAreReady ==
    \A error \in errors :
        /\ error.error # "not_interpreted"
        /\ error.item.kind = "include" => error.error # "unresolved"

\* A load that ends well has interpreted every module, each in full: of every
\* include and under its alias the store holds the module that is meant.
LoadedInFull ==
    phase = "done" =>
        \A i \in DOMAIN load_order :
            LET file == load_order[i]
                program == IF i = Len(load_order) THEN stack[1].program ELSE modules[file]
            IN  \A j \in DOMAIN program : program[j].kind \in {"include", "for"} =>
                    /\ program[j].alias \in DOMAIN store[file]
                    /\ store[file][program[j].alias] = resolutions[<<file, program[j].name>>]

\* "The interpreter resolves the full dependency graph before elaboration"
\* (README.md), also of the includes that a for-block makes.
GeneratedIncludesAreReady == \A error \in errors : error.error # "unresolved"

\* A module that includes N means its own N by the name, though others have
\* modules of that name: they recur "without clashing, each module seeing its
\* own" (README.md).
DomainIsTheModulesOwn ==
    \A d \in domains :
        <<d.module, d.name>> \in DOMAIN resolutions => d.domain = resolutions[<<d.module, d.name>>]
=============================================================================
