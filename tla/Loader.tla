------------------------------- MODULE Loader -------------------------------
(***************************************************************************)
(* The loader (aux/loader.rs): from a root file, the modules it includes,  *)
(* directly or not, in an order where every module comes after those it    *)
(* includes.                                                               *)
(*                                                                         *)
(* resolve_recursive is a depth-first walk; its recursion is `stack`, one  *)
(* frame for each call.  The disk may be edited between two reads.         *)
(***************************************************************************)
EXTENDS Integers, Sequences, SequencesExt

CONSTANTS
    Dir,            \* directories
    Name,           \* file names without .ali, which are module names
    Subdir,         \* [file -> Dir], for files with a same-named directory
    Canonical,      \* [file -> file]: where a link leads
    Root,           \* the file that is loaded
    Base,           \* search directories of the caller, ALIFIB_PATH among them
    Program,        \* what a file can say: sequences of items
    Missing, Unreadable, Broken,    \* a file that is not there, cannot be
                                    \* read, or does not parse
    None,
    MaxEdits        \* bound

\* A file is its directory and its name.
File == Dir \X Name

Text == Program \cup {Missing, Unreadable, Broken}

ASSUME LoaderAssumption ==
    /\ Root \in File
    /\ DOMAIN Subdir \subseteq File /\ \A file \in DOMAIN Subdir : Subdir[file] \in Dir
    /\ Canonical \in [File -> File]
    /\ \A file \in File : Canonical[Canonical[file]] = Canonical[file]
    /\ Base \in Seq(Dir)
    /\ \A program \in Program : DOMAIN program \subseteq Nat
    /\ \A program \in Program : \A i \in DOMAIN program : program[i].name \in Name
    /\ None \notin File
    /\ {Missing, Unreadable, Broken} \cap Program = {}

VARIABLES
    text,           \* [File -> Text]: the disk, by canonical name
    edits,          \* edits of the disk so far
    phase,          \* "idle", "resolving", "resolved", "failed", and later ones
    failure,        \* None, or [kind, file]
    stack,          \* Seq of [file, program, todo, search]
    visited,        \* files met so far
    modules,        \* [file -> program]: the modules that are done
    dep_order,      \* them in order
    resolutions     \* [<<file, name>> -> file]

walk == <<stack, visited, modules, dep_order, resolutions>>
loader == <<text, edits, phase, failure, walk>>

----------------------------------------------------------------------------

\* The first of some positions.
least(positions) == CHOOSE i \in positions : \A j \in positions : i =< j

\* Where a program includes at the top level, each name once; the includes that
\* a for-block will expand to are not among them.
collect_includes(program) ==
    {i \in DOMAIN program :
        /\ program[i].kind = "include"
        /\ \A j \in DOMAIN program :
               j < i /\ program[j].kind = "include" => program[j].name # program[i].name}

\* Fault: the directories of the includer come first.
with_parent_dir_last(search, file) ==
    search \o <<file[1]>> \o IF file \in DOMAIN Subdir THEN <<Subdir[file]>> ELSE <<>>

\* Where the includes of a file are searched: its directory, its same-named
\* directory, and what its includer searched.  The code drops a directory that
\* comes again further on, where no search would get to.
with_parent_dir(search, file) ==
    <<file[1]>> \o (IF file \in DOMAIN Subdir THEN <<Subdir[file]>> ELSE <<>>) \o search

\* The first file of that name that is there, readable or not.
find_file(search, name) ==
    LET there == {i \in DOMAIN search : text[Canonical[<<search[i], name>>]] # Missing}
    IN  IF there = {} THEN None ELSE Canonical[<<search[least(there)], name>>]

frame(search, file) ==
    [file |-> file, program |-> text[file], todo |-> collect_includes(text[file]),
     search |-> with_parent_dir(search, file)]

\* Fault: the include is never over.
advance_nowhere(parent) == parent

advance(parent) == [parent EXCEPT !.todo = @ \ {least(@)}]

\* The name a call is to include next, or is including.
next_include(parent) == parent.program[least(parent.todo)].name

\* Fault: only a module's first includer is told where it is.
register_once(parent, file) ==
    IF file \in DOMAIN modules THEN resolutions
    ELSE LET at == <<parent.file, next_include(parent)>>
         IN  [pair \in DOMAIN resolutions \cup {at} |-> IF pair = at THEN file ELSE resolutions[pair]]

register_resolution(parent, file) ==
    LET at == <<parent.file, next_include(parent)>>
    IN  [pair \in DOMAIN resolutions \cup {at} |-> IF pair = at THEN file ELSE resolutions[pair]]

\* Faults: a module that is done is taken for one under way, and the reverse.
has_module_never(file) == FALSE

has_module(file) == file \in DOMAIN modules

----------------------------------------------------------------------------

fail(kind, file) ==
    /\ phase' = "failed"
    /\ failure' = [kind |-> kind, file |-> file]
    /\ UNCHANGED <<text, edits, walk>>

load ==
    /\ phase = "idle"
    /\ LET root == Canonical[Root]
       IN  \/ text[root] \in {Missing, Unreadable} /\ fail("load", Root)
           \/ text[root] = Broken /\ fail("parse", root)
           \/ /\ text[root] \in Program
              /\ phase' = "resolving"
              /\ stack' = <<frame(Base, root)>>
              /\ visited' = {root}
              /\ UNCHANGED <<text, edits, failure, modules, dep_order, resolutions>>

\* The next include of the call on top of the stack.
Including == phase = "resolving" /\ Last(stack).todo # {}
Parent == Last(stack)
Found == find_file(Parent.search, next_include(Parent))
Readable == Found # None /\ text[Found] # Unreadable

not_found == Including /\ Found = None /\ fail("not_found", Parent.file)

unreadable == Including /\ Found # None /\ text[Found] = Unreadable /\ fail("io", Found)

already_resolved ==
    /\ Including /\ Readable /\ has_module(Found)
    /\ resolutions' = register_resolution(Parent, Found)
    /\ stack' = Append(Front(stack), advance(Parent))
    /\ UNCHANGED <<text, edits, phase, failure, visited, modules, dep_order>>

cyclic == Including /\ Readable /\ ~has_module(Found) /\ Found \in visited /\ fail("cycle", Found)

unparsable ==
    /\ Including /\ Readable /\ ~has_module(Found) /\ Found \notin visited
    /\ text[Found] = Broken
    /\ fail("parse", Found)

descend ==
    /\ Including /\ Readable /\ ~has_module(Found) /\ Found \notin visited
    /\ text[Found] \in Program
    /\ visited' = visited \cup {Found}
    /\ stack' = Append(stack, frame(Parent.search, Found))
    /\ UNCHANGED <<text, edits, phase, failure, modules, dep_order, resolutions>>

\* The call on top returns to the one below.
ascend ==
    /\ phase = "resolving" /\ Parent.todo = {} /\ Len(stack) > 1
    /\ LET child == Parent
           below == Last(Front(stack))
       IN  /\ modules' = [file \in DOMAIN modules \cup {child.file} |->
                             IF file = child.file THEN child.program ELSE modules[file]]
           /\ dep_order' = Append(dep_order, child.file)
           /\ resolutions' = register_resolution(below, child.file)
           /\ stack' = Append(Front(Front(stack)), advance(below))
    /\ UNCHANGED <<text, edits, phase, failure, visited>>

resolved ==
    /\ phase = "resolving" /\ Parent.todo = {} /\ Len(stack) = 1
    /\ phase' = "resolved"
    /\ UNCHANGED <<text, edits, failure, walk>>

\* Someone edits, adds or removes a file.
edit(file, said) ==
    /\ edits < MaxEdits
    /\ text' = [text EXCEPT ![file] = said]
    /\ edits' = edits + 1
    /\ UNCHANGED <<phase, failure, walk>>

Resolve ==
    \/ load
    \/ not_found \/ unreadable \/ already_resolved \/ cyclic \/ unparsable \/ descend
    \/ ascend
    \/ resolved

Start ==
    /\ edits = 0
    /\ phase = "idle" /\ failure = None
    /\ stack = <<>> /\ visited = {}
    /\ modules = <<>> /\ dep_order = <<>> /\ resolutions = <<>>

Init == text \in [{Canonical[file] : file \in File} -> Text] /\ Start

Next == Resolve \/ \E file \in DOMAIN text, said \in Text : edit(file, said)

Spec == Init /\ [][Next]_loader

FairSpec == Spec /\ WF_loader(Resolve)

----------------------------------------------------------------------------
(* Properties                                                              *)

\* A failed or partial walk has met the modules it is done with and those under
\* way, and no other.
TypeOK ==
    /\ text \in [{Canonical[file] : file \in File} -> Text]
    /\ \A i \in DOMAIN stack : /\ stack[i].file \in visited
                               /\ stack[i].program \in Program
                               /\ stack[i].todo \subseteq collect_includes(stack[i].program)
    /\ visited \subseteq DOMAIN text
    /\ \A file \in DOMAIN modules : modules[file] \in Program
    /\ resolutions \in [DOMAIN resolutions -> DOMAIN modules]

\* Every include of a module was found, and what was found is a module that
\* is done before those at position j.
IncludesComeBefore(file, program, j) ==
    \A k \in collect_includes(program) :
        /\ <<file, program[k].name>> \in DOMAIN resolutions
        /\ \E i \in 1 .. (j - 1) : dep_order[i] = resolutions[<<file, program[k].name>>]

\* Every module comes once, after all those it includes, and the root can come
\* last, whatever is edited meanwhile: interpretation never meets an include of
\* a module it has not interpreted.
DependenciesFirst ==
    /\ DOMAIN modules = ToSet(dep_order)
    /\ \A i, j \in DOMAIN dep_order : i # j => dep_order[i] # dep_order[j]
    /\ \A j \in DOMAIN dep_order : IncludesComeBefore(dep_order[j], modules[dep_order[j]], j)
    /\ phase = "resolved" =>
           IncludesComeBefore(stack[1].file, stack[1].program, Len(dep_order) + 1)

\* A cycle is reported for a module that includes itself through those under
\* way, each the one its includer finds by the name it includes, and never for
\* one that two modules share.
CyclesAreReal ==
    failure # None /\ failure.kind = "cycle" =>
        \E i \in DOMAIN stack :
            /\ stack[i].file = failure.file
            /\ edits = 0 =>
                   \A j \in i .. Len(stack) :
                       find_file(stack[j].search, next_include(stack[j])) =
                           IF j = Len(stack) THEN failure.file ELSE stack[j + 1].file

IsItsOwn(file, name, found) ==
    LET here == Canonical[<<file[1], name>>]
    IN  /\ text[here] # Missing => found = here
        /\ text[here] = Missing /\ file \in DOMAIN Subdir =>
               LET below == Canonical[<<Subdir[file], name>>]
               IN  text[below] # Missing => found = below

\* A module sees its own: what lies in its directory, or else in its same-named
\* directory, is included before what any other module brings, whoever came
\* first (README, "each module seeing its own").
OwnFirst ==
    edits = 0 =>
        \A pair \in DOMAIN resolutions : IsItsOwn(pair[1], pair[2], resolutions[pair])

\* However the files include each other, and whatever is edited, a load ends.
LoadEnds == <>(phase \in {"resolved", "failed"})

=============================================================================
