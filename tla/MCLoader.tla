------------------------------ MODULE MCLoader ------------------------------
(***************************************************************************)
(* A root r at the top, with a module a that keeps its own x in a/,        *)
(* another x at the top, and in a library another a and a link to a's x.   *)
(***************************************************************************)
EXTENDS Loader, TLC

Include(name) == [kind |-> "include", name |-> name]

MCSubdir == <<"top", "a">> :> "a/"

\* In the library there is only a link to what a keeps.
MCCanonical == [file \in File |-> IF file = <<"lib", "x">> THEN <<"a/", "x">> ELSE file]

MCRoot == <<"top", "r">>

MCBase == <<"lib">>

MCProgram ==
    {<<>>, <<Include("r")>>, <<Include("a")>>, <<Include("x")>>,
     <<Include("a"), Include("x")>>, <<Include("x"), Include("a")>>}

\* Disks where only these files may be there at first.
Disks(present) ==
    {[file \in {Canonical[f] : f \in File} |-> IF file \in present THEN said[file] ELSE Missing] :
        said \in [present -> Text]}

\* At first only the files at the top may fail to be read or to parse.
MCInit ==
    /\ text \in {disk \in Disks({MCRoot, <<"top", "a">>, <<"top", "x">>, <<"a/", "x">>, <<"lib", "a">>}) :
                    {disk[<<"a/", "x">>], disk[<<"lib", "a">>]} \cap {Unreadable, Broken} = {}}
    /\ Start

\* Only disks of few files are edited, for the number of states.
FewFiles ==
    \A file \in DOMAIN text \ {MCRoot, <<"lib", "a">>, <<"top", "x">>} : text[file] = Missing

MCNext ==
    \/ Resolve
    \/ FewFiles /\ \E file \in DOMAIN text, said \in Text : edit(file, said)

MCSpec == MCInit /\ [][MCNext]_loader /\ WF_loader(Resolve)
=============================================================================
