---------------------------- MODULE PkgRegistry ----------------------------
(***************************************************************************)
(* What the package database promises, with no file system, no process and *)
(* no crash: a set of installed packages that changes by whole packages.   *)
(***************************************************************************)
CONSTANTS
    Path, Name, Archive,
    NameOf,     \* NameOf[a]: the package an archive is a version of
    PathsIn,    \* PathsIn[a]: the paths the archive holds
    DirsIn      \* DirsIn[a]: those that are directories in it

VARIABLES
    reg,        \* the installed packages
    force       \* an input: may conflicts be overridden (pkgadd -o)?

Package == [name: Name, version: Archive, paths: SUBSET Path]

TypeOK == reg \subseteq Package /\ force \in BOOLEAN

Init == reg = {}

\* What the package d keeps when the archive a is installed. A directory is
\* shared; a file goes to the new package, which takes needs force unless
\* the version being replaced had that path too.
MayLose(d, a) ==
    {p \in d.paths \cap (PathsIn[a] \ DirsIn[a]) :
        force \/ \E old \in reg : old.name = NameOf[a] /\ p \in old.paths}

Install(a) ==
    \E kept \in [{d \in reg : d.name # NameOf[a]} -> SUBSET Path] :
        /\ \A d \in DOMAIN kept : kept[d] \subseteq d.paths /\ d.paths \ kept[d] \subseteq MayLose(d, a)
        /\ reg' = {[d EXCEPT !.paths = kept[d]] : d \in DOMAIN kept}
                    \cup {[name |-> NameOf[a], version |-> a, paths |-> PathsIn[a]]}

Remove(n) ==
    /\ \E d \in reg : d.name = n
    /\ reg' = {d \in reg : d.name # n}

Next == (\E a \in Archive : Install(a)) \/ (\E n \in Name : Remove(n))

Spec == Init /\ [][Next]_reg
=============================================================================
