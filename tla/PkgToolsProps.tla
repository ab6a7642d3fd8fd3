--------------------------- MODULE PkgToolsProps ---------------------------
(***************************************************************************)
(* What must hold of pkgadd and pkgrm whatever they are killed in, and     *)
(* whoever edited the file system before.                                  *)
(***************************************************************************)
EXTENDS PkgTools

\* Type correctness: every variable holds what the C declarations say.
TypeOK ==
    /\ fs \in [Path -> Node \cup {Absent}]
    /\ rejected \in [Path -> Source]
    /\ disk \subseteq PkgDesc /\ pkg_db \subseteq PkgDesc /\ pkg \in PkgDesc \cup {NoPkg}
    /\ pc \in {"idle", "next", "del", "extract", "return", "rm"}
    /\ tool \in {"none", "pkgadd", "pkgrm"} /\ opts \subseteq {"FORCE", "FORCE_PERM"}
    /\ root \in {"absolute", "relative"} /\ cwd \in {"start", "root"}
    /\ args \in Seq(Archive \cup {BadFile}) \cup Seq(Name)
    /\ next \in Nat /\ ret \subseteq Conflict
    /\ leftover \subseteq Path /\ oldPaths \subseteq Path /\ failed \subseteq Path

\* A database names a package once: pkg_add takes the old version out of the
\* list before it appends the new one, and readers look packages up by name.
UniqueNames ==
    \A db \in {disk, pkg_db} : \A d, e \in db : d.name = e.name => d = e

-----------------------------------------------------------------------------
(* The file system and the database, across crashes.                       *)

\* What lies at p was extracted from a package, and nobody replaced it since.
Ours(p) == Exists(p) /\ fs[p].src # User

\* del_old_pkg, then pkg_commit_db, then extract_files: whatever the tools
\* are killed in, a file that came from a package is in the database file
\* under some package, or was reported as impossible to remove.
NothingForgotten == \A p \in Path : Ours(p) => p \in Registered(disk) \cup leftover

\* What reading the database file and adding the archive again would report.
Repeated(a) == ReportConflicts(NewPkg(disk, a))

\* The way out of an interrupted pkgadd is to run it again: if the database
\* file says that all of the archive is installed, doing it needs no -o,
\* whatever half of its files is there (self_conflict, adjust_with_fs).
RepeatNeedsNoForce ==
    pc = "idle" => \A d \in disk : PathsOf(d) = ArchPaths(d.version) =>
                                       Repeated(d.version) \subseteq {"PERM"}

-----------------------------------------------------------------------------
(* Removing files.                                                         *)

Doomed == IF pc = "del" THEN pkg.name ELSE Cur

OwnerRemoves ==
    pc \in {"del", "rm"} =>
      \A p \in Path : Exists(p) /\ ~Exists(p)' =>
          \E q \in {p} \cup Anc[p] :
              /\ q \in Registered(Named(disk, Doomed))
              /\ q \notin Registered(Others(disk, Doomed))
              /\ pc = "del" => q \notin PathsOf(pkg)

\* del_old_pkg and remove_from_fs take away nothing but what the package they
\* replace or remove owns, no other package in the database file owns, and
\* the new version does not contain (old_reference, self_conflict, delete_refs).
OnlyOwnerRemoves == [][OwnerRemoves]_vars

NeededLeftover ==
    \A p \in leftover' \ leftover :
      \/ p \in Stuck
      \/ \E q \in Children(p) : \A f \in IF pc = "del" THEN OldFiles ELSE RmFiles :
            f.path = q => f.conflict # "NONE"

\* Both loops run from the tail of the file list, so that a directory is tried
\* after what it holds: "Can't remove" is said of a directory only if
\* something else keeps it in use, never because its own files come later.
NoNeedlessLeftover == [][NeededLeftover]_vars

-----------------------------------------------------------------------------
(* Extracting files.                                                       *)

\* The file p is replaced or removed itself, not hidden with its directory.
Touched(p) == Exists(p) /\ fs[p].kind # "dir" /\ fs'[p] # fs[p] /\ \A q \in Anc[p] : fs'[q] = fs[q]

UserFileSafe ==
    pc = "extract" =>
      \A p \in Path : Touched(p) /\ fs[p].src = User =>
          \/ p \in oldPaths \/ "FORCE" \in opts
          \/ "FORCE_PERM" \in opts /\ fs'[p] # Absent /\ fs'[p].kind = "dir"

\* pkgadd's extraction leaves a user's file alone, unless the version being
\* replaced had registered that path, -o was given, or it is in the way of a
\* directory and -p was given.
UserFilesSafe == [][UserFileSafe]_vars

ProtectedFileKept ==
    pc = "extract" =>
      \A p \in Path : Touched(p) => AdjustWithConfig(p, "UPGRADE")

\* An UPGRADE rule saying NO protects what is installed at a path: the new
\* version goes below PKG_REJECT_DIR. (adjust_with_config, extract_files)
ProtectedFilesKept == [][ProtectedFileKept]_vars

\* When pkg_add returns after a commit, every entry that the second reading of
\* the archive came to, and that the configuration does not exclude, is
\* installed, or rejected, or was reported as failed: the walk over the archive
\* and the walk over the file list stay in step. Entries behind a place where
\* reading stopped are none of these, and pkg_add returns as if they were.
AllEntriesAccounted ==
    pc = "return" /\ ~Blocking(ret) /\ Cur \in Archive =>
        \A i \in DOMAIN Entries[Cur] : i < next =>
            LET p == Entries[Cur][i].path
            IN  \/ ~AdjustWithConfig(p, "INSTALL")
                \/ p \in failed
                \/ rejected[p] = Cur
                \/ Exists(p) /\ IF Entries[Cur][i].kind = "dir"
                                THEN fs[p].kind \in {"dir", "dirlink"}
                                ELSE fs[p].kind = "file" /\ fs[p].src = Cur

-----------------------------------------------------------------------------
(* The database file implements the registry.                              *)

registry == {[name |-> d.name, version |-> d.version, paths |-> PathsOf(d)] : d \in disk}

Reg == INSTANCE PkgRegistry WITH
    reg <- registry,
    force <- "FORCE" \in opts,
    PathsIn <- [a \in Archive |-> ArchPaths(a)],
    DirsIn <- [a \in Archive |->
                 {Entries[a][i].path : i \in {j \in DOMAIN Entries[a] : Entries[a][j].kind = "dir"}}]

\* Every change of the database file, over any series of command lines, is one
\* package installed whole or removed whole; in between, a refused or
\* interrupted operation leaves no trace in it.
ImplementsRegistry == Reg!Spec

-----------------------------------------------------------------------------
(* What comments and manual pages say, and the code does not do.           *)

TakeoverAnnounced ==
    pc = "del" /\ pc' = "extract" =>
      \A d \in Others(disk, pkg.name), e \in disk' :
          d.name = e.name /\ PathsOf(e) # PathsOf(d) => "FORCE" \in opts

\* libpkgadd.c:259, db_conflict: a new file where another package has a
\* directory is noticed "while finding fs conflicts", so that no package loses
\* a path without -o.
TakeoversAnnounced == [][TakeoverAnnounced]_vars

PermsTouchPerms ==
    pc = "extract" /\ "FORCE" \notin opts =>
      \A p \in Path : Touched(p) /\ fs[p].src = User => p \in oldPaths

\* pkgadd(8), -p: it ignores permission conflicts; overwriting files that are
\* already there is what -o is for.
PermsForceKeepsFiles == [][PermsTouchPerms]_vars

GoesOnToCommit == pc = "del" /\ Step => pc' \in {"del", "extract"}

\* pkgadd(8), -r: the database below the root directory is the one used. A
\* package that passed the checks is entered there, whatever way its root
\* directory was spelled.
AcceptedIsCommitted == [][GoesOnToCommit]_vars

\* libpkgadd.c:477: pkg_add returns 0 on success only.
FailureReturned == pc = "return" /\ failed # {} => ret # {}

-----------------------------------------------------------------------------
(* Progress.                                                               *)

\* A tool that is not killed comes to its end: none of its loops waits, and
\* each of them shortens a list.
EachRunEnds == pc # "idle" ~> pc = "idle"
=============================================================================
