------------------------------ MODULE PkgTools ------------------------------
(***************************************************************************)
(* The package tools pkgadd and pkgrm (src/src/pkgadd.c, pkgrm.c,          *)
(* libpkgadd.c, libpkgrm.c): one process at a time works on a root file    *)
(* system and on the package database below it, one system call after the  *)
(* other, and may be killed between any two of them.  That there is at     *)
(* most one process is the business of the database lock, pkg_lock_db.     *)
(*                                                                         *)
(* A linked list from which the code only ever deletes entries is the set  *)
(* of its entries, each carrying the position it was appended at.          *)
(***************************************************************************)
EXTENDS Integers, Sequences

CONSTANTS
    Path,       \* paths of the root file system, as packages spell them
    Anc,        \* Anc[p]: the proper ancestor directories of p
    Attr,       \* mode and ownership of a file or directory
    Name,       \* package names
    Archive,    \* package files (name#version.pkg.tar.gz)
    NameOf,     \* NameOf[a]: the name part of the file name of a
    Entries,    \* Entries[a]: the tar entries of a, in archive order
    Rules,      \* the rules of pkgadd.conf, in file order
    BadFile,    \* a command line argument that is no readable package
    User,       \* whoever changes the file system without these tools
    NoPkg,      \* no package description
    Stuck,      \* paths the kernel refuses to unlink or replace
    UserNodes,  \* UserNodes[p]: what the user may put at p
    Roots,      \* the kinds of --root argument to consider
    MaxArgs     \* bound: packages per command line

Entry == [path: Path, kind: {"dir", "file"}, attr: Attr]
Rule == [type: {"INSTALL", "UPGRADE"}, match: SUBSET Path, yes: BOOLEAN]

\* Links are told apart by what stat(2) finds behind them.
Links == {"dirlink", "filelink", "deadlink"}
Source == Archive \cup {User}
Node == [kind: {"dir", "file"} \cup Links, attr: Attr, src: Source]
Absent == [kind |-> "none"]

ArchPaths(a) == {Entries[a][i].path : i \in DOMAIN Entries[a]}

ASSUME PathAssumption ==
    /\ Anc \in [Path -> SUBSET Path]
    /\ \A p \in Path : p \notin Anc[p] /\ \A q \in Anc[p] : Anc[q] \subseteq Anc[p]
    /\ Stuck \subseteq Path

\* tar writes a directory before what it holds, and no path twice.
ASSUME ArchiveAssumption ==
    /\ NameOf \in [Archive -> Name]
    /\ Entries \in [Archive -> Seq(Entry)]
    /\ \A a \in Archive : \A i, j \in DOMAIN Entries[a] :
          Entries[a][i].path = Entries[a][j].path => i = j
    /\ \A a \in Archive : \A i \in DOMAIN Entries[a] : \A q \in Anc[Entries[a][i].path] :
          \E j \in 1..(i - 1) : Entries[a][j].path = q /\ Entries[a][j].kind = "dir"

ASSUME ConfigAssumption ==
    /\ Rules \in Seq(Rule)
    /\ UserNodes \in [Path -> SUBSET Node]
    /\ \A p \in Path : \A n \in UserNodes[p] : n.src = User
    /\ Roots \subseteq {"absolute", "relative"}
    /\ BadFile \notin Archive /\ User \notin Archive
    /\ MaxArgs \in Nat

Conflict == {"NONE", "SELF", "DB", "FS", "PERM", "REF"}
AllFlags == Conflict \ {"NONE"}      \* what -1 is to the & of its callers
FileDesc == [pos: Nat \ {0}, path: Path, kind: {"dir", "file"}, conflict: Conflict]
PkgDesc == [name: Name, version: Archive, files: SUBSET FileDesc]

VARIABLES
    fs,         \* the root file system
    rejected,   \* rejected[p]: whose version of p lies below PKG_REJECT_DIR
    disk,       \* what a reader of the database file gets
    pc,         \* where the process is; "idle" when there is none
    tool, opts, root, args,     \* its command line, args from optind on
    cwd,        \* its working directory: where it started, or the root
    pkg_db,     \* its copy of the database
    pkg,        \* the package being added, until it is in pkg_db
    next,       \* the archive entry extract_files is at, or was at last
    ret,        \* what pkg_add returned: a set of flags
    leftover,   \* history: paths reported as impossible to remove
    oldPaths,   \* history: the paths of the version being replaced
    failed      \* history: the entries of this package that failed to extract

external == <<fs, rejected, disk, leftover>>
process == <<pc, tool, opts, root, args, cwd, pkg_db, pkg, next, ret, oldPaths, failed>>
vars == <<fs, rejected, disk, leftover, process>>

PathsOf(d) == {f.path : f \in d.files}
Registered(db) == UNION {PathsOf(d) : d \in db}
Named(db, n) == {d \in db : d.name = n}
Others(db, n) == {d \in db : d.name # n}

\* The description d once the flags c of some paths are set; c is a function.
Flagged(d, c) ==
    [d EXCEPT !.files = {[f EXCEPT !.conflict = IF f.path \in DOMAIN c THEN c[f.path] ELSE @] :
                            f \in @}]
Unflagged(d) == Flagged(d, [p \in PathsOf(d) |-> "NONE"])

-----------------------------------------------------------------------------
(* The file system calls: remove(3) and archive_read_extract(3).           *)

Exists(p) == fs[p] # Absent
Children(p) == {q \in Path : p \in Anc[q] /\ Exists(q)}

\* With p goes what was reached through it, when p is a link to a directory.
Without(p) == [q \in Path |-> IF q = p \/ p \in Anc[q] THEN Absent ELSE fs[q]]
Removable(p) == Exists(p) /\ p \notin Stuck /\ (fs[p].kind = "dir" => Children(p) = {})

\* A path below a file, or a directory in the way that is in use, cannot be made.
Extractable(e) ==
    /\ e.path \in Stuck => ~Exists(e.path)
    /\ \A q \in Anc[e.path] : ~Exists(q) \/ fs[q].kind \in {"dir", "dirlink"}
    /\ e.kind = "file" /\ Exists(e.path) /\ fs[e.path].kind = "dir" => Children(e.path) = {}

\* A directory that is there takes the mode of the entry, a link to one stays;
\* anything else is unlinked first. Missing ancestors are made.
Extracted(e, a) ==
    LET new(k) == [kind |-> k, attr |-> e.attr, src |-> a]
        base == [q \in Path |-> IF q \in Anc[e.path] /\ ~Exists(q) THEN new("dir") ELSE fs[q]]
    IN  IF e.kind = "dir" /\ Exists(e.path) /\ fs[e.path].kind \in {"dir", "dirlink"}
        THEN [base EXCEPT ![e.path] = IF @.kind = "dir" THEN [@ EXCEPT !.attr = e.attr] ELSE @]
        ELSE [q \in Path |-> IF q = e.path THEN new(e.kind)
                             ELSE IF e.path \in Anc[q] THEN Absent ELSE base[q]]

-----------------------------------------------------------------------------
(* The database in memory and on disk.                                     *)

\* Reading the database back gives every entry the flag CONFLICT_NONE.
Written(db) == {Unflagged(d) : d \in db}
Commit(db) ==
    /\ pkg_db' = db
    /\ disk' = Written(db)
    /\ leftover' = leftover \ Registered(db)

\* cleanup_pkg_db: a flagged entry is taken out of its package.
CleanupDb(db) == {[d EXCEPT !.files = {f \in @ : f.conflict = "NONE"}] : d \in db}

-----------------------------------------------------------------------------
(* The conflicts of a new package with the database and the file system.   *)

ListFilesFromZero(a) ==
    {[pos |-> i - 1, path |-> Entries[a][i].path, kind |-> Entries[a][i].kind,
      conflict |-> "NONE"] : i \in DOMAIN Entries[a]}

ListFiles(a) ==
    {[pos |-> i, path |-> Entries[a][i].path, kind |-> Entries[a][i].kind,
      conflict |-> "NONE"] : i \in DOMAIN Entries[a]}

\* Where db_conflict flags a file: "directories can't conflict".
Clash(db, a) ==
    {Entries[a][i].path : i \in {j \in DOMAIN Entries[a] : Entries[a][j].kind # "dir"}}
        \cap Registered(Others(db, NameOf[a]))

\* intersect_uniq reports one of several equal entries of dbfiles, whichever
\* qsort put first: hit[p] is the package whose entry for p that is.
Hits(db, a) ==
    {h \in [Clash(db, a) -> Name] : \A p \in Clash(db, a) :
        \E d \in Others(db, NameOf[a]) : d.name = h[p] /\ p \in PathsOf(d)}

OldPaths(db, a) == Registered(Named(db, NameOf[a]))

\* adjust_with_db, on the packages of the database: flags accumulate, and
\* old_reference comes after self_conflict.
FlaggedDbNoRefs(db, a, hit) ==
    LET self == [p \in ArchPaths(a) |-> "SELF"]
        other(d) == [p \in {q \in Clash(db, a) : hit[q] = d.name} |-> "DB"]
    IN  {Flagged(d, self) : d \in Named(db, NameOf[a])}
            \cup {Flagged(d, other(d)) : d \in Others(db, NameOf[a])}

FlaggedDb(db, a, hit) ==
    LET n == NameOf[a]
        refs == Registered(Others(db, n))
        old == [p \in refs \cup ArchPaths(a) |-> IF p \in refs THEN "REF" ELSE "SELF"]
        other(d) == [p \in {q \in Clash(db, a) : hit[q] = d.name} |-> "DB"]
    IN  {Flagged(d, old) : d \in Named(db, n)} \cup {Flagged(d, other(d)) : d \in Others(db, n)}

\* adjust_with_fs, for one file of the new package.
AdjustWithFs(f, attr) ==
    IF ~Exists(f.path)
    THEN [f EXCEPT !.conflict = IF @ = "SELF" THEN "NONE" ELSE @]
    ELSE LET st == fs[f.path] IN
         IF f.kind = "dir" /\ st.kind \in Links
         THEN IF st.kind = "dirlink" THEN [f EXCEPT !.kind = "file"]
              ELSE [f EXCEPT !.conflict = "PERM"]
         ELSE IF f.kind = "dir" /\ (st.kind # "dir" \/ st.attr # attr)
         THEN [f EXCEPT !.conflict = "PERM"]
         ELSE IF f.kind # "dir" /\ f.conflict \notin {"DB", "SELF"}
         THEN [f EXCEPT !.conflict = "FS"]
         ELSE f

\* The description of a after adjust_with_db (self_conflict comes after
\* db_conflict and overwrites its flag) and adjust_with_fs.
NewPkgDbLast(db, a) ==
    LET dbFlag(f) == IF f.path \in Clash(db, a) THEN "DB"
                     ELSE IF f.path \in OldPaths(db, a) THEN "SELF" ELSE "NONE"
    IN  [name |-> NameOf[a], version |-> a,
         files |-> {AdjustWithFs([f EXCEPT !.conflict = dbFlag(f)], Entries[a][f.pos].attr) :
                        f \in ListFiles(a)}]

NewPkg(db, a) ==
    LET dbFlag(f) == IF f.path \in OldPaths(db, a) THEN "SELF"
                     ELSE IF f.path \in Clash(db, a) THEN "DB" ELSE "NONE"
    IN  [name |-> NameOf[a], version |-> a,
         files |-> {AdjustWithFs([f EXCEPT !.conflict = dbFlag(f)], Entries[a][f.pos].attr) :
                        f \in ListFiles(a)}]

\* stat(2) fails behind a dangling link, and adjust_with_fs dies.
StatDies(a) ==
    \E i \in DOMAIN Entries[a] :
        LET e == Entries[a][i]
        IN  e.kind = "dir" /\ Exists(e.path) /\ fs[e.path].kind = "deadlink"

ReportConflicts(d) == {f.conflict : f \in d.files} \cap {"DB", "FS", "PERM"}

\* found_conflicts & PERM without PKG_ADD_FORCE_PERM, or any other bit
\* without PKG_ADD_FORCE: the test of pkg_add and, again, of pkgadd's main.
BlockingSwapped(found) ==
    \/ "PERM" \in found /\ "FORCE" \notin opts
    \/ found \ {"PERM"} # {} /\ "FORCE_PERM" \notin opts

Blocking(found) ==
    \/ "PERM" \in found /\ "FORCE_PERM" \notin opts
    \/ found \ {"PERM"} # {} /\ "FORCE" \notin opts

\* The last rule that matches wins; without one the answer is yes.
AdjustWithConfig(p, type) ==
    LET hits == {r \in DOMAIN Rules : Rules[r].type = type /\ p \in Rules[r].match}
    IN  \A r \in hits : (\A s \in hits : s <= r) => Rules[r].yes

-----------------------------------------------------------------------------
(* The process: start, main loop, end.                                     *)

ArgLists(S) == UNION {[1..k -> S] : k \in 1..MaxArgs}
Cur == Head(args)

NoProcess ==
    /\ pc = "idle" /\ tool = "none" /\ opts = {} /\ root = "absolute" /\ args = <<>>
    /\ cwd = "start" /\ pkg_db = {} /\ pkg = NoPkg /\ next = 0 /\ ret = {}
    /\ oldPaths = {} /\ failed = {}

\* The process is gone, whether it exits, aborts or is killed: what was in
\* memory is lost, what was done stays done.
Exit ==
    /\ pc' = "idle" /\ tool' = "none" /\ opts' = {} /\ root' = "absolute" /\ args' = <<>>
    /\ cwd' = "start" /\ pkg_db' = {} /\ pkg' = NoPkg /\ next' = 0 /\ ret' = {}
    /\ oldPaths' = {} /\ failed' = {}
    /\ UNCHANGED external

Init ==
    /\ fs \in [Path -> (UNION {UserNodes[p] : p \in Path}) \cup {Absent}]
    /\ \A p \in Path : Exists(p) =>
          fs[p] \in UserNodes[p] /\ \A q \in Anc[p] : Exists(q) /\ fs[q].kind = "dir"
    /\ rejected = [p \in Path |-> User]
    /\ disk = {} /\ leftover = {}
    /\ NoProcess

\* main up to the loop: options, pkg_lock_db, pkg_init_db.
Start(t, o, r, as) ==
    /\ pc = "idle"
    /\ pc' = "next" /\ tool' = t /\ opts' = o /\ root' = r /\ args' = as
    /\ pkg_db' = disk
    /\ UNCHANGED <<external, cwd, pkg, next, ret, oldPaths, failed>>

StartAdd ==
    \E o \in SUBSET {"FORCE", "FORCE_PERM"}, r \in Roots, as \in ArgLists(Archive \cup {BadFile}) :
        Start("pkgadd", o, r, as)
StartRm == \E r \in Roots, as \in ArgLists(Name) : Start("pkgrm", {}, r, as)

\* No argument left: pkg_free_db, pkg_unlock_db, exit(0).
Finish == pc = "next" /\ args = <<>> /\ Exit

\* SIGKILL, or an abort() of the code, at any point.
Crash == pc # "idle" /\ Exit

-----------------------------------------------------------------------------
(* pkg_add.                                                                *)

AtAdd == pc = "next" /\ tool = "pkgadd" /\ args # <<>>

\* The argument cannot be opened or is no package name: -1.
AddError ==
    /\ AtAdd /\ Cur = BadFile
    /\ ret' = AllFlags /\ pc' = "return"
    /\ UNCHANGED <<external, tool, opts, root, args, cwd, pkg_db, pkg, next, oldPaths, failed>>

AddDie == AtAdd /\ Cur \in Archive /\ StatDies(Cur) /\ Exit

\* Conflicts that the options do not allow: cleanup_pkg_db, and return.
AddRefuse ==
    /\ AtAdd /\ Cur \in Archive /\ ~StatDies(Cur)
    /\ LET found == ReportConflicts(NewPkg(pkg_db, Cur))
       IN  /\ Blocking(found)
           /\ ret' = found
    /\ \E hit \in Hits(pkg_db, Cur) : pkg_db' = CleanupDb(FlaggedDb(pkg_db, Cur, hit))
    /\ pc' = "return"
    /\ UNCHANGED <<external, tool, opts, root, args, cwd, pkg, next, oldPaths, failed>>

\* read_config, chdir to the root, list_files and the conflict checks.
AddAccept ==
    /\ AtAdd /\ Cur \in Archive /\ ~StatDies(Cur)
    /\ pkg' = NewPkg(pkg_db, Cur)
    /\ LET found == ReportConflicts(pkg')
       IN  /\ ~Blocking(found)
           /\ ret' = found
    /\ \E hit \in Hits(pkg_db, Cur) : pkg_db' = FlaggedDb(pkg_db, Cur, hit)
    /\ oldPaths' = OldPaths(pkg_db, Cur)
    /\ failed' = {}
    /\ cwd' = "root" /\ pc' = "del"
    /\ UNCHANGED <<external, tool, opts, root, args, next>>

OldFiles == UNION {d.files : d \in Named(pkg_db, pkg.name)}
FirstOf(files) == {f \in files : \A g \in files : f.pos <= g.pos}
LastOf(files) == {f \in files : \A g \in files : g.pos <= f.pos}
DropFile(db, n, f) ==
    Others(db, n) \cup {[d EXCEPT !.files = @ \ {f}] : d \in Named(db, n)}

\* remove(3) of a path, or the message that it cannot be removed.
RemovePath(p) ==
    IF Removable(p)
    THEN fs' = Without(p) /\ UNCHANGED leftover
    ELSE leftover' = leftover \cup {q \in {p} : Exists(q)} /\ UNCHANGED fs

\* One turn of del_old_pkg's loop, which starts at the tail of the list.
DelOldFile ==
    /\ pc = "del"
    /\ \E f \in LastOf(OldFiles) :
          /\ IF f.conflict = "NONE" THEN RemovePath(f.path) ELSE UNCHANGED <<fs, leftover>>
          /\ pkg_db' = DropFile(pkg_db, pkg.name, f)
    /\ UNCHANGED <<rejected, disk, pc, tool, opts, root, args, cwd, pkg, next, ret,
                   oldPaths, failed>>

\* opt_root is resolved against the working directory, which is the root now.
DbReachable == ~(root = "relative" /\ cwd = "root")

\* The old package leaves the list, cleanup_pkg_db, list_append, pkg_commit_db.
AddCommitOldStays ==
    /\ pc = "del" /\ OldFiles = {} /\ DbReachable
    /\ Commit(CleanupDb(pkg_db) \cup {pkg})
    /\ pkg' = NoPkg /\ next' = 1 /\ pc' = "extract"
    /\ UNCHANGED <<fs, rejected, tool, opts, root, args, cwd, ret, oldPaths, failed>>

AddCommitAppendFirst ==
    /\ pc = "del" /\ OldFiles = {} /\ DbReachable
    /\ Commit(CleanupDb(Others(pkg_db, pkg.name) \cup {pkg}))
    /\ pkg' = NoPkg /\ next' = 1 /\ pc' = "extract"
    /\ UNCHANGED <<fs, rejected, tool, opts, root, args, cwd, ret, oldPaths, failed>>

AddCommit ==
    /\ pc = "del" /\ OldFiles = {} /\ DbReachable
    /\ Commit(CleanupDb(Others(pkg_db, pkg.name)) \cup {pkg})
    /\ pkg' = NoPkg /\ next' = 1 /\ pc' = "extract"
    /\ UNCHANGED <<fs, rejected, tool, opts, root, args, cwd, ret, oldPaths, failed>>

\* fopen of the new database fails: die.
CommitDie == pc = "del" /\ OldFiles = {} /\ ~DbReachable /\ Exit

AtEntry == pc = "extract" /\ next \in DOMAIN Entries[Cur]
EntryNow == Entries[Cur][next]

\* The description that is at the same position of the package's file list.
FileNow == CHOOSE f \in UNION {d.files : d \in Named(pkg_db, NameOf[Cur])} : f.pos = next

RejectsUpgradesOnly ==
    FileNow.conflict = "SELF" /\ ~AdjustWithConfig(EntryNow.path, "UPGRADE")
Rejects == FileNow.conflict # "NONE" /\ ~AdjustWithConfig(EntryNow.path, "UPGRADE")
Advance ==
    /\ next' = next + 1
    /\ UNCHANGED <<disk, leftover, pc, tool, opts, root, args, cwd, pkg_db, pkg, ret, oldPaths>>

SkipEntryOnUpgradeRule ==
    /\ AtEntry /\ ~AdjustWithConfig(EntryNow.path, "UPGRADE")
    /\ Advance /\ UNCHANGED <<fs, rejected, failed>>

SkipEntry ==
    /\ AtEntry /\ ~AdjustWithConfig(EntryNow.path, "INSTALL")
    /\ Advance /\ UNCHANGED <<fs, rejected, failed>>

RejectEntry ==
    /\ AtEntry /\ AdjustWithConfig(EntryNow.path, "INSTALL") /\ Rejects
    /\ rejected' = [rejected EXCEPT ![EntryNow.path] = Cur]
    /\ Advance /\ UNCHANGED <<fs, failed>>

InstallEntry ==
    /\ AtEntry /\ AdjustWithConfig(EntryNow.path, "INSTALL") /\ ~Rejects
    /\ Extractable(EntryNow)
    /\ fs' = Extracted(EntryNow, Cur)
    /\ Advance /\ UNCHANGED <<rejected, failed>>

\* archive_read_extract fails, having unlinked the old file or not: the code
\* prints a message and goes on.
ExtractFails ==
    /\ AtEntry /\ AdjustWithConfig(EntryNow.path, "INSTALL")
    /\ \/ UNCHANGED fs
       \/ ~Rejects /\ EntryNow.kind = "file" /\ Removable(EntryNow.path)
          /\ fs' = Without(EntryNow.path)
    /\ failed' = failed \cup {EntryNow.path}
    /\ Advance /\ UNCHANGED rejected

\* cleanup_pkg clears the flags of the new package; run_ldconfig.
ReturnFlagsStay ==
    /\ pc' = "return"
    /\ UNCHANGED <<external, tool, opts, root, args, cwd, pkg_db, pkg, next, ret, oldPaths, failed>>

AddReturns ==
    /\ pkg_db' = Others(pkg_db, NameOf[Cur]) \cup
                    {Unflagged(d) : d \in Named(pkg_db, NameOf[Cur])}
    /\ pc' = "return"
    /\ UNCHANGED <<external, tool, opts, root, args, cwd, pkg, next, ret, oldPaths, failed>>

AddDone == pc = "extract" /\ next \notin DOMAIN Entries[Cur] /\ AddReturns

\* The archive cannot be opened or read any further: do_archive prints why and
\* returns -1, which pkg_add does not look at.
ReadStops == AtEntry /\ AddReturns

\* Back in pkgadd's main, in the old working directory.
NextArg ==
    /\ args' = Tail(args) /\ pc' = "next" /\ cwd' = "start" /\ next' = 0
    /\ ret' = {} /\ oldPaths' = {} /\ failed' = {}
    /\ UNCHANGED <<external, tool, opts, root, pkg>>

AddReturnAlways == pc = "return" /\ NextArg /\ UNCHANGED pkg_db
AddReturn == pc = "return" /\ ~Blocking(ret) /\ NextArg /\ UNCHANGED pkg_db
AddExit == pc = "return" /\ Blocking(ret) /\ Exit

-----------------------------------------------------------------------------
(* pkg_rm.                                                                 *)

AtRm == pc = "next" /\ tool = "pkgrm" /\ args # <<>>

RmUnknown == AtRm /\ Named(pkg_db, Cur) = {} /\ NextArg /\ UNCHANGED pkg_db

\* What another package lists too leaves the list of this one.
DeleteRefs(db, n) ==
    Others(db, n) \cup
      {[d EXCEPT !.files = {f \in @ : f.path \notin Registered(Others(db, n))}] : d \in Named(db, n)}

RmStart ==
    /\ AtRm /\ Named(pkg_db, Cur) # {}
    /\ pkg_db' = DeleteRefs(pkg_db, Cur)
    /\ pc' = "rm"
    /\ UNCHANGED <<external, tool, opts, root, args, cwd, pkg, next, ret, oldPaths, failed>>

RmFiles == UNION {d.files : d \in Named(pkg_db, Cur)}

\* One turn of remove_from_fs's loop, from the tail of the list.
RmFileUnlessStuck ==
    /\ pc = "rm"
    /\ \E f \in LastOf(RmFiles) :
          /\ RemovePath(f.path)
          /\ pkg_db' = IF Removable(f.path) THEN DropFile(pkg_db, Cur, f) ELSE pkg_db
    /\ UNCHANGED <<rejected, disk, pc, tool, opts, root, args, cwd, pkg, next, ret,
                   oldPaths, failed>>

RmFile ==
    /\ pc = "rm"
    /\ \E f \in LastOf(RmFiles) :
          /\ RemovePath(f.path)
          /\ pkg_db' = DropFile(pkg_db, Cur, f)
    /\ UNCHANGED <<rejected, disk, pc, tool, opts, root, args, cwd, pkg, next, ret,
                   oldPaths, failed>>

\* The package leaves the list, pkg_commit_db, run_ldconfig, the next argument.
RmCommitFirst ==
    /\ pc = "rm"
    /\ Commit(Others(pkg_db, Cur))
    /\ args' = Tail(args) /\ pc' = "next"
    /\ UNCHANGED <<fs, rejected, tool, opts, root, cwd, pkg, next, ret, oldPaths, failed>>

RmCommit ==
    /\ pc = "rm" /\ RmFiles = {}
    /\ Commit(Others(pkg_db, Cur))
    /\ args' = Tail(args) /\ pc' = "next"
    /\ UNCHANGED <<fs, rejected, tool, opts, root, cwd, pkg, next, ret, oldPaths, failed>>

-----------------------------------------------------------------------------
(* Everyone else: while no tool runs, files are edited, made and removed.  *)

UserPuts(p) ==
    /\ pc = "idle"
    /\ \E n \in UserNodes[p] :
          /\ Exists(p) /\ fs[p].kind = "dir" => n.kind = "dir"
          /\ \A q \in Anc[p] : Exists(q) /\ fs[q].kind \in {"dir", "dirlink"}
          /\ fs' = [IF Exists(p) /\ fs[p].kind = n.kind THEN fs ELSE Without(p) EXCEPT ![p] = n]
    /\ UNCHANGED <<rejected, disk, leftover, process>>

UserRemoves(p) ==
    /\ pc = "idle" /\ UserNodes[p] # {} /\ Removable(p)
    /\ fs' = Without(p)
    /\ UNCHANGED <<rejected, disk, leftover, process>>

Step ==
    \/ Finish \/ AddError \/ AddDie \/ AddRefuse \/ AddAccept \/ DelOldFile \/ AddCommit
    \/ CommitDie \/ SkipEntry \/ RejectEntry \/ InstallEntry \/ ExtractFails \/ AddDone
    \/ ReadStops \/ AddReturn \/ AddExit \/ RmUnknown \/ RmStart \/ RmFile \/ RmCommit

Environment == StartAdd \/ StartRm \/ Crash \/ \E p \in Path : UserPuts(p) \/ UserRemoves(p)

Next == Step \/ Environment

Spec == Init /\ [][Next]_vars

\* A started process keeps running: nothing in it waits for anything.
FairSpec == Spec /\ WF_vars(Step)
=============================================================================
