------------------------------ MODULE PkgInfo ------------------------------
(***************************************************************************)
(* pkginfo (src/src/pkginfo.c): what it answers while others change the    *)
(* file system. It takes no lock: it reads the database once and then      *)
(* looks at one path after the other.                                      *)
(***************************************************************************)
EXTENDS Integers, Sequences, FiniteSets

CONSTANTS
    Root, Path,     \* the root directory, and the paths below it
    Parent,         \* [Path -> Path \cup {Root}]
    Key,            \* how strcmp orders the paths: [Path -> Nat]
    Locked,         \* directories the user may neither list nor search
    Excepted,       \* the paths that match the pattern of -O
    Queries,        \* command lines: the options given, and their argument
    Databases,      \* what pkg_init_db reads: sequences of [name, files]
    Disks,          \* the file system at the start
    MaxChanges      \* bound: changes of the file system during a run

Kind == {"absent", "file", "dir"}
\* The directories above p: what is in every set that holds p and, with a path,
\* the directory it is in.
Upward(S) == \A q \in S : Parent[q] # Root => Parent[q] \in S
UpwardSets == {S \in SUBSET Path : Upward(S)}
AboveOf == [p \in Path |-> {q \in Path \ {p} : \A S \in UpwardSets : p \in S => q \in S}]
Above(p) == AboveOf[p]
IsTree(d) == \A p \in Path : d[p] # "absent" => \A q \in Above(p) : d[q] = "dir"

\* The files of all packages, in the order of the list.
FilesOf(d) ==
    LET upto[k \in 0..Len(d)] == IF k = 0 THEN <<>> ELSE upto[k - 1] \o d[k].files
    IN upto[Len(d)]

\* No directory is below itself; packages list paths.
ASSUME PkgInfoAssumption ==
    /\ Root \notin Path /\ Parent \in [Path -> Path \cup {Root}]
    /\ Key \in [Path -> Nat] /\ \A p, q \in Path : Key[p] = Key[q] => p = q
    /\ \A S \in SUBSET Path : S # {} => \E p \in S : Parent[p] \notin S
    /\ \A d \in Databases : FilesOf(d) \in Seq(Path)
    /\ Locked \subseteq Path /\ Excepted \subseteq Path /\ MaxChanges \in Nat
    /\ \A d \in Disks : d \in [Path -> Kind] /\ IsTree(d)

VARIABLES
    opts, arg,      \* the options, and the argument of -l, -o and -f
    op,             \* the one that is served
    db,             \* pkg_db
    disk,           \* the file system
    ipc, ret,
    left,           \* -m: the files still to be looked at
    found,          \* the list that is built: missing files, or files of the walk
    frames,         \* -O: the open directories, the innermost last
    target,         \* -O: the directory to be opened
    out,            \* what was printed: paths (-m, -O, -o, -l) or names (-i)
    changes,        \* changes so far
    was             \* history: what each path was since the start

infoVars == <<opts, arg, op, db, disk, ipc, ret, left, found, frames, target, out, changes, was>>
query == <<opts, arg, db>>

Now(d) == {<<p, d[p]>> : p \in Path}

InfoStart(q, d, fs) ==
    /\ opts = q.opts /\ arg = q.arg /\ db = d /\ disk = fs
    /\ op = "none" /\ ipc = "main" /\ ret = 1 /\ left = <<>> /\ found = {} /\ frames = <<>>
    /\ target = Root /\ out = {} /\ changes = 0 /\ was = Now(fs)

InfoInit == \E q \in Queries, d \in Databases, fs \in Disks : InfoStart(q, d, fs)

-----------------------------------------------------------------------------
Listed(d) == {FilesOf(d)[k] : k \in DOMAIN FilesOf(d)}

Keeps == UNCHANGED <<query, disk, changes, was>>
Exit(r) == ret' = r /\ ipc' = "done"

\* main: the options in the order in which it asks for them.
Served == CHOOSE o \in opts \cup {"none"} :
    LET asked == <<"i", "l", "o", "f", "O", "m", "none">>
    IN \E k \in DOMAIN asked : asked[k] = o /\ \A m \in 1..(k - 1) : asked[m] \notin opts

Dispatch ==
    /\ ipc = "main" /\ opts # {} /\ opts \cap {"h", "?"} = {}
    /\ op' = Served /\ left' = FilesOf(db)
    /\ ipc' = CASE Served = "m" -> "lstat" [] Served = "O" -> "opendir" [] OTHER -> "answer"
    /\ Keeps /\ UNCHANGED <<ret, found, frames, target, out>>

\* -h and -v end the program as they are read, and so does a wrong option.
Quits ==
    /\ ipc = "main"
    /\ \/ "h" \in opts /\ Exit(0)
       \/ "?" \in opts /\ Exit(1)
    /\ Keeps /\ UNCHANGED <<op, left, found, frames, target, out>>

Usage ==
    /\ ipc = "main" /\ opts = {}
    /\ Exit(1)
    /\ Keeps /\ UNCHANGED <<op, left, found, frames, target, out>>

Answers == ipc = "answer" /\ Keeps /\ UNCHANGED <<op, left, found, frames, target>>
IsArchive == arg = "archive"

Installed == Answers /\ op = "i" /\ out' = {db[k].name : k \in DOMAIN db} /\ Exit(0)

\* -l: an archive's entries, or the files of the package of that name.
ListFilesOf ==
    /\ Answers /\ op = "l"
    /\ LET named == {k \in DOMAIN db : db[k].name = arg} IN
       \/ IsArchive /\ UNCHANGED out /\ \E r \in {0, -1} : Exit(r)
       \/ ~IsArchive /\ named = {} /\ UNCHANGED out /\ Exit(1)
       \/ ~IsArchive /\ named # {} /\ Exit(0)
          /\ out' = UNION {{db[k].files[f] : f \in DOMAIN db[k].files} : k \in named}

\* -o: the pattern is a path here; whatever is found, the status is 1.
Owner == Answers /\ op = "o" /\ out' = Listed(db) \cap {arg} /\ Exit(1)

Footprint ==
    /\ Answers /\ op = "f" /\ UNCHANGED out
    /\ \/ IsArchive /\ \E r \in {0, -1} : Exit(r)
       \/ ~IsArchive /\ Exit(1)

-----------------------------------------------------------------------------
\* What the kernel says of a path: "ok", or why it did not get there.
Lookup(p) ==
    IF \E q \in Above(p) : q \in Locked /\ disk[q] = "dir" THEN "EACCES"
    ELSE IF \E q \in Above(p) : disk[q] = "file" THEN "ENOTDIR"
    ELSE IF disk[p] = "absent" THEN "ENOENT" ELSE "ok"

MissingRest == Keeps /\ UNCHANGED <<op, frames, target>>

LstatKeepsAll ==
    /\ ipc = "lstat" /\ left # <<>>
    /\ left' = Tail(left) /\ found' = found \cup {Head(left)}
    /\ UNCHANGED <<ipc, ret, out>> /\ MissingRest

\* One turn of the loop of missing(): an entry that is there leaves the list.
Lstat ==
    /\ ipc = "lstat" /\ left # <<>> /\ Lookup(Head(left)) # "ENOTDIR"
    /\ left' = Tail(left)
    /\ found' = IF Lookup(Head(left)) = "ok" THEN found ELSE found \cup {Head(left)}
    /\ UNCHANGED <<ipc, ret, out>> /\ MissingRest

LstatDies ==
    /\ ipc = "lstat" /\ left # <<>> /\ Lookup(Head(left)) = "ENOTDIR"
    /\ ipc' = "died" /\ UNCHANGED <<ret, left, found, out>> /\ MissingRest

PrintMissing ==
    /\ ipc = "lstat" /\ left = <<>>
    /\ out' = found /\ Exit(0) /\ UNCHANGED <<left, found>> /\ MissingRest

-----------------------------------------------------------------------------
(* list_fs_files.  A frame is one call: its directory, the entries readdir *)
(* must still return, because they were there all the time, and those it   *)
(* may return or not, with their type, because they came or went. It       *)
(* returns no name twice, and always says what is a directory.             *)

Children(d, dir) == {p \in Path : Parent[p] = dir /\ d[p] # "absent"}
WalkRest == Keeps /\ UNCHANGED <<op, left, ret>>

\* What opendir finds: a directory it may list, or why there is none.
Opens(p) == IF p = Root THEN "dir"
            ELSE IF Lookup(p) # "ok" THEN Lookup(p)
            ELSE IF p \in Locked /\ disk[p] = "dir" THEN "EACCES" ELSE disk[p]

OpenDirReusesFrame ==
    /\ ipc = "opendir" /\ Opens(target) = "dir"
    /\ LET f == [dir |-> target, must |-> Children(disk, target), may |-> {}, open |-> TRUE]
       IN frames' = IF target = Root THEN <<f>> ELSE [frames EXCEPT ![Len(frames)] = f]
    /\ ipc' = "readdir" /\ UNCHANGED <<found, target, out>> /\ WalkRest

OpenDir ==
    /\ ipc = "opendir" /\ Opens(target) = "dir"
    /\ frames' = Append(frames, [dir |-> target, must |-> Children(disk, target), may |-> {},
                                 open |-> TRUE])
    /\ ipc' = "readdir" /\ UNCHANGED <<found, target, out>> /\ WalkRest

\* EACCES: the directory is passed over.
OpenDenied ==
    /\ ipc = "opendir" /\ Opens(target) = "EACCES"
    /\ ipc' = "readdir" /\ UNCHANGED <<found, frames, target, out>> /\ WalkRest

OpenDies ==
    /\ ipc = "opendir" /\ Opens(target) \in {"ENOENT", "ENOTDIR", "file"}
    /\ ipc' = "died" /\ UNCHANGED <<found, frames, target, out>> /\ WalkRest

Top == frames[Len(frames)]
Forget(f, p) == [f EXCEPT !.must = @ \ {p}, !.may = {e \in @ : e[1] # p}]

ReadDirListsExcepted ==
    /\ ipc = "readdir" /\ frames # <<>>
    /\ \E e \in Top.may \cup {<<p, disk[p]>> : p \in Top.must} :
        /\ frames' = [frames EXCEPT ![Len(frames)] = Forget(@, e[1])]
        /\ found' = found \cup {e[1]}
        /\ IF e[1] \notin Excepted /\ e[2] = "dir" THEN target' = e[1] /\ ipc' = "opendir"
           ELSE UNCHANGED <<target, ipc>>
    /\ UNCHANGED out /\ WalkRest

\* An entry that does not match the pattern is listed, and walked when it is a
\* directory.
ReadDir ==
    /\ ipc = "readdir" /\ frames # <<>>
    /\ \E e \in Top.may \cup {<<p, disk[p]>> : p \in Top.must} :
        /\ frames' = [frames EXCEPT ![Len(frames)] = Forget(@, e[1])]
        /\ found' = IF e[1] \in Excepted THEN found ELSE found \cup {e[1]}
        /\ IF e[1] \notin Excepted /\ e[2] = "dir" THEN target' = e[1] /\ ipc' = "opendir"
           ELSE UNCHANGED <<target, ipc>>
    /\ UNCHANGED out /\ WalkRest

DirEnds ==
    /\ ipc = "readdir" /\ frames # <<>> /\ Top.must = {}
    /\ frames' = SubSeq(frames, 1, Len(frames) - 1)
    /\ UNCHANGED <<ipc, found, target, out>> /\ WalkRest

\* find_orphans: the pass over the two sorted arrays reports what is only in
\* the first; once the last path of the database was met there, nothing more
\* (Intersect!ReportsUpToLastMatch).
LastListed == {p \in Listed(db) : \A q \in Listed(db) : Key[q] <= Key[p]}
PastLastMatch(p) == \E m \in LastListed : m \in found /\ Key[p] > Key[m]

FindOrphans ==
    /\ ipc = "readdir" /\ frames = <<>>
    /\ out' = {p \in found \ Listed(db) : ~PastLastMatch(p)}
    /\ Exit(0)
    /\ Keeps /\ UNCHANGED <<op, left, found, frames, target>>

-----------------------------------------------------------------------------
\* Somebody else makes or removes a file or an empty directory.
FrameSees(f, p, kind) ==
    IF f.dir = p THEN [f EXCEPT !.open = FALSE]
    ELSE IF f.open /\ f.dir = Parent[p] /\ p \notin found
    THEN [f EXCEPT !.must = @ \ {p}, !.may = @ \cup {<<p, kind>>}] ELSE f

Changes(p, kind, seenAs) ==
    /\ ipc \notin {"main", "done", "died"} /\ changes < MaxChanges
    /\ disk' = [disk EXCEPT ![p] = kind] /\ changes' = changes + 1
    /\ was' = was \cup {<<p, kind>>}
    /\ frames' = [k \in DOMAIN frames |-> FrameSees(frames[k], p, seenAs)]
    /\ UNCHANGED <<query, op, ipc, ret, left, found, target, out>>

Appears ==
    \E p \in Path, kind \in {"file", "dir"} :
        /\ disk[p] = "absent" /\ \A q \in Above(p) : disk[q] = "dir"
        /\ Changes(p, kind, kind)

Disappears ==
    \E p \in Path :
        /\ disk[p] # "absent" /\ Children(disk, p) = {}
        /\ Changes(p, "absent", disk[p])

InfoNext ==
    \/ Dispatch \/ Quits \/ Usage \/ Installed \/ ListFilesOf \/ Owner \/ Footprint
    \/ Lstat \/ LstatDies \/ PrintMissing
    \/ OpenDir \/ OpenDenied \/ OpenDies \/ ReadDir \/ DirEnds \/ FindOrphans
    \/ Appears \/ Disappears

InfoSpec == InfoInit /\ [][InfoNext]_infoVars

-----------------------------------------------------------------------------
WasThere(p) == <<p, "file">> \in was \/ <<p, "dir">> \in was
\* There, and the same, all the time.
Steady(p) == \E k \in {"file", "dir"} : {e \in was : e[1] = p} = {<<p, k>>}

\* Type correctness.
InfoTypeOK ==
    /\ op \in {"none", "i", "l", "o", "f", "O", "m"}
    /\ ipc \in {"main", "answer", "lstat", "opendir", "readdir", "done", "died"}
    /\ disk \in [Path -> Kind] /\ IsTree(disk) /\ was \subseteq Path \X Kind
    /\ ret \in {-1, 0, 1} /\ left \in Seq(Path) /\ found \subseteq Path
    /\ target \in Path \cup {Root} /\ changes \in 0..MaxChanges
    /\ \A k \in DOMAIN frames :
        /\ frames[k].must \subseteq Children(disk, frames[k].dir)
        /\ frames[k].may \subseteq Path \X {"file", "dir"}
        /\ IF k = 1 THEN frames[k].dir = Root ELSE Parent[frames[k].dir] = frames[k - 1].dir

\* pkginfo -m, while the file system changes: what it prints was missing at
\* some time, or cannot be seen; what it does not print was there at some time.
\* It gives up only when something is no directory that was one for the package.
MissingAsSeen ==
    op = "m" =>
        /\ ipc = "done" => \A p \in Listed(db) :
            IF p \in out THEN <<p, "absent">> \in was \/ Above(p) \cap Locked # {}
            ELSE WasThere(p)
        /\ out \subseteq Listed(db)
        /\ ipc = "died" => \E p \in Listed(db) : \E q \in Above(p) : <<q, "file">> \in was

\* pkginfo -O, while the file system changes: what it prints is in no package,
\* was there at some time, and neither it nor a directory above it matches the
\* pattern. What nobody lists and was there all the time it does print, but
\* for locked directories and what sorts behind the last path of the database.
\* It gives up only when a directory vanished under it.
OrphansAsSeen ==
    op = "O" =>
        /\ \A p \in out : /\ p \notin Listed(db) /\ WasThere(p)
                          /\ ({p} \cup Above(p)) \cap Excepted = {}
        /\ ipc = "done" => \A p \in Path \ Listed(db) :
            /\ \A q \in {p} \cup Above(p) : Steady(q) /\ q \notin Excepted
            /\ Above(p) \cap Locked = {}
            /\ ~\E m \in LastListed : WasThere(m) /\ Key[p] > Key[m]
            => p \in out
        /\ ipc = "died" => \E p \in Path : <<p, "dir">> \in was /\ ~Steady(p)
=============================================================================
