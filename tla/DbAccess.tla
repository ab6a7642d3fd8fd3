------------------------------ MODULE DbAccess ------------------------------
(***************************************************************************)
(* Several tools and one database file (src/src/libpkgdb.c): pkgadd and    *)
(* pkgrm take a lock on the database directory or give up, read the file,  *)
(* change their copy, write it to db.new and rename that to db; pkginfo    *)
(* reads without a lock. Any of them may be killed, and the machine may    *)
(* lose its power. A database is the set of the packages recorded in it.   *)
(***************************************************************************)
EXTENDS FiniteSets

CONSTANTS
    Proc, Pkg,
    Inode,      \* inodes that hold or held a database
    None

ASSUME DbAssumption ==
    /\ IsFiniteSet(Inode) /\ None \notin Inode /\ None \notin Proc
    /\ "child" \notin Proc \cup {None}

VARIABLES
    data,       \* data[n]: what a read of inode n gets
    synced,     \* synced[n]: what of it a power loss leaves
    db, new,    \* the directory: the inodes of db and db.new
    olddb,      \* the db a power loss may bring back: renames are not synced
    lock,       \* who holds the lock: a process, or the "child" it left
    pc, fd, mem, todo,
    meant,      \* history: meant[n] is what was to be written to inode n
    spoiled     \* history: inodes that a write or an fsync failed on

files == <<data, synced, db, new, olddb, meant, spoiled>>
vars == <<files, lock, pc, fd, mem, todo>>

Readers == {"open", "read"}
Writers == {"wopen", "wread", "change", "create", "write", "rename", "ldconfig"}

Init ==
    /\ \E n \in Inode : db = n /\ olddb = n
    /\ new = None /\ lock = None /\ spoiled = {}
    /\ data = [n \in Inode |-> {}] /\ synced = data /\ meant = data
    /\ pc = [p \in Proc |-> "idle"] /\ fd = [p \in Proc |-> None]
    /\ mem = [p \in Proc |-> {}] /\ todo = [p \in Proc |-> {}]

Goto(p, l) == pc' = [pc EXCEPT ![p] = l]

\* A process ends and its descriptors are closed.
Ends(p) ==
    /\ Goto(p, "idle")
    /\ fd' = [fd EXCEPT ![p] = None]
    /\ mem' = [mem EXCEPT ![p] = {}] /\ todo' = [todo EXCEPT ![p] = {}]

Release(p) == lock' = IF lock = p THEN None ELSE lock

-----------------------------------------------------------------------------
\* pkginfo: pkg_init_db without pkg_lock_db.
StartReader(p) == pc[p] = "idle" /\ Goto(p, "open") /\ UNCHANGED <<files, lock, fd, mem, todo>>

StartWriterShared(p) ==
    /\ pc[p] = "idle"
    /\ Goto(p, "wopen") /\ lock' = p
    /\ UNCHANGED <<files, fd, mem, todo>>

\* pkgadd, pkgrm: pkg_lock_db with LOCK_NB, and die if somebody has it.
StartWriter(p) ==
    /\ pc[p] = "idle" /\ lock = None
    /\ Goto(p, "wopen") /\ lock' = p
    /\ UNCHANGED <<files, fd, mem, todo>>

\* fopen of the database.
Open(p) ==
    /\ pc[p] \in {"open", "wopen"}
    /\ fd' = [fd EXCEPT ![p] = db]
    /\ Goto(p, IF pc[p] = "open" THEN "read" ELSE "wread")
    /\ UNCHANGED <<files, lock, mem, todo>>

\* pkg_read_db, fclose.
Read(p) ==
    /\ pc[p] = "wread"
    /\ mem' = [mem EXCEPT ![p] = data[fd[p]]] /\ fd' = [fd EXCEPT ![p] = None]
    /\ Goto(p, "change")
    /\ UNCHANGED <<files, lock, todo>>

\* The same, and pkginfo prints what it got.
Show(p) == pc[p] = "read" /\ Ends(p) /\ UNCHANGED <<files, lock>>

\* pkg_add or pkg_rm: one package is added to, changed in or taken out of the
\* list; there may be none left to treat, or nothing to change.
Change(p) ==
    /\ pc[p] = "change"
    /\ \E g \in Pkg : mem' = [mem EXCEPT ![p] = IF g \in @ THEN @ \ {g} ELSE @ \cup {g}]
    /\ Goto(p, "create")
    /\ UNCHANGED <<files, lock, fd, todo>>

Finish(p) == pc[p] = "change" /\ Ends(p) /\ Release(p) /\ UNCHANGED files

InUse == {db, new, olddb} \cup {fd[p] : p \in Proc}

CreateInPlace(p) ==
    /\ pc[p] = "create"
    /\ new' = db /\ data' = [data EXCEPT ![db] = {}]
    /\ meant' = [meant EXCEPT ![db] = mem[p]]
    /\ todo' = [todo EXCEPT ![p] = mem[p]]
    /\ Goto(p, "write")
    /\ UNCHANGED <<synced, db, olddb, lock, fd, mem, spoiled>>

\* fopen(db.new, "w"): a file that a killed process left is truncated.
Create(p) ==
    /\ pc[p] = "create"
    /\ \E n \in IF new # None THEN {new} ELSE Inode \ InUse :
          /\ new' = n /\ data' = [data EXCEPT ![n] = {}]
          /\ synced' = [synced EXCEPT ![n] = {}] /\ spoiled' = spoiled \ {n}
          /\ meant' = [meant EXCEPT ![n] = mem[p]]
    /\ todo' = [todo EXCEPT ![p] = mem[p]]
    /\ Goto(p, "write")
    /\ UNCHANGED <<db, olddb, lock, fd, mem>>

\* The loop over pkg_db. Nobody looks at what fputs returns: a package that
\* does not fit on the disk is passed over.
Write(p) ==
    /\ pc[p] = "write"
    /\ \E g \in todo[p] :
          /\ todo' = [todo EXCEPT ![p] = @ \ {g}]
          /\ \/ data' = [data EXCEPT ![new] = @ \cup {g}] /\ UNCHANGED spoiled
             \/ spoiled' = spoiled \cup {new} /\ UNCHANGED data
    /\ UNCHANGED <<synced, db, new, olddb, meant, lock, pc, fd, mem>>

SyncForgotten(p) ==
    /\ pc[p] = "write" /\ todo[p] = {}
    /\ Goto(p, "rename")
    /\ UNCHANGED <<files, lock, fd, mem, todo>>

\* fflush and fsync, whose result nobody looks at either, and fclose.
Sync(p) ==
    /\ pc[p] = "write" /\ todo[p] = {}
    /\ \/ synced' = [synced EXCEPT ![new] = data[new]] /\ UNCHANGED spoiled
       \/ spoiled' = spoiled \cup {new} /\ UNCHANGED synced
    /\ Goto(p, "rename")
    /\ UNCHANGED <<data, db, new, olddb, meant, lock, fd, mem, todo>>

RenameKeepsNew(p) ==
    /\ pc[p] = "rename"
    /\ db' = new
    /\ olddb' \in {olddb, db}
    /\ Goto(p, "ldconfig")
    /\ UNCHANGED <<data, synced, new, meant, spoiled, lock, fd, mem, todo>>

\* rename(db.new, db).
Rename(p) ==
    /\ pc[p] = "rename"
    /\ db' = new /\ new' = None
    /\ olddb' \in {olddb, db}
    /\ Goto(p, "ldconfig")
    /\ UNCHANGED <<data, synced, meant, spoiled, lock, fd, mem, todo>>

\* run_ldconfig: waits for the child; when that fails, abort.
Ldconfig(p) ==
    /\ pc[p] = "ldconfig"
    /\ \/ Goto(p, "change") /\ UNCHANGED <<lock, fd, mem, todo>>
       \/ Ends(p) /\ Release(p)
    /\ UNCHANGED files

-----------------------------------------------------------------------------
\* SIGKILL. The lock belongs to the open directory, which a running ldconfig
\* has inherited.
Kill(p) ==
    /\ pc[p] # "idle" /\ Ends(p)
    /\ IF pc[p] = "ldconfig" THEN lock' \in {"child", None} ELSE Release(p)
    /\ UNCHANGED files

ChildEnds == lock = "child" /\ lock' = None /\ UNCHANGED <<files, pc, fd, mem, todo>>

\* The directory is at its last state or at an earlier one, a file that was
\* not synced has lost what the kernel had not written yet.
PowerLoss ==
    /\ db' \in {db, olddb} /\ olddb' = db'
    /\ new' \in {new, db, None} \ {db'}
    /\ \E kept \in [{new', db'} \ {None} -> SUBSET Pkg] :
          /\ \A n \in DOMAIN kept : synced[n] \subseteq kept[n] /\ kept[n] \subseteq data[n]
          /\ data' = [n \in Inode |-> IF n \in DOMAIN kept THEN kept[n] ELSE data[n]]
    /\ synced' = data'
    /\ lock' = None
    /\ pc' = [p \in Proc |-> "idle"] /\ fd' = [p \in Proc |-> None]
    /\ mem' = [p \in Proc |-> {}] /\ todo' = [p \in Proc |-> {}]
    /\ UNCHANGED <<meant, spoiled>>

Step(p) ==
    \/ Open(p) \/ Read(p) \/ Show(p) \/ Change(p) \/ Finish(p) \/ Create(p)
    \/ Write(p) \/ Sync(p) \/ Rename(p) \/ Ldconfig(p)

Next ==
    \/ \E p \in Proc : StartReader(p) \/ StartWriter(p) \/ Step(p) \/ Kill(p)
    \/ ChildEnds \/ PowerLoss

Spec == Init /\ [][Next]_vars

-----------------------------------------------------------------------------
\* Type correctness; db.new is never another name of db.
TypeOK ==
    /\ data \in [Inode -> SUBSET Pkg] /\ synced \in [Inode -> SUBSET Pkg]
    /\ meant \in [Inode -> SUBSET Pkg] /\ spoiled \subseteq Inode
    /\ db \in Inode /\ olddb \in Inode /\ new \in (Inode \cup {None}) \ {db}
    /\ lock \in Proc \cup {None, "child"}
    /\ pc \in [Proc -> {"idle"} \cup Readers \cup Writers]
    /\ fd \in [Proc -> Inode \cup {None}]
    /\ mem \in [Proc -> SUBSET Pkg] /\ todo \in [Proc -> SUBSET Pkg]

\* pkg_lock_db: whoever may write has the lock, so that there is one at most.
WriterHasLock == \A p \in Proc : pc[p] \in Writers => lock = p

\* The database file is at any time, after a kill or a power loss too, what
\* some process meant to commit (fsync, rename), provided that no write of it
\* failed: pkg_commit_db looks at no result of fputs, fflush and fsync.
AtomicDb == db \notin spoiled => data[db] = meant[db]

\* pkginfo reads without the lock, and still never sees half a database.
ReadersSeeWhole ==
    \A p \in Proc : fd[p] # None /\ fd[p] \notin spoiled => data[fd[p]] = meant[fd[p]]

CommitsOneChange ==
    \A p \in Proc : Rename(p) /\ db \notin spoiled =>
        \E g \in Pkg : meant[db'] = (data[db] \ {g}) \cup ({g} \ data[db])

\* No update is lost: a commit is the database it replaces with one package
\* changed, whatever other processes did since this one read it.
NoLostUpdate == [][CommitsOneChange]_vars
=============================================================================
