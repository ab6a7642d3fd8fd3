------------------------------ MODULE DbProofs ------------------------------
(***************************************************************************)
(* The database file.  How it is reached, for any number of processes,     *)
(* packages and inodes: one writer at most, an atomic file, whole reads,   *)
(* no lost update (DbAccess).  And what is in it, for any database: the    *)
(* packages whose records are complete are read back (DbFile).             *)
(***************************************************************************)
EXTENDS DbAccess, DbFile, SequenceTheorems, TLAPS

\* pc and lock, which the first half of the argument is about.
Locking ==
    /\ lock \in Proc \cup {None, "child"}
    /\ pc \in [Proc -> {"idle"} \cup Readers \cup Writers]
    /\ WriterHasLock

LEMMA LockingInit == Init => Locking
BY DbAssumption DEF Init, Locking, WriterHasLock, Writers, Readers

LEMMA LockingStep == Locking /\ [Next]_vars => Locking'
<1> SUFFICES ASSUME Locking, [Next]_vars PROVE Locking'
    OBVIOUS
<1> USE DbAssumption DEF Locking, WriterHasLock, Writers, Readers, Goto, Ends, Release
<1>1. ASSUME NEW p \in Proc, StartReader(p) PROVE Locking'
    BY <1>1 DEF StartReader
<1>2. ASSUME NEW p \in Proc, StartWriter(p) PROVE Locking'
    BY <1>2 DEF StartWriter
<1>3. ASSUME NEW p \in Proc, Step(p) PROVE Locking'
    <2>1. CASE Open(p)
        BY <2>1 DEF Open
    <2>2. CASE Read(p)
        BY <2>2 DEF Read
    <2>3. CASE Show(p)
        BY <2>3 DEF Show
    <2>4. CASE Change(p)
        BY <2>4 DEF Change
    <2>5. CASE Finish(p)
        BY <2>5 DEF Finish
    <2>6. CASE Create(p)
        BY <2>6 DEF Create
    <2>7. CASE Write(p)
        BY <2>7 DEF Write
    <2>8. CASE Sync(p)
        BY <2>8 DEF Sync
    <2>9. CASE Rename(p)
        BY <2>9 DEF Rename
    <2>10. CASE Ldconfig(p)
        BY <2>10 DEF Ldconfig
    <2> QED
        BY <1>3, <2>1, <2>2, <2>3, <2>4, <2>5, <2>6, <2>7, <2>8, <2>9, <2>10 DEF Step
<1>4. ASSUME NEW p \in Proc, Kill(p) PROVE Locking'
    BY <1>4 DEF Kill
<1>5. CASE ChildEnds
    BY <1>5 DEF ChildEnds
<1>6. CASE PowerLoss
    BY <1>6 DEF PowerLoss
<1>7. CASE UNCHANGED vars
    BY <1>7 DEF vars
<1> QED
    BY <1>1, <1>2, <1>3, <1>4, <1>5, <1>6, <1>7 DEF Next

\* Whoever may write holds the lock.
THEOREM OneWriter == Spec => []WriterHasLock
<1>1. Init => Locking
    BY LockingInit
<1>2. Locking /\ [Next]_vars => Locking'
    BY LockingStep
<1>3. Locking => WriterHasLock
    BY DEF Locking
<1> QED
    BY <1>1, <1>2, <1>3, PTL DEF Spec

-----------------------------------------------------------------------------
(* The files.                                                              *)

\* Inode n holds what it was meant to, safe from a power loss.
Good(n) == n \notin spoiled => data[n] = meant[n] /\ synced[n] = meant[n]

Directory == new # olddb /\ Good(db) /\ Good(olddb)
Descriptors == \A p \in Proc : fd[p] # None => fd[p] # new /\ Good(fd[p])

OneOff(s, t) == \E g \in Pkg : s = (t \ {g}) \cup ({g} \ t)

\* What the process that holds the lock knows.
Writer(p) ==
    /\ pc[p] \in {"read", "wread"} => fd[p] # None
    /\ pc[p] = "wread" => fd[p] = db
    /\ pc[p] \in {"change", "ldconfig"} => db \in spoiled \/ mem[p] = data[db]
    /\ pc[p] \in {"create", "write", "rename"} => db \in spoiled \/ OneOff(mem[p], data[db])
    /\ pc[p] \in {"write", "rename"} => new \in Inode /\ meant[new] = mem[p]
    /\ pc[p] = "write" => new \in spoiled \/ data[new] \cup todo[p] = mem[p]
    /\ pc[p] = "rename" => Good(new)

Knowledge == \A p \in Proc : Writer(p)

IInv == TypeOK /\ WriterHasLock /\ Directory /\ Descriptors /\ Knowledge

LEMMA FilesInit == Init => IInv
BY DbAssumption DEF Init, IInv, TypeOK, WriterHasLock, Directory, Descriptors, Knowledge,
    Writer, Good, Readers, Writers

\* A step of p that leaves the files alone and changes only its own state.
LEMMA OwnStep ==
    ASSUME IInv, NEW p \in Proc, UNCHANGED files, TypeOK', WriterHasLock',
           \A q \in Proc \ {p} : pc'[q] = pc[q] /\ fd'[q] = fd[q] /\ mem'[q] = mem[q] /\ todo'[q] = todo[q],
           fd'[p] # None => fd'[p] \in {fd[p], db},
           Writer(p)'
    PROVE  IInv'
<1>1. \A n \in Inode : Good(n)' <=> Good(n)
    BY DEF files, Good
<1>2. Directory'
    BY <1>1 DEF IInv, TypeOK, Directory, files
<1>3. Descriptors'
    <2>1. ASSUME NEW q \in Proc, fd'[q] # None PROVE fd'[q] # new' /\ Good(fd[q])'
        <3>1. new' = new /\ new # db /\ db \in Inode
            BY DEF IInv, TypeOK, files
        <3>2. fd'[q] \in {fd[q], db}
            BY <2>1
        <3>3. fd'[q] \in Inode
            BY <2>1 DEF TypeOK
        <3>4. CASE fd'[q] = db
            BY <3>1, <3>4, <1>1 DEF IInv, Directory, files, Good
        <3>5. CASE fd'[q] = fd[q]
            BY <2>1, <3>1, <3>3, <3>5, <1>1 DEF IInv, Descriptors, files, Good
        <3> QED
            BY <3>2, <3>4, <3>5
    <2> QED
        BY <2>1 DEF Descriptors
<1>4. Knowledge'
    <2>1. ASSUME NEW q \in Proc, q # p PROVE Writer(q)'
        BY <2>1 DEF IInv, Knowledge, Writer, files, Good, OneOff
    <2> QED
        BY <2>1 DEF Knowledge
<1> QED
    BY <1>2, <1>3, <1>4 DEF IInv

\* The steps that do not touch the files.
LEMMA QuietStep ==
    ASSUME IInv, WriterHasLock', NEW p \in Proc,
           StartReader(p) \/ StartWriter(p) \/ Open(p) \/ Read(p) \/ Show(p) \/ Change(p)
             \/ Finish(p) \/ Ldconfig(p) \/ Kill(p)
    PROVE  IInv'
<1> USE DbAssumption DEF IInv
<1>f. UNCHANGED files
    BY DEF StartReader, StartWriter, Open, Read, Show, Change, Finish, Ldconfig, Kill
<1> DEFINE Others == \A q \in Proc \ {p} :
               pc'[q] = pc[q] /\ fd'[q] = fd[q] /\ mem'[q] = mem[q] /\ todo'[q] = todo[q]
<1>o. TypeOK => Others
    BY DEF TypeOK, StartReader, StartWriter, Open, Read, Show, Change, Finish, Ldconfig, Kill,
        Goto, Ends
<1> USE DEF TypeOK, files, Readers, Writers, Writer
<1>1. CASE StartReader(p)
    <2>1. TypeOK' /\ Writer(p)' /\ fd'[p] = fd[p]
        BY <1>1 DEF StartReader, Goto
    <2> QED
        BY <1>f, <1>o, <2>1, OwnStep
<1>2. CASE StartWriter(p)
    <2>1. TypeOK' /\ Writer(p)' /\ fd'[p] = fd[p]
        BY <1>2 DEF StartWriter, Goto
    <2> QED
        BY <1>f, <1>o, <2>1, OwnStep
<1>3. CASE Open(p)
    <2>1. TypeOK' /\ fd'[p] = db /\ Writer(p)'
        BY <1>3 DEF Open, Goto
    <2> QED
        BY <1>f, <1>o, <2>1, OwnStep
<1>4. CASE Read(p)
    <2>1. fd[p] = db /\ pc[p] = "wread"
        BY <1>4 DEF Read, Knowledge
    <2>2. TypeOK' /\ Writer(p)' /\ fd'[p] = None
        BY <1>4, <2>1 DEF Read, Goto
    <2> QED
        BY <1>f, <1>o, <2>2, OwnStep
<1>5. CASE Show(p)
    <2>1. TypeOK' /\ Writer(p)' /\ fd'[p] = None
        BY <1>5 DEF Show, Ends, Goto
    <2> QED
        BY <1>f, <1>o, <2>1, OwnStep
<1>6. CASE Change(p)
    <2>1. TypeOK' /\ fd'[p] = fd[p] /\ pc[p] = "change" /\ pc' = [pc EXCEPT ![p] = "create"]
        BY <1>6 DEF Change, Goto
    <2>2. OneOff(mem'[p], mem[p])
        <3>1. PICK g \in Pkg :
                  mem' = [mem EXCEPT ![p] = IF g \in @ THEN @ \ {g} ELSE @ \cup {g}]
            BY <1>6 DEF Change
        <3>2. mem'[p] = (mem[p] \ {g}) \cup ({g} \ mem[p])
            BY <3>1
        <3> QED
            BY <3>2 DEF OneOff
    <2>3. db \in spoiled \/ mem[p] = data[db]
        BY <2>1 DEF Knowledge
    <2>4. Writer(p)'
        BY <1>f, <2>1, <2>2, <2>3 DEF OneOff
    <2> QED
        BY <1>f, <1>o, <2>1, <2>4, OwnStep
<1>7. CASE Finish(p)
    <2>1. TypeOK' /\ Writer(p)' /\ fd'[p] = None
        BY <1>7 DEF Finish, Ends, Goto, Release
    <2> QED
        BY <1>f, <1>o, <2>1, OwnStep
<1>8. CASE Ldconfig(p)
    <2>1. db \in spoiled \/ mem[p] = data[db]
        BY <1>8 DEF Ldconfig, Knowledge
    <2>2. TypeOK' /\ Writer(p)' /\ fd'[p] \in {None, fd[p]}
        BY <1>8, <1>f, <2>1 DEF Ldconfig, Ends, Goto, Release
    <2> QED
        BY <1>f, <1>o, <2>2, OwnStep
<1>9. CASE Kill(p)
    <2>1. TypeOK' /\ Writer(p)' /\ fd'[p] = None
        BY <1>9 DEF Kill, Ends, Goto, Release
    <2> QED
        BY <1>f, <1>o, <2>1, OwnStep
<1> QED
    BY <1>1, <1>2, <1>3, <1>4, <1>5, <1>6, <1>7, <1>8, <1>9

\* The steps of pkg_commit_db: nobody else is a writer, and db.new is neither
\* db, nor what a power loss may bring back, nor open.
LEMMA CommitStep ==
    ASSUME IInv, WriterHasLock', NEW p \in Proc, Create(p) \/ Write(p) \/ Sync(p) \/ Rename(p)
    PROVE  IInv'
<1> USE DbAssumption DEF IInv
<1>l. /\ \A q \in Proc \ {p} : pc[q] \in {"idle"} \cup Readers /\ pc'[q] = pc[q]
      /\ fd' = fd /\ mem' = mem /\ UNCHANGED lock
      /\ \A q \in Proc \ {p} : Writer(q)'
    <2>1. pc[p] \in Writers /\ fd' = fd /\ mem' = mem /\ UNCHANGED lock
        BY DEF Create, Write, Sync, Rename, Writers
    <2>2. \A q \in Proc \ {p} : pc[q] \in {"idle"} \cup Readers /\ pc'[q] = pc[q]
        BY <2>1 DEF TypeOK, WriterHasLock, Create, Write, Sync, Rename, Goto
    <2>3. \A q \in Proc \ {p} : Writer(q)'
        BY <2>1, <2>2 DEF Knowledge, Writer, Readers
    <2> QED
        BY <2>1, <2>2, <2>3
<1>1. CASE Create(p)
    <2>1. PICK n \in IF new # None THEN {new} ELSE Inode \ InUse :
              /\ new' = n /\ data' = [data EXCEPT ![n] = {}]
              /\ synced' = [synced EXCEPT ![n] = {}] /\ spoiled' = spoiled \ {n}
              /\ meant' = [meant EXCEPT ![n] = mem[p]]
        BY <1>1 DEF Create
    <2>2. n \in Inode /\ n # db /\ n # olddb /\ \A q \in Proc : fd[q] # n
        BY <2>1 DEF TypeOK, InUse, Directory, Descriptors
    <2>3. UNCHANGED <<db, olddb>> /\ pc' = [pc EXCEPT ![p] = "write"]
          /\ todo' = [todo EXCEPT ![p] = mem[p]] /\ pc[p] = "create"
        BY <1>1 DEF Create, Goto
    <2>4. TypeOK'
        BY <1>l, <2>1, <2>2, <2>3 DEF TypeOK, Writers
    <2>5. \A m \in Inode \ {n} : Good(m)' <=> Good(m)
        BY <2>1, <2>2 DEF TypeOK, Good
    <2>6. Directory' /\ Descriptors'
        BY <1>l, <2>1, <2>2, <2>3, <2>5 DEF TypeOK, Directory, Descriptors, Good
    <2>7. db \in spoiled \/ OneOff(mem[p], data[db])
        BY <2>3 DEF Knowledge, Writer
    <2>8. data'[db] = data[db] /\ (db \in spoiled <=> db \in spoiled')
          /\ data'[n] = {} /\ meant'[n] = mem[p] /\ todo'[p] = mem[p]
        BY <2>1, <2>2, <2>3 DEF TypeOK
    <2>9. Writer(p)'
        BY <1>l, <2>1, <2>2, <2>3, <2>7, <2>8 DEF TypeOK, Writer, OneOff
    <2> QED
        BY <1>l, <2>4, <2>6, <2>9 DEF Knowledge
<1>2. CASE Write(p)
    <2>1. PICK g \in todo[p] :
              /\ todo' = [todo EXCEPT ![p] = @ \ {g}]
              /\ \/ data' = [data EXCEPT ![new] = @ \cup {g}] /\ UNCHANGED spoiled
                 \/ spoiled' = spoiled \cup {new} /\ UNCHANGED data
        BY <1>2 DEF Write
    <2>2. UNCHANGED <<synced, db, new, olddb, meant, pc>> /\ pc[p] = "write"
        BY <1>2 DEF Write
    <2>3. new \in Inode /\ meant[new] = mem[p] /\ new # db /\ new # olddb
        BY <2>2 DEF Knowledge, Writer, TypeOK, Directory
    <2>4. TypeOK'
        <3>1. todo' \in [Proc -> SUBSET Pkg] /\ spoiled' \subseteq Inode
            BY <2>1, <2>3 DEF TypeOK
        <3>2. data' \in [Inode -> SUBSET Pkg]
            BY <2>1, <2>3 DEF TypeOK
        <3> QED
            BY <1>l, <2>2, <3>1, <3>2 DEF TypeOK
    <2>5. \A m \in Inode \ {new} : Good(m)' <=> Good(m)
        BY <2>1, <2>2, <2>3 DEF TypeOK, Good
    <2>6. Directory' /\ Descriptors'
        BY <1>l, <2>2, <2>3, <2>5 DEF TypeOK, Directory, Descriptors, Good
    <2>7. (db \in spoiled \/ OneOff(mem[p], data[db])) /\ (new \in spoiled \/ data[new] \cup todo[p] = mem[p])
        BY <2>2 DEF Knowledge, Writer
    <2>8. data'[db] = data[db] /\ (db \in spoiled <=> db \in spoiled')
        BY <2>1, <2>3 DEF TypeOK
    <2>9. new \in spoiled' \/ data'[new] \cup todo'[p] = mem[p]
        BY <2>1, <2>3, <2>7 DEF TypeOK
    <2>10. Writer(p)'
        BY <1>l, <2>2, <2>3, <2>7, <2>8, <2>9 DEF Writer, OneOff
    <2> QED
        BY <1>l, <2>4, <2>6, <2>10 DEF Knowledge
<1>3. CASE Sync(p)
    <2>1. UNCHANGED <<data, db, new, olddb, meant, todo>> /\ pc[p] = "write" /\ todo[p] = {}
          /\ pc' = [pc EXCEPT ![p] = "rename"]
        BY <1>3 DEF Sync, Goto
    <2>2. \/ synced' = [synced EXCEPT ![new] = data[new]] /\ UNCHANGED spoiled
          \/ spoiled' = spoiled \cup {new} /\ UNCHANGED synced
        BY <1>3 DEF Sync
    <2>3. new \in Inode /\ meant[new] = mem[p] /\ new # db /\ new # olddb
        BY <2>1 DEF Knowledge, Writer, TypeOK, Directory
    <2>4. TypeOK'
        BY <1>l, <2>1, <2>2, <2>3 DEF TypeOK, Writers
    <2>5. \A m \in Inode \ {new} : Good(m)' <=> Good(m)
        BY <2>1, <2>2, <2>3 DEF TypeOK, Good
    <2>6. Directory' /\ Descriptors'
        BY <1>l, <2>1, <2>3, <2>5 DEF TypeOK, Directory, Descriptors, Good
    <2>7. (db \in spoiled \/ OneOff(mem[p], data[db])) /\ (new \in spoiled \/ data[new] = mem[p])
        BY <2>1 DEF Knowledge, Writer
    <2>8. db \in spoiled <=> db \in spoiled'
        BY <2>2, <2>3
    <2>9. Good(new)'
        BY <2>1, <2>2, <2>3, <2>7 DEF TypeOK, Good
    <2>10. Writer(p)'
        BY <1>l, <2>1, <2>3, <2>7, <2>8, <2>9 DEF TypeOK, Writer, OneOff
    <2> QED
        BY <1>l, <2>4, <2>6, <2>10 DEF Knowledge
<1>4. CASE Rename(p)
    <2>1. UNCHANGED <<data, synced, meant, spoiled, todo>> /\ pc[p] = "rename"
          /\ pc' = [pc EXCEPT ![p] = "ldconfig"] /\ db' = new /\ new' = None
          /\ olddb' \in {olddb, db}
        BY <1>4 DEF Rename, Goto
    <2>2. new \in Inode /\ meant[new] = mem[p] /\ Good(new)
        BY <2>1 DEF Knowledge, Writer
    <2>3. TypeOK'
        BY <1>l, <2>1, <2>2 DEF TypeOK, Writers
    <2>4. \A m \in Inode : Good(m)' <=> Good(m)
        BY <2>1 DEF Good
    <2>5. Directory'
        BY <2>1, <2>2, <2>3 DEF Directory, Good, TypeOK
    <2>6. Descriptors'
        BY <1>l, <2>1 DEF Descriptors, Good
    <2>7. Writer(p)'
        BY <1>l, <2>1, <2>2 DEF TypeOK, Writer, Good
    <2> QED
        BY <1>l, <2>3, <2>5, <2>6, <2>7 DEF Knowledge
<1> QED
    BY <1>1, <1>2, <1>3, <1>4

LEMMA PowerStep == ASSUME IInv, WriterHasLock', PowerLoss PROVE IInv'
<1> USE DbAssumption DEF IInv
<1>1. PICK kept \in [{new', db'} \ {None} -> SUBSET Pkg] :
          /\ \A n \in DOMAIN kept : synced[n] \subseteq kept[n] /\ kept[n] \subseteq data[n]
          /\ data' = [n \in Inode |-> IF n \in DOMAIN kept THEN kept[n] ELSE data[n]]
    BY DEF PowerLoss
<1>2. /\ db' \in {db, olddb} /\ olddb' = db' /\ new' \in {new, db, None} \ {db'}
      /\ synced' = data' /\ UNCHANGED <<meant, spoiled>> /\ lock' = None
      /\ pc' = [p \in Proc |-> "idle"] /\ fd' = [p \in Proc |-> None]
      /\ mem' = [p \in Proc |-> {}] /\ todo' = [p \in Proc |-> {}]
    BY DEF PowerLoss
<1>3. db' \in Inode /\ Good(db')
    BY <1>2 DEF TypeOK, Directory
<1>4. data' \in [Inode -> SUBSET Pkg]
    BY <1>1 DEF TypeOK
<1>5. TypeOK'
    BY <1>2, <1>3, <1>4 DEF TypeOK
<1>6. data'[db'] = kept[db'] /\ synced[db'] \subseteq kept[db'] /\ kept[db'] \subseteq data[db']
    BY <1>1, <1>3
<1>7. Directory'
    <2>1. db' \notin spoiled => kept[db'] = meant[db']
        BY <1>3, <1>6 DEF Good
    <2>2. Good(db)'
        BY <1>2, <1>6, <2>1 DEF Good
    <2>3. Good(olddb)'
        BY <1>2, <2>2 DEF Good
    <2> QED
        BY <1>2, <2>2, <2>3 DEF Directory
<1>8. Descriptors' /\ Knowledge'
    BY <1>2 DEF Descriptors, Knowledge, Writer
<1> QED
    BY <1>5, <1>7, <1>8

LEMMA FilesStep == IInv /\ [Next]_vars => IInv'
<1> SUFFICES ASSUME IInv, [Next]_vars PROVE IInv'
    OBVIOUS
<1>0. WriterHasLock'
    BY LockingStep DEF IInv, TypeOK, Locking
<1>1. ASSUME NEW p \in Proc, StartReader(p) \/ StartWriter(p) \/ Step(p) \/ Kill(p) PROVE IInv'
    BY <1>0, <1>1, QuietStep, CommitStep DEF Step
<1>2. CASE ChildEnds
    <2>1. lock' = None /\ UNCHANGED <<files, pc, fd, mem, todo>>
        BY <1>2 DEF ChildEnds
    <2> QED
        BY <1>0, <2>1 DEF files, IInv, TypeOK, Directory, Descriptors, Knowledge, Writer, Good,
            OneOff
<1>3. CASE PowerLoss
    BY <1>0, <1>3, PowerStep
<1>4. CASE UNCHANGED vars
    BY <1>4 DEF vars, files, IInv, TypeOK, WriterHasLock, Directory, Descriptors, Knowledge,
        Writer, Good, OneOff
<1> QED
    BY <1>1, <1>2, <1>3, <1>4 DEF Next

THEOREM Invariant == Spec => []IInv
<1>1. Init => IInv
    BY FilesInit
<1>2. IInv /\ [Next]_vars => IInv'
    BY FilesStep
<1> QED
    BY <1>1, <1>2, PTL DEF Spec

THEOREM TypeCorrect == Spec => []TypeOK
<1>1. IInv => TypeOK
    BY DEF IInv
<1> QED
    BY <1>1, Invariant, PTL

\* The database file is what some process meant to commit, whatever is killed
\* and whenever the power fails.
THEOREM DbIsAtomic == Spec => []AtomicDb
<1>1. IInv => AtomicDb
    BY DEF IInv, Directory, Good, AtomicDb
<1> QED
    BY <1>1, Invariant, PTL

\* A reader without a lock has one whole database before it.
THEOREM ReadsAreWhole == Spec => []ReadersSeeWhole
<1>1. IInv => ReadersSeeWhole
    BY DEF IInv, Descriptors, Good, ReadersSeeWhole
<1> QED
    BY <1>1, Invariant, PTL

\* No commit undoes what another process has committed.
THEOREM UpdatesAreKept == Spec => NoLostUpdate
<1>1. IInv /\ [Next]_vars => [CommitsOneChange]_vars
    <2> SUFFICES ASSUME IInv, NEW p \in Proc, Rename(p), db \notin spoiled
                 PROVE  \E g \in Pkg : meant[db'] = (data[db] \ {g}) \cup ({g} \ data[db])
        BY DEF CommitsOneChange, IInv
    <2>1. OneOff(mem[p], data[db]) /\ meant[new] = mem[p]
        BY DEF IInv, Knowledge, Writer, Rename
    <2> QED
        BY <2>1 DEF OneOff, Rename
<1> QED
    BY <1>1, Invariant, PTL DEF Spec, NoLostUpdate

-----------------------------------------------------------------------------
(* The file as text.                                                       *)

TextLine == [word : ReadWord, slash : BOOLEAN, ended : BOOLEAN]
Packages == DbPackage(Word)

\* A package as text: the number of its lines, and each of them.
Lines(p) == Len(p.files) + 3
LineOf(p, k) ==
    IF k = 1 THEN Got(p.name, FALSE)
    ELSE IF k = 2 THEN Got(p.version, FALSE)
    ELSE IF k = Lines(p) THEN Empty
    ELSE Got(p.files[k - 2].path, p.files[k - 2].dir)

LEMMA NoEmptyWord == "" \notin Word
BY PkgDbsAssumption

LEMMA PackageFacts ==
    ASSUME NEW p \in Packages
    PROVE  /\ p.name \in Word /\ p.version \in Word /\ p.files \in Seq(FileEntry(Word))
           /\ Len(p.files) \in Nat /\ DOMAIN p.files = 1..Len(p.files)
           /\ Lines(p) \in Nat /\ Lines(p) >= 3 /\ Lines(p) # 1 /\ Lines(p) # 2
           /\ \A k \in 1..Len(p.files) : /\ p.files[k].path \in Word /\ p.files[k].dir \in BOOLEAN
                                         /\ p.files[k] = [path |-> p.files[k].path, dir |-> p.files[k].dir]
<1>1. p.name \in Word /\ p.version \in Word /\ p.files \in Seq(FileEntry(Word))
  BY DEF Packages, DbPackage
<1>2. Len(p.files) \in Nat /\ DOMAIN p.files = 1..Len(p.files)
  BY <1>1
<1>3. \A k \in 1..Len(p.files) : p.files[k] \in FileEntry(Word)
  BY <1>1
<1> QED
  BY <1>1, <1>2, <1>3 DEF FileEntry, Lines

LEMMA GotIs ==
    ASSUME NEW w \in ReadWord, NEW s \in BOOLEAN
    PROVE  Got(w, s) \in TextLine /\ Got(w, s).word = w /\ Got(w, s).slash = s /\ Got(w, s).ended
BY DEF Got, TextLine

LEMMA LineOfAt ==
    ASSUME NEW p \in Packages
    PROVE  /\ LineOf(p, 1) = Got(p.name, FALSE) /\ LineOf(p, 2) = Got(p.version, FALSE)
           /\ LineOf(p, Lines(p)) = Empty
           /\ \A k \in 1..Len(p.files) :
                LineOf(p, k + 2) = Got(p.files[k].path, p.files[k].dir)
<1>1. Len(p.files) \in Nat /\ Lines(p) = Len(p.files) + 3
  BY PackageFacts DEF Lines
<1>2. LineOf(p, 1) = Got(p.name, FALSE) /\ LineOf(p, 2) = Got(p.version, FALSE)
  BY DEF LineOf
<1>3. LineOf(p, Lines(p)) = Empty
  <2>1. Lines(p) # 1 /\ Lines(p) # 2
    BY <1>1
  <2> QED
    BY <2>1 DEF LineOf
<1>4. ASSUME NEW k \in 1..Len(p.files)
      PROVE  LineOf(p, k + 2) = Got(p.files[k].path, p.files[k].dir)
  <2>1. k + 2 # 1 /\ k + 2 # 2 /\ k + 2 # Lines(p) /\ (k + 2) - 2 = k
    BY <1>1
  <2> QED
    BY <2>1 DEF LineOf
<1> QED
  BY <1>2, <1>3, <1>4

\* Its lines are numbered 1, 2, those of the files, and the last.
LEMMA LineNumbers ==
    ASSUME NEW p \in Packages, NEW k \in 1..Lines(p)
    PROVE  k = 1 \/ k = 2 \/ k = Lines(p) \/ (k - 2 \in 1..Len(p.files) /\ k = (k - 2) + 2)
BY PackageFacts DEF Lines

LEMMA Pair ==
    ASSUME NEW S, NEW a \in S, NEW b \in S
    PROVE  <<a, b>> \in Seq(S) /\ Len(<<a, b>>) = 2 /\ <<a, b>>[1] = a /\ <<a, b>>[2] = b
OBVIOUS

LEMMA Joined ==
    ASSUME NEW S, NEW s \in Seq(S), NEW t \in Seq(S)
    PROVE  /\ s \o t \in Seq(S) /\ Len(s \o t) = Len(s) + Len(t)
           /\ \A k \in 1..Len(s) : (s \o t)[k] = s[k]
           /\ \A k \in 1..Len(t) : (s \o t)[Len(s) + k] = t[k]
<1>1. /\ s \o t \in Seq(S) /\ Len(s \o t) = Len(s) + Len(t)
      /\ \A k \in 1..(Len(s) + Len(t)) : (s \o t)[k] = IF k <= Len(s) THEN s[k] ELSE t[k - Len(s)]
  BY ConcatProperties
<1>2. Len(s) \in Nat /\ Len(t) \in Nat
  OBVIOUS
<1>3. ASSUME NEW k \in 1..Len(t)
      PROVE  (s \o t)[Len(s) + k] = t[k]
  <2>1. Len(s) + k \in 1..(Len(s) + Len(t)) /\ ~(Len(s) + k <= Len(s)) /\ (Len(s) + k) - Len(s) = k
    BY <1>2
  <2> QED
    BY <1>1, <2>1
<1>4. ASSUME NEW k \in 1..Len(s)
      PROVE  (s \o t)[k] = s[k]
  <2>1. k \in 1..(Len(s) + Len(t)) /\ k <= Len(s)
    BY <1>2
  <2> QED
    BY <1>1, <2>1
<1> QED
  BY <1>1, <1>3, <1>4

LEMMA PkgTextIs ==
    ASSUME NEW p \in Packages
    PROVE  /\ PkgText(p) \in Seq(TextLine) /\ Len(PkgText(p)) = Lines(p)
           /\ \A k \in 1..Lines(p) : PkgText(p)[k] = LineOf(p, k)
<1> DEFINE head == <<Got(p.name, FALSE), Got(p.version, FALSE)>>
           body == [k \in DOMAIN p.files |-> Got(p.files[k].path, p.files[k].dir)]
           N == Len(p.files)
<1>1. /\ p.name \in ReadWord /\ p.version \in ReadWord /\ N \in Nat /\ DOMAIN p.files = 1..N
      /\ \A k \in 1..N : p.files[k].path \in ReadWord /\ p.files[k].dir \in BOOLEAN
  BY PackageFacts DEF ReadWord
<1>2. /\ head \in Seq(TextLine) /\ Len(head) = 2
      /\ head[1] = Got(p.name, FALSE) /\ head[2] = Got(p.version, FALSE)
  <2>1. Got(p.name, FALSE) \in TextLine /\ Got(p.version, FALSE) \in TextLine
    BY <1>1, GotIs
  <2> QED
    BY <2>1, Pair
<1>3. \A k \in 1..N : Got(p.files[k].path, p.files[k].dir) \in TextLine
  BY <1>1, GotIs
<1>4. body \in [1..N -> TextLine]
  BY <1>1, <1>3
<1>5. body \in Seq(TextLine) /\ Len(body) = N
  BY <1>1, <1>4
<1>6. \A k \in 1..N : body[k] = Got(p.files[k].path, p.files[k].dir)
  BY <1>1
<1>7. <<Empty>> \in Seq(TextLine) /\ Len(<<Empty>>) = 1 /\ <<Empty>>[1] = Empty
  <2>1. Empty \in TextLine
    BY GotIs DEF Empty, ReadWord
  <2> QED
    BY <2>1
<1>8. PkgText(p) = (head \o body) \o <<Empty>>
  BY DEF PkgText
<1>0. N \in Nat /\ Lines(p) = N + 3
  BY PackageFacts DEF Lines
<1> HIDE DEF head, body, N
<1>9. /\ head \o body \in Seq(TextLine) /\ Len(head \o body) = N + 2
      /\ (head \o body)[1] = head[1] /\ (head \o body)[2] = head[2]
      /\ \A k \in 1..N : (head \o body)[2 + k] = body[k]
  <2>1. /\ head \o body \in Seq(TextLine) /\ Len(head \o body) = Len(head) + Len(body)
        /\ \A k \in 1..Len(head) : (head \o body)[k] = head[k]
        /\ \A k \in 1..Len(body) : (head \o body)[Len(head) + k] = body[k]
    BY <1>2, <1>5, Joined
  <2>2. Len(head) + Len(body) = N + 2 /\ 1 \in 1..Len(head) /\ 2 \in 1..Len(head)
    BY <1>0, <1>2, <1>5
  <2>3. \A k \in 1..N : (head \o body)[2 + k] = body[k]
    BY <1>2, <1>5, <2>1
  <2> QED
    BY <2>1, <2>2, <2>3
<1>10. /\ PkgText(p) \in Seq(TextLine) /\ Len(PkgText(p)) = N + 3
       /\ \A k \in 1..(N + 2) : PkgText(p)[k] = (head \o body)[k]
       /\ PkgText(p)[N + 3] = Empty
  <2> DEFINE front == head \o body
  <2> HIDE DEF front
  <2>1. /\ front \o <<Empty>> \in Seq(TextLine) /\ Len(front \o <<Empty>>) = Len(front) + Len(<<Empty>>)
        /\ \A k \in 1..Len(front) : (front \o <<Empty>>)[k] = front[k]
        /\ \A k \in 1..Len(<<Empty>>) : (front \o <<Empty>>)[Len(front) + k] = <<Empty>>[k]
    BY <1>7, <1>9, Joined DEF front
  <2>2. Len(front) = N + 2 /\ PkgText(p) = front \o <<Empty>>
    BY <1>8, <1>9 DEF front
  <2>3. Len(front) + Len(<<Empty>>) = N + 3 /\ Len(front) + 1 = N + 3 /\ 1 \in 1..Len(<<Empty>>)
    BY <1>0, <1>7, <2>2
  <2>4. (front \o <<Empty>>)[Len(front) + 1] = Empty
    BY <1>7, <2>1, <2>3
  <2>5. (front \o <<Empty>>)[N + 3] = Empty
    BY <2>3, <2>4
  <2> QED
    BY <2>1, <2>2, <2>3, <2>5 DEF front
<1>11. PkgText(p) \in Seq(TextLine) /\ Len(PkgText(p)) = N + 3
  BY <1>10
<1>13. PkgText(p)[1] = LineOf(p, 1) /\ PkgText(p)[2] = LineOf(p, 2)
  <2>1. 1 \in 1..(N + 2) /\ 2 \in 1..(N + 2)
    BY <1>0
  <2>2. PkgText(p)[1] = head[1] /\ PkgText(p)[2] = head[2]
    BY <1>9, <1>10, <2>1
  <2> QED
    BY <1>2, <2>2, LineOfAt
<1>14. PkgText(p)[Lines(p)] = LineOf(p, Lines(p))
  BY <1>0, <1>10, LineOfAt
<1>15. ASSUME NEW k \in 1..N
       PROVE  PkgText(p)[k + 2] = LineOf(p, k + 2)
  <2>1. k + 2 \in 1..(N + 2) /\ 2 + k = k + 2
    BY <1>0
  <2>2. PkgText(p)[k + 2] = body[k]
    BY <1>9, <1>10, <2>1
  <2> QED
    BY <1>6, <2>2, LineOfAt DEF N
<1>16. \A k \in 1..Lines(p) : PkgText(p)[k] = LineOf(p, k)
  BY <1>13, <1>14, <1>15, LineNumbers DEF N
<1> QED
  BY <1>0, <1>11, <1>16

\* A line of a package is empty only at its end; only a directory's may fill the buffer.
LEMMA LineOfIs ==
    ASSUME NEW p \in Packages, NEW k \in 1..Lines(p)
    PROVE  /\ LineOf(p, k) \in TextLine /\ (EndsRecord(LineOf(p, k)) <=> k = Lines(p))
           /\ FillsBuffer(LineOf(p, k)) => HasBrim(p) /\ k > 2
<1>1. p.name \in Word \ {""} /\ p.version \in Word \ {""} /\ Word \subseteq ReadWord /\ "" \in ReadWord
  BY PackageFacts, NoEmptyWord DEF ReadWord
<1>2. Len(p.files) \in Nat /\ Lines(p) = Len(p.files) + 3
  BY PackageFacts DEF Lines
<1>3. CASE k = 1 \/ k = 2
  <2>1. PICK w \in Word \ {""} : LineOf(p, k) = Got(w, FALSE)
    BY <1>1, <1>3, LineOfAt
  <2>2. k # Lines(p)
    <3>1. Lines(p) # 1 /\ Lines(p) # 2
      BY PackageFacts
    <3> QED
      BY <1>3, <3>1
  <2>3. LineOf(p, k) \in TextLine /\ LineOf(p, k).word = w /\ LineOf(p, k).slash = FALSE
    BY <1>1, <2>1, GotIs
  <2> QED
    BY <2>1, <2>2, <2>3 DEF FillsBuffer, EndsRecord
<1>4. CASE k = Lines(p)
  <2>1. LineOf(p, k) = Got("", FALSE)
    BY <1>4, LineOfAt DEF Empty
  <2>2. LineOf(p, k) \in TextLine /\ LineOf(p, k).word = "" /\ LineOf(p, k).slash = FALSE
    BY <1>1, <2>1, GotIs
  <2> QED
    BY <1>4, <2>2 DEF FillsBuffer, EndsRecord
<1>5. CASE k - 2 \in 1..Len(p.files) /\ k = (k - 2) + 2
  <2> DEFINE m == k - 2
             f == p.files[m]
  <2>1. m \in 1..Len(p.files) /\ k = m + 2
    BY <1>5
  <2> HIDE DEF m
  <2>2. LineOf(p, k) = Got(f.path, f.dir)
    BY <2>1, LineOfAt
  <2>3. f.path \in Word \ {""} /\ f.dir \in BOOLEAN /\ m \in DOMAIN p.files
    BY <2>1, PackageFacts, NoEmptyWord
  <2> HIDE DEF f
  <2>7. f.path \in ReadWord /\ f.dir \in BOOLEAN
    BY <1>1, <2>3
  <2>4. LineOf(p, k) \in TextLine /\ LineOf(p, k).word = f.path /\ LineOf(p, k).slash = f.dir
    BY <2>2, <2>7, GotIs
  <2>5. ~EndsRecord(LineOf(p, k)) /\ (FillsBuffer(LineOf(p, k)) => HasBrim(p))
    BY <2>3, <2>4 DEF EndsRecord, FillsBuffer, HasBrim, f
  <2>6. k # Lines(p) /\ k > 2
    BY <1>2, <2>1
  <2> QED
    BY <2>3, <2>4, <2>5, <2>6
<1> QED
  BY <1>3, <1>4, <1>5, LineNumbers

-----------------------------------------------------------------------------
(* The file while it is written.                                           *)

\* What a failing write may leave of a package: lines that are not empty, of
\* which only those of its directories may fill the buffer.
Remnant(t, p) ==
    /\ t \in Seq(TextLine)
    /\ \A k \in 1..Len(t) : ~EndsRecord(t[k]) /\ (FillsBuffer(t[k]) => HasBrim(p))

LEMMA FrontIsRemnant ==
    ASSUME NEW p \in Packages, NEW k \in 0..(Len(PkgText(p)) - 1)
    PROVE  Remnant(SubSeq(PkgText(p), 1, k), p)
<1> DEFINE t == PkgText(p)
           s == SubSeq(t, 1, k)
<1>1. t \in Seq(TextLine) /\ Len(t) = Lines(p) /\ Lines(p) \in Nat
      /\ \A m \in 1..Lines(p) : t[m] = LineOf(p, m)
  BY PkgTextIs, PackageFacts
<1> HIDE DEF t
<1>2. k \in 0..(Lines(p) - 1) /\ k \in Int
  BY <1>1 DEF t
<1>3. \A m \in 1..k : m \in 1..Lines(p) /\ m # Lines(p)
  BY <1>1, <1>2
<1>4. \A m \in 1..k : t[m] \in TextLine
  BY <1>1, <1>3
<1>5. /\ s \in Seq(TextLine) /\ Len(s) = k
      /\ \A m \in 1..k : s[m] = t[m]
  BY <1>1, <1>2, <1>4
<1> HIDE DEF s
<1>6. \A m \in 1..k : ~EndsRecord(s[m]) /\ (FillsBuffer(s[m]) => HasBrim(p))
  <2> SUFFICES ASSUME NEW m \in 1..k
               PROVE  ~EndsRecord(s[m]) /\ (FillsBuffer(s[m]) => HasBrim(p))
    OBVIOUS
  <2>1. m \in 1..Lines(p) /\ m # Lines(p) /\ s[m] = LineOf(p, m)
    BY <1>1, <1>3, <1>5
  <2> QED
    BY <2>1, LineOfIs
<1>7. Remnant(s, p)
  BY <1>5, <1>6 DEF Remnant
<1> QED
  BY <1>7 DEF s, t

LEMMA CutIs ==
    ASSUME NEW x \in TextLine, ~EndsRecord(x), NEW y \in Cut(x)
    PROVE  y \in TextLine /\ ~EndsRecord(y) /\ ~FillsBuffer(y)
<1>1. CASE y = [x EXCEPT !.ended = FALSE]
  <2>1. y = [word |-> x.word, slash |-> x.slash, ended |-> FALSE] /\ x.word \in ReadWord /\ x.slash \in BOOLEAN
    BY <1>1 DEF TextLine
  <2> QED
    BY <2>1 DEF TextLine, FillsBuffer, EndsRecord
<1>2. CASE y = [word |-> "cut", slash |-> FALSE, ended |-> FALSE]
  BY <1>2 DEF TextLine, FillsBuffer, EndsRecord, ReadWord
<1> QED
  BY <1>1, <1>2 DEF Cut

LEMMA Single ==
    ASSUME NEW S, NEW x \in S
    PROVE  <<x>> \in Seq(S) /\ Len(<<x>>) = 1 /\ <<x>>[1] = x
OBVIOUS

LEMMA LongerRemnant ==
    ASSUME NEW p, NEW s, Remnant(s, p), NEW y \in TextLine, ~EndsRecord(y), ~FillsBuffer(y)
    PROVE  Remnant(s \o <<y>>, p)
<1>1. s \in Seq(TextLine) /\ \A m \in 1..Len(s) : ~EndsRecord(s[m]) /\ (FillsBuffer(s[m]) => HasBrim(p))
  BY DEF Remnant
<1>2. /\ s \o <<y>> \in Seq(TextLine) /\ Len(s \o <<y>>) = Len(s) + 1
      /\ \A m \in 1..Len(s) : (s \o <<y>>)[m] = s[m]
      /\ (s \o <<y>>)[Len(s) + 1] = y
  <2>1. <<y>> \in Seq(TextLine) /\ Len(<<y>>) = 1 /\ <<y>>[1] = y
    BY Single
  <2>2. 1 \in 1..Len(<<y>>)
    BY <2>1
  <2> QED
    BY <1>1, <2>1, <2>2, Joined
<1>3. \A m \in 1..(Len(s) + 1) : m \in 1..Len(s) \/ m = Len(s) + 1
  BY <1>1
<1> QED
  BY <1>1, <1>2, <1>3 DEF Remnant

LEMMA FailureLeavesRemnant ==
    ASSUME WritesFail, DbTypeOK
    PROVE  \E t : Remnant(t, given[flushed + 1]) /\ text' = text \o t
<1> DEFINE p == given[flushed + 1]
           t == PkgText(p)
<1>1. p \in Packages
  BY DEF WritesFail, DbTypeOK, Packages
<1>2. /\ t \in Seq(TextLine) /\ Len(t) = Lines(p) /\ Lines(p) \in Nat
      /\ \A m \in 1..Lines(p) : t[m] = LineOf(p, m)
  BY <1>1, PkgTextIs, PackageFacts
<1>3. PICK k \in 0..(Len(t) - 1) :
        \/ text' = text \o SubSeq(t, 1, k)
        \/ k < Len(t) - 1 /\ \E y \in Cut(t[k + 1]) : text' = text \o SubSeq(t, 1, k) \o <<y>>
  BY DEF WritesFail
<1>4. Remnant(SubSeq(t, 1, k), p)
  BY <1>1, FrontIsRemnant
<1> HIDE DEF p, t
<1>5. CASE text' = text \o SubSeq(t, 1, k)
  BY <1>4, <1>5 DEF p
<1>6. CASE k < Len(t) - 1 /\ \E y \in Cut(t[k + 1]) : text' = text \o SubSeq(t, 1, k) \o <<y>>
  <2>1. PICK y \in Cut(t[k + 1]) : text' = text \o SubSeq(t, 1, k) \o <<y>>
    BY <1>6
  <2> DEFINE s == SubSeq(t, 1, k)
  <2>2. k + 1 \in 1..Lines(p) /\ k + 1 # Lines(p)
    BY <1>2, <1>6
  <2>3. t[k + 1] \in TextLine /\ ~EndsRecord(t[k + 1])
    BY <1>1, <1>2, <2>2, LineOfIs
  <2>4. y \in TextLine /\ ~EndsRecord(y) /\ ~FillsBuffer(y)
    BY <2>3, CutIs
  <2>5. /\ s \in Seq(TextLine)
        /\ \A m \in 1..Len(s) : ~EndsRecord(s[m]) /\ (FillsBuffer(s[m]) => HasBrim(p))
    BY <1>4 DEF Remnant
  <2>6. Remnant(s \o <<y>>, p)
    BY <1>4, <2>4, LongerRemnant
  <2>7. text' = text \o (s \o <<y>>)
    <3>1. text \in Seq(TextLine) /\ <<y>> \in Seq(TextLine)
      BY <2>4, Single DEF DbTypeOK, TextLine
    <3>2. text \o (s \o <<y>>) = (text \o s) \o <<y>>
      BY <2>5, <3>1, ConcatAssociative
    <3> QED
      BY <2>1, <3>2
  <2> QED
    BY <2>6, <2>7 DEF p
<1> QED
  BY <1>3, <1>5, <1>6

LEMMA DbTypes ==
    DbTypeOK <=>
        /\ dpc \in {"sort", "write", "read", "done"}
        /\ given \in Seq(Packages) /\ flushed \in 0..Len(given)
        /\ text \in Seq(TextLine)
        /\ pos \in 0..Len(text) /\ newline \in BOOLEAN /\ cnt \in Nat
        /\ made \in Seq(DbPackage(ReadWord))
        /\ pkg \in 0..Len(made) /\ (cnt > 0 => pkg = Len(made) /\ pkg > 0)
        /\ pkg_db \in Seq(0..Len(made))
BY DEF DbTypeOK, TextLine, Packages

\* What one call of fgets does.
LEMMA ReadsLine ==
    ASSUME DbTypeOK, Reads
    PROVE  /\ Line \in TextLine /\ pos' \in 0..Len(text) /\ newline' \in BOOLEAN
           /\ UNCHANGED <<given, text, flushed, dpc>>
<1>1. text \in Seq(TextLine) /\ pos \in 0..Len(text) /\ newline \in BOOLEAN
  BY DbTypes
<1>2. UNCHANGED <<given, text, flushed, dpc>> /\ newline' = FillsBuffer(Line)
  BY DEF Reads
<1>3. CASE newline
  <2>1. Line = Empty /\ pos' = pos
    BY <1>3 DEF Reads, Line
  <2>2. Line \in TextLine
    BY <2>1, GotIs DEF Empty, ReadWord
  <2> QED
    BY <1>1, <1>2, <2>1, <2>2 DEF FillsBuffer, TextLine
<1>4. CASE ~newline
  <2>1. Line = text[pos + 1] /\ pos' = pos + 1 /\ pos < Len(text)
    BY <1>4 DEF Reads, Line
  <2>2. pos + 1 \in 1..Len(text)
    BY <1>1, <2>1
  <2>3. Line \in TextLine
    BY <1>1, <2>1, <2>2
  <2> QED
    BY <1>1, <1>2, <2>1, <2>2, <2>3 DEF FillsBuffer, TextLine
<1> QED
  BY <1>1, <1>3, <1>4

LEMMA MadeRecord ==
    ASSUME NEW r \in DbPackage(ReadWord)
    PROVE  /\ r = [name |-> r.name, version |-> r.version, files |-> r.files]
           /\ r.name \in ReadWord /\ r.version \in ReadWord /\ r.files \in Seq(FileEntry(ReadWord))
BY DEF DbPackage

\* The package in work, after its version or a file.
LEMMA PkgInWork ==
    ASSUME DbTypeOK, cnt > 0, NEW r \in DbPackage(ReadWord), made' = [made EXCEPT ![pkg] = r]
    PROVE  /\ made' \in Seq(DbPackage(ReadWord)) /\ Len(made') = Len(made) /\ pkg \in 1..Len(made)
           /\ made'[pkg] = r /\ \A k \in 1..Len(made) : k # pkg => made'[k] = made[k]
<1>1. made \in Seq(DbPackage(ReadWord)) /\ pkg \in 1..Len(made)
  BY DbTypes
<1> QED
  BY <1>1, ExceptSeq

LEMMA ReadVersionIs ==
    ASSUME DbTypeOK, ReadVersion
    PROVE  /\ made' \in Seq(DbPackage(ReadWord)) /\ Len(made') = Len(made)
           /\ pkg \in 1..Len(made) /\ pkg = Len(made)
           /\ made'[pkg] = [name |-> made[pkg].name, version |-> Line.word, files |-> made[pkg].files]
           /\ \A k \in 1..Len(made) : k # pkg => made'[k] = made[k]
<1> DEFINE r == [made[pkg] EXCEPT !.version = Line.word]
<1>1. cnt > 0 /\ made' = [made EXCEPT ![pkg].version = Line.word] /\ Reads
  BY DEF ReadVersion
<1>2. made \in Seq(DbPackage(ReadWord)) /\ pkg \in 1..Len(made) /\ pkg = Len(made)
  BY <1>1, DbTypes
<1>3. made[pkg] \in DbPackage(ReadWord)
  BY <1>2
<1>4. Line.word \in ReadWord
  BY <1>1, ReadsLine DEF TextLine
<1>5. r = [name |-> made[pkg].name, version |-> Line.word, files |-> made[pkg].files]
  BY <1>3 DEF DbPackage
<1>6. r \in DbPackage(ReadWord)
  BY <1>3, <1>4, <1>5 DEF DbPackage
<1>7. made' = [made EXCEPT ![pkg] = r]
  BY <1>1
<1> HIDE DEF r
<1> QED
  BY <1>1, <1>2, <1>5, <1>6, <1>7, PkgInWork

LEMMA ReadFileIs ==
    ASSUME DbTypeOK, ReadFile
    PROVE  /\ made' \in Seq(DbPackage(ReadWord)) /\ Len(made') = Len(made)
           /\ pkg \in 1..Len(made) /\ pkg = Len(made)
           /\ made'[pkg] = [name |-> made[pkg].name, version |-> made[pkg].version,
                            files |-> Append(made[pkg].files,
                                             [path |-> Line.word, dir |-> Line.slash])]
           /\ \A k \in 1..Len(made) : k # pkg => made'[k] = made[k]
<1> DEFINE f == [path |-> Line.word, dir |-> Line.slash]
           r == [made[pkg] EXCEPT !.files = Append(@, f)]
<1>1. cnt > 0 /\ made' = [made EXCEPT ![pkg].files = Append(@, f)] /\ Reads
  BY DbTypes DEF ReadFile
<1>2. made \in Seq(DbPackage(ReadWord)) /\ pkg \in 1..Len(made) /\ pkg = Len(made)
  BY <1>1, DbTypes
<1>3. made[pkg] \in DbPackage(ReadWord)
  BY <1>2
<1>4. f \in FileEntry(ReadWord)
  BY <1>1, ReadsLine DEF TextLine, FileEntry
<1>5. r = [name |-> made[pkg].name, version |-> made[pkg].version,
           files |-> Append(made[pkg].files, f)]
  <2> HIDE DEF f
  <2>1. made[pkg] = [name |-> made[pkg].name, version |-> made[pkg].version, files |-> made[pkg].files]
    BY <1>3, MadeRecord
  <2>2. \A u, v, w, x : [[name |-> u, version |-> v, files |-> w] EXCEPT !.files = x] =
                        [name |-> u, version |-> v, files |-> x]
    OBVIOUS
  <2>3. r = [made[pkg] EXCEPT !.files = Append(made[pkg].files, f)]
    OBVIOUS
  <2> QED
    BY <2>1, <2>2, <2>3
<1>6. r \in DbPackage(ReadWord)
  <2>1. made[pkg].files \in Seq(FileEntry(ReadWord))
    BY <1>3, MadeRecord
  <2> HIDE DEF f
  <2>2. Append(made[pkg].files, f) \in Seq(FileEntry(ReadWord))
    BY <1>4, <2>1, AppendProperties
  <2> QED
    BY <1>3, <1>5, <2>2 DEF DbPackage
<1>7. made' = [made EXCEPT ![pkg] = r]
  BY <1>1
<1> HIDE DEF r
<1> QED
  BY <1>1, <1>2, <1>5, <1>6, <1>7, PkgInWork

LEMMA ReadNameIs ==
    ASSUME DbTypeOK, ReadName
    PROVE  /\ made' \in Seq(DbPackage(ReadWord)) /\ Len(made') = Len(made) + 1
           /\ pkg' = Len(made) + 1
           /\ made'[Len(made) + 1] = [name |-> Line.word, version |-> "", files |-> <<>>]
           /\ \A k \in 1..Len(made) : made'[k] = made[k]
<1> DEFINE r == [name |-> Line.word, version |-> "", files |-> <<>>]
<1>1. made' = Append(made, r) /\ pkg' = Len(made') /\ Reads
  BY DEF ReadName
<1>2. made \in Seq(DbPackage(ReadWord))
  BY DbTypes
<1>3. r \in DbPackage(ReadWord)
  <2>1. Line.word \in ReadWord /\ "" \in ReadWord
    BY <1>1, ReadsLine DEF TextLine, ReadWord
  <2>2. <<>> \in Seq(FileEntry(ReadWord))
    BY EmptySeq
  <2> QED
    BY <2>1, <2>2 DEF DbPackage
<1> HIDE DEF r
<1>4. /\ made' \in Seq(DbPackage(ReadWord)) /\ Len(made') = Len(made) + 1
      /\ \A k \in 1..Len(made) : made'[k] = made[k]
      /\ made'[Len(made) + 1] = r
  BY <1>1, <1>2, <1>3, AppendProperties
<1> QED
  BY <1>1, <1>4 DEF r

LEMMA TextGrows ==
    ASSUME DbTypeOK, NEW t \in Seq(TextLine), text' = text \o t
    PROVE  /\ text' \in Seq(TextLine) /\ Len(text') = Len(text) + Len(t)
           /\ pos \in 0..Len(text') /\ Len(text) \in Nat /\ Len(t) \in Nat
           /\ \A k \in 1..Len(text) : text'[k] = text[k]
           /\ \A k \in 1..Len(t) : text'[Len(text) + k] = t[k]
<1>1. text \in Seq(TextLine) /\ pos \in 0..Len(text)
  BY DbTypes
<1>2. /\ text' \in Seq(TextLine) /\ Len(text') = Len(text) + Len(t)
      /\ \A k \in 1..Len(text) : text'[k] = text[k]
      /\ \A k \in 1..Len(t) : text'[Len(text) + k] = t[k]
  BY <1>1, Joined
<1>3. Len(text) \in Nat /\ Len(t) \in Nat
  BY <1>1
<1> QED
  BY <1>1, <1>2, <1>3

\* qsort: the same packages, in another order.
LEMMA SortIs ==
    ASSUME SortDb, given \in Seq(Packages)
    PROVE  \E from \in [DOMAIN given -> DOMAIN given] :
              /\ given' \in Seq(Packages) /\ Len(given') = Len(given) /\ DOMAIN given' = DOMAIN given
              /\ \A k \in DOMAIN given : given'[k] = given[from[k]]
              /\ \A k, m \in DOMAIN given : from[k] = from[m] => k = m
<1>1. PICK from \in [DOMAIN given -> DOMAIN given] :
        /\ \A k, m \in DOMAIN given : from[k] = from[m] => k = m
        /\ given' = [k \in DOMAIN given |-> given[from[k]]]
  BY DEF SortDb
<1>2. DOMAIN given = 1..Len(given) /\ Len(given) \in Nat
  OBVIOUS
<1>3. \A k \in 1..Len(given) : given[from[k]] \in Packages
  BY <1>1, <1>2
<1>4. given' \in [1..Len(given) -> Packages]
  BY <1>1, <1>2, <1>3
<1>5. given' \in Seq(Packages) /\ Len(given') = Len(given) /\ DOMAIN given' = DOMAIN given
  BY <1>2, <1>4
<1> QED
  BY <1>1, <1>5

LEMMA DbTypeNext ==
    ASSUME DbTypeOK, [DbfNext]_dbfVars
    PROVE  DbTypeOK'
<1>0. /\ dpc \in {"sort", "write", "read", "done"}
      /\ given \in Seq(Packages) /\ flushed \in 0..Len(given)
      /\ text \in Seq(TextLine)
      /\ pos \in 0..Len(text) /\ newline \in BOOLEAN /\ cnt \in Nat
      /\ made \in Seq(DbPackage(ReadWord))
      /\ pkg \in 0..Len(made) /\ (cnt > 0 => pkg = Len(made) /\ pkg > 0)
      /\ pkg_db \in Seq(0..Len(made)) /\ Len(made) \in Nat /\ Len(given) \in Nat
  BY DbTypes
<1> SUFFICES /\ dpc' \in {"sort", "write", "read", "done"}
             /\ given' \in Seq(Packages) /\ flushed' \in 0..Len(given')
             /\ text' \in Seq(TextLine)
             /\ pos' \in 0..Len(text') /\ newline' \in BOOLEAN /\ cnt' \in Nat
             /\ made' \in Seq(DbPackage(ReadWord))
             /\ pkg' \in 0..Len(made') /\ (cnt' > 0 => pkg' = Len(made') /\ pkg' > 0)
             /\ pkg_db' \in Seq(0..Len(made'))
  BY DEF DbTypeOK, TextLine, Packages
<1>1. CASE SortDb
  <2>1. given' \in Seq(Packages) /\ Len(given') = Len(given)
    BY <1>0, <1>1, SortIs
  <2> QED
    BY <1>0, <1>1, <2>1 DEF SortDb, WriterRest
<1>2. CASE WritePkg
  <2> DEFINE t == PkgText(given[flushed + 1])
  <2>1. given[flushed + 1] \in Packages /\ flushed' \in 0..Len(given)
    BY <1>0, <1>2 DEF WritePkg
  <2>2. t \in Seq(TextLine)
    BY <2>1, PkgTextIs
  <2>3. text' = text \o t
    BY <1>2 DEF WritePkg
  <2> HIDE DEF t
  <2>4. text' \in Seq(TextLine) /\ pos \in 0..Len(text')
    BY <2>2, <2>3, TextGrows
  <2> QED
    BY <1>0, <1>2, <2>1, <2>4 DEF WritePkg, WriterRest
<1>3. CASE WritesFail
  <2>1. PICK t : Remnant(t, given[flushed + 1]) /\ text' = text \o t
    BY <1>3, FailureLeavesRemnant
  <2>2. text' \in Seq(TextLine) /\ pos \in 0..Len(text')
    BY <2>1, TextGrows DEF Remnant
  <2> QED
    BY <1>0, <1>3, <2>2 DEF WritesFail, WriterRest
<1>4. CASE Written
  BY <1>0, <1>4 DEF Written, WriterRest
<1>5. CASE RecordEnd
  <2>1. pkg_db' \in Seq(0..Len(made))
    <3>1. pkg_db' = Append(pkg_db, pkg)
      BY <1>5 DEF RecordEnd
    <3> QED
      BY <1>0, <3>1, AppendProperties
  <2>2. Reads /\ cnt' = 0 /\ UNCHANGED <<made, pkg>>
    BY <1>5 DEF RecordEnd
  <2> QED
    BY <1>0, <2>1, <2>2, ReadsLine
<1>6. CASE ReadName
  <2>1. 0..Len(made) \subseteq 0..(Len(made) + 1)
    BY <1>0
  <2>2. pkg_db \in Seq(0..(Len(made) + 1))
    BY <1>0, <2>1, SeqMonotonic
  <2>3. Reads /\ cnt' = 1 /\ pkg_db' = pkg_db
    BY <1>6 DEF ReadName
  <2>4. made' \in Seq(DbPackage(ReadWord)) /\ Len(made') = Len(made) + 1 /\ pkg' = Len(made) + 1
    BY <1>6, ReadNameIs
  <2> QED
    BY <1>0, <2>2, <2>3, <2>4, ReadsLine
<1>7. CASE ReadVersion
  <2>1. Reads /\ cnt' = 2 /\ pkg_db' = pkg_db /\ pkg' = pkg /\ cnt > 0
    BY <1>7 DEF ReadVersion
  <2>2. made' \in Seq(DbPackage(ReadWord)) /\ Len(made') = Len(made)
    BY <1>7, ReadVersionIs
  <2> QED
    BY <1>0, <2>1, <2>2, ReadsLine
<1>8. CASE ReadFile
  <2>1. Reads /\ cnt' = cnt + 1 /\ pkg_db' = pkg_db /\ pkg' = pkg /\ cnt > 0
    BY <1>0, <1>8 DEF ReadFile
  <2>2. made' \in Seq(DbPackage(ReadWord)) /\ Len(made') = Len(made)
    BY <1>8, ReadFileIs
  <2> QED
    BY <1>0, <2>1, <2>2, ReadsLine
<1>9. CASE ReadEnd
  BY <1>0, <1>9 DEF ReadEnd
<1>10. CASE UNCHANGED dbfVars
  BY <1>0, <1>10 DEF dbfVars
<1> QED
  BY <1>1, <1>2, <1>3, <1>4, <1>5, <1>6, <1>7, <1>8, <1>9, <1>10 DEF DbfNext

LEMMA DbTypeInit ==
    ASSUME DbfInit
    PROVE  DbTypeOK
<1>1. PICK d \in PkgDbs : DbfStart(d)
  BY DEF DbfInit
<1>2. given \in Seq(Packages)
  BY <1>1, PkgDbsAssumption DEF DbfStart, Packages
<1>3. /\ text = <<>> /\ flushed = 0 /\ pos = 0 /\ newline = FALSE /\ cnt = 0 /\ made = <<>>
      /\ pkg = 0 /\ pkg_db = <<>> /\ dpc = "sort"
  BY <1>1 DEF DbfStart
<1>4. flushed \in 0..Len(given) /\ Len(text) = 0 /\ Len(made) = 0
  BY <1>2, <1>3
<1>5. text \in Seq(TextLine) /\ made \in Seq(DbPackage(ReadWord)) /\ pkg_db \in Seq(0..Len(made))
  BY <1>3, EmptySeq
<1>6. pos \in 0..Len(text) /\ pkg \in 0..Len(made)
  BY <1>3, <1>4
<1>7. (cnt > 0 => pkg = Len(made) /\ pkg > 0) /\ cnt \in Nat
  BY <1>3
<1>8. newline \in BOOLEAN /\ dpc \in {"sort", "write", "read", "done"}
  BY <1>3
<1> QED
  BY <1>2, <1>4, <1>5, <1>6, <1>7, <1>8, DbTypes

-----------------------------------------------------------------------------
(* The order of the packages.                                              *)

NamesOnce ==
    /\ given \in Seq(Packages)
    /\ \A k \in DOMAIN given : \E m \in DOMAIN NameOrder : NameOrder[m] = given[k].name
    /\ \A k, m \in DOMAIN given : given[k].name = given[m].name => k = m
InOrder == dpc # "sort" => \A k, m \in DOMAIN given : k < m => Rank(given[k]) <= Rank(given[m])

LEMMA RankIs ==
    ASSUME NamesOnce, NEW k \in DOMAIN given
    PROVE  Rank(given[k]) \in Nat /\ NameOrder[Rank(given[k])] = given[k].name
<1>1. \E m \in DOMAIN NameOrder : NameOrder[m] = given[k].name
  BY DEF NamesOnce
<1>2. Rank(given[k]) \in DOMAIN NameOrder /\ NameOrder[Rank(given[k])] = given[k].name
  BY <1>1 DEF Rank
<1>3. DOMAIN NameOrder \subseteq Nat
  <2>1. NameOrder \in Seq(Word)
    BY PkgDbsAssumption
  <2> QED
    BY <2>1
<1> QED
  BY <1>2, <1>3

\* No two packages have the same rank, whatever qsort makes of equals.
LEMMA OrderIsStrict ==
    ASSUME NamesOnce, InOrder, dpc # "sort", NEW k \in DOMAIN given, NEW m \in DOMAIN given, k < m
    PROVE  Rank(given[k]) < Rank(given[m])
<1>1. Rank(given[k]) <= Rank(given[m])
  BY DEF InOrder
<1>2. Rank(given[k]) \in Nat /\ Rank(given[m]) \in Nat
  BY RankIs
<1>3. Rank(given[k]) # Rank(given[m])
  <2>1. SUFFICES ASSUME Rank(given[k]) = Rank(given[m]) PROVE FALSE
    OBVIOUS
  <2>2. given[k].name = given[m].name
    BY <2>1, RankIs
  <2>3. k = m
    BY <2>2 DEF NamesOnce
  <2>4. k \in Nat
    BY DEF NamesOnce
  <2> QED
    BY <2>3, <2>4
<1> QED
  BY <1>1, <1>2, <1>3

LEMMA OrderInit ==
    ASSUME DbfInit
    PROVE  NamesOnce /\ InOrder
<1>1. PICK d \in PkgDbs : DbfStart(d)
  BY DEF DbfInit
<1>2. given = d /\ dpc = "sort"
  BY <1>1 DEF DbfStart
<1>3. NamesOnce
  BY <1>2, PkgDbsAssumption DEF NamesOnce, Packages
<1> QED
  BY <1>2, <1>3 DEF InOrder

LEMMA OrderNext ==
    ASSUME NamesOnce, InOrder, [DbfNext]_dbfVars
    PROVE  NamesOnce' /\ InOrder'
<1>1. CASE SortDb
  <2>1. given \in Seq(Packages)
    BY DEF NamesOnce
  <2>2. PICK from \in [DOMAIN given -> DOMAIN given] :
              /\ given' \in Seq(Packages) /\ Len(given') = Len(given) /\ DOMAIN given' = DOMAIN given
              /\ \A k \in DOMAIN given : given'[k] = given[from[k]]
              /\ \A k, m \in DOMAIN given : from[k] = from[m] => k = m
    BY <1>1, <2>1, SortIs
  <2>3. \A k \in DOMAIN given : \E m \in DOMAIN NameOrder : NameOrder[m] = given'[k].name
    BY <2>2 DEF NamesOnce
  <2>4. \A k, m \in DOMAIN given : given'[k].name = given'[m].name => k = m
    BY <2>2 DEF NamesOnce
  <2>5. \A k, m \in DOMAIN given : k < m => Rank(given'[k]) <= Rank(given'[m])
    BY <1>1 DEF SortDb
  <2>6. \A k \in DOMAIN given : Rank(given[k])' = Rank(given'[k])
    BY DEF Rank
  <2>7. \A k, m \in DOMAIN given' : k < m => Rank(given'[k]) <= Rank(given'[m])
    BY <2>2, <2>5
  <2> QED
    BY <2>2, <2>3, <2>4, <2>7 DEF NamesOnce, InOrder, Rank
<1>2. CASE UNCHANGED given /\ dpc # "sort"
  <2>1. NamesOnce'
    BY <1>2 DEF NamesOnce
  <2> QED
    BY <1>2, <2>1 DEF InOrder, Rank
<1>3. CASE UNCHANGED dbfVars
  <2>1. given' = given /\ dpc' = dpc
    BY <1>3 DEF dbfVars
  <2> QED
    BY <2>1 DEF NamesOnce, InOrder, Rank
<1>4. ~SortDb /\ DbfNext => UNCHANGED given /\ dpc # "sort"
  BY DEF DbfNext, WritePkg, WritesFail, Written, RecordEnd, ReadName, ReadVersion, ReadFile,
         ReadEnd, Reads
<1> QED
  BY <1>1, <1>2, <1>3, <1>4

-----------------------------------------------------------------------------
(* What is in the file, and how far the reader is.                         *)

\* start[k] is where the k-th package written begins; behind the last of them
\* is what is left of the one that could not be written.
Laid(start) ==
    /\ start \in [1..(flushed + 1) -> Nat] /\ start[1] = 0
    /\ \A k \in 1..flushed :
        /\ start[k + 1] = start[k] + Lines(given[k]) /\ start[k + 1] <= Len(text)
        /\ \A m \in 1..Lines(given[k]) : text[start[k] + m] = LineOf(given[k], m)
    /\ start[flushed + 1] <= Len(text)
    /\ dpc = "write" => start[flushed + 1] = Len(text)
    /\ \A m \in (start[flushed + 1] + 1)..Len(text) :
        /\ ~EndsRecord(text[m])
        /\ FillsBuffer(text[m]) => flushed + 1 \in DOMAIN given /\ HasBrim(given[flushed + 1])

Unread ==
    dpc \in {"sort", "write"} =>
        /\ pos = 0 /\ newline = FALSE /\ cnt = 0 /\ made = <<>> /\ pkg = 0 /\ pkg_db = <<>>
        /\ dpc = "sort" => text = <<>> /\ flushed = 0

\* The first m packages are read.
Whole(m) == \A k \in 1..m : pkg_db[k] = k /\ made[k] = given[k]

\* Of p the first c lines are read, which made r.
Partial(p, r, c) ==
    /\ r.name = p.name
    /\ c = 1 => r.files = <<>>
    /\ c >= 2 => /\ r.version = p.version /\ Len(r.files) = c - 2
                 /\ \A k \in 1..(c - 2) : r.files[k] = p.files[k]

\* The reader is in the r-th record, and knows it.
InStep(start, r) ==
    /\ r = Len(pkg_db) + 1 /\ newline = FALSE /\ pos = start[r] + cnt /\ Whole(r - 1)
    /\ Len(made) = IF cnt = 0 THEN r - 1 ELSE r
    /\ r <= flushed /\ cnt > 0 => cnt < Lines(given[r]) /\ Partial(given[r], made[r], cnt)

\* The newline of a directory has ended the b-th record before its end.
OutOfStep(b) == HasBrim(given[b]) /\ b - 1 <= Len(pkg_db) /\ Whole(b - 1) /\ b <= pkg

Follows(start) ==
    dpc \in {"read", "done"} =>
        \/ \E r \in 1..(flushed + 1) : InStep(start, r)
        \/ \E b \in DOMAIN given : OutOfStep(b)
Ended == dpc = "done" => pos = Len(text) /\ newline = FALSE
Layout == Unread /\ Ended /\ \E start : Laid(start) /\ Follows(start)

LEMMA LayoutInit ==
    ASSUME DbfInit
    PROVE  Layout
<1>1. PICK d \in PkgDbs : DbfStart(d)
  BY DEF DbfInit
<1>2. /\ text = <<>> /\ flushed = 0 /\ pos = 0 /\ newline = FALSE /\ cnt = 0 /\ made = <<>>
      /\ pkg = 0 /\ pkg_db = <<>> /\ dpc = "sort"
  BY <1>1 DEF DbfStart
<1>3. Unread /\ Ended
  BY <1>2 DEF Unread, Ended
<1> DEFINE start == [k \in 1..1 |-> 0]
<1>4. Laid(start)
  <2>1. Len(text) = 0 /\ flushed + 1 = 1
    BY <1>2
  <2>2. start \in [1..1 -> Nat] /\ start[1] = 0
    OBVIOUS
  <2> HIDE DEF start
  <2> QED
    BY <1>2, <2>1, <2>2 DEF Laid
<1>5. Follows(start)
  BY <1>2 DEF Follows
<1> QED
  BY <1>3, <1>4, <1>5 DEF Layout

LEMMA SortKeepsLayout ==
    ASSUME DbTypeOK, Layout, SortDb
    PROVE  Layout'
<1>1. PICK start : Laid(start) /\ Follows(start)
  BY DEF Layout
<1>2. dpc = "sort" /\ dpc' = "write" /\ UNCHANGED <<text, flushed, pos, newline, cnt, made, pkg, pkg_db>>
  BY DEF SortDb, WriterRest
<1>3. text = <<>> /\ flushed = 0 /\ Unread' /\ Ended'
  BY <1>2 DEF Layout, Unread, Ended
<1>4. Laid(start)'
  <2>1. Len(text) = 0 /\ flushed + 1 = 1 /\ start[flushed + 1] = 0 /\ start \in [1..1 -> Nat]
    BY <1>1, <1>3 DEF Laid
  <2> QED
    BY <1>2, <1>3, <2>1 DEF Laid
<1>5. Follows(start)'
  BY <1>2 DEF Follows
<1> QED
  BY <1>3, <1>4, <1>5 DEF Layout

LEMMA WriteKeepsLayout ==
    ASSUME DbTypeOK, Layout, WritePkg
    PROVE  Layout'
<1>1. PICK start : Laid(start) /\ Follows(start)
  BY DEF Layout
<1> DEFINE p == given[flushed + 1]
           t == PkgText(p)
           L == Len(text)
           A == [k \in 1..(flushed + 2) |-> IF k <= flushed + 1 THEN start[k] ELSE Len(text')]
<1>2. /\ dpc = "write" /\ dpc' = "write" /\ given' = given /\ flushed' = flushed + 1 /\ flushed \in Nat
      /\ text' = text \o t /\ UNCHANGED <<pos, newline, cnt, made, pkg, pkg_db>>
      /\ p \in Packages
  BY DbTypes DEF WritePkg, WriterRest
<1>3. Unread' /\ Ended'
  BY <1>2 DEF Layout, Unread, Ended
<1>4. /\ t \in Seq(TextLine) /\ Len(t) = Lines(p) /\ Lines(p) \in Nat
      /\ \A m \in 1..Lines(p) : t[m] = LineOf(p, m)
  BY <1>2, PkgTextIs, PackageFacts
<1>5. /\ Len(text') = L + Lines(p) /\ L \in Nat
      /\ \A k \in 1..L : text'[k] = text[k]
      /\ \A k \in 1..Lines(p) : text'[L + k] = LineOf(p, k)
  <2> HIDE DEF t
  <2> QED
    BY <1>2, <1>4, TextGrows
<1>6. /\ start \in [1..(flushed + 1) -> Nat] /\ start[1] = 0 /\ start[flushed + 1] = L
      /\ \A k \in 1..flushed :
            /\ start[k + 1] = start[k] + Lines(given[k]) /\ start[k + 1] <= L
            /\ \A m \in 1..Lines(given[k]) : text[start[k] + m] = LineOf(given[k], m)
  BY <1>1, <1>2 DEF Laid
<1>7. PICK after \in [1..(flushed + 2) -> Nat] :
        /\ \A k \in 1..(flushed + 1) : after[k] = start[k]
        /\ after[flushed + 2] = L + Lines(p)
  <2>1. /\ A \in [1..(flushed + 2) -> Nat]
        /\ \A k \in 1..(flushed + 1) : A[k] = start[k]
        /\ A[flushed + 2] = L + Lines(p)
    BY <1>2, <1>4, <1>5, <1>6
  <2> HIDE DEF A
  <2> QED
    BY <2>1
<1>0. flushed \in Nat /\ Lines(p) \in Nat /\ L \in Nat /\ Len(text') = L + Lines(p)
  BY <1>2, <1>4, <1>5
<1> HIDE DEF p, t, L
<1>8. ASSUME NEW k \in 1..(flushed + 1)
      PROVE  /\ after[k + 1] = after[k] + Lines(given[k]) /\ after[k + 1] <= Len(text')
             /\ \A m \in 1..Lines(given[k]) : text'[after[k] + m] = LineOf(given[k], m)
  <2>1. CASE k = flushed + 1
    <3>1. after[k] = L /\ after[k + 1] = L + Lines(p) /\ given[k] = p
      <4>1. k + 1 = flushed + 2
        BY <1>0, <2>1
      <4> QED
        BY <1>6, <1>7, <2>1, <4>1 DEF p
    <3> QED
      BY <1>0, <1>5, <3>1
  <2>2. CASE k \in 1..flushed
    <3>0. k + 1 \in 1..(flushed + 1) /\ k \in 1..(flushed + 1)
      BY <1>0, <2>2
    <3>1. /\ after[k] = start[k] /\ after[k + 1] = start[k + 1] /\ start[k] \in Nat
          /\ start[k + 1] = start[k] + Lines(given[k]) /\ start[k + 1] <= L
      BY <1>6, <1>7, <2>2, <3>0
    <3>2. given[k] \in Packages
      BY <2>2, DbTypes
    <3>3. Lines(given[k]) \in Nat
      BY <3>2, PackageFacts
    <3>4. ASSUME NEW m \in 1..Lines(given[k])
          PROVE  text'[after[k] + m] = LineOf(given[k], m)
      <4>1. start[k] + m \in 1..L
        BY <1>0, <3>1, <3>3
      <4> QED
        BY <1>5, <1>6, <2>2, <3>1, <4>1
    <3>5. after[k + 1] <= Len(text')
      <4>1. after[k + 1] <= L /\ after[k + 1] \in Nat
        BY <1>6, <3>0, <3>1
      <4> QED
        BY <1>0, <4>1
    <3> QED
      BY <3>1, <3>4, <3>5
  <2> QED
    BY <1>0, <2>1, <2>2
<1>9. Laid(after)'
  <2>1. flushed' + 1 = flushed + 2 /\ flushed' = flushed + 1 /\ 1 \in 1..(flushed + 1)
    BY <1>0, <1>2
  <2>2. after[1] = 0 /\ after[flushed + 2] = Len(text')
    BY <1>5, <1>6, <1>7, <2>1
  <2>3. Len(text') \in Nat
    BY <1>0, <1>5
  <2>4. \A m \in (after[flushed + 2] + 1)..Len(text') : FALSE
    BY <2>2, <2>3
  <2>5. after \in [1..(flushed' + 1) -> Nat] /\ after[flushed' + 1] = Len(text') /\ after[1] = 0
    BY <1>7, <2>1, <2>2
  <2>6. \A k \in 1..flushed' :
           /\ after[k + 1] = after[k] + Lines(given'[k]) /\ after[k + 1] <= Len(text')
           /\ \A m \in 1..Lines(given'[k]) : text'[after[k] + m] = LineOf(given'[k], m)
    BY <1>2, <1>8, <2>1
  <2>7. \A m \in (after[flushed' + 1] + 1)..Len(text') :
          /\ ~EndsRecord(text'[m])
          /\ FillsBuffer(text'[m]) => flushed' + 1 \in DOMAIN given' /\ HasBrim(given'[flushed' + 1])
    BY <2>1, <2>4
  <2>8. after[flushed' + 1] <= Len(text')
    BY <2>3, <2>5
  <2> QED
    BY <2>5, <2>6, <2>7, <2>8 DEF Laid
<1>10. Follows(after)'
  BY <1>2 DEF Follows
<1> QED
  BY <1>3, <1>9, <1>10 DEF Layout

\* The reader begins in step with what was written.
LEMMA BeginsInStep ==
    ASSUME NEW start, Laid(start), Unread, DbTypeOK, dpc = "write", dpc' = "read",
           flushed' = flushed, UNCHANGED <<pos, newline, cnt, made, pkg, pkg_db>>
    PROVE  Unread' /\ Ended' /\ Follows(start)'
<1>1. /\ pos' = 0 /\ newline' = FALSE /\ cnt' = 0 /\ made' = <<>> /\ pkg_db' = <<>>
  BY DEF Unread
<1>2. start[1] = 0 /\ 1 \in 1..(flushed' + 1)
  BY DbTypes DEF Laid
<1>3. Len(made') = 0 /\ Len(pkg_db') = 0
  BY <1>1
<1>4. Whole(0)'
  BY DEF Whole
<1>5. InStep(start, 1)'
  BY <1>1, <1>2, <1>3, <1>4 DEF InStep
<1> QED
  BY <1>2, <1>5 DEF Unread, Ended, Follows

LEMMA LaidKept ==
    ASSUME NEW start, Laid(start), UNCHANGED <<given, text, flushed>>, dpc' # "write"
    PROVE  Laid(start)'
BY DEF Laid

LEMMA WrittenKeepsLayout ==
    ASSUME DbTypeOK, Layout, Written
    PROVE  Layout'
<1>1. PICK start : Laid(start) /\ Follows(start)
  BY DEF Layout
<1>2. dpc = "write" /\ dpc' = "read" /\ UNCHANGED <<given, text, flushed, pos, newline, cnt, made, pkg, pkg_db>>
  BY DEF Written, WriterRest
<1>3. Laid(start)'
  BY <1>1, <1>2, LaidKept
<1>4. Unread' /\ Ended' /\ Follows(start)'
  BY <1>1, <1>2, BeginsInStep DEF Layout
<1> QED
  BY <1>3, <1>4 DEF Layout

LEMMA FailureKeepsLayout ==
    ASSUME DbTypeOK, Layout, WritesFail
    PROVE  Layout'
<1>1. PICK start : Laid(start) /\ Follows(start)
  BY DEF Layout
<1>2. /\ dpc = "write" /\ dpc' = "read" /\ flushed < Len(given)
      /\ UNCHANGED <<given, flushed, pos, newline, cnt, made, pkg, pkg_db>>
  BY DEF WritesFail, WriterRest
<1>3. Unread' /\ Ended' /\ Follows(start)'
  BY <1>1, <1>2, BeginsInStep DEF Layout
<1> DEFINE p == given[flushed + 1]
           L == Len(text)
<1>4. PICK t : Remnant(t, p) /\ text' = text \o t
  BY FailureLeavesRemnant
<1>5. t \in Seq(TextLine) /\ \A k \in 1..Len(t) : ~EndsRecord(t[k]) /\ (FillsBuffer(t[k]) => HasBrim(p))
  BY <1>4 DEF Remnant
<1>6. /\ Len(text') = L + Len(t) /\ L \in Nat /\ Len(t) \in Nat
      /\ \A k \in 1..L : text'[k] = text[k]
      /\ \A k \in 1..Len(t) : text'[L + k] = t[k]
  BY <1>4, <1>5, TextGrows
<1>7. start[flushed + 1] = L /\ flushed \in Nat /\ flushed + 1 \in DOMAIN given
  BY <1>1, <1>2, DbTypes DEF Laid
<1>8. /\ start \in [1..(flushed + 1) -> Nat] /\ start[1] = 0
      /\ \A k \in 1..flushed :
            /\ start[k + 1] = start[k] + Lines(given[k]) /\ start[k + 1] <= L
            /\ \A m \in 1..Lines(given[k]) : text[start[k] + m] = LineOf(given[k], m)
  BY <1>1 DEF Laid
<1> HIDE DEF p, L
<1>9. ASSUME NEW k \in 1..flushed
      PROVE  /\ start[k + 1] <= Len(text')
             /\ \A m \in 1..Lines(given[k]) : text'[start[k] + m] = LineOf(given[k], m)
  <2>1. given[k] \in Packages /\ k \in 1..(flushed + 1) /\ k + 1 \in 1..(flushed + 1)
    BY <1>7, DbTypes
  <2>2. Lines(given[k]) \in Nat
    BY <2>1, PackageFacts
  <2>3. start[k] \in Nat /\ start[k + 1] \in Nat
    BY <1>8, <2>1
  <2>4. start[k + 1] = start[k] + Lines(given[k]) /\ start[k + 1] <= L
    BY <1>8
  <2>5. start[k + 1] <= Len(text')
    BY <1>6, <2>3, <2>4
  <2>6. ASSUME NEW m \in 1..Lines(given[k])
        PROVE  text'[start[k] + m] = LineOf(given[k], m)
    <3>1. start[k] + m \in 1..L
      BY <1>6, <2>2, <2>3, <2>4
    <3> QED
      BY <1>6, <1>8, <3>1
  <2> QED
    BY <2>5, <2>6
<1>10. ASSUME NEW m \in (L + 1)..Len(text')
       PROVE  ~EndsRecord(text'[m]) /\ (FillsBuffer(text'[m]) => HasBrim(p))
  <2> DEFINE k == m - L
  <2>1. k \in 1..Len(t) /\ L + k = m
    BY <1>6
  <2> HIDE DEF k
  <2>2. text'[m] = t[k]
    BY <1>6, <2>1
  <2> QED
    BY <1>5, <2>1, <2>2
<1>11. start[flushed + 1] <= Len(text')
  BY <1>6, <1>7
<1>12. Laid(start)'
  <2>1. given' = given /\ flushed' = flushed /\ dpc' # "write"
    BY <1>2
  <2> QED
    BY <1>7, <1>8, <1>9, <1>10, <1>11, <2>1 DEF Laid, p
<1> QED
  BY <1>3, <1>12 DEF Layout

-----------------------------------------------------------------------------
(* The reader, line by line.                                               *)

LEMMA LaidRecord ==
    ASSUME DbTypeOK, NEW start, Laid(start), NEW r \in 1..flushed
    PROVE  /\ given[r] \in Packages /\ r \in DOMAIN given /\ Lines(given[r]) \in Nat
           /\ start[r] \in Nat /\ start[r + 1] = start[r] + Lines(given[r])
           /\ start[r + 1] <= Len(text) /\ r + 1 \in 1..(flushed + 1)
           /\ \A m \in 1..Lines(given[r]) : text[start[r] + m] = LineOf(given[r], m)
<1>1. given[r] \in Packages /\ r \in DOMAIN given /\ r \in 1..(flushed + 1) /\ r + 1 \in 1..(flushed + 1)
  BY DbTypes
<1>2. Lines(given[r]) \in Nat
  BY <1>1, PackageFacts
<1> QED
  BY <1>1, <1>2 DEF Laid

\* In step, the next line is the next one of the record.
LEMMA InStepLine ==
    ASSUME DbTypeOK, NEW start, Laid(start), NEW r \in 1..(flushed + 1), InStep(start, r), Reads
    PROVE  /\ pos' = start[r] + cnt + 1
           /\ FillsBuffer(Line) => ~EndsRecord(Line) /\ r \in DOMAIN given /\ HasBrim(given[r])
           /\ EndsRecord(Line) => r <= flushed /\ cnt + 1 = Lines(given[r])
           /\ r <= flushed => cnt + 1 \in 1..Lines(given[r]) /\ Line = LineOf(given[r], cnt + 1)
<1>1. /\ newline = FALSE /\ pos = start[r] + cnt
      /\ r <= flushed /\ cnt > 0 => cnt < Lines(given[r])
  BY DEF InStep
<1>2. Line = text[pos + 1] /\ pos' = pos + 1 /\ pos < Len(text)
  BY <1>1 DEF Reads, Line
<1>3. /\ start[r] \in Nat /\ cnt \in Nat /\ flushed \in Nat /\ Len(text) \in Nat
      /\ r \in Nat
  <2>1. cnt \in Nat /\ flushed \in Nat /\ Len(text) \in Nat
    BY DbTypes
  <2>2. start \in [1..(flushed + 1) -> Nat]
    BY DEF Laid
  <2> QED
    BY <2>1, <2>2
<1>4. pos' = start[r] + cnt + 1
  BY <1>1, <1>2
<1>5. CASE r \in 1..flushed
  <2> DEFINE p == given[r]
  <2>1. /\ p \in Packages /\ r \in DOMAIN given /\ Lines(p) \in Nat /\ Lines(p) >= 3
        /\ \A m \in 1..Lines(p) : text[start[r] + m] = LineOf(p, m)
    BY <1>5, LaidRecord, PackageFacts
  <2>2. cnt > 0 => cnt < Lines(p)
    BY <1>1, <1>5
  <2> HIDE DEF p
  <2>3. cnt + 1 \in 1..Lines(p) /\ pos + 1 = start[r] + (cnt + 1)
    BY <1>1, <1>3, <2>1, <2>2
  <2>4. Line = LineOf(p, cnt + 1)
    BY <1>2, <2>1, <2>3
  <2>5. /\ EndsRecord(Line) <=> cnt + 1 = Lines(p)
        /\ FillsBuffer(Line) => HasBrim(p)
    BY <2>1, <2>3, <2>4, LineOfIs
  <2>6. FillsBuffer(Line) => ~EndsRecord(Line)
    <3>1. CASE cnt + 1 = Lines(p)
      <4>1. Line = Got("", FALSE)
        BY <2>1, <2>4, <3>1, LineOfAt DEF Empty
      <4>2. ~FillsBuffer(Line)
        BY <4>1 DEF Got, FillsBuffer
      <4> QED
        BY <4>2
    <3> QED
      BY <2>5, <3>1
  <2> QED
    BY <1>3, <1>4, <1>5, <2>1, <2>3, <2>4, <2>5, <2>6 DEF p
<1>6. CASE r = flushed + 1
  <2>1. pos + 1 \in (start[r] + 1)..Len(text)
    BY <1>1, <1>2, <1>3
  <2>2. /\ ~EndsRecord(Line)
        /\ FillsBuffer(Line) => r \in DOMAIN given /\ HasBrim(given[r])
    BY <1>2, <1>6, <2>1 DEF Laid
  <2>3. ~(r <= flushed)
    BY <1>3, <1>6
  <2> QED
    BY <1>4, <2>2, <2>3
<1> QED
  BY <1>3, <1>5, <1>6

\* A record that has been read to its end is the package.
LEMMA PartialIsWhole ==
    ASSUME NEW p \in Packages, NEW r \in DbPackage(ReadWord), NEW c \in Nat,
           c + 1 = Lines(p), Partial(p, r, c)
    PROVE  r = p
<1>1. p.files \in Seq(FileEntry(Word)) /\ Len(p.files) \in Nat /\ Lines(p) = Len(p.files) + 3
  BY PackageFacts DEF Lines
<1>2. c >= 2 /\ c - 2 = Len(p.files)
  BY <1>1
<1>3. /\ r.name = p.name /\ r.version = p.version /\ Len(r.files) = Len(p.files)
      /\ \A k \in 1..Len(p.files) : r.files[k] = p.files[k]
  BY <1>2 DEF Partial
<1>4. r.files \in Seq(FileEntry(ReadWord)) /\ r = [name |-> r.name, version |-> r.version, files |-> r.files]
  BY MadeRecord
<1>5. r.files = p.files
  <2>1. DOMAIN r.files = DOMAIN p.files /\ DOMAIN p.files = 1..Len(p.files)
    BY <1>1, <1>3, <1>4
  <2>2. r.files = [k \in DOMAIN r.files |-> r.files[k]] /\ p.files = [k \in DOMAIN p.files |-> p.files[k]]
    BY <1>1, <1>4
  <2> QED
    BY <1>3, <2>1, <2>2
<1>6. p = [name |-> p.name, version |-> p.version, files |-> p.files]
  BY DEF Packages, DbPackage
<1> QED
  BY <1>3, <1>4, <1>5, <1>6

LEMMA WholeKept ==
    ASSUME NEW m, Whole(m), given' = given,
           \A k \in 1..m : pkg_db'[k] = pkg_db[k] /\ made'[k] = made[k]
    PROVE  Whole(m)'
BY DEF Whole

\* The line of a directory that fills the buffer: the reader is out of step.
LEMMA FallsOutOfStep ==
    ASSUME DbTypeOK, NEW start, NEW r \in 1..(flushed + 1), InStep(start, r), given' = given,
           r \in DOMAIN given, HasBrim(given[r]), pkg' = r, pkg_db' = pkg_db,
           \A k \in 1..Len(made) : k < r => made'[k] = made[k]
    PROVE  OutOfStep(r)'
<1>1. r = Len(pkg_db) + 1 /\ Whole(r - 1) /\ Len(made) = IF cnt = 0 THEN r - 1 ELSE r
  BY DEF InStep
<1>2. Len(pkg_db) \in Nat /\ r \in Nat
  BY DbTypes
<1>3. \A k \in 1..(r - 1) : k \in 1..Len(made) /\ k < r
  BY <1>1, <1>2
<1>4. Whole(r - 1)'
  <2> DEFINE m == r - 1
  <2> HIDE DEF m
  <2>1. \A k \in 1..m : pkg_db'[k] = pkg_db[k] /\ made'[k] = made[k]
    BY <1>3 DEF m
  <2>2. Whole(m)
    BY <1>1 DEF m
  <2>3. Whole(m)'
    BY <2>1, <2>2, WholeKept
  <2> QED
    BY <2>3 DEF m
<1> QED
  BY <1>1, <1>2, <1>4 DEF OutOfStep

LEMMA RecordEndInStep ==
    ASSUME DbTypeOK, NEW start, Laid(start), NEW r \in 1..(flushed + 1), InStep(start, r), RecordEnd
    PROVE  r + 1 \in 1..(flushed + 1) /\ InStep(start, r + 1)'
<1>1. Reads /\ EndsRecord(Line) /\ cnt' = 0 /\ pkg_db' = Append(pkg_db, pkg) /\ UNCHANGED <<made, pkg>>
  BY DEF RecordEnd
<1> DEFINE p == given[r]
<1>2. r \in 1..flushed /\ cnt + 1 = Lines(p) /\ pos' = start[r] + cnt + 1 /\ ~FillsBuffer(Line)
  BY <1>1, InStepLine
<1>3. /\ p \in Packages /\ Lines(p) \in Nat /\ start[r] \in Nat /\ start[r + 1] = start[r] + Lines(p)
      /\ r + 1 \in 1..(flushed + 1)
  BY <1>2, LaidRecord
<1>4. cnt \in Nat /\ cnt > 0
  BY <1>2, <1>3, PackageFacts, DbTypes DEF Lines
<1>5. /\ r = Len(pkg_db) + 1 /\ Whole(r - 1) /\ Len(made) = r /\ Partial(p, made[r], cnt)
  BY <1>2, <1>4 DEF InStep
<1>6. pkg = r /\ made \in Seq(DbPackage(ReadWord)) /\ pkg_db \in Seq(0..Len(made)) /\ r \in Nat
  BY <1>4, <1>5, DbTypes
<1>7. made[r] = p
  <2>1. made[r] \in DbPackage(ReadWord)
    BY <1>5, <1>6
  <2> HIDE DEF p
  <2> QED
    BY <1>2, <1>3, <1>4, <1>5, <2>1, PartialIsWhole
<1>8. /\ Len(pkg_db') = r /\ pkg_db'[r] = r /\ \A k \in 1..(r - 1) : pkg_db'[k] = pkg_db[k]
  <2>1. pkg \in 0..Len(made) /\ r - 1 = Len(pkg_db)
    BY <1>5, <1>6
  <2> QED
    BY <1>1, <1>5, <1>6, <2>1, AppendProperties
<1>9. newline' = FALSE /\ UNCHANGED <<given, text, flushed>>
  BY <1>1, <1>2 DEF Reads, FillsBuffer
<1>10. \A k \in 1..r : pkg_db'[k] = k /\ made'[k] = given'[k]
  <2>1. \A k \in 1..(r - 1) : pkg_db[k] = k /\ made[k] = given[k]
    BY <1>5 DEF Whole
  <2>2. \A k \in 1..r : k = r \/ k \in 1..(r - 1)
    BY <1>6
  <2> QED
    BY <1>1, <1>7, <1>8, <1>9, <2>1, <2>2
<1>11. pos' = start[r + 1] + cnt' /\ r + 1 = Len(pkg_db') + 1 /\ (r + 1) - 1 = r /\ Len(made') = r
  <2>1. pos' = start[r + 1] + cnt'
    <3> HIDE DEF p
    <3>1. start[r + 1] = start[r] + (cnt + 1) /\ cnt' = 0
      BY <1>1, <1>2, <1>3
    <3> QED
      BY <1>2, <1>3, <1>4, <3>1
  <2>2. r + 1 = Len(pkg_db') + 1 /\ (r + 1) - 1 = r /\ Len(made') = r
    BY <1>1, <1>5, <1>6, <1>8
  <2> QED
    BY <2>1, <2>2
<1> PICK q \in Nat : q = r + 1
  BY <1>6
<1>12. InStep(start, q)'
  <2>1. q - 1 = r
    BY <1>6
  <2>2. Whole(q - 1)'
    BY <1>10, <2>1 DEF Whole
  <2> QED
    BY <1>1, <1>9, <1>11, <2>1, <2>2 DEF InStep
<1> QED
  BY <1>3, <1>12

\* A name, a version or a file: the reader goes on in step if it was the next
\* line of the record, and had its newline.
LEMMA GoesOnInStep ==
    ASSUME DbTypeOK, NEW start, Laid(start), NEW r \in 1..(flushed + 1), InStep(start, r),
           Reads, ~FillsBuffer(Line), ~EndsRecord(Line), pkg_db' = pkg_db, cnt' = cnt + 1, Len(made') = r,
           \A k \in 1..Len(made) : k < r => made'[k] = made[k],
           r <= flushed => Partial(given[r], made'[r], cnt + 1)
    PROVE  InStep(start, r)'
<1>1. /\ r = Len(pkg_db) + 1 /\ Whole(r - 1) /\ Len(made) = IF cnt = 0 THEN r - 1 ELSE r
  BY DEF InStep
<1>2. /\ Len(pkg_db) \in Nat /\ r \in Nat /\ cnt \in Nat /\ cnt + 1 # 0
  BY DbTypes
<1>3. /\ UNCHANGED <<given, text, flushed>> /\ newline' = FALSE
  BY DEF Reads, FillsBuffer
<1>4. pos' = start[r] + cnt + 1 /\ (r <= flushed => cnt + 1 \in 1..Lines(given[r]) /\ Line = LineOf(given[r], cnt + 1))
  BY InStepLine
<1>5. start[r] \in Nat
  BY DEF Laid
<1>6. pos' = start[r] + cnt'
  BY <1>2, <1>4, <1>5
<1>7. r <= flushed => cnt' < Lines(given[r])
  <2> SUFFICES ASSUME r <= flushed PROVE cnt' < Lines(given[r])
    OBVIOUS
  <2>1. r \in 1..flushed
    BY DbTypes
  <2> DEFINE p == given[r]
  <2>2. p \in Packages /\ Lines(p) \in Nat /\ cnt + 1 \in 1..Lines(p) /\ Line = LineOf(p, cnt + 1)
    BY <1>4, <2>1, LaidRecord
  <2> HIDE DEF p
  <2>3. cnt + 1 # Lines(p)
    BY <2>2, LineOfIs
  <2>4. cnt + 1 < Lines(p)
    BY <1>2, <2>2, <2>3
  <2> QED
    BY <2>4 DEF p
<1>8. Whole(r - 1)'
  <2> PICK m \in Nat : m = r - 1
    BY <1>2, <1>1
  <2>1. \A k \in 1..m : k \in 1..Len(made) /\ k < r
    BY <1>1, <1>2
  <2>2. \A k \in 1..m : pkg_db'[k] = pkg_db[k] /\ made'[k] = made[k]
    BY <2>1
  <2>3. Whole(m)'
    BY <1>1, <1>3, <2>2, WholeKept
  <2> QED
    BY <2>3
<1> QED
  BY <1>1, <1>2, <1>3, <1>6, <1>7, <1>8 DEF InStep

LEMMA ReadNameInStep ==
    ASSUME DbTypeOK, NEW start, Laid(start), NEW r \in 1..(flushed + 1), InStep(start, r), ReadName
    PROVE  \/ InStep(start, r)'
           \/ r \in DOMAIN given' /\ OutOfStep(r)'
<1>1. /\ Reads /\ ~EndsRecord(Line) /\ cnt = 0 /\ cnt' = 1 /\ pkg_db' = pkg_db
      /\ UNCHANGED <<given, text, flushed>>
  BY DEF ReadName, Reads
<1>2. r = Len(pkg_db) + 1 /\ Len(made) = r - 1
  BY <1>1 DEF InStep
<1>3. r \in Nat /\ Len(made) \in Nat
  BY <1>2, DbTypes
<1>4. /\ Len(made') = r /\ pkg' = r
      /\ made'[r].name = Line.word /\ made'[r].files = <<>>
      /\ \A k \in 1..Len(made) : made'[k] = made[k]
  <2>1. Len(made) + 1 = r
    BY <1>2, <1>3
  <2>2. made'[r] = [name |-> Line.word, version |-> "", files |-> <<>>]
    BY <2>1, ReadNameIs
  <2>3. made'[r].name = Line.word /\ made'[r].files = <<>>
    <3>1. \E v : made'[r] = [name |-> Line.word, version |-> v, files |-> <<>>]
      BY <2>2, Zenon
    <3> QED
      BY <3>1
  <2> QED
    BY <2>1, <2>3, ReadNameIs
<1>5. CASE FillsBuffer(Line)
  <2>1. r \in DOMAIN given /\ HasBrim(given[r])
    BY <1>1, <1>5, InStepLine
  <2>2. OutOfStep(r)'
    BY <1>1, <1>4, <2>1, FallsOutOfStep
  <2> QED
    BY <1>1, <2>1, <2>2
<1>6. CASE ~FillsBuffer(Line)
  <2>0. cnt + 1 = 1
    BY <1>1
  <2>1. r <= flushed => Partial(given[r], made'[r], cnt + 1)
    <3> SUFFICES ASSUME r <= flushed PROVE Partial(given[r], made'[r], 1)
      BY <2>0
    <3>1. r \in 1..flushed
      BY DbTypes
    <3> DEFINE p == given[r]
    <3>2. p \in Packages
      BY <3>1, LaidRecord
    <3>3. Line = LineOf(p, 1)
      BY <1>1, <2>0, InStepLine
    <3> HIDE DEF p
    <3>4. Line = Got(p.name, FALSE)
      BY <3>2, <3>3, LineOfAt
    <3>5. Line.word = p.name
      BY <3>4 DEF Got
    <3>6. Partial(p, made'[r], 1)
      BY <1>4, <3>5 DEF Partial
    <3> QED
      BY <3>6 DEF p
  <2>2. cnt' = cnt + 1
    BY <1>1, <2>0
  <2> QED
    BY <1>1, <1>4, <1>6, <2>1, <2>2, GoesOnInStep
<1> QED
  BY <1>5, <1>6

LEMMA ReadVersionInStep ==
    ASSUME DbTypeOK, NEW start, Laid(start), NEW r \in 1..(flushed + 1), InStep(start, r), ReadVersion
    PROVE  \/ InStep(start, r)'
           \/ r \in DOMAIN given' /\ OutOfStep(r)'
<1>1. /\ Reads /\ ~EndsRecord(Line) /\ cnt = 1 /\ cnt' = 2 /\ pkg_db' = pkg_db /\ pkg' = pkg
      /\ UNCHANGED <<given, text, flushed>>
  BY DEF ReadVersion, Reads
<1>2. cnt > 0 /\ cnt # 0 /\ cnt + 1 = 2
  BY <1>1
<1>3. Len(made) = r /\ (r <= flushed => Partial(given[r], made[r], 1))
  BY <1>1, <1>2 DEF InStep
<1>4. r \in Nat /\ pkg = r
  BY <1>2, <1>3, DbTypes
<1>5. /\ Len(made') = r
      /\ made'[r].name = made[r].name /\ made'[r].version = Line.word /\ made'[r].files = made[r].files
      /\ \A k \in 1..Len(made) : k < r => made'[k] = made[k]
  <2>1. made'[r] = [name |-> made[r].name, version |-> Line.word, files |-> made[r].files]
    BY <1>4, ReadVersionIs
  <2>2. \A k \in 1..Len(made) : k # pkg => made'[k] = made[k]
    BY ReadVersionIs
  <2>3. Len(made') = r
    BY <1>3, ReadVersionIs
  <2> QED
    BY <1>4, <2>1, <2>2, <2>3
<1>6. CASE FillsBuffer(Line)
  <2>1. r \in DOMAIN given /\ HasBrim(given[r])
    BY <1>1, <1>6, InStepLine
  <2>2. OutOfStep(r)'
    BY <1>1, <1>4, <1>5, <2>1, FallsOutOfStep
  <2> QED
    BY <1>1, <2>1, <2>2
<1>7. CASE ~FillsBuffer(Line)
  <2>1. r <= flushed => Partial(given[r], made'[r], cnt + 1)
    <3> SUFFICES ASSUME r <= flushed PROVE Partial(given[r], made'[r], 2)
      BY <1>2
    <3>1. r \in 1..flushed
      BY DbTypes
    <3> DEFINE p == given[r]
    <3>2. p \in Packages
      BY <3>1, LaidRecord
    <3>3. Line = LineOf(p, 2)
      BY <1>1, <1>2, InStepLine
    <3>4. Partial(p, made[r], 1)
      BY <1>3
    <3> HIDE DEF p
    <3>5. Line = Got(p.version, FALSE)
      BY <3>2, <3>3, LineOfAt
    <3>6. Line.word = p.version
      BY <3>5 DEF Got
    <3>7. made'[r].name = p.name /\ made'[r].version = p.version /\ made'[r].files = <<>>
      BY <1>5, <3>4, <3>6 DEF Partial
    <3>8. Len(made'[r].files) = 2 - 2 /\ \A k \in 1..(2 - 2) : made'[r].files[k] = p.files[k]
      BY <3>7
    <3>9. Partial(p, made'[r], 2)
      BY <3>7, <3>8 DEF Partial
    <3> QED
      BY <3>9 DEF p
  <2>2. cnt' = cnt + 1
    BY <1>1, <1>2
  <2> QED
    BY <1>1, <1>5, <1>7, <2>1, <2>2, GoesOnInStep
<1> QED
  BY <1>6, <1>7

LEMMA ReadFileInStep ==
    ASSUME DbTypeOK, NEW start, Laid(start), NEW r \in 1..(flushed + 1), InStep(start, r), ReadFile
    PROVE  \/ InStep(start, r)'
           \/ r \in DOMAIN given' /\ OutOfStep(r)'
<1>1. /\ Reads /\ ~EndsRecord(Line) /\ cnt >= 2 /\ cnt' = cnt + 1 /\ pkg_db' = pkg_db /\ pkg' = pkg
      /\ UNCHANGED <<given, text, flushed>>
  BY DEF ReadFile, Reads
<1>2. cnt \in Nat /\ cnt > 0 /\ cnt # 0
  BY <1>1, DbTypes
<1>3. Len(made) = r /\ (r <= flushed => Partial(given[r], made[r], cnt))
  BY <1>2 DEF InStep
<1>4. r \in Nat /\ pkg = r /\ made \in Seq(DbPackage(ReadWord))
  BY <1>2, <1>3, DbTypes
<1> DEFINE f == [path |-> Line.word, dir |-> Line.slash]
<1>5. /\ Len(made') = r
      /\ made'[r].name = made[r].name /\ made'[r].version = made[r].version
      /\ made'[r].files = Append(made[r].files, f)
      /\ \A k \in 1..Len(made) : k < r => made'[k] = made[k]
  <2>1. made'[r] = [name |-> made[r].name, version |-> made[r].version, files |-> Append(made[r].files, f)]
    BY <1>4, ReadFileIs
  <2>2. \A k \in 1..Len(made) : k # pkg => made'[k] = made[k]
    BY ReadFileIs
  <2>3. Len(made') = r
    BY <1>3, ReadFileIs
  <2> HIDE DEF f
  <2> QED
    BY <1>4, <2>1, <2>2, <2>3
<1>6. CASE FillsBuffer(Line)
  <2>1. r \in DOMAIN given /\ HasBrim(given[r])
    BY <1>1, <1>6, InStepLine
  <2>2. OutOfStep(r)'
    BY <1>1, <1>4, <1>5, <2>1, FallsOutOfStep
  <2> QED
    BY <1>1, <2>1, <2>2
<1>7. CASE ~FillsBuffer(Line)
  <2>1. r <= flushed => Partial(given[r], made'[r], cnt + 1)
    <3> SUFFICES ASSUME r <= flushed PROVE Partial(given[r], made'[r], cnt + 1)
      OBVIOUS
    <3>1. r \in 1..flushed
      BY DbTypes
    <3> DEFINE p == given[r]
               fs == made[r].files
               k1 == cnt - 1
    <3>2. p \in Packages
      BY <3>1, LaidRecord
    <3>3. Line = LineOf(p, cnt + 1) /\ cnt + 1 \in 1..Lines(p)
      BY <1>1, InStepLine
    <3>4. Partial(p, made[r], cnt)
      BY <1>3
    <3>5. fs \in Seq(FileEntry(ReadWord))
      <4>1. made[r] \in DbPackage(ReadWord)
        BY <1>3, <1>4, <3>1
      <4> QED
        BY <4>1, MadeRecord
    <3> HIDE DEF p, f
    <3>6. /\ made[r].name = p.name /\ made[r].version = p.version /\ Len(fs) = cnt - 2
          /\ \A k \in 1..(cnt - 2) : fs[k] = p.files[k]
      BY <1>1, <3>4 DEF Partial
    <3>7. cnt + 1 # Lines(p)
      BY <1>1, <3>2, <3>3, LineOfIs
    <3>8. k1 \in 1..Len(p.files) /\ k1 + 2 = cnt + 1 /\ k1 = Len(fs) + 1
      BY <1>1, <1>2, <3>2, <3>3, <3>6, <3>7, PackageFacts DEF Lines
    <3> HIDE DEF k1
    <3>9. Line = Got(p.files[k1].path, p.files[k1].dir)
      BY <3>2, <3>3, <3>8, LineOfAt
    <3>10. f = p.files[k1]
      <4>1. Line.word = p.files[k1].path /\ Line.slash = p.files[k1].dir
        BY <3>9 DEF Got
      <4>2. p.files[k1] = [path |-> p.files[k1].path, dir |-> p.files[k1].dir]
        BY <3>2, <3>8, PackageFacts
      <4> QED
        BY <4>1, <4>2 DEF f
    <3> HIDE DEF fs
    <3>11. /\ Len(made'[r].files) = k1
           /\ made'[r].files[k1] = f
           /\ \A k \in 1..Len(fs) : made'[r].files[k] = fs[k]
      <4>1. /\ Len(Append(fs, f)) = Len(fs) + 1 /\ Append(fs, f)[Len(fs) + 1] = f
            /\ \A k \in 1..Len(fs) : Append(fs, f)[k] = fs[k]
        BY <3>5
      <4>2. made'[r].files = Append(fs, f)
        BY <1>5 DEF fs
      <4> QED
        BY <3>8, <4>1, <4>2
    <3>12. /\ (cnt + 1) - 2 = k1
           /\ \A k \in 1..k1 : k = k1 \/ k \in 1..Len(fs)
      BY <1>2, <3>5, <3>8
    <3>13. \A k \in 1..((cnt + 1) - 2) : made'[r].files[k] = p.files[k]
      <4>1. \A k \in 1..Len(fs) : fs[k] = p.files[k]
        BY <3>6
      <4> QED
        BY <3>10, <3>11, <3>12, <4>1
    <3>14. cnt + 1 # 1
      BY <1>2
    <3>15. made'[r].name = p.name /\ made'[r].version = p.version
      BY <1>5, <3>6
    <3>16. Partial(p, made'[r], cnt + 1)
      BY <3>11, <3>12, <3>13, <3>14, <3>15 DEF Partial
    <3> QED
      BY <3>16 DEF p
  <2> QED
    BY <1>1, <1>5, <1>7, <2>1, GoesOnInStep
<1> QED
  BY <1>6, <1>7

\* Out of step, the packages read before stay as they are.
LEMMA StaysOutOfStep ==
    ASSUME DbTypeOK, NEW b \in DOMAIN given, OutOfStep(b), RecordEnd \/ ReadName \/ ReadVersion \/ ReadFile
    PROVE  b \in DOMAIN given' /\ OutOfStep(b)'
<1>1. HasBrim(given[b]) /\ b - 1 <= Len(pkg_db) /\ Whole(b - 1) /\ b <= pkg
  BY DEF OutOfStep
<1>2. /\ b \in Nat /\ pkg \in 0..Len(made) /\ Len(made) \in Nat /\ made \in Seq(DbPackage(ReadWord))
      /\ pkg_db \in Seq(0..Len(made)) /\ Len(pkg_db) \in Nat
  BY DbTypes
<1>3. given' = given
  BY DEF RecordEnd, ReadName, ReadVersion, ReadFile, Reads
<1> PICK m \in Int : m = b - 1
  BY <1>2
<1>4. \A k \in 1..m : k \in 1..Len(pkg_db) /\ k \in 1..Len(made) /\ k # pkg
  BY <1>1, <1>2
<1>5. /\ m <= Len(pkg_db') /\ b <= pkg'
      /\ \A k \in 1..m : pkg_db'[k] = pkg_db[k] /\ made'[k] = made[k]
  <2>1. CASE RecordEnd
    <3>1. pkg_db' = Append(pkg_db, pkg) /\ pkg' = pkg /\ made' = made
      BY <2>1 DEF RecordEnd
    <3>2. Len(pkg_db') = Len(pkg_db) + 1 /\ \A k \in 1..Len(pkg_db) : pkg_db'[k] = pkg_db[k]
      BY <1>2, <3>1, AppendProperties
    <3> QED
      BY <1>1, <1>2, <1>4, <3>1, <3>2
  <2>2. CASE ReadName
    <3>1. pkg_db' = pkg_db
      BY <2>2 DEF ReadName
    <3> QED
      <4>1. pkg' = Len(made) + 1 /\ \A k \in 1..Len(made) : made'[k] = made[k]
        BY <2>2, ReadNameIs
      <4> QED
        BY <1>1, <1>2, <1>4, <3>1, <4>1
  <2>3. CASE ReadVersion
    <3>1. pkg_db' = pkg_db /\ pkg' = pkg
      BY <2>3 DEF ReadVersion
    <3>2. \A k \in 1..Len(made) : k # pkg => made'[k] = made[k]
      BY <2>3, ReadVersionIs
    <3> QED
      BY <1>1, <1>2, <1>4, <3>1, <3>2
  <2>4. CASE ReadFile
    <3>1. pkg_db' = pkg_db /\ pkg' = pkg
      BY <2>4 DEF ReadFile
    <3>2. \A k \in 1..Len(made) : k # pkg => made'[k] = made[k]
      BY <2>4, ReadFileIs
    <3> QED
      BY <1>1, <1>2, <1>4, <3>1, <3>2
  <2> QED
    BY <2>1, <2>2, <2>3, <2>4
<1>6. Whole(m)'
  <2>1. Whole(m)
    BY <1>1
  <2> QED
    BY <1>3, <1>5, <2>1, WholeKept
<1> QED
  BY <1>1, <1>3, <1>5, <1>6 DEF OutOfStep

\* A line is read: the reader stays in step, goes on to the next record, or
\* falls out of step.
LEMMA ReadKeepsLayout ==
    ASSUME DbTypeOK, Layout, RecordEnd \/ ReadName \/ ReadVersion \/ ReadFile
    PROVE  Layout'
<1>1. PICK start : Laid(start) /\ Follows(start)
  BY DEF Layout
<1>2. dpc = "read" /\ dpc' = "read" /\ UNCHANGED <<given, text, flushed>>
  BY DEF RecordEnd, ReadName, ReadVersion, ReadFile, Reads
<1>3. Laid(start)'
  BY <1>1, <1>2, LaidKept
<1>4. Unread' /\ Ended'
  BY <1>2 DEF Unread, Ended
<1>5. Follows(start)'
  <2>1. CASE \E r \in 1..(flushed + 1) : InStep(start, r)
    <3>1. PICK r \in 1..(flushed + 1) : InStep(start, r)
      BY <2>1
    <3>2. CASE RecordEnd
      BY <1>1, <1>2, <3>1, <3>2, RecordEndInStep DEF Follows
    <3>3. CASE ReadName \/ ReadVersion \/ ReadFile
      <4>1. InStep(start, r)' \/ (r \in DOMAIN given' /\ OutOfStep(r)')
        BY <1>1, <3>1, <3>3, ReadNameInStep, ReadVersionInStep, ReadFileInStep
      <4> QED
        BY <1>2, <4>1 DEF Follows
    <3> QED
      BY <3>2, <3>3
  <2>2. CASE \E b \in DOMAIN given : OutOfStep(b)
    <3>1. PICK b \in DOMAIN given : OutOfStep(b)
      BY <2>2
    <3>2. b \in DOMAIN given' /\ OutOfStep(b)'
      BY <3>1, StaysOutOfStep
    <3> QED
      BY <3>2 DEF Follows
  <2> QED
    BY <1>1, <1>2, <2>1, <2>2 DEF Follows
<1> QED
  BY <1>3, <1>4, <1>5 DEF Layout

LEMMA FollowsKept ==
    ASSUME NEW start, Follows(start), dpc = "read" \/ dpc' = dpc,
           UNCHANGED <<given, text, flushed, pos, newline, cnt, made, pkg, pkg_db>>
    PROVE  Follows(start)'
<1>1. \A r : InStep(start, r)' <=> InStep(start, r)
  BY DEF InStep, Whole
<1>2. \A b : OutOfStep(b)' <=> OutOfStep(b)
  BY DEF OutOfStep, Whole
<1>3. dpc' \in {"read", "done"} => dpc \in {"read", "done"}
  OBVIOUS
<1> QED
  BY <1>1, <1>2, <1>3 DEF Follows

LEMMA LayoutNext ==
    ASSUME DbTypeOK, Layout, [DbfNext]_dbfVars
    PROVE  Layout'
<1>1. CASE ReadEnd
  <2>1. PICK start : Laid(start) /\ Follows(start)
    BY DEF Layout
  <2>2. /\ dpc = "read" /\ dpc' = "done" /\ pos = Len(text) /\ newline \in BOOLEAN /\ ~newline
        /\ UNCHANGED <<given, text, flushed, pos, newline, cnt, made, pkg, pkg_db>>
    BY <1>1, DbTypes DEF ReadEnd
  <2>3. Laid(start)' /\ Follows(start)'
    BY <2>1, <2>2, LaidKept, FollowsKept
  <2>4. Unread' /\ Ended'
    BY <2>2 DEF Unread, Ended
  <2> QED
    BY <2>3, <2>4 DEF Layout
<1>2. CASE UNCHANGED dbfVars
  <2>1. PICK start : Laid(start) /\ Follows(start)
    BY DEF Layout
  <2>2. UNCHANGED <<given, text, flushed, pos, newline, cnt, made, pkg, pkg_db>> /\ dpc' = dpc
    BY <1>2 DEF dbfVars
  <2>3. Laid(start)'
    BY <2>1, <2>2 DEF Laid
  <2>4. Follows(start)'
    BY <2>1, <2>2, FollowsKept
  <2>5. Unread' /\ Ended'
    BY <2>2 DEF Layout, Unread, Ended
  <2> QED
    BY <2>3, <2>4, <2>5 DEF Layout
<1> QED
  BY <1>1, <1>2, SortKeepsLayout, WriteKeepsLayout, WrittenKeepsLayout, FailureKeepsLayout,
     ReadKeepsLayout DEF DbfNext

-----------------------------------------------------------------------------
DbFileInv == DbTypeOK /\ NamesOnce /\ InOrder /\ Layout

LEMMA ReadAtTheEnd ==
    ASSUME DbFileInv
    PROVE  ReadsWholePackages
<1> SUFFICES ASSUME dpc = "done" PROVE ReadsWholePackages
  BY DEF ReadsWholePackages
<1>1. PICK start : Laid(start) /\ Follows(start)
  BY DEF DbFileInv, Layout
<1>2. pos = Len(text) /\ newline = FALSE
  BY DEF DbFileInv, Layout, Ended
<1>3. /\ DbTypeOK /\ flushed \in 0..Len(given) /\ Len(given) \in Nat /\ DOMAIN given = 1..Len(given)
      /\ cnt \in Nat /\ Len(text) \in Nat /\ Len(pkg_db) \in Nat
  BY DbTypes DEF DbFileInv
<1>4. \A k, m \in DOMAIN given : k < m => Rank(given[k]) < Rank(given[m])
  BY OrderIsStrict DEF DbFileInv
<1>5. CASE \E r \in 1..(flushed + 1) : InStep(start, r)
  <2>1. PICK r \in 1..(flushed + 1) : InStep(start, r)
    BY <1>5
  <2>2. /\ r = Len(pkg_db) + 1 /\ pos = start[r] + cnt /\ Whole(r - 1)
        /\ r <= flushed /\ cnt > 0 => cnt < Lines(given[r])
    BY <2>1 DEF InStep
  <2>3. r = flushed + 1
    <3>1. SUFFICES ASSUME r # flushed + 1 PROVE FALSE
      OBVIOUS
    <3>2. r \in 1..flushed
      BY <1>3, <3>1
    <3>3. given[r] \in Packages /\ Lines(given[r]) \in Nat /\ start[r] \in Nat
          /\ start[r + 1] = start[r] + Lines(given[r]) /\ start[r + 1] <= Len(text)
      BY <1>1, <1>3, <3>2, LaidRecord
    <3>4. Lines(given[r]) >= 3
      BY <3>3, PackageFacts
    <3>5. cnt < Lines(given[r])
      BY <1>3, <2>2, <3>2, <3>3, <3>4
    <3> QED
      BY <1>2, <1>3, <2>2, <3>3, <3>5
  <2>4. Len(pkg_db) = flushed /\ r - 1 = flushed
    BY <1>3, <2>2, <2>3
  <2>5. \A k \in 1..flushed : pkg_db[k] = k /\ made[k] = given[k]
    BY <2>2, <2>4 DEF Whole
  <2>6. \A k \in 1..flushed : Len(pkg_db) >= k
    BY <1>3, <2>4
  <2> QED
    BY <1>4, <2>4, <2>5, <2>6 DEF ReadsWholePackages
<1>6. CASE \E b \in DOMAIN given : OutOfStep(b)
  <2>1. PICK b \in DOMAIN given : OutOfStep(b)
    BY <1>6
  <2>2. HasBrim(given[b]) /\ b - 1 <= Len(pkg_db) /\ Whole(b - 1)
    BY <2>1 DEF OutOfStep
  <2>3. b \in Nat /\ b >= 1 /\ b <= Len(given)
    BY <1>3
  <2>4. ~NoBrim(Len(given))
    BY <1>3, <2>2, <2>3 DEF NoBrim
  <2>5. ASSUME NEW k \in 1..flushed, NoBrim(k)
        PROVE  Len(pkg_db) >= k /\ pkg_db[k] = k /\ made[k] = given[k]
    <3>1. ~(b \in 1..k)
      BY <2>2, <2>5 DEF NoBrim
    <3>2. k \in 1..(b - 1)
      BY <1>3, <2>3, <3>1
    <3> QED
      BY <1>3, <2>2, <2>3, <3>2 DEF Whole
  <2> QED
    BY <1>4, <2>4, <2>5 DEF ReadsWholePackages
<1> QED
  BY <1>1, <1>5, <1>6 DEF Follows

LEMMA DbFileInvInit ==
    ASSUME DbfInit
    PROVE  DbFileInv
BY DbTypeInit, OrderInit, LayoutInit DEF DbFileInv

LEMMA DbFileInvNext ==
    ASSUME DbFileInv, [DbfNext]_dbfVars
    PROVE  DbFileInv'
BY DbTypeNext, OrderNext, LayoutNext DEF DbFileInv

\* Every line of the file, and every package made of them, is what a line and
\* a package may be; the package in work is the last one made.
THEOREM DbFileTypes == DbfSpec => []DbTypeOK
<1>1. DbTypeOK /\ [DbfNext]_dbfVars => DbTypeOK'
  BY DbTypeNext
<1> QED
  BY <1>1, DbTypeInit, PTL DEF DbfSpec

\* pkg_read_db makes of the text pkg_commit_db wrote, cut anywhere, the packages
\* whose records are complete, in the order of their names, and nothing of the
\* others, unless the line of a directory fills its buffer.
THEOREM WholePackagesRead == DbfSpec => []ReadsWholePackages
<1>1. DbFileInv /\ [DbfNext]_dbfVars => DbFileInv'
  BY DbFileInvNext
<1>2. DbFileInv => ReadsWholePackages
  BY ReadAtTheEnd
<1> QED
  BY <1>1, <1>2, DbFileInvInit, PTL DEF DbfSpec
=============================================================================
