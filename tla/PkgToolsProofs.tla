--------------------------- MODULE PkgToolsProofs ---------------------------
(***************************************************************************)
(* pkgadd and pkgrm, for any packages, configuration and file system: the  *)
(* safety properties of PkgToolsProps, and that the database file          *)
(* implements PkgRegistry. The invariant (IInv, at the end) is a conjunct  *)
(* for each section: types, names, what became of files, the tree,         *)
(* descriptions, the copy of the database, the new package's list.         *)
(***************************************************************************)
EXTENDS PkgToolsProps, SequenceTheorems, FiniteSetTheorems, WellFoundedInduction, TLAPS

-----------------------------------------------------------------------------
(* Package descriptions.                                                   *)

LEMMA EntryType ==
    ASSUME NEW a \in Archive, NEW i \in DOMAIN Entries[a]
    PROVE  /\ Entries[a][i] \in Entry /\ i \in Nat \ {0}
           /\ Entries[a][i].path \in Path /\ Entries[a][i].kind \in {"dir", "file"}
           /\ Entries[a][i].attr \in Attr
<1>1. Entries[a] \in Seq(Entry)
    BY ArchiveAssumption
<1>2. Entries[a][i] \in Entry /\ i \in Nat \ {0}
    BY <1>1
<1> QED
    BY <1>2 DEF Entry

LEMMA FlaggedFacts ==
    ASSUME NEW d \in PkgDesc, NEW c, \A p \in DOMAIN c : c[p] \in Conflict
    PROVE  /\ Flagged(d, c) \in PkgDesc /\ Flagged(d, c).name = d.name
           /\ Flagged(d, c).version = d.version
           /\ PathsOf(Flagged(d, c)) = PathsOf(d)
<1> DEFINE Set(f) == [f EXCEPT !.conflict = IF f.path \in DOMAIN c THEN c[f.path] ELSE @]
<1>1. \A f \in d.files : Set(f) \in FileDesc /\ Set(f).path = f.path
    <2> SUFFICES ASSUME NEW f \in d.files PROVE Set(f) \in FileDesc /\ Set(f).path = f.path
        OBVIOUS
    <2>1. f \in FileDesc
        BY DEF PkgDesc
    <2> QED
        BY <2>1 DEF FileDesc
<1>2. Flagged(d, c) = [d EXCEPT !.files = {Set(f) : f \in d.files}]
    BY DEF Flagged
<1> HIDE DEF Set
<1>3. {Set(f) : f \in d.files} \subseteq FileDesc
    BY <1>1
<1>4. Flagged(d, c) \in PkgDesc /\ Flagged(d, c).name = d.name /\ Flagged(d, c).version = d.version
      /\ Flagged(d, c).files = {Set(f) : f \in d.files}
    BY <1>2, <1>3 DEF PkgDesc
<1>5. PathsOf(Flagged(d, c)) = PathsOf(d)
    BY <1>1, <1>4 DEF PathsOf
<1> QED
    BY <1>4, <1>5

LEMMA UnflaggedFacts ==
    ASSUME NEW d \in PkgDesc
    PROVE  /\ Unflagged(d) \in PkgDesc /\ Unflagged(d).name = d.name
           /\ Unflagged(d).version = d.version
           /\ PathsOf(Unflagged(d)) = PathsOf(d)
           /\ \A f \in Unflagged(d).files : f.conflict = "NONE"
<1>1. \A p \in PathsOf(d) : [q \in PathsOf(d) |-> "NONE"][p] \in Conflict
    BY DEF Conflict
<1>2. \A f \in d.files : f \in FileDesc /\ f.path \in PathsOf(d)
    BY DEF PkgDesc, PathsOf
<1>3. \A f \in Unflagged(d).files : f.conflict = "NONE"
    BY <1>2 DEF Unflagged, Flagged, PkgDesc, FileDesc
<1> QED
    BY <1>1, <1>3, FlaggedFacts DEF Unflagged

LEMMA NewPkgFacts ==
    ASSUME NEW db, NEW a \in Archive
    PROVE  /\ NewPkg(db, a) \in PkgDesc /\ NewPkg(db, a).name = NameOf[a]
           /\ NewPkg(db, a).version = a /\ PathsOf(NewPkg(db, a)) = ArchPaths(a)
<1> DEFINE dbFlag(f) == IF f.path \in OldPaths(db, a) THEN "SELF"
                        ELSE IF f.path \in Clash(db, a) THEN "DB" ELSE "NONE"
           new(f) == AdjustWithFs([f EXCEPT !.conflict = dbFlag(f)], Entries[a][f.pos].attr)
<1>1. \A f \in FileDesc, x \in Attr : AdjustWithFs(f, x) \in FileDesc /\ AdjustWithFs(f, x).path = f.path
    BY DEF AdjustWithFs, FileDesc, Conflict
<1>2. \A f \in ListFiles(a) : f \in FileDesc /\ f.pos \in DOMAIN Entries[a]
    <2> SUFFICES ASSUME NEW i \in DOMAIN Entries[a]
                 PROVE  LET f == [pos |-> i, path |-> Entries[a][i].path,
                                  kind |-> Entries[a][i].kind, conflict |-> "NONE"]
                        IN  f \in FileDesc /\ f.pos \in DOMAIN Entries[a]
        BY DEF ListFiles
    <2> QED
        BY EntryType DEF FileDesc, Conflict
<1>3. \A f \in FileDesc : [f EXCEPT !.conflict = dbFlag(f)] \in FileDesc
                          /\ [f EXCEPT !.conflict = dbFlag(f)].path = f.path
    BY DEF FileDesc, Conflict
<1>4. \A f \in ListFiles(a) : new(f) \in FileDesc /\ new(f).path = f.path
    <2> SUFFICES ASSUME NEW f \in ListFiles(a) PROVE new(f) \in FileDesc /\ new(f).path = f.path
        OBVIOUS
    <2> DEFINE g == [f EXCEPT !.conflict = dbFlag(f)]
    <2>1. f \in FileDesc /\ Entries[a][f.pos].attr \in Attr
        BY <1>2, EntryType
    <2>2. g \in FileDesc /\ g.path = f.path
        BY <2>1, <1>3
    <2> HIDE DEF g
    <2>3. AdjustWithFs(g, Entries[a][f.pos].attr) \in FileDesc
          /\ AdjustWithFs(g, Entries[a][f.pos].attr).path = g.path
        BY <2>1, <2>2, <1>1
    <2> QED
        BY <2>2, <2>3 DEF g
<1>5. NewPkg(db, a) = [name |-> NameOf[a], version |-> a, files |-> {new(f) : f \in ListFiles(a)}]
    BY DEF NewPkg
<1>6. {f.path : f \in ListFiles(a)} = ArchPaths(a)
    <2> DEFINE D(i) == [pos |-> i, path |-> Entries[a][i].path, kind |-> Entries[a][i].kind,
                        conflict |-> "NONE"]
    <2>1. ListFiles(a) = {D(i) : i \in DOMAIN Entries[a]}
        BY DEF ListFiles
    <2>2. \A i \in DOMAIN Entries[a] : D(i).path = Entries[a][i].path
        OBVIOUS
    <2> HIDE DEF D
    <2> QED
        BY <2>1, <2>2 DEF ArchPaths
<1> HIDE DEF new
<1>7. {new(f) : f \in ListFiles(a)} \subseteq FileDesc
    BY <1>4
<1>8. NewPkg(db, a) \in PkgDesc
    BY <1>5, <1>7, ArchiveAssumption DEF PkgDesc
<1>9. {g.path : g \in {new(f) : f \in ListFiles(a)}} = {f.path : f \in ListFiles(a)}
    BY <1>4
<1>10. PathsOf(NewPkg(db, a)) = ArchPaths(a)
    BY <1>5, <1>6, <1>9 DEF PathsOf
<1> QED
    BY <1>5, <1>8, <1>10

-----------------------------------------------------------------------------
(* Databases.                                                              *)

NoFlags(db) == \A d \in db : \A f \in d.files : f.conflict = "NONE"
Unique(db) == \A d, e \in db : d.name = e.name => d = e
FilesOf(db, n) == UNION {d.files : d \in Named(db, n)}

LEMMA RegisteredBy == ASSUME NEW db, NEW p
                      PROVE  p \in Registered(db) <=> \E d \in db : \E f \in d.files : f.path = p
BY DEF Registered, PathsOf

LEMMA WrittenFacts ==
    ASSUME NEW db \in SUBSET PkgDesc
    PROVE  /\ Written(db) \subseteq PkgDesc /\ NoFlags(Written(db))
           /\ Registered(Written(db)) = Registered(db)
           /\ Unique(db) => Unique(Written(db))
<1>1. \A d \in db : d \in PkgDesc
    OBVIOUS
<1>2. Registered(Written(db)) = Registered(db)
    BY <1>1, UnflaggedFacts DEF Written, Registered
<1> QED
    BY <1>1, <1>2, UnflaggedFacts DEF Written, NoFlags, Unique

LEMMA CleanupFacts ==
    ASSUME NEW db \in SUBSET PkgDesc
    PROVE  /\ CleanupDb(db) \subseteq PkgDesc /\ NoFlags(CleanupDb(db))
           /\ \A p : p \in Registered(CleanupDb(db)) <=>
                      \E d \in db : \E f \in d.files : f.path = p /\ f.conflict = "NONE"
           /\ \A e \in CleanupDb(db) : \E d \in db : e.name = d.name
           /\ Unique(db) => Unique(CleanupDb(db))
<1> DEFINE Clean(d) == [d EXCEPT !.files = {f \in @ : f.conflict = "NONE"}]
<1>1. \A d \in db : Clean(d) \in PkgDesc /\ Clean(d).name = d.name
                     /\ Clean(d).files = {f \in d.files : f.conflict = "NONE"}
    BY DEF PkgDesc
<1>2. CleanupDb(db) = {Clean(d) : d \in db}
    BY DEF CleanupDb
<1> HIDE DEF Clean
<1>3. \A p : p \in Registered(CleanupDb(db)) <=>
             \E d \in db : \E f \in d.files : f.path = p /\ f.conflict = "NONE"
    <2> TAKE p
    <2>1. p \in Registered(CleanupDb(db)) <=> \E d \in db : \E f \in Clean(d).files : f.path = p
        BY <1>2, RegisteredBy
    <2> QED
        BY <2>1, <1>1
<1>4. NoFlags(CleanupDb(db)) /\ CleanupDb(db) \subseteq PkgDesc
    BY <1>1, <1>2 DEF NoFlags
<1> QED
    BY <1>1, <1>2, <1>3, <1>4 DEF Unique

LEMMA DropFacts ==
    ASSUME NEW db \in SUBSET PkgDesc, NEW n, NEW f
    PROVE  /\ DropFile(db, n, f) \subseteq PkgDesc
           /\ Others(DropFile(db, n, f), n) = Others(db, n)
           /\ FilesOf(DropFile(db, n, f), n) = FilesOf(db, n) \ {f}
           /\ Unique(db) => Unique(DropFile(db, n, f))
<1> DEFINE Drop(d) == [d EXCEPT !.files = @ \ {f}]
<1>1. \A d \in db : Drop(d) \in PkgDesc /\ Drop(d).name = d.name /\ Drop(d).files = d.files \ {f}
    BY DEF PkgDesc
<1>2. DropFile(db, n, f) = Others(db, n) \cup {Drop(d) : d \in Named(db, n)}
    BY DEF DropFile
<1> HIDE DEF Drop
<1>3. Named(DropFile(db, n, f), n) = {Drop(d) : d \in Named(db, n)}
    BY <1>1, <1>2 DEF Named, Others
<1>4. FilesOf(DropFile(db, n, f), n) = FilesOf(db, n) \ {f}
    BY <1>1, <1>3 DEF FilesOf, Named
<1>5. Others(DropFile(db, n, f), n) = Others(db, n)
    BY <1>1, <1>2 DEF Others, Named
<1>6. DropFile(db, n, f) \subseteq PkgDesc
    BY <1>1, <1>2 DEF Others, Named
<1>7. Unique(db) => Unique(DropFile(db, n, f))
    BY <1>1, <1>2 DEF Unique, Others, Named
<1> QED
    BY <1>4, <1>5, <1>6, <1>7

LEMMA DeleteRefsFacts ==
    ASSUME NEW db \in SUBSET PkgDesc, NEW n
    PROVE  /\ DeleteRefs(db, n) \subseteq PkgDesc
           /\ Others(DeleteRefs(db, n), n) = Others(db, n)
           /\ \A p \in Registered(db) :
                 p \in Registered(Others(db, n)) \/ \E f \in FilesOf(DeleteRefs(db, n), n) : f.path = p
           /\ NoFlags(db) => NoFlags(DeleteRefs(db, n))
           /\ Unique(db) => Unique(DeleteRefs(db, n))
<1> DEFINE Keep(d) == [d EXCEPT !.files = {f \in @ : f.path \notin Registered(Others(db, n))}]
<1>1. \A d \in db : /\ Keep(d) \in PkgDesc /\ Keep(d).name = d.name
                     /\ Keep(d).files = {f \in d.files : f.path \notin Registered(Others(db, n))}
    BY DEF PkgDesc
<1>2. DeleteRefs(db, n) = Others(db, n) \cup {Keep(d) : d \in Named(db, n)}
    BY DEF DeleteRefs
<1> HIDE DEF Keep
<1>3. Named(DeleteRefs(db, n), n) = {Keep(d) : d \in Named(db, n)}
    BY <1>1, <1>2 DEF Named, Others
<1>4. ASSUME NEW p \in Registered(db), p \notin Registered(Others(db, n))
      PROVE  \E f \in FilesOf(DeleteRefs(db, n), n) : f.path = p
    <2>0. PICK d \in db : \E f \in d.files : f.path = p
        BY RegisteredBy
    <2>1. PICK f \in d.files : f.path = p
        BY <2>0
    <2>2. d \in Named(db, n)
        BY <1>4, <2>1, RegisteredBy DEF Named, Others
    <2>3. f \in Keep(d).files
        BY <1>1, <1>4, <2>1
    <2> QED
        BY <1>3, <2>1, <2>2, <2>3 DEF FilesOf
<1>5. Others(DeleteRefs(db, n), n) = Others(db, n)
    BY <1>1, <1>2 DEF Others, Named
<1>6. DeleteRefs(db, n) \subseteq PkgDesc
    BY <1>1, <1>2 DEF Others, Named
<1>7. NoFlags(db) => NoFlags(DeleteRefs(db, n))
    BY <1>1, <1>2 DEF NoFlags, Others, Named
<1>8. Unique(db) => Unique(DeleteRefs(db, n))
    BY <1>1, <1>2 DEF Unique, Others, Named
<1> QED
    BY <1>4, <1>5, <1>6, <1>7, <1>8

\* adjust_with_db: which entries are flagged, and that every path stays covered.
LEMMA FlaggedDbFacts ==
    ASSUME NEW db \in SUBSET PkgDesc, NEW a \in Archive, NEW hit
    PROVE  LET new == FlaggedDb(db, a, hit)  n == NameOf[a] IN
           /\ new \subseteq PkgDesc
           /\ Unique(db) => Unique(new)
           /\ \A p \in Registered(Named(db, n)) : \E f \in FilesOf(new, n) : f.path = p
           /\ NoFlags(db) =>
                 /\ \A p \in Registered(Others(db, n)) :
                       p \in ArchPaths(a) \/ p \in Registered(CleanupDb(Others(new, n)))
                 /\ \A f \in FilesOf(new, n) : f.conflict = "NONE" \/ f.path \in ArchPaths(a)
                                                \/ f.path \in Registered(Others(db, n))
<1> DEFINE n == NameOf[a]
           new == FlaggedDb(db, a, hit)
           refs == Registered(Others(db, n))
           old == [p \in refs \cup ArchPaths(a) |-> IF p \in refs THEN "REF" ELSE "SELF"]
           other(d) == [p \in {q \in Clash(db, a) : hit[q] = d.name} |-> "DB"]
<1>1. new = {Flagged(d, old) : d \in Named(db, n)} \cup {Flagged(d, other(d)) : d \in Others(db, n)}
    BY DEF FlaggedDb
<1>2. \A p \in DOMAIN old : old[p] \in Conflict
    BY DEF Conflict
<1>3. \A d : \A p \in DOMAIN other(d) : other(d)[p] \in Conflict
    BY DEF Conflict
<1>4. \A d : DOMAIN other(d) \subseteq ArchPaths(a)
    BY DEF Clash, ArchPaths
<1>5. DOMAIN old = refs \cup ArchPaths(a)
    OBVIOUS
<1> HIDE DEF old, other
<1>6. \A d \in db : Flagged(d, old) \in PkgDesc /\ Flagged(d, old).name = d.name
                     /\ PathsOf(Flagged(d, old)) = PathsOf(d)
    BY <1>2, FlaggedFacts
<1>7. \A d \in db : Flagged(d, other(d)) \in PkgDesc /\ Flagged(d, other(d)).name = d.name
    BY <1>3, FlaggedFacts
<1>8. \A d \in db : \A f \in d.files : f \in FileDesc /\ (NoFlags(db) => f.conflict = "NONE")
    BY DEF PkgDesc, NoFlags
<1>9. NoFlags(db) => \A d \in db : \A f \in Flagged(d, old).files :
          f.conflict = "NONE" \/ f.path \in DOMAIN old
    BY <1>8 DEF Flagged, PkgDesc, FileDesc
<1>10. \A d \in db : \A f \in d.files :
          f.path \in DOMAIN other(d) \/ f \in Flagged(d, other(d)).files
    <2> SUFFICES ASSUME NEW d \in db, NEW f \in d.files, f.path \notin DOMAIN other(d)
                 PROVE  f \in Flagged(d, other(d)).files
        OBVIOUS
    <2>1. [f EXCEPT !.conflict = IF f.path \in DOMAIN other(d) THEN other(d)[f.path] ELSE @] = f
        BY <1>8 DEF FileDesc
    <2> QED
        BY <2>1 DEF Flagged, PkgDesc
<1>11. Named(new, n) = {Flagged(d, old) : d \in Named(db, n)}
    BY <1>1, <1>6, <1>7 DEF Named, Others
<1>12. Others(new, n) = {Flagged(d, other(d)) : d \in Others(db, n)}
    BY <1>1, <1>6, <1>7 DEF Named, Others
<1> HIDE DEF new
<1>13. new \subseteq PkgDesc
    BY <1>1, <1>6, <1>7 DEF new, Named, Others
<1>14. Unique(db) => Unique(new)
    BY <1>1, <1>6, <1>7 DEF new, Unique, Named, Others
<1>15. ASSUME NEW p \in Registered(Named(db, n)) PROVE \E f \in FilesOf(new, n) : f.path = p
    <2>1. PICK d \in Named(db, n) : p \in PathsOf(d)
        BY DEF Registered
    <2>2. d \in db /\ p \in PathsOf(Flagged(d, old))
        BY <1>6, <2>1 DEF Named
    <2> QED
        BY <1>11, <2>1, <2>2 DEF FilesOf, PathsOf
<1>16. ASSUME NoFlags(db), NEW p \in refs, p \notin ArchPaths(a)
       PROVE  p \in Registered(CleanupDb(Others(new, n)))
    <2>0. PICK d \in Others(db, n) : \E f \in d.files : f.path = p
        BY <1>16, RegisteredBy
    <2>1. PICK f \in d.files : f.path = p
        BY <2>0
    <2>2. d \in db /\ f \in Flagged(d, other(d)).files /\ f.conflict = "NONE"
        BY <1>4, <1>8, <1>10, <1>16, <2>1 DEF Others
    <2>3. Others(new, n) \in SUBSET PkgDesc
        BY <1>13 DEF Others
    <2>4. Flagged(d, other(d)) \in Others(new, n)
        BY <1>12, <2>1
    <2> QED
        BY <2>1, <2>2, <2>3, <2>4, CleanupFacts
<1>17. NoFlags(db) => \A f \in FilesOf(new, n) : f.conflict = "NONE" \/ f.path \in ArchPaths(a) \/ f.path \in refs
    BY <1>5, <1>9, <1>11 DEF FilesOf, Named
<1> QED
    BY <1>13, <1>14, <1>15, <1>16, <1>17 DEF new

-----------------------------------------------------------------------------
(* The inductive invariants.                                               *)

\* What the place of the process says about its command line and package.
Located ==
    /\ tool = "pkgadd" => args \in Seq(Archive \cup {BadFile})
    /\ tool = "pkgrm" => args \in Seq(Name)
    /\ pc \in {"del", "extract", "return"} => tool = "pkgadd" /\ args # <<>>
    /\ pc \in {"del", "extract"} => Cur \in Archive
    /\ pc = "del" => pkg \in PkgDesc /\ pkg.name = NameOf[Cur] /\ PathsOf(pkg) = ArchPaths(Cur)
    /\ pc = "extract" => next # 0
    /\ pc = "rm" => tool = "pkgrm" /\ args # <<>>

Typed == TypeOK /\ Located

\* The copy of the database in memory says what the file says.
Synced == NoFlags(pkg_db) /\ Registered(pkg_db) = Registered(disk)

\* What the database file will list once del_old_pkg is through.
Kept == Registered(CleanupDb(Others(pkg_db, pkg.name))) \cup PathsOf(pkg)

\* Where the paths of the files from packages are, at each place.
AtNext == pc = "next" \/ (pc = "return" /\ ~Blocking(ret)) => Synced
AtDel ==
    pc = "del" =>
        /\ \A p \in Path : Ours(p) => p \in Kept \cup leftover \/ \E f \in OldFiles : f.path = p
        /\ \A f \in OldFiles : f.conflict = "NONE" \/ f.path \in Kept
AtExtract ==
    pc = "extract" =>
        /\ ArchPaths(Cur) \subseteq Registered(disk)
        /\ Registered(pkg_db) = Registered(disk)
        /\ NoFlags(Others(pkg_db, NameOf[Cur]))
AtRemove ==
    pc = "rm" =>
        /\ NoFlags(pkg_db)
        /\ \A p \in Path : Ours(p) => p \in Registered(Others(pkg_db, Cur)) \cup leftover
                                      \/ \E f \in RmFiles : f.path = p

Tracked ==
    /\ NothingForgotten /\ NoFlags(disk)
    /\ AtNext /\ AtDel /\ AtExtract /\ AtRemove

-----------------------------------------------------------------------------
(* The file system.                                                        *)

FileSystem == [Path -> Node \cup {Absent}]

LEMMA WithoutFacts ==
    ASSUME fs \in FileSystem, NEW p
    PROVE  /\ Without(p) \in FileSystem
           /\ \A q \in Path : Without(p)[q] = IF q = p \/ p \in Anc[q] THEN Absent ELSE fs[q]
BY DEF Without, FileSystem

LEMMA ExtractedFacts ==
    ASSUME fs \in FileSystem, NEW a \in Archive, NEW i \in DOMAIN Entries[a]
    PROVE  LET x == Extracted(Entries[a][i], a) IN
           /\ x \in FileSystem
           /\ \A q \in Path : \/ x[q] = Absent \/ q \in ArchPaths(a)
                              \/ Exists(q) /\ x[q].src = fs[q].src
<1> DEFINE e == Entries[a][i]
           new(k) == [kind |-> k, attr |-> e.attr, src |-> a]
           base == [q \in Path |-> IF q \in Anc[e.path] /\ ~Exists(q) THEN new("dir") ELSE fs[q]]
           x == Extracted(e, a)
<1>1. e \in Entry /\ e.path \in Path /\ e.kind \in {"dir", "file"} /\ e.attr \in Attr
    BY EntryType
<1>2. \A q \in Anc[e.path] : q \in ArchPaths(a)
    <2> SUFFICES ASSUME NEW q \in Anc[e.path] PROVE q \in ArchPaths(a)
        OBVIOUS
    <2>1. PICK j \in 1..(i - 1) : Entries[a][j].path = q
        BY ArchiveAssumption
    <2>2. Entries[a] \in Seq(Entry) /\ i \in 1..Len(Entries[a])
        BY ArchiveAssumption
    <2>3. j \in DOMAIN Entries[a]
        BY <2>1, <2>2
    <2> QED
        BY <2>1, <2>3 DEF ArchPaths
<1>3. e.path \in ArchPaths(a)
    BY DEF ArchPaths
<1>4. \A k \in {"dir", "file"} : new(k) \in Node
    BY <1>1 DEF Node, Source
<1>5. base \in FileSystem
    BY <1>4 DEF FileSystem
<1>6. \A q \in Path : q \in ArchPaths(a) \/ base[q] = fs[q]
    BY <1>2
<1>7. x = IF e.kind = "dir" /\ Exists(e.path) /\ fs[e.path].kind \in {"dir", "dirlink"}
          THEN [base EXCEPT ![e.path] = IF @.kind = "dir" THEN [@ EXCEPT !.attr = e.attr] ELSE @]
          ELSE [q \in Path |-> IF q = e.path THEN new(e.kind)
                               ELSE IF e.path \in Anc[q] THEN Absent ELSE base[q]]
    BY DEF Extracted
<1> HIDE DEF base, new, x
<1>8. CASE e.kind = "dir" /\ Exists(e.path) /\ fs[e.path].kind \in {"dir", "dirlink"}
    <2>1. base[e.path] \in Node \cup {Absent}
        BY <1>1, <1>5 DEF FileSystem
    <2> DEFINE n == IF base[e.path].kind = "dir" THEN [base[e.path] EXCEPT !.attr = e.attr]
                    ELSE base[e.path]
    <2>2. n \in Node \cup {Absent}
        BY <1>1, <2>1 DEF Node, Absent
    <2>3. x = [base EXCEPT ![e.path] = n]
        BY <1>7, <1>8
    <2> HIDE DEF n
    <2>4. x \in FileSystem /\ \A q \in Path : q = e.path \/ x[q] = base[q]
        BY <1>5, <2>2, <2>3 DEF FileSystem
    <2> QED
        BY <1>3, <1>6, <2>4 DEF x, Exists
<1>9. CASE ~(e.kind = "dir" /\ Exists(e.path) /\ fs[e.path].kind \in {"dir", "dirlink"})
    <2>1. x = [q \in Path |-> IF q = e.path THEN new(e.kind)
                              ELSE IF e.path \in Anc[q] THEN Absent ELSE base[q]]
        BY <1>7, <1>9
    <2>2. x \in FileSystem
        BY <1>1, <1>4, <1>5, <2>1 DEF FileSystem
    <2> QED
        BY <1>3, <1>6, <2>1, <2>2 DEF x, Exists
<1> QED
    BY <1>8, <1>9

-----------------------------------------------------------------------------
(* Type correctness.                                                       *)

LEMMA ArgListFacts == ASSUME NEW S, NEW as \in ArgLists(S) PROVE as \in Seq(S)
<1>1. PICK k \in 1..MaxArgs : as \in [1..k -> S]
    BY DEF ArgLists
<1>2. k \in Nat
    BY ConfigAssumption
<1> QED
    BY <1>1, <1>2, SeqDef

LEMMA TailFacts ==
    /\ \A S, as : as \in Seq(S) /\ as # <<>> => Tail(as) \in Seq(S) /\ Head(as) \in S
BY HeadTailProperties

LEMMA RemovePathTyped ==
    ASSUME TypeOK, NEW p \in Path, RemovePath(p)
    PROVE  fs' \in FileSystem /\ leftover' \subseteq Path
<1>1. fs \in FileSystem /\ leftover \subseteq Path
    BY DEF TypeOK, FileSystem
<1> QED
    BY <1>1, WithoutFacts DEF RemovePath

LEMMA ExitTyped == ASSUME Typed, Exit PROVE Typed'
BY DEF Typed, TypeOK, Located, Exit, external

LEMMA NextArgTyped ==
    ASSUME Typed, args # <<>>, NextArg, pkg_db' = pkg_db
    PROVE  Typed'
<1>1. args' \in Seq(Archive \cup {BadFile}) \cup Seq(Name)
      /\ (tool = "pkgadd" => args' \in Seq(Archive \cup {BadFile}))
      /\ (tool = "pkgrm" => args' \in Seq(Name))
    BY TailFacts DEF Typed, TypeOK, Located, NextArg
<1> QED
    BY <1>1 DEF Typed, TypeOK, Located, NextArg, external

LEMMA TypedInit == Init => Typed
<1> SUFFICES ASSUME Init PROVE Typed
    OBVIOUS
<1>1. fs \in [Path -> Node \cup {Absent}]
    <2>1. UserNodes \in [Path -> SUBSET Node]
        BY ConfigAssumption
    <2> DEFINE U == UNION {UserNodes[p] : p \in Path}
               V == U \cup {Absent}
    <2>2. U \subseteq Node
        BY <2>1
    <2>3. fs \in [Path -> V]
        BY DEF Init
    <2> HIDE DEF U
    <2>4. V \subseteq Node \cup {Absent}
        BY <2>2
    <2> HIDE DEF V
    <2> QED
        BY <2>3, <2>4
<1>2. rejected \in [Path -> Source]
    BY DEF Init, Source
<1>3. args = <<>> /\ <<>> \in Seq(Name)
    BY DEF Init, NoProcess
<1> QED
    BY <1>1, <1>2, <1>3 DEF Init, NoProcess, Typed, TypeOK, Located

LEMMA TypedStep == Typed /\ [Next]_vars => Typed'
<1> SUFFICES ASSUME Typed, [Next]_vars PROVE Typed'
    OBVIOUS
<1> USE DEF Typed
<1>0. fs \in FileSystem /\ pkg_db \in SUBSET PkgDesc /\ disk \in SUBSET PkgDesc
    BY DEF TypeOK, FileSystem
<1>1. CASE Finish
    BY <1>1, ExitTyped DEF Finish
<1>2. CASE AddError
    <2>1. AllFlags \subseteq Conflict
        BY DEF AllFlags
    <2> QED
        BY <1>2, <2>1 DEF AddError, AtAdd, TypeOK, Located, external
<1>3. CASE AddDie
    BY <1>3, ExitTyped DEF AddDie
<1>4. CASE AddRefuse
    <2>1. \A hit : CleanupDb(FlaggedDb(pkg_db, Cur, hit)) \subseteq PkgDesc
        BY <1>0, <1>4, FlaggedDbFacts, CleanupFacts DEF AddRefuse
    <2>2. pkg_db' \subseteq PkgDesc
        BY <1>4, <2>1 DEF AddRefuse
    <2>3. ret' \subseteq Conflict
        BY <1>4 DEF AddRefuse, ReportConflicts, Conflict
    <2> QED
        BY <1>4, <2>2, <2>3 DEF AddRefuse, AtAdd, TypeOK, Located, external
<1>5. CASE AddAccept
    <2>1. AtAdd /\ Cur \in Archive /\ pkg' = NewPkg(pkg_db, Cur) /\ pc' = "del"
        BY <1>5 DEF AddAccept
    <2>2. PICK hit \in Hits(pkg_db, Cur) : pkg_db' = FlaggedDb(pkg_db, Cur, hit)
        BY <1>5 DEF AddAccept
    <2>3. pkg_db' \subseteq PkgDesc
        BY <1>0, <2>1, <2>2, FlaggedDbFacts
    <2>4. pkg' \in PkgDesc /\ pkg'.name = NameOf[Cur] /\ PathsOf(pkg)' = ArchPaths(Cur)
        BY <2>1, NewPkgFacts DEF PathsOf
    <2>5. oldPaths' \subseteq Path
        <3>1. \A d \in pkg_db : \A f \in d.files : f.path \in Path
            BY <1>0 DEF PkgDesc, FileDesc
        <3>2. oldPaths' = Registered(Named(pkg_db, NameOf[Cur]))
            BY <1>5 DEF AddAccept, OldPaths
        <3> QED
            BY <3>1, <3>2 DEF Registered, PathsOf, Named
    <2>6. ret' \subseteq Conflict
        BY <1>5 DEF AddAccept, ReportConflicts, Conflict
    <2> QED
        BY <1>5, <2>1, <2>3, <2>4, <2>5, <2>6 DEF AddAccept, AtAdd, TypeOK, Located, external,
                                                  PathsOf, Cur
<1>6. CASE DelOldFile
    <2>1. PICK f \in LastOf(OldFiles) :
             /\ IF f.conflict = "NONE" THEN RemovePath(f.path) ELSE UNCHANGED <<fs, leftover>>
             /\ pkg_db' = DropFile(pkg_db, pkg.name, f)
        BY <1>6 DEF DelOldFile
    <2>2. f.path \in Path
        BY <1>0, <2>1 DEF LastOf, OldFiles, Named, PkgDesc, FileDesc
    <2>3. fs' \in FileSystem /\ leftover' \subseteq Path
        BY <1>0, <2>1, <2>2, RemovePathTyped DEF TypeOK
    <2>4. pkg_db' \subseteq PkgDesc
        BY <1>0, <2>1, DropFacts
    <2> QED
        BY <1>6, <2>3, <2>4 DEF DelOldFile, TypeOK, Located, FileSystem, Cur, PathsOf
<1>7. CASE AddCommit
    <2> DEFINE db == CleanupDb(Others(pkg_db, pkg.name)) \cup {pkg}
    <2>1. pc = "del" /\ Commit(db)
        BY <1>7 DEF AddCommit
    <2>2. db \in SUBSET PkgDesc
        <3>1. Others(pkg_db, pkg.name) \in SUBSET PkgDesc
            BY <1>0 DEF Others
        <3> QED
            BY <2>1, <3>1, CleanupFacts DEF Located
    <2> HIDE DEF db
    <2>3. pkg_db' \subseteq PkgDesc /\ disk' \subseteq PkgDesc /\ leftover' \subseteq Path
        BY <2>1, <2>2, WrittenFacts DEF Commit, TypeOK
    <2> QED
        BY <1>7, <2>3 DEF AddCommit, TypeOK, Located, Cur
<1>8. CASE CommitDie
    BY <1>8, ExitTyped DEF CommitDie
<1>9. CASE SkipEntry
    BY <1>9 DEF SkipEntry, Advance, AtEntry, TypeOK, Located, Cur, PathsOf
<1>10. CASE RejectEntry
    <2>1. Cur \in Source
        BY <1>10 DEF RejectEntry, AtEntry, Located, Source
    <2>2. rejected' \in [Path -> Source]
        BY <1>10, <2>1 DEF RejectEntry, TypeOK
    <2> QED
        BY <1>10, <2>2 DEF RejectEntry, Advance, AtEntry, TypeOK, Located, Cur, PathsOf
<1>11. CASE InstallEntry
    <2>1. Cur \in Archive /\ next \in DOMAIN Entries[Cur]
        BY <1>11 DEF InstallEntry, AtEntry, Located
    <2>2. fs' \in FileSystem
        BY <1>0, <1>11, <2>1, ExtractedFacts DEF InstallEntry, EntryNow
    <2> QED
        BY <1>11, <2>2 DEF InstallEntry, Advance, AtEntry, TypeOK, Located, Cur, PathsOf, FileSystem
<1>12. CASE ExtractFails
    <2>1. Cur \in Archive /\ next \in DOMAIN Entries[Cur]
        BY <1>12 DEF ExtractFails, AtEntry, Located
    <2>2. failed' \subseteq Path
        BY <1>12, <2>1, EntryType DEF ExtractFails, EntryNow, TypeOK
    <2>3. fs' \in FileSystem
        BY <1>0, <1>12, WithoutFacts DEF ExtractFails
    <2> QED
        BY <1>12, <2>2, <2>3 DEF ExtractFails, Advance, AtEntry, TypeOK, Located, Cur, PathsOf,
                                 FileSystem
<1>13. CASE AddDone \/ ReadStops
    <2>1. pkg_db' \subseteq PkgDesc
        BY <1>0, <1>13, UnflaggedFacts DEF AddDone, ReadStops, AddReturns, AtEntry, Others, Named
    <2> QED
        BY <1>13, <2>1 DEF AddDone, ReadStops, AddReturns, AtEntry, TypeOK, Located, external
<1>14. CASE AddReturn
    BY <1>14, NextArgTyped DEF AddReturn, Located
<1>15. CASE AddExit
    BY <1>15, ExitTyped DEF AddExit
<1>16. CASE RmUnknown
    BY <1>16, NextArgTyped DEF RmUnknown, AtRm
<1>17. CASE RmStart
    <2>1. pkg_db' \subseteq PkgDesc
        BY <1>0, <1>17, DeleteRefsFacts DEF RmStart
    <2> QED
        BY <1>17, <2>1 DEF RmStart, AtRm, TypeOK, Located, external
<1>18. CASE RmFile
    <2>1. PICK f \in LastOf(RmFiles) : RemovePath(f.path) /\ pkg_db' = DropFile(pkg_db, Cur, f)
        BY <1>18 DEF RmFile
    <2>2. f.path \in Path
        BY <1>0, <2>1 DEF LastOf, RmFiles, Named, PkgDesc, FileDesc
    <2>3. fs' \in FileSystem /\ leftover' \subseteq Path
        BY <2>1, <2>2, RemovePathTyped
    <2>4. pkg_db' \subseteq PkgDesc
        BY <1>0, <2>1, DropFacts
    <2> QED
        BY <1>18, <2>3, <2>4 DEF RmFile, TypeOK, Located, FileSystem
<1>19. CASE RmCommit
    <2>1. pc = "rm" /\ Commit(Others(pkg_db, Cur)) /\ args' = Tail(args)
        BY <1>19 DEF RmCommit
    <2>2. Others(pkg_db, Cur) \in SUBSET PkgDesc
        BY <1>0 DEF Others
    <2>3. pkg_db' \subseteq PkgDesc /\ disk' \subseteq PkgDesc /\ leftover' \subseteq Path
        BY <2>1, <2>2, WrittenFacts DEF Commit, TypeOK
    <2>4. args' \in Seq(Name)
        BY <2>1, TailFacts DEF Located
    <2> QED
        BY <1>19, <2>3, <2>4 DEF RmCommit, TypeOK, Located
<1>20. CASE StartAdd
    <2>1. PICK o \in SUBSET {"FORCE", "FORCE_PERM"} :
             \E r \in Roots, as \in ArgLists(Archive \cup {BadFile}) : Start("pkgadd", o, r, as)
        BY <1>20 DEF StartAdd
    <2>2. PICK r \in Roots, as \in ArgLists(Archive \cup {BadFile}) : Start("pkgadd", o, r, as)
        BY <2>1
    <2>3. as \in Seq(Archive \cup {BadFile}) /\ r \in {"absolute", "relative"}
        BY ArgListFacts, ConfigAssumption
    <2> QED
        BY <2>2, <2>3 DEF Start, TypeOK, Located, external
<1>21. CASE StartRm
    <2>1. PICK r \in Roots, as \in ArgLists(Name) : Start("pkgrm", {}, r, as)
        BY <1>21 DEF StartRm
    <2>2. as \in Seq(Name) /\ r \in {"absolute", "relative"}
        BY ArgListFacts, ConfigAssumption
    <2> QED
        BY <2>1, <2>2 DEF Start, TypeOK, Located, external
<1>22. CASE Crash
    BY <1>22, ExitTyped DEF Crash
<1>23. ASSUME NEW p \in Path, UserPuts(p) PROVE Typed'
    <2>1. PICK n \in UserNodes[p] :
            fs' = [IF Exists(p) /\ fs[p].kind = n.kind THEN fs ELSE Without(p) EXCEPT ![p] = n]
        BY <1>23 DEF UserPuts
    <2>2. n \in Node
        BY ConfigAssumption
    <2>3. fs' \in FileSystem
        BY <1>0, <2>1, <2>2, WithoutFacts DEF FileSystem
    <2> QED
        BY <1>23, <2>3 DEF UserPuts, TypeOK, Located, process, Cur, PathsOf, FileSystem
<1>24. ASSUME NEW p \in Path, UserRemoves(p) PROVE Typed'
    <2>1. fs' \in FileSystem
        BY <1>0, <1>24, WithoutFacts DEF UserRemoves
    <2> QED
        BY <1>24, <2>1 DEF UserRemoves, TypeOK, Located, process, Cur, PathsOf, FileSystem
<1>25. CASE UNCHANGED vars
    BY <1>25 DEF vars, external, process, TypeOK, Located, Cur, PathsOf
<1> QED
    BY <1>1, <1>2, <1>3, <1>4, <1>5, <1>6, <1>7, <1>8, <1>9, <1>10, <1>11, <1>12, <1>13,
       <1>14, <1>15, <1>16, <1>17, <1>18, <1>19, <1>20, <1>21, <1>22, <1>23, <1>24, <1>25
    DEF Next, Step, Environment

\* Whatever the packages, the rules, the options and the crashes are, every
\* variable holds what its C declaration says, the database file included.
THEOREM TypeCorrect == Spec => []TypeOK
<1>1. Spec => []Typed
    BY TypedInit, TypedStep, PTL DEF Spec
<1>2. Typed => TypeOK
    BY DEF Typed
<1> QED
    BY <1>1, <1>2, PTL

-----------------------------------------------------------------------------
(* A package is recorded once.                                             *)

LEMMA UniqueStep == Typed /\ UniqueNames /\ [Next]_vars => UniqueNames'
<1> SUFFICES ASSUME Typed, UniqueNames, [Next]_vars PROVE UniqueNames'
    OBVIOUS
<1>0. Unique(disk) /\ Unique(pkg_db) /\ pkg_db \in SUBSET PkgDesc /\ disk \in SUBSET PkgDesc
    BY DEF Unique, UniqueNames, Typed, TypeOK
<1> SUFFICES Unique(disk') /\ Unique(pkg_db')
    BY DEF Unique, UniqueNames
<1>1. CASE Exit
    BY <1>0, <1>1 DEF Exit, external, Unique
<1>2. CASE disk' = disk /\ pkg_db' = pkg_db
    BY <1>0, <1>2
<1>3. CASE StartAdd \/ StartRm
    BY <1>0, <1>3 DEF StartAdd, StartRm, Start, external
<1>4. CASE AddRefuse
    <2>1. PICK hit : pkg_db' = CleanupDb(FlaggedDb(pkg_db, Cur, hit))
        BY <1>4 DEF AddRefuse
    <2>2. Cur \in Archive /\ disk' = disk
        BY <1>4 DEF AddRefuse, external
    <2>3. FlaggedDb(pkg_db, Cur, hit) \in SUBSET PkgDesc /\ Unique(FlaggedDb(pkg_db, Cur, hit))
        BY <1>0, <2>2, FlaggedDbFacts
    <2>4. Unique(CleanupDb(FlaggedDb(pkg_db, Cur, hit)))
        BY <2>3, CleanupFacts
    <2> QED
        BY <1>0, <2>1, <2>2, <2>4
<1>5. CASE AddAccept
    <2>1. PICK hit : pkg_db' = FlaggedDb(pkg_db, Cur, hit)
        BY <1>5 DEF AddAccept
    <2>2. Cur \in Archive /\ disk' = disk
        BY <1>5 DEF AddAccept, external
    <2> QED
        BY <1>0, <2>1, <2>2, FlaggedDbFacts
<1>6. CASE DelOldFile
    <2>1. PICK f : pkg_db' = DropFile(pkg_db, pkg.name, f)
        BY <1>6 DEF DelOldFile
    <2>2. disk' = disk
        BY <1>6 DEF DelOldFile
    <2> QED
        BY <1>0, <2>1, <2>2, DropFacts
<1>7. CASE AddCommit
    <2> DEFINE left == CleanupDb(Others(pkg_db, pkg.name))
    <2>1. Commit(left \cup {pkg})
        BY <1>7 DEF AddCommit
    <2>2. Others(pkg_db, pkg.name) \in SUBSET PkgDesc /\ Unique(Others(pkg_db, pkg.name))
        BY <1>0 DEF Others, Unique
    <2>3. left \subseteq PkgDesc /\ Unique(left) /\ \A d \in left : d.name # pkg.name
        BY <2>2, CleanupFacts DEF Others
    <2>4. pkg \in PkgDesc
        BY <1>7 DEF AddCommit, Typed, Located
    <2> HIDE DEF left
    <2>5. Unique(left \cup {pkg}) /\ left \cup {pkg} \in SUBSET PkgDesc
        BY <2>3, <2>4 DEF Unique
    <2> QED
        BY <2>1, <2>5, WrittenFacts DEF Commit
<1>8. CASE AddDone \/ ReadStops
    <2>1. pkg_db' = Others(pkg_db, NameOf[Cur]) \cup {Unflagged(d) : d \in Named(pkg_db, NameOf[Cur])}
        BY <1>8 DEF AddDone, ReadStops, AddReturns, AtEntry
    <2>2. \A d \in pkg_db : Unflagged(d).name = d.name
        BY <1>0, UnflaggedFacts
    <2>3. Unique(pkg_db')
        BY <1>0, <2>1, <2>2 DEF Unique, Others, Named
    <2> QED
        BY <1>0, <1>8, <2>3 DEF AddDone, ReadStops, AddReturns, AtEntry, external
<1>9. CASE RmStart
    BY <1>0, <1>9, DeleteRefsFacts DEF RmStart, external
<1>10. CASE RmFile
    <2>1. PICK f : pkg_db' = DropFile(pkg_db, Cur, f)
        BY <1>10 DEF RmFile
    <2>2. disk' = disk
        BY <1>10 DEF RmFile
    <2> QED
        BY <1>0, <2>1, <2>2, DropFacts
<1>11. CASE RmCommit
    <2>1. Commit(Others(pkg_db, Cur))
        BY <1>11 DEF RmCommit
    <2>2. Others(pkg_db, Cur) \in SUBSET PkgDesc /\ Unique(Others(pkg_db, Cur))
        BY <1>0 DEF Others, Unique
    <2> QED
        BY <2>1, <2>2, WrittenFacts DEF Commit
<1>12. \/ Exit \/ StartAdd \/ StartRm \/ AddRefuse \/ AddAccept \/ DelOldFile \/ AddCommit
       \/ AddDone \/ ReadStops \/ RmStart \/ RmFile \/ RmCommit \/ (disk' = disk /\ pkg_db' = pkg_db)
    <2>1. CASE Step
        BY <2>1 DEF Step, Finish, AddError, AddDie, CommitDie, SkipEntry, RejectEntry, InstallEntry,
                    ExtractFails, Advance, AddReturn, AddExit, NextArg, RmUnknown, external
    <2>2. CASE Environment
        BY <2>2 DEF Environment, Crash, UserPuts, UserRemoves, process
    <2> QED
        BY <2>1, <2>2 DEF Next, vars, external, process
<1> QED
    BY <1>1, <1>2, <1>3, <1>4, <1>5, <1>6, <1>7, <1>8, <1>9, <1>10, <1>11, <1>12

\* No database, in memory or in the file, ever names a package twice.
THEOREM NamesAreUnique == Spec => []UniqueNames
<1>1. Init => Typed /\ UniqueNames
    BY TypedInit DEF Init, NoProcess, UniqueNames
<1>2. Typed /\ UniqueNames /\ [Next]_vars => (Typed /\ UniqueNames)'
    BY TypedStep, UniqueStep
<1> QED
    BY <1>1, <1>2, PTL DEF Spec

-----------------------------------------------------------------------------
(* No file from a package is forgotten.                                    *)

\* Removing p leaves every other path, or adds p to the leftovers.
LEMMA RemovePathFacts ==
    ASSUME TypeOK, NEW p \in Path, RemovePath(p)
    PROVE  /\ leftover \subseteq leftover'
           /\ \A q \in Path : Ours(q)' => Ours(q) /\ (q # p \/ q \in leftover')
<1>1. CASE Removable(p)
    <2>1. fs \in FileSystem
        BY DEF TypeOK, FileSystem
    <2>2. fs' = Without(p) /\ leftover' = leftover
        BY <1>1 DEF RemovePath
    <2>3. \A q \in Path : fs'[q] = Absent \/ (q # p /\ fs'[q] = fs[q])
        BY <2>1, <2>2, WithoutFacts
    <2> QED
        BY <2>2, <2>3 DEF Ours, Exists
<1>2. CASE ~Removable(p)
    BY <1>2 DEF RemovePath, Ours, Exists
<1> QED
    BY <1>1, <1>2

LEMMA SyncedByCommit ==
    ASSUME NEW db \in SUBSET PkgDesc, Commit(db)
    PROVE  /\ NoFlags(disk') /\ Registered(disk') = Registered(db)
           /\ leftover \subseteq Registered(disk') \cup leftover'
BY WrittenFacts DEF Commit

LEMMA DropNoFlags ==
    ASSUME NEW db \in SUBSET PkgDesc, NoFlags(db), NEW n, NEW f
    PROVE  NoFlags(DropFile(db, n, f))
<1>1. \A d \in db : [d EXCEPT !.files = @ \ {f}].files \subseteq d.files
    BY DEF PkgDesc
<1> QED
    BY <1>1 DEF NoFlags, DropFile, Others, Named

LEMMA TrackedStep == Typed /\ Tracked /\ [Next]_vars => Tracked'
<1> SUFFICES ASSUME Typed, Tracked, [Next]_vars PROVE Tracked'
    OBVIOUS
<1>0. fs \in FileSystem /\ pkg_db \in SUBSET PkgDesc /\ disk \in SUBSET PkgDesc
    BY DEF Typed, TypeOK, FileSystem
<1>1. CASE Exit
    BY <1>1 DEF Exit, external, Tracked, NothingForgotten, Ours, Exists,
                AtNext, AtDel, AtExtract, AtRemove
<1>2. CASE AddError
    <2>1. Synced
        BY <1>2 DEF AddError, AtAdd, Tracked, AtNext
    <2> QED
        BY <1>2, <2>1 DEF AddError, external, Tracked, NothingForgotten, Ours, Exists, Synced,
                          AtNext, AtDel, AtExtract, AtRemove
<1>3. CASE AddRefuse
    <2>1. Blocking(ret)' /\ pc' = "return"
        BY <1>3 DEF AddRefuse, Blocking
    <2> QED
        BY <1>3, <2>1 DEF AddRefuse, external, Tracked, NothingForgotten, Ours, Exists,
                          AtNext, AtDel, AtExtract, AtRemove
<1>4. CASE AddAccept
    <2> DEFINE n == NameOf[Cur]
    <2>1. AtAdd /\ Cur \in Archive /\ pkg' = NewPkg(pkg_db, Cur) /\ pc' = "del" /\ UNCHANGED external
        BY <1>4 DEF AddAccept
    <2>2. PICK hit : pkg_db' = FlaggedDb(pkg_db, Cur, hit)
        BY <1>4 DEF AddAccept
    <2>3. NoFlags(pkg_db) /\ Registered(pkg_db) = Registered(disk)
        BY <2>1 DEF AtAdd, Tracked, AtNext, Synced
    <2>4. pkg'.name = n /\ PathsOf(pkg') = ArchPaths(Cur)
        BY <2>1, NewPkgFacts
    <2>5. Kept' = Registered(CleanupDb(Others(pkg_db', n))) \cup ArchPaths(Cur)
        BY <2>4 DEF Kept, Registered, CleanupDb, Others, PathsOf
    <2>6. OldFiles' = FilesOf(pkg_db', n)
        BY <2>4 DEF OldFiles, FilesOf, Named
    <2>7. /\ \A p \in Registered(Named(pkg_db, n)) : \E f \in FilesOf(pkg_db', n) : f.path = p
          /\ \A p \in Registered(Others(pkg_db, n)) : p \in Kept'
          /\ \A f \in FilesOf(pkg_db', n) : f.conflict = "NONE" \/ f.path \in ArchPaths(Cur)
                                              \/ f.path \in Registered(Others(pkg_db, n))
        BY <1>0, <2>1, <2>2, <2>3, <2>5, FlaggedDbFacts
    <2>8. \A f \in OldFiles' : f.conflict = "NONE" \/ f.path \in Kept'
        BY <2>5, <2>6, <2>7
    <2>9. ASSUME NEW p \in Path, Ours(p)'
          PROVE  p \in Kept' \cup leftover' \/ \E f \in OldFiles' : f.path = p
        <3>1. p \in Registered(pkg_db) \cup leftover'
            BY <2>1, <2>3, <2>9 DEF Tracked, NothingForgotten, Ours, Exists, external
        <3>2. p \in Registered(pkg_db) => p \in Registered(Named(pkg_db, n)) \cup Registered(Others(pkg_db, n))
            BY DEF Registered, Named, Others
        <3> QED
            BY <2>6, <2>7, <3>1, <3>2
    <2>10. NothingForgotten' /\ NoFlags(disk')
        BY <2>1 DEF external, Tracked, NothingForgotten, Ours, Exists
    <2>11. AtDel'
        BY <2>8, <2>9 DEF AtDel
    <2> QED
        BY <2>1, <2>10, <2>11 DEF Tracked, AtNext, AtExtract, AtRemove
<1>5. CASE DelOldFile
    <2>1. PICK f \in LastOf(OldFiles) :
             /\ IF f.conflict = "NONE" THEN RemovePath(f.path) ELSE UNCHANGED <<fs, leftover>>
             /\ pkg_db' = DropFile(pkg_db, pkg.name, f)
        BY <1>5 DEF DelOldFile
    <2>2. f \in OldFiles /\ f.path \in Path
        BY <1>0, <2>1 DEF LastOf, OldFiles, Named, PkgDesc, FileDesc
    <2>3. pc = "del" /\ pc' = "del" /\ disk' = disk /\ pkg' = pkg
        BY <1>5 DEF DelOldFile
    <2>4. Others(pkg_db', pkg.name) = Others(pkg_db, pkg.name)
          /\ FilesOf(pkg_db', pkg.name) = FilesOf(pkg_db, pkg.name) \ {f}
        <3>1. pkg_db \in SUBSET PkgDesc /\ pkg_db' = DropFile(pkg_db, pkg.name, f)
            BY <1>0, <2>1
        <3> QED
            BY <3>1, DropFacts
    <2>5. Kept' = Kept /\ OldFiles' = OldFiles \ {f}
        BY <2>3, <2>4 DEF Kept, OldFiles, FilesOf, Named, Registered, CleanupDb, Others, PathsOf
    <2>6. /\ leftover \subseteq leftover'
          /\ \A q \in Path : Ours(q)' => Ours(q) /\ (q # f.path \/ q \in leftover' \/ q \in Kept)
        <3>1. CASE f.conflict = "NONE"
            BY <2>1, <2>2, <3>1, RemovePathFacts DEF Typed
        <3>2. CASE f.conflict # "NONE"
            BY <2>1, <2>2, <2>3, <3>2 DEF Ours, Exists, Tracked, AtDel
        <3> QED
            BY <3>1, <3>2
    <2>7. NothingForgotten' /\ NoFlags(disk')
        BY <2>3, <2>6 DEF Tracked, NothingForgotten
    <2>8. AtDel'
        BY <2>3, <2>5, <2>6 DEF Tracked, AtDel
    <2> QED
        BY <2>3, <2>7, <2>8 DEF Tracked, AtNext, AtExtract, AtRemove
<1>6. CASE AddCommit
    <2> DEFINE db == CleanupDb(Others(pkg_db, pkg.name)) \cup {pkg}
    <2>1. Commit(db) /\ pc = "del" /\ pc' = "extract" /\ OldFiles = {} /\ fs' = fs /\ args' = args
        BY <1>6 DEF AddCommit
    <2>2. Others(pkg_db, pkg.name) \in SUBSET PkgDesc
        BY <1>0 DEF Others
    <2>3. /\ Cur \in Archive /\ pkg \in PkgDesc /\ pkg.name = NameOf[Cur]
          /\ PathsOf(pkg) = ArchPaths(Cur)
        BY <2>1 DEF Typed, Located
    <2>4. db \in SUBSET PkgDesc /\ NoFlags(CleanupDb(Others(pkg_db, pkg.name)))
        BY <2>2, <2>3, CleanupFacts
    <2>5. Registered(db) = Kept
        BY DEF Registered, Kept
    <2>6. \A d \in Others(db, pkg.name) : d \in CleanupDb(Others(pkg_db, pkg.name))
        BY DEF Others
    <2> HIDE DEF db
    <2>7. NoFlags(disk') /\ Registered(disk') = Kept /\ leftover \subseteq Kept \cup leftover'
        BY <2>1, <2>4, <2>5, SyncedByCommit
    <2>8. pkg_db' = db /\ Cur' = Cur
        BY <2>1 DEF Commit, Cur
    <2>9. ASSUME NEW p \in Path, Ours(p)' PROVE p \in Registered(disk') \cup leftover'
        <3>1. Ours(p)
            BY <2>1, <2>9 DEF Ours, Exists
        <3>2. p \in Kept \cup leftover
            BY <2>1, <3>1 DEF Tracked, AtDel
        <3> QED
            BY <2>7, <3>2
    <2>10. NothingForgotten'
        BY <2>9 DEF NothingForgotten, Registered
    <2>11. NoFlags(Others(db, NameOf[Cur]))
        BY <2>3, <2>4, <2>6 DEF NoFlags
    <2>12. ArchPaths(Cur) \subseteq Kept
        BY <2>3 DEF Kept
    <2>13. AtExtract'
        BY <2>5, <2>7, <2>8, <2>11, <2>12 DEF AtExtract
    <2> QED
        BY <2>1, <2>7, <2>10, <2>13 DEF Tracked, AtNext, AtDel, AtRemove
<1>7. CASE SkipEntry
    BY <1>7 DEF SkipEntry, AtEntry, Advance, Tracked, NothingForgotten, Ours, Exists,
                AtNext, AtDel, AtExtract, AtRemove, Cur
<1>8. CASE RejectEntry
    BY <1>8 DEF RejectEntry, AtEntry, Advance, Tracked, NothingForgotten, Ours, Exists,
                AtNext, AtDel, AtExtract, AtRemove, Cur
<1>9. CASE InstallEntry
    <2>1. /\ Cur \in Archive /\ next \in DOMAIN Entries[Cur] /\ pc = "extract" /\ pc' = "extract"
          /\ UNCHANGED <<disk, leftover, pkg_db>> /\ Cur' = Cur
        BY <1>9 DEF InstallEntry, AtEntry, Advance, Typed, Located, Cur
    <2>2. fs' = Extracted(Entries[Cur][next], Cur)
        BY <1>9 DEF InstallEntry, EntryNow
    <2>3. \A q \in Path : \/ fs'[q] = Absent \/ q \in ArchPaths(Cur)
                          \/ Exists(q) /\ fs'[q].src = fs[q].src
        BY <1>0, <2>1, <2>2, ExtractedFacts
    <2>4. \A q \in Path : Ours(q)' => Ours(q) \/ q \in ArchPaths(Cur)
        BY <2>3 DEF Ours, Exists
    <2>5. NothingForgotten'
        BY <2>1, <2>4 DEF Tracked, NothingForgotten, AtExtract
    <2> QED
        BY <2>1, <2>5 DEF Tracked, AtNext, AtDel, AtExtract, AtRemove
<1>10. CASE ExtractFails
    <2>1. /\ pc = "extract" /\ pc' = "extract" /\ UNCHANGED <<disk, leftover, pkg_db>> /\ Cur' = Cur
        BY <1>10 DEF ExtractFails, AtEntry, Advance, Cur
    <2>2. \A q \in Path : fs'[q] = fs[q] \/ fs'[q] = Absent
        BY <1>0, <1>10, WithoutFacts DEF ExtractFails
    <2>3. \A q \in Path : Ours(q)' => Ours(q)
        BY <2>2 DEF Ours, Exists
    <2>4. NothingForgotten'
        BY <2>1, <2>3 DEF Tracked, NothingForgotten
    <2> QED
        BY <2>1, <2>4 DEF Tracked, AtNext, AtDel, AtExtract, AtRemove
<1>11. CASE AddDone \/ ReadStops
    <2> DEFINE n == NameOf[Cur]
    <2>1. pkg_db' = Others(pkg_db, n) \cup {Unflagged(d) : d \in Named(pkg_db, n)}
        BY <1>11 DEF AddDone, ReadStops, AddReturns, AtEntry
    <2>2. NoFlags(Others(pkg_db, n)) /\ Registered(pkg_db) = Registered(disk)
        BY <1>11 DEF AddDone, ReadStops, AddReturns, AtEntry, Tracked, AtExtract
    <2>3. \A d \in pkg_db : PathsOf(Unflagged(d)) = PathsOf(d)
                             /\ \A f \in Unflagged(d).files : f.conflict = "NONE"
        BY <1>0, UnflaggedFacts
    <2>4. NoFlags(pkg_db')
        BY <2>1, <2>2, <2>3 DEF NoFlags, Named
    <2>5. Registered(pkg_db') = Registered(pkg_db)
        BY <2>1, <2>3 DEF Registered, Named, Others
    <2> QED
        BY <1>11, <2>2, <2>4, <2>5 DEF AddDone, ReadStops, AddReturns, AtEntry, external, Tracked,
                                       NothingForgotten, Ours, Exists,
                                       Synced, AtNext, AtDel, AtExtract, AtRemove
<1>12. CASE AddReturn \/ RmUnknown
    <2>1. UNCHANGED <<external, pkg_db>> /\ pc' = "next"
        BY <1>12 DEF AddReturn, RmUnknown, NextArg
    <2>2. Synced
        BY <1>12 DEF AddReturn, RmUnknown, AtRm, Tracked, AtNext
    <2> QED
        BY <2>1, <2>2 DEF external, Tracked, NothingForgotten, Ours, Exists, Synced,
                          AtNext, AtDel, AtExtract, AtRemove
<1>13. CASE RmStart
    <2>1. /\ pc = "next" /\ pc' = "rm" /\ UNCHANGED external /\ Cur' = Cur
          /\ pkg_db' = DeleteRefs(pkg_db, Cur)
        BY <1>13 DEF RmStart, AtRm, Cur
    <2>2. NoFlags(pkg_db) /\ Registered(pkg_db) = Registered(disk)
        BY <2>1 DEF Tracked, AtNext, Synced
    <2>3. /\ Others(pkg_db', Cur) = Others(pkg_db, Cur) /\ NoFlags(pkg_db')
          /\ \A p \in Registered(pkg_db) :
                p \in Registered(Others(pkg_db, Cur)) \/ \E f \in FilesOf(pkg_db', Cur) : f.path = p
        BY <1>0, <2>1, <2>2, DeleteRefsFacts
    <2>4. RmFiles' = FilesOf(pkg_db', Cur)
        BY <2>1 DEF RmFiles, FilesOf, Named
    <2>5. \A p \in Path : Ours(p)' => p \in Registered(pkg_db) \cup leftover'
        BY <2>1, <2>2 DEF external, Tracked, NothingForgotten, Ours, Exists
    <2>6. AtRemove'
        BY <2>1, <2>3, <2>4, <2>5 DEF AtRemove
    <2> QED
        BY <2>1, <2>6 DEF external, Tracked, NothingForgotten, Ours, Exists, AtNext, AtDel,
                          AtExtract
<1>14. CASE RmFile
    <2>1. PICK f \in LastOf(RmFiles) : RemovePath(f.path) /\ pkg_db' = DropFile(pkg_db, Cur, f)
        BY <1>14 DEF RmFile
    <2>2. f \in RmFiles /\ f.path \in Path
        BY <1>0, <2>1 DEF LastOf, RmFiles, Named, PkgDesc, FileDesc
    <2>3. pc = "rm" /\ pc' = "rm" /\ disk' = disk /\ Cur' = Cur
        BY <1>14 DEF RmFile, Cur
    <2>4. Others(pkg_db', Cur) = Others(pkg_db, Cur)
          /\ FilesOf(pkg_db', Cur) = FilesOf(pkg_db, Cur) \ {f}
        BY <1>0, <2>1, DropFacts
    <2>5. RmFiles' = RmFiles \ {f}
        BY <2>3, <2>4 DEF RmFiles, FilesOf, Named
    <2>6. /\ leftover \subseteq leftover'
          /\ \A q \in Path : Ours(q)' => Ours(q) /\ (q # f.path \/ q \in leftover')
        BY <2>1, <2>2, RemovePathFacts DEF Typed
    <2>7. NoFlags(pkg_db')
        <3>1. NoFlags(pkg_db)
            BY <2>3 DEF Tracked, AtRemove
        <3> QED
            BY <2>1, <3>1, <1>0, DropNoFlags
    <2>8. NothingForgotten' /\ NoFlags(disk')
        BY <2>3, <2>6 DEF Tracked, NothingForgotten
    <2>9. AtRemove'
        BY <2>3, <2>4, <2>5, <2>6, <2>7 DEF Tracked, AtRemove
    <2> QED
        BY <2>3, <2>8, <2>9 DEF Tracked, AtNext, AtDel, AtExtract
<1>15. CASE RmCommit
    <2>1. Commit(Others(pkg_db, Cur)) /\ pc = "rm" /\ pc' = "next" /\ RmFiles = {} /\ fs' = fs
        BY <1>15 DEF RmCommit
    <2>2. Others(pkg_db, Cur) \in SUBSET PkgDesc /\ NoFlags(Others(pkg_db, Cur))
        BY <1>0, <2>1 DEF Others, NoFlags, Tracked, AtRemove
    <2>3. /\ NoFlags(disk') /\ Registered(disk') = Registered(Others(pkg_db, Cur))
          /\ leftover \subseteq Registered(disk') \cup leftover'
        BY <2>1, <2>2, SyncedByCommit
    <2>4. pkg_db' = Others(pkg_db, Cur)
        BY <2>1 DEF Commit
    <2>5. ASSUME NEW p \in Path, Ours(p)' PROVE p \in Registered(disk') \cup leftover'
        <3>1. Ours(p)
            BY <2>1, <2>5 DEF Ours, Exists
        <3>2. p \in Registered(Others(pkg_db, Cur)) \cup leftover
            BY <2>1, <3>1 DEF Tracked, AtRemove
        <3> QED
            BY <2>3, <3>2
    <2>6. NothingForgotten'
        BY <2>5 DEF NothingForgotten, Registered
    <2>7. Synced'
        BY <2>2, <2>3, <2>4 DEF Synced
    <2> QED
        BY <2>1, <2>3, <2>6, <2>7 DEF Tracked, AtNext, AtDel, AtExtract, AtRemove
<1>16. CASE StartAdd \/ StartRm
    <2>1. UNCHANGED external /\ pkg_db' = disk /\ pc' = "next"
        BY <1>16 DEF StartAdd, StartRm, Start
    <2>2. Synced'
        BY <2>1 DEF external, Tracked, Synced
    <2> QED
        BY <2>1, <2>2 DEF external, Tracked, NothingForgotten, Ours, Exists,
                          AtNext, AtDel, AtExtract, AtRemove
<1>17. ASSUME NEW p \in Path, UserPuts(p) \/ UserRemoves(p) PROVE Tracked'
    <2>1. pc' = "idle" /\ disk' = disk /\ leftover' = leftover
        BY <1>17 DEF UserPuts, UserRemoves, process
    <2>2. \A q \in Path : fs'[q] = fs[q] \/ fs'[q] = Absent \/ fs'[q].src = User
        <3>1. CASE UserRemoves(p)
            BY <1>0, <3>1, WithoutFacts DEF UserRemoves
        <3>2. CASE UserPuts(p)
            <4>1. PICK n \in UserNodes[p] :
                    fs' = [IF Exists(p) /\ fs[p].kind = n.kind THEN fs ELSE Without(p) EXCEPT ![p] = n]
                BY <3>2 DEF UserPuts
            <4>2. n.src = User
                BY ConfigAssumption
            <4> QED
                BY <1>0, <4>1, <4>2, WithoutFacts DEF FileSystem
        <3> QED
            BY <1>17, <3>1, <3>2
    <2>3. \A q \in Path : Ours(q)' => Ours(q)
        BY <2>2 DEF Ours, Exists
    <2>4. NothingForgotten'
        BY <2>1, <2>3 DEF Tracked, NothingForgotten
    <2> QED
        BY <2>1, <2>4 DEF Tracked, AtNext, AtDel, AtExtract, AtRemove
<1>18. CASE UNCHANGED vars
    BY <1>18 DEF vars, external, process, Tracked, NothingForgotten, Ours, Exists, Synced, Kept,
                 OldFiles, RmFiles, Cur, AtNext, AtDel, AtExtract, AtRemove, Blocking
<1>19. CASE Step
    <2>1. CASE Finish \/ AddDie \/ CommitDie \/ AddExit
        BY <1>1, <2>1 DEF Finish, AddDie, CommitDie, AddExit
    <2> QED
        BY <1>2, <1>3, <1>4, <1>5, <1>6, <1>7, <1>8, <1>9, <1>10, <1>11, <1>12, <1>13,
           <1>14, <1>15, <1>19, <2>1 DEF Step
<1>20. CASE Environment
    BY <1>1, <1>16, <1>17, <1>20 DEF Environment, Crash
<1> QED
    BY <1>18, <1>19, <1>20 DEF Next

\* Whatever pkgadd and pkgrm are killed in, a file that came from a package is
\* in the database file, or was reported as impossible to remove.
THEOREM FilesAreTracked == Spec => []NothingForgotten
<1>1. Init => Typed /\ Tracked
    <2> SUFFICES ASSUME Init PROVE Typed /\ Tracked
        OBVIOUS
    <2>1. \A p \in Path : ~Ours(p)
        BY ConfigAssumption DEF Init, Ours
    <2> QED
        BY <2>1, TypedInit DEF Init, NoProcess, Tracked, NothingForgotten, NoFlags,
                               AtNext, AtDel, AtExtract, AtRemove
<1>2. Typed /\ Tracked /\ [Next]_vars => (Typed /\ Tracked)'
    BY TypedStep, TrackedStep
<1>3. Tracked => NothingForgotten
    BY DEF Tracked
<1> QED
    BY <1>1, <1>2, <1>3, PTL DEF Spec

-----------------------------------------------------------------------------
(* The file system is a tree.                                              *)

DirKind == {"dir", "dirlink"}

\* What lies at a path has directories, or links to some, above it.
Rooted == \A p \in Path : Exists(p) => \A q \in Anc[p] : Exists(q) /\ fs[q].kind \in DirKind

\* The entry is a directory that is there, and stays.
Merges(e) == e.kind = "dir" /\ Exists(e.path) /\ fs[e.path].kind \in DirKind
Made(e, k, a) == [kind |-> k, attr |-> e.attr, src |-> a]

LEMMA AncFacts ==
    /\ \A p \in Path : Anc[p] \subseteq Path /\ p \notin Anc[p]
    /\ \A p \in Path : \A q \in Anc[p] : Anc[q] \subseteq Anc[p] /\ q # p /\ p \notin Anc[q]
BY PathAssumption

LEMMA DirsExist == \A n : n.kind \in DirKind => n # Absent
BY DEF DirKind, Absent

\* archive_read_extract, path by path.
LEMMA ExtractedIs ==
    ASSUME fs \in FileSystem, NEW a \in Archive, NEW i \in DOMAIN Entries[a]
    PROVE  LET e == Entries[a][i]  x == Extracted(e, a) IN
           /\ e.path \in Path /\ e.kind \in {"dir", "file"}
           /\ Merges(e) => /\ x[e.path].kind = fs[e.path].kind
                           /\ fs[e.path].kind = "dirlink" => x[e.path] = fs[e.path]
           /\ ~Merges(e) => x[e.path] = Made(e, e.kind, a)
           /\ \A q \in Path \ {e.path} :
                x[q] = IF ~Merges(e) /\ e.path \in Anc[q] THEN Absent
                       ELSE IF q \in Anc[e.path] /\ ~Exists(q) THEN Made(e, "dir", a) ELSE fs[q]
<1> DEFINE e == Entries[a][i]
           x == Extracted(e, a)
           base == [q \in Path |-> IF q \in Anc[e.path] /\ ~Exists(q) THEN Made(e, "dir", a) ELSE fs[q]]
<1>1. e.path \in Path /\ e.kind \in {"dir", "file"} /\ e.attr \in Attr
    BY EntryType
<1>2. x = IF Merges(e)
          THEN [base EXCEPT ![e.path] = IF @.kind = "dir" THEN [@ EXCEPT !.attr = e.attr] ELSE @]
          ELSE [q \in Path |-> IF q = e.path THEN Made(e, e.kind, a)
                               ELSE IF e.path \in Anc[q] THEN Absent ELSE base[q]]
    BY DEF Extracted, Merges, Made, DirKind
<1>3. \A q \in Path : base[q] = IF q \in Anc[e.path] /\ ~Exists(q) THEN Made(e, "dir", a) ELSE fs[q]
    OBVIOUS
<1>4. base[e.path] = fs[e.path] /\ DOMAIN base = Path
    BY <1>1, AncFacts
<1> HIDE DEF x, base, e
<1>5. CASE Merges(e)
    <2> DEFINE n == IF fs[e.path].kind = "dir" THEN [fs[e.path] EXCEPT !.attr = e.attr]
                    ELSE fs[e.path]
    <2>1. fs[e.path] \in Node
        BY <1>1, <1>5 DEF Merges, FileSystem, Exists
    <2>2. n.kind = fs[e.path].kind /\ (fs[e.path].kind = "dirlink" => n = fs[e.path])
        BY <2>1 DEF Node
    <2>3. x = [base EXCEPT ![e.path] = n]
        BY <1>2, <1>4, <1>5
    <2> HIDE DEF n
    <2>4. x[e.path] = n /\ \A q \in Path \ {e.path} : x[q] = base[q]
        BY <1>1, <1>4, <2>3
    <2> QED
        BY <1>1, <1>3, <1>5, <2>2, <2>4 DEF e, x
<1>6. CASE ~Merges(e)
    BY <1>1, <1>2, <1>3, <1>6 DEF e, x
<1> QED
    BY <1>5, <1>6

\* What a step does to the file system.
LEMMA FsChanges ==
    ASSUME Typed, [Next]_vars
    PROVE  \/ fs' = fs
           \/ \E p \in Path : fs' = Without(p)
           \/ InstallEntry
           \/ \E p \in Path : UserPuts(p)
<1>0. pkg_db \in SUBSET PkgDesc
    BY DEF Typed, TypeOK
<1>1. CASE DelOldFile \/ RmFile
    <2>1. PICK f \in OldFiles \cup RmFiles : RemovePath(f.path) \/ fs' = fs
        BY <1>1 DEF DelOldFile, RmFile, LastOf
    <2>2. f.path \in Path
        BY <1>0 DEF OldFiles, RmFiles, Named, PkgDesc, FileDesc
    <2> QED
        BY <2>1, <2>2 DEF RemovePath
<1>2. CASE ExtractFails
    <2>1. EntryNow.path \in Path
        BY <1>2, EntryType DEF ExtractFails, AtEntry, EntryNow, Typed, Located
    <2> QED
        BY <1>2, <2>1 DEF ExtractFails
<1>3. ASSUME NEW p \in Path, UserRemoves(p)
      PROVE  fs' = Without(p)
    BY <1>3 DEF UserRemoves
<1>4. CASE Step /\ ~DelOldFile /\ ~RmFile /\ ~ExtractFails /\ ~InstallEntry
    BY <1>4 DEF Step, Finish, AddError, AddDie, AddRefuse, AddAccept, AddCommit, CommitDie,
                SkipEntry, RejectEntry, AddDone, ReadStops, AddReturns, AtEntry, AddReturn, AddExit,
                NextArg, RmUnknown, RmStart,
                RmCommit, Exit, external
<1>5. CASE StartAdd \/ StartRm \/ Crash
    BY <1>5 DEF StartAdd, StartRm, Start, Crash, Exit, external
<1>6. CASE UNCHANGED vars
    BY <1>6 DEF vars
<1> QED
    BY <1>1, <1>2, <1>3, <1>4, <1>5, <1>6 DEF Next, Environment

LEMMA RootedStep == Typed /\ Rooted /\ [Next]_vars => Rooted'
<1> SUFFICES ASSUME Typed, Rooted, [Next]_vars, NEW r \in Path, fs'[r] # Absent, NEW q \in Anc[r]
             PROVE  fs'[q].kind \in DirKind
    BY DirsExist DEF Rooted, Exists
<1>0. fs \in FileSystem /\ q \in Path /\ q # r /\ r \notin Anc[q] /\ Anc[q] \subseteq Anc[r]
    BY AncFacts DEF Typed, TypeOK, FileSystem
<1>1. Exists(r) => Exists(q) /\ fs[q].kind \in DirKind
    BY DEF Rooted
<1>2. CASE fs' = fs
    BY <1>1, <1>2 DEF Exists
<1>3. ASSUME NEW p \in Path, fs' = Without(p)
      PROVE  fs'[q].kind \in DirKind
    <2>1. r # p /\ p \notin Anc[r] /\ fs'[r] = fs[r]
        BY <1>0, <1>3, WithoutFacts
    <2>2. fs'[q] = fs[q]
        BY <1>0, <1>3, <2>1, WithoutFacts
    <2> QED
        BY <1>1, <2>1, <2>2 DEF Exists
<1>4. CASE InstallEntry
    <2> DEFINE e == EntryNow
    <2>1. /\ Cur \in Archive /\ next \in DOMAIN Entries[Cur] /\ Extractable(e)
          /\ fs' = Extracted(e, Cur) /\ e = Entries[Cur][next]
        BY <1>4 DEF InstallEntry, AtEntry, EntryNow, Typed, Located
    <2> HIDE DEF e
    <2>2. /\ e.path \in Path
          /\ Merges(e) => fs'[e.path].kind = fs[e.path].kind
          /\ \A z \in Path \ {e.path} :
                fs'[z] = IF ~Merges(e) /\ e.path \in Anc[z] THEN Absent
                         ELSE IF z \in Anc[e.path] /\ ~Exists(z) THEN Made(e, "dir", Cur) ELSE fs[z]
        BY <1>0, <2>1, ExtractedIs
    <2>3. ASSUME q \in Anc[e.path] PROVE fs'[q].kind \in DirKind
        <3>1. q # e.path /\ e.path \notin Anc[q]
            BY <2>2, <2>3, AncFacts
        <3>2. Exists(q) => fs[q].kind \in DirKind
            BY <2>1, <2>3 DEF Extractable, DirKind
        <3> QED
            BY <1>0, <2>2, <2>3, <3>1, <3>2 DEF Made, DirKind
    <2>4. CASE r = e.path \/ r \in Anc[e.path]
        <3>1. q \in Anc[e.path]
            BY <1>0, <2>2, <2>4, AncFacts
        <3> QED
            BY <2>3, <3>1
    <2>5. CASE r # e.path /\ r \notin Anc[e.path]
        <3>1. (Merges(e) \/ e.path \notin Anc[r]) /\ fs'[r] = fs[r]
            BY <2>2, <2>5
        <3>2. Exists(q) /\ fs[q].kind \in DirKind
            BY <1>1, <3>1 DEF Exists
        <3>3. CASE q = e.path
            BY <2>2, <3>1, <3>2, <3>3
        <3>4. CASE q # e.path
            BY <1>0, <2>2, <3>1, <3>2, <3>4
        <3> QED
            BY <3>3, <3>4
    <2> QED
        BY <2>4, <2>5
<1>5. ASSUME NEW p \in Path, UserPuts(p)
      PROVE  fs'[q].kind \in DirKind
    <2>1. PICK n \in UserNodes[p] :
            /\ \A z \in Anc[p] : Exists(z) /\ fs[z].kind \in DirKind
            /\ fs' = [IF Exists(p) /\ fs[p].kind = n.kind THEN fs ELSE Without(p) EXCEPT ![p] = n]
        BY <1>5 DEF UserPuts, DirKind
    <2>2. \/ Exists(p) /\ fs[p].kind = n.kind /\ fs'[p] = n /\ \A z \in Path \ {p} : fs'[z] = fs[z]
          \/ /\ fs'[p] = n
             /\ \A z \in Path \ {p} : fs'[z] = IF p \in Anc[z] THEN Absent ELSE fs[z]
        BY <1>0, <2>1, WithoutFacts DEF FileSystem
    <2>3. CASE r = p
        BY <1>0, <2>1, <2>2, <2>3
    <2>4. CASE r # p
        BY <1>0, <1>1, <2>2, <2>4 DEF Exists
    <2> QED
        BY <2>3, <2>4
<1> QED
    BY <1>2, <1>3, <1>4, <1>5, FsChanges

-----------------------------------------------------------------------------
(* Package descriptions list what the archive has, each entry at its own   *)
(* place, and a directory before what it holds.                            *)

OnePlaceEach(files) == \A f, g \in files : f.pos = g.pos => f = g

Described(d) ==
    /\ d.name = NameOf[d.version]
    /\ \A f \in d.files : f.pos \in DOMAIN Entries[d.version]
    /\ OnePlaceEach(d.files)
    /\ \A f, g \in d.files : f.path \in Anc[g.path] => f.pos < g.pos
Descriptions ==
    /\ \A d \in disk \cup pkg_db : Described(d)
    /\ pc = "del" => Described(pkg)

\* The description e is d with flags set or cleared, and with files left out.
Part(e, d) ==
    /\ e.name = d.name /\ e.version = d.version
    /\ \A f \in e.files : \E g \in d.files : g.pos = f.pos /\ g.path = f.path
    /\ OnePlaceEach(d.files) => OnePlaceEach(e.files)
PartOf(new, old) == \A e \in new : \E d \in old : Part(e, d)

LEMMA PartDescribed ==
    ASSUME NEW new, NEW old, PartOf(new, old), \A d \in old : Described(d)
    PROVE  \A e \in new : Described(e)
<1> SUFFICES ASSUME NEW e \in new PROVE Described(e)
    OBVIOUS
<1>1. PICK d \in old : Part(e, d)
    BY DEF PartOf
<1>2. Described(d)
    OBVIOUS
<1> QED
    BY <1>1, <1>2 DEF Part, Described, OnePlaceEach

LEMMA FlaggedPart == ASSUME NEW d \in PkgDesc, NEW c PROVE Part(Flagged(d, c), d)
<1> DEFINE Set(f) == [f EXCEPT !.conflict = IF f.path \in DOMAIN c THEN c[f.path] ELSE @]
<1>1. \A f \in d.files : Set(f).pos = f.pos /\ Set(f).path = f.path
    <2> SUFFICES ASSUME NEW f \in d.files PROVE Set(f).pos = f.pos /\ Set(f).path = f.path
        OBVIOUS
    <2>1. f \in FileDesc
        BY DEF PkgDesc
    <2> QED
        BY <2>1 DEF FileDesc
<1>2. Flagged(d, c) = [d EXCEPT !.files = {Set(f) : f \in d.files}]
    BY DEF Flagged
<1> HIDE DEF Set
<1>3. /\ Flagged(d, c).name = d.name /\ Flagged(d, c).version = d.version
      /\ Flagged(d, c).files = {Set(f) : f \in d.files}
    BY <1>2 DEF PkgDesc
<1>4. OnePlaceEach(d.files) => OnePlaceEach({Set(f) : f \in d.files})
    BY <1>1 DEF OnePlaceEach
<1> QED
    BY <1>1, <1>3, <1>4 DEF Part

\* What the code does to the list of packages leaves parts of them.
LEMMA PartsLeft ==
    ASSUME NEW db \in SUBSET PkgDesc
    PROVE  /\ PartOf(db, db) /\ PartOf(Written(db), db) /\ PartOf(CleanupDb(db), db)
           /\ \A n : PartOf(Others(db, n), db) /\ PartOf(DeleteRefs(db, n), db)
           /\ \A n, f : PartOf(DropFile(db, n, f), db)
           /\ \A a, hit : PartOf(FlaggedDb(db, a, hit), db)
<1>2. \A d \in db : Part(d, d)
    BY DEF Part
<1>3. PartOf(db, db) /\ \A n : PartOf(Others(db, n), db)
    BY <1>2 DEF PartOf, Others
<1>4. PartOf(Written(db), db)
    BY FlaggedPart DEF PartOf, Written, Unflagged
<1>5. PartOf(CleanupDb(db), db)
    BY DEF PartOf, CleanupDb, Part, PkgDesc, OnePlaceEach
<1>6. ASSUME NEW n PROVE PartOf(DeleteRefs(db, n), db)
    <2> DEFINE Keep(d) == [d EXCEPT !.files = {f \in @ : f.path \notin Registered(Others(db, n))}]
    <2>1. \A d \in db : Part(Keep(d), d)
        BY DEF Part, PkgDesc, OnePlaceEach
    <2>2. DeleteRefs(db, n) = Others(db, n) \cup {Keep(d) : d \in Named(db, n)}
        BY DEF DeleteRefs
    <2> HIDE DEF Keep
    <2> QED
        BY <1>2, <2>1, <2>2 DEF PartOf, Named, Others
<1>7. ASSUME NEW n, NEW f PROVE PartOf(DropFile(db, n, f), db)
    BY <1>2 DEF PartOf, DropFile, Part, PkgDesc, Named, Others, OnePlaceEach
<1>8. ASSUME NEW a, NEW hit PROVE PartOf(FlaggedDb(db, a, hit), db)
    BY FlaggedPart DEF PartOf, FlaggedDb, Named, Others
<1> QED
    BY <1>3, <1>4, <1>5, <1>6, <1>7, <1>8

\* In an archive a directory comes before what it holds, and no path twice.
LEMMA DirsFirst ==
    ASSUME NEW a \in Archive, NEW i \in DOMAIN Entries[a], NEW q \in Anc[Entries[a][i].path]
    PROVE  \E j \in DOMAIN Entries[a] : j < i /\ Entries[a][j].path = q
<1>1. PICK j \in 1..(i - 1) : Entries[a][j].path = q
    BY ArchiveAssumption
<1>2. Entries[a] \in Seq(Entry) /\ i \in 1..Len(Entries[a])
    BY ArchiveAssumption
<1>3. j \in DOMAIN Entries[a] /\ j < i
    BY <1>1, <1>2
<1> QED
    BY <1>1, <1>3

LEMMA EntriesDiffer ==
    ASSUME NEW a \in Archive, NEW i \in DOMAIN Entries[a], NEW j \in DOMAIN Entries[a],
           Entries[a][i].path = Entries[a][j].path
    PROVE  i = j
BY ArchiveAssumption

\* list_files keeps the order of the archive.
LEMMA NewPkgDescribed == ASSUME NEW db, NEW a \in Archive PROVE Described(NewPkg(db, a))
<1> DEFINE d == NewPkg(db, a)
<1>1. d \in PkgDesc /\ d.name = NameOf[a] /\ d.version = a
    BY NewPkgFacts
<1> DEFINE dbFlag(g) == IF g.path \in OldPaths(db, a) THEN "SELF"
                        ELSE IF g.path \in Clash(db, a) THEN "DB" ELSE "NONE"
           At(i) == AdjustWithFs([pos |-> i, path |-> Entries[a][i].path, kind |-> Entries[a][i].kind,
                                  conflict |-> dbFlag(Entries[a][i])], Entries[a][i].attr)
<1>2. ASSUME NEW f \in d.files
      PROVE  /\ f.pos \in DOMAIN Entries[a] /\ f.path = Entries[a][f.pos].path
             /\ f = At(f.pos)
    <2>1. PICK g \in ListFiles(a) :
            f = AdjustWithFs([g EXCEPT !.conflict = dbFlag(g)], Entries[a][g.pos].attr)
        BY <1>2 DEF NewPkg
    <2>2. PICK i \in DOMAIN Entries[a] :
            g = [pos |-> i, path |-> Entries[a][i].path, kind |-> Entries[a][i].kind,
                 conflict |-> "NONE"]
        BY DEF ListFiles
    <2> DEFINE h == [pos |-> i, path |-> Entries[a][i].path, kind |-> Entries[a][i].kind,
                     conflict |-> dbFlag(g)]
    <2>3. f = AdjustWithFs(h, Entries[a][g.pos].attr)
        BY <2>1, <2>2
    <2>4. h.pos = i /\ h.path = Entries[a][i].path
        OBVIOUS
    <2>5. \A x : AdjustWithFs(h, x).pos = i /\ AdjustWithFs(h, x).path = Entries[a][i].path
        BY DEF AdjustWithFs
    <2>6. g.pos = i /\ g.path = Entries[a][i].path
        BY <2>2
    <2>7. f = At(i)
        BY <2>3, <2>6
    <2>8. f.pos = i /\ f.path = Entries[a][i].path
        BY <2>3, <2>5
    <2> HIDE DEF At, h
    <2> QED
        BY <2>7, <2>8
<1> HIDE DEF At
<1>3. ASSUME NEW f \in d.files, NEW g \in d.files, f.path \in Anc[g.path]
      PROVE  f.pos < g.pos
    <2>1. /\ f.pos \in DOMAIN Entries[a] /\ f.path = Entries[a][f.pos].path
          /\ g.pos \in DOMAIN Entries[a] /\ g.path = Entries[a][g.pos].path
        BY <1>2
    <2>2. PICK j \in DOMAIN Entries[a] : j < g.pos /\ Entries[a][j].path = f.path
        BY <1>3, <2>1, DirsFirst
    <2>3. j = f.pos
        BY <2>1, <2>2, EntriesDiffer
    <2> QED
        BY <2>2, <2>3
<1>4. OnePlaceEach(d.files)
    BY <1>2 DEF OnePlaceEach
<1> QED
    BY <1>1, <1>2, <1>3, <1>4 DEF Described

LEMMA DescriptionsStep == Typed /\ Descriptions /\ [Next]_vars => Descriptions'
<1> SUFFICES ASSUME Typed, Descriptions, [Next]_vars PROVE Descriptions'
    OBVIOUS
<1>0. /\ pkg_db \in SUBSET PkgDesc /\ disk \in SUBSET PkgDesc
      /\ \A d \in pkg_db : Described(d)
      /\ \A d \in disk : Described(d)
    BY DEF Typed, TypeOK, Descriptions
<1>1. CASE disk' = disk /\ PartOf(pkg_db', pkg_db) /\ (pc' = "del" => pc = "del" /\ pkg' = pkg)
    <2>1. \A d \in pkg_db' : Described(d)
        BY <1>0, <1>1, PartDescribed
    <2> QED
        BY <1>0, <1>1, <2>1 DEF Descriptions
<1>2. CASE Exit
    BY <1>0, <1>2 DEF Exit, external, Descriptions
<1>3. CASE StartAdd \/ StartRm
    <2>1. pkg_db' = disk /\ disk' = disk /\ pc' = "next"
        BY <1>3 DEF StartAdd, StartRm, Start, external
    <2> QED
        BY <1>0, <2>1 DEF Descriptions
<1>4. CASE AddRefuse
    <2>1. PICK hit : pkg_db' = CleanupDb(FlaggedDb(pkg_db, Cur, hit))
        BY <1>4 DEF AddRefuse
    <2>2. Cur \in Archive /\ disk' = disk /\ pc' = "return"
        BY <1>4 DEF AddRefuse, external
    <2>3. FlaggedDb(pkg_db, Cur, hit) \in SUBSET PkgDesc
        BY <1>0, <2>2, FlaggedDbFacts
    <2>4. \A d \in FlaggedDb(pkg_db, Cur, hit) : Described(d)
        BY <1>0, PartsLeft, PartDescribed
    <2>5. \A d \in pkg_db' : Described(d)
        BY <2>1, <2>3, <2>4, PartsLeft, PartDescribed
    <2> QED
        BY <1>0, <2>2, <2>5 DEF Descriptions
<1>5. CASE AddAccept
    <2>1. /\ Cur \in Archive /\ disk' = disk /\ pkg' = NewPkg(pkg_db, Cur)
          /\ \E hit : pkg_db' = FlaggedDb(pkg_db, Cur, hit)
        BY <1>5 DEF AddAccept, external
    <2>2. \A d \in pkg_db' : Described(d)
        BY <1>0, <2>1, PartsLeft, PartDescribed
    <2>3. Described(pkg')
        BY <2>1, NewPkgDescribed
    <2> QED
        BY <1>0, <2>1, <2>2, <2>3 DEF Descriptions, Described
<1>6. CASE AddCommit
    <2> DEFINE db == CleanupDb(Others(pkg_db, pkg.name)) \cup {pkg}
    <2>1. Commit(db) /\ pc = "del" /\ pc' = "extract"
        BY <1>6 DEF AddCommit
    <2>2. Others(pkg_db, pkg.name) \in SUBSET PkgDesc
        BY <1>0 DEF Others
    <2>3. \A d \in CleanupDb(Others(pkg_db, pkg.name)) : Described(d)
        BY <1>0, <2>2, PartsLeft, PartDescribed DEF Others
    <2>4. db \in SUBSET PkgDesc
        BY <2>1, <2>2, CleanupFacts DEF Typed, Located
    <2>5. \A d \in db : Described(d)
        BY <2>1, <2>3 DEF Descriptions
    <2> HIDE DEF db
    <2>6. \A d \in Written(db) : Described(d)
        BY <2>4, <2>5, PartsLeft, PartDescribed
    <2> QED
        BY <2>1, <2>5, <2>6 DEF Commit, Descriptions
<1>7. CASE RmCommit
    <2> DEFINE db == Others(pkg_db, Cur)
    <2>1. Commit(db) /\ pc' = "next"
        BY <1>7 DEF RmCommit
    <2>2. db \in SUBSET PkgDesc /\ \A d \in db : Described(d)
        BY <1>0 DEF Others
    <2> HIDE DEF db
    <2>3. \A d \in Written(db) : Described(d)
        BY <2>2, PartsLeft, PartDescribed
    <2> QED
        BY <2>1, <2>2, <2>3 DEF Commit, Descriptions
<1>8. CASE DelOldFile \/ RmFile \/ RmStart
    <2>1. disk' = disk /\ (pc' = "del" => pc = "del" /\ pkg' = pkg)
        BY <1>8 DEF DelOldFile, RmFile, RmStart, external
    <2>2. PartOf(pkg_db', pkg_db)
        BY <1>0, <1>8, PartsLeft DEF DelOldFile, RmFile, RmStart
    <2> QED
        BY <1>1, <2>1, <2>2
<1>9. CASE AddDone \/ ReadStops
    <2>1. /\ disk' = disk /\ pc' = "return"
          /\ pkg_db' = Others(pkg_db, NameOf[Cur]) \cup {Unflagged(d) : d \in Named(pkg_db, NameOf[Cur])}
        BY <1>9 DEF AddDone, ReadStops, AddReturns, AtEntry, external
    <2>2. \A d \in pkg_db : Part(Unflagged(d), d) /\ Part(d, d)
        BY <1>0, FlaggedPart DEF Unflagged, Part
    <2>3. PartOf(pkg_db', pkg_db)
        BY <2>1, <2>2 DEF PartOf, Others, Named
    <2> QED
        BY <1>1, <2>1, <2>3
<1>10. CASE AddError \/ SkipEntry \/ RejectEntry \/ InstallEntry \/ ExtractFails \/ AddReturn \/ RmUnknown
    <2>1. disk' = disk /\ pkg_db' = pkg_db /\ pc' # "del"
        BY <1>10 DEF AddError, SkipEntry, RejectEntry, InstallEntry, ExtractFails, Advance, AtEntry,
                     AddReturn, RmUnknown, NextArg, external
    <2> QED
        BY <1>0, <1>1, <2>1, PartsLeft
<1>11. ASSUME NEW p \in Path, UserPuts(p) \/ UserRemoves(p)
       PROVE  Descriptions'
    BY <1>0, <1>11 DEF UserPuts, UserRemoves, process, Descriptions
<1>12. CASE UNCHANGED vars
    BY <1>0, <1>1, <1>12, PartsLeft DEF vars, external, process
<1>13. CASE Step
    <2>1. CASE Finish \/ AddDie \/ CommitDie \/ AddExit
        BY <1>2, <2>1 DEF Finish, AddDie, CommitDie, AddExit
    <2> QED
        BY <1>4, <1>5, <1>6, <1>7, <1>8, <1>9, <1>10, <1>13, <2>1 DEF Step
<1>14. CASE Environment
    BY <1>2, <1>3, <1>11, <1>14 DEF Environment, Crash
<1> QED
    BY <1>12, <1>13, <1>14 DEF Next

\* Running an interrupted pkgadd again never needs -o: what the database file
\* lists of a version, all of it, is no conflict with itself, whatever half of
\* its files is there (self_conflict, adjust_with_fs).
THEOREM RepeatingIsFree == Spec => []RepeatNeedsNoForce
<1>1. Init => Typed /\ Descriptions
    BY TypedInit DEF Init, NoProcess, Descriptions
<1>2. Typed /\ Descriptions /\ [Next]_vars => (Typed /\ Descriptions)'
    BY TypedStep, DescriptionsStep
<1>3. Typed /\ Descriptions => RepeatNeedsNoForce
    <2> SUFFICES ASSUME Typed, Descriptions, NEW d \in disk, PathsOf(d) = ArchPaths(d.version)
                 PROVE  Repeated(d.version) \subseteq {"PERM"}
        BY DEF RepeatNeedsNoForce
    <2> DEFINE a == d.version
    <2>1. a \in Archive /\ d.name = NameOf[a]
        BY DEF Typed, TypeOK, PkgDesc, Descriptions, Described
    <2>2. ArchPaths(a) \subseteq OldPaths(disk, a)
        BY <2>1 DEF OldPaths, Registered, Named
    <2> HIDE DEF a
    <2> DEFINE dbFlag(g) == IF g.path \in OldPaths(disk, a) THEN "SELF"
                            ELSE IF g.path \in Clash(disk, a) THEN "DB" ELSE "NONE"
    <2>3. ASSUME NEW f \in NewPkg(disk, a).files
          PROVE  f.conflict \notin {"DB", "FS"}
        <3>1. PICK g \in ListFiles(a) :
                f = AdjustWithFs([g EXCEPT !.conflict = dbFlag(g)], Entries[a][g.pos].attr)
            BY <2>3 DEF NewPkg
        <3>2. PICK i \in DOMAIN Entries[a] :
                g = [pos |-> i, path |-> Entries[a][i].path, kind |-> Entries[a][i].kind,
                     conflict |-> "NONE"]
            BY DEF ListFiles
        <3>3. g.path \in ArchPaths(a)
            BY <3>2 DEF ArchPaths
        <3>4. dbFlag(g) = "SELF"
            BY <2>2, <3>3
        <3> DEFINE h == [pos |-> i, path |-> Entries[a][i].path, kind |-> Entries[a][i].kind,
                         conflict |-> "SELF"]
        <3>5. f = AdjustWithFs(h, Entries[a][g.pos].attr)
            BY <3>1, <3>2, <3>4
        <3>6. \A x : AdjustWithFs(h, x).conflict \notin {"DB", "FS"}
            BY DEF AdjustWithFs
        <3> QED
            BY <3>5, <3>6
    <2> QED
        BY <2>3 DEF Repeated, ReportConflicts, a
<1> QED
    BY <1>1, <1>2, <1>3, PTL DEF Spec

-----------------------------------------------------------------------------
(* The copy of the database in memory.                                     *)

CopyAtNext == pc = "next" \/ (pc = "return" /\ ~Blocking(ret)) => pkg_db = disk
CopyAtDel ==
    pc = "del" =>
        /\ oldPaths = OldPaths(disk, Cur) /\ pkg.version = Cur
        /\ \E hit \in Hits(disk, Cur) :
              Others(pkg_db, pkg.name) = Others(FlaggedDb(disk, Cur, hit), pkg.name)
        /\ \A p \in Clash(disk, Cur) : "FORCE" \in opts \/ p \in oldPaths
        /\ \A f \in OldFiles :
              /\ f.path \in oldPaths
              /\ f.conflict = "NONE" => f.path \notin Registered(Others(disk, pkg.name)) \cup PathsOf(pkg)
CopyAtExtract == pc = "extract" => disk = Written(pkg_db)
CopyAtRemove ==
    pc = "rm" =>
        /\ Others(pkg_db, Cur) = Others(disk, Cur) /\ Named(disk, Cur) # {}
        /\ \A f \in RmFiles :
              f.path \in Registered(Named(disk, Cur)) /\ f.path \notin Registered(Others(disk, Cur))
Copied == CopyAtNext /\ CopyAtDel /\ CopyAtExtract /\ CopyAtRemove

\* What has no flag is written as it is.
LEMMA WrittenSame ==
    ASSUME NEW db \in SUBSET PkgDesc, NoFlags(db)
    PROVE  Written(db) = db /\ \A d \in db : Unflagged(d) = d
<1>1. ASSUME NEW d \in db
      PROVE  Unflagged(d) = d
    <2> DEFINE c == [p \in PathsOf(d) |-> "NONE"]
               Set(f) == [f EXCEPT !.conflict = IF f.path \in DOMAIN c THEN c[f.path] ELSE @]
    <2>1. \A f \in d.files : Set(f) = f
        <3> SUFFICES ASSUME NEW f \in d.files PROVE Set(f) = f
            OBVIOUS
        <3>1. f \in FileDesc /\ f.conflict = "NONE" /\ f.path \in PathsOf(d)
            BY DEF NoFlags, PkgDesc, PathsOf
        <3> QED
            BY <3>1 DEF FileDesc
    <2>2. Unflagged(d) = [d EXCEPT !.files = {Set(f) : f \in d.files}]
        BY DEF Unflagged, Flagged
    <2> HIDE DEF Set
    <2>3. {Set(f) : f \in d.files} = d.files
        BY <2>1
    <2> QED
        BY <2>2, <2>3 DEF PkgDesc
<1> QED
    BY <1>1 DEF Written

\* self_conflict and old_reference: what stays unflagged of the old version is
\* in no other package, and not in the new one.
LEMMA FlaggedOld ==
    ASSUME NEW db \in SUBSET PkgDesc, NEW a \in Archive, NEW hit,
           NEW f \in FilesOf(FlaggedDb(db, a, hit), NameOf[a])
    PROVE  /\ f.path \in OldPaths(db, a)
           /\ f.conflict = "NONE" => /\ f.path \notin Registered(Others(db, NameOf[a]))
                                     /\ f.path \notin ArchPaths(a)
<1> DEFINE n == NameOf[a]
           refs == Registered(Others(db, n))
           old == [p \in refs \cup ArchPaths(a) |-> IF p \in refs THEN "REF" ELSE "SELF"]
           other(d) == [p \in {q \in Clash(db, a) : hit[q] = d.name} |-> "DB"]
           Set(g) == [g EXCEPT !.conflict = IF g.path \in DOMAIN old THEN old[g.path] ELSE @]
<1>1. FlaggedDb(db, a, hit) =
        {Flagged(d, old) : d \in Named(db, n)} \cup {Flagged(d, other(d)) : d \in Others(db, n)}
    BY DEF FlaggedDb
<1>2. /\ \A p \in DOMAIN old : old[p] \in Conflict /\ old[p] # "NONE"
      /\ \A d : \A p \in DOMAIN other(d) : other(d)[p] \in Conflict
    BY DEF Conflict
<1>3. DOMAIN old = refs \cup ArchPaths(a)
    OBVIOUS
<1>4. \A d : Flagged(d, old) = [d EXCEPT !.files = {Set(g) : g \in d.files}]
    BY DEF Flagged
<1>5. \A g \in FileDesc : /\ Set(g).path = g.path
                          /\ g.path \in DOMAIN old => Set(g).conflict = old[g.path]
    BY DEF FileDesc
<1> HIDE DEF old, other, Set
<1>6. PICK e \in FlaggedDb(db, a, hit) : e.name = n /\ f \in e.files
    BY DEF FilesOf, Named
<1>7. \A d \in db : Flagged(d, other(d)).name = d.name
    BY <1>2, FlaggedFacts
<1>8. PICK d \in Named(db, n) : e = Flagged(d, old)
    BY <1>1, <1>6, <1>7 DEF Others
<1>9. d \in PkgDesc /\ d.files \subseteq FileDesc
    BY DEF Named, PkgDesc
<1>10. PICK g \in d.files : f = Set(g)
    BY <1>4, <1>6, <1>8, <1>9 DEF PkgDesc
<1>11. f.path = g.path /\ g.path \in PathsOf(d)
    BY <1>5, <1>9, <1>10 DEF PathsOf
<1>12. f.path \in OldPaths(db, a)
    BY <1>8, <1>11 DEF OldPaths, Registered
<1>13. f.path \in DOMAIN old => f.conflict # "NONE"
    BY <1>2, <1>5, <1>9, <1>10, <1>11
<1> QED
    BY <1>3, <1>12, <1>13

\* The list of a new package, entry by entry: which flag an entry has, and why.
LEMMA NewFileIs ==
    ASSUME NEW db, NEW a \in Archive
    PROVE  /\ \A i \in DOMAIN Entries[a] : \E f \in NewPkg(db, a).files : f.pos = i
           /\ \A f \in NewPkg(db, a).files :
                LET e == Entries[a][f.pos] IN
                /\ f.pos \in DOMAIN Entries[a] /\ f.path = e.path
                /\ f.conflict = "SELF" => f.path \in OldPaths(db, a)
                /\ f.conflict = "PERM" => e.kind = "dir"
                /\ f.conflict # "REF"
                /\ e.kind # "dir" /\ f.path \in Clash(db, a) \ OldPaths(db, a) => f.conflict = "DB"
                /\ Exists(f.path) /\ ~(e.kind = "dir" /\ fs[f.path].kind \in DirKind) =>
                      f.conflict # "NONE"
<1> DEFINE dbFlag(p) == IF p \in OldPaths(db, a) THEN "SELF"
                        ELSE IF p \in Clash(db, a) THEN "DB" ELSE "NONE"
           h(i) == [pos |-> i, path |-> Entries[a][i].path, kind |-> Entries[a][i].kind,
                    conflict |-> dbFlag(Entries[a][i].path)]
           new(i) == AdjustWithFs(h(i), Entries[a][i].attr)
<1>1. NewPkg(db, a).files = {new(i) : i \in DOMAIN Entries[a]}
    <2> DEFINE g(i) == [pos |-> i, path |-> Entries[a][i].path, kind |-> Entries[a][i].kind,
                        conflict |-> "NONE"]
               adj(x) == AdjustWithFs([x EXCEPT !.conflict = dbFlag(x.path)], Entries[a][x.pos].attr)
    <2>1. NewPkg(db, a).files = {adj(x) : x \in ListFiles(a)}
        BY DEF NewPkg
    <2>2. ListFiles(a) = {g(i) : i \in DOMAIN Entries[a]}
        BY DEF ListFiles
    <2>3. \A i \in DOMAIN Entries[a] : adj(g(i)) = new(i)
        <3> SUFFICES ASSUME NEW i \in DOMAIN Entries[a] PROVE adj(g(i)) = new(i)
            OBVIOUS
        <3>1. [g(i) EXCEPT !.conflict = dbFlag(g(i).path)] = h(i) /\ g(i).pos = i
            OBVIOUS
        <3> HIDE DEF g, h
        <3> QED
            BY <3>1
    <2> HIDE DEF adj, g, new
    <2> QED
        BY <2>1, <2>2, <2>3
<1>2. ASSUME NEW i \in DOMAIN Entries[a]
      PROVE  LET e == Entries[a][i]  f == new(i) IN
             /\ f.pos = i /\ f.path = e.path
             /\ f.conflict = "SELF" => f.path \in OldPaths(db, a)
             /\ f.conflict = "PERM" => e.kind = "dir"
             /\ f.conflict # "REF"
             /\ e.kind # "dir" /\ f.path \in Clash(db, a) \ OldPaths(db, a) => f.conflict = "DB"
             /\ Exists(f.path) /\ ~(e.kind = "dir" /\ fs[f.path].kind \in DirKind) =>
                   f.conflict # "NONE"
    <2> DEFINE g == h(i)
               x == Entries[a][i].attr
    <2>1. /\ g.pos = i /\ g.path = Entries[a][i].path /\ g.kind = Entries[a][i].kind
          /\ g.conflict = dbFlag(g.path)
          /\ g = [pos |-> g.pos, path |-> g.path, kind |-> g.kind, conflict |-> g.conflict]
        OBVIOUS
    <2> HIDE DEF g
    <2>2. /\ AdjustWithFs(g, x).pos = g.pos /\ AdjustWithFs(g, x).path = g.path
          /\ AdjustWithFs(g, x).conflict \in {g.conflict, "PERM", "FS", "NONE"}
          /\ AdjustWithFs(g, x).conflict = "PERM" => g.kind = "dir"
          /\ AdjustWithFs(g, x).conflict = "FS" => g.kind # "dir" /\ g.conflict \notin {"DB", "SELF"}
          /\ AdjustWithFs(g, x).conflict = "NONE" =>
                \/ g.conflict = "NONE" \/ (~Exists(g.path) /\ g.conflict = "SELF")
          /\ AdjustWithFs(g, x).conflict = "NONE" =>
                \/ ~Exists(g.path) \/ (g.kind = "dir" /\ fs[g.path].kind \in DirKind)
        BY <2>1 DEF AdjustWithFs, Links, DirKind
    <2>3. new(i) = AdjustWithFs(g, x)
        BY DEF g
    <2> QED
        BY <2>1, <2>2, <2>3
<1> HIDE DEF new
<1> QED
    BY <1>1, <1>2

LEMMA DeleteRefsLeave ==
    ASSUME NEW db \in SUBSET PkgDesc, NEW n, NEW f \in FilesOf(DeleteRefs(db, n), n)
    PROVE  f.path \in Registered(Named(db, n)) /\ f.path \notin Registered(Others(db, n))
<1> DEFINE Keep(d) == [d EXCEPT !.files = {g \in @ : g.path \notin Registered(Others(db, n))}]
<1>1. \A d \in db : /\ Keep(d).name = d.name
                     /\ Keep(d).files = {g \in d.files : g.path \notin Registered(Others(db, n))}
    BY DEF PkgDesc
<1>2. DeleteRefs(db, n) = Others(db, n) \cup {Keep(d) : d \in Named(db, n)}
    BY DEF DeleteRefs
<1> HIDE DEF Keep
<1>3. Named(DeleteRefs(db, n), n) = {Keep(d) : d \in Named(db, n)}
    BY <1>1, <1>2 DEF Named, Others
<1>4. PICK d \in Named(db, n) : f \in Keep(d).files
    BY <1>3 DEF FilesOf
<1>5. f \in d.files /\ f.path \notin Registered(Others(db, n))
    BY <1>1, <1>4 DEF Named
<1> QED
    BY <1>5 DEF Registered, PathsOf

\* What the options let pass at the checks.
LEMMA PassedChecks ==
    ASSUME NEW db, NEW a \in Archive, ~Blocking(ReportConflicts(NewPkg(db, a))),
           NEW f \in NewPkg(db, a).files
    PROVE  /\ f.conflict \in {"DB", "FS"} => "FORCE" \in opts
           /\ f.conflict = "PERM" => "FORCE_PERM" \in opts
BY DEF Blocking, ReportConflicts

LEMMA ClashPassed ==
    ASSUME NEW db, NEW a \in Archive, ~Blocking(ReportConflicts(NewPkg(db, a))),
           NEW p \in Clash(db, a)
    PROVE  "FORCE" \in opts \/ p \in OldPaths(db, a)
<1>1. PICK i \in DOMAIN Entries[a] : Entries[a][i].path = p /\ Entries[a][i].kind # "dir"
    BY DEF Clash
<1>2. PICK f \in NewPkg(db, a).files : f.pos = i
    BY NewFileIs
<1>3. p \notin OldPaths(db, a) => f.conflict = "DB"
    BY <1>1, <1>2, NewFileIs
<1> QED
    BY <1>3, PassedChecks

LEMMA CopiedStep == Typed /\ Tracked /\ Copied /\ [Next]_vars => Copied'
<1> SUFFICES ASSUME Typed, Tracked, Copied, [Next]_vars PROVE Copied'
    OBVIOUS
<1>0. pkg_db \in SUBSET PkgDesc /\ disk \in SUBSET PkgDesc /\ NoFlags(disk)
    BY DEF Typed, TypeOK, Tracked
<1>1. CASE pc' = "idle"
    BY <1>1 DEF Copied, CopyAtNext, CopyAtDel, CopyAtExtract, CopyAtRemove
<1>2. CASE pc' = "next" /\ pkg_db' = disk'
    BY <1>2 DEF Copied, CopyAtNext, CopyAtDel, CopyAtExtract, CopyAtRemove
<1>3. CASE pc' = "return" /\ (Blocking(ret)' \/ pkg_db' = disk')
    BY <1>3 DEF Copied, CopyAtNext, CopyAtDel, CopyAtExtract, CopyAtRemove
<1>4. CASE AddError
    <2>1. pc' = "return" /\ pkg_db' = disk'
        BY <1>4 DEF AddError, AtAdd, external, Copied, CopyAtNext
    <2> QED
        BY <1>3, <2>1
<1>5. CASE AddRefuse
    <2>1. pc' = "return" /\ Blocking(ret)'
        BY <1>5 DEF AddRefuse, Blocking
    <2> QED
        BY <1>3, <2>1
<1>6. CASE AddAccept
    <2> DEFINE n == NameOf[Cur]
    <2>1. /\ pc = "next" /\ pc' = "del" /\ Cur \in Archive /\ disk' = disk /\ opts' = opts /\ Cur' = Cur
          /\ pkg' = NewPkg(pkg_db, Cur) /\ oldPaths' = OldPaths(pkg_db, Cur) /\ pkg_db = disk
          /\ ~Blocking(ReportConflicts(NewPkg(pkg_db, Cur)))
        BY <1>6 DEF AddAccept, AtAdd, external, Cur, Copied, CopyAtNext
    <2>2. PICK hit \in Hits(disk, Cur) : pkg_db' = FlaggedDb(disk, Cur, hit)
        BY <1>6, <2>1 DEF AddAccept
    <2>3. pkg'.name = n /\ pkg'.version = Cur /\ PathsOf(pkg') = ArchPaths(Cur)
        BY <2>1, NewPkgFacts
    <2>4. OldFiles' = FilesOf(FlaggedDb(disk, Cur, hit), n)
        BY <2>2, <2>3 DEF OldFiles, FilesOf, Named
    <2>5. \A f \in OldFiles' :
              /\ f.path \in oldPaths'
              /\ f.conflict = "NONE" => f.path \notin Registered(Others(disk, n)) \cup PathsOf(pkg')
        BY <1>0, <2>1, <2>3, <2>4, FlaggedOld
    <2>6. \A p \in Clash(disk, Cur) : "FORCE" \in opts \/ p \in oldPaths'
        BY <2>1, ClashPassed
    <2>7. Hits(disk', Cur') = Hits(disk, Cur)
        BY <2>1
    <2>8. \E x \in Hits(disk, Cur)' : Others(pkg_db', pkg'.name) = Others(FlaggedDb(disk', Cur', x), pkg'.name)
        BY <2>1, <2>2, <2>3 DEF Hits
    <2>9. CopyAtDel'
        BY <2>1, <2>3, <2>5, <2>6, <2>8 DEF CopyAtDel, OldPaths, Clash, PathsOf, Registered
    <2> QED
        BY <2>1, <2>9 DEF Copied, CopyAtNext, CopyAtExtract, CopyAtRemove
<1>7. CASE DelOldFile
    <2>1. PICK f : pkg_db' = DropFile(pkg_db, pkg.name, f)
        BY <1>7 DEF DelOldFile
    <2>2. /\ pc = "del" /\ pc' = "del" /\ disk' = disk /\ opts' = opts /\ pkg' = pkg
          /\ oldPaths' = oldPaths /\ Cur' = Cur
        BY <1>7 DEF DelOldFile, Cur
    <2>3. /\ Others(pkg_db', pkg.name) = Others(pkg_db, pkg.name)
          /\ FilesOf(pkg_db', pkg.name) = FilesOf(pkg_db, pkg.name) \ {f}
        BY <1>0, <2>1, DropFacts
    <2>4. OldFiles' \subseteq OldFiles
        BY <2>2, <2>3 DEF OldFiles, FilesOf, Named
    <2>5. \E x \in Hits(disk, Cur)' : Others(pkg_db', pkg'.name) = Others(FlaggedDb(disk', Cur', x), pkg'.name)
        BY <2>2, <2>3 DEF Copied, CopyAtDel, Hits
    <2>6. CopyAtDel'
        BY <2>2, <2>4, <2>5 DEF Copied, CopyAtDel, OldPaths, Clash, PathsOf, Registered
    <2> QED
        BY <2>2, <2>6 DEF Copied, CopyAtNext, CopyAtExtract, CopyAtRemove
<1>8. CASE AddCommit
    BY <1>8 DEF AddCommit, Commit, Copied, CopyAtNext, CopyAtDel, CopyAtExtract, CopyAtRemove
<1>9. CASE SkipEntry \/ RejectEntry \/ InstallEntry \/ ExtractFails
    <2>1. pc' = "extract" /\ disk' = disk /\ pkg_db' = pkg_db /\ pc = "extract"
        BY <1>9 DEF SkipEntry, RejectEntry, InstallEntry, ExtractFails, Advance, AtEntry
    <2> QED
        BY <2>1 DEF Copied, CopyAtNext, CopyAtDel, CopyAtExtract, CopyAtRemove, Written
<1>10. CASE AddDone \/ ReadStops
    <2> DEFINE n == NameOf[Cur]
    <2>1. /\ pc = "extract" /\ pc' = "return" /\ disk' = disk
          /\ pkg_db' = Others(pkg_db, n) \cup {Unflagged(d) : d \in Named(pkg_db, n)}
        BY <1>10 DEF AddDone, ReadStops, AddReturns, AtEntry, external
    <2>2. NoFlags(Others(pkg_db, n)) /\ disk = Written(pkg_db)
        BY <2>1 DEF Tracked, AtExtract, Copied, CopyAtExtract
    <2>3. Others(pkg_db, n) \in SUBSET PkgDesc
        BY <1>0 DEF Others
    <2>4. \A d \in Others(pkg_db, n) : Unflagged(d) = d
        BY <2>2, <2>3, WrittenSame
    <2>5. pkg_db = Others(pkg_db, n) \cup Named(pkg_db, n)
        BY DEF Others, Named
    <2> HIDE DEF n
    <2>6. pkg_db' = disk'
        BY <2>1, <2>2, <2>4, <2>5 DEF Written
    <2> QED
        BY <1>3, <2>1, <2>6
<1>11. CASE AddReturn \/ RmUnknown
    <2>1. pc' = "next" /\ pkg_db' = disk'
        BY <1>11 DEF AddReturn, RmUnknown, AtRm, NextArg, external, Copied, CopyAtNext
    <2> QED
        BY <1>2, <2>1
<1>12. CASE RmStart
    <2>1. /\ pc' = "rm" /\ disk' = disk /\ Cur' = Cur /\ pkg_db = disk
          /\ pkg_db' = DeleteRefs(disk, Cur) /\ Named(disk, Cur) # {}
        BY <1>12 DEF RmStart, AtRm, external, Cur, Copied, CopyAtNext
    <2>2. Others(pkg_db', Cur) = Others(disk, Cur)
        BY <1>0, <2>1, DeleteRefsFacts
    <2>3. RmFiles' = FilesOf(DeleteRefs(disk, Cur), Cur)
        BY <2>1 DEF RmFiles, FilesOf, Named
    <2>4. \A f \in RmFiles' :
              f.path \in Registered(Named(disk, Cur)) /\ f.path \notin Registered(Others(disk, Cur))
        BY <1>0, <2>3, DeleteRefsLeave
    <2>5. CopyAtRemove'
        BY <2>1, <2>2, <2>4 DEF CopyAtRemove, Named, Others, Registered
    <2> QED
        BY <2>1, <2>5 DEF Copied, CopyAtNext, CopyAtDel, CopyAtExtract
<1>13. CASE RmFile
    <2>1. PICK f : pkg_db' = DropFile(pkg_db, Cur, f)
        BY <1>13 DEF RmFile
    <2>2. pc = "rm" /\ pc' = "rm" /\ disk' = disk /\ Cur' = Cur
        BY <1>13 DEF RmFile, Cur
    <2>3. /\ Others(pkg_db', Cur) = Others(pkg_db, Cur)
          /\ FilesOf(pkg_db', Cur) = FilesOf(pkg_db, Cur) \ {f}
        BY <1>0, <2>1, DropFacts
    <2>4. RmFiles' \subseteq RmFiles
        BY <2>2, <2>3 DEF RmFiles, FilesOf, Named
    <2>5. CopyAtRemove'
        BY <2>2, <2>3, <2>4 DEF Copied, CopyAtRemove, Named, Others, Registered
    <2> QED
        BY <2>2, <2>5 DEF Copied, CopyAtNext, CopyAtDel, CopyAtExtract
<1>14. CASE RmCommit
    <2>1. /\ pc = "rm" /\ pc' = "next" /\ pkg_db' = Others(pkg_db, Cur)
          /\ disk' = Written(Others(pkg_db, Cur))
        BY <1>14 DEF RmCommit, Commit
    <2>2. Others(pkg_db, Cur) \in SUBSET PkgDesc /\ NoFlags(Others(pkg_db, Cur))
        BY <1>0, <2>1 DEF Tracked, AtRemove, NoFlags, Others
    <2>3. pkg_db' = disk'
        BY <2>1, <2>2, WrittenSame
    <2> QED
        BY <1>2, <2>1, <2>3
<1>15. CASE StartAdd \/ StartRm
    <2>1. pc' = "next" /\ pkg_db' = disk'
        BY <1>15 DEF StartAdd, StartRm, Start, external
    <2> QED
        BY <1>2, <2>1
<1>16. ASSUME NEW p \in Path, UserPuts(p) \/ UserRemoves(p)
       PROVE  Copied'
    BY <1>1, <1>16 DEF UserPuts, UserRemoves, process
<1>17. CASE UNCHANGED vars
    <2>1. /\ UNCHANGED <<pc, ret, opts, disk, pkg_db, pkg, oldPaths, args>>
          /\ Cur' = Cur /\ OldFiles' = OldFiles /\ RmFiles' = RmFiles
        BY <1>17 DEF vars, process, Cur, OldFiles, RmFiles
    <2>2. CopyAtDel'
        <3> SUFFICES ASSUME pc = "del"
                     PROVE  CopyAtDel'
            BY <2>1 DEF CopyAtDel
        <3>1. CopyAtDel
            BY DEF Copied
        <3>2. PICK x \in Hits(disk, Cur) :
                 Others(pkg_db, pkg.name) = Others(FlaggedDb(disk, Cur, x), pkg.name)
            BY <3>1 DEF CopyAtDel
        <3>3. x \in Hits(disk, Cur)'
            BY <2>1 DEF Hits, Clash, Others, PathsOf, Registered
        <3>4. Others(pkg_db, pkg.name)' = Others(FlaggedDb(disk, Cur, x), pkg.name)'
            BY <3>2, <2>1
        <3>5. (\A p \in Clash(disk, Cur) : "FORCE" \in opts \/ p \in oldPaths)'
            BY <3>1, <2>1 DEF CopyAtDel
        <3>6. (oldPaths = OldPaths(disk, Cur) /\ pkg.version = Cur)'
            BY <3>1, <2>1 DEF CopyAtDel
        <3>7. (\A f \in OldFiles :
                  /\ f.path \in oldPaths
                  /\ f.conflict = "NONE" =>
                        f.path \notin Registered(Others(disk, pkg.name)) \cup PathsOf(pkg))'
            BY <3>1, <2>1 DEF CopyAtDel
        <3> QED
            BY <3>3, <3>4, <3>5, <3>6, <3>7 DEF CopyAtDel
    <2> QED
        BY <2>1, <2>2 DEF Copied, CopyAtNext, CopyAtExtract, CopyAtRemove, Blocking, Written
<1>18. CASE Exit
    BY <1>1, <1>18 DEF Exit
<1>19. CASE Step
    <2>1. CASE Finish \/ AddDie \/ CommitDie \/ AddExit
        BY <1>18, <2>1 DEF Finish, AddDie, CommitDie, AddExit
    <2> QED
        BY <1>4, <1>5, <1>6, <1>7, <1>8, <1>9, <1>10, <1>11, <1>12, <1>13, <1>14,
           <1>19, <2>1 DEF Step
<1>20. CASE Environment
    BY <1>15, <1>16, <1>18, <1>20 DEF Environment, Crash
<1> QED
    BY <1>17, <1>19, <1>20 DEF Next


-----------------------------------------------------------------------------
(* Removing files.                                                         *)

\* The steps that remove files of a package, and what each has at hand.
LEMMA Removals ==
    ASSUME Typed, [Next]_vars, pc \in {"del", "rm"}
    PROVE  \/ fs' = fs /\ leftover' \subseteq leftover
           \/ /\ pc = "del"
              /\ \E f \in LastOf(OldFiles) : f.conflict = "NONE" /\ RemovePath(f.path)
           \/ /\ pc = "rm"
              /\ \E f \in LastOf(RmFiles) : RemovePath(f.path)
<1>1. CASE DelOldFile
    BY <1>1 DEF DelOldFile
<1>2. CASE RmFile
    BY <1>2 DEF RmFile
<1>3. ASSUME Exit PROVE fs' = fs /\ leftover' \subseteq leftover
    BY <1>3 DEF Exit, external
<1>4. CASE Finish \/ AddDie \/ CommitDie \/ AddExit \/ Crash
    BY <1>3, <1>4 DEF Finish, AddDie, CommitDie, AddExit, Crash
<1>5. CASE AddCommit \/ RmCommit
    BY <1>5 DEF AddCommit, RmCommit, Commit
<1>6. CASE UNCHANGED vars
    BY <1>6 DEF vars
<1>7. CASE SkipEntry \/ RejectEntry \/ InstallEntry \/ ExtractFails
    BY <1>7 DEF SkipEntry, RejectEntry, InstallEntry, ExtractFails, AtEntry
<1>8. CASE AddError \/ AddRefuse \/ AddAccept \/ AddDone \/ ReadStops \/ AddReturn \/ RmUnknown \/ RmStart
    BY <1>8 DEF AddError, AddRefuse, AddAccept, AddDone, ReadStops, AddReturns, AtEntry,
                AddReturn, RmUnknown, RmStart, AtAdd, AtRm
<1>9. CASE Environment /\ ~Crash
    BY <1>9 DEF Environment, StartAdd, StartRm, Start, UserPuts, UserRemoves
<1> QED
    BY <1>1, <1>2, <1>4, <1>5, <1>6, <1>7, <1>8, <1>9 DEF Next, Step, Environment

\* What remove(3) of a path takes away, and when it fails.
LEMMA RemovePathTakes ==
    ASSUME TypeOK, NEW p \in Path, RemovePath(p)
    PROVE  /\ \A q \in Path : Exists(q) /\ ~Exists(q)' => q = p \/ p \in Anc[q]
           /\ \A q \in leftover' \ leftover :
                 q = p /\ (p \in Stuck \/ \E c \in Children(p) : p \in Anc[c])
<1>1. fs \in FileSystem
    BY DEF TypeOK, FileSystem
<1>2. CASE Removable(p)
    BY <1>1, <1>2, WithoutFacts DEF RemovePath, Exists
<1>3. CASE ~Removable(p)
    BY <1>3 DEF RemovePath, Exists, Removable, Children
<1> QED
    BY <1>2, <1>3

LEMMA OwnerStep == Typed /\ Copied /\ [Next]_vars => OwnerRemoves
<1> SUFFICES ASSUME Typed, Copied, [Next]_vars, pc \in {"del", "rm"},
                    NEW p \in Path, Exists(p) /\ ~Exists(p)'
             PROVE  \E q \in {p} \cup Anc[p] :
                      /\ q \in Registered(Named(disk, Doomed))
                      /\ q \notin Registered(Others(disk, Doomed))
                      /\ pc = "del" => q \notin PathsOf(pkg)
    BY DEF OwnerRemoves
<1>0. TypeOK /\ pkg_db \in SUBSET PkgDesc
    BY DEF Typed, TypeOK
<1>1. fs' # fs
    BY DEF Exists
<1>2. CASE pc = "del"
    <2>1. PICK f \in LastOf(OldFiles) : f.conflict = "NONE" /\ RemovePath(f.path)
        BY <1>1, <1>2, Removals
    <2>2. f \in OldFiles /\ f.path \in Path
        BY <1>0, <2>1 DEF LastOf, OldFiles, Named, PkgDesc, FileDesc
    <2>3. p = f.path \/ f.path \in Anc[p]
        BY <1>0, <2>1, <2>2, RemovePathTakes
    <2>4. /\ f.path \in OldPaths(disk, Cur) /\ pkg.name = NameOf[Cur]
          /\ f.path \notin Registered(Others(disk, pkg.name)) \cup PathsOf(pkg)
        BY <1>2, <2>1, <2>2 DEF Copied, CopyAtDel, Typed, Located
    <2> QED
        BY <1>2, <2>3, <2>4 DEF Doomed, OldPaths
<1>3. CASE pc = "rm"
    <2>1. PICK f \in LastOf(RmFiles) : RemovePath(f.path)
        BY <1>1, <1>3, Removals
    <2>2. f \in RmFiles /\ f.path \in Path
        BY <1>0, <2>1 DEF LastOf, RmFiles, Named, PkgDesc, FileDesc
    <2>3. p = f.path \/ f.path \in Anc[p]
        BY <1>0, <2>1, <2>2, RemovePathTakes
    <2>4. f.path \in Registered(Named(disk, Cur)) /\ f.path \notin Registered(Others(disk, Cur))
        BY <1>3, <2>2 DEF Copied, CopyAtRemove
    <2> QED
        BY <1>3, <2>3, <2>4 DEF Doomed
<1> QED
    BY <1>2, <1>3

LEMMA LeftoverStep ==
    Typed /\ UniqueNames /\ Descriptions /\ [Next]_vars => NeededLeftover
<1> SUFFICES ASSUME Typed, UniqueNames, Descriptions, [Next]_vars,
                    NEW p \in leftover' \ leftover, p \notin Stuck
             PROVE  \E q \in Children(p) : \A f \in IF pc = "del" THEN OldFiles ELSE RmFiles :
                       f.path # q
    BY DEF NeededLeftover
<1>0. TypeOK /\ pkg_db \in SUBSET PkgDesc
    BY DEF Typed, TypeOK
<1>1. pc \in {"del", "rm"}
    <2>1. CASE Exit \/ UNCHANGED vars
        BY <2>1 DEF Exit, external, vars
    <2>2. CASE DelOldFile \/ RmFile \/ AddCommit \/ RmCommit
        BY <2>2 DEF DelOldFile, RmFile, AddCommit, RmCommit
    <2>3. CASE SkipEntry \/ RejectEntry \/ InstallEntry \/ ExtractFails
        BY <2>3 DEF SkipEntry, RejectEntry, InstallEntry, ExtractFails, Advance
    <2>4. CASE AddError \/ AddRefuse \/ AddAccept \/ AddDone \/ ReadStops \/ AddReturn \/ RmUnknown \/ RmStart
        BY <2>4 DEF AddError, AddRefuse, AddAccept, AddDone, ReadStops, AddReturns, AtEntry,
                    AddReturn, RmUnknown, RmStart,
                    NextArg, external
    <2>5. CASE Environment /\ ~Crash
        BY <2>5 DEF Environment, StartAdd, StartRm, Start, external, UserPuts, UserRemoves
    <2> QED
        BY <2>1, <2>2, <2>3, <2>4, <2>5
           DEF Next, Step, Environment, Finish, AddDie, CommitDie, AddExit, Crash
<1> DEFINE files == IF pc = "del" THEN OldFiles ELSE RmFiles
<1>2. PICK f \in LastOf(files) : RemovePath(f.path)
    BY <1>1, Removals
<1>3. PICK n : files = FilesOf(pkg_db, n)
    BY DEF FilesOf, OldFiles, RmFiles
<1> HIDE DEF files
<1>4. f \in files /\ f.path \in Path /\ f.pos \in Nat
    BY <1>0, <1>2, <1>3 DEF LastOf, FilesOf, Named, PkgDesc, FileDesc
<1>5. PICK q \in Children(p) : p \in Anc[q] /\ p = f.path
    BY <1>0, <1>2, <1>4, RemovePathTakes
<1>6. \A g \in files : g.path # q
    <2> SUFFICES ASSUME NEW g \in files, g.path = q PROVE FALSE
        OBVIOUS
    <2>1. PICK d \in Named(pkg_db, n) : f \in d.files
        BY <1>3, <1>4 DEF FilesOf
    <2>2. PICK e \in Named(pkg_db, n) : g \in e.files
        BY <1>3 DEF FilesOf
    <2>3. d = e /\ Described(d)
        BY DEF Named, UniqueNames, Descriptions
    <2>4. f.pos < g.pos
        BY <1>5, <2>1, <2>2, <2>3 DEF Described
    <2>5. g.pos <= f.pos /\ g.pos \in Nat
        BY <1>0, <1>2, <2>2 DEF LastOf, Named, PkgDesc, FileDesc
    <2> QED
        BY <1>4, <2>4, <2>5
<1> QED
    BY <1>6 DEF files


-----------------------------------------------------------------------------
(* The database file implements the registry.                              *)

Record(d) == [name |-> d.name, version |-> d.version, paths |-> PathsOf(d)]
Records(db) == {Record(d) : d \in db}

\* cleanup_pkg_db leaves a description what db_conflict did not flag.
LEMMA CleanedIs ==
    ASSUME NEW d \in PkgDesc, \A f \in d.files : f.conflict = "NONE", NEW S
    PROVE  LET e == Flagged(d, [p \in S |-> "DB"]) IN
           Record([e EXCEPT !.files = {f \in @ : f.conflict = "NONE"}]) =
             [name |-> d.name, version |-> d.version, paths |-> PathsOf(d) \ S]
<1> DEFINE c == [p \in S |-> "DB"]
           Set(f) == [f EXCEPT !.conflict = IF f.path \in S THEN "DB" ELSE @]
           e == Flagged(d, c)
           clean == [e EXCEPT !.files = {f \in @ : f.conflict = "NONE"}]
<1>1. \A f \in d.files : /\ Set(f).path = f.path
                         /\ Set(f).conflict = "NONE" <=> f.path \notin S
    <2> SUFFICES ASSUME NEW f \in d.files
                 PROVE  /\ Set(f).path = f.path
                        /\ Set(f).conflict = "NONE" <=> f.path \notin S
        OBVIOUS
    <2>1. f \in FileDesc
        BY DEF PkgDesc
    <2> QED
        BY <2>1 DEF FileDesc
<1>2. e = [d EXCEPT !.files = {Set(f) : f \in d.files}]
    <2> DEFINE Raw(f) == [f EXCEPT !.conflict = IF f.path \in DOMAIN c THEN c[f.path] ELSE @]
    <2>1. \A f \in d.files : Raw(f) = Set(f)
        OBVIOUS
    <2>2. e = [d EXCEPT !.files = {Raw(f) : f \in d.files}]
        BY DEF Flagged
    <2> HIDE DEF c, Set, Raw, e
    <2>3. {Raw(f) : f \in d.files} = {Set(f) : f \in d.files}
        BY <2>1
    <2> QED
        BY <2>2, <2>3
<1> HIDE DEF Set, e
<1>3. e.name = d.name /\ e.version = d.version /\ e.files = {Set(f) : f \in d.files}
      /\ e = [name |-> d.name, version |-> d.version, files |-> {Set(f) : f \in d.files}]
    BY <1>2 DEF PkgDesc
<1>4. clean.name = d.name /\ clean.version = d.version
      /\ clean.files = {f \in {Set(g) : g \in d.files} : f.conflict = "NONE"}
    BY <1>3
<1> HIDE DEF clean
<1>5. PathsOf(clean) = PathsOf(d) \ S
    BY <1>1, <1>4 DEF PathsOf
<1> QED
    BY <1>4, <1>5 DEF clean, e, Record

\* What the others keep when the new package is committed.
LEMMA CommittedOthers ==
    ASSUME NEW db \in SUBSET PkgDesc, NoFlags(db), NEW a \in Archive, NEW hit
    PROVE  Records(Written(CleanupDb(Others(FlaggedDb(db, a, hit), NameOf[a])))) =
             {[name |-> d.name, version |-> d.version,
               paths |-> PathsOf(d) \ {q \in Clash(db, a) : hit[q] = d.name}] :
                 d \in Others(db, NameOf[a])}
<1> DEFINE n == NameOf[a]
           refs == Registered(Others(db, n))
           old == [p \in refs \cup ArchPaths(a) |-> IF p \in refs THEN "REF" ELSE "SELF"]
           lost(d) == {q \in Clash(db, a) : hit[q] = d.name}
           other(d) == [p \in lost(d) |-> "DB"]
           Clean(d) == [d EXCEPT !.files = {f \in @ : f.conflict = "NONE"}]
           flagged == Others(FlaggedDb(db, a, hit), n)
           rest(d) == [name |-> d.name, version |-> d.version, paths |-> PathsOf(d) \ lost(d)]
<1>1. FlaggedDb(db, a, hit) =
        {Flagged(d, old) : d \in Named(db, n)} \cup {Flagged(d, other(d)) : d \in Others(db, n)}
    BY DEF FlaggedDb
<1>2. /\ \A p \in DOMAIN old : old[p] \in Conflict
      /\ \A d : \A p \in DOMAIN other(d) : other(d)[p] \in Conflict
    BY DEF Conflict
<1> HIDE DEF old
<1>3. \A d \in db : Record(Clean(Flagged(d, other(d)))) = rest(d)
    <2> SUFFICES ASSUME NEW d \in db PROVE Record(Clean(Flagged(d, other(d)))) = rest(d)
        OBVIOUS
    <2>1. d \in PkgDesc /\ \A f \in d.files : f.conflict = "NONE"
        BY DEF NoFlags
    <2> HIDE DEF lost
    <2> QED
        BY <2>1, CleanedIs
<1> HIDE DEF other
<1>4. \A d \in db : Flagged(d, old).name = d.name /\ Flagged(d, other(d)).name = d.name
    BY <1>2, FlaggedFacts
<1>5. flagged = {Flagged(d, other(d)) : d \in Others(db, n)}
    BY <1>1, <1>4 DEF Named, Others
<1>6. flagged \in SUBSET PkgDesc
    BY FlaggedDbFacts DEF Others
<1>7. Written(CleanupDb(flagged)) = CleanupDb(flagged)
    BY <1>6, CleanupFacts, WrittenSame
<1>8. CleanupDb(flagged) = {Clean(e) : e \in flagged}
    BY DEF CleanupDb
<1> HIDE DEF Clean, flagged, rest
<1>9. Records(CleanupDb(flagged)) = {Record(Clean(Flagged(d, other(d)))) : d \in Others(db, n)}
    <2>1. CleanupDb(flagged) = {Clean(Flagged(d, other(d))) : d \in Others(db, n)}
        BY <1>5, <1>8
    <2> HIDE DEF n
    <2> QED
        BY <2>1 DEF Records
<1>10. Records(CleanupDb(flagged)) = {rest(d) : d \in Others(db, n)}
    BY <1>3, <1>9 DEF Others
<1> QED
    BY <1>7, <1>10 DEF flagged, rest

LEMMA AddCommitInstalls ==
    ASSUME Typed, Tracked, Copied, AddCommit
    PROVE  Reg!Install(Cur) /\ Cur \in Archive
<1> DEFINE n == NameOf[Cur]
<1>1. /\ pc = "del" /\ Cur \in Archive /\ pkg \in PkgDesc /\ pkg.name = n /\ pkg.version = Cur
      /\ PathsOf(pkg) = ArchPaths(Cur) /\ disk \in SUBSET PkgDesc /\ pkg_db \in SUBSET PkgDesc
      /\ NoFlags(disk)
    BY DEF AddCommit, Typed, TypeOK, Located, Copied, CopyAtDel, Tracked
<1>2. PICK hit \in Hits(disk, Cur) : Others(pkg_db, n) = Others(FlaggedDb(disk, Cur, hit), n)
    BY <1>1 DEF Copied, CopyAtDel
<1> DEFINE lost(m) == {q \in Clash(disk, Cur) : hit[q] = m}
           left == {r \in registry : r.name # n}
           kept == [r \in left |-> r.paths \ lost(r.name)]
           new == [name |-> n, version |-> Cur, paths |-> ArchPaths(Cur)]
<1>3. registry' = {[r EXCEPT !.paths = kept[r]] : r \in left} \cup {new}
    <2>1. disk' = Written(CleanupDb(Others(pkg_db, n))) \cup {Unflagged(pkg)}
        BY <1>1 DEF AddCommit, Commit, Written
    <2>2. Record(Unflagged(pkg)) = new
        BY <1>1, UnflaggedFacts DEF Record
    <2>3. Records(Written(CleanupDb(Others(pkg_db, n)))) =
            {[name |-> d.name, version |-> d.version, paths |-> PathsOf(d) \ lost(d.name)] :
                d \in Others(disk, n)}
        BY <1>1, <1>2, CommittedOthers
    <2>4. left = {Record(d) : d \in Others(disk, n)}
        BY DEF registry, Record, Others
    <2>5. \A d \in Others(disk, n) :
            [Record(d) EXCEPT !.paths = kept[Record(d)]] =
              [name |-> d.name, version |-> d.version, paths |-> PathsOf(d) \ lost(d.name)]
        <3> SUFFICES ASSUME NEW d \in Others(disk, n)
                     PROVE  [Record(d) EXCEPT !.paths = kept[Record(d)]] =
                              [name |-> d.name, version |-> d.version,
                               paths |-> PathsOf(d) \ lost(d.name)]
            OBVIOUS
        <3>1. Record(d) \in left
            BY <2>4
        <3>2. kept[Record(d)] = PathsOf(d) \ lost(d.name)
            BY <3>1 DEF Record
        <3> HIDE DEF kept, lost
        <3> QED
            BY <3>2 DEF Record
    <2> HIDE DEF left, kept, new, lost
    <2>6. {[r EXCEPT !.paths = kept[r]] : r \in left} =
            {[Record(d) EXCEPT !.paths = kept[Record(d)]] : d \in Others(disk, n)}
        BY <2>4
    <2>7. {[r EXCEPT !.paths = kept[r]] : r \in left} = Records(Written(CleanupDb(Others(pkg_db, n))))
        <3>1. {[Record(d) EXCEPT !.paths = kept[Record(d)]] : d \in Others(disk, n)} =
                {[name |-> d.name, version |-> d.version, paths |-> PathsOf(d) \ lost(d.name)] :
                    d \in Others(disk, n)}
            <4> DEFINE put(d) == [Record(d) EXCEPT !.paths = kept[Record(d)]]
                       rest(d) == [name |-> d.name, version |-> d.version,
                                   paths |-> PathsOf(d) \ lost(d.name)]
            <4>1. \A d \in Others(disk, n) : put(d) = rest(d)
                BY <2>5
            <4> HIDE DEF put, rest
            <4>2. {put(d) : d \in Others(disk, n)} = {rest(d) : d \in Others(disk, n)}
                BY <4>1
            <4> QED
                BY <4>2 DEF put, rest
        <3> QED
            BY <2>3, <2>6, <3>1
    <2>8. registry' = {Record(d) : d \in disk'}
        BY DEF registry, Record, PathsOf
    <2> QED
        BY <2>1, <2>2, <2>7, <2>8 DEF Records
<1>4. \A r \in left : r.paths \subseteq Path
    <2>1. \A d \in disk : PathsOf(d) \subseteq Path
        BY <1>1 DEF PathsOf, PkgDesc, FileDesc
    <2> QED
        BY <2>1 DEF registry
<1>5. ASSUME NEW r \in left, NEW p \in r.paths, p \in lost(r.name)
      PROVE  /\ p \in ArchPaths(Cur)
             /\ \A i \in DOMAIN Entries[Cur] : Entries[Cur][i].path = p => Entries[Cur][i].kind # "dir"
             /\ "FORCE" \in opts \/ \E o \in registry : o.name = n /\ p \in o.paths
    <2>1. p \in Clash(disk, Cur)
        BY <1>5
    <2>2. PICK i \in DOMAIN Entries[Cur] : Entries[Cur][i].path = p /\ Entries[Cur][i].kind # "dir"
        BY <2>1 DEF Clash
    <2>3. "FORCE" \in opts \/ p \in Registered(Named(disk, n))
        BY <1>1, <2>1 DEF Copied, CopyAtDel, OldPaths
    <2>4. ASSUME p \in Registered(Named(disk, n))
          PROVE  \E o \in registry : o.name = n /\ p \in o.paths
        <3>1. PICK d \in disk : d.name = n /\ p \in PathsOf(d)
            BY <2>4 DEF Registered, Named
        <3>2. Record(d) \in registry /\ Record(d).name = n /\ p \in Record(d).paths
            BY <3>1 DEF registry, Record
        <3> QED
            BY <3>2
    <2> QED
        BY <1>1, <2>2, <2>3, <2>4, EntriesDiffer DEF ArchPaths
<1> HIDE DEF lost
<1>6. kept \in [left -> SUBSET Path]
    BY <1>4
<1>7. \A r \in left :
        /\ kept[r] \subseteq r.paths
        /\ r.paths \ kept[r] \subseteq
             {p \in r.paths \cap ([a \in Archive |-> ArchPaths(a)][Cur] \
                  [a \in Archive |-> {Entries[a][i].path :
                       i \in {j \in DOMAIN Entries[a] : Entries[a][j].kind = "dir"}}][Cur]) :
                "FORCE" \in opts \/ \E o \in registry : o.name = NameOf[Cur] /\ p \in o.paths}
    BY <1>1, <1>5
<1> HIDE DEF left, kept
<1>8. registry' = {[r EXCEPT !.paths = kept[r]] : r \in left} \cup
                    {[name |-> NameOf[Cur], version |-> Cur,
                      paths |-> [a \in Archive |-> ArchPaths(a)][Cur]]}
    BY <1>1, <1>3
<1>9. DOMAIN kept = left
    BY DEF kept
<1> QED
    BY <1>1, <1>6, <1>7, <1>8, <1>9 DEF Reg!Install, Reg!MayLose, left

LEMMA RmCommitRemoves ==
    ASSUME Typed, Tracked, Copied, RmCommit
    PROVE  Reg!Remove(Cur) /\ Cur \in Name
<1>1. /\ pc = "rm" /\ disk \in SUBSET PkgDesc /\ NoFlags(disk)
      /\ Others(pkg_db, Cur) = Others(disk, Cur) /\ Named(disk, Cur) # {}
    BY DEF RmCommit, Typed, TypeOK, Copied, CopyAtRemove, Tracked
<1>2. Cur \in Name
    BY <1>1, TailFacts DEF Typed, Located, Cur
<1>3. Others(disk, Cur) \in SUBSET PkgDesc /\ NoFlags(Others(disk, Cur))
    BY <1>1 DEF Others, NoFlags
<1>4. disk' = Others(disk, Cur)
    BY <1>1, <1>3, WrittenSame DEF RmCommit, Commit
<1>5. registry' = {Record(d) : d \in Others(disk, Cur)}
    BY <1>4 DEF registry, Record, PathsOf
<1>6. registry' = {r \in registry : r.name # Cur}
    BY <1>5 DEF registry, Record, Others
<1>7. \E r \in registry : r.name = Cur
    <2>1. PICK d \in disk : d.name = Cur
        BY <1>1 DEF Named
    <2>2. Record(d) \in registry /\ Record(d).name = Cur
        BY <2>1 DEF registry, Record
    <2> QED
        BY <2>2
<1> QED
    BY <1>2, <1>6, <1>7 DEF Reg!Remove

LEMMA RegistryStep == Typed /\ Tracked /\ Copied /\ [Next]_vars => [Reg!Next]_registry
<1> SUFFICES ASSUME Typed, Tracked, Copied, [Next]_vars PROVE [Reg!Next]_registry
    OBVIOUS
<1>1. CASE disk' = disk
    BY <1>1 DEF registry, PathsOf
<1>2. CASE AddCommit
    BY <1>2, AddCommitInstalls DEF Reg!Next
<1>3. CASE RmCommit
    BY <1>3, RmCommitRemoves DEF Reg!Next
<1>4. CASE ~(AddCommit \/ RmCommit)
    <2>1. CASE Exit \/ UNCHANGED vars
        BY <1>1, <2>1 DEF Exit, external, vars
    <2>2. CASE DelOldFile \/ RmFile
        BY <1>1, <2>2 DEF DelOldFile, RmFile
    <2>3. CASE SkipEntry \/ RejectEntry \/ InstallEntry \/ ExtractFails
        BY <1>1, <2>3 DEF SkipEntry, RejectEntry, InstallEntry, ExtractFails, Advance
    <2>4. CASE AddError \/ AddRefuse \/ AddAccept \/ AddDone \/ ReadStops \/ AddReturn \/ RmUnknown \/ RmStart
        BY <1>1, <2>4 DEF AddError, AddRefuse, AddAccept, AddDone, ReadStops, AddReturns, AtEntry,
                          AddReturn, RmUnknown, RmStart,
                          NextArg, external
    <2>5. CASE Environment /\ ~Crash
        BY <1>1, <2>5 DEF Environment, StartAdd, StartRm, Start, external, UserPuts, UserRemoves
    <2> QED
        BY <1>4, <2>1, <2>2, <2>3, <2>4, <2>5
           DEF Next, Step, Environment, Finish, AddDie, CommitDie, AddExit, Crash
<1> QED
    BY <1>2, <1>3, <1>4


-----------------------------------------------------------------------------
(* The list of the new package, while it is installed.                     *)

NewFiles == IF pc = "del" THEN pkg.files ELSE FilesOf(pkg_db, NameOf[Cur])

\* Something lies at the path that the entry does not merely merge into.
InTheWay(e) == Exists(e.path) /\ ~Merges(e)

\* Why the checks let the flag of f pass, and that f still has one if
\* extracting its entry will replace something.
Passed(f) ==
    /\ f \in FileDesc /\ f.pos \in DOMAIN Entries[Cur] /\ f.path = Entries[Cur][f.pos].path
    /\ f.conflict = "SELF" => f.path \in oldPaths
    /\ f.conflict \in {"DB", "FS"} => "FORCE" \in opts
    /\ f.conflict = "PERM" => "FORCE_PERM" \in opts /\ Entries[Cur][f.pos].kind = "dir"
    /\ f.conflict # "REF"
    /\ (pc = "del" \/ next <= f.pos) /\ InTheWay(Entries[Cur][f.pos]) => f.conflict # "NONE"

\* The file list and the archive have the same positions.
Known ==
    pc \in {"del", "extract"} =>
        /\ \A f \in NewFiles : Passed(f)
        /\ \A i \in DOMAIN Entries[Cur] : \E f \in NewFiles : f.pos = i

\* Extracting an entry leaves the paths of the other entries alone, apart from
\* making a directory that was missing.
LEMMA EntriesApart ==
    ASSUME fs \in FileSystem, NEW a \in Archive,
           NEW i \in DOMAIN Entries[a], NEW j \in DOMAIN Entries[a], i # j
    PROVE  LET e == Entries[a][i]  p == Entries[a][j].path  x == Extracted(e, a) IN
           /\ p # e.path
           /\ i < j => x[p] \in {Absent, fs[p]} /\ Without(e.path)[p] \in {Absent, fs[p]}
           /\ j < i /\ Exists(p) => x[p] = fs[p] /\ Without(e.path)[p] = fs[p]
<1> DEFINE e == Entries[a][i]
           p == Entries[a][j].path
<1>1. e.path \in Path /\ p \in Path /\ p # e.path /\ i \in Nat /\ j \in Nat
    BY EntryType, EntriesDiffer
<1>2. Extracted(e, a)[p] = IF ~Merges(e) /\ e.path \in Anc[p] THEN Absent
                           ELSE IF p \in Anc[e.path] /\ ~Exists(p) THEN Made(e, "dir", a) ELSE fs[p]
    BY <1>1, ExtractedIs
<1>3. Without(e.path)[p] = IF e.path \in Anc[p] THEN Absent ELSE fs[p]
    BY <1>1, WithoutFacts
<1>4. i < j => p \notin Anc[e.path]
    <2> SUFFICES ASSUME i < j, p \in Anc[e.path] PROVE FALSE
        OBVIOUS
    <2>1. PICK k \in DOMAIN Entries[a] : k < i /\ Entries[a][k].path = p
        BY <1>1, DirsFirst
    <2>2. k = j
        BY <2>1, EntriesDiffer
    <2> QED
        BY <1>1, <2>1, <2>2
<1>5. j < i => e.path \notin Anc[p]
    <2> SUFFICES ASSUME j < i, e.path \in Anc[p] PROVE FALSE
        OBVIOUS
    <2>1. PICK k \in DOMAIN Entries[a] : k < j /\ Entries[a][k].path = e.path
        BY <1>1, DirsFirst
    <2>2. k = i
        BY <2>1, EntriesDiffer
    <2> QED
        BY <1>1, <2>1, <2>2
<1> HIDE DEF e, p
<1>6. /\ i < j => Extracted(e, a)[p] \in {Absent, fs[p]} /\ Without(e.path)[p] \in {Absent, fs[p]}
      /\ j < i /\ Exists(p) => Extracted(e, a)[p] = fs[p] /\ Without(e.path)[p] = fs[p]
    BY <1>2, <1>3, <1>4, <1>5
<1> QED
    BY <1>1, <1>6 DEF e, p

\* The entry that extract_files is at, and its step on to the next.
LEMMA AtEntryFacts ==
    ASSUME Typed, AtEntry
    PROVE  /\ Cur \in Archive /\ next \in DOMAIN Entries[Cur] /\ EntryNow = Entries[Cur][next]
           /\ next \in Nat /\ EntryNow.path \in Path /\ EntryNow.kind \in {"dir", "file"}
           /\ pc = "extract" /\ fs \in FileSystem
BY EntryType DEF Typed, TypeOK, Located, AtEntry, EntryNow, FileSystem

\* As long as the list, the command line and the way are the same or clearer.
LEMMA PassedStays ==
    ASSUME NEW f, Passed(f), Cur' = Cur, opts' = opts, oldPaths' = oldPaths,
           pc' = "del" \/ next' <= f.pos => pc = "del" \/ next <= f.pos,
           pc' = "del" \/ next' <= f.pos => fs'[f.path] \in {Absent, fs[f.path]}
    PROVE  Passed(f)'
<1> DEFINE e == Entries[Cur][f.pos]
<1>1. e.path = f.path /\ e' = e
    BY DEF Passed
<1>2. pc' = "del" \/ next' <= f.pos => (InTheWay(e)' => InTheWay(e))
    <2> HIDE DEF e
    <2> QED
        BY <1>1 DEF InTheWay, Merges, Exists
<1> QED
    BY <1>2 DEF Passed

LEMMA KnownStep == Typed /\ Copied /\ Known /\ [Next]_vars => Known'
<1> SUFFICES ASSUME Typed, Copied, Known, [Next]_vars PROVE Known'
    OBVIOUS
<1>0. pkg_db \in SUBSET PkgDesc /\ fs \in FileSystem
    BY DEF Typed, TypeOK, FileSystem
<1>1. CASE pc' \notin {"del", "extract"}
    BY <1>1 DEF Known
<1>2. CASE AddAccept
    <2>1. /\ pc' = "del" /\ Cur \in Archive /\ opts' = opts /\ Cur' = Cur /\ fs' = fs
          /\ pkg' = NewPkg(pkg_db, Cur) /\ oldPaths' = OldPaths(pkg_db, Cur)
          /\ ~Blocking(ReportConflicts(NewPkg(pkg_db, Cur)))
        BY <1>2 DEF AddAccept, AtAdd, external, Cur
    <2>2. NewFiles' = NewPkg(pkg_db, Cur).files
        BY <2>1 DEF NewFiles
    <2>3. ASSUME NEW f \in NewPkg(pkg_db, Cur).files
          PROVE  Passed(f)'
        <3>1. f \in FileDesc
            BY <2>1, NewPkgFacts DEF PkgDesc
        <3>2. /\ f.pos \in DOMAIN Entries[Cur] /\ f.path = Entries[Cur][f.pos].path
              /\ f.conflict = "SELF" => f.path \in OldPaths(pkg_db, Cur)
              /\ f.conflict = "PERM" => Entries[Cur][f.pos].kind = "dir"
              /\ f.conflict # "REF"
              /\ InTheWay(Entries[Cur][f.pos]) => f.conflict # "NONE"
            BY <2>1, NewFileIs DEF InTheWay, Merges
        <3>3. InTheWay(Entries[Cur][f.pos])' <=> InTheWay(Entries[Cur][f.pos])
            BY <2>1 DEF InTheWay, Merges, Exists
        <3>4. /\ f.conflict \in {"DB", "FS"} => "FORCE" \in opts
              /\ f.conflict = "PERM" => "FORCE_PERM" \in opts
            BY <2>1, PassedChecks
        <3> QED
            BY <2>1, <3>1, <3>2, <3>3, <3>4 DEF Passed
    <2>4. \A i \in DOMAIN Entries[Cur] : \E f \in NewPkg(pkg_db, Cur).files : f.pos = i
        BY <2>1, NewFileIs
    <2> QED
        BY <2>1, <2>2, <2>3, <2>4 DEF Known
<1>3. CASE DelOldFile
    <2>1. /\ pc = "del" /\ pc' = "del" /\ Cur' = Cur /\ opts' = opts /\ oldPaths' = oldPaths
          /\ pkg' = pkg /\ NewFiles' = NewFiles
        BY <1>3 DEF DelOldFile, Cur, NewFiles
    <2>2. PICK g \in OldFiles : RemovePath(g.path) \/ fs' = fs
        BY <1>3 DEF DelOldFile, LastOf
    <2>3. g.path \in Path
        BY <1>0 DEF OldFiles, Named, PkgDesc, FileDesc
    <2>4. \A p \in Path : fs'[p] \in {Absent, fs[p]}
        BY <1>0, <2>2, <2>3, WithoutFacts DEF RemovePath
    <2>5. ASSUME NEW f \in NewFiles PROVE Passed(f)'
        <3>1. Passed(f)
            BY <2>1 DEF Known
        <3>2. f.path \in Path
            BY <3>1 DEF Passed, FileDesc
        <3> QED
            BY <2>1, <2>4, <3>1, <3>2, PassedStays
    <2> QED
        BY <2>1, <2>5 DEF Known
<1>4. CASE AddCommit
    <2>1. /\ pc = "del" /\ pc' = "extract" /\ Cur' = Cur /\ opts' = opts /\ oldPaths' = oldPaths
          /\ fs' = fs /\ next' = 1 /\ Cur \in Archive /\ pkg.name = NameOf[Cur]
          /\ pkg_db' = CleanupDb(Others(pkg_db, NameOf[Cur])) \cup {pkg}
        BY <1>4 DEF AddCommit, Commit, Cur, Typed, Located
    <2>2. Others(pkg_db, NameOf[Cur]) \in SUBSET PkgDesc
        BY <1>0 DEF Others
    <2>3. \A d \in CleanupDb(Others(pkg_db, NameOf[Cur])) : d.name # NameOf[Cur]
        BY <2>2, CleanupFacts DEF Others
    <2>4. Named(pkg_db', NameOf[Cur]) = {pkg}
        BY <2>1, <2>3 DEF Named
    <2>5. NewFiles' = NewFiles
        BY <2>1, <2>4 DEF NewFiles, FilesOf, Named
    <2>6. ASSUME NEW f \in NewFiles PROVE Passed(f)'
        <3>1. Passed(f)
            BY <2>1 DEF Known
        <3> QED
            BY <2>1, <3>1, PassedStays
    <2> QED
        BY <2>1, <2>5, <2>6 DEF Known
<1>5. CASE SkipEntry \/ RejectEntry \/ InstallEntry \/ ExtractFails
    <2>1. AtEntry /\ Advance
        BY <1>5 DEF SkipEntry, RejectEntry, InstallEntry, ExtractFails
    <2>2. /\ pc = "extract" /\ pc' = "extract" /\ Cur' = Cur /\ opts' = opts /\ oldPaths' = oldPaths
          /\ NewFiles' = NewFiles /\ next' = next + 1
        BY <2>1 DEF Advance, AtEntry, Cur, NewFiles, FilesOf, Named
    <2>3. fs' = fs \/ fs' = Extracted(EntryNow, Cur) \/ fs' = Without(EntryNow.path)
        BY <1>5 DEF SkipEntry, RejectEntry, InstallEntry, ExtractFails
    <2>4. ASSUME NEW f \in NewFiles PROVE Passed(f)'
        <3>1. Passed(f)
            BY <2>2 DEF Known
        <3>2. f.pos \in DOMAIN Entries[Cur] /\ f.path = Entries[Cur][f.pos].path /\ f.pos \in Nat
            BY <3>1 DEF Passed, FileDesc
        <3>3. ASSUME next' <= f.pos PROVE next <= f.pos /\ fs'[f.path] \in {Absent, fs[f.path]}
            <4>1. next < f.pos /\ next # f.pos
                BY <2>1, <2>2, <3>2, <3>3, AtEntryFacts
            <4>2. next <= f.pos
                BY <2>1, <3>2, <4>1, AtEntryFacts
            <4>3. fs'[f.path] \in {Absent, fs[f.path]}
                BY <2>1, <2>3, <3>2, <4>1, AtEntryFacts, EntriesApart
            <4> QED
                BY <4>2, <4>3
        <3> QED
            BY <2>2, <3>1, <3>3, PassedStays
    <2> QED
        BY <2>2, <2>4 DEF Known
<1>6. CASE UNCHANGED vars
    <2>1. /\ pc' = pc /\ Cur' = Cur /\ opts' = opts /\ oldPaths' = oldPaths /\ fs' = fs
          /\ NewFiles' = NewFiles /\ next' = next
        BY <1>6 DEF vars, process, Cur, NewFiles, FilesOf, Named
    <2>2. ASSUME NEW f, Passed(f) PROVE Passed(f)'
        BY <2>1, <2>2, PassedStays
    <2> QED
        BY <2>1, <2>2 DEF Known
<1>7. CASE Exit
    BY <1>1, <1>7 DEF Exit
<1>8. CASE Finish \/ AddDie \/ CommitDie \/ AddExit \/ Crash
    BY <1>7, <1>8 DEF Finish, AddDie, CommitDie, AddExit, Crash
<1>9. CASE AddError \/ AddRefuse \/ AddDone \/ ReadStops \/ AddReturn \/ RmUnknown \/ RmStart \/ RmFile \/ RmCommit
    BY <1>1, <1>9 DEF AddError, AddRefuse, AddDone, ReadStops, AddReturns, AtEntry, AddReturn,
                      RmUnknown, RmStart, RmFile, RmCommit,
                      NextArg
<1>10. CASE Environment /\ ~Crash
    BY <1>1, <1>10 DEF Environment, StartAdd, StartRm, Start, UserPuts, UserRemoves, process
<1> QED
    BY <1>2, <1>3, <1>4, <1>5, <1>6, <1>8, <1>9, <1>10 DEF Next, Step, Environment


\* A file that extraction replaces or removes itself is at the path of the
\* current entry, and the list of the new package has a flag for it.
LEMMA TouchedIs ==
    ASSUME Typed, Rooted, Known, [Next]_vars, pc = "extract", NEW p \in Path, Touched(p)
    PROVE  /\ p = EntryNow.path /\ ~Rejects
           /\ FileNow.conflict \in {"SELF", "DB", "FS", "PERM"}
           /\ FileNow.conflict = "SELF" => p \in oldPaths
           /\ FileNow.conflict \in {"DB", "FS"} => "FORCE" \in opts
           /\ FileNow.conflict = "PERM" =>
                 "FORCE_PERM" \in opts /\ fs'[p] # Absent /\ fs'[p].kind = "dir"
<1> DEFINE e == EntryNow
<1>1. fs' # fs /\ Exists(p) /\ fs[p].kind # "dir" /\ fs'[p] # fs[p] /\ \A q \in Anc[p] : fs'[q] = fs[q]
    BY DEF Touched
<1>2. InstallEntry \/ ExtractFails
    <2>1. ~UNCHANGED vars
        BY <1>1 DEF vars
    <2>2. ~Exit
        BY <1>1 DEF Exit, external
    <2>3. ~(Finish \/ AddDie \/ CommitDie \/ AddExit \/ Crash)
        BY <2>2 DEF Finish, AddDie, CommitDie, AddExit, Crash
    <2>4. ~(SkipEntry \/ RejectEntry \/ AddDone \/ ReadStops)
        BY <1>1 DEF SkipEntry, RejectEntry, AddDone, ReadStops, AddReturns, AtEntry, external
    <2>5. ~(AddError \/ AddRefuse \/ AddAccept \/ DelOldFile \/ AddCommit \/ AddReturn
              \/ RmUnknown \/ RmStart \/ RmFile \/ RmCommit)
        BY DEF AddError, AddRefuse, AddAccept, DelOldFile, AddCommit, AddReturn,
               RmUnknown, RmStart, RmFile, RmCommit, AtAdd, AtRm
    <2>6. ~(StartAdd \/ StartRm \/ \E q \in Path : UserPuts(q) \/ UserRemoves(q))
        BY DEF StartAdd, StartRm, Start, UserPuts, UserRemoves
    <2> QED
        BY <2>1, <2>3, <2>4, <2>5, <2>6 DEF Next, Step, Environment
<1>3. AtEntry
    BY <1>2 DEF InstallEntry, ExtractFails
<1>4. /\ Cur \in Archive /\ next \in DOMAIN Entries[Cur] /\ e = Entries[Cur][next]
      /\ next \in Nat /\ e.path \in Path /\ e.kind \in {"dir", "file"} /\ fs \in FileSystem
    BY <1>3, AtEntryFacts
<1>5. \/ fs' = Extracted(e, Cur) /\ ~Rejects
      \/ fs' = Without(e.path) /\ ~Rejects /\ e.kind = "file"
    BY <1>1, <1>2 DEF InstallEntry, ExtractFails
<1> HIDE DEF e
<1>6. /\ Merges(e) => (fs[e.path].kind = "dirlink" => Extracted(e, Cur)[e.path] = fs[e.path])
      /\ ~Merges(e) => Extracted(e, Cur)[e.path] = Made(e, e.kind, Cur)
      /\ p # e.path => Extracted(e, Cur)[p] =
             IF ~Merges(e) /\ e.path \in Anc[p] THEN Absent
             ELSE IF p \in Anc[e.path] /\ ~Exists(p) THEN Made(e, "dir", Cur) ELSE fs[p]
    BY <1>4, ExtractedIs
<1>7. Without(e.path)[e.path] = Absent
      /\ (p # e.path => Without(e.path)[p] = IF e.path \in Anc[p] THEN Absent ELSE fs[p])
    BY <1>4, WithoutFacts
<1>8. e.path \in Anc[p] => Exists(e.path) /\ fs[e.path].kind \in DirKind /\ fs'[e.path] = fs[e.path]
    BY <1>1 DEF Rooted
<1>9. e.path \in Anc[p] => (~Merges(e) => e.kind = "file")
    BY <1>4, <1>8 DEF Merges
<1>10. p = e.path
    <2>1. ASSUME p # e.path PROVE FALSE
        <3>1. e.path \in Anc[p] /\ (fs' = Extracted(e, Cur) => ~Merges(e))
            BY <1>1, <1>5, <1>6, <1>7, <2>1
        <3>2. CASE fs' = Extracted(e, Cur)
            BY <1>6, <1>8, <1>9, <3>1, <3>2 DEF Made, DirKind
        <3>3. CASE fs' = Without(e.path)
            BY <1>7, <1>8, <3>1, <3>3 DEF Exists
        <3> QED
            BY <1>5, <3>2, <3>3
    <2> QED
        BY <2>1
<1>11. InTheWay(e)
    <2>1. Merges(e) => fs[e.path].kind = "dirlink" /\ e.kind = "dir"
        BY <1>1, <1>10 DEF Merges, DirKind
    <2>2. ~Merges(e)
        BY <1>1, <1>5, <1>6, <1>10, <2>1
    <2> QED
        BY <1>1, <1>10, <2>2 DEF InTheWay
<1>12. FileNow \in NewFiles /\ FileNow.pos = next
    <2>1. \E f \in FilesOf(pkg_db, NameOf[Cur]) : f.pos = next
        BY <1>4 DEF Known, NewFiles
    <2> QED
        BY <2>1 DEF FileNow, NewFiles, FilesOf
<1>13. Passed(FileNow)
    BY <1>12 DEF Known
<1>14. /\ FileNow.conflict \in {"SELF", "DB", "FS", "PERM"}
       /\ FileNow.conflict = "SELF" => FileNow.path \in oldPaths
       /\ FileNow.conflict \in {"DB", "FS"} => "FORCE" \in opts
       /\ FileNow.conflict = "PERM" => "FORCE_PERM" \in opts /\ e.kind = "dir"
       /\ FileNow.path = e.path
    <2>1. Entries[Cur][FileNow.pos] = e /\ next <= FileNow.pos
        BY <1>4, <1>12
    <2> QED
        BY <1>11, <1>13, <2>1 DEF Passed, FileDesc, Conflict
<1>15. e.kind = "dir" => fs'[p] # Absent /\ fs'[p].kind = "dir"
    <2>1. e.kind = "dir" => fs'[p] = Made(e, "dir", Cur)
        BY <1>5, <1>6, <1>10, <1>11 DEF InTheWay
    <2> QED
        BY <2>1 DEF Made, Absent
<1> QED
    BY <1>5, <1>10, <1>14, <1>15 DEF e

LEMMA ExtractStep ==
    Typed /\ Rooted /\ Known /\ [Next]_vars => UserFileSafe /\ ProtectedFileKept
<1> SUFFICES ASSUME Typed, Rooted, Known, [Next]_vars PROVE UserFileSafe /\ ProtectedFileKept
    OBVIOUS
<1>1. UserFileSafe
    BY TouchedIs DEF UserFileSafe
<1>2. ProtectedFileKept
    BY TouchedIs DEF ProtectedFileKept, Rejects
<1> QED
    BY <1>1, <1>2


-----------------------------------------------------------------------------
(* Every entry of the archive is accounted for.                            *)

\* What AllEntriesAccounted says of the entry i.
Accounted(i) ==
    LET p == Entries[Cur][i].path
    IN  \/ ~AdjustWithConfig(p, "INSTALL")
        \/ p \in failed
        \/ rejected[p] = Cur
        \/ Exists(p) /\ IF Entries[Cur][i].kind = "dir"
                        THEN fs[p].kind \in {"dir", "dirlink"}
                        ELSE fs[p].kind = "file" /\ fs[p].src = Cur
WalkedSoFar == pc = "extract" => \A i \in DOMAIN Entries[Cur] : i < next => Accounted(i)

LEMMA AccountedStays ==
    ASSUME NEW i, Accounted(i), Cur' = Cur, failed \subseteq failed',
           rejected[Entries[Cur][i].path] = Cur => rejected'[Entries[Cur][i].path] = Cur,
           Exists(Entries[Cur][i].path) => fs'[Entries[Cur][i].path] = fs[Entries[Cur][i].path]
    PROVE  Accounted(i)'
BY DEF Accounted, Exists, AdjustWithConfig

LEMMA WalkedStep ==
    Typed /\ WalkedSoFar /\ AllEntriesAccounted /\ [Next]_vars =>
        (WalkedSoFar /\ AllEntriesAccounted)'
<1> SUFFICES ASSUME Typed, WalkedSoFar, AllEntriesAccounted, [Next]_vars
             PROVE  WalkedSoFar' /\ AllEntriesAccounted'
    OBVIOUS
<1>0. rejected \in [Path -> Source] /\ fs \in FileSystem
    BY DEF Typed, TypeOK, FileSystem
<1>1. CASE pc' \notin {"extract", "return"}
    BY <1>1 DEF WalkedSoFar, AllEntriesAccounted
<1>2. CASE AddCommit
    <2>1. pc' = "extract" /\ next' = 1 /\ Cur' \in Archive
        BY <1>2 DEF AddCommit, Cur, Typed, Located
    <2>2. \A i \in DOMAIN Entries[Cur'] : ~(i < next')
        BY <2>1, EntryType
    <2> QED
        BY <2>1, <2>2 DEF WalkedSoFar, AllEntriesAccounted
<1>3. CASE SkipEntry \/ RejectEntry \/ InstallEntry \/ ExtractFails
    <2> DEFINE e == EntryNow
    <2>1. AtEntry /\ Advance
        BY <1>3 DEF SkipEntry, RejectEntry, InstallEntry, ExtractFails
    <2>2. /\ Cur \in Archive /\ next \in DOMAIN Entries[Cur] /\ e = Entries[Cur][next]
          /\ next \in Nat /\ e.path \in Path /\ e.kind \in {"dir", "file"} /\ pc = "extract"
        BY <2>1, AtEntryFacts
    <2>3. pc' = "extract" /\ Cur' = Cur /\ next' = next + 1
        BY <2>1, <2>2 DEF Advance, Cur
    <2> HIDE DEF e
    <2>4. /\ failed \subseteq failed'
          /\ rejected' = rejected \/ rejected' = [rejected EXCEPT ![e.path] = Cur]
          /\ fs' = fs \/ fs' = Extracted(e, Cur) \/ fs' = Without(e.path)
        BY <1>3 DEF SkipEntry, RejectEntry, InstallEntry, ExtractFails, e
    <2>5. ASSUME NEW i \in DOMAIN Entries[Cur], i < next
          PROVE  Accounted(i)'
        <3> DEFINE p == Entries[Cur][i].path
        <3>1. Accounted(i)
            BY <2>2, <2>5 DEF WalkedSoFar
        <3>2. p \in Path /\ p # e.path
            BY <2>2, <2>5, EntryType, EntriesDiffer
        <3>3. rejected'[p] = rejected[p]
            BY <1>0, <2>4, <3>2
        <3>4. Exists(p) => fs'[p] = fs[p]
            <4>1. Exists(p) => Extracted(e, Cur)[p] = fs[p] /\ Without(e.path)[p] = fs[p]
                BY <1>0, <2>2, <2>5, EntriesApart
            <4> QED
                BY <2>4, <4>1
        <3> QED
            BY <2>3, <2>4, <3>1, <3>3, <3>4, AccountedStays
    <2>6. ASSUME NEW i \in DOMAIN Entries[Cur], i = next
          PROVE  Accounted(i)'
        <3>0. Entries[Cur'][i] = e
            BY <2>2, <2>3, <2>6
        <3> SUFFICES \/ ~AdjustWithConfig(e.path, "INSTALL")
                     \/ e.path \in failed'
                     \/ rejected'[e.path] = Cur
                     \/ /\ fs'[e.path] # Absent
                        /\ IF e.kind = "dir" THEN fs'[e.path].kind \in {"dir", "dirlink"}
                           ELSE fs'[e.path].kind = "file" /\ fs'[e.path].src = Cur
            BY <2>3, <3>0 DEF Accounted, Exists, AdjustWithConfig
        <3>1. CASE SkipEntry
            BY <3>1 DEF SkipEntry, e
        <3>2. CASE ExtractFails
            BY <3>2 DEF ExtractFails, e
        <3>3. CASE RejectEntry
            BY <1>0, <2>2, <3>3 DEF RejectEntry, e
        <3>4. CASE InstallEntry
            <4>1. fs' = Extracted(e, Cur)
                BY <3>4 DEF InstallEntry, e
            <4>2. CASE Merges(e)
                <5>1. fs'[e.path].kind = fs[e.path].kind
                    BY <1>0, <2>2, <4>1, <4>2, ExtractedIs
                <5>2. e.kind = "dir" /\ fs'[e.path].kind \in DirKind
                    BY <4>2, <5>1 DEF Merges
                <5> QED
                    BY <5>2, DirsExist DEF DirKind
            <4>3. CASE ~Merges(e)
                <5>1. fs'[e.path] = Made(e, e.kind, Cur)
                    BY <1>0, <2>2, <4>1, <4>3, ExtractedIs
                <5> QED
                    BY <2>2, <5>1 DEF Made, Absent
            <4> QED
                BY <4>2, <4>3
        <3> QED
            BY <1>3, <3>1, <3>2, <3>3, <3>4
    <2>7. \A i \in DOMAIN Entries[Cur] : i < next + 1 => i < next \/ i = next
        BY <2>2, EntryType
    <2>8. ASSUME NEW i \in DOMAIN Entries[Cur], i < next + 1
          PROVE  Accounted(i)'
        <3>1. CASE i < next
            BY <2>5, <3>1
        <3>2. CASE i = next
            BY <2>6, <3>2
        <3> QED
            BY <2>7, <2>8, <3>1, <3>2
    <2> QED
        BY <2>3, <2>8 DEF WalkedSoFar, AllEntriesAccounted
<1>4. CASE AddDone \/ ReadStops
    <2>1. /\ pc = "extract" /\ pc' = "return" /\ next' = next /\ Cur' = Cur
          /\ fs' = fs /\ rejected' = rejected /\ failed' = failed
        BY <1>4 DEF AddDone, ReadStops, AddReturns, AtEntry, external, Cur
    <2>2. ASSUME NEW i \in DOMAIN Entries[Cur], i < next PROVE Accounted(i)'
        <3>1. Accounted(i)
            BY <2>1, <2>2 DEF WalkedSoFar
        <3> QED
            BY <2>1, <3>1, AccountedStays
    <2> QED
        BY <2>1, <2>2 DEF WalkedSoFar, AllEntriesAccounted, Accounted
<1>5. CASE AddError
    <2>1. pc' = "return" /\ Cur' \notin Archive
        BY <1>5, ConfigAssumption DEF AddError, Cur
    <2> QED
        BY <2>1 DEF WalkedSoFar, AllEntriesAccounted
<1>6. CASE AddRefuse
    <2>1. pc' = "return" /\ Blocking(ret)'
        BY <1>6 DEF AddRefuse, Blocking
    <2> QED
        BY <2>1 DEF WalkedSoFar, AllEntriesAccounted
<1>7. CASE UNCHANGED vars
    <2>1. /\ pc' = pc /\ Cur' = Cur /\ next' = next /\ fs' = fs /\ rejected' = rejected
          /\ failed' = failed /\ (Blocking(ret)' <=> Blocking(ret))
        BY <1>7 DEF vars, process, Cur, Blocking
    <2>2. ASSUME NEW i, Accounted(i) PROVE Accounted(i)'
        BY <2>1, <2>2, AccountedStays
    <2> QED
        BY <2>1, <2>2 DEF WalkedSoFar, AllEntriesAccounted, Accounted
<1>8. CASE Exit
    BY <1>1, <1>8 DEF Exit
<1>9. CASE Finish \/ AddDie \/ CommitDie \/ AddExit \/ Crash
    BY <1>8, <1>9 DEF Finish, AddDie, CommitDie, AddExit, Crash
<1>10. CASE AddAccept \/ DelOldFile \/ AddReturn \/ RmUnknown \/ RmStart \/ RmFile \/ RmCommit
    BY <1>1, <1>10 DEF AddAccept, DelOldFile, AddReturn, RmUnknown, RmStart, RmFile, RmCommit,
                       NextArg
<1>11. CASE Environment /\ ~Crash
    BY <1>1, <1>11 DEF Environment, StartAdd, StartRm, Start, UserPuts, UserRemoves, process
<1> QED
    BY <1>2, <1>3, <1>4, <1>5, <1>6, <1>7, <1>9, <1>10, <1>11 DEF Next, Step, Environment


-----------------------------------------------------------------------------
(* The invariant as a whole, and what follows from it for every step.      *)

IInv ==
    /\ Typed /\ UniqueNames /\ Tracked /\ Descriptions /\ Rooted
    /\ Copied /\ Known /\ WalkedSoFar /\ AllEntriesAccounted

LEMMA IInvInit == Init => IInv
<1> SUFFICES ASSUME Init PROVE IInv
    OBVIOUS
<1>1. pc = "idle" /\ disk = {} /\ pkg_db = {}
    BY DEF Init, NoProcess
<1>2. Typed
    BY TypedInit
<1>3. Tracked
    <2>1. \A p \in Path : ~Ours(p)
        BY ConfigAssumption DEF Init, Ours
    <2> QED
        BY <1>1, <2>1 DEF Tracked, NothingForgotten, NoFlags, AtNext, AtDel, AtExtract, AtRemove
<1>4. Rooted
    BY DEF Init, Rooted, DirKind
<1>5. UniqueNames /\ Descriptions
    BY <1>1 DEF UniqueNames, Descriptions
<1>6. Copied /\ Known /\ WalkedSoFar /\ AllEntriesAccounted
    BY <1>1 DEF Copied, CopyAtNext, CopyAtDel, CopyAtExtract, CopyAtRemove, Known, WalkedSoFar,
                AllEntriesAccounted
<1> QED
    BY <1>2, <1>3, <1>4, <1>5, <1>6 DEF IInv

LEMMA IInvStep == IInv /\ [Next]_vars => IInv'
<1> SUFFICES ASSUME IInv, [Next]_vars PROVE IInv'
    OBVIOUS
<1>1. Typed' /\ UniqueNames' /\ Tracked'
    BY TypedStep, UniqueStep, TrackedStep DEF IInv
<1>2. Descriptions' /\ Rooted'
    BY DescriptionsStep, RootedStep DEF IInv
<1>3. Copied' /\ Known'
    BY CopiedStep, KnownStep DEF IInv
<1>4. WalkedSoFar' /\ AllEntriesAccounted'
    BY WalkedStep DEF IInv
<1> QED
    BY <1>1, <1>2, <1>3, <1>4 DEF IInv

\* What IInv and a step give.
LEMMA Steps ==
    IInv /\ [Next]_vars =>
        /\ [Reg!Next]_registry
        /\ OwnerRemoves /\ NeededLeftover /\ UserFileSafe /\ ProtectedFileKept
BY RegistryStep, OwnerStep, LeftoverStep, ExtractStep DEF IInv

LEMMA Standing == Spec => []IInv
BY IInvInit, IInvStep, PTL DEF Spec

\* The database file implements the registry: over any series of command lines
\* and crashes it changes by one package installed whole or removed whole, and
\* another package loses a path only to a file of the new one that the replaced
\* version had, or under -o. (pkg_commit_db, db_conflict, cleanup_pkg_db)
THEOREM DatabaseImplementsRegistry == Spec => ImplementsRegistry
<1>1. Init => Reg!Init
    BY DEF Init, Reg!Init, registry
<1>2. IInv /\ [Next]_vars => [Reg!Next]_registry
    BY Steps
<1> QED
    BY <1>1, <1>2, Standing, PTL DEF Spec, ImplementsRegistry, Reg!Spec

\* del_old_pkg and remove_from_fs take away nothing but what the package they
\* replace or remove owns, no other owns, and the new version does not contain.
THEOREM OnlyOwnersRemove == Spec => OnlyOwnerRemoves
<1>1. IInv /\ [Next]_vars => [OwnerRemoves]_vars
    BY Steps
<1> QED
    BY <1>1, Standing, PTL DEF Spec, OnlyOwnerRemoves

\* "Can't remove" is never said of a directory because a file of the same
\* package that is still on the list lies in it.
THEOREM LeftoversAreNeeded == Spec => NoNeedlessLeftover
<1>1. IInv /\ [Next]_vars => [NeededLeftover]_vars
    BY Steps
<1> QED
    BY <1>1, Standing, PTL DEF Spec, NoNeedlessLeftover

\* extract_files replaces a file of the user only at a path the replaced
\* version had, under -o, or under -p where the package has a directory.
THEOREM UsersKeepTheirFiles == Spec => UserFilesSafe
<1>1. IInv /\ [Next]_vars => [UserFileSafe]_vars
    BY Steps
<1> QED
    BY <1>1, Standing, PTL DEF Spec, UserFilesSafe

\* extract_files never replaces a file that an UPGRADE rule says NO to.
THEOREM RulesProtectFiles == Spec => ProtectedFilesKept
<1>1. IInv /\ [Next]_vars => [ProtectedFileKept]_vars
    BY Steps
<1> QED
    BY <1>1, Standing, PTL DEF Spec, ProtectedFilesKept

\* When pkg_add returns after a commit, every entry of the archive that it read
\* and no INSTALL rule excludes is installed, rejected, or was reported as
\* failed, wherever reading the archive stopped.
THEOREM EntriesAreAccounted == Spec => []AllEntriesAccounted
<1>1. IInv => AllEntriesAccounted
    BY DEF IInv
<1> QED
    BY <1>1, Standing, PTL

-----------------------------------------------------------------------------
(* A run ends: every step of a tool lowers a triple of naturals.           *)

Less == {p \in Nat \X Nat : p[1] < p[2]}
Triple == Nat \X (Nat \X Nat)
Below == LexPairOrdering(Less, LexPairOrdering(Less, Less, Nat, Nat), Nat, Nat \X Nat)

Phase == [next |-> 4, del |-> 3, rm |-> 3, extract |-> 2, return |-> 1, idle |-> 0]
Places(files) == {f.pos : f \in files}

\* The command line, the operation on its head, and the list or the archive
\* that operation goes through.
ToDo == IF pc = "del" THEN Cardinality(Places(OldFiles))
        ELSE IF pc = "rm" THEN Cardinality(Places(RmFiles))
        ELSE IF AtEntry THEN Len(Entries[Cur]) + 1 - next ELSE 0
Countdown == <<Len(args), <<Phase[pc], ToDo>>>>
IsTriple == Countdown \in Triple

LEMMA LessWellFounded == IsWellFoundedOn(Less, Nat)
<1>1. IsWellFoundedOn(OpToRel(<, Nat), Nat)
    BY NatLessThanWellFounded
<1> QED
    BY <1>1 DEF OpToRel, Less

\* No triple can be lowered for ever.
LEMMA BelowWellFounded == IsWellFoundedOn(Below, Triple)
BY LessWellFounded, WFLexPairOrdering DEF Below, Triple

LEMMA BelowIs ==
    ASSUME NEW x \in Triple, NEW y \in Triple,
           \/ x[1] < y[1]
           \/ x[1] = y[1] /\ x[2][1] < y[2][1]
           \/ x[1] = y[1] /\ x[2][1] = y[2][1] /\ x[2][2] < y[2][2]
    PROVE  <<x, y>> \in Below
BY DEF Below, Triple, Less, LexPairOrdering

\* The file list of a package is finite, and has one file at a place.
LEMMA PlacesFinite ==
    ASSUME NEW db \in SUBSET PkgDesc, Unique(db), \A d \in db : Described(d), NEW n
    PROVE  IsFiniteSet(Places(FilesOf(db, n))) /\ OnePlaceEach(FilesOf(db, n))
<1>1. CASE Named(db, n) = {}
    <2>1. FilesOf(db, n) = {} /\ Places({}) = {}
        BY <1>1 DEF FilesOf, Places
    <2> QED
        BY <2>1, FS_EmptySet DEF OnePlaceEach
<1>2. CASE Named(db, n) # {}
    <2>1. PICK d \in Named(db, n) : TRUE
        BY <1>2
    <2>2. d \in PkgDesc /\ Described(d) /\ d.version \in Archive
        BY DEF Named, PkgDesc
    <2>3. Named(db, n) = {d}
        BY DEF Named, Unique
    <2>4. FilesOf(db, n) = d.files
        BY <2>3 DEF FilesOf
    <2>5. Places(d.files) \in SUBSET (1..Len(Entries[d.version])) /\ Len(Entries[d.version]) \in Nat
        BY <2>2, ArchiveAssumption DEF Places, Described
    <2>6. IsFiniteSet(1..Len(Entries[d.version]))
        BY <2>5, FS_Interval
    <2>7. IsFiniteSet(Places(d.files))
        BY <2>5, <2>6, FS_Subset
    <2> QED
        BY <2>2, <2>4, <2>7 DEF Described
<1> QED
    BY <1>1, <1>2

\* Deleting an entry from it leaves one place less.
LEMMA OnePlaceLess ==
    ASSUME NEW files, IsFiniteSet(Places(files)), OnePlaceEach(files), NEW f \in files
    PROVE  Cardinality(Places(files \ {f})) < Cardinality(Places(files))
<1>1. Places(files \ {f}) = Places(files) \ {f.pos}
    BY DEF Places, OnePlaceEach
<1>2. f.pos \in Places(files)
    BY DEF Places
<1>3. Cardinality(Places(files \ {f})) = Cardinality(Places(files)) - 1
    BY <1>1, <1>2, FS_RemoveElement, Zenon
<1>4. Cardinality(Places(files)) \in Nat
    BY FS_CardinalityType
<1> QED
    BY <1>3, <1>4

LEMMA ListsFinite ==
    IInv => \A n : IsFiniteSet(Places(FilesOf(pkg_db, n))) /\ OnePlaceEach(FilesOf(pkg_db, n))
BY PlacesFinite DEF IInv, Typed, TypeOK, UniqueNames, Unique, Descriptions

LEMMA CountdownTyped == IInv => IsTriple
<1> SUFFICES ASSUME IInv PROVE IsTriple
    OBVIOUS
<1>1. Len(args) \in Nat /\ Phase[pc] \in Nat
    BY DEF Phase, IInv, Typed, TypeOK
<1>2. Cardinality(Places(OldFiles)) \in Nat /\ Cardinality(Places(RmFiles)) \in Nat
    BY ListsFinite, FS_CardinalityType DEF OldFiles, RmFiles, FilesOf
<1>3. AtEntry => Len(Entries[Cur]) + 1 - next \in Nat
    <2> SUFFICES ASSUME AtEntry PROVE Len(Entries[Cur]) + 1 - next \in Nat
        OBVIOUS
    <2>1. Cur \in Archive /\ next \in DOMAIN Entries[Cur]
        BY AtEntryFacts DEF IInv
    <2> QED
        BY <2>1, ArchiveAssumption
<1>4. ToDo \in Nat
    BY <1>2, <1>3 DEF ToDo
<1> QED
    BY <1>1, <1>4 DEF IsTriple, Countdown, Triple

\* An argument is done, or the operation gets further, or its list shorter.
Falls ==
    \/ Len(args') < Len(args)
    \/ args' = args /\ Phase[pc'] < Phase[pc]
    \/ args' = args /\ pc' = pc /\ ToDo' < ToDo

LEMMA ExitFalls == ASSUME Typed, pc # "idle", Exit PROVE Falls
<1>1. Len(args') = 0 /\ Phase[pc'] = 0 /\ Phase[pc] > 0
    BY DEF Exit, Phase, Typed, TypeOK
<1>2. Len(args) \in Nat /\ (Len(args) = 0 => args = <<>>)
    BY EmptySeq DEF Typed, TypeOK
<1> QED
    BY <1>1, <1>2 DEF Exit, Falls

LEMMA NextArgFalls == ASSUME Typed, args # <<>>, args' = Tail(args) PROVE Falls
BY HeadTailProperties DEF Typed, TypeOK, Falls

LEMMA AdvanceFalls == ASSUME Typed, AtEntry, Advance PROVE Falls
<1>1. /\ pc = "extract" /\ pc' = "extract" /\ args' = args /\ Cur' = Cur
      /\ Cur \in Archive /\ next \in DOMAIN Entries[Cur] /\ next' = next + 1
    BY AtEntryFacts DEF Advance, Cur
<1>2. Entries[Cur] \in Seq(Entry)
    BY <1>1, ArchiveAssumption
<1>3. ToDo = Len(Entries[Cur]) + 1 - next
    BY <1>1 DEF ToDo
<1>4. ToDo' \in {Len(Entries[Cur]) + 1 - next', 0}
    BY <1>1 DEF ToDo
<1> QED
    BY <1>1, <1>2, <1>3, <1>4 DEF Falls

LEMMA StepFalls == IInv /\ Step => Falls
<1> SUFFICES ASSUME IInv, Step PROVE Falls
    OBVIOUS
<1>0. Typed /\ pkg_db \in SUBSET PkgDesc
    BY DEF IInv, Typed, TypeOK
<1>1. CASE Finish \/ AddDie \/ CommitDie \/ AddExit
    <2>1. pc # "idle" /\ Exit
        BY <1>1 DEF Finish, AddDie, CommitDie, AddExit, AtAdd
    <2> QED
        BY <1>0, <2>1, ExitFalls
<1>2. CASE AddReturn \/ RmUnknown \/ RmCommit
    <2>1. args # <<>> /\ args' = Tail(args)
        BY <1>0, <1>2 DEF AddReturn, RmUnknown, RmCommit, NextArg, AtRm, Typed, Located
    <2> QED
        BY <1>0, <2>1, NextArgFalls
<1>3. CASE AddError \/ AddRefuse \/ AddAccept \/ RmStart \/ AddCommit \/ AddDone \/ ReadStops
    <2>1. args' = args
        BY <1>3 DEF AddError, AddRefuse, AddAccept, RmStart, AddCommit, AddDone, ReadStops,
                    AddReturns, AtEntry
    <2>2. Phase[pc'] < Phase[pc]
        BY <1>3 DEF AddError, AddRefuse, AddAccept, RmStart, AddCommit, AddDone, ReadStops,
                    AddReturns, AtEntry, AtAdd, AtRm, Phase
    <2> QED
        BY <2>1, <2>2 DEF Falls
<1>4. CASE SkipEntry \/ RejectEntry \/ InstallEntry \/ ExtractFails
    <2>1. AtEntry /\ Advance
        BY <1>4 DEF SkipEntry, RejectEntry, InstallEntry, ExtractFails
    <2> QED
        BY <1>0, <2>1, AdvanceFalls
<1>5. CASE DelOldFile
    <2>1. PICK f \in OldFiles : pkg_db' = DropFile(pkg_db, pkg.name, f)
        BY <1>5 DEF DelOldFile, LastOf
    <2>2. pc = "del" /\ pc' = "del" /\ args' = args /\ pkg' = pkg
        BY <1>5 DEF DelOldFile
    <2>3. OldFiles' = OldFiles \ {f}
        <3>1. OldFiles = FilesOf(pkg_db, pkg.name) /\ OldFiles' = FilesOf(pkg_db', pkg.name)
            BY <2>2 DEF OldFiles, FilesOf, Named
        <3> QED
            BY <1>0, <2>1, <3>1, DropFacts
    <2>4. Cardinality(Places(OldFiles \ {f})) < Cardinality(Places(OldFiles))
        BY <2>1, ListsFinite, OnePlaceLess DEF OldFiles, FilesOf
    <2> QED
        BY <2>2, <2>3, <2>4 DEF Falls, ToDo
<1>6. CASE RmFile
    <2>1. PICK f \in RmFiles : pkg_db' = DropFile(pkg_db, Cur, f)
        BY <1>6 DEF RmFile, LastOf
    <2>2. pc = "rm" /\ pc' = "rm" /\ args' = args /\ Cur' = Cur
        BY <1>6 DEF RmFile, Cur
    <2>3. RmFiles' = RmFiles \ {f}
        BY <1>0, <2>1, <2>2, DropFacts DEF RmFiles, FilesOf
    <2>4. Cardinality(Places(RmFiles \ {f})) < Cardinality(Places(RmFiles))
        BY <2>1, ListsFinite, OnePlaceLess DEF RmFiles, FilesOf
    <2> QED
        BY <2>2, <2>3, <2>4 DEF Falls, ToDo
<1> QED
    BY <1>1, <1>2, <1>3, <1>4, <1>5, <1>6 DEF Step

\* A step of the tool, unlike one of its environment, leaves less to do.
Lowered == Step => <<Countdown', Countdown>> \in Below

LEMMA CountdownFalls == IInv /\ [Next]_vars => [Lowered]_vars
<1>t. IInv' => IsTriple'
    BY CountdownTyped, PTL
<1> SUFFICES ASSUME IInv, [Next]_vars, Step PROVE <<Countdown', Countdown>> \in Below
    BY DEF Lowered
<1>1. Countdown \in Triple /\ Countdown' \in Triple
    BY <1>t, IInvStep, CountdownTyped DEF IsTriple
<1>2. /\ Countdown[1] = Len(args) /\ Countdown[2][1] = Phase[pc] /\ Countdown[2][2] = ToDo
      /\ Countdown'[1] = Len(args') /\ Countdown'[2][1] = Phase[pc'] /\ Countdown'[2][2] = ToDo'
    BY DEF Countdown
<1>3. Falls
    BY StepFalls
<1> QED
    BY <1>1, <1>2, <1>3, BelowIs DEF Falls

\* No run of pkgadd or pkgrm goes round for ever, whatever the packages, the
\* file system and what cannot be removed or extracted: every step of the
\* process lowers the triple of arguments, operation and entries that are left,
\* in an order without infinite descent. (the loops of main, del_old_pkg,
\* extract_files and remove_from_fs, which delete the entry they stand on)
THEOREM EveryStepCounts ==
    /\ IsWellFoundedOn(Below, Triple)
    /\ Spec => [][Lowered]_vars
<1>1. IsWellFoundedOn(Below, Triple)
    BY BelowWellFounded
<1>2. IInv /\ [Next]_vars => [Lowered]_vars
    BY CountdownFalls
<1> QED
    BY <1>1, <1>2, Standing, PTL DEF Spec
=============================================================================
