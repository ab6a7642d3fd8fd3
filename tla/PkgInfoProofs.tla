--------------------------- MODULE PkgInfoProofs ---------------------------
(***************************************************************************)
(* What pkginfo -m and -O say, for any tree of paths, any databases and    *)
(* any number of changes of the file system while they look at it.         *)
(***************************************************************************)
EXTENDS PkgInfo, TLAPS

-----------------------------------------------------------------------------
(* The directories above a path.                                           *)

Up(p) == {p} \cup Above(p)

LEMMA UpLeast ==
    ASSUME NEW p \in Path
    PROVE  /\ Up(p) \subseteq Path /\ Upward(Up(p))
           /\ \A S \in SUBSET Path : Upward(S) /\ p \in S => Up(p) \subseteq S
<1>1. Above(p) = {q \in Path \ {p} : \A S \in UpwardSets : p \in S => q \in S}
  BY DEF Above, AboveOf
<1>2. Up(p) \subseteq Path
  BY <1>1 DEF Up
<1>3. ASSUME NEW S \in SUBSET Path, Upward(S), p \in S
      PROVE  Up(p) \subseteq S
  BY <1>1, <1>3 DEF Up, UpwardSets
<1>4. \A q \in Path : (\A S \in UpwardSets : p \in S => q \in S) => q \in Up(p)
  BY <1>1 DEF Up
<1>5. ASSUME NEW q \in Up(p), Parent[q] # Root
      PROVE  Parent[q] \in Up(p)
  <2>1. q \in Path /\ Parent[q] \in Path
    BY <1>2, <1>5, PkgInfoAssumption
  <2>2. ASSUME NEW S \in UpwardSets, p \in S
        PROVE  Parent[q] \in S
    <3>1. q \in S
      BY <1>3, <2>2 DEF UpwardSets
    <3> QED
      BY <1>5, <3>1 DEF UpwardSets, Upward
  <2> QED
    BY <1>4, <2>1, <2>2
<1>6. Upward(Up(p))
  BY <1>5 DEF Upward
<1> QED
  BY <1>2, <1>3, <1>6

\* No set of paths is closed under the parent.
LEMMA NoCycle ==
    ASSUME NEW S \in SUBSET Path, S # {}
    PROVE  \E p \in S : Parent[p] \notin S
BY PkgInfoAssumption

\* Above a path are the directory it is in and what is above that.
LEMMA UpStep ==
    ASSUME NEW p \in Path, Parent[p] # Root
    PROVE  Parent[p] \in Path /\ Up(p) = {p} \cup Up(Parent[p])
<1>1. Parent[p] \in Path
  BY PkgInfoAssumption
<1>2. Up(Parent[p]) \subseteq Up(p) /\ p \in Up(p)
  <2>1. Parent[p] \in Up(p)
    BY UpLeast DEF Upward, Up
  <2> QED
    BY <1>1, <2>1, UpLeast DEF Up
<1>3. Upward({p} \cup Up(Parent[p])) /\ {p} \cup Up(Parent[p]) \in SUBSET Path
  <2>1. Upward(Up(Parent[p])) /\ Up(Parent[p]) \subseteq Path /\ Parent[p] \in Up(Parent[p])
    BY <1>1, UpLeast DEF Up
  <2> QED
    BY <2>1 DEF Upward
<1>4. Up(p) \subseteq {p} \cup Up(Parent[p])
  BY <1>3, UpLeast
<1> QED
  BY <1>1, <1>2, <1>4

LEMMA NotAboveItself ==
    ASSUME NEW p \in Path, Parent[p] # Root
    PROVE  p \notin Up(Parent[p])
<1> SUFFICES ASSUME p \in Up(Parent[p]) PROVE FALSE
  OBVIOUS
<1> DEFINE S == {q \in Up(p) : p \in Up(q)}
<1>1. S \in SUBSET Path /\ p \in S
  BY UpLeast DEF Up
<1>2. ASSUME NEW q \in S
      PROVE  Parent[q] \in S
  <2>1. q \in Path /\ p \in Up(q) /\ q \in Up(p)
    BY <1>1
  <2>2. Parent[q] # Root /\ p \in Up(Parent[q])
    <3>1. CASE q = p
      BY <3>1
    <3>2. CASE q # p /\ Parent[q] # Root
      BY <2>1, <3>2, UpStep
    <3>3. CASE q # p /\ Parent[q] = Root
      <4>1. Upward({q}) /\ {q} \in SUBSET Path
        BY <2>1, <3>3 DEF Upward
      <4>2. Up(q) \subseteq {q}
        BY <2>1, <4>1, UpLeast
      <4> QED
        BY <2>1, <3>3, <4>2
    <3> QED
      BY <3>1, <3>2, <3>3
  <2>3. Parent[q] \in Up(p)
    BY <2>1, <2>2, UpLeast DEF Upward
  <2> QED
    BY <2>2, <2>3
<1> HIDE DEF S
<1> QED
  BY <1>1, <1>2, NoCycle

\* What is above a path, one step at a time.
LEMMA AboveStep ==
    ASSUME NEW p \in Path
    PROVE  /\ Above(p) \subseteq Path /\ p \notin Above(p)
           /\ Parent[p] = Root => Above(p) = {}
           /\ Parent[p] # Root => /\ Parent[p] \in Path /\ Parent[p] # p
                                  /\ Above(p) = {Parent[p]} \cup Above(Parent[p])
<1>1. Above(p) \subseteq Path /\ p \notin Above(p)
  BY DEF Above, AboveOf
<1>2. ASSUME Parent[p] = Root
      PROVE  Above(p) = {}
  <2>1. Upward({p}) /\ {p} \in SUBSET Path
    BY <1>2 DEF Upward
  <2>2. Up(p) \subseteq {p}
    BY <2>1, UpLeast
  <2> QED
    BY <1>1, <2>2 DEF Up
<1>3. ASSUME Parent[p] # Root
      PROVE  /\ Parent[p] \in Path /\ Parent[p] # p
             /\ Above(p) = {Parent[p]} \cup Above(Parent[p])
  <2>1. Parent[p] \in Path /\ Up(p) = {p} \cup Up(Parent[p]) /\ p \notin Up(Parent[p])
    BY <1>3, UpStep, NotAboveItself
  <2>2. Above(p) = Up(p) \ {p}
    BY <1>1 DEF Up
  <2>3. Up(Parent[p]) = {Parent[p]} \cup Above(Parent[p])
    BY DEF Up
  <2> QED
    BY <2>1, <2>2, <2>3
<1> QED
  BY <1>1, <1>2, <1>3

\* Between a directory and what is below it there is an entry of it.
LEMMA EntryBetween ==
    ASSUME NEW r \in Path, NEW p \in Above(r)
    PROVE  \E c \in {r} \cup Above(r) : Parent[c] = p
<1> SUFFICES ASSUME \A c \in Up(r) : Parent[c] # p PROVE FALSE
  BY DEF Up
<1>1. p \in Up(r) /\ p # r
  BY AboveStep DEF Up
<1>2. Upward(Up(r) \ {p}) /\ Up(r) \ {p} \in SUBSET Path /\ r \in Up(r) \ {p}
  BY <1>1, UpLeast DEF Upward, Up
<1>3. Up(r) \subseteq Up(r) \ {p}
  BY <1>2, UpLeast
<1> QED
  BY <1>1, <1>3

-----------------------------------------------------------------------------
(* The invariant, by parts.                                                *)

\* The machine by itself: which option is in which loop, and nothing printed
\* before the end.
Control ==
    /\ op \in {"none", "i", "l", "o", "f", "O", "m"} /\ ret \in {-1, 0, 1}
    /\ ipc \in {"main", "answer", "lstat", "opendir", "readdir", "done", "died"}
    /\ target \in Path \cup {Root} /\ changes \in 0..MaxChanges
    /\ ipc = "main" => op = "none" /\ found = {} /\ frames = <<>> /\ target = Root
    /\ ipc = "lstat" => op = "m"
    /\ ipc \in {"opendir", "readdir"} => op = "O"
    /\ ipc = "answer" => op \notin {"m", "O"}
    /\ ipc # "done" => out = {}
Lists == db \in Databases /\ left \in Seq(Path) /\ found \subseteq Path

\* The file system, and what is remembered of it.
Tree == disk \in [Path -> Kind] /\ IsTree(disk)
Past ==
    /\ was \subseteq Path \X Kind /\ Now(disk) \subseteq was
    /\ \A p \in Path : WasThere(p) => \A q \in Above(p) : <<q, "dir">> \in was

\* -m: a listed file that was looked at is found missing or was there.
Unseen(p) == <<p, "absent">> \in was \/ Above(p) \cap Locked # {}
LookedAt ==
    op = "m" =>
        /\ \A k \in DOMAIN left : left[k] \in Listed(db)
        /\ \A p \in found : p \in Listed(db) /\ Unseen(p)
        /\ \A p \in Listed(db) : p \in found \/ WasThere(p) \/ \E k \in DOMAIN left : left[k] = p
        /\ ipc = "done" => left = <<>> /\ out = found
        /\ ipc = "died" => \E p \in Listed(db) : \E q \in Above(p) : <<q, "file">> \in was

\* -O: the directories that are open, from the root down.
FrameType ==
    [dir : Path \cup {Root}, must : SUBSET Path, may : SUBSET (Path \X {"file", "dir"}),
     open : BOOLEAN]
Framed == frames \in Seq(FrameType)
Chain ==
    /\ op # "O" => frames = <<>>
    /\ \A k \in DOMAIN frames :
        IF k = 1 THEN frames[k].dir = Root
        ELSE frames[k].dir \in Path /\ Parent[frames[k].dir] = frames[k - 1].dir
FrameOK(f) ==
    /\ f.must \subseteq Children(disk, f.dir) /\ f.must \cap found = {}
    /\ \A e \in f.may : e \in was /\ Parent[e[1]] = f.dir /\ e[1] \notin found
    /\ ~f.open => f.must = {}
FramesOK == \A k \in DOMAIN frames : FrameOK(frames[k])
FoundOK ==
    op = "O" =>
        \A p \in found :
            /\ WasThere(p) /\ ({p} \cup Above(p)) \cap Excepted = {}
            /\ Parent[p] = Root \/ Parent[p] \in found
DirsFound == op = "O" => \A k \in DOMAIN frames : frames[k].dir = Root \/ frames[k].dir \in found
TargetOK ==
    ipc = "opendir" =>
        \/ target = Root /\ found = {} /\ frames = <<>>
        \/ /\ target \in found /\ <<target, "dir">> \in was
           /\ \A c \in found : Parent[c] # target
           /\ frames # <<>> /\ Parent[target] = Top.dir

\* -O: who is to be found, and why that will be so.
Plain(p) ==
    /\ \A q \in {p} \cup Above(p) : Steady(q) /\ q \notin Excepted
    /\ Above(p) \cap Locked = {}
Ahead(p) ==
    \/ p \in found
    \/ ipc = "opendir" /\ target = Parent[p]
    \/ \E k \in DOMAIN frames : frames[k].dir = Parent[p] /\ p \in frames[k].must
    \/ Parent[p] # Root /\ Parent[p] \notin found
Walk == ipc \in {"opendir", "readdir"} => \A p \in Path : Plain(p) => Ahead(p)

-----------------------------------------------------------------------------
(* The file system, and what is remembered of it.                          *)

\* The steps of pkginfo, and those of others.
Answer == Installed \/ ListFilesOf \/ Owner \/ Footprint
Looking == Lstat \/ LstatDies \/ PrintMissing
Walking == OpenDir \/ OpenDenied \/ OpenDies \/ ReadDir \/ DirEnds \/ FindOrphans
ByPkginfo == Dispatch \/ Quits \/ Usage \/ Answer \/ Looking \/ Walking
ByOthers == Appears \/ Disappears

LEMMA StepsSplit ==
    ASSUME [InfoNext]_infoVars
    PROVE  ByPkginfo \/ ByOthers \/ UNCHANGED infoVars
BY DEF InfoNext, ByPkginfo, ByOthers, Answer, Looking, Walking

LEMMA PkginfoKeeps ==
    ASSUME ByPkginfo \/ UNCHANGED infoVars
    PROVE  Keeps
BY DEF ByPkginfo, Answer, Looking, Walking, infoVars, query, Keeps, Dispatch, Quits, Usage,
       Answers, Installed, ListFilesOf, Owner, Footprint, MissingRest, Lstat, LstatDies,
       PrintMissing, WalkRest, OpenDir, OpenDenied, OpenDies, ReadDir, DirEnds, FindOrphans

\* Every path was what it is; what is there has its directories.
LEMMA WasNow ==
    ASSUME Tree, Past, NEW p \in Path
    PROVE  /\ <<p, disk[p]>> \in was /\ disk[p] \in Kind
           /\ disk[p] # "absent" => WasThere(p) /\ \A q \in Above(p) : disk[q] = "dir"
<1>1. disk[p] \in Kind
  BY DEF Tree
<1>2. <<p, disk[p]>> \in was
  BY DEF Past, Now
<1>3. disk[p] # "absent" => \A q \in Above(p) : disk[q] = "dir"
  BY DEF Tree, IsTree
<1> QED
  BY <1>1, <1>2, <1>3 DEF Kind, WasThere

\* What others do: one path, to or from absent; nothing is below it.
LEMMA OthersChange ==
    ASSUME Tree, ByOthers
    PROVE  \E p \in Path, kind \in Kind, seenAs \in {"file", "dir"} :
            /\ Changes(p, kind, seenAs) /\ disk[p] # kind
            /\ kind # "absent" => kind = seenAs /\ disk[p] = "absent"
                                  /\ \A q \in Above(p) : disk[q] = "dir"
            /\ kind = "absent" => seenAs = disk[p]
            /\ Children(disk, p) = {}
<1>1. CASE Appears
  <2>1. PICK p \in Path, kind \in {"file", "dir"} :
          disk[p] = "absent" /\ (\A q \in Above(p) : disk[q] = "dir") /\ Changes(p, kind, kind)
    BY <1>1 DEF Appears
  <2>2. ASSUME NEW c \in Children(disk, p)
        PROVE  FALSE
    <3>1. c \in Path /\ Parent[c] = p /\ disk[c] # "absent"
      BY DEF Children
    <3>2. p \in Above(c)
      BY <3>1, AboveStep, PkgInfoAssumption
    <3>3. disk[p] = "dir"
      BY <3>1, <3>2 DEF Tree, IsTree
    <3> QED
      BY <2>1, <3>3
  <2>3. Children(disk, p) = {}
    BY <2>2
  <2> QED
    BY <2>1, <2>3 DEF Kind
<1>2. CASE Disappears
  <2>1. PICK p \in Path :
          disk[p] # "absent" /\ Children(disk, p) = {} /\ Changes(p, "absent", disk[p])
    BY <1>2 DEF Disappears
  <2>2. disk[p] \in {"file", "dir"}
    BY <2>1 DEF Tree, Kind
  <2> QED
    BY <2>1, <2>2 DEF Kind
<1> QED
  BY <1>1, <1>2 DEF ByOthers

LEMMA WorldKept ==
    ASSUME Tree, Past, [InfoNext]_infoVars
    PROVE  Tree' /\ Past' /\ was \subseteq was'
<1>1. CASE Keeps
  BY <1>1 DEF Keeps, Tree, Past, WasThere
<1>2. CASE ByOthers
  <2>1. PICK p \in Path, kind \in Kind, seenAs \in {"file", "dir"} :
            /\ Changes(p, kind, seenAs) /\ disk[p] # kind
            /\ kind # "absent" => \A q \in Above(p) : disk[q] = "dir"
            /\ disk[p] = "absent" \/ kind = "absent"
            /\ Children(disk, p) = {}
    BY <1>2, OthersChange
  <2>2. /\ disk' = [disk EXCEPT ![p] = kind] /\ was' = was \cup {<<p, kind>>}
        /\ disk' \in [Path -> Kind]
        /\ disk'[p] = kind /\ \A q \in Path \ {p} : disk'[q] = disk[q]
    BY <2>1 DEF Changes, Tree
  <2>3. ASSUME NEW r \in Path, disk'[r] # "absent", NEW q \in Above(r)
        PROVE  disk'[q] = "dir"
    <3>1. q \in Path /\ Above(r) \subseteq Path
      BY AboveStep
    <3>2. CASE r = p
      BY <2>1, <2>2, <2>3, <3>1, <3>2, AboveStep
    <3>3. CASE r # p
      <4>1. disk[r] # "absent" /\ \A d \in Above(r) : disk[d] = "dir"
        BY <2>2, <2>3, <3>3 DEF Tree, IsTree
      <4>2. CASE q = p
        <5>1. PICK c \in {r} \cup Above(r) : Parent[c] = p
          BY <4>2, EntryBetween
        <5>2. c \in Children(disk, p)
          BY <3>1, <4>1, <5>1 DEF Children
        <5> QED
          BY <2>1, <5>2
      <4>3. CASE q # p
        BY <2>2, <3>1, <4>1, <4>3
      <4> QED
        BY <4>2, <4>3
    <3> QED
      BY <3>2, <3>3
  <2>4. Tree'
    BY <2>2, <2>3 DEF Tree, IsTree
  <2>5. Now(disk)' \subseteq was' /\ was' \subseteq Path \X Kind
    BY <2>2 DEF Past, Now
  <2>6. ASSUME NEW r \in Path, WasThere(r)', NEW q \in Above(r)
        PROVE  <<q, "dir">> \in was'
    <3>1. CASE WasThere(r)
      BY <2>2, <3>1 DEF Past
    <3>2. CASE ~WasThere(r)
      <4>1. r = p /\ kind # "absent"
        BY <2>2, <2>6, <3>2 DEF WasThere
      <4>2. disk[q] = "dir" /\ q \in Path
        BY <2>1, <4>1, AboveStep
      <4> QED
        BY <2>2, <4>2 DEF Past, Now
    <3> QED
      BY <3>1, <3>2
  <2> QED
    BY <2>2, <2>4, <2>5, <2>6 DEF Past
<1> QED
  BY <1>1, <1>2, StepsSplit, PkginfoKeeps

-----------------------------------------------------------------------------
(* The control, and the lists.                                             *)

LEMMA ServedIs == Served \in {"none", "i", "l", "o", "f", "O", "m"}
<1> DEFINE asked == <<"i", "l", "o", "f", "O", "m", "none">>
           First(k) == asked[k] \in opts \cup {"none"} /\ \A m \in 1..(k - 1) : asked[m] \notin opts
<1>1. DOMAIN asked = 1..7
  OBVIOUS
<1>2. \E k \in 1..7 : First(k)
  <2>1. CASE asked[1] \in opts
    BY <2>1
  <2>2. CASE asked[2] \in opts /\ ~First(1)
    BY <2>2
  <2>3. CASE asked[3] \in opts /\ ~First(1) /\ ~First(2)
    BY <2>3
  <2>4. CASE asked[4] \in opts /\ \A k \in 1..3 : asked[k] \notin opts
    BY <2>4
  <2>5. CASE asked[5] \in opts /\ \A k \in 1..4 : asked[k] \notin opts
    BY <2>5
  <2>6. CASE asked[6] \in opts /\ \A k \in 1..5 : asked[k] \notin opts
    BY <2>6
  <2>7. CASE \A k \in 1..6 : asked[k] \notin opts
    BY <2>7
  <2> QED
    BY <2>1, <2>2, <2>3, <2>4, <2>5, <2>6, <2>7
<1>3. \E o \in opts \cup {"none"} :
        \E k \in DOMAIN asked : asked[k] = o /\ \A m \in 1..(k - 1) : asked[m] \notin opts
  BY <1>1, <1>2
<1>4. \E k \in DOMAIN asked : asked[k] = Served
  BY <1>3 DEF Served
<1>5. \A k \in DOMAIN asked : asked[k] \in {"none", "i", "l", "o", "f", "O", "m"}
  OBVIOUS
<1> QED
  BY <1>4, <1>5

\* The entries readdir may return.
Entries == Top.may \cup {<<p, disk[p]>> : p \in Top.must}

LEMMA TopIs ==
    ASSUME Framed, frames # <<>>
    PROVE  /\ Len(frames) \in Nat \ {0} /\ Len(frames) \in DOMAIN frames
           /\ DOMAIN frames = 1..Len(frames) /\ Top = frames[Len(frames)] /\ Top \in FrameType
BY DEF Framed, Top

LEMMA EntryIs ==
    ASSUME Framed, Tree, frames # <<>>, NEW e \in Entries
    PROVE  e[1] \in Path /\ e = <<e[1], e[2]>> /\ (e \in Top.may \/ (e[1] \in Top.must /\ e[2] = disk[e[1]]))
<1>1. Top.may \subseteq Path \X {"file", "dir"} /\ Top.must \subseteq Path
  BY TopIs DEF FrameType
<1>2. CASE e \in Top.may
  BY <1>1, <1>2
<1>3. CASE e \in {<<p, disk[p]>> : p \in Top.must}
  BY <1>1, <1>3
<1> QED
  BY <1>2, <1>3 DEF Entries

\* One turn of the loop of list_fs_files, with the entry it read.
Reads(e) ==
    /\ ipc = "readdir" /\ frames # <<>> /\ e \in Entries
    /\ frames' = [frames EXCEPT ![Len(frames)] = Forget(@, e[1])]
    /\ found' = IF e[1] \in Excepted THEN found ELSE found \cup {e[1]}
    /\ IF e[1] \notin Excepted /\ e[2] = "dir" THEN target' = e[1] /\ ipc' = "opendir"
       ELSE UNCHANGED <<target, ipc>>
    /\ UNCHANGED out /\ WalkRest

LEMMA ReadsOne == ReadDir => \E e : Reads(e)
BY DEF ReadDir, Reads, Entries

LEMMA ControlKept ==
    ASSUME Control, Framed, Tree, [InfoNext]_infoVars
    PROVE  Control'
<1>1. CASE Dispatch
  <2>1. op' = Served /\ op' \in {"none", "i", "l", "o", "f", "O", "m"}
    BY <1>1, ServedIs DEF Dispatch
  <2>2. ipc' = CASE op' = "m" -> "lstat" [] op' = "O" -> "opendir" [] OTHER -> "answer"
    BY <1>1, <2>1 DEF Dispatch
  <2>3. UNCHANGED <<ret, target, changes, out>> /\ ipc = "main"
    BY <1>1 DEF Dispatch, Keeps
  <2> QED
    BY <2>1, <2>2, <2>3 DEF Control
<1>2. CASE Quits \/ Usage
  BY <1>2 DEF Quits, Usage, Exit, Keeps, Control
<1>3. CASE Answer
  BY <1>3 DEF Answer, Answers, Installed, ListFilesOf, Owner, Footprint, Exit, Keeps, Control
<1>4. CASE Looking
  BY <1>4 DEF Looking, Lstat, LstatDies, PrintMissing, MissingRest, Exit, Keeps, Control
<1>5. CASE ReadDir
  <2>1. PICK e : Reads(e)
    BY <1>5, ReadsOne
  <2>2. e[1] \in Path
    BY <2>1, EntryIs DEF Reads
  <2> QED
    BY <2>1, <2>2 DEF Reads, WalkRest, Keeps, Control
<1>6. CASE Walking /\ ~ReadDir
  BY <1>6 DEF Walking, OpenDir, OpenDenied, OpenDies, DirEnds, FindOrphans, WalkRest, Exit,
              Keeps, Control
<1>7. CASE ByOthers
  <2>1. PICK p, kind, seenAs : Changes(p, kind, seenAs)
    BY <1>7 DEF ByOthers, Appears, Disappears
  <2>2. changes' \in 0..MaxChanges
    BY <2>1, PkgInfoAssumption DEF Changes, Control
  <2> QED
    BY <2>1, <2>2 DEF Changes, Control
<1>8. CASE UNCHANGED infoVars
  BY <1>8 DEF infoVars, Control
<1> QED
  BY <1>1, <1>2, <1>3, <1>4, <1>5, <1>6, <1>7, <1>8, StepsSplit DEF ByPkginfo

LEMMA ListsKept ==
    ASSUME Lists, Framed, Tree, [InfoNext]_infoVars
    PROVE  Lists'
<1>1. db' = db
  BY StepsSplit, PkginfoKeeps DEF Keeps, query, ByOthers, Appears, Disappears, Changes
<1>2. CASE Dispatch
  BY <1>1, <1>2, PkgInfoAssumption DEF Dispatch, Lists
<1>3. CASE Looking
  <2>1. left # <<>> => Head(left) \in Path /\ Tail(left) \in Seq(Path)
    BY DEF Lists
  <2> QED
    BY <1>1, <1>3, <2>1 DEF Looking, Lstat, LstatDies, PrintMissing, Lists
<1>4. CASE ReadDir
  <2>1. PICK e : Reads(e)
    BY <1>4, ReadsOne
  <2>2. e[1] \in Path
    BY <2>1, EntryIs DEF Reads
  <2> QED
    BY <1>1, <2>1, <2>2 DEF Reads, WalkRest, Lists
<1>5. CASE Quits \/ Usage \/ Answer \/ (Walking /\ ~ReadDir) \/ ByOthers \/ UNCHANGED infoVars
  <2>1. UNCHANGED <<left, found>>
    BY <1>5 DEF Quits, Usage, Answer, Answers, Installed, ListFilesOf, Owner, Footprint, Walking,
                OpenDir, OpenDenied, OpenDies, DirEnds, FindOrphans, WalkRest,
                ByOthers, Appears, Disappears, Changes, infoVars
  <2> QED
    BY <1>1, <2>1 DEF Lists
<1> QED
  BY <1>2, <1>3, <1>4, <1>5, StepsSplit DEF ByPkginfo

-----------------------------------------------------------------------------
(* -m.                                                                     *)

LEMMA ListedPaths ==
    ASSUME Lists
    PROVE  /\ FilesOf(db) \in Seq(Path) /\ Listed(db) \subseteq Path
           /\ \A k \in DOMAIN FilesOf(db) : FilesOf(db)[k] \in Listed(db)
           /\ \A p \in Listed(db) : \E k \in DOMAIN FilesOf(db) : FilesOf(db)[k] = p
BY PkgInfoAssumption DEF Lists, Listed

\* What lstat says was so at that moment.
LEMMA LookupIs ==
    ASSUME Tree, Past, NEW p \in Path
    PROVE  /\ Lookup(p) \in {"ok", "ENOENT", "EACCES", "ENOTDIR"}
           /\ Lookup(p) = "ok" => WasThere(p) /\ disk[p] # "absent"
           /\ Lookup(p) = "ENOENT" => disk[p] = "absent" /\ <<p, "absent">> \in was
           /\ Lookup(p) = "EACCES" => Above(p) \cap Locked # {}
           /\ Lookup(p) = "ENOTDIR" => \E q \in Above(p) : <<q, "file">> \in was
<1>1. \A q \in Above(p) : q \in Path
  BY AboveStep
<1>2. \A q \in Above(p) : disk[q] = "file" => <<q, "file">> \in was
  BY <1>1, WasNow
<1>3. disk[p] # "absent" => WasThere(p)
  BY WasNow
<1>4. disk[p] = "absent" => <<p, "absent">> \in was
  BY WasNow
<1> QED
  BY <1>2, <1>3, <1>4 DEF Lookup

LEMMA LookedAtKept ==
    ASSUME Control, Lists, Tree, Past, LookedAt, [InfoNext]_infoVars
    PROVE  LookedAt'
<1>1. db' = db /\ Listed(db)' = Listed(db)
  <2>1. db' = db
    BY StepsSplit, PkginfoKeeps DEF Keeps, query, ByOthers, Appears, Disappears, Changes
  <2> QED
    BY <2>1 DEF Listed, FilesOf
<1>2. was \subseteq was'
  BY WorldKept
<1>3. CASE Dispatch
  <2>1. op' = "m" => ipc' = "lstat" /\ left' = FilesOf(db) /\ found' = {}
    BY <1>3 DEF Dispatch, Control
  <2>2. \A k \in DOMAIN FilesOf(db) : FilesOf(db)[k] \in Listed(db)
    BY ListedPaths
  <2>3. \A p \in Listed(db) : \E k \in DOMAIN FilesOf(db) : FilesOf(db)[k] = p
    BY ListedPaths
  <2> QED
    BY <1>1, <2>1, <2>2, <2>3 DEF LookedAt
<1>4. CASE Quits \/ Usage \/ Answer \/ Walking
  <2>1. op' = op /\ op # "m"
    BY <1>4 DEF Quits, Usage, Answer, Answers, Installed, ListFilesOf, Owner, Footprint, Walking,
                OpenDir, OpenDenied, OpenDies, ReadDir, DirEnds, FindOrphans, WalkRest, Control
  <2> QED
    BY <2>1 DEF LookedAt
<1>5. CASE Looking
  <2>0. op' = op /\ op = "m" /\ was' = was /\ ipc = "lstat" /\ left \in Seq(Path)
    BY <1>5 DEF Looking, Lstat, LstatDies, PrintMissing, MissingRest, Keeps, Control, Lists
  <2>1. CASE PrintMissing
    BY <1>1, <2>0, <2>1 DEF PrintMissing, Exit, LookedAt, WasThere, Unseen
  <2>2. CASE left # <<>> /\ ~PrintMissing
    <3> DEFINE h == Head(left)
    <3>1. /\ h = left[1] /\ 1 \in DOMAIN left /\ h \in Path
          /\ \A k \in DOMAIN Tail(left) : k + 1 \in DOMAIN left /\ Tail(left)[k] = left[k + 1]
          /\ \A k \in DOMAIN left \ {1} : k - 1 \in DOMAIN Tail(left) /\ Tail(left)[k - 1] = left[k]
      BY <2>0, <2>2
    <3>2. h \in Listed(db)
      BY <2>0, <3>1 DEF LookedAt
    <3>3. CASE LstatDies
      <4>1. ipc' = "died" /\ Lookup(h) = "ENOTDIR" /\ UNCHANGED <<left, found>>
        BY <3>3 DEF LstatDies
      <4>2. \E q \in Above(h) : <<q, "file">> \in was
        BY <3>1, <4>1, LookupIs
      <4> HIDE DEF h
      <4> QED
        BY <1>1, <2>0, <3>2, <4>1, <4>2 DEF LookedAt, WasThere, Unseen
    <3>4. CASE Lstat
      <4>1. /\ left' = Tail(left) /\ Lookup(h) # "ENOTDIR" /\ ipc' = "lstat"
            /\ found' = IF Lookup(h) = "ok" THEN found ELSE found \cup {h}
        BY <2>0, <3>4 DEF Lstat
      <4>2. Lookup(h) = "ok" => WasThere(h)
        BY <3>1, LookupIs
      <4>3. Lookup(h) # "ok" => Unseen(h)
        BY <3>1, <4>1, LookupIs DEF Unseen
      <4> HIDE DEF h
      <4>4. \A k \in DOMAIN left' : left'[k] \in Listed(db)
        BY <2>0, <3>1, <4>1 DEF LookedAt
      <4>5. \A p \in found' : p \in Listed(db) /\ Unseen(p)
        BY <2>0, <3>2, <4>1, <4>3 DEF LookedAt
      <4>6. ASSUME NEW p \in Listed(db)
            PROVE  p \in found' \/ WasThere(p) \/ \E k \in DOMAIN left' : left'[k] = p
        <5>1. CASE p \in found \/ WasThere(p)
          BY <4>1, <5>1
        <5>2. CASE p = h
          BY <4>1, <4>2, <5>2
        <5>3. CASE p # h /\ \E k \in DOMAIN left : left[k] = p
          <6>1. PICK k \in DOMAIN left : left[k] = p /\ k # 1
            BY <3>1, <5>3
          <6> QED
            BY <3>1, <4>1, <6>1
        <5> QED
          BY <2>0, <5>1, <5>2, <5>3 DEF LookedAt
      <4> QED
        BY <1>1, <2>0, <4>1, <4>4, <4>5, <4>6 DEF LookedAt, Unseen, WasThere
    <3> QED
      BY <1>5, <2>2, <3>3, <3>4 DEF Looking
  <2> QED
    BY <1>5, <2>1, <2>2 DEF Looking, Lstat, LstatDies
<1>6. CASE ByOthers
  <2>1. UNCHANGED <<op, ipc, left, found, out>>
    BY <1>6 DEF ByOthers, Appears, Disappears, Changes
  <2> QED
    BY <1>1, <1>2, <2>1 DEF LookedAt, Unseen, WasThere
<1>7. CASE UNCHANGED infoVars
  BY <1>1, <1>7 DEF infoVars, LookedAt, Unseen, WasThere
<1> QED
  BY <1>3, <1>4, <1>5, <1>6, <1>7, StepsSplit DEF ByPkginfo

LEMMA LookedAtMeans ==
    ASSUME Control, LookedAt
    PROVE  MissingAsSeen
<1> SUFFICES ASSUME op = "m"
             PROVE  /\ ipc = "done" => \A p \in Listed(db) :
                        IF p \in out THEN Unseen(p) ELSE WasThere(p)
                    /\ out \subseteq Listed(db)
                    /\ ipc = "died" =>
                        \E p \in Listed(db) : \E q \in Above(p) : <<q, "file">> \in was
  BY DEF MissingAsSeen, Unseen
<1>1. ASSUME ipc = "done"
      PROVE  /\ \A p \in Listed(db) : IF p \in out THEN Unseen(p) ELSE WasThere(p)
             /\ out \subseteq Listed(db)
  <2>1. left = <<>> /\ out = found
    BY <1>1 DEF LookedAt
  <2>2. \A k \in DOMAIN left : FALSE
    BY <2>1
  <2>3. \A p \in Listed(db) : p \in found \/ WasThere(p)
    BY <2>2 DEF LookedAt
  <2> QED
    BY <2>1, <2>3 DEF LookedAt
<1>2. ipc # "done" => out = {}
  BY DEF Control
<1>3. ipc = "died" => \E p \in Listed(db) : \E q \in Above(p) : <<q, "file">> \in was
  BY DEF LookedAt
<1> QED
  BY <1>1, <1>2, <1>3

-----------------------------------------------------------------------------
(* -O: the open directories.                                               *)

Base == Control /\ Lists /\ Tree /\ Past
Open == Framed /\ Chain /\ FramesOK /\ FoundOK /\ DirsFound /\ TargetOK

\* No directory is open twice: going down from one never comes back to it.
LEMMA DirsDiffer ==
    ASSUME Framed, Chain, NEW i \in DOMAIN frames, NEW j \in DOMAIN frames,
           frames[i].dir = frames[j].dir
    PROVE  i = j
<1>1. DOMAIN frames = 1..Len(frames) /\ Len(frames) \in Nat
  BY DEF Framed
<1>2. ASSUME NEW a \in DOMAIN frames, NEW b \in DOMAIN frames, a < b,
             frames[a].dir = frames[b].dir
      PROVE  FALSE
  <2> DEFINE S == {frames[k].dir : k \in (a + 1)..b}
  <2>1. ASSUME NEW k \in (a + 1)..b
        PROVE  /\ frames[k].dir \in Path /\ Parent[frames[k].dir] = frames[k - 1].dir
               /\ k \in DOMAIN frames
    <3>1. k \in DOMAIN frames /\ k # 1
      BY <1>1, <1>2
    <3> QED
      BY <3>1 DEF Chain
  <2>2. S \in SUBSET Path /\ frames[b].dir \in S
    BY <1>1, <1>2, <2>1
  <2>3. ASSUME NEW k \in (a + 1)..b
        PROVE  Parent[frames[k].dir] \in S
    <3>1. CASE k = a + 1
      <4>1. Parent[frames[k].dir] = frames[a].dir
        BY <1>1, <2>1, <3>1
      <4> QED
        BY <1>2, <2>2, <4>1
    <3>2. CASE k # a + 1
      <4>1. k - 1 \in (a + 1)..b
        BY <1>1, <3>2
      <4> QED
        BY <2>1, <4>1
    <3> QED
      BY <3>1, <3>2
  <2>4. \A q \in S : Parent[q] \in S
    BY <2>3
  <2> HIDE DEF S
  <2> QED
    BY <2>2, <2>4, NoCycle
<1> QED
  BY <1>1, <1>2

\* What readdir returns is a new entry of the innermost directory, and was there.
LEMMA EntryOK ==
    ASSUME Tree, Past, Framed, FramesOK, frames # <<>>, NEW e \in Entries
    PROVE  /\ e[1] \in Path /\ e = <<e[1], e[2]>> /\ e \in was /\ e[2] \in {"file", "dir"}
           /\ Parent[e[1]] = Top.dir /\ e[1] \notin found /\ WasThere(e[1])
<1>1. FrameOK(Top) /\ Top \in FrameType
  BY TopIs DEF FramesOK
<1>2. e[1] \in Path /\ e = <<e[1], e[2]>>
  BY EntryIs
<1>3. e \in was /\ e[2] \in {"file", "dir"} /\ Parent[e[1]] = Top.dir /\ e[1] \notin found
  <2>1. CASE e \in Top.may
    BY <1>1, <2>1 DEF FrameOK, FrameType
  <2>2. CASE e[1] \in Top.must /\ e[2] = disk[e[1]]
    <3>1. disk[e[1]] # "absent" /\ Parent[e[1]] = Top.dir /\ e[1] \notin found
      BY <1>1, <2>2 DEF FrameOK, Children
    <3>2. <<e[1], disk[e[1]]>> \in was /\ disk[e[1]] \in Kind
      BY <1>2, WasNow
    <3> QED
      BY <1>2, <2>2, <3>1, <3>2 DEF Kind
  <2> QED
    BY <2>1, <2>2, EntryIs
<1>4. <<e[1], "file">> \in was \/ <<e[1], "dir">> \in was
  BY <1>2, <1>3
<1> QED
  BY <1>2, <1>3, <1>4 DEF WasThere

LEMMA ForgetIs ==
    ASSUME NEW f \in FrameType, NEW p
    PROVE  /\ Forget(f, p) \in FrameType /\ Forget(f, p).dir = f.dir
           /\ Forget(f, p).open = f.open /\ Forget(f, p).must = f.must \ {p}
           /\ Forget(f, p).may = {e \in f.may : e[1] # p}
BY DEF FrameType, Forget

LEMMA SeesIs ==
    \A f \in FrameType, p \in Path, kind \in {"file", "dir"} :
           /\ FrameSees(f, p, kind) \in FrameType /\ FrameSees(f, p, kind).dir = f.dir
           /\ f.dir = p =>
                /\ FrameSees(f, p, kind).must = f.must /\ FrameSees(f, p, kind).may = f.may
                /\ FrameSees(f, p, kind).open = FALSE
           /\ f.dir # p /\ f.open /\ f.dir = Parent[p] /\ p \notin found =>
                /\ FrameSees(f, p, kind).must = f.must \ {p}
                /\ FrameSees(f, p, kind).may = f.may \cup {<<p, kind>>}
                /\ FrameSees(f, p, kind).open = f.open
           /\ f.dir # p /\ ~(f.open /\ f.dir = Parent[p] /\ p \notin found) =>
                FrameSees(f, p, kind) = f
<1> TAKE f \in FrameType, p \in Path, kind \in {"file", "dir"}
<1>1. /\ f = [dir |-> f.dir, must |-> f.must, may |-> f.may, open |-> f.open]
      /\ f.dir \in Path \cup {Root} /\ f.must \in SUBSET Path
      /\ f.may \in SUBSET (Path \X {"file", "dir"}) /\ f.open \in BOOLEAN
  BY DEF FrameType
<1>2. CASE f.dir = p
  <2>1. FrameSees(f, p, kind) = [dir |-> f.dir, must |-> f.must, may |-> f.may, open |-> FALSE]
    BY <1>1, <1>2 DEF FrameSees
  <2> QED
    BY <1>1, <1>2, <2>1 DEF FrameType
<1>3. CASE f.dir # p /\ f.open /\ f.dir = Parent[p] /\ p \notin found
  <2>1. FrameSees(f, p, kind) = [dir |-> f.dir, must |-> f.must \ {p},
                                may |-> f.may \cup {<<p, kind>>}, open |-> f.open]
    BY <1>1, <1>3 DEF FrameSees
  <2>2. f.may \cup {<<p, kind>>} \in SUBSET (Path \X {"file", "dir"})
    BY <1>1
  <2> QED
    BY <1>1, <1>3, <2>1, <2>2 DEF FrameType
<1>4. CASE f.dir # p /\ ~(f.open /\ f.dir = Parent[p] /\ p \notin found)
  BY <1>4 DEF FrameSees
<1> QED
  BY <1>2, <1>3, <1>4

LEMMA SeesMust ==
    ASSUME NEW f \in FrameType, NEW p \in Path, NEW kind \in {"file", "dir"}, f.dir # p
    PROVE  /\ FrameSees(f, p, kind).dir = f.dir
           /\ FrameSees(f, p, kind).must = f.must \ {p} \/ FrameSees(f, p, kind) = f
<1>1. CASE f.open /\ f.dir = Parent[p] /\ p \notin found
  BY <1>1, SeesIs
<1>2. CASE ~(f.open /\ f.dir = Parent[p] /\ p \notin found)
  BY <1>2, SeesIs
<1> QED
  BY <1>1, <1>2

LEMMA OpenAtOpenDir ==
    ASSUME Base, Open, OpenDir
    PROVE  Open'
<1> DEFINE f == [dir |-> target, must |-> Children(disk, target), may |-> {}, open |-> TRUE]
<1>1. /\ ipc = "opendir" /\ op = "O" /\ ipc' = "readdir" /\ frames' = Append(frames, f)
      /\ UNCHANGED <<op, found, target, disk, was>>
  BY DEF OpenDir, WalkRest, Keeps, Base, Control
<1>2. f \in FrameType /\ f.dir = target /\ f.must = Children(disk, target) /\ f.may = {} /\ f.open
  BY DEF Base, Control, Children, FrameType
<1>3. Len(frames) \in Nat /\ DOMAIN frames = 1..Len(frames) /\ frames \in Seq(FrameType)
  BY DEF Open, Framed
<1> HIDE DEF f
<1>4. /\ frames' \in Seq(FrameType) /\ DOMAIN frames' = 1..(Len(frames) + 1)
      /\ \A k \in DOMAIN frames : frames'[k] = frames[k]
      /\ frames'[Len(frames) + 1] = f
  BY <1>1, <1>2, <1>3
<1>5. \/ target = Root /\ found = {} /\ frames = <<>>
      \/ /\ target \in found /\ \A c \in found : Parent[c] # target
         /\ frames # <<>> /\ Parent[target] = Top.dir
  BY <1>1 DEF Open, TargetOK
<1>6. Chain'
  <2>1. ASSUME NEW k \in DOMAIN frames'
        PROVE  IF k = 1 THEN frames'[k].dir = Root
               ELSE frames'[k].dir \in Path /\ Parent[frames'[k].dir] = frames'[k - 1].dir
    <3>1. CASE k \in DOMAIN frames
      <4>1. k # 1 => k - 1 \in DOMAIN frames
        BY <1>3, <3>1
      <4> QED
        BY <1>4, <3>1, <4>1 DEF Open, Chain
    <3>2. CASE k = Len(frames) + 1 /\ frames = <<>>
      BY <1>2, <1>4, <1>5, <3>2
    <3>3. CASE k = Len(frames) + 1 /\ frames # <<>>
      <4>1. k # 1 /\ k - 1 = Len(frames) /\ Len(frames) \in DOMAIN frames
        BY <1>3, <3>3
      <4>2. target \in Path /\ Parent[target] = frames'[k - 1].dir
        BY <1>4, <1>5, <3>3, <4>1 DEF Top, Base, Lists
      <4> QED
        BY <1>2, <1>4, <3>3, <4>1, <4>2
    <3> QED
      BY <1>3, <1>4, <3>1, <3>2, <3>3
  <2> QED
    BY <1>1, <2>1 DEF Chain
<1>7. FramesOK'
  <2>1. ASSUME NEW k \in DOMAIN frames'
        PROVE  FrameOK(frames[k])'
    <3>1. CASE k \in DOMAIN frames
      <4>1. FrameOK(frames[k])
        BY <3>1 DEF Open, FramesOK
      <4> QED
        BY <1>1, <1>4, <3>1, <4>1 DEF FrameOK, Children
    <3>2. CASE k = Len(frames) + 1
      <4>1. \A c \in Children(disk, target) : c \notin found
        BY <1>5 DEF Children
      <4>2. frames'[k] = f
        BY <1>4, <3>2
      <4> QED
        BY <1>1, <1>2, <4>1, <4>2 DEF FrameOK, Children
    <3> QED
      BY <1>3, <1>4, <3>1, <3>2
  <2> QED
    BY <2>1 DEF FramesOK
<1>8. FoundOK'
  BY <1>1 DEF Open, FoundOK, WasThere
<1>9. DirsFound'
  <2>1. ASSUME NEW k \in DOMAIN frames'
        PROVE  frames'[k].dir = Root \/ frames'[k].dir \in found
    <3>1. CASE k \in DOMAIN frames
      BY <1>1, <1>4, <3>1 DEF Open, DirsFound
    <3>2. CASE k = Len(frames) + 1
      BY <1>2, <1>4, <1>5, <3>2
    <3> QED
      BY <1>3, <1>4, <3>1, <3>2
  <2> QED
    BY <1>1, <2>1 DEF DirsFound
<1> QED
  BY <1>1, <1>4, <1>6, <1>7, <1>8, <1>9 DEF Open, Framed, TargetOK

\* After a step that leaves the list of open directories.
LEMMA OpenAtRest ==
    ASSUME Open, UNCHANGED <<op, frames, disk, was, found>>, ipc' # "opendir"
    PROVE  Open'
BY DEF Open, Framed, Chain, FramesOK, FrameOK, Children, FoundOK, WasThere, DirsFound, TargetOK

LEMMA OpenAtDirEnds ==
    ASSUME Base, Open, DirEnds
    PROVE  Open'
<1>1. /\ ipc' # "opendir" /\ op = "O" /\ UNCHANGED <<op, disk, was, found>>
      /\ frames' = SubSeq(frames, 1, Len(frames) - 1) /\ frames # <<>>
  BY DEF DirEnds, WalkRest, Keeps, Base, Control
<1>2. /\ frames \in Seq(FrameType) /\ Len(frames) \in Nat \ {0}
      /\ DOMAIN frames = 1..Len(frames)
  BY <1>1 DEF Open, Framed
<1>3. /\ frames' \in Seq(FrameType) /\ DOMAIN frames' = 1..(Len(frames) - 1)
      /\ \A k \in DOMAIN frames' : k \in DOMAIN frames /\ frames'[k] = frames[k]
  BY <1>1, <1>2
<1>4. Chain'
  <2>1. ASSUME NEW k \in DOMAIN frames', k # 1
        PROVE  k - 1 \in DOMAIN frames'
    BY <1>2, <1>3, <2>1
  <2> QED
    BY <1>1, <1>3, <2>1 DEF Open, Chain
<1>5. FramesOK'
  BY <1>1, <1>3 DEF Open, FramesOK, FrameOK, Children
<1> QED
  BY <1>1, <1>3, <1>4, <1>5 DEF Open, Framed, FoundOK, WasThere, DirsFound, TargetOK

LEMMA OpenAtReadDir ==
    ASSUME Base, Open, ReadDir
    PROVE  Open'
<1>1. PICK e : Reads(e)
  BY ReadsOne
<1> DEFINE p == e[1]
           top == Len(frames)
<1>2. /\ op = "O" /\ UNCHANGED <<op, disk, was>> /\ frames # <<>>
      /\ frames' = [frames EXCEPT ![top] = Forget(@, p)]
      /\ found' = IF p \in Excepted THEN found ELSE found \cup {p}
      /\ p \notin Excepted /\ e[2] = "dir" => target' = p
      /\ ipc' = "opendir" => p \notin Excepted /\ e[2] = "dir"
  BY <1>1 DEF Reads, WalkRest, Keeps, Base, Control
<1>3. /\ p \in Path /\ e = <<p, e[2]>> /\ e \in was /\ e[2] \in {"file", "dir"}
      /\ Parent[p] = Top.dir /\ p \notin found /\ WasThere(p)
  BY <1>1, <1>2, EntryOK DEF Reads, Base, Open
<1> HIDE DEF p
<1>4. /\ top \in Nat \ {0} /\ top \in DOMAIN frames /\ DOMAIN frames = 1..top
      /\ Top = frames[top] /\ frames \in Seq(FrameType) /\ Top \in FrameType
  BY <1>2, TopIs DEF Open, Framed
<1>5. /\ Forget(Top, p) \in FrameType /\ Forget(Top, p).dir = Top.dir
      /\ Forget(Top, p).open = Top.open /\ Forget(Top, p).must = Top.must \ {p}
      /\ Forget(Top, p).may = {x \in Top.may : x[1] # p}
  BY <1>4, ForgetIs
<1> HIDE DEF top
<1>6. /\ frames' \in Seq(FrameType) /\ DOMAIN frames' = DOMAIN frames
      /\ frames'[top] = Forget(Top, p)
      /\ \A k \in DOMAIN frames : k # top => frames'[k] = frames[k]
      /\ \A k \in DOMAIN frames : frames'[k].dir = frames[k].dir
  <2>1. \A k \in DOMAIN frames : frames'[k] = IF k = top THEN Forget(Top, p) ELSE frames[k]
    BY <1>2, <1>4
  <2> QED
    BY <1>2, <1>4, <1>5, <2>1
<1>7. Chain'
  <2>1. \A k \in DOMAIN frames : k # 1 => k - 1 \in DOMAIN frames
    BY <1>4
  <2> QED
    BY <1>2, <1>6, <2>1 DEF Open, Chain
<1>8. FramesOK'
  <2>1. ASSUME NEW k \in DOMAIN frames'
        PROVE  FrameOK(frames[k])'
    <3>1. FrameOK(frames[k]) /\ frames[k] \in FrameType
      BY <1>4, <1>6 DEF Open, FramesOK
    <3>2. CASE k = top
      BY <1>2, <1>4, <1>5, <1>6, <3>1, <3>2 DEF FrameOK, Children
    <3>3. CASE k # top
      <4>1. frames[k].dir # Parent[p]
        BY <1>3, <1>4, <1>6, <3>3, DirsDiffer DEF Open
      <4>2. p \notin frames[k].must /\ \A x \in frames[k].may : x[1] # p
        BY <3>1, <4>1 DEF FrameOK, Children
      <4>3. frames'[k] = frames[k]
        BY <1>6, <3>3
      <4> QED
        BY <1>2, <3>1, <4>2, <4>3 DEF FrameOK, Children
    <3> QED
      BY <3>2, <3>3
  <2> QED
    BY <2>1 DEF FramesOK
<1>9. Parent[p] = Root \/ Parent[p] \in found
  BY <1>2, <1>3, <1>4 DEF Open, DirsFound
<1>10. FoundOK'
  <2>1. p \notin Excepted => Above(p) \cap Excepted = {}
    <3>1. CASE Parent[p] = Root
      BY <1>3, <3>1, AboveStep
    <3>2. CASE Parent[p] # Root
      <4>1. Above(p) = {Parent[p]} \cup Above(Parent[p])
        BY <1>3, <3>2, AboveStep
      <4> QED
        BY <1>2, <1>9, <3>2, <4>1 DEF Open, FoundOK
    <3> QED
      BY <3>1, <3>2
  <2>2. WasThere(p)'
    BY <1>2, <1>3 DEF WasThere
  <2>3. \A x \in found' : /\ WasThere(x)' /\ ({x} \cup Above(x)) \cap Excepted = {}
                          /\ Parent[x] = Root \/ Parent[x] \in found'
    <3>1. ASSUME p \notin Excepted
          PROVE  /\ WasThere(p)' /\ ({p} \cup Above(p)) \cap Excepted = {}
                 /\ Parent[p] = Root \/ Parent[p] \in found'
      BY <1>2, <1>9, <2>1, <2>2, <3>1
    <3> TAKE x \in found'
    <3>2. CASE x \in found
      BY <1>2, <3>2 DEF Open, FoundOK, WasThere
    <3>3. CASE x \notin found
      <4>1. x = p /\ p \notin Excepted
        BY <1>2, <3>3
      <4> QED
        BY <3>1, <4>1
    <3> QED
      BY <3>2, <3>3
  <2> QED
    BY <2>3 DEF FoundOK
<1>11. DirsFound'
  BY <1>2, <1>6 DEF Open, DirsFound
<1>12. TargetOK'
  <2> SUFFICES ASSUME ipc' = "opendir"
               PROVE  /\ target' \in found' /\ <<target', "dir">> \in was'
                      /\ \A c \in found' : Parent[c] # target'
                      /\ frames' # <<>> /\ Parent[target'] = Top'.dir
    BY DEF TargetOK
  <2>1. target' = p /\ p \in found' /\ <<p, "dir">> \in was' /\ found' = found \cup {p}
    BY <1>2, <1>3
  <2>2. ASSUME NEW c \in found
        PROVE  Parent[c] # p
    BY <1>2, <1>3, PkgInfoAssumption DEF Open, FoundOK
  <2>3. Parent[p] # p
    BY <1>3, AboveStep, PkgInfoAssumption
  <2>4. frames' # <<>> /\ Len(frames') = top /\ Top'.dir = Top.dir
    BY <1>4, <1>5, <1>6 DEF Top
  <2> QED
    BY <1>3, <2>1, <2>2, <2>3, <2>4
<1> QED
  BY <1>6, <1>7, <1>8, <1>10, <1>11, <1>12 DEF Open, Framed

LEMMA OpenAtOthers ==
    ASSUME Base, Open, ByOthers
    PROVE  Open'
<1>1. PICK p \in Path, kind \in Kind, seenAs \in {"file", "dir"} :
            /\ Changes(p, kind, seenAs)
            /\ kind # "absent" => kind = seenAs
            /\ kind = "absent" => seenAs = disk[p]
            /\ Children(disk, p) = {}
  BY OthersChange DEF Base
<1>2. /\ disk' = [disk EXCEPT ![p] = kind] /\ was' = was \cup {<<p, kind>>}
      /\ frames' = [k \in DOMAIN frames |-> FrameSees(frames[k], p, seenAs)]
      /\ UNCHANGED <<op, ipc, found, target>>
  BY <1>1 DEF Changes
<1>3. <<p, seenAs>> \in was' /\ disk \in [Path -> Kind]
  BY <1>1, <1>2, WasNow DEF Base, Tree
<1>4. /\ frames \in Seq(FrameType) /\ DOMAIN frames = 1..Len(frames) /\ Len(frames) \in Nat
      /\ \A k \in DOMAIN frames : frames[k] \in FrameType
  BY DEF Open, Framed
<1>5. /\ frames' \in Seq(FrameType) /\ DOMAIN frames' = DOMAIN frames
      /\ \A k \in DOMAIN frames : /\ frames'[k] = FrameSees(frames[k], p, seenAs)
                                   /\ frames'[k].dir = frames[k].dir
  <2>1. \A k \in DOMAIN frames : /\ FrameSees(frames[k], p, seenAs) \in FrameType
                                 /\ FrameSees(frames[k], p, seenAs).dir = frames[k].dir
    BY <1>4, SeesIs
  <2> QED
    BY <1>2, <1>4, <2>1
<1>6. frames = <<>> => frames' = <<>>
  BY <1>4, <1>5
<1>7. Chain'
  <2>1. \A k \in DOMAIN frames : k # 1 => k - 1 \in DOMAIN frames
    BY <1>4
  <2> QED
    BY <1>2, <1>5, <1>6, <2>1 DEF Open, Chain
<1>8. FramesOK'
  <2>1. ASSUME NEW k \in DOMAIN frames'
        PROVE  FrameOK(frames[k])'
    <3> DEFINE f == frames[k]
               g == FrameSees(f, p, seenAs)
    <3>1. f \in FrameType /\ frames'[k] = g /\ g.dir = f.dir
      BY <1>4, <1>5
    <3>2. FrameOK(f)
      BY <1>5 DEF Open, FramesOK
    <3>3. /\ g.must \subseteq Children(disk', f.dir) /\ g.must \cap found = {}
          /\ \A e \in g.may : e \in was' /\ Parent[e[1]] = f.dir /\ e[1] \notin found
          /\ ~g.open => g.must = {}
      <4>1. CASE f.dir = p
        <5>1. g.must = f.must /\ g.may = f.may /\ f.must = {}
          BY <1>1, <3>1, <3>2, <4>1, SeesIs DEF FrameOK
        <5> HIDE DEF f, g
        <5> QED
          BY <1>2, <3>2, <5>1 DEF FrameOK
      <4>2. CASE f.dir # p /\ f.open /\ f.dir = Parent[p] /\ p \notin found
        <5>1. g.must = f.must \ {p} /\ g.may = f.may \cup {<<p, seenAs>>} /\ g.open
          BY <3>1, <4>2, SeesIs
        <5> HIDE DEF f, g
        <5> QED
          BY <1>2, <1>3, <3>2, <4>2, <5>1 DEF FrameOK, Children
      <4>3. CASE f.dir # p /\ ~(f.open /\ f.dir = Parent[p] /\ p \notin found)
        <5>1. g = f
          BY <3>1, <4>3, SeesIs
        <5> HIDE DEF f, g
        <5>2. p \notin f.must
          BY <3>2, <4>3 DEF FrameOK, Children
        <5> QED
          BY <1>2, <1>3, <3>2, <5>1, <5>2 DEF FrameOK, Children
      <4> QED
        BY <4>1, <4>2, <4>3
    <3> HIDE DEF f, g
    <3> QED
      BY <1>2, <3>1, <3>3 DEF FrameOK, Children
  <2> QED
    BY <2>1 DEF FramesOK
<1>9. FoundOK'
  BY <1>2 DEF Open, FoundOK, WasThere
<1>10. DirsFound'
  BY <1>2, <1>5 DEF Open, DirsFound
<1>11. TargetOK'
  <2>1. frames # <<>> => frames' # <<>> /\ Top'.dir = Top.dir
    BY <1>4, <1>5 DEF Top
  <2> QED
    BY <1>2, <1>6, <2>1 DEF Open, TargetOK
<1> QED
  BY <1>5, <1>7, <1>8, <1>9, <1>10, <1>11 DEF Open, Framed

LEMMA OpenKept ==
    ASSUME Base, Open, [InfoNext]_infoVars
    PROVE  Open'
<1>1. CASE Dispatch
  <2>1. /\ frames' = <<>> /\ found' = {} /\ target' = Root
    BY <1>1 DEF Dispatch, Base, Control
  <2> QED
    BY <2>1 DEF Open, Framed, Chain, FramesOK, FoundOK, DirsFound, TargetOK
<1>2. CASE Quits \/ Usage \/ Answer
  <2>1. UNCHANGED <<op, frames, disk, was, found>> /\ ipc' # "opendir"
    BY <1>2 DEF Quits, Usage, Answer, Answers, Installed, ListFilesOf, Owner, Footprint, Exit, Keeps
  <2> QED
    BY <2>1, OpenAtRest
<1>3. CASE Looking
  <2>1. op' = op /\ op # "O" /\ ipc' # "opendir" /\ frames' = frames
    BY <1>3 DEF Looking, Lstat, LstatDies, PrintMissing, MissingRest, Exit, Base, Control
  <2>2. frames = <<>>
    BY <2>1 DEF Open, Chain
  <2> QED
    BY <2>1, <2>2 DEF Open, Framed, Chain, FramesOK, FoundOK, DirsFound, TargetOK
<1>4. CASE OpenDenied \/ OpenDies \/ FindOrphans
  <2>1. UNCHANGED <<op, frames, disk, was, found>> /\ ipc' # "opendir"
    BY <1>4 DEF OpenDenied, OpenDies, FindOrphans, WalkRest, Exit, Keeps
  <2> QED
    BY <2>1, OpenAtRest
<1>5. CASE UNCHANGED infoVars
  BY <1>5 DEF infoVars, Open, Framed, Chain, FramesOK, FrameOK, Children, FoundOK, WasThere,
              DirsFound, TargetOK, Top
<1> QED
  BY <1>1, <1>2, <1>3, <1>4, <1>5, StepsSplit, OpenAtOpenDir, OpenAtReadDir, OpenAtDirEnds,
     OpenAtOthers DEF ByPkginfo, Walking

-----------------------------------------------------------------------------
(* -O: what was there all the time is found.                               *)

\* Who was there all the time, is there, and was nothing else.
LEMMA SteadyIs ==
    ASSUME Tree, Past, NEW p \in Path, Steady(p)
    PROVE  /\ disk[p] # "absent" /\ WasThere(p)
           /\ \A k : <<p, k>> \in was => k = disk[p]
<1>1. <<p, disk[p]>> \in was /\ (disk[p] # "absent" => WasThere(p))
  BY WasNow
<1>2. PICK k \in {"file", "dir"} : {e \in was : e[1] = p} = {<<p, k>>}
  BY DEF Steady
<1>3. ASSUME NEW a, <<p, a>> \in was
      PROVE  a = k
  <2>1. <<p, a>> \in {e \in was : e[1] = p}
    BY <1>3
  <2> QED
    BY <1>2, <2>1
<1>4. disk[p] = k
  BY <1>1, <1>3
<1> QED
  BY <1>1, <1>2, <1>3, <1>4

\* What is above a plain path is plain, and a directory all the time.
LEMMA PlainAbove ==
    ASSUME Tree, Past, NEW p \in Path, Plain(p)
    PROVE  /\ disk[p] # "absent" /\ WasThere(p) /\ p \notin Excepted /\ Steady(p)
           /\ \A k : <<p, k>> \in was => k = disk[p]
           /\ \A q \in Above(p) : \A k : <<q, k>> \in was => k = "dir"
           /\ Parent[p] # Root => Plain(Parent[p])
<1>1. Steady(p) /\ p \notin Excepted
  BY DEF Plain
<1>2. /\ disk[p] # "absent" /\ WasThere(p)
      /\ \A k : <<p, k>> \in was => k = disk[p]
  BY <1>1, SteadyIs
<1>3. ASSUME NEW q \in Above(p), NEW k, <<q, k>> \in was
      PROVE  k = "dir"
  <2>1. q \in Path /\ Steady(q)
    BY AboveStep DEF Plain
  <2>2. <<q, "dir">> \in was
    BY <1>2 DEF Past
  <2>3. "dir" = disk[q] /\ k = disk[q]
    BY <1>3, <2>1, <2>2, SteadyIs
  <2> QED
    BY <2>3
<1>4. ASSUME Parent[p] # Root
      PROVE  Plain(Parent[p])
  <2>1. Above(p) = {Parent[p]} \cup Above(Parent[p])
    BY <1>4, AboveStep
  <2> QED
    BY <2>1 DEF Plain
<1> QED
  BY <1>1, <1>2, <1>3, <1>4

\* What was steady before a step of pkginfo still is, and the other way round.
LEMMA PlainSame ==
    ASSUME Keeps
    PROVE  \A p : Plain(p)' <=> Plain(p)
BY DEF Keeps, Plain, Steady

LEMMA WalkAtOpenDir ==
    ASSUME Base, Open, Walk, OpenDir
    PROVE  Walk'
<1>1. /\ ipc = "opendir" /\ Keeps /\ found' = found
      /\ frames' = Append(frames, [dir |-> target, must |-> Children(disk, target), may |-> {},
                                   open |-> TRUE])
  BY DEF OpenDir, WalkRest
<1>2. Len(frames) \in Nat /\ DOMAIN frames = 1..Len(frames) /\ frames \in Seq(FrameType)
  BY DEF Open, Framed
<1>3. /\ DOMAIN frames' = 1..(Len(frames) + 1)
      /\ \A k \in DOMAIN frames : k \in DOMAIN frames' /\ frames'[k] = frames[k]
      /\ frames'[Len(frames) + 1].dir = target
      /\ frames'[Len(frames) + 1].must = Children(disk, target)
  BY <1>1, <1>2
<1>4. ASSUME NEW p \in Path, Plain(p)'
      PROVE  Ahead(p)'
  <2>1. Plain(p) /\ Ahead(p)
    BY <1>1, <1>4, PlainSame DEF Walk
  <2>2. CASE target = Parent[p]
    <3>1. p \in Children(disk, target)
      BY <2>1, <2>2, PlainAbove DEF Base, Children
    <3>2. Len(frames) + 1 \in DOMAIN frames'
      BY <1>2, <1>3
    <3> QED
      BY <1>3, <2>2, <3>1, <3>2 DEF Ahead
  <2>3. CASE target # Parent[p]
    BY <1>1, <1>3, <2>1, <2>3 DEF Ahead
  <2> QED
    BY <2>2, <2>3
<1> QED
  BY <1>4 DEF Walk

LEMMA WalkAtOpenDenied ==
    ASSUME Base, Open, Walk, OpenDenied
    PROVE  Walk'
<1>1. /\ ipc = "opendir" /\ Keeps /\ UNCHANGED <<found, frames>>
      /\ Opens(target) = "EACCES"
  BY DEF OpenDenied, WalkRest
<1>2. ASSUME NEW p \in Path, Plain(p)'
      PROVE  Ahead(p)'
  <2>1. Plain(p) /\ Ahead(p)
    BY <1>1, <1>2, PlainSame DEF Walk
  <2>2. ASSUME target = Parent[p]
        PROVE  FALSE
    <3>1. target # Root
      BY <1>1 DEF Opens
    <3>2. target \in Path /\ Above(p) = {target} \cup Above(target)
      BY <2>2, <3>1, AboveStep
    <3>3. Above(p) \cap Locked = {}
      BY <2>1 DEF Plain
    <3>4. Lookup(target) # "EACCES"
      BY <3>2, <3>3, LookupIs DEF Base
    <3>5. disk[target] # "EACCES"
      BY <3>2 DEF Base, Tree, Kind
    <3> QED
      BY <1>1, <3>1, <3>2, <3>3, <3>4, <3>5 DEF Opens
  <2> QED
    BY <1>1, <2>1, <2>2 DEF Ahead
<1> QED
  BY <1>2 DEF Walk

LEMMA WalkAtReadDir ==
    ASSUME Base, Open, Walk, ReadDir
    PROVE  Walk'
<1>1. PICK e : Reads(e)
  BY ReadsOne
<1> DEFINE p == e[1]
           top == Len(frames)
<1>2. /\ Keeps /\ ipc = "readdir" /\ frames # <<>>
      /\ frames' = [frames EXCEPT ![top] = Forget(@, p)]
      /\ found' = IF p \in Excepted THEN found ELSE found \cup {p}
      /\ p \notin Excepted /\ e[2] = "dir" => target' = p /\ ipc' = "opendir"
  BY <1>1 DEF Reads, WalkRest
<1>3. p \in Path /\ e = <<p, e[2]>> /\ e \in was
  BY <1>1, <1>2, EntryOK DEF Reads, Base, Open
<1> HIDE DEF p
<1>4. /\ top \in DOMAIN frames /\ Top = frames[top] /\ frames \in Seq(FrameType)
      /\ Top \in FrameType
  BY <1>2, TopIs DEF Open, Framed
<1>5. Forget(Top, p).dir = Top.dir /\ Forget(Top, p).must = Top.must \ {p}
  BY <1>4, ForgetIs
<1> HIDE DEF top
<1>6. /\ DOMAIN frames' = DOMAIN frames
      /\ \A k \in DOMAIN frames : frames'[k] = IF k = top THEN Forget(Top, p) ELSE frames[k]
  BY <1>2, <1>4
<1>7. ASSUME NEW r \in Path, Plain(r)'
      PROVE  Ahead(r)'
  <2>1. Plain(r) /\ Ahead(r)
    BY <1>2, <1>7, PlainSame DEF Walk
  <2>2. CASE r \in found \/ r = p
    <3>1. r \in found'
      BY <1>2, <2>1, <2>2, PlainAbove DEF Base
    <3> QED
      BY <3>1 DEF Ahead
  <2>3. CASE r # p /\ \E k \in DOMAIN frames : frames[k].dir = Parent[r] /\ r \in frames[k].must
    <3>1. PICK k \in DOMAIN frames : frames[k].dir = Parent[r] /\ r \in frames[k].must
      BY <2>3
    <3>2. frames'[k].dir = Parent[r] /\ r \in frames'[k].must
      BY <1>4, <1>5, <1>6, <2>3, <3>1
    <3> QED
      BY <1>6, <3>1, <3>2 DEF Ahead
  <2>4. CASE Parent[r] # Root /\ Parent[r] \notin found
    <3>1. CASE Parent[r] \notin found'
      BY <2>4, <3>1 DEF Ahead
    <3>2. CASE Parent[r] \in found'
      <4>1. Parent[r] = p /\ p \notin Excepted
        BY <1>2, <2>4, <3>2
      <4>2. p \in Above(r)
        BY <2>4, <4>1, AboveStep
      <4>3. e[2] = "dir"
        BY <1>3, <2>1, <4>2, PlainAbove DEF Base
      <4> QED
        BY <1>2, <4>1, <4>3 DEF Ahead
    <3> QED
      BY <3>1, <3>2
  <2> QED
    BY <1>2, <2>1, <2>2, <2>3, <2>4 DEF Ahead
<1> QED
  BY <1>7 DEF Walk

LEMMA WalkAtDirEnds ==
    ASSUME Base, Open, Walk, DirEnds
    PROVE  Walk'
<1>1. /\ Keeps /\ ipc = "readdir" /\ UNCHANGED <<ipc, found>> /\ Top.must = {}
      /\ frames' = SubSeq(frames, 1, Len(frames) - 1) /\ frames # <<>>
  BY DEF DirEnds, WalkRest
<1>2. frames \in Seq(FrameType) /\ Len(frames) \in Nat \ {0} /\ DOMAIN frames = 1..Len(frames)
  BY <1>1 DEF Open, Framed
<1>3. \A k \in DOMAIN frames : k # Len(frames) => k \in DOMAIN frames' /\ frames'[k] = frames[k]
  BY <1>1, <1>2
<1>4. ASSUME NEW p \in Path, Plain(p)'
      PROVE  Ahead(p)'
  <2>1. Ahead(p)
    BY <1>1, <1>4, PlainSame DEF Walk
  <2>2. CASE \E k \in DOMAIN frames : frames[k].dir = Parent[p] /\ p \in frames[k].must
    <3>1. PICK k \in DOMAIN frames : frames[k].dir = Parent[p] /\ p \in frames[k].must
      BY <2>2
    <3>2. k # Len(frames)
      BY <1>1, <3>1 DEF Top
    <3> QED
      BY <1>3, <3>1, <3>2 DEF Ahead
  <2>3. CASE p \in found \/ (Parent[p] # Root /\ Parent[p] \notin found)
    BY <1>1, <2>3 DEF Ahead
  <2> QED
    BY <1>1, <2>1, <2>2, <2>3 DEF Ahead
<1> QED
  BY <1>4 DEF Walk

LEMMA WalkAtOthers ==
    ASSUME Base, Open, Walk, ByOthers
    PROVE  Walk'
<1>1. PICK p \in Path, kind \in Kind, seenAs \in {"file", "dir"} :
            Changes(p, kind, seenAs) /\ disk[p] # kind
  BY OthersChange DEF Base
<1>2. /\ was' = was \cup {<<p, kind>>}
      /\ frames' = [k \in DOMAIN frames |-> FrameSees(frames[k], p, seenAs)]
      /\ UNCHANGED <<ipc, found, target>>
  BY <1>1 DEF Changes
<1>3. \A k \in DOMAIN frames : frames[k] \in FrameType
  BY DEF Open, Framed
<1>4. ASSUME NEW r \in Path, Steady(r)'
      PROVE  Steady(r) /\ r # p
  <2>1. PICK k \in {"file", "dir"} : {e \in was' : e[1] = r} = {<<r, k>>}
    BY <1>4 DEF Steady
  <2>2. ASSUME NEW a, <<r, a>> \in was'
        PROVE  a = k
    <3>1. <<r, a>> \in {e \in was' : e[1] = r}
      BY <2>2
    <3> QED
      BY <2>1, <3>1
  <2>3. <<r, disk[r]>> \in was /\ <<p, disk[p]>> \in was
    BY WasNow DEF Base
  <2>4. disk[r] = k /\ r # p
    BY <1>1, <1>2, <2>2, <2>3
  <2>5. {e \in was : e[1] = r} = {<<r, k>>}
    BY <1>2, <2>1, <2>3, <2>4
  <2> QED
    BY <2>4, <2>5 DEF Steady
<1>5. ASSUME ipc \in {"opendir", "readdir"}, NEW r \in Path, Plain(r)'
      PROVE  Ahead(r)'
  <2>1. \A q \in {r} \cup Above(r) : q \in Path /\ Steady(q)' /\ q \notin Excepted
    BY <1>5, AboveStep DEF Plain
  <2>2. \A q \in {r} \cup Above(r) : Steady(q) /\ q # p
    BY <1>4, <2>1
  <2>3. Plain(r)
    BY <1>5, <2>1, <2>2 DEF Plain
  <2>4. Ahead(r)
    BY <1>5, <2>3 DEF Walk
  <2>5. CASE \E k \in DOMAIN frames : frames[k].dir = Parent[r] /\ r \in frames[k].must
    <3>1. PICK k \in DOMAIN frames : frames[k].dir = Parent[r] /\ r \in frames[k].must
      BY <2>5
    <3>2. r # p /\ Parent[r] # p
      <4>1. Parent[r] # Root => Parent[r] \in Above(r)
        BY AboveStep
      <4> QED
        BY <2>2, <4>1, PkgInfoAssumption
    <3>3. k \in DOMAIN frames' /\ frames'[k] = FrameSees(frames[k], p, seenAs)
      BY <1>2, <3>1
    <3> DEFINE f == frames[k]
               g == FrameSees(f, p, seenAs)
    <3>4. f \in FrameType /\ f.dir # p /\ r \in f.must \ {p}
      BY <1>3, <3>1, <3>2
    <3>5. g.dir = f.dir /\ (g.must = f.must \ {p} \/ g = f)
      BY <3>4, SeesMust
    <3> HIDE DEF f, g
    <3>6. g.dir = f.dir /\ r \in g.must
      BY <3>4, <3>5
    <3>7. frames'[k].dir = Parent[r] /\ r \in frames'[k].must
      BY <3>1, <3>3, <3>6 DEF f, g
    <3> QED
      BY <3>3, <3>7 DEF Ahead
  <2>6. CASE ~\E k \in DOMAIN frames : frames[k].dir = Parent[r] /\ r \in frames[k].must
    BY <1>2, <2>4, <2>6 DEF Ahead
  <2> QED
    BY <2>5, <2>6
<1> QED
  BY <1>2, <1>5 DEF Walk

LEMMA WalkKept ==
    ASSUME Base, Open, Walk, [InfoNext]_infoVars
    PROVE  Walk'
<1>1. CASE Dispatch
  <2>1. target' = Root /\ (ipc' = "opendir" \/ ipc' \notin {"opendir", "readdir"}) /\ found' = {}
    BY <1>1 DEF Dispatch, Base, Control
  <2>2. \A p \in Path : Parent[p] = Root \/ Parent[p] \notin found'
    BY <2>1
  <2> QED
    BY <2>1, <2>2 DEF Walk, Ahead
<1>2. CASE Quits \/ Usage \/ Answer \/ Looking \/ OpenDies \/ FindOrphans
  <2>1. ipc' \notin {"opendir", "readdir"}
    BY <1>2 DEF Quits, Usage, Answer, Installed, ListFilesOf, Owner, Footprint, Exit, Looking,
                Lstat, LstatDies, PrintMissing, OpenDies, FindOrphans
  <2> QED
    BY <2>1 DEF Walk
<1>3. CASE UNCHANGED infoVars
  BY <1>3 DEF infoVars, Walk, Plain, Steady, Ahead
<1> QED
  BY <1>1, <1>2, <1>3, StepsSplit, WalkAtOpenDir, WalkAtOpenDenied, WalkAtReadDir,
     WalkAtDirEnds, WalkAtOthers DEF ByPkginfo, Walking

-----------------------------------------------------------------------------
(* What pkginfo says.                                                      *)

\* At the end of the walk whatever was plain is in the list: else the first
\* directory above it that is not would be plain as well, and on the way.
LEMMA AllFound ==
    ASSUME Base, Open, Walk, ipc = "readdir", frames = <<>>, NEW p \in Path, Plain(p)
    PROVE  p \in found
<1> DEFINE S == {q \in Path : Plain(q) /\ q \notin found}
<1>1. ASSUME NEW q \in S
      PROVE  Parent[q] \in S
  <2>1. Ahead(q) /\ q \in Path /\ Plain(q) /\ q \notin found
    BY DEF Walk
  <2>2. DOMAIN frames = {}
    OBVIOUS
  <2>3. Parent[q] # Root /\ Parent[q] \notin found
    BY <2>1, <2>2 DEF Ahead
  <2>4. Parent[q] \in Path /\ Plain(Parent[q])
    BY <2>1, <2>3, PlainAbove, AboveStep DEF Base
  <2> QED
    BY <2>3, <2>4
<1>2. S \in SUBSET Path /\ (p \notin found => p \in S)
  OBVIOUS
<1> HIDE DEF S
<1> QED
  BY <1>1, <1>2, NoCycle

LEMMA OrphansAtEnd ==
    ASSUME Base, Open, Walk, FindOrphans
    PROVE  OrphansAsSeen'
<1>1. /\ ipc = "readdir" /\ frames = <<>> /\ ipc' = "done" /\ op = "O" /\ Keeps
      /\ out' = {p \in found \ Listed(db) : ~PastLastMatch(p)}
  BY DEF FindOrphans, Exit, Base, Control
<1>2. db' = db /\ was' = was /\ Listed(db)' = Listed(db) /\ LastListed' = LastListed
  <2>1. db' = db /\ was' = was
    BY <1>1 DEF Keeps, query
  <2> QED
    BY <2>1 DEF Listed, LastListed, FilesOf
<1>3. ASSUME NEW p \in out'
      PROVE  /\ p \notin Listed(db)' /\ WasThere(p)' /\ ({p} \cup Above(p)) \cap Excepted = {}
  BY <1>1, <1>2, <1>3 DEF Open, FoundOK, WasThere
<1>4. ASSUME NEW p \in Path, p \notin Listed(db)', Plain(p)',
             ~\E m \in LastListed' : WasThere(m)' /\ Key[p] > Key[m]
      PROVE  p \in out'
  <2>1. Plain(p)
    BY <1>1, <1>4, PlainSame
  <2>2. p \in found
    BY <1>1, <2>1, AllFound
  <2>3. \A m \in found : WasThere(m)'
    BY <1>1, <1>2 DEF Open, FoundOK, WasThere
  <2>4. ~PastLastMatch(p)
    BY <1>2, <1>4, <2>3 DEF PastLastMatch
  <2> QED
    BY <1>1, <1>2, <1>4, <2>2, <2>4
<1> QED
  BY <1>1, <1>3, <1>4 DEF OrphansAsSeen, Plain

\* A directory that cannot be opened is one no longer, or lost one above it.
LEMMA OrphansAtDeath ==
    ASSUME Base, Open, OpenDies
    PROVE  OrphansAsSeen'
<1>1. /\ ipc = "opendir" /\ ipc' = "died" /\ Keeps /\ out' = {}
      /\ Opens(target) \in {"ENOENT", "ENOTDIR", "file"}
  BY DEF OpenDies, WalkRest, Base, Control
<1>2. target \in Path /\ <<target, "dir">> \in was
  <2>1. target # Root
    BY <1>1 DEF Opens
  <2> QED
    BY <1>1, <2>1 DEF Open, TargetOK, Base, Lists
<1>3. \E q \in Path : \E k : <<q, "dir">> \in was /\ <<q, k>> \in was /\ k # "dir"
  <2>1. <<target, disk[target]>> \in was
    BY <1>2, WasNow DEF Base
  <2>2. CASE disk[target] # "dir"
    BY <1>2, <2>1, <2>2
  <2>3. CASE disk[target] = "dir"
    <3>1. target # Root /\ Lookup(target) = "ENOTDIR"
      BY <1>1, <1>2, <2>3, LookupIs, PkgInfoAssumption DEF Opens, Base
    <3>2. PICK q \in Above(target) : <<q, "file">> \in was
      BY <1>2, <3>1, LookupIs DEF Base
    <3>3. q \in Path /\ <<q, "dir">> \in was
      BY <1>2, AboveStep DEF Base, Past, WasThere
    <3> QED
      BY <3>2, <3>3
  <2> QED
    BY <2>2, <2>3
<1>4. PICK q \in Path : <<q, "dir">> \in was /\ ~Steady(q)
  <2>1. PICK q \in Path : \E k : <<q, "dir">> \in was /\ <<q, k>> \in was /\ k # "dir"
    BY <1>3
  <2>2. ~Steady(q)
    BY <2>1, SteadyIs DEF Base
  <2> QED
    BY <2>1, <2>2
<1>5. <<q, "dir">> \in was' /\ ~Steady(q)'
  BY <1>1, <1>4 DEF Keeps, Steady
<1> QED
  BY <1>1, <1>5 DEF OrphansAsSeen

LEMMA OrphansKept ==
    ASSUME Base, Open, Walk, OrphansAsSeen, [InfoNext]_infoVars
    PROVE  OrphansAsSeen'
<1>1. CASE op' # "O"
  BY <1>1 DEF OrphansAsSeen
<1>2. CASE op' = "O" /\ ipc' \notin {"done", "died"}
  <2>1. out' = {}
    BY ControlKept, <1>2 DEF Base, Open, Control
  <2> QED
    BY <1>2, <2>1 DEF OrphansAsSeen
<1>3. CASE op' = "O" /\ ipc' \in {"done", "died"}
  <2>1. ~Dispatch
    BY <1>3 DEF Dispatch
  <2>2. ~Quits /\ ~Usage /\ ~Answer /\ ~Looking
    BY <1>3 DEF Quits, Usage, Answer, Answers, Installed, ListFilesOf, Owner, Footprint, Looking,
                Lstat, LstatDies, PrintMissing, MissingRest, Base, Control
  <2>3. ~OpenDir /\ ~OpenDenied
    BY <1>3 DEF OpenDir, OpenDenied
  <2>4. ~DirEnds
    BY <1>3 DEF DirEnds, Base, Control
  <2>5. ~ReadDir
    BY <1>3 DEF ReadDir
  <2>6. ~ByOthers
    BY <1>3 DEF ByOthers, Appears, Disappears, Changes
  <2>7. CASE UNCHANGED infoVars
    <3>1. db' = db /\ was' = was /\ Listed(db)' = Listed(db) /\ LastListed' = LastListed
      <4>1. db' = db /\ was' = was
        BY <2>7 DEF infoVars
      <4> QED
        BY <4>1 DEF Listed, LastListed, FilesOf
    <3>2. op' = op /\ ipc' = ipc /\ out' = out
      BY <2>7 DEF infoVars
    <3> QED
      BY <3>1, <3>2 DEF OrphansAsSeen, Steady, WasThere
  <2> QED
    BY <2>1, <2>2, <2>3, <2>4, <2>5, <2>6, <2>7, StepsSplit, OrphansAtEnd, OrphansAtDeath
    DEF ByPkginfo, Walking
<1> QED
  BY <1>1, <1>2, <1>3

-----------------------------------------------------------------------------
(* The inductive invariant.                                                *)

IInv == Base /\ LookedAt /\ Open /\ Walk /\ OrphansAsSeen

LEMMA IInvInit ==
    ASSUME InfoInit
    PROVE  IInv
<1>1. PICK o \in Queries, d \in Databases, fs \in Disks : InfoStart(o, d, fs)
  BY DEF InfoInit
<1>2. /\ db = d /\ disk = fs /\ op = "none" /\ ipc = "main" /\ ret = 1 /\ left = <<>>
      /\ found = {} /\ frames = <<>> /\ target = Root /\ out = {} /\ changes = 0 /\ was = Now(fs)
  BY <1>1 DEF InfoStart
<1>3. fs \in [Path -> Kind] /\ IsTree(fs)
  BY PkgInfoAssumption
<1>4. Tree
  BY <1>2, <1>3 DEF Tree
<1>5. Past
  <2>1. was \subseteq Path \X Kind /\ Now(disk) \subseteq was
    BY <1>2, <1>3 DEF Now
  <2>2. ASSUME NEW p \in Path, WasThere(p), NEW q \in Above(p)
        PROVE  <<q, "dir">> \in was
    <3>1. fs[p] # "absent"
      BY <1>2, <2>2 DEF WasThere, Now
    <3>2. fs[q] = "dir" /\ q \in Path
      BY <1>3, <2>2, <3>1, AboveStep DEF IsTree
    <3> QED
      BY <1>2, <3>2 DEF Now
  <2> QED
    BY <2>1, <2>2 DEF Past
<1>6. Control /\ Lists
  BY <1>2, PkgInfoAssumption DEF Control, Lists
<1>7. Open /\ Walk /\ LookedAt /\ OrphansAsSeen
  BY <1>2 DEF Open, Framed, Chain, FramesOK, FoundOK, DirsFound, TargetOK, Walk, LookedAt,
              OrphansAsSeen
<1> QED
  BY <1>4, <1>5, <1>6, <1>7 DEF IInv, Base

\* It holds of every run of pkginfo, whatever others do to the file system.
THEOREM IInvAlways == InfoSpec => []IInv
<1>1. InfoInit => IInv
  BY IInvInit
<1>2. IInv /\ [InfoNext]_infoVars => IInv'
  <2> SUFFICES ASSUME IInv, [InfoNext]_infoVars
               PROVE  IInv'
    OBVIOUS
  <2>1. Base'
    BY ControlKept, ListsKept, WorldKept DEF IInv, Base, Open
  <2> QED
    BY <2>1, LookedAtKept, OpenKept, WalkKept, OrphansKept DEF IInv, Base
<1> QED
  BY <1>1, <1>2, PTL DEF InfoSpec

\* What every variable holds; the open directories lead down from the root,
\* and what readdir must still return of each is there (list_fs_files).
THEOREM InfoTypes == InfoSpec => []InfoTypeOK
<1>1. IInv => InfoTypeOK
  <2> SUFFICES ASSUME IInv PROVE InfoTypeOK
    OBVIOUS
  <2>1. ASSUME NEW k \in DOMAIN frames
        PROVE  /\ frames[k].must \subseteq Children(disk, frames[k].dir)
               /\ frames[k].may \subseteq Path \X {"file", "dir"}
               /\ IF k = 1 THEN frames[k].dir = Root ELSE Parent[frames[k].dir] = frames[k - 1].dir
    <3>1. frames[k] \in FrameType
      BY DEF IInv, Open, Framed
    <3> QED
      BY <3>1 DEF IInv, Open, Chain, FramesOK, FrameOK, FrameType
  <2> QED
    BY <2>1 DEF IInv, Base, Control, Lists, Tree, Past, InfoTypeOK
<1> QED
  BY <1>1, IInvAlways, PTL

\* pkginfo -m, whatever changes while it looks: each path of the database is
\* printed as missing if it was not there, or could not be seen, at some time,
\* and only then; it gives up only over a file where a directory was listed
\* (missing).
THEOREM MissingReported == InfoSpec => []MissingAsSeen
<1>1. IInv => MissingAsSeen
  BY LookedAtMeans DEF IInv, Base
<1> QED
  BY <1>1, IInvAlways, PTL

\* pkginfo -O, whatever changes while it walks: what it prints was there, is in
\* no package and not excepted; what was there all the time, is in no package
\* and can be reached, it prints, but for what sorts behind the last path of
\* the database (list_fs_files, find_orphans).
THEOREM OrphansReported == InfoSpec => []OrphansAsSeen
<1>1. IInv => OrphansAsSeen
  BY DEF IInv
<1> QED
  BY <1>1, IInvAlways, PTL
=============================================================================
