--------------------------- MODULE RejMergeProofs ---------------------------
(***************************************************************************)
(* rejmerge loses no rejected version it read that the user did not give    *)
(* up, for any files and versions and any number of changes by others.      *)
(***************************************************************************)
EXTENDS RejMerge, TLAPS

\* What RejTypeOK says, by parts; and that a merge is worked on in a TMPFILE.
Pcs == {"start", "loop", "exists", "permissions", "types", "cmp", "remove", "differ",
        "diff", "show", "file", "merge", "merged", "done", "aborted"}
FilesOK == inst \in [File -> Things] /\ rej \in [File -> Things]
LoopOK ==
    /\ rpc \in Pcs /\ todo \subseteq File /\ cur \in File \cup {NoFile}
    /\ updates \in 0 .. MaxUpdates
    /\ rpc \notin {"start", "loop", "done", "aborted"} => cur \in File
TmpOK ==
    /\ tmpfile \in Text \cup {NoTmp}
    /\ rpc \in {"done", "aborted"} => tmpfile = NoTmp
    /\ rpc = "merge" => tmpfile \in Text
ReadOK == seen \in Text /\ fresh \in Text
Typed == FilesOK /\ LoopOK /\ TmpOK /\ ReadOK

LEMMA TypeParts == Typed => RejTypeOK
BY DEF Typed, FilesOK, LoopOK, TmpOK, ReadOK, RejTypeOK, Pcs

\* The steps that change a file: at cur.
FileStep ==
    \/ RemoveChecked \/ PermissionsMenu \/ KeepFile \/ Upgrade \/ InstallMerge \/ RemoveMerged
\* Those that read the rejected file.
ReadStep == NoInstalledVersion \/ Compare \/ DiffFiles \/ ShowFiles \/ Merge
\* The others of rejmerge.
IdleStep ==
    \/ Refuses \/ Find \/ NextFile \/ CheckPermissions \/ CheckTypes \/ ShowAgain \/ SkipFile
    \/ Edit \/ SkipMerge \/ Finish \/ Interrupted

LEMMA StepsSplit ==
    ASSUME [RejNext]_rejVars
    PROVE  FileStep \/ ReadStep \/ IdleStep \/ OthersAct \/ UNCHANGED rejVars
BY DEF RejNext, FileStep, ReadStep, IdleStep

-----------------------------------------------------------------------------
(* The types.                                                              *)

LEMMA ThingsHave ==
    ASSUME NEW x \in Things
    PROVE  /\ x.text \in Text /\ x.mode \in Mode \cup {NoMode}
           /\ x.kind \in {"absent", "file", "link", "dir"}
           /\ x = Thing(x.kind, x.text, x.mode)
           /\ Exists(x) <=> x.mode \in Mode
           /\ x.kind = "dir" => x.mode \in Mode
BY RejMergeAssumption DEF Things, Thing, Nothing, Text, Exists

LEMMA ThingsAre ==
    /\ Nothing \in Things
    /\ \A t \in Text, m \in Mode, k \in {"file", "link", "dir"} : Thing(k, t, m) \in Things
BY DEF Things

LEMMA ThingFields ==
    ASSUME NEW k, NEW t, NEW m
    PROVE  Thing(k, t, m).kind = k /\ Thing(k, t, m).text = t /\ Thing(k, t, m).mode = m
BY DEF Thing

LEMMA ThingChanged ==
    ASSUME NEW x \in Things, NEW t, NEW m
    PROVE  /\ [x EXCEPT !.text = t] = Thing(x.kind, t, x.mode)
           /\ [x EXCEPT !.mode = m] = Thing(x.kind, x.text, m)
<1>1. x = Thing(x.kind, x.text, x.mode)
  BY ThingsHave
<1>2. PICK k, u, o : x = [kind |-> k, text |-> u, mode |-> o]
  BY <1>1 DEF Thing
<1> QED
  BY <1>2 DEF Thing

LEMMA MovedIsThing ==
    ASSUME NEW x \in Things, NEW y \in Things
    PROVE  /\ Moved(x, y) \in Things
           /\ Moved(x, y).text = IF y.kind = "dir" THEN y.text \cup x.text ELSE x.text
<1>1. CASE y.kind = "dir"
  <2>1. Moved(x, y) = Thing(y.kind, y.text \cup x.text, y.mode)
    BY <1>1, ThingChanged DEF Moved
  <2>2. y.text \cup x.text \in Text /\ y.mode \in Mode
    BY <1>1, ThingsHave DEF Text
  <2>3. Moved(x, y) \in Things
    BY <1>1, <2>1, <2>2, ThingsAre
  <2>4. Moved(x, y).text = y.text \cup x.text
    BY <2>1, ThingFields
  <2> QED
    BY <1>1, <2>3, <2>4
<1>2. CASE y.kind # "dir"
  BY <1>2 DEF Moved
<1> QED
  BY <1>1, <1>2

LEMMA LikeIsThing ==
    ASSUME NEW x \in Things, NEW y \in Things
    PROVE  Like(x, y) \in Things /\ Like(x, y).text = x.text
<1>1. CASE Exists(x) /\ Exists(y)
  <2>1. Like(x, y) = Thing(x.kind, x.text, y.mode)
    BY <1>1, ThingChanged DEF Like
  <2>2. x.text \in Text /\ y.mode \in Mode
    BY <1>1, ThingsHave
  <2>3. x.kind \in {"file", "link", "dir"}
    BY <1>1 DEF Exists, Things, Thing, Nothing
  <2>4. Like(x, y) \in Things
    BY <2>1, <2>2, <2>3, ThingsAre
  <2>5. Like(x, y).text = x.text
    BY <2>1, ThingFields
  <2> QED
    BY <2>4, <2>5
<1>2. CASE ~(Exists(x) /\ Exists(y))
  BY <1>2 DEF Like
<1> QED
  BY <1>1, <1>2

-----------------------------------------------------------------------------
(* What the steps do to the files: one file at a time, of the two versions *)
(* of the path in work.                                                    *)

LEMMA Removed ==
    ASSUME FilesOK, cur \in File
    PROVE  /\ RemoveRejected \in [File -> Things]
           /\ \A f \in File : f # cur => RemoveRejected[f] = rej[f]
BY ThingsAre DEF FilesOK, RemoveRejected

LEMMA FileStepWhere ==
    ASSUME Typed, FileStep
    PROVE  /\ cur \in File /\ rpc' \in {"loop", "types", "merged"}
           /\ UNCHANGED <<todo, cur, seen, fresh, updates>>
BY DEF Typed, LoopOK, FileStep, RemoveChecked, PermissionsMenu, KeepFile, Upgrade,
       InstallMerge, RemoveMerged, Turns, AtFile, Menu

LEMMA ReadStepWhere ==
    ASSUME Typed, ReadStep
    PROVE  /\ cur \in File /\ rpc' \in {"remove", "differ", "diff", "file", "merge"}
           /\ Looks /\ UNCHANGED <<inst, rej, updates>>
BY DEF Typed, LoopOK, ReadStep, NoInstalledVersion, FindsBare, Compare, DiffFiles, ShowFiles,
       Merge, Turns, Stays, filesVars

\* InstallMerge: what mv puts in the place of the installed file.
LEMMA MergeInstalled ==
    ASSUME Typed, InstallMerge, ~(full /\ Stays /\ GivesUp(seen))
    PROVE  /\ cur \in File /\ tmpfile \in Text
           /\ \E m \in Mode :
                NowAre([inst EXCEPT ![cur] = Moved(Thing("file", tmpfile, m), @)], rej)
<1>1. cur \in File /\ tmpfile \in Text /\ inst[cur] \in Things
  BY DEF InstallMerge, Turns, Typed, LoopOK, TmpOK, FilesOK
<1>2. PICK m \in IF Exists(inst[cur]) THEN {inst[cur].mode} ELSE Mode :
        NowAre([inst EXCEPT ![cur] = Moved(Thing("file", tmpfile, m), @)], rej)
  BY DEF InstallMerge
<1>3. m \in Mode
  BY <1>1, <1>2, ThingsHave
<1> QED
  BY <1>1, <1>2, <1>3

LEMMA FileStepFiles ==
    ASSUME Typed, FileStep
    PROVE  FilesOK'
<1>1. cur \in File /\ inst[cur] \in Things /\ rej[cur] \in Things
  BY FileStepWhere DEF Typed, FilesOK
<1>2. CASE Stays
  BY <1>2 DEF Stays, filesVars, Typed, FilesOK
<1>3. CASE inst' = inst /\ rej' = RemoveRejected
  BY <1>1, <1>3, Removed DEF Typed, FilesOK
<1>4. CASE PermissionsMenu
  <2>1. CASE NowAre(inst, [rej EXCEPT ![cur] = Like(@, inst[cur])])
    BY <1>1, <2>1, LikeIsThing DEF NowAre, Becomes, Typed, FilesOK
  <2>2. CASE NowAre([inst EXCEPT ![cur] = Like(@, rej[cur])], rej)
    BY <1>1, <2>2, LikeIsThing DEF NowAre, Becomes, Typed, FilesOK
  <2> QED
    BY <1>2, <1>4, <2>1, <2>2 DEF PermissionsMenu
<1>5. CASE NowAre([inst EXCEPT ![cur] = Moved(rej[cur], @)], RemoveRejected)
  BY <1>1, <1>5, MovedIsThing, Removed DEF NowAre, Becomes, Typed, FilesOK
<1>6. CASE InstallMerge /\ ~(full /\ Stays /\ GivesUp(seen))
  <2>1. PICK m \in Mode :
          NowAre([inst EXCEPT ![cur] = Moved(Thing("file", tmpfile, m), @)], rej)
    BY <1>6, MergeInstalled
  <2>2. Thing("file", tmpfile, m) \in Things
    BY <1>6, MergeInstalled, ThingsAre
  <2> QED
    BY <1>1, <2>1, <2>2, MovedIsThing DEF NowAre, Becomes, Typed, FilesOK
<1> QED
  BY <1>2, <1>3, <1>4, <1>5, <1>6
     DEF FileStep, RemoveChecked, KeepFile, Upgrade, RemoveMerged, Removes, Becomes

LEMMA FileStepTyped ==
    ASSUME Typed, FileStep
    PROVE  Typed'
<1>1. LoopOK' /\ ReadOK'
  BY FileStepWhere DEF Typed, LoopOK, ReadOK, Pcs
<1>2. TmpOK'
  <2>1. tmpfile' \in Text \cup {NoTmp}
    BY DEF Typed, TmpOK, Text, FileStep, RemoveChecked, PermissionsMenu, KeepFile, Upgrade,
           InstallMerge, RemoveMerged, Menu
  <2> QED
    BY <2>1, FileStepWhere DEF TmpOK
<1> QED
  BY <1>1, <1>2, FileStepFiles DEF Typed

LEMMA TextsHave ==
    ASSUME Typed, cur \in File
    PROVE  inst[cur].text \in Text /\ rej[cur].text \in Text /\ Output \in Text
<1>1. inst[cur].text \in Text /\ rej[cur].text \in Text
  BY ThingsHave DEF Typed, FilesOK
<1> QED
  BY <1>1 DEF Output, Text

LEMMA ReadStepTyped ==
    ASSUME Typed, ReadStep
    PROVE  Typed'
<1>1. cur \in File /\ rej[cur].text \in Text /\ Output \in Text
  BY ReadStepWhere, TextsHave
<1>2. FilesOK' /\ LoopOK'
  BY ReadStepWhere DEF Looks, Typed, FilesOK, LoopOK, Pcs
<1>3. ReadOK'
  BY <1>1, ReadStepWhere DEF Looks, ReadOK, Text
<1>4. TmpOK'
  <2>1. tmpfile' \in Text \cup {NoTmp} /\ (rpc' = "merge" => tmpfile' \in Text)
    BY <1>1 DEF ReadStep, NoInstalledVersion, Compare, DiffFiles, ShowFiles, Merge, Turns,
                Typed, TmpOK
  <2> QED
    BY <2>1, ReadStepWhere DEF TmpOK
<1> QED
  BY <1>2, <1>3, <1>4 DEF Typed

LEMMA IdleStepTyped ==
    ASSUME Typed, IdleStep
    PROVE  Typed'
<1>1. FilesOK' /\ updates' = updates
  BY DEF IdleStep, Refuses, Find, NextFile, CheckPermissions, CheckTypes, ShowAgain, SkipFile,
         Edit, SkipMerge, Finish, Interrupted, Stays, filesVars, Turns, Menu, Typed, FilesOK
<1>2. LoopOK'
  <2>1. CASE Refuses \/ Find \/ NextFile \/ SkipMerge \/ Finish \/ Interrupted
    BY <1>1, <2>1 DEF Refuses, Find, NextFile, SkipMerge, Finish, Interrupted, Turns, AtFile,
                      Typed, LoopOK, Pcs
  <2>2. CASE CheckPermissions \/ CheckTypes \/ ShowAgain \/ SkipFile \/ Edit
    BY <1>1, <2>2 DEF CheckPermissions, CheckTypes, ShowAgain, SkipFile, Edit, Menu, Turns,
                      AtFile, Typed, LoopOK, Pcs
  <2> QED
    BY <2>1, <2>2 DEF IdleStep
<1>3. ReadOK'
  BY DEF IdleStep, Refuses, Find, NextFile, CheckPermissions, CheckTypes, ShowAgain, SkipFile,
         Edit, SkipMerge, Finish, Interrupted, Menu, AtFile, Typed, ReadOK, Text
<1>4. TmpOK'
  <2>1. CASE Refuses \/ Finish \/ Interrupted
    BY <2>1 DEF Refuses, Finish, Interrupted, Turns, TmpOK
  <2>2. CASE Find \/ NextFile \/ CheckPermissions \/ CheckTypes \/ ShowAgain
    BY <2>2 DEF Find, NextFile, CheckPermissions, CheckTypes, ShowAgain, Turns, Typed, TmpOK
  <2>3. CASE Edit
    <3>1. cur \in File /\ tmpfile \in Text
      BY <2>3 DEF Edit, Turns, Typed, LoopOK, TmpOK
    <3>2. tmpfile' \in Text /\ rpc' = "merge"
      BY <2>3, <3>1, TextsHave DEF Edit, Turns, Text
    <3> QED
      BY <3>2 DEF TmpOK
  <2>4. CASE SkipFile \/ SkipMerge
    <3>1. rpc' = "loop" /\ (tmpfile' = tmpfile \/ tmpfile' = {})
      BY <2>4 DEF SkipFile, SkipMerge, Menu, Turns
    <3>2. {} \in Text
      BY DEF Text
    <3> QED
      BY <3>1, <3>2 DEF Typed, TmpOK
  <2> QED
    BY <2>1, <2>2, <2>3, <2>4 DEF IdleStep
<1> QED
  BY <1>1, <1>2, <1>3, <1>4 DEF Typed

LEMMA OthersTyped ==
    ASSUME Typed, OthersAct
    PROVE  Typed'
<1>1. Extracted \cup {Nothing} \subseteq Things
  BY ThingsAre DEF Extracted
<1>2. FilesOK'
  BY <1>1 DEF OthersAct, Becomes, Typed, FilesOK
<1>3. updates' \in 0 .. MaxUpdates
  BY RejMergeAssumption DEF OthersAct, Typed, LoopOK
<1>4. LoopOK' /\ TmpOK'
  BY <1>3 DEF OthersAct, Typed, LoopOK, TmpOK
<1>5. ReadOK'
  BY <1>1, ThingsHave DEF OthersAct, Typed, ReadOK
<1> QED
  BY <1>2, <1>4, <1>5 DEF Typed

LEMMA InitTyped == RejInit => Typed
<1> SUFFICES ASSUME NEW s \in Starts, NEW f \in BOOLEAN, RejStart(s, f)
             PROVE  Typed
  BY DEF RejInit
<1>1. Extracted \subseteq Things
  BY DEF Extracted
<1>2. FilesOK
  BY <1>1, RejMergeAssumption, ThingsAre DEF RejStart, FilesOK
<1>3. LoopOK /\ TmpOK /\ ReadOK
  BY RejMergeAssumption DEF RejStart, LoopOK, TmpOK, ReadOK, Pcs, Text
<1> QED
  BY <1>2, <1>3 DEF Typed

LEMMA StepTyped ==
    ASSUME Typed, [RejNext]_rejVars
    PROVE  Typed'
<1>1. CASE UNCHANGED rejVars
  BY <1>1 DEF rejVars, filesVars, history, Typed, FilesOK, LoopOK, TmpOK, ReadOK
<1> QED
  BY <1>1, StepsSplit, FileStepTyped, ReadStepTyped, IdleStepTyped, OthersTyped

LEMMA AlwaysTyped == RejSpec => []Typed
<1> QED
  BY InitTyped, StepTyped, PTL DEF RejSpec

\* The two files of a path are files, links or directories whatever is answered
\* and whoever else changes them; a menu has its file; TMPFILE is gone at exit.
THEOREM RejMergeTypes == RejSpec => []RejTypeOK
<1> QED
  BY AlwaysTyped, TypeParts, PTL

-----------------------------------------------------------------------------
(* Rejected versions.                                                      *)

\* The history keeps up with the files.
Noted == Versions(rej) \subseteq offered /\ Versions(inst) \subseteq held

\* What became of a version that is rejected no more.
Settled(f, v) == <<f, v>> \in held \cup replaced \cup answered \cup bare \cup missed

\* An answer is about what was read: the rest of the file is known to be fresh.
ReadOrFresh == rpc \in {"diff", "file", "merge"} => rej[cur].text \subseteq seen \cup fresh

\* What an rm is about to take is settled by the test or the answer in front of it.
RmSettles ==
    rpc \in {"remove", "merged"} => \A v \in rej[cur].text : v \in fresh \/ Settled(cur, v)

\* What a step takes out of a rejected file is settled.
RejectedSettles == \A f \in File : \A v \in rej[f].text : v \in rej'[f].text \/ Settled(f, v)'

\* Histories grow, by what the files have come to be.
HistoryGrows ==
    /\ offered' \subseteq offered \cup Versions(rej)'
    /\ held \subseteq held' /\ bare \subseteq bare' /\ missed \subseteq missed'
    /\ answered \subseteq answered' /\ replaced \subseteq replaced'

LEMMA HistoryKept ==
    ASSUME Noted, [RejNext]_rejVars
    PROVE  Noted' /\ HistoryGrows
<1>1. ASSUME NEW i, NEW r, Becomes(i, r)
      PROVE  Noted' /\ held \subseteq held' /\ offered' \subseteq offered \cup Versions(rej)'
  BY <1>1 DEF Becomes, Noted, Versions
<1>2. ASSUME UNCHANGED <<filesVars, offered, held>>
      PROVE  Noted' /\ held \subseteq held' /\ offered' \subseteq offered \cup Versions(rej)'
  BY <1>2 DEF filesVars, Noted, Versions
<1>3. CASE UNCHANGED rejVars
  BY <1>2, <1>3 DEF rejVars, history, filesVars, HistoryGrows
<1>4. CASE IdleStep
  <2>1. Stays /\ NotSaid
    BY <1>4 DEF IdleStep, Refuses, Find, NextFile, CheckPermissions, CheckTypes, ShowAgain,
                SkipFile, Edit, SkipMerge, Finish, Interrupted
  <2> QED
    BY <1>2, <2>1 DEF Stays, NotSaid, HistoryGrows
<1>5. CASE ReadStep
  <2>1. NotSaid /\ (Stays \/ FindsBare)
    BY <1>5 DEF ReadStep, NoInstalledVersion, Compare, DiffFiles, ShowFiles, Merge
  <2> QED
    BY <1>2, <2>1 DEF Stays, FindsBare, NotSaid, HistoryGrows
<1>6. CASE FileStep
  <2>1. answered \subseteq answered'
    BY <1>6 DEF FileStep, RemoveChecked, PermissionsMenu, KeepFile, Upgrade, InstallMerge,
                RemoveMerged, NotSaid, GivesUp
  <2>2. Stays \/ Removes \/ \E i, r : NowAre(i, r)
    BY <1>6 DEF FileStep, RemoveChecked, PermissionsMenu, KeepFile, Upgrade, InstallMerge,
                RemoveMerged
  <2> QED
    BY <1>1, <1>2, <2>1, <2>2 DEF Stays, Removes, NowAre, HistoryGrows
<1>7. CASE OthersAct
  BY <1>1, <1>7 DEF OthersAct, HistoryGrows
<1> QED
  BY <1>3, <1>4, <1>5, <1>6, <1>7, StepsSplit

LEMMA SettledStays ==
    ASSUME HistoryGrows, NEW f, NEW v, Settled(f, v)
    PROVE  Settled(f, v)'
BY DEF HistoryGrows, Settled

LEMMA HeldSettles ==
    ASSUME Typed, Noted, NEW f \in File, NEW v \in inst[f].text
    PROVE  Settled(f, v)
<1>1. v \in Version
  BY ThingsHave DEF Typed, FilesOK, Text
<1>2. <<f, v>> \in Versions(inst)
  BY <1>1 DEF Versions
<1> QED
  BY <1>2 DEF Noted, Settled

-----------------------------------------------------------------------------
(* The steps, one kind after the other.                                    *)

\* An rm takes what was settled in front of it, and notes the rest as missed.
LEMMA RemovesSettles ==
    ASSUME Typed, cur \in File, cur' = cur, Removes,
           \A v \in rej[cur].text : v \in fresh \/ Settled(cur, v)'
    PROVE  RejectedSettles
<1>1. rej' = RemoveRejected /\ missed' = missed \cup VersionsAt(cur, fresh)
  BY DEF Removes, Becomes
<1>2. \A v \in rej[cur].text : Settled(cur, v)'
  BY <1>1 DEF VersionsAt, Settled
<1> QED
  BY <1>1, <1>2, Removed DEF RejectedSettles, Typed

LEMMA FileStepSettles ==
    ASSUME Typed, Noted, ReadOrFresh, RmSettles, FileStep, Typed', Noted', HistoryGrows
    PROVE  RejectedSettles /\ ReadOrFresh' /\ RmSettles'
<1>1. cur \in File /\ cur' = cur /\ fresh' = fresh /\ rpc' \in {"loop", "types", "merged"}
  BY FileStepWhere
<1>2. inst[cur] \in Things /\ rej[cur] \in Things
  BY <1>1 DEF Typed, FilesOK
<1>3. ReadOrFresh'
  BY <1>1 DEF ReadOrFresh
<1>4. ASSUME rej' = rej
      PROVE  RejectedSettles
  BY <1>4 DEF RejectedSettles
<1>5. ASSUME NEW v \in inst'[cur].text
      PROVE  Settled(cur, v)'
  <2>1. v \in Version
    BY <1>1, <1>5, ThingsHave DEF Typed, FilesOK, Text
  <2>2. <<cur, v>> \in Versions(inst)'
    BY <1>1, <1>5, <2>1 DEF Versions
  <2> QED
    BY <1>1, <2>2 DEF Noted, Settled
<1>6. CASE RemoveChecked \/ RemoveMerged
  <2>1. Removes /\ rpc \in {"remove", "merged"} /\ rpc' = "loop"
    BY <1>6 DEF RemoveChecked, RemoveMerged, Turns
  <2>2. \A v \in rej[cur].text : v \in fresh \/ Settled(cur, v)'
    BY <1>1, <2>1, SettledStays DEF RmSettles, Settled
  <2> QED
    BY <1>1, <1>3, <2>1, <2>2, RemovesSettles DEF RmSettles
<1>7. CASE PermissionsMenu
  <2>1. \A f \in File : rej'[f].text = rej[f].text
    <3>1. rej' = rej \/ rej' = [rej EXCEPT ![cur] = Like(@, inst[cur])]
      BY <1>7 DEF PermissionsMenu, NowAre, Becomes, Stays, filesVars
    <3> QED
      BY <1>2, <3>1, LikeIsThing DEF Typed, FilesOK
  <2>2. rpc' = "types"
    BY <1>7 DEF PermissionsMenu, Turns
  <2> QED
    BY <1>3, <2>1, <2>2 DEF RejectedSettles, RmSettles
<1>8. CASE KeepFile
  <2>1. Removes /\ answered' = answered \cup VersionsAt(cur, seen) /\ rpc \in {"diff", "file"}
        /\ rpc' = "loop"
    BY <1>8 DEF KeepFile, Menu, Turns, GivesUp
  <2>2. \A v \in rej[cur].text : v \in fresh \/ Settled(cur, v)'
    BY <1>1, <2>1 DEF ReadOrFresh, VersionsAt, Settled
  <2> QED
    BY <1>1, <1>3, <2>1, <2>2, RemovesSettles DEF RmSettles
<1>9. CASE Upgrade
  <2>1. rpc' = "loop"
    BY <1>9 DEF Upgrade, Menu, Turns
  <2>2. CASE Stays
    BY <1>3, <1>4, <2>1, <2>2 DEF Stays, filesVars, RmSettles
  <2>3. CASE NowAre([inst EXCEPT ![cur] = Moved(rej[cur], @)], RemoveRejected)
    <3>1. inst'[cur] = Moved(rej[cur], inst[cur]) /\ rej' = RemoveRejected
      BY <1>1, <2>3 DEF NowAre, Becomes, Typed, FilesOK
    <3>2. rej[cur].text \subseteq inst'[cur].text
      <4>1. rej[cur].text \subseteq Moved(rej[cur], inst[cur]).text
        BY <1>2, MovedIsThing
      <4> QED
        BY <3>1, <4>1
    <3>3. \A v \in rej[cur].text : Settled(cur, v)'
      BY <1>5, <3>2
    <3>4. RejectedSettles
      BY <1>1, <3>1, <3>3, Removed DEF RejectedSettles, Typed
    <3> QED
      BY <1>3, <2>1, <3>4 DEF RmSettles
  <2> QED
    BY <1>9, <2>2, <2>3 DEF Upgrade
<1>10. CASE InstallMerge
  <2>1. rej' = rej /\ rpc = "merge"
    BY <1>10 DEF InstallMerge, NowAre, Becomes, Stays, filesVars, Turns
  <2>2. ASSUME NEW v \in rej[cur].text, v \notin fresh
        PROVE  Settled(cur, v)'
    <3>1. v \in seen
      BY <2>1, <2>2 DEF ReadOrFresh
    <3>2. CASE full /\ Stays /\ GivesUp(seen)
      BY <1>1, <3>1, <3>2 DEF GivesUp, VersionsAt, Settled
    <3>3. CASE ~(full /\ Stays /\ GivesUp(seen))
      <4>1. PICK m \in Mode :
              NowAre([inst EXCEPT ![cur] = Moved(Thing("file", tmpfile, m), @)], rej)
        BY <1>10, <3>3, MergeInstalled
      <4>2. GivesUp(seen \ tmpfile)
        BY <1>10, <3>3 DEF InstallMerge
      <4>3. Thing("file", tmpfile, m) \in Things /\ Thing("file", tmpfile, m).text = tmpfile
        BY <1>10, <3>3, MergeInstalled, ThingsAre, ThingFields
      <4>4. inst'[cur] = Moved(Thing("file", tmpfile, m), inst[cur])
        BY <1>1, <4>1 DEF NowAre, Becomes, Typed, FilesOK
      <4>5. tmpfile \subseteq inst'[cur].text
        <5> DEFINE x == Thing("file", tmpfile, m)
        <5> HIDE DEF x
        <5>1. Moved(x, inst[cur]).text
                = IF inst[cur].kind = "dir" THEN inst[cur].text \cup x.text ELSE x.text
          BY <1>2, <4>3, MovedIsThing DEF x
        <5>2. x.text = tmpfile
          BY <4>3 DEF x
        <5> QED
          BY <4>4, <5>1, <5>2 DEF x
      <4>6. CASE v \in tmpfile
        BY <1>5, <4>5, <4>6
      <4>7. CASE v \notin tmpfile
        BY <1>1, <3>1, <4>2, <4>7 DEF GivesUp, VersionsAt, Settled
      <4> QED
        BY <4>6, <4>7
    <3> QED
      BY <3>2, <3>3
  <2> QED
    BY <1>1, <1>3, <1>4, <2>1, <2>2 DEF RmSettles
<1> QED
  BY <1>6, <1>7, <1>8, <1>9, <1>10 DEF FileStep

LEMMA ReadStepSettles ==
    ASSUME Typed, Noted, ReadStep, HistoryGrows
    PROVE  RejectedSettles /\ ReadOrFresh' /\ RmSettles'
<1>1. cur \in File /\ cur' = cur /\ rej' = rej /\ seen' = rej[cur].text
  BY ReadStepWhere DEF Looks
<1>2. RejectedSettles /\ ReadOrFresh'
  BY <1>1 DEF RejectedSettles, ReadOrFresh
<1>3. RmSettles'
  <2>1. CASE NoInstalledVersion
    <3>1. bare' = bare \cup VersionsAt(cur, rej[cur].text)
      BY <2>1 DEF NoInstalledVersion, FindsBare
    <3> QED
      BY <1>1, <3>1 DEF RmSettles, VersionsAt, Settled
  <2>2. CASE Compare
    <3>1. rpc' = "remove" => inst[cur].text = rej[cur].text
      BY <2>2 DEF Compare, Turns
    <3>2. \A v \in inst[cur].text : Settled(cur, v)'
      BY <1>1, HeldSettles, SettledStays
    <3>3. rpc' # "merged"
      BY <2>2 DEF Compare, Turns
    <3> QED
      BY <1>1, <3>1, <3>2, <3>3 DEF RmSettles, Settled
  <2>3. CASE DiffFiles \/ ShowFiles \/ Merge
    <3>1. rpc' \notin {"remove", "merged"}
      BY <2>3 DEF DiffFiles, ShowFiles, Merge, Turns
    <3> QED
      BY <3>1 DEF RmSettles
  <2> QED
    BY <2>1, <2>2, <2>3 DEF ReadStep
<1> QED
  BY <1>2, <1>3

LEMMA IdleStepSettles ==
    ASSUME IdleStep \/ UNCHANGED rejVars, ReadOrFresh, RmSettles
    PROVE  RejectedSettles /\ ReadOrFresh' /\ RmSettles'
<1>1. CASE UNCHANGED rejVars
  BY <1>1 DEF rejVars, filesVars, history, RejectedSettles, ReadOrFresh, RmSettles, Settled
<1>2. CASE IdleStep
  <2>1. rej' = rej /\ rpc' \notin {"diff", "file", "remove", "merged"}
    BY <1>2 DEF IdleStep, Refuses, Find, NextFile, CheckPermissions, CheckTypes, ShowAgain,
                SkipFile, Edit, SkipMerge, Finish, Interrupted, Stays, filesVars, Turns, Menu
  <2>2. rpc' = "merge" => rpc = "merge" /\ UNCHANGED <<cur, seen, fresh>>
    BY <1>2 DEF IdleStep, Refuses, Find, NextFile, CheckPermissions, CheckTypes, ShowAgain,
                SkipFile, Edit, SkipMerge, Finish, Interrupted, Turns, Menu, AtFile
  <2> QED
    BY <2>1, <2>2 DEF RejectedSettles, ReadOrFresh, RmSettles
<1> QED
  BY <1>1, <1>2

LEMMA OthersSettle ==
    ASSUME Typed, OthersAct, ReadOrFresh, RmSettles, HistoryGrows
    PROVE  RejectedSettles /\ ReadOrFresh' /\ RmSettles'
<1>1. UNCHANGED <<cur, rpc, seen>>
  BY DEF OthersAct
<1>2. CASE rej' = rej /\ fresh' = fresh
  <2>1. RejectedSettles /\ ReadOrFresh'
    BY <1>1, <1>2 DEF RejectedSettles, ReadOrFresh
  <2>2. RmSettles'
    <3>1. \A v \in rej[cur].text : Settled(cur, v) => Settled(cur, v)'
      BY <1>1, SettledStays DEF Settled
    <3> QED
      BY <1>1, <1>2, <3>1 DEF RmSettles, Settled
  <2> QED
    BY <2>1, <2>2
<1>3. CASE \E f \in File, x \in Extracted :
              /\ Becomes(inst, [rej EXCEPT ![f] = x])
              /\ replaced' = replaced \cup VersionsAt(f, rej[f].text)
              /\ fresh' = IF f = cur THEN x.text ELSE fresh
  <2>1. PICK f \in File, x \in Extracted :
              /\ rej' = [rej EXCEPT ![f] = x]
              /\ replaced' = replaced \cup VersionsAt(f, rej[f].text)
              /\ fresh' = IF f = cur THEN x.text ELSE fresh
    BY <1>3 DEF Becomes
  <2>2. rej'[f] = x /\ \A g \in File \ {f} : rej'[g] = rej[g]
    BY <2>1 DEF Typed, FilesOK
  <2>3. \A v \in rej[f].text : Settled(f, v)'
    BY <2>1 DEF Settled, VersionsAt
  <2>4. RejectedSettles
    BY <2>2, <2>3 DEF RejectedSettles
  <2>5. CASE f = cur
    BY <1>1, <2>1, <2>2, <2>4, <2>5 DEF ReadOrFresh, RmSettles
  <2>6. CASE f # cur
    <3>1. rpc \in {"diff", "file", "merge", "remove", "merged"} => cur \in File
      BY DEF Typed, LoopOK
    <3>2. cur \in File => rej'[cur] = rej[cur]
      BY <2>2, <2>6
    <3>3. fresh' = fresh /\ \A v \in rej[cur].text : Settled(cur, v) => Settled(cur, v)'
      BY <1>1, <2>1, <2>6, SettledStays DEF Settled
    <3>4. ReadOrFresh'
      BY <1>1, <3>1, <3>2, <3>3 DEF ReadOrFresh
    <3>5. RmSettles'
      BY <1>1, <3>1, <3>2, <3>3 DEF RmSettles, Settled
    <3> QED
      BY <2>4, <3>4, <3>5
  <2> QED
    BY <2>5, <2>6
<1> QED
  BY <1>2, <1>3 DEF OthersAct, Becomes

LEMMA SettledFollows ==
    ASSUME Typed, Noted, ReadOrFresh, RmSettles, NothingLostUnasked, [RejNext]_rejVars
    PROVE  Noted' /\ ReadOrFresh' /\ RmSettles' /\ NothingLostUnasked'
<1>1. Typed' /\ Noted' /\ HistoryGrows
  BY StepTyped, HistoryKept
<1>2. RejectedSettles /\ ReadOrFresh' /\ RmSettles'
  BY <1>1, StepsSplit, FileStepSettles, ReadStepSettles, IdleStepSettles, OthersSettle
<1>3. ASSUME NEW f \in File, NEW v \in Version, <<f, v>> \in offered'
      PROVE  v \in rej'[f].text \/ Settled(f, v)'
  <2>1. CASE <<f, v>> \in Versions(rej)'
    BY <2>1 DEF Versions
  <2>2. CASE <<f, v>> \in offered
    <3>1. v \in rej[f].text \/ Settled(f, v)
      BY <2>2 DEF NothingLostUnasked, Settled
    <3>2. CASE v \in rej[f].text
      BY <1>2, <3>2 DEF RejectedSettles
    <3>3. CASE Settled(f, v)
      BY <1>1, <3>3, SettledStays
    <3> QED
      BY <3>1, <3>2, <3>3
  <2> QED
    BY <1>1, <1>3, <2>1, <2>2 DEF HistoryGrows
<1>4. NothingLostUnasked'
  BY <1>3 DEF NothingLostUnasked, Settled
<1> QED
  BY <1>1, <1>2, <1>4

\* A rejected version that rejmerge read leaves the rejected directory only when
\* it is or was installed, given up by an answer about it, written over by pkgadd,
\* or at a path with nothing installed: for any number of files, answers, signals
\* and changes by others, between any test or question and its rm too. What an rm
\* takes besides was rejected since the last read: those versions, and the full
\* disk's, are the losses that the property names.
THEOREM NoRejectedVersionLost == RejSpec => []NothingLostUnasked
<1>1. RejInit => Noted /\ ReadOrFresh /\ RmSettles /\ NothingLostUnasked
  <2> SUFFICES ASSUME NEW s \in Starts, NEW f \in BOOLEAN, RejStart(s, f)
               PROVE  Noted /\ ReadOrFresh /\ RmSettles /\ NothingLostUnasked
    BY DEF RejInit
  <2> QED
    BY DEF RejStart, Noted, ReadOrFresh, RmSettles, NothingLostUnasked, Versions
<1>2. Typed /\ Noted /\ ReadOrFresh /\ RmSettles /\ NothingLostUnasked /\ [RejNext]_rejVars
        => Noted' /\ ReadOrFresh' /\ RmSettles' /\ NothingLostUnasked'
  BY SettledFollows
<1> QED
  BY <1>1, <1>2, AlwaysTyped, PTL DEF RejSpec

=============================================================================
