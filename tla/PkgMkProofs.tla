---------------------------- MODULE PkgMkProofs ----------------------------
(***************************************************************************)
(* What pkgmk promises in a port directory, for any sources, servers and   *)
(* command lines: the types, then what each property needs beside them.    *)
(***************************************************************************)
EXTENDS PkgMk, TLAPS

Pcs == Stages \cup {"idle", "main", "download", "fetch", "prepare", "install"}

\* What TypeOK says, by parts.
FileTypes ==
    /\ content \in [File -> Content \cup {Absent}]
    /\ target \in {Absent} \cup Package
    /\ stale \subseteq File /\ hidden \subseteq File
    /\ sum \in {Absent} \cup SumFile
    /\ partial \in [Source -> Content \cup {Absent, Empty}]
RunTypes ==
    /\ pc \in Pcs /\ opts \in OptionSets \cup {{}}
    /\ got \in [File -> Content \cup {Absent}] /\ left \subseteq Source
    /\ fetch \in {Absent} \cup Download
Switches == footprint \in BOOLEAN /\ work \in BOOLEAN /\ resume \in BOOLEAN

\* Where a download is under way, and where tar has started to write.
Fetching == pc = "fetch" => fetch \in Download
Written == pc \in {"tar", "footprint", "succeeded"} => target # Absent

Typed == FileTypes /\ RunTypes /\ Switches /\ Fetching /\ Written

LEMMA TypeParts == TypeOK <=> FileTypes /\ RunTypes /\ Switches
BY DEF TypeOK, FileTypes, RunTypes, Switches, Pcs

-----------------------------------------------------------------------------
(* The types.                                                              *)

LEMMA EndsTyped ==
    ASSUME Ends
    PROVE  RunTypes' /\ resume' \in BOOLEAN /\ Fetching' /\ Written'
BY DEF Ends, RunTypes, Fetching, Written, Pcs, NothingGot

LEMMA GotoTyped ==
    ASSUME Typed, NEW l \in Pcs \ {"fetch"}, Goto(l)
    PROVE  RunTypes' /\ resume' \in BOOLEAN /\ Fetching'
BY DEF Typed, Goto, RunTypes, Fetching, Switches

LEMMA WorkTyped ==
    ASSUME ClearsWork
    PROVE  work' \in BOOLEAN
BY DEF ClearsWork

LEMMA UserTyped ==
    ASSUME Typed, UserEdits \/ UserRemoves
    PROVE  Typed'
<1>1. FileTypes'
  <2>1. CASE UserEdits
    <3>1. PICK f \in File, v \in Version : content' = [content EXCEPT ![f] = v] /\ Touched(f)
      BY <2>1 DEF UserEdits
    <3> QED
      BY <2>1, <3>1 DEF Typed, FileTypes, UserEdits, Touched, Content
  <2>2. CASE UserRemoves
    BY <2>2 DEF Typed, FileTypes, UserRemoves, File
  <2> QED
    BY <2>1, <2>2
<1>2. RunTypes' /\ Switches' /\ Fetching' /\ Written'
  BY DEF Typed, UserEdits, UserRemoves, RunTypes, Switches, Fetching, Written
<1> QED
  BY <1>1, <1>2 DEF Typed

LEMMA StartTyped ==
    ASSUME Typed, Start
    PROVE  Typed'
<1>1. "Pkgfile" \in File
  BY DEF File
<1>2. RunTypes'
  BY <1>1 DEF Typed, Start, RunTypes, FileTypes, NothingGot, Pcs
<1>3. FileTypes' /\ Switches' /\ Fetching' /\ Written'
  BY DEF Typed, Start, disk, FileTypes, Switches, Fetching, Written
<1> QED
  BY <1>2, <1>3 DEF Typed

\* main: what a run does before its first download, or instead of one.
MainStep ==
    Refused \/ Clean \/ UpdateFootprint \/ IsUpToDate \/ NotNeeded \/ Downloads

LEMMA MainTyped ==
    ASSUME Typed, MainStep
    PROVE  Typed'
<1>1. CASE Refused \/ IsUpToDate
  BY <1>1, EndsTyped DEF Refused, IsUpToDate, disk, Typed, FileTypes, Switches
<1>2. CASE Clean
  <2>1. FileTypes'
    BY <1>2 DEF Clean, Typed, FileTypes
  <2> QED
    BY <1>2, <2>1, EndsTyped DEF Clean, Typed, Switches
<1>3. CASE UpdateFootprint
  <2>1. FileTypes'
    BY <1>3 DEF UpdateFootprint, Typed, FileTypes, disk, Package
  <2>2. footprint' \in BOOLEAN /\ work' \in BOOLEAN
    BY <1>3 DEF UpdateFootprint, Typed, Switches, disk
  <2> QED
    BY <1>3, <2>1, <2>2, EndsTyped DEF UpdateFootprint, Typed, Switches
<1>4. CASE NotNeeded
  <2>1. RunTypes' /\ resume' \in BOOLEAN /\ Fetching' /\ Written'
    <3>1. CASE Ends
      BY <3>1, EndsTyped
    <3>2. CASE Goto("install")
      BY <3>2, GotoTyped DEF Pcs, Written, Goto
    <3> QED
      BY <1>4, <3>1, <3>2 DEF NotNeeded
  <2> QED
    BY <1>4, <2>1 DEF NotNeeded, disk, Typed, FileTypes, Switches
<1>5. CASE Downloads
  BY <1>5 DEF Downloads, disk, Typed, FileTypes, RunTypes, Switches, Fetching, Written, Pcs
<1> QED
  BY <1>1, <1>2, <1>3, <1>4, <1>5 DEF MainStep

\* download_source and download_file.
DownloadStep ==
    SourceThere \/ SourceMissing \/ FetchStarts \/ Downloaded \/ FetchSucceeds \/ FetchFails

LEMMA WgetTyped ==
    ASSUME Typed, NEW s \in Source
    PROVE  /\ Base(s) \in Content \cup {Absent, Empty}
           /\ \A v \in Version : Continued(Base(s), v) \in Content
BY DEF Typed, FileTypes, Base, Continued, Content

LEMMA LeftTyped ==
    ASSUME Typed, NEW s \in Source, FailureLeaves(s)
    PROVE  partial' \in [Source -> Content \cup {Absent, Empty}]
<1>1. PICK p \in {Base(s)} \cup {Continued(Base(s), v) : v \in Version} :
        partial' = [partial EXCEPT ![s] = p]
  BY DEF FailureLeaves
<1>2. p \in Content \cup {Absent, Empty}
  BY <1>1, WgetTyped
<1> QED
  BY <1>1, <1>2 DEF Typed, FileTypes

LEMMA FetchFailsTyped ==
    ASSUME Typed, FetchFails
    PROVE  Typed'
<1>1. fetch \in Download /\ fetch.file \in Source /\ fetch.server \in 1 .. NDepot + 1
  BY DEF FetchFails, NextDepot, Restarts, GivesUp, Typed, Fetching, Download, Source
<1>2. partial' \in [Source -> Content \cup {Absent, Empty}]
  <2>1. CASE Restarts
    BY <1>1, <2>1 DEF Restarts, Typed, FileTypes
  <2>2. CASE NextDepot \/ GivesUp
    BY <1>1, <2>2, LeftTyped DEF NextDepot, GivesUp
  <2> QED
    BY <2>1, <2>2 DEF FetchFails
<1>3. FileTypes'
  BY <1>2 DEF FetchFails, Typed, FileTypes
<1>4. RunTypes' /\ resume' \in BOOLEAN /\ Fetching' /\ Written'
  <2>1. CASE GivesUp
    BY <2>1, EndsTyped DEF GivesUp
  <2>2. CASE Restarts
    BY <2>2 DEF Restarts, Typed, RunTypes, Switches, Fetching, Written
  <2>3. CASE NextDepot
    <3>1. fetch' \in Download
      BY <1>1, <2>3, PkgMkAssumption DEF NextDepot, Download
    <3> QED
      BY <2>3, <3>1 DEF NextDepot, Typed, RunTypes, Switches, Fetching, Written
  <2> QED
    BY <2>1, <2>2, <2>3 DEF FetchFails
<1> QED
  BY <1>3, <1>4 DEF FetchFails, Typed, Switches

LEMMA FetchSucceedsTyped ==
    ASSUME Typed, FetchSucceeds
    PROVE  Typed'
<1> DEFINE s == fetch.file
<1>1. s \in Source
  BY DEF FetchSucceeds, Typed, Fetching, Download, Source
<1>2. PICK v \in Version : content' = [content EXCEPT ![s] = Continued(Base(s), v)]
  BY DEF FetchSucceeds
<1>3. content' \in [File -> Content \cup {Absent}]
  BY <1>1, <1>2, WgetTyped DEF Typed, FileTypes
<1>4. partial' \in [Source -> Content \cup {Absent, Empty}]
  BY <1>1 DEF FetchSucceeds, Typed, FileTypes
<1>5. stale' \subseteq File /\ hidden' \subseteq File
  BY <1>1 DEF FetchSucceeds, Touched, Typed, FileTypes, File
<1>6. FileTypes'
  BY <1>3, <1>4, <1>5 DEF FetchSucceeds, Typed, FileTypes
<1>7. RunTypes' /\ Switches' /\ Fetching' /\ Written'
  BY DEF FetchSucceeds, Typed, RunTypes, Switches, Fetching, Written, Pcs
<1> QED
  BY <1>6, <1>7 DEF Typed

LEMMA DownloadTyped ==
    ASSUME Typed, DownloadStep
    PROVE  Typed'
<1>1. CASE SourceThere
  BY <1>1 DEF SourceThere, disk, Typed, FileTypes, RunTypes, Switches, Fetching, Written
<1>2. CASE SourceMissing
  BY <1>2, EndsTyped DEF SourceMissing, disk, Typed, FileTypes, Switches
<1>3. CASE FetchStarts
  <2>1. PICK s \in left \cap Remote :
          fetch' = [file |-> s, server |-> 1] /\ resume' = (resume \/ partial[s] # Absent)
    BY <1>3 DEF FetchStarts
  <2>2. 1 \in 1 .. NDepot + 1
    BY PkgMkAssumption
  <2>3. fetch' \in Download
    BY <2>1, <2>2 DEF Download
  <2>4. resume' \in BOOLEAN
    BY <2>1
  <2> QED
    BY <1>3, <2>3, <2>4
       DEF FetchStarts, disk, Typed, FileTypes, RunTypes, Switches, Fetching, Written, Pcs
<1>4. CASE Downloaded
  <2>1. Sums \in SumFile
    BY DEF Sums, SumFile, Typed, FileTypes, File
  <2>2. FileTypes'
    BY <1>4, <2>1 DEF Downloaded, Typed, FileTypes
  <2>3. RunTypes' /\ resume' \in BOOLEAN /\ Fetching' /\ Written'
    <3>1. CASE Ends
      BY <3>1, EndsTyped
    <3>2. CASE Goto("prepare")
      BY <3>2, GotoTyped DEF Pcs, Written, Goto
    <3> QED
      BY <1>4, <3>1, <3>2 DEF Downloaded
  <2> QED
    BY <1>4, <2>2, <2>3 DEF Downloaded, Typed, Switches
<1> QED
  BY <1>1, <1>2, <1>3, <1>4, FetchSucceedsTyped, FetchFailsTyped DEF DownloadStep

\* build_package and what follows it.
BuildStep ==
    \/ Prepare \/ CheckMd5sum \/ Unpack \/ UnpackFails \/ Build
    \/ TarStarts \/ TarEnds \/ CheckFootprint \/ Succeeds \/ Fails \/ Install

LEMMA WritesTyped ==
    ASSUME Typed, Writes
    PROVE  FileTypes' /\ target' # Absent
<1>1. target' \in Package
  BY DEF Writes, Typed, RunTypes, Package
<1>2. target' # Absent
  BY <1>1, PkgMkAssumption
<1> QED
  BY <1>1, <1>2 DEF Writes, Typed, FileTypes

LEMMA TargetMarked ==
    ASSUME Typed, target # Absent, NEW o \in {"unfinished", "failed", "ok"}, NEW b \in BOOLEAN
    PROVE  /\ [target EXCEPT !.state = o] \in Package
           /\ [target EXCEPT !.state = o, !.declared = b] \in Package
<1>1. target \in Package
  BY DEF Typed, FileTypes
<1> QED
  BY <1>1 DEF Package

LEMMA BuildTyped ==
    ASSUME Typed, BuildStep
    PROVE  Typed'
<1>1. CASE Prepare
  BY <1>1, GotoTyped DEF Prepare, Goto, Typed, FileTypes, Switches, Written, Pcs, Stages
<1>2. CASE CheckMd5sum
  <2>1. Sums \in SumFile
    BY DEF Sums, SumFile, Typed, FileTypes, File
  <2>2. FileTypes'
    BY <1>2, <2>1 DEF CheckMd5sum, Typed, FileTypes
  <2>3. RunTypes' /\ resume' \in BOOLEAN /\ Fetching' /\ Written'
    <3>1. CASE Ends
      BY <3>1, EndsTyped
    <3>2. CASE Goto("unpack")
      BY <3>2, GotoTyped DEF Pcs, Stages, Written, Goto
    <3> QED
      BY <1>2, <3>1, <3>2 DEF CheckMd5sum
  <2>4. work' \in BOOLEAN /\ footprint' \in BOOLEAN
    BY <1>2, WorkTyped DEF CheckMd5sum, Typed, Switches
  <2> QED
    BY <2>2, <2>3, <2>4 DEF Typed, Switches
<1>3. CASE Unpack
  <2>1. "Pkgfile" \in File
    BY DEF File
  <2>2. got' \in [File -> Content \cup {Absent}]
    BY <1>3, <2>1 DEF Unpack, Typed, FileTypes, RunTypes
  <2> QED
    BY <1>3, <2>2
       DEF Unpack, disk, Typed, FileTypes, RunTypes, Switches, Fetching, Written, Pcs, Stages
<1>4. CASE UnpackFails
  BY <1>4, EndsTyped, WorkTyped DEF UnpackFails, Typed, FileTypes, Switches
<1>5. CASE Build
  BY <1>5, GotoTyped DEF Build, Goto, disk, Typed, FileTypes, Switches, Written, Pcs, Stages
<1>6. CASE TarStarts
  BY <1>6, GotoTyped, WritesTyped DEF TarStarts, Writes, Typed, Switches, Written, Pcs, Stages
<1>7. CASE TarEnds
  <2>1. RunTypes' /\ resume' \in BOOLEAN /\ Fetching'
    BY <1>7, GotoTyped DEF TarEnds, Pcs, Stages
  <2> QED
    BY <1>7, <2>1, WritesTyped DEF TarEnds, Writes, Typed, Switches, Written
<1>8. CASE CheckFootprint
  <2>1. RunTypes' /\ resume' \in BOOLEAN /\ Fetching'
    BY <1>8, GotoTyped DEF CheckFootprint, Pcs, Stages
  <2> QED
    BY <1>8, <2>1 DEF CheckFootprint, Typed, FileTypes, Switches, Written
<1>9. CASE Succeeds
  <2>1. target' \in Package
    BY <1>9, TargetMarked DEF Succeeds, Typed, Written
  <2>2. FileTypes'
    BY <1>9, <2>1 DEF Succeeds, Typed, FileTypes
  <2>3. RunTypes' /\ resume' \in BOOLEAN /\ Fetching' /\ Written'
    <3>1. CASE Ends
      BY <3>1, EndsTyped
    <3>2. CASE Goto("install")
      BY <3>2, GotoTyped DEF Pcs, Written, Goto
    <3> QED
      BY <1>9, <3>1, <3>2 DEF Succeeds
  <2> QED
    BY <1>9, <2>2, <2>3, WorkTyped DEF Succeeds, Typed, Switches
<1>10. CASE Fails
  <2>1. target' \in {Absent} \cup Package
    BY <1>10, TargetMarked DEF Fails, MarkFailed
  <2>2. stale' \subseteq File
    BY <1>10 DEF Fails, Typed, FileTypes, File
  <2>3. FileTypes'
    BY <1>10, <2>1, <2>2 DEF Fails, Typed, FileTypes
  <2> QED
    BY <1>10, <2>3, EndsTyped, WorkTyped DEF Fails, Typed, Switches
<1>11. CASE Install
  BY <1>11, EndsTyped DEF Install, disk, Typed, FileTypes, Switches
<1> QED
  BY <1>1, <1>2, <1>3, <1>4, <1>5, <1>6, <1>7, <1>8, <1>9, <1>10, <1>11 DEF BuildStep

\* A step is of the user, of main, of the downloads, of the build, or the trap.
LEMMA StepsSplit ==
    ASSUME [Next]_vars
    PROVE  \/ UserEdits \/ UserRemoves \/ Start \/ Interrupted \/ UNCHANGED vars
           \/ MainStep \/ DownloadStep \/ BuildStep
BY DEF Next, Step, MainStep, DownloadStep, BuildStep

LEMMA InterruptedTyped ==
    ASSUME Typed, Interrupted
    PROVE  Typed'
BY EndsTyped, WorkTyped DEF Interrupted, Typed, FileTypes, Switches

LEMMA InitTyped == Init => Typed
<1> SUFFICES ASSUME Init PROVE Typed
  OBVIOUS
<1>1. FileTypes
  BY DEF Init, FileTypes, Content
<1>2. RunTypes
  BY DEF Init, RunTypes, Pcs, NothingGot
<1>3. Switches /\ Fetching /\ Written
  BY DEF Init, Switches, Fetching, Written
<1> QED
  BY <1>1, <1>2, <1>3 DEF Typed

LEMMA StepTyped ==
    ASSUME Typed, [Next]_vars
    PROVE  Typed'
<1>1. CASE UNCHANGED vars
  BY <1>1 DEF vars, disk, Typed, FileTypes, RunTypes, Switches, Fetching, Written
<1> QED
  BY <1>1, StepsSplit, UserTyped, StartTyped, InterruptedTyped, MainTyped, DownloadTyped,
     BuildTyped

LEMMA AlwaysTyped == Spec => []Typed
<1> QED
  BY InitTyped, StepTyped, PTL DEF Spec

\* Every file, download, package and stage of a run is what it can be; no source
\* has its name with what an interrupted download has left.
THEOREM PkgMkTypes == Spec => []TypeOK
<1>1. Typed => TypeOK
  BY TypeParts DEF Typed
<1> QED
  BY <1>1, AlwaysTyped, PTL

-----------------------------------------------------------------------------
(* Packages that failed.                                                   *)

\* What the properties below look at, but for the user's changes.
packageVars == <<content, target, stale, hidden>>

\* The steps of a run that change a file, the package or its time.
LEMMA PackageSteps ==
    ASSUME MainStep \/ DownloadStep \/ BuildStep \/ Start \/ Interrupted
    PROVE  \/ UNCHANGED packageVars
           \/ Clean \/ UpdateFootprint \/ FetchSucceeds \/ Writes \/ Succeeds \/ Fails
BY DEF MainStep, DownloadStep, BuildStep, packageVars, disk, Start, Interrupted,
       Refused, IsUpToDate, NotNeeded, Downloads, SourceThere, SourceMissing, FetchStarts,
       Downloaded, FetchFails, Prepare, CheckMd5sum, Unpack, UnpackFails, Build,
       TarStarts, TarEnds, CheckFootprint, Install

\* A package whose last build failed is not newer than the Pkgfile before -uf.
FailedIsStale ==
    target # Absent /\ target.state = "failed" /\ ~target.declared => "Pkgfile" \in stale

LEMMA FailedStaysStale ==
    ASSUME Typed, FailedIsStale, [Next]_vars
    PROVE  FailedIsStale'
<1>1. "Pkgfile" \in File /\ "Pkgfile" \notin Source
  BY PkgMkAssumption DEF File
<1>2. CASE UserEdits \/ UserRemoves
  BY <1>1, <1>2 DEF UserEdits, UserRemoves, Touched, FailedIsStale
<1>3. CASE UNCHANGED packageVars
  BY <1>3 DEF packageVars, FailedIsStale
<1>4. CASE Clean
  BY <1>4 DEF Clean, FailedIsStale
<1>5. CASE UpdateFootprint
  BY <1>5 DEF UpdateFootprint, disk, FailedIsStale, Typed, FileTypes, Package
<1>6. CASE FetchSucceeds
  BY <1>6 DEF FetchSucceeds, Touched, FailedIsStale
<1>7. CASE Writes
  BY <1>7 DEF Writes, FailedIsStale
<1>8. CASE Succeeds
  BY <1>8 DEF Succeeds, FailedIsStale, Typed, FileTypes, Written, Package
<1>9. CASE Fails
  BY <1>9 DEF Fails, MarkFailed, FailedIsStale
<1>10. CASE UNCHANGED vars
  BY <1>10 DEF vars, disk, FailedIsStale
<1> QED
  BY <1>2, <1>3, <1>4, <1>5, <1>6, <1>7, <1>8, <1>9, <1>10, StepsSplit, PackageSteps

\* A package file over which build(), tar or the footprint check has failed, be
\* it the file of that build or of an earlier one, is not up to date before it is
\* written again or -uf declares it good, whatever happens in between: nothing
\* but these makes it newer than the Pkgfile.
THEOREM FailedPackagesRebuilt == Spec => []FailedIsRebuilt
<1>1. Init => FailedIsStale
  BY DEF Init, FailedIsStale
<1>2. Typed /\ FailedIsStale /\ [Next]_vars => FailedIsStale'
  BY FailedStaysStale
<1>3. FailedIsStale => FailedIsRebuilt
  BY DEF FailedIsStale, FailedIsRebuilt, BuildNeeded, File
<1> QED
  BY <1>1, <1>2, <1>3, AlwaysTyped, PTL DEF Spec

-----------------------------------------------------------------------------
(* Packages that are up to date.                                           *)

\* A file that is there and older than the package is what went into it.
MadeFromFiles ==
    target # Absent =>
        \A f \in File \ (stale \cup hidden) :
            content[f] # Absent => target.made[f] = content[f]

LEMMA StaysMadeFromFiles ==
    ASSUME Typed, MadeFromFiles, [Next]_vars
    PROVE  MadeFromFiles'
<1>1. CASE UserEdits
  <2>1. PICK f \in File, v \in Version : content' = [content EXCEPT ![f] = v] /\ Touched(f)
    BY <1>1 DEF UserEdits
  <2>2. \A g \in File \ {f} : content'[g] = content[g]
    BY <2>1 DEF Typed, FileTypes
  <2> QED
    BY <1>1, <2>1, <2>2 DEF UserEdits, Touched, MadeFromFiles
<1>2. CASE UserRemoves
  <2>1. PICK s \in Source : content' = [content EXCEPT ![s] = Absent] /\ stale' = stale \ {s}
    BY <1>2 DEF UserRemoves
  <2>2. s \in File /\ content'[s] = Absent /\ \A g \in File \ {s} : content'[g] = content[g]
    BY <2>1 DEF Typed, FileTypes, File
  <2> QED
    BY <1>2, <2>1, <2>2 DEF UserRemoves, MadeFromFiles
<1>3. CASE UNCHANGED packageVars
  BY <1>3 DEF packageVars, MadeFromFiles
<1>4. CASE Clean
  BY <1>4 DEF Clean, MadeFromFiles
<1>5. CASE UpdateFootprint
  <2>1. CASE UNCHANGED disk
    BY <2>1 DEF disk, MadeFromFiles
  <2>2. CASE target # Absent
    <3>1. target \in Package /\ target' = [target EXCEPT !.declared = TRUE]
      BY <1>5, <2>2, PkgMkAssumption DEF UpdateFootprint, Typed, FileTypes
    <3>2. target'.made = target.made
      BY <3>1 DEF Package
    <3> QED
      BY <1>5, <2>2, <3>2 DEF UpdateFootprint, MadeFromFiles
  <2> QED
    BY <1>5, <2>1, <2>2 DEF UpdateFootprint
<1>6. CASE FetchSucceeds
  <2> DEFINE s == fetch.file
  <2>1. PICK v \in Version : content' = [content EXCEPT ![s] = Continued(Base(s), v)]
    BY <1>6 DEF FetchSucceeds
  <2>2. s \in File
    BY <1>6 DEF FetchSucceeds, Typed, Fetching, Download, File, Source
  <2>3. \A g \in File \ {s} : content'[g] = content[g]
    BY <2>1 DEF Typed, FileTypes
  <2>4. target' = target
    BY <1>6 DEF FetchSucceeds
  <2>5. CASE Touched(s)
    BY <2>2, <2>3, <2>4, <2>5 DEF Touched, MadeFromFiles
  <2>6. CASE hidden' = (hidden \cup {s}) \cap Changed /\ UNCHANGED stale
    BY <2>2, <2>3, <2>4, <2>6 DEF Changed, MadeFromFiles
  <2> QED
    BY <1>6, <2>5, <2>6 DEF FetchSucceeds
<1>7. CASE Writes
  BY <1>7 DEF Writes, MadeFromFiles
<1>8. CASE Succeeds \/ Fails
  <2>1. target' # Absent => target # Absent /\ target'.made = target.made
    BY <1>8 DEF Succeeds, Fails, MarkFailed, Typed, FileTypes, Written, Package
  <2>2. stale \subseteq stale' /\ UNCHANGED <<content, hidden>>
    BY <1>8 DEF Succeeds, Fails
  <2> QED
    BY <2>1, <2>2 DEF MadeFromFiles
<1>9. CASE UNCHANGED vars
  BY <1>9 DEF vars, disk, MadeFromFiles
<1> QED
  BY <1>1, <1>2, <1>3, <1>4, <1>5, <1>6, <1>7, <1>8, <1>9, StepsSplit, PackageSteps

\* What build_needed calls up to date is made from what its files hold now, but
\* for the changes that no time shows.
THEOREM UpToDatePackagesCurrent == Spec => []UpToDateIsCurrent
<1>1. Init => MadeFromFiles
  BY DEF Init, MadeFromFiles
<1>2. Typed /\ MadeFromFiles /\ [Next]_vars => MadeFromFiles'
  BY StaysMadeFromFiles
<1>3. MadeFromFiles => UpToDateIsCurrent
  BY DEF MadeFromFiles, UpToDateIsCurrent, BuildNeeded
<1> QED
  BY <1>1, <1>2, <1>3, AlwaysTyped, PTL DEF Spec

-----------------------------------------------------------------------------
(* Sources put together from two versions.                                 *)

\* Nothing is unpacked before Unpack, and when that comes, .md5sum knows of each
\* source that is Mixed, unless -im skips it.
Packing == {"build", "pack", "tar", "footprint", "succeeded", "failed", "install"}
Unread == pc \notin Packing => \A s \in Source : got[s] = Absent
SumKnows(f) ==
    "-im" \in opts \/ (sum # Absent /\ \A s \in Source : f[s] = Mixed => sum[s] = Mixed)
Summed == (pc = "unpack" => SumKnows(content)) /\ (pc \in Packing \ {"install"} => SumKnows(got))

\* The steps that change neither what was unpacked nor .md5sum, by where they lead.
LEMMA SumSteps ==
    ASSUME MainStep \/ DownloadStep \/ BuildStep \/ Start \/ Interrupted
    PROVE  \/ Ends \/ Start \/ Prepare \/ CheckMd5sum \/ Unpack
           \/ /\ UNCHANGED got /\ pc \notin Packing
              /\ pc' \in {"download", "fetch", "prepare", "install"}
           \/ pc \in Packing \ {"install"} /\ pc' \in Packing /\ UNCHANGED <<got, sum, opts>>
BY DEF MainStep, DownloadStep, BuildStep, Goto, disk, Packing,
       Refused, Clean, UpdateFootprint, IsUpToDate, NotNeeded, Downloads,
       SourceThere, SourceMissing, FetchStarts, Downloaded, FetchSucceeds, FetchFails,
       NextDepot, Restarts, GivesUp, UnpackFails, Build, Writes,
       TarStarts, TarEnds, CheckFootprint, Succeeds, Fails, Install, Interrupted

LEMMA UnreadKept ==
    ASSUME Typed, Unread, [Next]_vars
    PROVE  Unread'
<1>1. CASE Ends \/ Start
  BY <1>1, PkgMkAssumption DEF Ends, Start, NothingGot, Unread, File
<1>2. CASE Prepare \/ CheckMd5sum \/ Unpack
  BY <1>2 DEF Prepare, CheckMd5sum, Unpack, Goto, Ends, NothingGot, Unread, Packing, File
<1>3. CASE UserEdits \/ UserRemoves \/ UNCHANGED vars
  BY <1>3 DEF UserEdits, UserRemoves, vars, Unread
<1>4. CASE UNCHANGED got /\ pc \notin Packing
  BY <1>4 DEF Unread
<1>5. CASE pc' \in Packing
  BY <1>5 DEF Unread
<1> QED
  BY <1>1, <1>2, <1>3, <1>4, <1>5, StepsSplit, SumSteps DEF Interrupted

LEMMA SummedKept ==
    ASSUME Typed, Unread, Summed, [Next]_vars
    PROVE  Summed'
<1>1. CASE Ends \/ Start
  BY <1>1 DEF Ends, Start, Summed, Packing
<1>2. CASE Prepare
  BY <1>2 DEF Prepare, Goto, Summed, SumKnows, Packing
<1>3. CASE CheckMd5sum /\ Goto("unpack")
  <2>1. Sums # Absent /\ \A s \in Source : Sums[s] = content[s]
    BY PkgMkAssumption DEF Sums, SumFile, Typed, FileTypes, File
  <2>2. sum' = Sums /\ UNCHANGED <<content, opts>> /\ pc' = "unpack"
    BY <1>3 DEF CheckMd5sum, SumsAgree, Goto, Ends
  <2> QED
    BY <2>1, <2>2 DEF Summed, SumKnows, Packing
<1>4. CASE Unpack
  <2>1. \A s \in Source : got'[s] = content[s]
    BY <1>4, PkgMkAssumption DEF Unpack, Typed, FileTypes, RunTypes, File
  <2> QED
    BY <1>4, <2>1 DEF Unpack, disk, Summed, SumKnows
<1>5. CASE UserEdits \/ UserRemoves
  <2>1. \A s \in Source : content'[s] = Mixed => content[s] = Mixed
    BY <1>5, PkgMkAssumption DEF UserEdits, UserRemoves, Typed, FileTypes, File
  <2> QED
    BY <1>5, <2>1 DEF UserEdits, UserRemoves, Summed, SumKnows
<1>6. CASE UNCHANGED vars
  BY <1>6 DEF vars, disk, Summed, SumKnows
<1>7. CASE pc' \in {"download", "fetch", "prepare", "install"}
  BY <1>7 DEF Summed, Packing
<1>8. CASE pc \in Packing \ {"install"} /\ pc' \in Packing /\ UNCHANGED <<got, sum, opts>>
  BY <1>8 DEF Summed, SumKnows, Packing
<1> QED
  BY <1>1, <1>2, <1>3, <1>4, <1>5, <1>6, <1>7, <1>8, StepsSplit, SumSteps
     DEF Interrupted, CheckMd5sum

\* A source that wget -c has put together from two versions is built only with
\* -im, or if .md5sum was written for just that source.
THEOREM MixedSourcesNoticed == Spec => []MixedIsNoticed
<1>1. Init => Unread /\ Summed
  BY DEF Init, NothingGot, Unread, Summed, Packing, File
<1>2. Typed /\ Unread /\ Summed /\ [Next]_vars => Unread' /\ Summed'
  BY UnreadKept, SummedKept
<1>3. Unread /\ Summed => MixedIsNoticed
  <2> SUFFICES ASSUME Unread, Summed, pc \in Stages \ {"md5sum"},
                      NEW s \in Remote, got[s] = Mixed
               PROVE  "-im" \in opts \/ (sum # Absent /\ sum[s] = Mixed)
    BY DEF MixedIsNoticed
  <2>1. s \in Source /\ Absent # Mixed
    BY PkgMkAssumption DEF Source
  <2>2. pc \in Packing \ {"install"}
    BY <2>1 DEF Unread, Stages, Packing
  <2> QED
    BY <2>1, <2>2 DEF Summed, SumKnows
<1> QED
  BY <1>1, <1>2, <1>3, AlwaysTyped, PTL DEF Spec

-----------------------------------------------------------------------------
(* How runs end.                                                           *)

\* The trap on a signal, and every exit from a build, passes "rm -rf" of the
\* work directory: no stage is left past it, but with -kw.
THEOREM WorkRemovedAtExit == Spec => WorkIsRemoved
<1>1. [Next]_vars => RemovesWork
  <2> SUFFICES ASSUME [Next]_vars, pc \in Stages, pc' \notin Stages, "-kw" \notin opts
               PROVE  ~work'
    BY DEF RemovesWork
  <2>1. \/ CheckMd5sum \/ UnpackFails \/ Succeeds \/ Fails \/ Interrupted
    BY DEF Next, Step, UserEdits, UserRemoves, Start, vars, Goto, Stages,
           Refused, Clean, UpdateFootprint, IsUpToDate, NotNeeded, Downloads,
           SourceThere, SourceMissing, FetchStarts, Downloaded, FetchSucceeds, FetchFails,
           NextDepot, Restarts, GivesUp, Prepare, Unpack, Build, Writes,
           TarStarts, TarEnds, CheckFootprint, Install
  <2>2. ClearsWork
    BY <2>1 DEF CheckMd5sum, UnpackFails, Succeeds, Fails, Interrupted, Goto, Stages
  <2> QED
    BY <2>2 DEF ClearsWork
<1> QED
  BY <1>1, PTL DEF Spec, WorkIsRemoved

\* The "while true" of download_file: each time wget fails and download_file
\* goes on, fewer tries are left, whatever wget leaves behind.
THEOREM DownloadsRunOut == Spec => DownloadsEnd
<1>1. Typed /\ [Next]_vars => OneTryLess
  <2> SUFFICES ASSUME Typed, FetchFails, pc' = "fetch"
               PROVE  Tries' < Tries /\ Tries' >= 0
    BY DEF OneTryLess
  <2>1. /\ fetch \in Download /\ fetch.server \in 1 .. NDepot + 1
        /\ NDepot \in Nat /\ resume \in BOOLEAN
    BY PkgMkAssumption
       DEF FetchFails, NextDepot, Restarts, GivesUp, Typed, Fetching, Download, Switches
  <2>2. CASE NextDepot
    <3>1. fetch'.server = fetch.server + 1 /\ resume' = resume /\ fetch.server <= NDepot
      BY <2>1, <2>2 DEF NextDepot, Download
    <3> QED
      BY <2>1, <3>1 DEF Tries
  <2>3. CASE Restarts
    BY <2>1, <2>3 DEF Restarts, Tries
  <2>4. CASE GivesUp
    BY <2>4 DEF GivesUp, Ends
  <2> QED
    BY <2>2, <2>3, <2>4 DEF FetchFails
<1> QED
  BY <1>1, AlwaysTyped, PTL DEF Spec, DownloadsEnd

=============================================================================
