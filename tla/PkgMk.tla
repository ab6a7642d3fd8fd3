------------------------------- MODULE PkgMk -------------------------------
(***************************************************************************)
(* One port directory and the pkgmk runs in it (src/scripts/pkgmk.in): the *)
(* choice what a run does, the downloads and their .partial files, the     *)
(* .md5sum check, the build, the package file and the times pkgmk compares *)
(* it by, the footprint check, and the trap on a signal. Between and       *)
(* during runs, the user edits and removes files.                          *)
(*                                                                         *)
(* All that is ever asked of times is "[ $TARGET -nt $FILE ]": the model   *)
(* keeps the set of the files that the package is not newer than.          *)
(***************************************************************************)
EXTENDS Naturals

CONSTANTS
    Local,      \* sources that lie beside the Pkgfile
    Remote,     \* sources given by a URL
    Version,    \* what a file may say
    OptionSets, \* command lines
    NDepot,     \* servers in PKGMK_DEPOTS
    Absent,     \* there is no such file
    Empty,      \* a .partial of length 0
    Mixed       \* a start of one version continued with the rest of another

Source == Local \cup Remote
File == {"Pkgfile"} \cup Source
Content == Version \cup {Mixed}

\* What a package, a .md5sum and a download are. The state of a package is how
\* the last build of it ended; -uf has declared it good since, or not.
Package ==
    [made : [File -> Content \cup {Absent}], state : {"unfinished", "failed", "ok"},
     declared : BOOLEAN]
SumFile == [Source -> Content \cup {Absent}]
Download == [file : Remote, server : 1 .. NDepot + 1]

ASSUME PkgMkAssumption ==
    /\ Local \cap Remote = {} /\ "Pkgfile" \notin Source
    /\ NDepot \in Nat
    /\ Version \cap {Absent, Empty, Mixed} = {}
    /\ Absent # Empty /\ Absent # Mixed /\ Empty # Mixed
    /\ Absent \notin Package /\ Absent \notin SumFile

VARIABLES
    content,    \* the Pkgfile and the sources
    target,     \* the package: what it was made from, and what became of that
    stale,      \* the files it is not newer than
    sum,        \* .md5sum
    footprint,  \* there is a .footprint
    partial,    \* partial[s]: s.partial
    work,       \* there is a work directory
    pc, opts,
    got,        \* what this run has read or unpacked of each file
    left,       \* sources download_source has not come to
    fetch,      \* what download_file gets, and from where: depots 1 .. NDepot,
                \* then the provider
    resume,     \* RESUME_CMD, which no function clears for the next file
    hidden      \* history: changes that no time shows

disk == <<content, target, stale, sum, footprint, partial, work, hidden>>
vars == <<disk, pc, opts, got, left, fetch, resume>>

NothingGot == [f \in File |-> Absent]

Init ==
    /\ content \in [File -> Version] /\ target = Absent /\ stale = {} /\ hidden = {}
    /\ sum = Absent /\ footprint = FALSE
    /\ partial = [s \in Source |-> Absent] /\ work = FALSE
    /\ pc = "idle" /\ opts = {} /\ got = NothingGot /\ left = {}
    /\ fetch = Absent /\ resume = FALSE

-----------------------------------------------------------------------------
(* The user.                                                               *)

\* f gets a time after that of the package, if there is one.
Touched(f) ==
    /\ stale' = IF target = Absent THEN stale ELSE stale \cup {f}
    /\ hidden' = hidden \ {f}

UserEdits ==
    /\ \E f \in File : \E v \in Version \ {content[f]} :
         content' = [content EXCEPT ![f] = v] /\ Touched(f)
    /\ UNCHANGED <<target, sum, footprint, partial, work,
                   pc, opts, got, left, fetch, resume>>

UserRemoves ==
    /\ \E s \in Source :
         /\ content[s] # Absent /\ content' = [content EXCEPT ![s] = Absent]
         /\ stale' = stale \ {s}
    /\ UNCHANGED <<target, sum, footprint, partial, work, hidden,
                   pc, opts, got, left, fetch, resume>>

-----------------------------------------------------------------------------
(* A run: parse_options reads the options, main sources the Pkgfile.       *)

Start ==
    /\ pc = "idle" /\ pc' = "main"
    /\ opts' \in OptionSets
    /\ got' = [NothingGot EXCEPT !["Pkgfile"] = content["Pkgfile"]]
    /\ UNCHANGED <<disk, left, fetch, resume>>

Ends ==
    /\ pc' = "idle" /\ opts' = {} /\ got' = NothingGot /\ left' = {}
    /\ fetch' = Absent /\ resume' = FALSE

Goto(l) == pc' = l /\ UNCHANGED <<opts, got, left, fetch, resume>>

\* rm -rf $PKGMK_WORK_DIR, but with -kw.
ClearsWork == work' = (work /\ "-kw" \in opts)

BuildNeededPkgfileTime ==
    \/ target = Absent
    \/ "Pkgfile" \in stale \/ \E f \in File : content[f] = Absent

BuildNeeded ==
    \/ target = Absent
    \/ \E f \in File : content[f] = Absent \/ f \in stale

\* check_directory and check_pkgfile: a file or directory cannot be used.
Refused == pc = "main" /\ Ends /\ UNCHANGED disk

\* main: the first of these options decides.
Modes == <<"-c", "-uf", "-um", "-do", "-utd">>
First(o) ==
    \E i \in DOMAIN Modes :
        Modes[i] = o /\ o \in opts /\ \A j \in 1 .. i - 1 : Modes[j] \notin opts
Builds == \A i \in DOMAIN Modes : Modes[i] \notin opts

Clean ==
    /\ pc = "main" /\ First("-c")
    /\ target' = Absent /\ stale' = {} /\ hidden' = {}
    /\ content' = [f \in File |-> IF f \in Remote THEN Absent ELSE content[f]]
    /\ UNCHANGED <<sum, footprint, partial, work>> /\ Ends

\* The files that are, after this step, not what the package was made from.
Changed == {f \in File : target.made[f] # content'[f]}

\* touch $TARGET: it is newer than all files, those that changed since, too.
UpdateFootprint ==
    /\ pc = "main" /\ First("-uf")
    /\ \/ target = Absent /\ UNCHANGED disk
       \/ /\ target # Absent
          /\ footprint' = TRUE /\ stale' = {}
          /\ hidden' = {f \in File : target.made[f] # content[f]}
          /\ target' = [target EXCEPT !.declared = TRUE]
          /\ UNCHANGED <<content, sum, partial, work>>
    /\ Ends

IsUpToDate == pc = "main" /\ First("-utd") /\ Ends /\ UNCHANGED disk

NotNeeded ==
    /\ pc = "main" /\ Builds
    /\ ~BuildNeeded /\ {"-f", "-cm"} \cap opts = {}
    /\ IF "-i" \in opts THEN Goto("install") ELSE Ends
    /\ UNCHANGED disk

Downloads ==
    /\ pc = "main"
    /\ \/ First("-um") \/ First("-do")
       \/ Builds /\ (BuildNeeded \/ {"-f", "-cm"} \cap opts # {})
    /\ pc' = "download" /\ left' = Source
    /\ UNCHANGED <<disk, opts, got, fetch, resume>>

-----------------------------------------------------------------------------
(* download_source and download_file.                                      *)

SourceThere ==
    /\ pc = "download"
    /\ \E s \in left : content[s] # Absent /\ left' = left \ {s}
    /\ UNCHANGED <<disk, pc, opts, got, fetch, resume>>

SourceMissing ==
    /\ pc = "download"
    /\ \E s \in left : content[s] = Absent /\ (s \in Local \/ {"-d", "-do"} \cap opts = {})
    /\ Ends /\ UNCHANGED disk

FetchStarts ==
    /\ pc = "download" /\ {"-d", "-do"} \cap opts # {}
    /\ \E s \in left \cap Remote :
         /\ content[s] = Absent
         /\ fetch' = [file |-> s, server |-> 1]
         /\ resume' = (resume \/ partial[s] # Absent)
    /\ pc' = "fetch" /\ UNCHANGED <<disk, opts, got, left>>

\* wget --output-document: without -c it truncates the file first.
Base(s) == IF resume THEN partial[s] ELSE Empty

\* wget -c appends what the server has after as many bytes.
Continued(b, v) == IF b \in {Absent, Empty, v} THEN v ELSE Mixed

\* The file wget wrote may have the server's date, which can be any.
FetchSucceeds ==
    /\ pc = "fetch"
    /\ LET s == fetch.file IN
         /\ \E v \in Version : content' = [content EXCEPT ![s] = Continued(Base(s), v)]
         /\ partial' = [partial EXCEPT ![s] = Absent]
         /\ \/ Touched(s)
            \/ target # Absent /\ hidden' = (hidden \cup {s}) \cap Changed /\ UNCHANGED stale
         /\ left' = left \ {s}
    /\ pc' = "download" /\ fetch' = Absent
    /\ UNCHANGED <<target, sum, footprint, work, opts, got, resume>>

FailureLeaves(s) ==
    \E p \in {Base(s)} \cup {Continued(Base(s), v) : v \in Version} :
        partial' = [partial EXCEPT ![s] = p]

NextDepot ==
    /\ pc = "fetch" /\ fetch.server <= NDepot
    /\ FailureLeaves(fetch.file)
    /\ fetch' = [fetch EXCEPT !.server = @ + 1]
    /\ UNCHANGED <<pc, opts, got, left, resume>>

RestartsResuming ==
    /\ pc = "fetch" /\ fetch.server > NDepot /\ resume
    /\ partial' = [partial EXCEPT ![fetch.file] = Absent]
    /\ UNCHANGED <<pc, opts, got, left, fetch, resume>>

Restarts ==
    /\ pc = "fetch" /\ fetch.server > NDepot /\ resume
    /\ partial' = [partial EXCEPT ![fetch.file] = Absent]
    /\ resume' = FALSE
    /\ UNCHANGED <<pc, opts, got, left, fetch>>

GivesUp ==
    /\ pc = "fetch" /\ fetch.server > NDepot /\ ~resume
    /\ FailureLeaves(fetch.file)
    /\ Ends

FetchFailsRenames ==
    /\ NextDepot \/ Restarts \/ GivesUp
    /\ content' = IF pc' = "idle" THEN [content EXCEPT ![fetch.file] = partial'[fetch.file]]
                                  ELSE content
    /\ UNCHANGED <<target, stale, sum, footprint, work, hidden>>

FetchFails ==
    /\ NextDepot \/ Restarts \/ GivesUp
    /\ UNCHANGED <<content, target, stale, sum, footprint, work, hidden>>

Sums == [s \in Source |-> content[s]]

Downloaded ==
    /\ pc = "download" /\ left = {}
    /\ \/ First("-um") /\ sum' = Sums /\ Ends
       \/ First("-do") /\ UNCHANGED sum /\ Ends
       \/ Builds /\ UNCHANGED sum /\ Goto("prepare")
    /\ UNCHANGED <<content, target, stale, footprint, partial, work, hidden>>

-----------------------------------------------------------------------------
(* build_package.                                                          *)

Prepare ==
    /\ pc = "prepare" /\ work' = TRUE
    /\ Goto(IF "-im" \in opts THEN "unpack" ELSE "md5sum")
    /\ UNCHANGED <<content, target, stale, sum, footprint, partial, hidden>>

SumsCover == \A s \in Source : (sum[s] = Absent) = (content[s] = Absent)

SumsAgree == sum = Sums

CheckMd5sum ==
    /\ pc = "md5sum"
    /\ \/ sum # Absent /\ ~SumsAgree /\ ClearsWork /\ Ends /\ UNCHANGED sum
       \/ sum = Absent /\ "-cm" \in opts /\ ClearsWork /\ Ends /\ UNCHANGED sum
       \/ sum # Absent /\ SumsAgree /\ "-cm" \in opts /\ ClearsWork /\ Ends /\ UNCHANGED sum
       \/ sum # Absent /\ SumsAgree /\ "-cm" \notin opts /\ Goto("unpack") /\ UNCHANGED <<sum, work>>
       \/ sum = Absent /\ "-cm" \notin opts /\ sum' = Sums /\ Goto("unpack") /\ UNCHANGED work
    /\ UNCHANGED <<content, target, stale, footprint, partial, hidden>>

Unpack ==
    /\ pc = "unpack"
    /\ \A s \in Source : content[s] # Absent
    /\ got' = [content EXCEPT !["Pkgfile"] = got["Pkgfile"]]
    /\ pc' = "build" /\ UNCHANGED <<disk, opts, left, fetch, resume>>

UnpackFailsOnly ==
    /\ pc = "unpack" /\ Ends
    /\ UNCHANGED disk

\* A source is gone, or does not unpack.
UnpackFails ==
    /\ pc = "unpack"
    /\ ClearsWork /\ Ends
    /\ UNCHANGED <<content, target, stale, sum, footprint, partial, hidden>>

Build == pc = "build" /\ (Goto("pack") \/ Goto("failed")) /\ UNCHANGED disk

\* The package as tar writes it: newer than the files it was made from, and
\* than those that have changed since they were unpacked.
Writes ==
    /\ target' = [made |-> got, state |-> "unfinished", declared |-> FALSE]
    /\ stale' = {} /\ hidden' = {f \in File : content[f] # got[f]}
    /\ UNCHANGED <<content, sum, footprint, partial, work>>

TarStarts == pc = "pack" /\ Writes /\ Goto("tar")

TarEnds ==
    /\ pc = "tar" /\ Writes
    /\ \/ Goto("failed")
       \/ Goto(IF "-if" \in opts THEN "succeeded" ELSE "footprint")

CheckFootprint ==
    /\ pc = "footprint" /\ footprint' = TRUE
    /\ Goto("succeeded") \/ (footprint /\ Goto("failed"))
    /\ UNCHANGED <<content, target, stale, sum, partial, work, hidden>>

Succeeds ==
    /\ pc = "succeeded"
    /\ target' = [target EXCEPT !.state = "ok"] /\ ClearsWork
    /\ IF "-i" \in opts THEN Goto("install") ELSE Ends
    /\ UNCHANGED <<content, stale, sum, footprint, partial, hidden>>

\* The package there is may be the one of an earlier build.
MarkFailed ==
    target' = IF target = Absent THEN Absent
              ELSE [target EXCEPT !.state = "failed", !.declared = FALSE]

FailsNoTouch ==
    /\ pc = "failed" /\ ClearsWork /\ MarkFailed /\ Ends
    /\ UNCHANGED <<content, stale, sum, footprint, partial, hidden>>

\* touch -r Pkgfile $TARGET: the package is not newer than the Pkgfile now. Nor
\* than some sources perhaps; the Pkgfile decides until the package is written
\* or touched again.
Fails ==
    /\ pc = "failed" /\ ClearsWork /\ MarkFailed /\ Ends
    /\ stale' = IF target = Absent THEN stale ELSE stale \cup {"Pkgfile"}
    /\ UNCHANGED <<content, sum, footprint, partial, hidden>>

\* install_package: pkgadd or pkgadd -u, in PkgTools.
Install == pc = "install" /\ Ends /\ UNCHANGED disk

-----------------------------------------------------------------------------
\* SIGHUP, SIGINT, SIGQUIT or SIGTERM, wherever the run is.
Interrupted ==
    /\ pc # "idle"
    /\ ClearsWork /\ Ends
    /\ UNCHANGED <<content, target, stale, sum, footprint, partial, hidden>>

Step ==
    \/ Refused \/ Clean \/ UpdateFootprint \/ IsUpToDate \/ NotNeeded \/ Downloads
    \/ SourceThere \/ SourceMissing \/ FetchStarts \/ Downloaded
    \/ FetchSucceeds \/ FetchFails
    \/ Prepare \/ CheckMd5sum \/ Unpack \/ UnpackFails \/ Build
    \/ TarStarts \/ TarEnds \/ CheckFootprint \/ Succeeds \/ Fails \/ Install

Next == Start \/ Step \/ Interrupted \/ UserEdits \/ UserRemoves

Spec == Init /\ [][Next]_vars

-----------------------------------------------------------------------------
(* Properties.                                                             *)

Stages == {"md5sum", "unpack", "build", "pack", "tar", "footprint", "succeeded", "failed"}

\* The types; and that a source never has its name before wget ended well:
\* a partial download, an empty one above all, keeps its own name.
TypeOK ==
    /\ content \in [File -> Content \cup {Absent}]
    /\ target \in {Absent} \cup Package
    /\ stale \subseteq File /\ hidden \subseteq File
    /\ sum \in {Absent} \cup SumFile
    /\ footprint \in BOOLEAN /\ work \in BOOLEAN /\ resume \in BOOLEAN
    /\ partial \in [Source -> Content \cup {Absent, Empty}]
    /\ pc \in Stages \cup {"idle", "main", "download", "fetch", "prepare", "install"}
    /\ opts \in OptionSets \cup {{}}
    /\ got \in [File -> Content \cup {Absent}] /\ left \subseteq Source
    /\ fetch \in {Absent} \cup Download

\* build_needed, pkgmk.in:468-484: a package it calls up to date is made from
\* what its files hold now. Three kinds of change escape it, all because of
\* times: a change between the unpacking of a file and the end of tar, a
\* download that has an old date, and one that -uf declares part of the package.
UpToDateIsCurrent ==
    target # Absent /\ ~BuildNeeded =>
        \A f \in File \ hidden : target.made[f] = content[f]

\* build_package, pkgmk.in:364-396: when build(), tar or the footprint check
\* fails, the package file there is, the one of an earlier build too, is not up
\* to date until a build writes it again or -uf declares it good ("treat last
\* build as successful", pkgmk.8.in:41), whatever runs, signals and edits come
\* in between. A build that a signal ends before the touch did not fail in this
\* sense: InstallsSuccessfulBuilds is about that one.
FailedIsRebuilt ==
    target # Absent /\ ~BuildNeeded => target.state # "failed" \/ target.declared

\* check_md5sum, pkgmk.in:206-256, after download_file:80-135: what wget -c has
\* put together from two versions is packed only with -im, or if .md5sum was
\* written when the source was in that state.
MixedIsNoticed ==
    pc \in Stages \ {"md5sum"} =>
        \A s \in Remote : got[s] = Mixed =>
            "-im" \in opts \/ (sum # Absent /\ sum[s] = Mixed)

RemovesWork == pc \in Stages /\ pc' \notin Stages /\ "-kw" \notin opts => ~work'

\* pkgmk.in:167-184, 225-255, 386-388, 490-492: a run without -kw leaves no work
\* directory, wherever it fails, exits or is interrupted.
WorkIsRemoved == [][RemovesWork]_vars

Tries == 2 * (NDepot + 1 - fetch.server) + (IF resume THEN 1 ELSE 0)
OneTryLess == FetchFails /\ pc' = "fetch" => Tries' < Tries /\ Tries' >= 0

\* download_file, pkgmk.in:101-124: "while true" ends. A wget that fails with -c
\* is tried once more, one that fails without -c is the last, for this file and
\* for those that inherit RESUME_CMD from it.
DownloadsEnd == [][OneTryLess]_vars

\* pkgmk(8), -i: "Install package using pkgadd(8) after successful build", or
\* after one that -uf treats as such.
InstallsSuccessfulBuilds ==
    pc = "install" => target # Absent /\ (target.state = "ok" \/ target.declared)
=============================================================================
