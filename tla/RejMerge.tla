----------------------------- MODULE RejMerge -----------------------------
(***************************************************************************)
(* rejmerge (src/scripts/rejmerge.in): the loop over the rejected files    *)
(* and its menus, with signals, a full disk, and pkgadd, pkgrm or the user *)
(* changing the same files, since no lock is taken.  A text is the set of  *)
(* the versions that are in it, so that a merge is a union.  Answers that  *)
(* only show something again are left out.                                 *)
(***************************************************************************)
EXTENDS Integers, FiniteSets

CONSTANTS
    File,           \* paths below the rejected directory
    Version, Mode,  \* contents and modes of files
    Starts,         \* the files at the start: pairs [inst, rej]
    MaxUpdates      \* bound: changes by others during a run

NoMode == 0
Text == SUBSET Version
Thing(k, t, m) == [kind |-> k, text |-> t, mode |-> m]
Nothing == Thing("absent", {}, NoMode)

\* A link has the text and the mode of what it leads to, if anything; the text
\* of a directory is what was moved into it.
Things ==
    {Nothing, Thing("link", {}, NoMode)} \cup
    {Thing(k, t, m) : k \in {"file", "link", "dir"}, t \in Text, m \in Mode}
Extracted == {x \in Things : x.kind \in {"file", "link"} /\ Cardinality(x.text) = 1}

ASSUME RejMergeAssumption ==
    /\ NoMode \notin Mode /\ MaxUpdates \in Nat
    /\ \A s \in Starts : s.inst \in [File -> Things] /\ s.rej \in [File -> Extracted \cup {Nothing}]

VARIABLES
    inst, rej,      \* INSTALLED_FILE and REJECTED_FILE, for each path
    tmpfile,            \* what is in TMPFILE, or NoTmp
    todo, cur,      \* the paths find printed that are to be visited; the path in work
    rpc,
    full,           \* is the disk full?
    updates,        \* changes by others so far
    offered, held,  \* history: <<path, version>>, rejected at some time; installed
    seen, fresh,    \* history: versions in the rejected file of cur, when rejmerge last
                    \* read it, or -e passed it; what was rejected there since
    answered,       \* history: <<path, version>> the user's answer gave up
    bare,           \* history: <<path, version>> rejected when -e found nothing installed
    missed,         \* history: <<path, version>> rejected since, that an rm took
    replaced        \* history: <<path, version>> pkgadd wrote over

NoTmp == {"gone"}
NoFile == "none"
filesVars == <<inst, rej>>
history == <<offered, held, seen, fresh, answered, bare, missed, replaced>>
rejVars == <<inst, rej, tmpfile, todo, cur, rpc, full, updates, history>>

Versions(a) == {p \in File \X Version : p[2] \in a[p[1]].text}
Exists(x) == x.mode # NoMode
VersionsAt(f, t) == {<<f, v>> : v \in t}

RejStart(s, f) ==
    /\ inst = s.inst /\ rej = s.rej /\ full = f
    /\ tmpfile = {} /\ todo = {} /\ cur = NoFile /\ rpc = "start" /\ updates = 0
    /\ offered = Versions(rej) /\ held = Versions(inst) /\ seen = {} /\ fresh = {}
    /\ answered = {} /\ bare = {} /\ missed = {} /\ replaced = {}
RejInit == \E s \in Starts, f \in BOOLEAN : RejStart(s, f)

-----------------------------------------------------------------------------
\* What the two files become; the history follows.
Becomes(i, r) ==
    /\ inst' = i /\ rej' = r
    /\ offered' = offered \cup Versions(r) /\ held' = held \cup Versions(i)
NowAre(i, r) == Becomes(i, r) /\ UNCHANGED <<bare, missed, replaced>>
Stays == UNCHANGED <<filesVars, offered, held, bare, missed, replaced>>

Turns(from, to) == rpc = from /\ rpc' = to /\ UNCHANGED <<full, updates>>
NotSaid == UNCHANGED answered
GivesUp(t) == answered' = answered \cup VersionsAt(cur, t)

\* Whether the step reads the rejected file.
AtFile == UNCHANGED <<todo, cur, seen, fresh>>
Looks == UNCHANGED <<todo, cur>> /\ seen' = rej[cur].text /\ fresh' = {}

\* rm -f: it takes what is there, read or not.
RemoveRejected == [rej EXCEPT ![cur] = Nothing]
Removes ==
    /\ Becomes(inst, RemoveRejected)
    /\ missed' = missed \cup VersionsAt(cur, fresh) /\ UNCHANGED <<bare, replaced>>
\* mv -f x y; into y, when that is a directory.
Moved(x, y) == IF y.kind = "dir" THEN [y EXCEPT !.text = @ \cup x.text] ELSE x

-----------------------------------------------------------------------------
\* main: no rejected directory, or not root.
Refuses == Turns("start", "done") /\ tmpfile' = NoTmp /\ AtFile /\ Stays /\ NotSaid

Find ==
    /\ Turns("start", "loop")
    /\ todo' = {f \in File : rej[f] # Nothing} /\ UNCHANGED <<tmpfile, cur, seen, fresh>>
    /\ Stays /\ NotSaid

NextFile ==
    /\ Turns("loop", "exists")
    /\ \E f \in todo : cur' = f /\ todo' = todo \ {f}
    /\ seen' = {} /\ fresh' = {} /\ UNCHANGED tmpfile /\ Stays /\ NotSaid

\* What is rejected where nothing is installed, when -e looks.
FindsBare ==
    /\ bare' = IF Exists(inst[cur]) THEN bare ELSE bare \cup VersionsAt(cur, rej[cur].text)
    /\ UNCHANGED <<filesVars, offered, held, missed, replaced>>

NoRegularVersion ==
    /\ Turns("exists", "remove") /\ inst[cur].kind # "file"
    /\ Looks /\ FindsBare /\ UNCHANGED tmpfile /\ NotSaid

\* There is no installed version, or it is a link that leads nowhere.
NoInstalledVersion ==
    /\ Turns("exists", "remove") /\ ~Exists(inst[cur])
    /\ Looks /\ FindsBare /\ UNCHANGED tmpfile /\ NotSaid

\* The rm behind the -e, and the one behind the cmp.
RemoveChecked == Turns("remove", "loop") /\ Removes /\ UNCHANGED tmpfile /\ AtFile /\ NotSaid

\* What stat says of a file, without following links.
Stat(x) == IF x.kind = "link" THEN <<"link">> ELSE <<x.kind, x.mode>>

CheckPermissions ==
    /\ \E to \in {"types", "permissions"} :
        /\ Turns("exists", to) /\ Exists(inst[cur])
        /\ (to = "types") <=> (Stat(inst[cur]) = Stat(rej[cur]))
    /\ UNCHANGED tmpfile /\ AtFile /\ Stays /\ NotSaid

\* chown and chmod --reference, which follow links.
Like(x, y) == IF Exists(x) /\ Exists(y) THEN [x EXCEPT !.mode = y.mode] ELSE x

PermissionsMenu ==
    /\ Turns("permissions", "types")
    /\ \/ NowAre(inst, [rej EXCEPT ![cur] = Like(@, inst[cur])])
       \/ NowAre([inst EXCEPT ![cur] = Like(@, rej[cur])], rej)
       \/ Stays
    /\ UNCHANGED tmpfile /\ AtFile /\ NotSaid

\* files_regular.
CheckTypes ==
    /\ \E to \in {"cmp", "show"} :
        /\ Turns("types", to)
        /\ (to = "cmp") <=> (inst[cur].kind = "file" /\ rej[cur].kind = "file")
    /\ UNCHANGED tmpfile /\ AtFile /\ Stays /\ NotSaid

\* cmp reads through links, and fails where there is nothing to read.
Compare ==
    /\ \E to \in {"remove", "differ"} :
        /\ Turns("cmp", to)
        /\ (to = "remove") <=> (Exists(inst[cur]) /\ inst[cur].text = rej[cur].text)
    /\ UNCHANGED tmpfile /\ Looks /\ Stays /\ NotSaid

\* What diff writes to TMPFILE, when it can read both files and write.
Output ==
    IF full \/ ~Exists(inst[cur]) \/ ~Exists(rej[cur]) THEN {}
    ELSE inst[cur].text \cup rej[cur].text

DiffFiles == Turns("differ", "diff") /\ tmpfile' = Output /\ Looks /\ Stays /\ NotSaid

\* file_menu shows the two files anew after [D]iff, where diff_menu has TMPFILE.
ShowFiles == Turns("show", "file") /\ UNCHANGED tmpfile /\ Looks /\ Stays /\ NotSaid
ShowAgain == Turns("file", "show") /\ UNCHANGED tmpfile /\ AtFile /\ Stays /\ NotSaid

\* The answers of diff_menu and file_menu; behind the former TMPFILE is emptied.
Menu(m) == Turns(m, "loop") /\ tmpfile' = (IF m = "diff" THEN {} ELSE tmpfile) /\ AtFile

\* The answer is about what was shown; the rm takes what is there.
KeepFile == \E m \in {"diff", "file"} : Menu(m) /\ GivesUp(seen) /\ Removes

\* mv fails at most where it has to copy to a full disk.
Upgrade ==
    \E m \in {"diff", "file"} :
        /\ Menu(m) /\ NotSaid
        /\ \/ NowAre([inst EXCEPT ![cur] = Moved(rej[cur], @)], RemoveRejected)
           \/ full /\ Stays

SkipFile == \E m \in {"diff", "file"} : Menu(m) /\ Stays /\ NotSaid

Merge == Turns("diff", "merge") /\ tmpfile' = Output /\ Looks /\ Stays /\ NotSaid

\* What the editor leaves of the merge, or takes from the two files.
Edit ==
    /\ Turns("merge", "merge")
    /\ tmpfile' \in SUBSET (tmpfile \cup inst[cur].text \cup rej[cur].text)
    /\ AtFile /\ Stays /\ NotSaid

\* Install: chmod, and mv, which may fail when the disk is full.
InstallMerge ==
    /\ Turns("merge", "merged") /\ AtFile
    /\ \/ \E m \in IF Exists(inst[cur]) THEN {inst[cur].mode} ELSE Mode :
              NowAre([inst EXCEPT ![cur] = Moved(Thing("file", tmpfile, m), @)], rej)
          /\ GivesUp(seen \ tmpfile) /\ tmpfile' = NoTmp
       \/ full /\ Stays /\ GivesUp(seen) /\ UNCHANGED tmpfile

\* The rm behind it, whether mv failed or not.
RemoveMerged == Turns("merged", "loop") /\ Removes /\ tmpfile' = {} /\ AtFile /\ NotSaid

SkipMerge == Turns("merge", "loop") /\ tmpfile' = {} /\ AtFile /\ Stays /\ NotSaid

Finish ==
    /\ Turns("loop", "done") /\ todo = {}
    /\ tmpfile' = NoTmp /\ AtFile /\ Stays /\ NotSaid

\* A signal: the trap, and atexit.
Interrupted ==
    /\ rpc \notin {"done", "aborted"} /\ Turns(rpc, "aborted")
    /\ tmpfile' = NoTmp /\ AtFile /\ Stays /\ NotSaid

-----------------------------------------------------------------------------
\* Others change an installed file, or reject another version of it.
OthersAct ==
    /\ rpc \notin {"done", "aborted"} /\ updates < MaxUpdates /\ updates' = updates + 1
    /\ \/ \E f \in File, x \in Extracted \cup {Nothing} :
              Becomes([inst EXCEPT ![f] = x], rej) /\ UNCHANGED <<replaced, fresh>>
       \/ \E f \in File, x \in Extracted :
              /\ Becomes(inst, [rej EXCEPT ![f] = x])
              /\ replaced' = replaced \cup VersionsAt(f, rej[f].text)
              /\ fresh' = IF f = cur THEN x.text ELSE fresh
    /\ UNCHANGED <<tmpfile, todo, cur, rpc, full, seen, answered, bare, missed>>

RejNext ==
    \/ Refuses \/ Find \/ NextFile \/ NoInstalledVersion \/ RemoveChecked
    \/ CheckPermissions \/ PermissionsMenu \/ CheckTypes \/ Compare \/ DiffFiles
    \/ ShowFiles \/ ShowAgain \/ KeepFile \/ Upgrade \/ SkipFile
    \/ Merge \/ Edit \/ InstallMerge \/ RemoveMerged \/ SkipMerge
    \/ Finish \/ Interrupted \/ OthersAct

RejSpec == RejInit /\ [][RejNext]_rejVars

-----------------------------------------------------------------------------
\* Type correctness; the temporary file is gone when rejmerge is.
RejTypeOK ==
    /\ rpc \in {"start", "loop", "exists", "permissions", "types", "cmp", "remove", "differ",
                "diff", "show", "file", "merge", "merged", "done", "aborted"}
    /\ seen \in Text /\ fresh \in Text
    /\ inst \in [File -> Things] /\ rej \in [File -> Things] /\ tmpfile \in Text \cup {NoTmp}
    /\ todo \subseteq File /\ cur \in File \cup {NoFile} /\ updates \in 0..MaxUpdates
    /\ (rpc \notin {"start", "loop", "done", "aborted"} => cur \in File)
    /\ rpc \in {"done", "aborted"} => tmpfile = NoTmp

\* A rejected version that rejmerge read stays until the user said what becomes
\* of it, whatever signals and other programs do: it is still rejected; it is or
\* was installed, perhaps in a merge; the user was shown it and kept another, or
\* installed a merge that it is not in; pkgadd wrote over it; or nothing was
\* installed at its path when -e looked. Two losses the script has are left out
\* by name: what pkgadd rejects after rejmerge last read the path, in front of an
\* rm that takes it unread (missed); and, on a full disk, the merge that the user
\* chose to install, whose mv fails in front of the rm (answered).
NothingLostUnasked ==
    \A f \in File, v \in Version :
        <<f, v>> \in offered =>
            \/ v \in rej[f].text
            \/ <<f, v>> \in held \cup replaced \cup answered \cup bare \cup missed
=============================================================================
