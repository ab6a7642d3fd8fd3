# pkgutils in TLA+

A model of the package tools `pkgadd`, `pkgrm`, `pkginfo`, `pkgmk` and
`rejmerge` of pkgutils-c, model-checked with TLC and proved with TLAPS. Paths
below are relative to the repository's root.

## The system

| Component | Source | State | Operations |
|---|---|---|---|
| `pkgadd` | `src/libpkgadd.c`, `src/pkgadd.c` | the database in memory (`pkg_db`), the package being added with a conflict flag per file, rules, working directory | `adjust_with_db`, `adjust_with_fs`, `report_conflicts`, `del_old_pkg`, `cleanup_pkg_db`, commit, `extract_files`, `cleanup_pkg` |
| `pkgrm` | `src/libpkgrm.c`, `src/pkgrm.c` | the database in memory | `delete_refs`, `remove_from_fs`, commit |
| database | `src/libpkgdb.c` | `db`, `db.new`, the lock on their directory | `pkg_lock_db`, `pkg_init_db`, `pkg_commit_db` |
| `intersect_uniq` | `src/misc.c` | two sorted arrays, four counters | one pass |
| `run_ldconfig` | `src/misc.c` | a child that inherits the lock | fork, wait, abort |
| `pkginfo` | `src/pkginfo.c` | none of its own | `-i`, `-l`, `-o`, `-m` (`missing`), `-O` (`orphans`), `-f` |
| configuration | `fetch_line_fields` in `src/misc.c`, `read_config` in `src/libpkgadd.c` | a list of rules | parse a line, match a path |
| linked list | `src/list.c`, `list.h` | head, tail, entries | insert, delete, walks that delete as they go |
| `pkgmk` | `scripts/pkgmk.in` | sources, `.partial` files, work directory, package file and its time, footprint, checksums | download, build, check, install, recurse, trap |
| `rejmerge` | `scripts/rejmerge.in` | rejected and installed files, `TMPFILE` | permissions, keep, upgrade, merge, skip, trap |

**Interaction.** `pkgadd` and `pkgrm` meet in two places: the root file system
and the database file. The database lock lets one of them run at a time;
`pkginfo` and `rejmerge` take no lock. Within `pkgadd` the components talk
through the flags: the pass over the database and the look at the file system
set them, `del_old_pkg`, `cleanup_pkg_db`, `extract_files` and the exit status
read them, on two lists (the packages in memory and the new package) that are
merged half-way.

**What is hard.** Not the single steps but their order: removing files,
committing the database and extracting files are three phases, and the process
may be killed in each of them, on each file; a flag is set by one pass and
overwritten by the next; the list in memory outlives one package of the command
line; the file system is edited by its user between any two command lines; the
database is replaced while others read it, and the power may fail. The hazards,
each at its line, are in `PROJECT.json`.

**What makes it correct.**

- database: one writer; a reader sees one whole database; after a crash it is
  one that somebody committed; no update is lost;
- `pkgadd`, `pkgrm`: no file from a package drops out of the database; nobody
  removes or overwrites what belongs to others or to the user; protected files
  stay; the database changes by whole packages; each archive entry gets its own
  flag; an interrupted `pkgadd` can be repeated;
- `intersect_uniq`: the intersection, all of it and nothing else;
- `pkgmk`: a package it calls up to date is made from what the files hold, and
  its build did not fail, or was declared good; a spliced download is noticed;
  downloads end; no work directory stays;
- database text: what is read back is what was written, and of a file that was
  cut off, the packages that are whole;
- configuration: a line means its fields, a file its rules, in their order;
- linked list: one chain in both directions, no freed entry in anybody's hands,
  no walk that misses an entry because it deletes another;
- `pkginfo`: whatever changes meanwhile, it reports what was so at some time, and
  nothing that stayed as it was is passed over;
- `rejmerge`: no version of a file that it read goes before somebody decided
  about it.

## The modules

| Module | What it is |
|---|---|
| `PkgTools` | one `pkgadd` or `pkgrm` process at a time, the file system, the database file, kills, the user |
| `PkgToolsProps` | its properties, and the refinement mapping to `PkgRegistry` |
| `PkgRegistry` | the abstract specification: a set of installed packages, `Install`, `Remove` |
| `PkgToolsProofs` | theorems: the safety properties, and that `PkgTools` implements `PkgRegistry` |
| `MCPkgTools` | small instances of it |
| `DbAccess` | several processes, the lock, `db` and `db.new` as inodes, kills, power losses |
| `MCDbAccess` | its instance, with a view and symmetry |
| `Intersect`, `IntersectProofs` | `intersect_uniq` statement by statement; theorems about it |
| `PkgMk`, `PkgMkProofs`, `MCPkgMk` | one port directory: `pkgmk` runs and the user; theorems; its instance |
| `FetchLine`, `FetchLineProofs` | `fetch_line_fields` character by character, `read_config`; theorems |
| `DbFile` | the database as the lines `pkg_commit_db` writes and `pkg_read_db` reads |
| `DbProofs` | theorems about `DbAccess` and `DbFile` |
| `LinkedList`, `LinkedListProofs` | `list.c` on a heap, and its users' loops; theorems |
| `PkgInfo`, `PkgInfoProofs` | one `pkginfo` run while others change the file system; theorems |
| `RejMerge`, `RejMergeProofs` | one `rejmerge` run while others change the same files; theorems |
| `MCReaders` | the instances of the last five components |

### PkgTools

One action is one turn of a loop of the code, or the stretch of it between two
system calls that change something:

    StartAdd  AddError | AddDie | AddRefuse | AddAccept
              DelOldFile* AddCommit | CommitDie
              (SkipEntry | RejectEntry | InstallEntry | ExtractFails)*
              AddDone | ReadStops
              AddReturn | AddExit ... Finish
    StartRm   RmUnknown | RmStart RmFile* RmCommit ... Finish

- `fs` is what `lstat` and `stat` can tell: a directory or a file, its mode and
  owner (one value, `attr`), a symbolic link by what is behind it (directory,
  something else, nothing), and, for the properties, where the contents come
  from. `remove(3)` and `archive_read_extract` with the flags the code gives it
  are modelled from their use: a directory is removed only when empty, something
  else in the way of an entry is unlinked first, a directory that is there takes
  the mode of the entry, a link to a directory stays.
- `pkg_db` is `pkg_db`, `pkg` the new package until it is in the list, `disk`
  what a reader of the database file gets. A list from which the code only
  deletes is the set of its entries, each with the position it was appended at;
  so "from the tail" is the largest position left.
- The flags accumulate on the packages in memory, in the order of
  `adjust_with_db`. Where two packages list a path, `intersect_uniq` reports one
  of them, whichever `qsort` put first: a choice (`Hits`).
- `cwd` and `root` are there because `pkg_commit_db` opens its path after the
  `chdir`.
- `ReadStops` ends the second reading of the archive before any entry: it cannot
  be opened again, or a header is damaged. `do_archive` returns -1 and `pkg_add`
  does not look: the flags are cleared and it returns as if all were there.
  `next` keeps the place, so `AllEntriesAccounted` speaks of the entries before
  it. Those behind are registered and not installed, reported or rejected.
- `Crash` is possible at any point of a process, and stands for the `abort()`s
  of the code too. What is in memory is lost, all else stays.
- The user acts while no tool runs: puts, replaces and removes files. What
  changes between the checks of a process and its extraction is not modelled;
  the code has no defence there.

History variables: `leftover` (what "Can't remove" was said of and no package
has registered since), `oldPaths`, `failed`.

### DbAccess

A database is the set of the packages in it; files are inodes, so that a reader
keeps the one it opened. `Create` truncates a `db.new` that a killed process
left, `Write` adds package by package and may fail without anybody noticing,
`Sync` is the `fsync`, `Rename` the replacement. `PowerLoss` takes the
directory back to an earlier state and loses of every inode some of what was
not synced. The descriptor of the lock is inherited by `ldconfig`, so a killed
writer may leave the lock to its `"child"`.

### Intersect

`i`, `j`, `next` and `cmp` are the variables of the C function; the two ways it
is called (`intef`, for conflicts and references; `uniqf`, for `pkginfo -O`) are
both initial states.

### PkgMk

A run goes through the stages of the script, so that signals and edits fall
between them:

    Start  Refused | Clean | UpdateFootprint | IsUpToDate | NotNeeded | Downloads
           (SourceThere | FetchStarts (NextDepot | Restarts)* FetchSucceeds)*
           SourceMissing | GivesUp | Downloaded
           Prepare CheckMd5sum Unpack Build TarStarts TarEnds CheckFootprint
           Succeeds | Fails, Install

- Times are only ever compared by `[ $TARGET -nt $FILE ]`, so `stale` is the set
  of files the package is not newer than: an edit puts the file in, `tar` and
  `touch` empty it, `touch -r Pkgfile` puts the Pkgfile in.
- Contents are versions. A `.partial` holds the start of one; `wget -c` goes on
  with what the server has now, and makes `Mixed` of two. Servers may have any
  version at any time, and their dates may be older than the package.
- `target.state` is `"unfinished"` from the first byte of `tar` to the end of
  `build_package`, then `"ok"` or `"failed"`. A build that fails marks the
  package file there is, also one of an earlier build that it never reached.
  `-uf` leaves the state as it is and sets `declared`, which the next build
  clears: "treat last build as successful" (`man/pkgmk.8.in:41`) makes a failed
  package current without a build, and `FailedIsRebuilt` names it. Whether a
  footprint matches is a choice.
- `Interrupted` is the trap, at any point of a run. The history variable
  `hidden` has the files whose change no time shows.
- `-r` (runs in other directories, whose failures it ignores), an edit of the
  Pkgfile that renames the package, two runs at once and a kill that is not
  trapped are left out; so are `strip_files` and `compress_manpages`, whose
  results `build_package` does not look at.

### FetchLine

The buffer with the positions `i` (read) and `j` (written), `n`, `esc` and
`quo` are the variables of the C function, an action a turn of its loop.
Characters are strings; `"U"` and `"I"` stand for the words UPGRADE and
INSTALL, since the parser does not tell letters apart. The second half of the
module says what a line means by its text alone, without positions or flags,
and by counting instead of recursion, so that it can be reasoned about: a
character is escaped behind an odd number of backslashes, and inside behind an
odd number of quotes that are not escaped. The two agree but for lines the code
reads in a way of its own, which no document describes and which the properties name: an indented
line (its blanks count as a field, so that a rule becomes one of four fields
and `pkgadd` aborts), a blank as the last character of a file without a final
newline, a first field with nothing but blanks, `#`, quotes and backslashes in
it, and a backslash before a blank or `#` between quotes (which stays in force
for the character after it). Lines longer than the buffer are left out.

### DbFile

The text is a sequence of lines: a word, perhaps a slash behind it, and a
newline (`ended`) unless the writing stopped there. `SortDb` is what `qsort`
promises: the same packages, in an order `pkg_cmp` agrees with. `WritesFail`
cuts the text at any line, or within one (`Cut`), because nobody looks at the
results of `fputs`, `fflush` and `fclose`; a disk that is full stays full. The
reader's `pkg` may be 0 (`NULL`) or an old package, as in the C code. `Brim`
has the directories whose line, with its slash, leaves no room for the newline
in a buffer of `MAXPATHLEN`: `newline` says that the next `fgets` gets just
that, an empty line, which ends the record. `ReadsWholePackages` holds up to
the first such package; from there on the database is misread. Other lines
longer than the buffer are left out.

### LinkedList

The heap is the functions `next`, `prev` and `data`; freed entries hold `Junk`
and are handed out again by the next insertion. The actions are the functions
of `list.c` in the ways they are used: deletion within `list_for_each` (`i =
i->prev; list_delete(i->next)`), within `list_for_each_r`, before a `break`,
and through the array of pointers in `delete_refs`; `sort_db`, which exchanges
data and not entries; `list_free`. `order`, `before` and `visited` say what the
list should be, what it was when a walk began, and what the walk met.
`ListIsChain` is what lets `PkgTools` use a set of entries with positions for a
list.

### PkgInfo

`-m` is one `lstat` after the other, `-O` a depth-first walk with the open
directories as `frames`. POSIX leaves open whether `readdir` returns what comes
or goes while a directory is open: `may` has those entries, `must` the ones
that were there all the time. `lstat` and `opendir` answer `ENOENT`, `ENOTDIR`
or `EACCES`, and the code dies or goes on accordingly. What `find_orphans` does
with the list is taken from `Intersect`, including the orphans it hides behind
the last path of the database. `-i`, `-l`, `-o`, `-f` and the order in which
`main` asks for options are single steps. Symbolic links on the way to a path,
file systems that give no `d_type`, and layout are left out. `was` is history.

### RejMerge

The actions are the tests of `main` and the answers of the four menus; showing
`TMPFILE` again changes nothing and is left out. A test and the `rm` or the menu
behind it are steps of their own, and so are the `mv` and the `rm` of a merge:
`pkgadd`, the user and signals may come between any two of them. `seen` is what
was in the rejected file when `cmp`, `diff` or `file` last read it (or `-e`
passed it), `fresh` what `pkgadd` rejected there since. An answer to keep or to
install a merge counts for `seen` alone, while the `rm` takes what is there.

`NothingLostUnasked` names what the script may lose. `missed` has the versions
that an `rm` took though they were rejected after the last read: between `-e`
and `rm`, between `cmp` and `rm`, between a menu's question and its answer, or
during a merge up to its `rm`. A merge whose `mv` fails on a full disk is lost
with the rejected version, and counts as `answered`. Everything else an `rm`
takes must be settled by the test or the answer in front of it.

A text is the set of the versions in it, so a merge
is a union; `mv` onto a directory moves into it; `chmod` follows links; `-e`
finds no link that leads nowhere. With `full`, what is written to `TMPFILE` is
lost and `mv` may fail. The owner of a file goes with its mode, except that a
merge belongs to whoever runs `rejmerge`. The removal of empty directories is
left out.

## What TLC checks

| Run | Bounds | What it shows |
|---|---|---|
| `core` | packages A (two versions) and B, paths `d`, `d/f`, `g`, `h`, one package per command line, no stuck paths, all options, an absolute root | the ten properties of `pkgadd` and `pkgrm` across kills and edits (504,855 states) |
| `series` | up to two packages per command line, versions a1 and b1, `d/f` stuck, absolute and relative root, fairness | what one package leaves in memory does not spoil the next; every run ends (127,220 states) |
| `intersect` | keys 1..4, arrays of up to four entries | intersection, no false orphan, every orphan up to a match with the last path of the database, bounds, end (21,978 states) |
| `dbaccess` | two processes, two packages, four inodes | lock, atomicity, whole reads, no lost update (about 572,000 states) |
| `pkgmk` | one source with a URL, one depot, two versions, ten command lines | what `build_needed` calls current is current and did not fail or was declared good, whatever signals, edits and failures came before (2,355,965 states) |
| `readers` | every line of up to five characters of six, and longer ones; two packages of up to two files; four list entries; five paths, two changes of the file system; two rejected files, three versions, one change by others | the parser takes lines as they are meant and stays within them; a database that was cut off gives whole packages; the list is a chain and walks are complete; `pkginfo` reports what was seen; `rejmerge` loses nothing it read unasked (464,158 states) |

The instance of `core` has what the code distinguishes: a directory shared by
two packages with different modes, a directory that becomes a file in the next
version, a path that is a directory in one package and a file in another, a
file that both have, a path the INSTALL rules exclude, one they exclude and
then include again, one the UPGRADE rules protect and one they do not, the
user's files, directories and links in the place of either. Two packages
suffice for ownership: the code compares a package with all others at once. Two
packages per command line suffice for what stays in memory, since each one
starts from the memory the previous one left. In `dbaccess` an inode is needed
for `db`, its predecessor, `db.new` and each descriptor; unreferenced inodes
are overwritten before they are read, which is why the view may leave them out.
Nothing in `DbAccess` tells processes, packages or inodes apart, so the
symmetry is sound for the invariants; `NoLostUpdate` is a property of single
steps and is symmetric too. In `pkgmk` the Pkgfile stands for the sources
beside it, which are edited and compared the same way; the command lines have
each option alone, and together those that change each other; versions are
interchangeable, and no property of the run is temporal beyond single steps.
Bounds: `MaxArgs` (packages per command line), `MaxSize` (entries of an array);
`MaxChanges` and `MaxUpdates` (changes by others while `pkginfo` or `rejmerge`
runs); all else is finite by itself, or by the sets of inputs in `MCReaders`.

`readers` checks five machines that share nothing: in each behaviour one of
them runs and the others rest. The parser's state is two flags and two
positions, and each separator, quote or escape that could follow another fits
into five characters; the longer lines are rules. A record of the database is
ended or not: two packages show what the end of one does to the next. Four
entries are enough for a neighbour on both sides of an entry that goes and one
to be reused; the entries are alike, so the symmetry is sound for the
invariants, which is all the run checks. Two changes let a directory become a
file, or something come back. One change between two commands of `rejmerge` is
what it takes to lose a version; the theorem is for any number. The second
rejected file shows what `TMPFILE` carries over. Deadlock is not checked there: each machine is a process that
ends.

Every property has a mutant in `PROJECT.json`: an edit of an action, such as a
programming slip might make, that TLC refutes. The mutated forms stand before
the definitions they replace and are not used otherwise.

**Fairness.** `FairSpec` of `PkgTools` has weak fairness of the process's own
steps: it never waits for anybody once it has the lock. Kills, edits and new
command lines are not fair. `FairSpec` of `Intersect` says that a loop goes on.
`DbAccess` states no liveness: a writer that finds the lock taken gives up.
Neither do the machines of `readers`. Nor does `PkgMk`: that downloads end is
shown by a measure each failure lowers (`DownloadsEnd`), and the other stages
follow one another.

### What does not hold

Six runs show that the code does not do what it says:

| Run | Claim | What happens |
|---|---|---|
| `takeovers_announced` | comment, `src/libpkgadd.c:259-260` | a package takes a path from another one, which has a directory there, without `-o`, if the version it replaces had the path: `self_conflict` overwrites `CONFLICT_DB`. The trace adds a2 (file `d`) and then b1 (directory `d`), each killed after its commit, and a2 again |
| `perms_force_keeps_files` | `man/pkgadd.8.in:20-27` | `-p` alone destroys a user's file in the place of a directory |
| `accepted_is_committed` | `man/pkgadd.8.in:43-45` | with a relative `--root` the database cannot be opened any more, after the old files are gone |
| `failure_returned` | comment, `src/libpkgadd.c:477` | `pkg_add` returns 0 when entries failed to extract |
| `intersect_orphans` | `man/pkginfo.8.in:26-27` | `pkginfo -O` stops reporting after a match with the last path of the database: `cmp` is stale |
| `pkgmk_installs` | `man/pkgmk.8.in:22-23` | a signal while `tar` writes the package leaves it there, newer than its sources: the next `pkgmk -i` installs it without a build |

That is why `FailedIsRebuilt` says nothing of a package that a signal left
unfinished, why
`UserFilesSafe` makes an exception for `-p` where a directory comes, and why
`PkgRegistry!MayLose` lets a package lose a path to a version that had it
before.

## What is proved

Every property that a passing run checks is also a theorem, for every value of
the constants, but for those listed under "Only model-checked". The theorems
assume what the modules assume, and nothing else:

- `PkgTools`: tar archives name a directory before what it holds and no path
  twice; the ancestor relation is transitive and irreflexive; the user's files
  are the user's.
- `PkgInfo`: no directory is below itself, said of sets (a set of paths that is
  not empty has one whose parent is not in it), because names in a file system
  are finite; packages list paths; a file system at the start is a tree.
- `PkgMk`: "there is none" is no package and no `.md5sum`, and versions are not
  the marks for empty and mixed files.
- `RejMerge`: a rejected file is a file or link of one version, as `pkgadd`
  writes them, or none.
- `DbAccess`, `FetchLine`, `Intersect`, `LinkedList`: what the constants are.

**PkgToolsProofs.** The inductive invariant `IInv` has a conjunct for each thing
the code relies on without saying so. Each was needed by some property:

- `Typed` (`TypeCorrect`), `UniqueNames` (`NamesAreUnique`).
- `Tracked` gives `FilesAreTracked`. `NothingForgotten` is not inductive: it
  speaks of the database file while the process changes files according to its
  copy in memory. `Tracked` adds, for each place, where the paths of the files
  from packages are: with no package in work the copy lists what the file lists
  and has no flags (`Synced`); while the old version is removed, every such path
  is in the list that will be committed (`Kept`), still in the old version's
  list, or reported, and a flagged old path is in `Kept`; during the extraction
  the file lists the whole archive; during a removal the path is registered by
  another package, still in the list, or reported. `AddRefuse` breaks `Synced`,
  and the invariant says why that is harmless: a blocking result ends the
  process.
- `Descriptions`: a package in memory or in the file has an archive's paths in an
  archive's order, each at its own place. It gives `LeftoversAreNeeded`, since
  removal goes from the tail, `RepeatingIsFree`, and that file lists are finite.
- `Copied`: what the list in memory is a copy of. With no package in work, of
  the database file; while the old version is removed, of the file with the
  flags of this package, less the paths removed so far; after the commit, of
  what was written. `Tracked` compares paths, `Copied` whole packages. It gives
  `OnlyOwnersRemove` (what is removed has no other owner in the *file*, though
  the code asks the list) and the steps of the refinement.
- `Rooted`: what exists lies in directories or links to them. `archive_read_extract`
  and `remove` keep it, the user keeps it. Without it nothing says that an
  entry replaces only what is at its own path.
- `Known`: of each entry not yet extracted, that the flags of its path were
  acted on: if something of the user's, or protected, is in its way, then
  `report_conflicts` let it pass, under `-o` or `-p`, or the old version had the
  path. It gives `UsersKeepTheirFiles` and `RulesProtectFiles`, with
  `TouchedIs`, which says what the extraction of one entry may change.
- `WalkedSoFar` gives `EntriesAreAccounted`: each entry before `next` is
  installed, rejected or failed, also when the reading stopped at `next`.

`DatabaseImplementsRegistry` is the refinement of `PkgRegistry` through the
mapping in `PkgToolsProps`, step by step: `AddCommitInstalls` and
`RmCommitRemoves` show that a commit is `Install` or `Remove` of the registry,
`RegistryStep` that every other step leaves it as it is. An `Install` says which
packages may lose which paths (`MayLose`), and that needs `CopyAtDel`: a path
`cleanup_pkg_db` takes from a package was flagged by `adjust_with_db` against
the same database that is now replaced, and was not refused.

The action properties follow from `IInv` at each step (`Standing`).

`EveryStepCounts` is the part of `EachRunEnds` that does not need fairness: every
step of the process lowers `Countdown`, a triple of naturals: the arguments left,
how far the operation on the first of them has come, and the entries left of
the list or archive it goes through. The order `Below` on triples has no infinite
descent. That each turn of `del_old_pkg` and `remove_from_fs` leaves one place
less needs `Descriptions`: two entries at one place would count once.

**The other components.**

- **DbProofs**, access — `OneWriter`, `DbIsAtomic`, `ReadsAreWhole`,
  `UpdatesAreKept`, `TypeCorrect`, for any number of processes, packages and
  inodes. The invariant: the inodes of `db`, of a `db` that a power loss may
  bring back and of every open descriptor hold what was meant for them, synced;
  `db.new` is none of them; the holder of the lock knows the database as it is
  (`Knowledge`) or off by one package (`OneOff`).
- **DbProofs**, text — `DbFileTypes`, `WholePackagesRead`, for any database of any
  size. `Laid` says where in the text each package begins (`start`), and that
  behind the last one written completely no line is empty. The reader is `InStep`:
  it is in the r-th record, has appended the r - 1 packages before it, and made
  of the lines read what they say (`Partial`). The only way out is a line whose
  newline is left behind (`OutOfStep`): then the packages before stay as they are,
  because `pkg` is never one of them again. At the end of the text a reader in
  step can only be behind the last complete record. `InOrder` and `NamesOnce`
  give the order, whatever `qsort` does with equals.
- **IntersectProofs** — `ReportsIntersection`, `ReportsNoFalseOrphan`,
  `ReportsOrphansUpToLast`, `TypeCorrect`, for arrays of any size. The
  invariant: everything of the second array before `next` is smaller than what
  is left of the first, or equal to entries already reported. The third theorem
  says exactly when orphans are hidden: `Unique` adds that `cmp` is still 0 at
  the end of the second array only if its last entry was matched.
  `EveryTurnCounts` is the variant of its nested loops, as in `PkgToolsProofs`.
- **PkgMkProofs** — `PkgMkTypes`, `FailedPackagesRebuilt`,
  `UpToDatePackagesCurrent`, `MixedSourcesNoticed`, `WorkRemovedAtExit`,
  `DownloadsRunOut`, for any sources, versions, depots and command lines. A
  failed package stays not newer than the Pkgfile (`FailedIsStale`) unless `-uf`
  declared it good, which is what `touch -r` is for. Each file that is there is what the package was made
  from, or stale, or its change is hidden (`MadeFromFiles`): an edit while
  `tar` runs, or between a build and its end, is what could break it.
  `Unread` and `Summed`: what is unpacked was compared with `.md5sum` in this
  run, and it is what is built.
- **PkgInfoProofs** — `InfoTypes`, `MissingReported`, `OrphansReported`, for any
  paths and any number of changes. `was` grows, has the present in it, and
  what was once there had directories above it (`Past`); that gives the first
  half. `MissingReported` needs `LookedAt`: what `-m` has passed was seen, and
  what it printed was missing. For `-O`, the open directories lead down from the
  root (`Chain`), and what stayed all the time in an open one is among what
  `readdir` must still return, or was found (`FramesOK`). `Walk` then says that
  a path that was there all the time and can be reached is found or lies
  below what is still ahead: an entry to be read, a directory to be opened. At
  the end nothing is ahead. That a path not found would have a topmost ancestor
  not found is where the assumption on `Parent` is used.
- **RejMergeProofs** — `RejMergeTypes`, `NoRejectedVersionLost`, for any files,
  versions and changes by others. The history sets have the present in them
  (`Noted`). What an `rm` takes was tested or asked about some steps before, and
  `pkgadd` may have changed both files since. `ReadOrFresh` says that while a
  menu waits each version of the rejected file was read or is fresh, `RmSettles`
  that in front of an `rm` each is installed, given up, written over, found
  without an installed file, or fresh.
- **FetchLineProofs** — `ParserStaysInLine`, `LinesAsMeant`, `FileAsMeant`, for
  files of any number of lines, of any length, over any characters. The parser
  writes into the line that it reads: `j <= i <= size`, and what is ahead of `i`
  is still what `fgets` put there, so that the end of the line is found before
  the end of the buffer. What it has written (`Scanned`): the k-th character of
  the line, if it is text or ends a field, stands at `Place(t, k)`, the number
  of those before it that were written too; `n` is the number of NULs written,
  and one more once the first field has a letter; `quo` and `esc` are the
  parities by which the meaning of the line is defined. A turn of the loop adds
  one character to all three (`TurnScanned`); what each action does with its
  character is a lemma of its own (`SeparatorTurns`, `QuoteTurns`, ...). It is
  here that an escaped blank between quotes and a blank at the end of the file
  must be excluded: `QuotedText` leaves `esc` set, and `Separator` writes a NUL
  when the end of the line follows. From the buffer to the fields: up to the
  next NUL stands the text of one field, character by character
  (`FieldSpells`, `FieldEnds`), the next field begins behind it (`NextPlace`),
  and there is one NUL for each field before it (`FieldsInRow`). `NumberMeans`
  says why the first field needs a letter. For the file, `RulesOK`: the rules are
  those of the lines that are dealt with, in their order; an indented line gives
  an empty first string, which is no event (`IndentedMeans`). Ranks in a finite
  set (`RankTaken`, `NthIs`, `NthLast`) stand for the inductions: a
  counterexample would have a least one (`Least`).
- **LinkedListProofs** — `ListStaysChain`, `NoFreedEntryHeld`,
  `WalksAreComplete`, for any heap. The chain is stated by places: `At(k)` is
  the head, the k-th entry or the tail. An insertion moves the places behind it
  up by one, a deletion down (`InsertLinks`, `WithoutFacts`, `DeleteLinks`). Of
  a walk the invariant says at which place its cursor is, and that what it met
  and what lies before it are together the entries there were (`ForwardAt`,
  `BackwardAt`). While the list is freed only its forward half holds
  (`FreeingOK`).

**Only model-checked:**

- `EachRunEnds` and `Stops`: that a step which can be taken is taken, and that one
  can be taken until the end, is fairness and `ENABLED`, out of the prover's
  reach. That there are only finitely many steps to take is proved
  (`EveryStepCounts`, `EveryTurnCounts`).
- `TypesOK` of the run `readers` is the conjunction of three type invariants, each
  of which is a theorem (`DbFileTypes`, `InfoTypes`, `RejMergeTypes`).

## What is not modelled, and why

- `pkginfo`'s output, usage texts, `mode_string` and the dispatch on the
  program's name decide nothing.
- `pkgmk -r` starts `pkgmk` in other directories and ignores how they end: each
  of them is a run of `PkgMk`. An edit of the Pkgfile that renames the package
  leads to another package file, as a new directory would. Two `pkgmk` in one
  directory and a kill that is not trapped are left out: the script has no
  defence. `strip_files` and `compress_manpages` change files whose contents
  the model does not distinguish.
- Memory that cannot be allocated ends a process (`abort`), like a kill.
- What changes between the checks of `pkgadd` and its extraction: no defence
  either.

## Plan

All components that decide something are modelled, and every safety property is
proved. What is left to model is what "What is not modelled, and why" names.
