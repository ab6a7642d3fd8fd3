------------------------------ MODULE DbFile ------------------------------
(***************************************************************************)
(* The database as text (src/src/libpkgdb.c): pkg_commit_db sorts the      *)
(* packages and writes them, a name, a version, a line for each file and   *)
(* an empty line; pkg_read_db reads that back with a buffer of MAXPATHLEN  *)
(* characters and a count of lines.  The text is a sequence of lines: a    *)
(* word, perhaps a slash behind it, and a newline unless the writing ended *)
(* there.  A disk that is full stays full, and nobody looks at the results *)
(* of the writes.                                                          *)
(***************************************************************************)
EXTENDS Integers, Sequences

CONSTANTS
    Word,       \* names, versions and paths
    PkgDbs,     \* what pkg_db may be: sequences of packages
    NameOrder,  \* the names as strcmp orders them, a sequence
    Brim        \* the directories whose line, with its slash, fills the buffer

FileEntry(W) == [path : W, dir : BOOLEAN]
DbPackage(W) == [name : W, version : W, files : Seq(FileEntry(W))]

\* No name, version or path is empty; a name is there once.
ASSUME PkgDbsAssumption ==
    /\ "" \notin Word
    /\ NameOrder \in Seq(Word)
    /\ \A d \in PkgDbs :
        /\ d \in Seq(DbPackage(Word))
        /\ \A k \in DOMAIN d : \E m \in DOMAIN NameOrder : NameOrder[m] = d[k].name
        /\ \A k, m \in DOMAIN d : d[k].name = d[m].name => k = m

VARIABLES
    given,      \* pkg_db as the writer has it
    text,       \* the file
    flushed,    \* how many packages are in it completely
    pos,        \* the lines fgets has come to the end of, but for the newline,
    newline,    \* which it has still to read if the buffer was full
    cnt,        \* lines of the record
    made, pkg,  \* the packages allocated, and the one in work (0: NULL)
    pkg_db,     \* the packages appended, by their place in made
    dpc

dbfVars == <<given, text, flushed, pos, newline, cnt, made, pkg, pkg_db, dpc>>

DbfStart(d) ==
    /\ given = d /\ text = <<>> /\ flushed = 0
    /\ pos = 0 /\ newline = FALSE /\ cnt = 0 /\ made = <<>> /\ pkg = 0 /\ pkg_db = <<>>
    /\ dpc = "sort"
DbfInit == \E d \in PkgDbs : DbfStart(d)

-----------------------------------------------------------------------------
WriterRest == UNCHANGED <<pos, newline, cnt, made, pkg, pkg_db>>

\* pkg_cmp goes by the names.
Rank(p) == CHOOSE k \in DOMAIN NameOrder : NameOrder[k] = p.name

\* sort_db: qsort puts the packages into an order pkg_cmp agrees with.
SortDb ==
    /\ dpc = "sort"
    /\ \E from \in [DOMAIN given -> DOMAIN given] :
        /\ \A k, m \in DOMAIN given : from[k] = from[m] => k = m
        /\ given' = [k \in DOMAIN given |-> given[from[k]]]
    /\ \A k, m \in DOMAIN given : k < m => Rank(given'[k]) <= Rank(given'[m])
    /\ dpc' = "write"
    /\ UNCHANGED <<text, flushed>> /\ WriterRest

Got(w, slash) == [word |-> w, slash |-> slash, ended |-> TRUE]
Empty == Got("", FALSE)

PkgText(p) ==
    <<Got(p.name, FALSE), Got(p.version, FALSE)>>
        \o [k \in DOMAIN p.files |-> Got(p.files[k].path, p.files[k].dir)]
        \o <<Empty>>

\* One turn of the loop over the packages.
WritePkg ==
    /\ dpc = "write" /\ flushed < Len(given)
    /\ text' = text \o PkgText(given[flushed + 1]) /\ flushed' = flushed + 1
    /\ UNCHANGED <<given, dpc>> /\ WriterRest

\* What there may be of a line that was not written to its end: all but the
\* newline, or less.
Cut(line) == {[line EXCEPT !.ended = FALSE], [word |-> "cut", slash |-> FALSE, ended |-> FALSE]}

\* The disk is full, or the write fails: the rest of the text is not there,
\* and the last line may be cut, too; pkg_commit_db goes on.
WritesFail ==
    /\ dpc = "write" /\ flushed < Len(given)
    /\ LET t == PkgText(given[flushed + 1]) IN
       \E k \in 0..(Len(t) - 1) :
           \/ text' = text \o SubSeq(t, 1, k)
           \/ /\ k < Len(t) - 1
              /\ \E line \in Cut(t[k + 1]) : text' = text \o SubSeq(t, 1, k) \o <<line>>
    /\ dpc' = "read"
    /\ UNCHANGED <<given, flushed>> /\ WriterRest

Written ==
    /\ dpc = "write" /\ flushed = Len(given)
    /\ dpc' = "read"
    /\ UNCHANGED <<given, text, flushed>> /\ WriterRest

-----------------------------------------------------------------------------
\* A call of fgets: the next line, or the newline the last call had no room for.
Line == IF newline THEN Empty ELSE text[pos + 1]
EndsRecord(line) == line.word = ""
FillsBuffer(line) == line.slash /\ line.word \in Brim /\ line.ended
Reads ==
    /\ dpc = "read" /\ (newline \/ pos < Len(text))
    /\ pos' = IF newline THEN pos ELSE pos + 1
    /\ newline' = FillsBuffer(Line)
    /\ UNCHANGED <<given, text, flushed, dpc>>

RecordEndKeepsCount ==
    /\ Reads /\ EndsRecord(Line)
    /\ cnt' = cnt + 1 /\ pkg_db' = Append(pkg_db, pkg)
    /\ UNCHANGED <<made, pkg>>

\* An empty line: whatever package is in work goes into the list.
RecordEnd ==
    /\ Reads /\ EndsRecord(Line)
    /\ cnt' = 0 /\ pkg_db' = Append(pkg_db, pkg)
    /\ UNCHANGED <<made, pkg>>

ReadName ==
    /\ Reads /\ ~EndsRecord(Line) /\ cnt = 0
    /\ made' = Append(made, [name |-> Line.word, version |-> "", files |-> <<>>])
    /\ pkg' = Len(made') /\ cnt' = 1
    /\ UNCHANGED pkg_db

ReadVersion ==
    /\ Reads /\ ~EndsRecord(Line) /\ cnt = 1
    /\ made' = [made EXCEPT ![pkg].version = Line.word]
    /\ cnt' = 2
    /\ UNCHANGED <<pkg, pkg_db>>

ReadFile ==
    /\ Reads /\ ~EndsRecord(Line) /\ cnt >= 2
    /\ made' = [made EXCEPT ![pkg].files = Append(@, [path |-> Line.word, dir |-> Line.slash])]
    /\ cnt' = cnt + 1
    /\ UNCHANGED <<pkg, pkg_db>>

ReadEnd ==
    /\ dpc = "read" /\ ~newline /\ pos = Len(text)
    /\ dpc' = "done"
    /\ UNCHANGED <<given, text, flushed, pos, newline, cnt, made, pkg, pkg_db>>

DbfNext ==
    \/ SortDb \/ WritePkg \/ WritesFail \/ Written
    \/ RecordEnd \/ ReadName \/ ReadVersion \/ ReadFile \/ ReadEnd

DbfSpec == DbfInit /\ [][DbfNext]_dbfVars

-----------------------------------------------------------------------------
HasBrim(p) == \E k \in DOMAIN p.files : p.files[k].dir /\ p.files[k].path \in Brim
NoBrim(m) == \A k \in 1..m : ~HasBrim(given[k])

\* Type correctness.
ReadWord == Word \cup {"", "cut"}
DbTypeOK ==
    /\ dpc \in {"sort", "write", "read", "done"}
    /\ given \in Seq(DbPackage(Word)) /\ flushed \in 0..Len(given)
    /\ text \in Seq([word : ReadWord, slash : BOOLEAN, ended : BOOLEAN])
    /\ pos \in 0..Len(text) /\ newline \in BOOLEAN /\ cnt \in Nat
    /\ made \in Seq(DbPackage(ReadWord))
    /\ pkg \in 0..Len(made) /\ (cnt > 0 => pkg = Len(made) /\ pkg > 0)
    /\ pkg_db \in Seq(0..Len(made))

\* What pkg_read_db makes of the text pkg_commit_db wrote, cut anywhere: the
\* packages whose record is complete, each once, as they were, in the order of
\* their names, and of the others nothing.  Only a directory whose line fills
\* the buffer spoils that, from its package on: its newline ends the record.
ReadsWholePackages ==
    dpc = "done" =>
        /\ \A k \in 1..flushed : NoBrim(k) =>
               Len(pkg_db) >= k /\ pkg_db[k] = k /\ made[k] = given[k]
        /\ NoBrim(Len(given)) => Len(pkg_db) = flushed
        /\ \A k, m \in DOMAIN given : k < m => Rank(given[k]) < Rank(given[m])
=============================================================================
