----------------------------- MODULE MCReaders -----------------------------
(***************************************************************************)
(* Instance for TLC of the five machines that read or keep what the others *)
(* decide on: the configuration, the text of the database, the linked      *)
(* list, pkginfo and rejmerge. One of them runs, the others rest.          *)
(***************************************************************************)
EXTENDS FetchLine, DbFile, LinkedList, PkgInfo, RejMerge, TLC

VARIABLE runs    \* the machine that runs

allVars == <<runs, fetchVars, dbfVars, listVars, infoVars, rejVars>>

\* pkgadd.conf: every line of up to four characters, with a newline and
\* without, those of five with a newline, and files with longer lines.
Chars == {"U", "Y", " ", "\"", "\\", "#"}
AllChars == Chars \cup {"\n", "\t", "I", "x", "("}
Texts(max) == UNION {[1..k -> Chars] : k \in 0..max}
RuleQuoted == <<"I", "\t", "\"", "x", " ", "#", "\"", " ", "Y", " ", "#", "U", "\n">>
RuleEscaped == <<"U", " ", "\"", "\\", "\\", "Y", "\\", "\"", "\"", " ", "x", "\n">>
RuleNot == <<"U", " ", "(", " ", "Y", "\n">>
RuleUnknown == <<"x", " ", "x", " ", "Y", "\n">>
TooMany == <<"U", " ", "x", " ", "Y", " ", "Y", "\n">>
Files == {<<t>> : t \in Texts(4)} \cup {<<Append(t, "\n")>> : t \in Texts(5)}
         \cup {<<s, t>> : s \in {RuleQuoted, RuleEscaped, <<"#", "\n">>},
                          t \in {RuleQuoted, RuleNot, RuleUnknown, TooMany, <<"\n">>}}
         \cup {<<>>}
Regexes == {<<"(">>}

\* Databases of up to two packages with up to two files each.
FileOf(p, d) == [path |-> p, dir |-> d]
AnyFile == {FileOf("p", FALSE), FileOf("p", TRUE), FileOf("long", TRUE)}
Package(id) == [name : {id}, version : {"1"}, files : UNION {[1..k -> AnyFile] : k \in 0..2}]
Memories == {<<>>} \cup {<<x>> : x \in Package("A")}
            \cup {<<x, y>> : x \in Package("A"), y \in Package("B")}
            \cup {<<x, y>> : x \in Package("B"), y \in Package("A")}
Names == <<"A", "B">>
Words == {"A", "B", "1", "p", "long"}

\* A small tree with a locked and an excepted directory.
Paths == {"a", "a/b", "c", "c/d", "e"}
ParentOf == [p \in Paths |-> CASE p = "a/b" -> "a" [] p = "c/d" -> "c" [] OTHER -> "/"]
KeyOf == [p \in Paths |-> CASE p = "a" -> 1 [] p = "a/b" -> 2 [] p = "c" -> 3
                            [] p = "c/d" -> 4 [] OTHER -> 5]
Asks(o, x) == [opts |-> o, arg |-> x]
Asked == {Asks({"m"}, ""), Asks({"O"}, ""), Asks({"i", "m"}, ""), Asks({}, ""), Asks({"l"}, "A"),
          Asks({"l"}, "archive"), Asks({"l"}, "Z"), Asks({"o"}, "a/b"), Asks({"f"}, "archive"),
          Asks({"f", "O"}, "a"), Asks({"h", "m"}, ""), Asks({"?"}, "")}
Pkg(id, f) == [name |-> id, files |-> f]
Dbs == {<<>>, <<Pkg("A", <<"a", "a/b">>)>>, <<Pkg("A", <<"a">>), Pkg("B", <<"c", "c/d">>)>>,
        <<Pkg("A", <<"a", "a/b">>), Pkg("B", <<"a", "e">>)>>}
Trees == {d \in [Paths -> Kind] : /\ d["c/d"] # "dir" /\ d["a/b"] # "dir" /\ IsTree(d)}
NoFiles == [p \in Paths |-> "absent"]

\* Two rejected files, one of them with all there can be at its place.
Rejected == {"f", "g"}
Contents == {"v1", "v2", "v3"}
PutThere == {Nothing, Thing("link", {}, NoMode), Thing("file", {"v1"}, 1), Thing("file", {"v2"}, 1),
              Thing("file", {"v2"}, 2), Thing("link", {"v2"}, 1), Thing("dir", {}, 1)}
Rejections == {Thing("file", {"v2"}, 1), Thing("link", {"v2"}, 1)}
Pair(x, y) == [f \in Rejected |-> IF f = "f" THEN x ELSE y]
Afresh(x, y, z) == [inst |-> Pair(x, Thing("file", {"v1"}, 1)), rej |-> Pair(y, z)]
RejStarts == {Afresh(x, y, Nothing) : x \in PutThere, y \in Rejections}
             \cup {Afresh(Thing("file", {"v1"}, 1), y, Thing("file", {"v3"}, 1)) : y \in Rejections}
NothingRejected == [inst |-> Pair(Nothing, Nothing), rej |-> Pair(Nothing, Nothing)]

Init ==
    /\ runs \in {"config", "dbfile", "list", "pkginfo", "rejmerge"}
    /\ IF runs = "config" THEN FetchInit ELSE FetchStart(<<>>)
    /\ IF runs = "dbfile" THEN DbfInit ELSE DbfStart(<<>>)
    /\ ListInit
    /\ IF runs = "pkginfo" THEN InfoInit ELSE InfoStart(Asks({}, ""), <<>>, NoFiles)
    /\ IF runs = "rejmerge" THEN RejInit ELSE RejStart(NothingRejected, FALSE)

Next ==
    /\ UNCHANGED runs
    /\ \/ runs = "config" /\ FetchNext /\ UNCHANGED <<dbfVars, listVars, infoVars, rejVars>>
       \/ runs = "dbfile" /\ DbfNext /\ UNCHANGED <<fetchVars, listVars, infoVars, rejVars>>
       \/ runs = "list" /\ ListNext /\ UNCHANGED <<fetchVars, dbfVars, infoVars, rejVars>>
       \/ runs = "pkginfo" /\ InfoNext /\ UNCHANGED <<fetchVars, dbfVars, listVars, rejVars>>
       \/ runs = "rejmerge" /\ RejNext /\ UNCHANGED <<fetchVars, dbfVars, listVars, infoVars>>

Spec == Init /\ [][Next]_allVars

-----------------------------------------------------------------------------
\* Type correctness of the database text, pkginfo and rejmerge.
TypesOK == DbTypeOK /\ InfoTypeOK /\ RejTypeOK

\* The entries of the heap are alike.
Symmetry == Permutations(Node)
=============================================================================
