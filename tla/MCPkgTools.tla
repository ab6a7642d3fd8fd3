----------------------------- MODULE MCPkgTools -----------------------------
(***************************************************************************)
(* Small instances of PkgTools for TLC. Package A has two versions: a1 has *)
(* a directory d with a file f in it, a2 has a file where d was. Package B *)
(* shares d with a1, with another mode, has a file where a1 has the        *)
(* directory g, and shares h, which the configuration excludes, with a2.   *)
(***************************************************************************)
EXTENDS PkgToolsProps

CONSTANTS A, B, a1, a2, b1, bad, user, nopkg

MCPath == {"d", "d/f", "g", "h"}
MCAnc == [p \in MCPath |-> IF p = "d/f" THEN {"d"} ELSE {}]

dir(p, x) == [path |-> p, kind |-> "dir", attr |-> x]
file(p) == [path |-> p, kind |-> "file", attr |-> "x"]
MCEntries ==
    [a \in Archive |->
        CASE a = a1 -> <<dir("d", "x"), file("d/f"), dir("g", "x")>>
          [] a = a2 -> <<file("d"), file("h")>>
          [] a = b1 -> <<dir("d", "y"), file("g"), file("h")>>]
\* For the series of packages on one command line: nothing but d in a1.
SeriesEntries == [MCEntries EXCEPT ![a1] = <<dir("d", "x"), file("d/f")>>]
\* The directory is all that A and B share.
OnlyDirEntries == [MCEntries EXCEPT ![b1] = <<dir("d", "y")>>]

MCNameOf == [a \in Archive |-> IF a = b1 THEN B ELSE A]

MCRules ==
    <<[type |-> "UPGRADE", match |-> {"g", "d/f"}, yes |-> FALSE],
      [type |-> "INSTALL", match |-> {"g", "h"}, yes |-> FALSE],
      [type |-> "INSTALL", match |-> {"g"}, yes |-> TRUE],
      [type |-> "UPGRADE", match |-> {"d/f"}, yes |-> TRUE]>>

users(k) == [kind |-> k, attr |-> "x", src |-> user]
MCUserNodes ==
    [p \in MCPath |-> CASE p = "d" -> {users("dir"), users("file"), users("dirlink"), users("deadlink")}
                        [] p \in {"d/f", "g"} -> {users("file")}
                        [] OTHER -> {}]
\* For the series: fewer edits in between.
FewUserNodes == [p \in MCPath |-> IF p = "g" THEN {users("file")} ELSE {}]

NoneStuck == {}
FStuck == {"d/f"}
=============================================================================
