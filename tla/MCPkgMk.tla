------------------------------ MODULE MCPkgMk ------------------------------
(***************************************************************************)
(* Instance of PkgMk for TLC: a Pkgfile, one source with a URL, one depot. *)
(***************************************************************************)
EXTENDS PkgMk, TLC

\* Each option alone, and those that change each other.
MCOptionSets ==
    {{}, {"-c"}, {"-uf"}, {"-um"}, {"-do"}, {"-utd"}, {"-d", "-i"},
     {"-f", "-kw"}, {"-cm"}, {"-d", "-im", "-if"}}

Symmetry == Permutations(Version)
=============================================================================
