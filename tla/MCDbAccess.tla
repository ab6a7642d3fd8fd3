----------------------------- MODULE MCDbAccess -----------------------------
(***************************************************************************)
(* Instance of DbAccess for TLC. Inodes: db, its predecessor, db.new and   *)
(* one for each process that has one open.                                 *)
(***************************************************************************)
EXTENDS DbAccess, TLC

\* What an inode held that nobody refers to any more is never read again:
\* Create, which takes it back into use, overwrites all of it.
Live(f) == [n \in InUse \ {None} |-> f[n]]
View == <<Live(data), Live(synced), Live(meant), InUse \cap spoiled,
          db, new, olddb, lock, pc, fd, mem, todo>>

Symmetry == Permutations(Proc) \cup Permutations(Pkg) \cup Permutations(Inode)
=============================================================================
