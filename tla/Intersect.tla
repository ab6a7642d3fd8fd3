----------------------------- MODULE Intersect -----------------------------
(***************************************************************************)
(* intersect_uniq (src/src/misc.c): one pass over two sorted arrays, which *)
(* reports what is in both (intef) or what is only in the first (uniqf).   *)
(* Every ownership decision of the tools is such a pass: new files against *)
(* the database, old files against the new, the files of a package that is *)
(* removed against the others, the file system against the database.       *)
(* Paths are integers, ordered as strcmp orders the paths.                 *)
(***************************************************************************)
EXTENDS Integers

CONSTANTS
    Key,        \* the paths
    MaxSize     \* bound: entries of an array

ASSUME KeyAssumption == Key \subseteq Int /\ MaxSize \in Nat

VARIABLES
    a, asz, b, bsz,     \* the arrays and their sizes
    uniqf,              \* is uniqf given (pkginfo -O), or intef?
    pc, i, j, next, cmp,
    hits,               \* the calls of intef so far: pairs of indexes
    uniqs               \* the calls of uniqf so far: indexes of a

args == <<a, asz, b, bsz, uniqf>>
vars == <<args, pc, i, j, next, cmp, hits, uniqs>>

\* The callers sort both arrays; no path is twice in one package, nor twice in
\* the file system, but several packages may list the same path.
Init ==
    /\ asz \in 0..MaxSize /\ bsz \in 0..MaxSize
    /\ a \in [0..(asz - 1) -> Key] /\ \A k, m \in 0..(asz - 1) : k < m => a[k] < a[m]
    /\ b \in [0..(bsz - 1) -> Key] /\ \A k, m \in 0..(bsz - 1) : k < m => b[k] <= b[m]
    /\ uniqf \in BOOLEAN
    /\ pc = "outer" /\ i = 0 /\ j = 0 /\ next = 0 /\ cmp = 1
    /\ hits = {} /\ uniqs = {}

OuterOneTooFar ==
    /\ pc = "outer"
    /\ IF i <= asz THEN j' = next /\ pc' = "inner" ELSE pc' = "done" /\ UNCHANGED j
    /\ UNCHANGED <<args, i, next, cmp, hits, uniqs>>

\* The head of the loop over a.
Outer ==
    /\ pc = "outer"
    /\ IF i < asz THEN j' = next /\ pc' = "inner" ELSE pc' = "done" /\ UNCHANGED j
    /\ UNCHANGED <<args, i, next, cmp, hits, uniqs>>

InnerSkipsOne ==
    /\ pc = "inner" /\ j < bsz
    /\ cmp' = b[j] - a[i]
    /\ \/ cmp' < 0 /\ j' = j + 1 /\ UNCHANGED <<next, pc>>
       \/ cmp' > 0 /\ next' = j + 1 /\ pc' = "after" /\ UNCHANGED j
       \/ cmp' = 0 /\ next' = j + 1 /\ pc' = "equal" /\ UNCHANGED j
    /\ UNCHANGED <<args, i, hits, uniqs>>

\* One turn of the loop over b: cmpf, and its three outcomes.
Inner ==
    /\ pc = "inner" /\ j < bsz
    /\ cmp' = b[j] - a[i]
    /\ \/ cmp' < 0 /\ j' = j + 1 /\ UNCHANGED <<next, pc>>
       \/ cmp' > 0 /\ next' = j /\ pc' = "after" /\ UNCHANGED j
       \/ cmp' = 0 /\ next' = j + 1 /\ pc' = "equal" /\ UNCHANGED j
    /\ UNCHANGED <<args, i, hits, uniqs>>

InnerEnds ==
    /\ pc = "inner" /\ j >= bsz
    /\ pc' = "after"
    /\ UNCHANGED <<args, i, j, next, cmp, hits, uniqs>>

EqualStays ==
    /\ pc = "equal" /\ next < bsz /\ b[j] = b[next]
    /\ UNCHANGED <<args, pc, i, j, next, cmp, hits, uniqs>>

\* The entries of b that equal the one found are passed over.
Equal ==
    /\ pc = "equal" /\ next < bsz /\ b[j] = b[next]
    /\ next' = next + 1
    /\ UNCHANGED <<args, pc, i, j, cmp, hits, uniqs>>

\* intef, if there is one.
Found ==
    /\ pc = "equal" /\ (next < bsz => b[j] # b[next])
    /\ hits' = IF uniqf THEN hits ELSE hits \cup {<<i, j>>}
    /\ pc' = "after"
    /\ UNCHANGED <<args, i, j, next, cmp, uniqs>>

AfterForgetsLastTurn ==
    /\ pc = "after"
    /\ uniqs' = IF cmp # 0 /\ uniqf /\ j < bsz THEN uniqs \cup {i} ELSE uniqs
    /\ IF ~uniqf /\ (next >= bsz \/ j >= bsz)
       THEN pc' = "done" /\ UNCHANGED i
       ELSE pc' = "outer" /\ i' = i + 1
    /\ UNCHANGED <<args, j, next, cmp, hits>>

\* The end of the loop body: uniqf by the last comparison made, for whichever
\* entry of a that was; without uniqf the pass ends with b.
After ==
    /\ pc = "after"
    /\ uniqs' = IF cmp # 0 /\ uniqf THEN uniqs \cup {i} ELSE uniqs
    /\ IF ~uniqf /\ (next >= bsz \/ j >= bsz)
       THEN pc' = "done" /\ UNCHANGED i
       ELSE pc' = "outer" /\ i' = i + 1
    /\ UNCHANGED <<args, j, next, cmp, hits>>

Done == pc = "done" /\ UNCHANGED vars

Next == Outer \/ Inner \/ InnerEnds \/ Equal \/ Found \/ After \/ Done

Spec == Init /\ [][Next]_vars
FairSpec == Spec /\ WF_vars(Next)

-----------------------------------------------------------------------------
InBoth(m) == \E k \in 0..(bsz - 1) : b[k] = a[m]

\* Type correctness: no index leaves its array by more than the end.
TypeOK ==
    /\ asz \in Nat /\ bsz \in Nat /\ uniqf \in BOOLEAN
    /\ a \in [0..(asz - 1) -> Int] /\ b \in [0..(bsz - 1) -> Int]
    /\ pc \in {"outer", "inner", "equal", "after", "done"}
    /\ i \in 0..asz /\ j \in 0..bsz /\ next \in 0..bsz /\ cmp \in Int
    /\ pc \in {"inner", "equal", "after"} => i < asz
    /\ pc = "equal" => j < bsz
    /\ hits \subseteq (0..(asz - 1)) \X (0..(bsz - 1)) /\ uniqs \subseteq 0..(asz - 1)

\* intef is called for exactly the entries of a that are in b, although the
\* pass stops early and never looks back in b: no conflict and no shared file
\* is overlooked, and none is made up.
HitsAreIntersection ==
    pc = "done" /\ ~uniqf =>
        /\ \A h \in hits : a[h[1]] = b[h[2]]
        /\ \A m \in 0..(asz - 1) : InBoth(m) => \E h \in hits : h[1] = m

\* pkginfo -O never calls a file an orphan that some package lists.
NoFalseOrphan == \A m \in uniqs : ~InBoth(m)

\* What pkginfo -O does get: the entries of a that are not in b, all of them up
\* to the last entry of b, and those behind it unless that one is in a as well.
ReportsUpToLastMatch ==
    pc = "done" /\ uniqf => uniqs = {m \in 0..(asz - 1) :
        /\ ~InBoth(m)
        /\ bsz > 0 /\ b[bsz - 1] < a[m] => \A k \in 0..(asz - 1) : a[k] # b[bsz - 1]}

\* pkginfo(8), -O: it lists the files "present on filesystem but absent in
\* database", all of them.
AllOrphansFound == pc = "done" /\ uniqf => \A m \in 0..(asz - 1) : InBoth(m) \/ m \in uniqs

\* The pass comes to its end.
Stops == <>(pc = "done")
=============================================================================
