---------------------------- MODULE LinkedList ----------------------------
(***************************************************************************)
(* The doubly linked list (src/src/list.c, list.h) and the ways its users  *)
(* take entries out: in the middle of list_for_each and list_for_each_r,   *)
(* just before a break, and by pointers that were put in an array before.  *)
(* The heap is the functions next, prev and data; a freed entry holds      *)
(* Junk, and malloc may give it out again.                                 *)
(***************************************************************************)
EXTENDS Integers, Sequences, FiniteSets

CONSTANTS
    Node,               \* the entries malloc can return
    Data,               \* what an entry may point to: numbers, by their order
    HEAD, TAIL, NULL, Junk

ASSUME NodeAssumption ==
    /\ Data \subseteq Int
    /\ HEAD # TAIL /\ NULL # Junk
    /\ {HEAD, TAIL, NULL, Junk} \cap Node = {}
    /\ {HEAD, TAIL} \cap {NULL, Junk} = {}

VARIABLES
    next, prev, data, size, alive,
    cursor,         \* the loop's variable
    mode,           \* what the caller is doing
    arr,            \* the pointers in the array of delete_refs
    order,          \* history: the entries as the list should have them
    before, visited \* history: the entries when the walk began, and those met

listVars == <<next, prev, data, size, alive, cursor, mode, arr, order, before, visited>>

Entry == Node \cup {HEAD, TAIL}

ListInit ==
    /\ next = [x \in Entry |-> CASE x = HEAD -> TAIL [] x = TAIL -> NULL [] OTHER -> Junk]
    /\ prev = [x \in Entry |-> CASE x = TAIL -> HEAD [] x = HEAD -> NULL [] OTHER -> Junk]
    /\ data = [x \in Node |-> Junk] /\ size = 0 /\ alive = {}
    /\ cursor = NULL /\ mode = "idle" /\ arr = {}
    /\ order = <<>> /\ before = <<>> /\ visited = <<>>

-----------------------------------------------------------------------------
\* The history of what the list should be: the entry x at a place, or gone.
IndexIn(x) == IF x = HEAD THEN 0 ELSE IF x = TAIL THEN Len(order) + 1
              ELSE CHOOSE k \in 1..Len(order) : order[k] = x
InsertAt(k, x) == [m \in 1..(Len(order) + 1) |->
                      IF m < k THEN order[m] ELSE IF m = k THEN x ELSE order[m - 1]]
Without(x) == [m \in 1..(Len(order) - 1) |-> IF m < IndexIn(x) THEN order[m] ELSE order[m + 1]]

NoWalk == mode = "idle" /\ UNCHANGED <<cursor, mode, arr, before, visited>>

\* list_insert_after; list_prepend inserts after the head.
InsertAfter ==
    /\ NoWalk
    /\ \E new \in Node \ alive, x \in alive \cup {HEAD}, d \in Data :
        /\ next' = [next EXCEPT ![new] = next[x], ![x] = new]
        /\ prev' = [prev EXCEPT ![new] = x, ![next[x]] = new]
        /\ data' = [data EXCEPT ![new] = d]
        /\ alive' = alive \cup {new} /\ size' = size + 1
        /\ order' = InsertAt(IndexIn(x) + 1, new)

InsertBeforeSwapped ==
    /\ NoWalk
    /\ \E new \in Node \ alive, x \in alive \cup {TAIL}, d \in Data :
        /\ next' = [next EXCEPT ![new] = x]
        /\ prev' = [prev EXCEPT ![new] = prev[x], ![x] = new]
        /\ data' = [data EXCEPT ![new] = d]
        /\ alive' = alive \cup {new} /\ size' = size + 1
        /\ order' = InsertAt(IndexIn(x), new)

\* list_insert_before; list_append inserts before the tail.
InsertBefore ==
    /\ NoWalk
    /\ \E new \in Node \ alive, x \in alive \cup {TAIL}, d \in Data :
        /\ next' = [next EXCEPT ![new] = x, ![prev[x]] = new]
        /\ prev' = [prev EXCEPT ![new] = prev[x], ![x] = new]
        /\ data' = [data EXCEPT ![new] = d]
        /\ alive' = alive \cup {new} /\ size' = size + 1
        /\ order' = InsertAt(IndexIn(x), new)

\* list_delete(x): the neighbours are linked, the entry is freed.
Delete(x) ==
    /\ next' = [next EXCEPT ![prev[x]] = next[x], ![x] = Junk]
    /\ prev' = [prev EXCEPT ![next[x]] = prev[x], ![x] = Junk]
    /\ data' = [data EXCEPT ![x] = Junk]
    /\ alive' = alive \ {x} /\ size' = size - 1
    /\ order' = Without(x)

UnchangedList == UNCHANGED <<next, prev, data, size, alive, order>>

-----------------------------------------------------------------------------
\* list_for_each and list_for_each_r.
WalkStart ==
    /\ mode = "idle"
    /\ \/ mode' = "forward" /\ cursor' = next[HEAD]
       \/ mode' = "backward" /\ cursor' = prev[TAIL]
    /\ before' = order /\ visited' = <<>>
    /\ UnchangedList /\ UNCHANGED arr

InLoop == \/ mode = "forward" /\ next[cursor] # NULL
          \/ mode = "backward" /\ prev[cursor] # NULL
Meets == InLoop /\ visited' = Append(visited, cursor) /\ UNCHANGED <<arr, before>>

\* A turn of the loop that leaves the entry where it is.
Keep ==
    /\ Meets /\ UnchangedList /\ UNCHANGED mode
    /\ cursor' = IF mode = "forward" THEN next[cursor] ELSE prev[cursor]

DeleteForwardInPlace ==
    /\ mode = "forward" /\ Meets /\ UNCHANGED mode
    /\ Delete(cursor) /\ cursor' = next'[cursor]

\* i = i->prev; list_delete(list, i->next); and the loop's i = i->next.
DeleteForward ==
    /\ mode = "forward" /\ Meets /\ UNCHANGED mode
    /\ Delete(next[prev[cursor]])
    /\ cursor' = next'[prev[cursor]]

DeleteBackwardSkips ==
    /\ mode = "backward" /\ Meets /\ UNCHANGED mode
    /\ prev[cursor] # HEAD
    /\ Delete(cursor)
    /\ cursor' = prev'[prev[cursor]]

\* i = i->next; list_delete(list, i->prev); and the loop's i = i->prev.
DeleteBackward ==
    /\ mode = "backward" /\ Meets /\ UNCHANGED mode
    /\ Delete(prev[next[cursor]])
    /\ cursor' = prev'[next[cursor]]

WalkReset == cursor' = NULL /\ before' = <<>> /\ visited' = <<>>

\* The entry that was looked for: deleted, then break.
DeleteAndBreak ==
    /\ InLoop /\ mode = "forward" /\ Delete(cursor)
    /\ mode' = "idle" /\ WalkReset /\ UNCHANGED arr

WalkEnd ==
    /\ mode \in {"forward", "backward"} /\ ~InLoop
    /\ mode' = "idle" /\ WalkReset
    /\ UnchangedList /\ UNCHANGED arr

-----------------------------------------------------------------------------
\* delete_refs puts the entries in an array and deletes some of them by these
\* pointers, in the order of their paths.
RefsStart ==
    /\ mode = "idle" /\ mode' = "refs" /\ arr' = alive
    /\ UnchangedList /\ UNCHANGED <<cursor, before, visited>>

DeleteRef ==
    /\ mode = "refs"
    /\ \E x \in arr : Delete(x) /\ arr' = arr \ {x}
    /\ UNCHANGED <<cursor, mode, before, visited>>

RefsEnd ==
    /\ mode = "refs" /\ mode' = "idle" /\ arr' = {}
    /\ UnchangedList /\ UNCHANGED <<cursor, before, visited>>

\* sort_db: an array of size pointers is filled by one walk, sorted, and put
\* back by another; the entries stay, what they point to changes.
SortData ==
    /\ NoWalk
    /\ \E entry \in [1..size -> alive] :
        /\ \A k \in 1..size : next[IF k = 1 THEN HEAD ELSE entry[k - 1]] = entry[k]
        /\ \E pkgs \in [1..size -> 1..size] :
            /\ \A k, m \in 1..size : k < m =>
                   pkgs[k] # pkgs[m] /\ data[entry[pkgs[k]]] <= data[entry[pkgs[m]]]
            /\ data' = [x \in Node |->
                   IF \E k \in 1..size : entry[k] = x
                   THEN data[entry[pkgs[CHOOSE k \in 1..size : entry[k] = x]]] ELSE data[x]]
    /\ UNCHANGED <<next, prev, size, alive, order>>

-----------------------------------------------------------------------------
\* list_free: each entry is freed when its successor was read.
FreeStart ==
    /\ mode = "idle" /\ mode' = "freeing" /\ cursor' = next[HEAD]
    /\ UnchangedList /\ UNCHANGED <<arr, before, visited>>

FreeEntryFirst ==
    /\ mode = "freeing" /\ next[cursor] # NULL
    /\ next' = [next EXCEPT ![cursor] = Junk] /\ cursor' = next'[cursor]
    /\ prev' = [prev EXCEPT ![cursor] = Junk] /\ data' = [data EXCEPT ![cursor] = Junk]
    /\ alive' = alive \ {cursor} /\ order' = Without(cursor)
    /\ UNCHANGED <<size, mode, arr, before, visited>>

FreeEntry ==
    /\ mode = "freeing" /\ next[cursor] # NULL
    /\ cursor' = next[cursor] /\ next' = [next EXCEPT ![cursor] = Junk]
    /\ prev' = [prev EXCEPT ![cursor] = Junk] /\ data' = [data EXCEPT ![cursor] = Junk]
    /\ alive' = alive \ {cursor} /\ order' = Without(cursor)
    /\ UNCHANGED <<size, mode, arr, before, visited>>

FreeEnds ==
    /\ mode = "freeing" /\ next[cursor] = NULL
    /\ next' = [next EXCEPT ![HEAD] = Junk, ![TAIL] = Junk]
    /\ prev' = [prev EXCEPT ![HEAD] = Junk, ![TAIL] = Junk]
    /\ size' = -1 /\ mode' = "freed" /\ cursor' = NULL
    /\ UNCHANGED <<data, alive, arr, order, before, visited>>

ListNext ==
    \/ InsertAfter \/ InsertBefore
    \/ WalkStart \/ Keep \/ DeleteForward \/ DeleteBackward \/ DeleteAndBreak \/ WalkEnd
    \/ RefsStart \/ DeleteRef \/ RefsEnd \/ SortData
    \/ FreeStart \/ FreeEntry \/ FreeEnds

ListSpec == ListInit /\ [][ListNext]_listVars

-----------------------------------------------------------------------------
\* Type correctness; no loop holds an entry that was freed.
ListTypeOK ==
    /\ mode \in {"idle", "forward", "backward", "refs", "freeing", "freed"}
    /\ next \in [Entry -> Entry \cup {NULL, Junk}] /\ prev \in [Entry -> Entry \cup {NULL, Junk}]
    /\ data \in [Node -> Data \cup {Junk}] /\ size \in Int /\ alive \subseteq Node
    /\ order \in Seq(Node) /\ before \in Seq(Node) /\ visited \in Seq(Node)
    /\ arr \subseteq alive
    /\ cursor \in IF mode \in {"forward", "backward", "freeing"}
                  THEN alive \cup {HEAD, TAIL} ELSE {NULL}

\* The entry at each place of the list as it should be, between head and tail.
At(k) == IF k = 0 THEN HEAD ELSE IF k = Len(order) + 1 THEN TAIL ELSE order[k]

\* The pointers and the size say what the operations did, both ways along the
\* list: as many entries as size says, all of them allocated, none lost.
ListIsChain ==
    /\ {order[k] : k \in 1..Len(order)} = alive
    /\ \A k, m \in 1..Len(order) : order[k] = order[m] => k = m
    /\ mode \notin {"freeing", "freed"} =>
        /\ size = Len(order)
        /\ \A k \in 0..Len(order) : next[At(k)] = At(k + 1) /\ prev[At(k + 1)] = At(k)
        /\ prev[HEAD] = NULL /\ next[TAIL] = NULL
        /\ \A x \in alive : data[x] \in Data
    /\ mode = "freed" => alive = {}

Reversed(s) == [k \in 1..Len(s) |-> s[Len(s) + 1 - k]]

\* A walk, whatever it deletes under itself, meets the entries there were when
\* it began, each once, in their order, and all of them by its end.
EachVisitedOnce ==
    mode \in {"forward", "backward"} =>
        LET way == IF mode = "forward" THEN before ELSE Reversed(before)
        IN /\ Len(visited) <= Len(way) /\ visited = SubSeq(way, 1, Len(visited))
           /\ IF InLoop THEN Len(visited) < Len(way) /\ way[Len(visited) + 1] = cursor
              ELSE visited = way
=============================================================================
