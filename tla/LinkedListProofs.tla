------------------------- MODULE LinkedListProofs -------------------------
(***************************************************************************)
(* The linked list, for any heap and any sequence of operations: its       *)
(* pointers always form the chain of its entries, no loop holds an entry   *)
(* that was freed, and a walk that deletes under itself meets every entry. *)
(***************************************************************************)
EXTENDS LinkedList, TLAPS

\* While the list is being freed the rest of it is still linked forward.
FreeingOK ==
    mode = "freeing" =>
        /\ cursor = At(1) /\ next[TAIL] = NULL
        /\ \A k \in 1..Len(order) : next[order[k]] = At(k + 1)

\* Where a walk is: so many entries were met, and the rest of those there were
\* is what lies before the cursor.
ForwardAt(c) ==
    /\ c \in 1..(Len(order) + 1) /\ cursor = At(c)
    /\ Len(before) = Len(visited) + (Len(order) + 1 - c)
    /\ \A m \in 1..Len(visited) : visited[m] = before[m]
    /\ \A m \in c..Len(order) : before[Len(visited) + 1 + m - c] = order[m]
BackwardAt(c) ==
    /\ c \in 0..Len(order) /\ cursor = At(c)
    /\ Len(before) = Len(visited) + c
    /\ \A m \in 1..Len(visited) : visited[m] = before[Len(before) + 1 - m]
    /\ \A m \in 1..c : before[m] = order[m]
WalkOK ==
    /\ mode = "forward" => \E c \in 1..(Len(order) + 1) : ForwardAt(c)
    /\ mode = "backward" => \E c \in 0..Len(order) : BackwardAt(c)

\* ListIsChain in two parts: which entries, and how they are linked.
EntriesOK ==
    /\ {order[k] : k \in 1..Len(order)} = alive
    /\ \A k, m \in 1..Len(order) : order[k] = order[m] => k = m
Linked ==
    /\ size = Len(order)
    /\ \A k \in 0..Len(order) : next[At(k)] = At(k + 1) /\ prev[At(k + 1)] = At(k)
    /\ prev[HEAD] = NULL /\ next[TAIL] = NULL
    /\ \A x \in alive : data[x] \in Data

HeapOK ==
    /\ next \in [Entry -> Entry \cup {NULL, Junk}] /\ prev \in [Entry -> Entry \cup {NULL, Junk}]
    /\ data \in [Node -> Data \cup {Junk}] /\ size \in Int /\ alive \subseteq Node
    /\ order \in Seq(Node)
CallerOK ==
    /\ mode \in {"idle", "forward", "backward", "refs", "freeing", "freed"}
    /\ before \in Seq(Node) /\ visited \in Seq(Node)
    /\ arr \subseteq alive
    /\ cursor \in IF mode \in {"forward", "backward", "freeing"}
                  THEN alive \cup {HEAD, TAIL} ELSE {NULL}

\* Pointers to entries are kept in delete_refs only.
ArrOK == mode # "refs" => arr = {}

ListInv == ListTypeOK /\ ListIsChain /\ FreeingOK /\ WalkOK /\ ArrOK

LEMMA Parts ==
    /\ ListTypeOK <=> HeapOK /\ CallerOK
    /\ ListIsChain <=> /\ EntriesOK /\ (mode \notin {"freeing", "freed"} => Linked)
                       /\ (mode = "freed" => alive = {})
BY DEF ListTypeOK, ListIsChain, HeapOK, CallerOK, EntriesOK, Linked

LEMMA NextParts ==
    /\ ListTypeOK' <=> HeapOK' /\ CallerOK'
    /\ ListIsChain' <=> /\ EntriesOK' /\ (mode' \notin {"freeing", "freed"} => Linked')
                        /\ (mode' = "freed" => alive' = {})
BY DEF ListTypeOK, ListIsChain, HeapOK, CallerOK, EntriesOK, Linked

-----------------------------------------------------------------------------
(* The places of the list.                                                 *)

\* The places 0, 1, ... are head, entries and tail, all different.
LEMMA AtFacts ==
    ASSUME HeapOK, EntriesOK
    PROVE  /\ Len(order) \in Nat
           /\ \A k \in 0..(Len(order) + 1) : At(k) \in Entry
           /\ \A k \in 1..Len(order) : At(k) = order[k] /\ At(k) \in alive /\ At(k) \in Node
           /\ \A k \in 1..Len(order) : order[k] \in alive /\ order[k] \in Node
           /\ At(0) = HEAD /\ At(Len(order) + 1) = TAIL
           /\ \A k, m \in 0..(Len(order) + 1) : At(k) = At(m) => k = m
           /\ \A x \in alive : \E k \in 1..Len(order) : x = order[k]
<1>1. Len(order) \in Nat /\ \A k \in 1..Len(order) : order[k] \in Node
  BY DEF HeapOK
<1>2. \A k \in 1..Len(order) : order[k] \in alive
  BY DEF EntriesOK
<1>3. \A x \in alive : \E k \in 1..Len(order) : x = order[k]
  BY DEF EntriesOK
<1>4. At(0) = HEAD /\ At(Len(order) + 1) = TAIL
  BY <1>1 DEF At
<1>5. \A k \in 1..Len(order) : At(k) = order[k]
  BY <1>1 DEF At
<1>6. \A k, m \in 1..Len(order) : order[k] = order[m] => k = m
  BY DEF EntriesOK
<1>7. \A k \in 0..(Len(order) + 1) : k = 0 \/ k = Len(order) + 1 \/ k \in 1..Len(order)
  BY <1>1
<1>8. HEAD # TAIL /\ HEAD \notin Node /\ TAIL \notin Node
  BY NodeAssumption
<1>9. \A k, m \in 0..(Len(order) + 1) : At(k) = At(m) => k = m
  BY <1>1, <1>4, <1>5, <1>6, <1>7, <1>8
<1>10. \A k \in 0..(Len(order) + 1) : At(k) \in Entry
  BY <1>1, <1>4, <1>5, <1>7 DEF Entry
<1> QED
  BY <1>1, <1>2, <1>3, <1>4, <1>5, <1>9, <1>10

\* IndexIn is the place.
LEMMA IndexFacts ==
    ASSUME HeapOK, EntriesOK
    PROVE  /\ \A k \in 0..(Len(order) + 1) : IndexIn(At(k)) = k
           /\ \A x \in alive : IndexIn(x) \in 1..Len(order) /\ order[IndexIn(x)] = x
<1>1. \A k \in 1..Len(order) : IndexIn(order[k]) = k
  <2> SUFFICES ASSUME NEW k \in 1..Len(order) PROVE IndexIn(order[k]) = k
    OBVIOUS
  <2>1. order[k] # HEAD /\ order[k] # TAIL
    BY AtFacts, NodeAssumption
  <2>2. \A m \in 1..Len(order) : order[m] = order[k] => m = k
    BY DEF EntriesOK
  <2> QED
    BY <2>1, <2>2 DEF IndexIn
<1>2. IndexIn(HEAD) = 0 /\ IndexIn(TAIL) = Len(order) + 1
  BY NodeAssumption DEF IndexIn
<1>3. \A k \in 0..(Len(order) + 1) : k = 0 \/ k = Len(order) + 1 \/ k \in 1..Len(order)
  BY AtFacts
<1> QED
  BY <1>1, <1>2, <1>3, AtFacts

\* NULL and Junk are no entries: what a linked entry points to is one.
LEMMA NoEntry == NULL \notin Entry /\ Junk \notin Entry /\ HEAD \in Entry /\ TAIL \in Entry
                 /\ HEAD \notin Node /\ TAIL \notin Node /\ HEAD # TAIL /\ Node \subseteq Entry
BY NodeAssumption DEF Entry

-----------------------------------------------------------------------------
(* What the two changes of the chain do.                                   *)

\* An entry put between two neighbours is linked to both.
LEMMA InsertLinks ==
    ASSUME HeapOK, EntriesOK, Linked,
           NEW p \in 0..Len(order), NEW new \in Node \ alive, NEW d \in Data,
           next' = [next EXCEPT ![new] = At(p + 1), ![At(p)] = new],
           prev' = [prev EXCEPT ![new] = At(p), ![At(p + 1)] = new],
           data' = [data EXCEPT ![new] = d],
           alive' = alive \cup {new}, size' = size + 1,
           order' = InsertAt(p + 1, new)
    PROVE  HeapOK' /\ EntriesOK' /\ Linked'
<1> DEFINE L == Len(order)
<1>0. L \in Nat /\ p \in 0..L /\ p + 1 \in 1..(L + 1)
  BY AtFacts
<1>1. order' = [m \in 1..(L + 1) |-> IF m < p + 1 THEN order[m]
                                     ELSE IF m = p + 1 THEN new ELSE order[m - 1]]
  BY DEF InsertAt
<1>2. order' \in Seq(Node) /\ Len(order') = L + 1
  <2>1. \A m \in 1..(L + 1) : (IF m < p + 1 THEN order[m] ELSE IF m = p + 1 THEN new ELSE order[m - 1]) \in Node
    <3>1. \A k \in 1..L : order[k] \in Node
      BY AtFacts
    <3>2. \A m \in 1..(L + 1) : (m < p + 1 => m \in 1..L) /\ (m > p + 1 => m - 1 \in 1..L)
      BY <1>0
    <3>3. \A m \in 1..(L + 1) : m < p + 1 \/ m = p + 1 \/ m > p + 1
      BY <1>0
    <3> QED
      BY <1>0, <3>1, <3>2, <3>3
  <2> QED
    BY <1>0, <1>1, <2>1
<1>3. new \notin {At(k) : k \in 0..(L + 1)} /\ new \in Entry
  <2>1. \A k \in 0..(L + 1) : k = 0 \/ k = L + 1 \/ k \in 1..L
    BY <1>0
  <2> QED
    BY <2>1, AtFacts, NoEntry
<1>4. /\ \A m \in 0..p : At(m)' = At(m)
      /\ At(p + 1)' = new
      /\ \A m \in (p + 2)..(L + 2) : At(m)' = At(m - 1)
  <2>1. \A m \in 1..(L + 1) : order'[m] = IF m < p + 1 THEN order[m]
                                          ELSE IF m = p + 1 THEN new ELSE order[m - 1]
    BY <1>1
  <2>2. \A m : At(m)' = IF m = 0 THEN HEAD ELSE IF m = L + 2 THEN TAIL ELSE order'[m]
    BY <1>0, <1>2 DEF At
  <2>3. \A m \in 0..p : At(m)' = At(m)
    BY <1>0, <2>1, <2>2 DEF At
  <2>4. At(p + 1)' = new
    BY <1>0, <2>1, <2>2
  <2>5. \A m \in (p + 2)..(L + 2) : At(m)' = At(m - 1)
    BY <1>0, <2>1, <2>2 DEF At
  <2> QED
    BY <2>3, <2>4, <2>5
<1>5. HeapOK'
  <2>1. \A k \in 0..(L + 1) : At(k) \in Entry
    BY AtFacts
  <2>2. At(p) \in Entry /\ At(p + 1) \in Entry
    BY <1>0, <2>1
  <2> QED
    BY <1>2, <1>3, <2>2 DEF HeapOK
<1>6. EntriesOK'
  <2>1. \A m \in 1..(L + 1) : order'[m] = IF m < p + 1 THEN order[m]
                                          ELSE IF m = p + 1 THEN new ELSE order[m - 1]
    BY <1>1
  <2>2. {order'[m] : m \in 1..(L + 1)} = alive'
    <3>1. \A m \in 1..(L + 1) : order'[m] \in alive'
      <4>1. \A k \in 1..L : order[k] \in alive
        BY AtFacts
      <4>2. \A m \in 1..(L + 1) : (m < p + 1 => m \in 1..L) /\ (m > p + 1 => m - 1 \in 1..L)
        BY <1>0
      <4>3. \A m \in 1..(L + 1) : m < p + 1 \/ m = p + 1 \/ m > p + 1
        BY <1>0
      <4> QED
        BY <2>1, <4>1, <4>2, <4>3
    <3>2. ASSUME NEW x \in alive PROVE \E m \in 1..(L + 1) : order'[m] = x
      <4>1. PICK k \in 1..L : x = order[k]
        BY AtFacts
      <4>2. order'[k] = x \/ order'[k + 1] = x
        BY <1>0, <2>1, <4>1
      <4> QED
        BY <1>0, <4>1, <4>2
    <3>3. order'[p + 1] = new /\ p + 1 \in 1..(L + 1)
      BY <1>0, <2>1
    <3> QED
      BY <3>1, <3>2, <3>3
  <2>3. \A k \in 1..L : order[k] # new
    BY AtFacts
  <2>4. \A k, m \in 1..L : order[k] = order[m] => k = m
    BY DEF EntriesOK
  <2>5. \A k, m \in 1..(L + 1) : order'[k] = order'[m] => k = m
    BY <1>0, <2>1, <2>3, <2>4
  <2> QED
    BY <1>2, <2>2, <2>5 DEF EntriesOK
<1>7. Linked'
  <2>1. size' = Len(order')
    BY <1>2 DEF Linked, HeapOK
  <2>2. \A k \in 0..(L + 1) : At(k) # new /\ At(k) \in Entry
    BY <1>3, AtFacts
  <2>3. \A k \in 0..L : next[At(k)] = At(k + 1) /\ prev[At(k + 1)] = At(k)
    BY DEF Linked
  <2>4. \A k, m \in 0..(L + 1) : At(k) = At(m) => k = m
    BY AtFacts
  <2>5. next'[new] = At(p + 1) /\ next'[At(p)] = new
        /\ \A k \in 0..(L + 1) : k # p => next'[At(k)] = next[At(k)]
    BY <1>0, <1>3, <2>2, <2>4 DEF HeapOK
  <2>6. prev'[new] = At(p) /\ prev'[At(p + 1)] = new
        /\ \A k \in 0..(L + 1) : k # p + 1 => prev'[At(k)] = prev[At(k)]
    BY <1>0, <1>3, <2>2, <2>4 DEF HeapOK
  <2>7. ASSUME NEW k \in 0..(L + 1)
        PROVE  next'[At(k)'] = At(k + 1)' /\ prev'[At(k + 1)'] = At(k)'
    <3>1. CASE k < p
      <4>1. At(k)' = At(k) /\ At(k + 1)' = At(k + 1) /\ k \in 0..L /\ k # p /\ k + 1 # p + 1
        BY <1>0, <1>4, <3>1
      <4>2. k \in 0..(L + 1) /\ k + 1 \in 0..(L + 1)
        BY <4>1
      <4>3. next'[At(k)] = next[At(k)] /\ prev'[At(k + 1)] = prev[At(k + 1)]
        BY <2>5, <2>6, <4>1, <4>2
      <4> QED
        BY <2>3, <4>1, <4>3
    <3>2. CASE k = p
      BY <1>0, <1>4, <2>5, <2>6, <3>2
    <3>3. CASE k = p + 1
      <4>1. At(k)' = new /\ At(k + 1)' = At(p + 1)
        BY <1>0, <1>4, <3>3
      <4> QED
        BY <2>5, <2>6, <4>1
    <3>4. CASE k > p + 1
      <4>1. At(k)' = At(k - 1) /\ At(k + 1)' = At(k) /\ k - 1 \in 0..L /\ k - 1 # p /\ k # p + 1
        BY <1>0, <1>4, <3>4
      <4>2. next[At(k - 1)] = At(k) /\ prev[At(k)] = At(k - 1)
        BY <1>0, <2>3, <4>1
      <4>3. k - 1 \in 0..(L + 1) /\ k \in 0..(L + 1)
        BY <4>1
      <4>4. next'[At(k - 1)] = next[At(k - 1)] /\ prev'[At(k)] = prev[At(k)]
        BY <2>5, <2>6, <4>1, <4>3
      <4> QED
        BY <4>1, <4>2, <4>4
    <3> QED
      BY <1>0, <3>1, <3>2, <3>3, <3>4
  <2>8. prev'[HEAD] = NULL /\ next'[TAIL] = NULL
    <3>1. HEAD = At(0) /\ TAIL = At(L + 1) /\ 0 # p + 1 /\ L + 1 # p
      BY <1>0, AtFacts
    <3>2. 0 \in 0..(L + 1) /\ L + 1 \in 0..(L + 1)
      BY <1>0
    <3>3. prev'[At(0)] = prev[At(0)] /\ next'[At(L + 1)] = next[At(L + 1)]
      BY <2>5, <2>6, <3>1, <3>2
    <3> QED
      BY <3>1, <3>3 DEF Linked
  <2>9. \A x \in alive' : data'[x] \in Data
    BY DEF Linked, HeapOK
  <2>10. \A k \in 0..Len(order') : next'[At(k)'] = At(k + 1)' /\ prev'[At(k + 1)'] = At(k)'
    BY <1>2, <2>7
  <2> QED
    BY <2>1, <2>8, <2>9, <2>10 DEF Linked
<1> QED
  BY <1>5, <1>6, <1>7

\* What comes after the entry that is taken out moves up by one place.
LEMMA WithoutFacts ==
    ASSUME HeapOK, EntriesOK, NEW q \in 1..Len(order),
           order' = Without(order[q]), alive' = alive \ {order[q]}
    PROVE  /\ order' \in Seq(Node) /\ Len(order') = Len(order) - 1
           /\ EntriesOK'
           /\ \A m \in 1..(q - 1) : order'[m] = order[m]
           /\ \A m \in q..(Len(order) - 1) : order'[m] = order[m + 1]
           /\ \A m \in 0..(q - 1) : At(m)' = At(m)
           /\ \A m \in q..Len(order) : At(m)' = At(m + 1)
<1> DEFINE L == Len(order)
<1>0. L \in Nat /\ q \in 1..L /\ L - 1 \in Nat
  BY AtFacts
<1>1. order' = [m \in 1..(L - 1) |-> IF m < q THEN order[m] ELSE order[m + 1]]
  <2>1. IndexIn(order[q]) = q
    <3>1. order[q] = At(q) /\ q \in 0..(L + 1)
      BY <1>0, AtFacts
    <3> QED
      BY <3>1, IndexFacts
  <2> QED
    BY <2>1 DEF Without
<1>2. \A m \in 1..(L - 1) : order'[m] = IF m < q THEN order[m] ELSE order[m + 1]
  BY <1>1
<1>3. order' \in Seq(Node) /\ Len(order') = L - 1
  <2>1. \A k \in 1..L : order[k] \in Node
    BY AtFacts
  <2>2. \A m \in 1..(L - 1) : m \in 1..L /\ m + 1 \in 1..L
    BY <1>0
  <2>3. \A m \in 1..(L - 1) : (IF m < q THEN order[m] ELSE order[m + 1]) \in Node
    BY <2>1, <2>2
  <2> QED
    BY <1>0, <1>1, <2>3
<1>4. /\ \A m \in 1..(q - 1) : order'[m] = order[m]
      /\ \A m \in q..(L - 1) : order'[m] = order[m + 1]
  BY <1>0, <1>2
<1>5. /\ \A m \in 0..(q - 1) : At(m)' = At(m)
      /\ \A m \in q..L : At(m)' = At(m + 1)
  <2>1. \A m : At(m)' = IF m = 0 THEN HEAD ELSE IF m = L THEN TAIL ELSE order'[m]
    BY <1>0, <1>3 DEF At
  <2>2. \A m \in 0..(q - 1) : At(m)' = At(m)
    BY <1>0, <1>4, <2>1 DEF At
  <2>3. \A m \in q..L : At(m)' = At(m + 1)
    BY <1>0, <1>4, <2>1 DEF At
  <2> QED
    BY <2>2, <2>3
<1>6. EntriesOK'
  <2>1. \A k, m \in 1..L : order[k] = order[m] => k = m
    BY DEF EntriesOK
  <2>2. \A m \in 1..(L - 1) : m \in 1..L /\ m + 1 \in 1..L
    BY <1>0
  <2>3. \A k, m \in 1..(L - 1) : order'[k] = order'[m] => k = m
    BY <1>0, <1>2, <2>1, <2>2
  <2>4. \A m \in 1..(L - 1) : order'[m] \in alive'
    <3>1. \A k \in 1..L : order[k] \in alive /\ (k # q => order[k] # order[q])
      BY <1>0, <2>1, AtFacts
    <3>2. \A m \in 1..(L - 1) : (m < q => m # q) /\ (~(m < q) => m + 1 # q)
      BY <1>0
    <3> QED
      BY <1>2, <2>2, <3>1, <3>2
  <2>5. ASSUME NEW x \in alive' PROVE \E m \in 1..(L - 1) : order'[m] = x
    <3>1. PICK k \in 1..L : x = order[k]
      BY AtFacts
    <3>2. k # q
      BY <3>1
    <3>3. CASE k < q
      <4>1. k \in 1..(q - 1) /\ k \in 1..(L - 1)
        BY <1>0, <3>3
      <4> QED
        BY <1>4, <3>1, <4>1
    <3>4. CASE k > q
      <4>1. k - 1 \in q..(L - 1) /\ k - 1 \in 1..(L - 1) /\ (k - 1) + 1 = k
        BY <1>0, <3>4
      <4> QED
        BY <1>4, <3>1, <4>1
    <3> QED
      BY <1>0, <3>2, <3>3, <3>4
  <2> QED
    <3>1. {order'[m] : m \in 1..(L - 1)} = alive'
      BY <2>4, <2>5
    <3> QED
      BY <1>3, <2>3, <3>1 DEF EntriesOK
<1> QED
  BY <1>3, <1>4, <1>5, <1>6

\* list_delete links the neighbours.
LEMMA DeleteLinks ==
    ASSUME HeapOK, EntriesOK, Linked, NEW q \in 1..Len(order), Delete(order[q])
    PROVE  HeapOK' /\ Linked'
<1> DEFINE L == Len(order)
<1>0. L \in Nat /\ q \in 1..L /\ L - 1 \in Nat
  BY AtFacts
<1>1. /\ order' \in Seq(Node) /\ Len(order') = L - 1
      /\ \A m \in 0..(q - 1) : At(m)' = At(m)
      /\ \A m \in q..L : At(m)' = At(m + 1)
      /\ alive' = alive \ {order[q]}
  BY WithoutFacts DEF Delete
<1>2. \A k \in 0..L : next[At(k)] = At(k + 1) /\ prev[At(k + 1)] = At(k)
  BY DEF Linked
<1>3. order[q] = At(q) /\ next[At(q)] = At(q + 1) /\ prev[At(q)] = At(q - 1)
  <2>1. q \in 0..L /\ q - 1 \in 0..L /\ (q - 1) + 1 = q
    BY <1>0
  <2> QED
    BY <1>2, <2>1, AtFacts
<1>4. /\ next' = [next EXCEPT ![At(q - 1)] = At(q + 1), ![At(q)] = Junk]
      /\ prev' = [prev EXCEPT ![At(q + 1)] = At(q - 1), ![At(q)] = Junk]
      /\ data' = [data EXCEPT ![At(q)] = Junk]
  BY <1>3 DEF Delete
<1>5. \A k, m \in 0..(L + 1) : At(k) = At(m) => k = m
  BY AtFacts
<1>6. \A k \in 0..(L + 1) : At(k) \in Entry
  BY AtFacts
<1>7. q - 1 \in 0..(L + 1) /\ q \in 0..(L + 1) /\ q + 1 \in 0..(L + 1)
      /\ q - 1 # q /\ q # q + 1 /\ q - 1 # q + 1
  BY <1>0
<1>8. next'[At(q - 1)] = At(q + 1)
      /\ \A k \in 0..(L + 1) : k # q - 1 /\ k # q => next'[At(k)] = next[At(k)]
  BY <1>4, <1>5, <1>6, <1>7 DEF HeapOK
<1>9. prev'[At(q + 1)] = At(q - 1)
      /\ \A k \in 0..(L + 1) : k # q + 1 /\ k # q => prev'[At(k)] = prev[At(k)]
  BY <1>4, <1>5, <1>6, <1>7 DEF HeapOK
<1>10. HeapOK'
  <2>1. At(q - 1) \in Entry /\ At(q) \in Entry /\ At(q + 1) \in Entry
    BY <1>6, <1>7
  <2>2. next' \in [Entry -> Entry \cup {NULL, Junk}] /\ prev' \in [Entry -> Entry \cup {NULL, Junk}]
    BY <1>4, <2>1 DEF HeapOK
  <2>3. data' \in [Node -> Data \cup {Junk}]
    BY <1>4 DEF HeapOK
  <2>4. size' \in Int
    BY DEF HeapOK, Delete
  <2> QED
    BY <1>1, <2>2, <2>3, <2>4 DEF HeapOK
<1>11. ASSUME NEW k \in 0..(L - 1)
       PROVE  next'[At(k)'] = At(k + 1)' /\ prev'[At(k + 1)'] = At(k)'
  <2>1. CASE k + 1 < q
    <3>1. At(k)' = At(k) /\ At(k + 1)' = At(k + 1) /\ k \in 0..L
          /\ k \in 0..(L + 1) /\ k + 1 \in 0..(L + 1)
          /\ k # q - 1 /\ k # q /\ k + 1 # q + 1 /\ k + 1 # q
      BY <1>0, <1>1, <2>1
    <3>2. next'[At(k)] = next[At(k)] /\ prev'[At(k + 1)] = prev[At(k + 1)]
      BY <1>8, <1>9, <3>1
    <3> QED
      BY <1>2, <3>1, <3>2
  <2>2. CASE k + 1 = q
    <3>1. k = q - 1 /\ At(k)' = At(q - 1) /\ At(k + 1)' = At(q + 1)
      BY <1>0, <1>1, <2>2
    <3> QED
      BY <1>8, <1>9, <3>1
  <2>3. CASE k + 1 > q
    <3>1. At(k)' = At(k + 1) /\ At(k + 1)' = At((k + 1) + 1) /\ k + 1 \in 0..L
          /\ k + 1 \in 0..(L + 1) /\ (k + 1) + 1 \in 0..(L + 1)
          /\ k + 1 # q - 1 /\ k + 1 # q /\ (k + 1) + 1 # q + 1 /\ (k + 1) + 1 # q
      BY <1>0, <1>1, <2>3
    <3>2. next'[At(k + 1)] = next[At(k + 1)] /\ prev'[At((k + 1) + 1)] = prev[At((k + 1) + 1)]
      BY <1>8, <1>9, <3>1
    <3> QED
      BY <1>2, <3>1, <3>2
  <2> QED
    BY <1>0, <2>1, <2>2, <2>3
<1>12. prev'[HEAD] = NULL /\ next'[TAIL] = NULL
  <2>1. HEAD = At(0) /\ TAIL = At(L + 1) /\ 0 # q + 1 /\ 0 # q /\ L + 1 # q - 1 /\ L + 1 # q
        /\ 0 \in 0..(L + 1) /\ L + 1 \in 0..(L + 1)
    BY <1>0, AtFacts
  <2>2. prev'[At(0)] = prev[At(0)] /\ next'[At(L + 1)] = next[At(L + 1)]
    BY <1>8, <1>9, <2>1
  <2> QED
    BY <2>1, <2>2 DEF Linked
<1>13. size' = Len(order')
  BY <1>0, <1>1 DEF Linked, Delete
<1>14. \A x \in alive' : data'[x] \in Data
  BY <1>1, <1>3, <1>4 DEF Linked, HeapOK
<1> QED
  BY <1>1, <1>10, <1>11, <1>12, <1>13, <1>14 DEF Linked

-----------------------------------------------------------------------------
(* The steps, by what the caller is doing.                                 *)

\* Outside of walks and list_free the list itself is all there is to show.
LEMMA Resting ==
    ASSUME mode' \in {"idle", "refs"}, HeapOK', EntriesOK', Linked',
           before' \in Seq(Node), visited' \in Seq(Node), arr' \subseteq alive',
           mode' = "idle" => arr' = {}, cursor' = NULL
    PROVE  ListInv'
<1>1. CallerOK'
  BY DEF CallerOK
<1>2. FreeingOK' /\ WalkOK' /\ ArrOK'
  BY DEF FreeingOK, WalkOK, ArrOK
<1>3. ListTypeOK' /\ ListIsChain'
  BY <1>1, NextParts
<1> QED
  BY <1>2, <1>3 DEF ListInv

\* What the invariant says, in its parts.
LEMMA InvParts ==
    ASSUME ListInv
    PROVE  /\ HeapOK /\ CallerOK /\ EntriesOK /\ FreeingOK /\ WalkOK /\ ArrOK
           /\ mode \notin {"freeing", "freed"} => Linked
           /\ mode = "freed" => alive = {}
BY Parts DEF ListInv

\* list_insert_after, list_insert_before.
LEMMA InsertStep ==
    ASSUME ListInv, InsertAfter \/ InsertBefore
    PROVE  ListInv'
<1>1. mode = "idle" /\ UNCHANGED <<cursor, mode, arr, before, visited>>
  BY DEF InsertAfter, InsertBefore, NoWalk
<1>2. HeapOK /\ CallerOK /\ EntriesOK /\ ArrOK /\ Linked
  BY <1>1, InvParts
<1>3. HeapOK' /\ EntriesOK' /\ Linked'
  <2>1. CASE InsertAfter
    <3>1. PICK new \in Node \ alive, x \in alive \cup {HEAD}, d \in Data :
            /\ next' = [next EXCEPT ![new] = next[x], ![x] = new]
            /\ prev' = [prev EXCEPT ![new] = x, ![next[x]] = new]
            /\ data' = [data EXCEPT ![new] = d]
            /\ alive' = alive \cup {new} /\ size' = size + 1
            /\ order' = InsertAt(IndexIn(x) + 1, new)
      BY <2>1 DEF InsertAfter
    <3>2. IndexIn(x) \in 0..Len(order) /\ At(IndexIn(x)) = x
      <4>1. CASE x = HEAD
        BY <1>2, <4>1, AtFacts DEF IndexIn
      <4>2. CASE x \in alive
        <5>1. IndexIn(x) \in 1..Len(order) /\ order[IndexIn(x)] = x
          BY <1>2, <4>2, IndexFacts
        <5> QED
          BY <1>2, <5>1, AtFacts
      <4> QED
        BY <4>1, <4>2
    <3>3. next[x] = At(IndexIn(x) + 1)
      BY <1>2, <3>2 DEF Linked
    <3> QED
      BY <1>2, <3>1, <3>2, <3>3, InsertLinks
  <2>2. CASE InsertBefore
    <3>1. PICK new \in Node \ alive, x \in alive \cup {TAIL}, d \in Data :
            /\ next' = [next EXCEPT ![new] = x, ![prev[x]] = new]
            /\ prev' = [prev EXCEPT ![new] = prev[x], ![x] = new]
            /\ data' = [data EXCEPT ![new] = d]
            /\ alive' = alive \cup {new} /\ size' = size + 1
            /\ order' = InsertAt(IndexIn(x), new)
      BY <2>2 DEF InsertBefore
    <3>2. IndexIn(x) \in 1..(Len(order) + 1) /\ At(IndexIn(x)) = x
      <4>1. CASE x = TAIL
        BY <1>2, <4>1, AtFacts, NodeAssumption DEF IndexIn
      <4>2. CASE x \in alive
        <5>1. IndexIn(x) \in 1..Len(order) /\ order[IndexIn(x)] = x
          BY <1>2, <4>2, IndexFacts
        <5> QED
          BY <1>2, <5>1, AtFacts
      <4> QED
        BY <4>1, <4>2
    <3>3. PICK p \in 0..Len(order) : p + 1 = IndexIn(x)
      <4>1. IndexIn(x) - 1 \in 0..Len(order) /\ (IndexIn(x) - 1) + 1 = IndexIn(x)
        BY <1>2, <3>2, AtFacts
      <4> QED
        BY <4>1
    <3>4. prev[x] = At(p) /\ x = At(p + 1)
      BY <1>2, <3>2, <3>3 DEF Linked
    <3> QED
      BY <1>2, <3>1, <3>3, <3>4, InsertLinks
  <2> QED
    BY <2>1, <2>2
<1>4. alive \subseteq alive'
  BY DEF InsertAfter, InsertBefore
<1> QED
  BY <1>1, <1>2, <1>3, <1>4, Resting DEF CallerOK, ArrOK

\* What stays as it is when the list does.
LEMMA SameList ==
    ASSUME UnchangedList
    PROVE  /\ HeapOK => HeapOK'
           /\ EntriesOK => EntriesOK'
           /\ Linked => Linked'
           /\ \A k : At(k)' = At(k)
<1>1. \A k : At(k)' = At(k)
  BY DEF UnchangedList, At
<1> QED
  BY <1>1 DEF UnchangedList, HeapOK, EntriesOK, Linked

\* The array of delete_refs, sort_db, and the end of a walk.
LEMMA RestingSteps ==
    ASSUME ListInv, RefsStart \/ DeleteRef \/ RefsEnd \/ WalkEnd \/ DeleteAndBreak \/ SortData
    PROVE  ListInv'
<1>1. mode \notin {"freeing", "freed"}
  BY DEF RefsStart, DeleteRef, RefsEnd, WalkEnd, DeleteAndBreak, SortData, NoWalk
<1>2. HeapOK /\ CallerOK /\ EntriesOK /\ ArrOK /\ Linked
  BY <1>1, InvParts
<1>3. ASSUME NEW x \in alive, Delete(x) PROVE HeapOK' /\ EntriesOK' /\ Linked' /\ alive' = alive \ {x}
  <2>1. PICK q \in 1..Len(order) : x = order[q]
    BY <1>2, AtFacts
  <2>2. order' = Without(order[q]) /\ alive' = alive \ {order[q]}
    BY <1>3, <2>1 DEF Delete
  <2>3. EntriesOK'
    BY <1>2, <2>2, WithoutFacts
  <2> QED
    BY <1>2, <1>3, <2>1, <2>2, <2>3, DeleteLinks
<1>4. CASE RefsStart
  BY <1>2, <1>4, SameList, Resting DEF RefsStart, CallerOK, UnchangedList
<1>5. CASE DeleteRef
  <2>1. PICK x \in arr : Delete(x) /\ arr' = arr \ {x}
    BY <1>5 DEF DeleteRef
  <2>2. x \in alive /\ arr \subseteq alive
    BY <1>2 DEF CallerOK
  <2> QED
    BY <1>2, <1>3, <1>5, <2>1, <2>2, Resting DEF DeleteRef, CallerOK
<1>6. CASE RefsEnd
  BY <1>2, <1>6, SameList, Resting DEF RefsEnd, CallerOK
<1>7. CASE WalkEnd
  <2>1. arr' = {} /\ cursor' = NULL /\ before' \in Seq(Node) /\ visited' \in Seq(Node)
    BY <1>2, <1>7 DEF WalkEnd, WalkReset, ArrOK
  <2> QED
    BY <1>2, <1>7, <2>1, SameList, Resting DEF WalkEnd
<1>8. CASE DeleteAndBreak
  <2>1. arr' = {} /\ cursor' = NULL /\ before' \in Seq(Node) /\ visited' \in Seq(Node)
    BY <1>2, <1>8 DEF DeleteAndBreak, WalkReset, ArrOK
  <2>2. cursor \in alive
    <3>1. cursor \in alive \cup {HEAD, TAIL} /\ next[cursor] # NULL
      BY <1>2, <1>8 DEF DeleteAndBreak, InLoop, CallerOK
    <3>2. cursor # TAIL
      BY <1>2, <3>1 DEF Linked
    <3>3. cursor # HEAD
      <4>1. WalkOK /\ mode = "forward"
        BY <1>8, InvParts DEF DeleteAndBreak
      <4>2. PICK c \in 1..(Len(order) + 1) : cursor = At(c)
        BY <4>1 DEF WalkOK, ForwardAt
      <4>3. c \in 0..(Len(order) + 1) /\ 0 \in 0..(Len(order) + 1) /\ c # 0
        BY <1>2, <4>2, AtFacts
      <4> QED
        BY <1>2, <4>2, <4>3, AtFacts
    <3> QED
      BY <3>1, <3>2, <3>3
  <2> QED
    BY <1>2, <1>3, <1>8, <2>1, <2>2, Resting DEF DeleteAndBreak
<1>9. CASE SortData
  <2>1. \A x \in alive : data[x] \in Data
    BY <1>2 DEF Linked
  <2>2. PICK entry \in [1..size -> alive] : \E pkgs \in [1..size -> 1..size] :
          data' = [x \in Node |->
             IF \E k \in 1..size : entry[k] = x
             THEN data[entry[pkgs[CHOOSE k \in 1..size : entry[k] = x]]] ELSE data[x]]
    BY <1>9 DEF SortData
  <2>3. PICK pkgs \in [1..size -> 1..size] :
          data' = [x \in Node |->
             IF \E k \in 1..size : entry[k] = x
             THEN data[entry[pkgs[CHOOSE k \in 1..size : entry[k] = x]]] ELSE data[x]]
    BY <2>2
  <2>4. \A k \in 1..size : data[entry[pkgs[k]]] \in Data
    BY <2>1
  <2>5. ASSUME NEW x \in Node
        PROVE  data'[x] \in Data \cup {Junk} /\ (x \in alive => data'[x] \in Data)
    <3>1. CASE \E k \in 1..size : entry[k] = x
      <4>1. (CHOOSE k \in 1..size : entry[k] = x) \in 1..size
        BY <3>1
      <4> QED
        BY <2>3, <2>4, <3>1, <4>1
    <3>2. CASE ~(\E k \in 1..size : entry[k] = x)
      <4>1. data'[x] = data[x]
        BY <2>3, <3>2
      <4> QED
        BY <1>2, <2>1, <4>1 DEF HeapOK
    <3> QED
      BY <3>1, <3>2
  <2>6. data' \in [Node -> Data \cup {Junk}]
    <3>1. data' = [x \in Node |-> data'[x]]
      BY <2>3
    <3> QED
      BY <2>5, <3>1
  <2>7. UNCHANGED <<next, prev, size, alive, order, cursor, mode, arr, before, visited>> /\ mode = "idle"
    BY <1>9 DEF SortData, NoWalk
  <2>8. \A k : At(k)' = At(k)
    BY <2>7 DEF At
  <2>9. HeapOK' /\ EntriesOK'
    BY <1>2, <2>6, <2>7 DEF HeapOK, EntriesOK
  <2>10. Linked'
    <3>1. \A x \in alive' : data'[x] \in Data
      BY <1>2, <2>5, <2>7 DEF HeapOK
    <3> QED
      BY <1>2, <2>7, <2>8, <3>1 DEF Linked
  <2> QED
    BY <1>2, <2>7, <2>9, <2>10, Resting DEF CallerOK, ArrOK
<1> QED
  BY <1>4, <1>5, <1>6, <1>7, <1>8, <1>9

\* A walk that goes on: the list is linked, and the cursor is at a place of it.
LEMMA Walking ==
    ASSUME mode' \in {"forward", "backward"}, HeapOK', EntriesOK', Linked', WalkOK',
           before' \in Seq(Node), visited' \in Seq(Node), arr' = {}
    PROVE  ListInv'
<1>1. \E c \in 0..(Len(order') + 1) : cursor' = At(c)'
  <2>1. Len(order') \in Nat
    BY DEF HeapOK
  <2>2. CASE mode' = "forward"
    <3>1. \E c \in 1..(Len(order') + 1) : cursor' = At(c)'
      BY <2>2 DEF WalkOK, ForwardAt
    <3> QED
      BY <2>1, <3>1
  <2>3. CASE mode' = "backward"
    <3>1. \E c \in 0..Len(order') : cursor' = At(c)'
      BY <2>3 DEF WalkOK, BackwardAt
    <3> QED
      BY <2>1, <3>1
  <2> QED
    BY <2>2, <2>3
<1>2. cursor' \in alive' \cup {HEAD, TAIL}
  <2>1. \A k \in 1..Len(order') : order'[k] \in alive'
    BY DEF EntriesOK
  <2>2. Len(order') \in Nat
    BY DEF HeapOK
  <2> QED
    BY <1>1, <2>1, <2>2 DEF At
<1>3. CallerOK'
  BY <1>2 DEF CallerOK
<1>4. FreeingOK' /\ ArrOK'
  BY DEF FreeingOK, ArrOK
<1>5. ListTypeOK' /\ ListIsChain'
  BY <1>3, NextParts
<1> QED
  BY <1>4, <1>5 DEF ListInv

\* A walk begins at its end of the list.
LEMMA WalkStartStep ==
    ASSUME ListInv, WalkStart
    PROVE  ListInv'
<1> DEFINE L == Len(order)
<1>1. HeapOK /\ CallerOK /\ EntriesOK /\ ArrOK /\ Linked /\ arr' = {}
  BY InvParts DEF WalkStart, ArrOK
<1>2. HeapOK' /\ EntriesOK' /\ Linked' /\ \A k : At(k)' = At(k)
  BY <1>1, SameList DEF WalkStart
<1>3. order' = order /\ before' = order /\ visited' = <<>> /\ L \in Nat /\ order \in Seq(Node)
  BY <1>1 DEF WalkStart, UnchangedList, HeapOK
<1>4. next[HEAD] = At(1) /\ prev[TAIL] = At(L)
  <2>1. 0 \in 0..L /\ L \in 0..L
    BY <1>3
  <2> QED
    BY <1>1, <2>1, AtFacts DEF Linked
<1>5. CASE mode' = "forward"
  <2>1. cursor' = At(1)
    BY <1>4, <1>5 DEF WalkStart
  <2>2. ForwardAt(1)'
    BY <1>2, <1>3, <2>1 DEF ForwardAt
  <2>3. WalkOK'
    BY <1>3, <1>5, <2>2 DEF WalkOK
  <2> QED
    BY <1>1, <1>2, <1>3, <1>5, <2>3, Walking
<1>6. CASE mode' = "backward"
  <2>1. cursor' = At(L)
    BY <1>4, <1>6 DEF WalkStart
  <2>2. L \in 0..Len(order') /\ BackwardAt(L)'
    BY <1>2, <1>3, <2>1 DEF BackwardAt
  <2>3. WalkOK'
    BY <1>6, <2>2 DEF WalkOK
  <2> QED
    BY <1>1, <1>2, <1>3, <1>6, <2>3, Walking
<1> QED
  BY <1>5, <1>6 DEF WalkStart

\* A turn of list_for_each: what was met is one more, and what is left begins
\* after the entry, or where it was.
LEMMA ForwardTurn ==
    ASSUME ListInv, mode = "forward", Keep \/ DeleteForward
    PROVE  ListInv'
<1> DEFINE L == Len(order)
           v == Len(visited)
<1>1. HeapOK /\ CallerOK /\ EntriesOK /\ WalkOK /\ Linked
  BY InvParts
<1>2. L \in Nat /\ v \in Nat /\ before \in Seq(Node) /\ visited \in Seq(Node)
  BY <1>1 DEF HeapOK, CallerOK
<1>3. mode' = "forward" /\ before' = before /\ visited' = Append(visited, cursor) /\ arr' = {}
  BY InvParts DEF Keep, DeleteForward, Meets, ArrOK
<1>4. PICK c \in 1..(L + 1) : ForwardAt(c)
  BY <1>1 DEF WalkOK
<1>5. c \in 1..L /\ cursor = At(c) /\ cursor = order[c] /\ cursor \in Node
  <2>1. next[cursor] # NULL
    BY DEF Keep, DeleteForward, Meets, InLoop
  <2>2. c # L + 1
    BY <1>1, <1>4, <2>1, AtFacts DEF ForwardAt, Linked
  <2>3. c \in 1..L
    BY <1>2, <2>2
  <2> QED
    BY <1>1, <1>4, <2>3, AtFacts DEF ForwardAt
<1>6. /\ visited' \in Seq(Node) /\ Len(visited') = v + 1
      /\ \A m \in 1..(v + 1) : visited'[m] = before[m]
  <2>1. before[v + 1] = cursor
    <3>1. before[v + 1 + c - c] = order[c]
      BY <1>4, <1>5 DEF ForwardAt
    <3> QED
      BY <1>2, <1>5, <3>1
  <2>2. visited' \in Seq(Node) /\ Len(visited') = v + 1 /\ visited'[v + 1] = cursor
        /\ \A m \in 1..v : visited'[m] = visited[m]
    BY <1>2, <1>3, <1>5
  <2>3. \A m \in 1..v : visited[m] = before[m]
    BY <1>4 DEF ForwardAt
  <2>4. \A m \in 1..(v + 1) : m = v + 1 \/ m \in 1..v
    BY <1>2
  <2> QED
    BY <2>1, <2>2, <2>3, <2>4
<1>7. c \in 0..L /\ next[At(c)] = At(c + 1) /\ c - 1 \in 0..L /\ (c - 1) + 1 = c
      /\ prev[At(c)] = At(c - 1) /\ next[At(c - 1)] = At(c)
  <2>1. c \in 0..L /\ c - 1 \in 0..L /\ (c - 1) + 1 = c
    BY <1>2, <1>5
  <2> QED
    BY <1>1, <2>1 DEF Linked
<1>8. Len(before) = v + (L + 1 - c) /\ \A m \in c..L : before[v + 1 + m - c] = order[m]
  BY <1>4 DEF ForwardAt
<1>9. CASE Keep
  <2>1. HeapOK' /\ EntriesOK' /\ Linked' /\ order' = order /\ \A k : At(k)' = At(k)
    BY <1>1, <1>9, SameList DEF Keep, UnchangedList
  <2>2. cursor' = At(c + 1)
    BY <1>5, <1>7, <1>9 DEF Keep
  <2>3. \A m \in (c + 1)..L : before[(v + 1) + 1 + m - (c + 1)] = order[m]
    BY <1>2, <1>5, <1>8
  <2>4. ForwardAt(c + 1)' /\ c + 1 \in 1..(Len(order') + 1)
    BY <1>2, <1>3, <1>5, <1>6, <1>8, <2>1, <2>2, <2>3 DEF ForwardAt
  <2>5. WalkOK'
    BY <1>3, <2>4 DEF WalkOK
  <2> QED
    BY <1>2, <1>3, <1>6, <2>1, <2>5, Walking
<1>10. CASE DeleteForward
  <2>1. Delete(order[c]) /\ cursor' = next'[At(c - 1)]
    BY <1>5, <1>7, <1>10 DEF DeleteForward
  <2>2. /\ order' = Without(order[c]) /\ alive' = alive \ {order[c]}
    BY <2>1 DEF Delete
  <2>3. /\ EntriesOK' /\ Len(order') = L - 1
        /\ \A m \in c..(L - 1) : order'[m] = order[m + 1]
        /\ \A m \in 0..(c - 1) : At(m)' = At(m)
    BY <1>1, <1>5, <2>2, WithoutFacts
  <2>4. HeapOK' /\ Linked'
    BY <1>1, <1>5, <2>1, DeleteLinks
  <2>5. cursor' = At(c)'
    <3>1. c - 1 \in 0..(c - 1) /\ c - 1 \in 0..Len(order') /\ (c - 1) + 1 = c
      BY <1>2, <1>5, <2>3
    <3>2. next'[At(c - 1)'] = At((c - 1) + 1)'
      BY <2>4, <3>1 DEF Linked
    <3> QED
      BY <2>1, <2>3, <3>1, <3>2
  <2>6. \A m \in c..Len(order') : before[(v + 1) + 1 + m - c] = order'[m]
    <3> SUFFICES ASSUME NEW m \in c..(L - 1) PROVE before[(v + 1) + 1 + m - c] = order'[m]
      BY <2>3
    <3>1. m + 1 \in c..L /\ (v + 1) + 1 + m - c = v + 1 + (m + 1) - c
      BY <1>2, <1>5
    <3> QED
      BY <1>8, <2>3, <3>1
  <2>7. ForwardAt(c)' /\ c \in 1..(Len(order') + 1)
    BY <1>2, <1>3, <1>5, <1>6, <1>8, <2>3, <2>5, <2>6 DEF ForwardAt
  <2>8. WalkOK'
    BY <1>3, <2>7 DEF WalkOK
  <2> QED
    BY <1>2, <1>3, <1>6, <2>3, <2>4, <2>8, Walking
<1> QED
  BY <1>9, <1>10

\* A turn of list_for_each_r.
LEMMA BackwardTurn ==
    ASSUME ListInv, mode = "backward", Keep \/ DeleteBackward
    PROVE  ListInv'
<1> DEFINE L == Len(order)
           v == Len(visited)
<1>1. HeapOK /\ CallerOK /\ EntriesOK /\ WalkOK /\ Linked
  BY InvParts
<1>2. L \in Nat /\ v \in Nat /\ before \in Seq(Node) /\ visited \in Seq(Node)
  BY <1>1 DEF HeapOK, CallerOK
<1>3. mode' = "backward" /\ before' = before /\ visited' = Append(visited, cursor) /\ arr' = {}
  BY InvParts DEF Keep, DeleteBackward, Meets, ArrOK
<1>4. PICK c \in 0..L : BackwardAt(c)
  BY <1>1 DEF WalkOK
<1>5. c \in 1..L /\ cursor = At(c) /\ cursor = order[c] /\ cursor \in Node
  <2>1. prev[cursor] # NULL
    BY DEF Keep, DeleteBackward, Meets, InLoop
  <2>2. c # 0
    BY <1>1, <1>4, <2>1, AtFacts DEF BackwardAt, Linked
  <2>3. c \in 1..L
    BY <1>2, <2>2
  <2> QED
    BY <1>1, <1>4, <2>3, AtFacts DEF BackwardAt
<1>6. Len(before) = v + c /\ \A m \in 1..c : before[m] = order[m]
  BY <1>4 DEF BackwardAt
<1>7. /\ visited' \in Seq(Node) /\ Len(visited') = v + 1
      /\ \A m \in 1..(v + 1) : visited'[m] = before[Len(before) + 1 - m]
  <2>1. before[Len(before) + 1 - (v + 1)] = cursor
    <3>1. Len(before) + 1 - (v + 1) = c
      BY <1>2, <1>5, <1>6
    <3> QED
      BY <1>5, <1>6, <3>1
  <2>2. visited' \in Seq(Node) /\ Len(visited') = v + 1 /\ visited'[v + 1] = cursor
        /\ \A m \in 1..v : visited'[m] = visited[m]
    BY <1>2, <1>3, <1>5
  <2>3. \A m \in 1..v : visited[m] = before[Len(before) + 1 - m]
    BY <1>4 DEF BackwardAt
  <2>4. \A m \in 1..(v + 1) : m = v + 1 \/ m \in 1..v
    BY <1>2
  <2> QED
    BY <2>1, <2>2, <2>3, <2>4
<1>8. c \in 0..L /\ next[At(c)] = At(c + 1) /\ c - 1 \in 0..L /\ (c - 1) + 1 = c
      /\ prev[At(c)] = At(c - 1) /\ prev[At(c + 1)] = At(c)
  <2>1. c \in 0..L /\ c - 1 \in 0..L /\ (c - 1) + 1 = c
    BY <1>2, <1>5
  <2> QED
    BY <1>1, <2>1 DEF Linked
<1>9. CASE Keep
  <2>1. HeapOK' /\ EntriesOK' /\ Linked' /\ order' = order /\ \A k : At(k)' = At(k)
    BY <1>1, <1>9, SameList DEF Keep, UnchangedList
  <2>2. cursor' = At(c - 1)
    BY <1>5, <1>8, <1>9 DEF Keep
  <2>3. BackwardAt(c - 1)' /\ c - 1 \in 0..Len(order')
    BY <1>2, <1>3, <1>5, <1>6, <1>7, <2>1, <2>2 DEF BackwardAt
  <2>4. WalkOK'
    BY <1>3, <2>3 DEF WalkOK
  <2> QED
    BY <1>2, <1>3, <1>7, <2>1, <2>4, Walking
<1>10. CASE DeleteBackward
  <2>1. Delete(order[c]) /\ cursor' = prev'[At(c + 1)]
    BY <1>5, <1>8, <1>10 DEF DeleteBackward
  <2>2. order' = Without(order[c]) /\ alive' = alive \ {order[c]}
    BY <2>1 DEF Delete
  <2>3. /\ EntriesOK' /\ Len(order') = L - 1
        /\ \A m \in 1..(c - 1) : order'[m] = order[m]
        /\ \A m \in c..L : At(m)' = At(m + 1)
    BY <1>1, <1>5, <2>2, WithoutFacts
  <2>4. HeapOK' /\ Linked'
    BY <1>1, <1>5, <2>1, DeleteLinks
  <2>5. cursor' = At(c - 1)'
    <3>1. c \in c..L /\ c - 1 \in 0..Len(order') /\ (c - 1) + 1 = c
      BY <1>2, <1>5, <2>3
    <3>2. prev'[At((c - 1) + 1)'] = At(c - 1)'
      BY <2>4, <3>1 DEF Linked
    <3> QED
      BY <2>1, <2>3, <3>1, <3>2
  <2>6. \A m \in 1..(c - 1) : before[m] = order'[m]
    BY <1>2, <1>5, <1>6, <2>3
  <2>7. BackwardAt(c - 1)' /\ c - 1 \in 0..Len(order')
    BY <1>2, <1>3, <1>5, <1>6, <1>7, <2>3, <2>5, <2>6 DEF BackwardAt
  <2>8. WalkOK'
    BY <1>3, <2>7 DEF WalkOK
  <2> QED
    BY <1>2, <1>3, <1>7, <2>3, <2>4, <2>8, Walking
<1> QED
  BY <1>9, <1>10

-----------------------------------------------------------------------------
(* list_free.                                                              *)

\* list_free begins with the first entry.
LEMMA FreeStartStep ==
    ASSUME ListInv, FreeStart
    PROVE  ListInv'
<1> DEFINE L == Len(order)
<1>1. HeapOK /\ CallerOK /\ EntriesOK /\ ArrOK /\ Linked /\ mode = "idle" /\ mode' = "freeing"
  BY InvParts DEF FreeStart
<1>2. HeapOK' /\ EntriesOK' /\ Linked' /\ order' = order /\ alive' = alive /\ \A k : At(k)' = At(k)
  BY <1>1, SameList DEF FreeStart, UnchangedList
<1>3. cursor' = At(1) /\ L \in Nat
  <2>1. 0 \in 0..L
    BY <1>1, AtFacts
  <2> QED
    BY <1>1, <2>1, AtFacts DEF Linked, FreeStart
<1>4. FreeingOK'
  <2>1. \A k \in 1..L : k \in 0..L /\ order'[k] = At(k)
    BY <1>1, <1>2, AtFacts
  <2>2. \A k \in 1..L : next'[order'[k]] = At(k + 1)'
    BY <1>1, <1>2, <2>1 DEF Linked, FreeStart, UnchangedList
  <2> QED
    BY <1>2, <1>3, <2>2 DEF FreeingOK, Linked
<1>5. cursor' \in alive' \cup {HEAD, TAIL}
  <2>1. L = 0 \/ 1 \in 1..L
    BY <1>3
  <2> QED
    BY <1>1, <1>2, <1>3, <2>1, AtFacts
<1>6. CallerOK' /\ ArrOK' /\ WalkOK'
  BY <1>1, <1>2, <1>5 DEF CallerOK, ArrOK, WalkOK, FreeStart
<1>7. ListTypeOK' /\ ListIsChain'
  BY <1>1, <1>2, <1>6, NextParts
<1> QED
  BY <1>4, <1>6, <1>7 DEF ListInv

\* The rest of the list is still linked forward when its first entry is gone.
LEMMA FreeEntryStep ==
    ASSUME ListInv, FreeEntry
    PROVE  ListInv'
<1> DEFINE L == Len(order)
<1>1. HeapOK /\ CallerOK /\ EntriesOK /\ ArrOK /\ FreeingOK /\ mode = "freeing" /\ mode' = "freeing"
  BY InvParts DEF FreeEntry
<1>2. L \in Nat /\ cursor = At(1) /\ next[TAIL] = NULL
      /\ \A k \in 1..L : next[order[k]] = At(k + 1)
  BY <1>1, AtFacts DEF FreeingOK
<1>3. 1 \in 1..L /\ cursor = order[1]
  <2>1. L # 0
    BY <1>1, <1>2, AtFacts DEF FreeEntry
  <2> QED
    BY <1>1, <1>2, <2>1, AtFacts
<1>4. order' = Without(order[1]) /\ alive' = alive \ {order[1]}
  BY <1>3 DEF FreeEntry
<1>5. /\ order' \in Seq(Node) /\ Len(order') = L - 1 /\ EntriesOK'
      /\ \A m \in 1..(L - 1) : order'[m] = order[m + 1]
      /\ \A m \in 1..L : At(m)' = At(m + 1)
  BY <1>1, <1>3, <1>4, WithoutFacts
<1>6. cursor' = At(1)'
  BY <1>2, <1>3, <1>5 DEF FreeEntry
<1>7. order[1] \in Node /\ order[1] \in Entry /\ order[1] # TAIL
      /\ \A m \in 1..L : m # 1 => order[m] # order[1]
  BY <1>1, <1>3, AtFacts, NoEntry DEF EntriesOK
<1>8. next' = [next EXCEPT ![order[1]] = Junk] /\ prev' = [prev EXCEPT ![order[1]] = Junk]
      /\ data' = [data EXCEPT ![order[1]] = Junk]
  BY <1>3 DEF FreeEntry
<1>9. next'[TAIL] = NULL /\ \A m \in 1..L : m # 1 => next'[order[m]] = next[order[m]]
  <2>1. \A m \in 1..L : order[m] \in Entry
    BY <1>1, AtFacts, NoEntry
  <2> QED
    BY <1>1, <1>2, <1>7, <1>8, <2>1, NoEntry DEF HeapOK
<1>10. FreeingOK'
  <2>1. ASSUME NEW k \in 1..(L - 1) PROVE next'[order'[k]] = At(k + 1)'
    <3>1. k + 1 \in 1..L /\ k + 1 # 1 /\ k \in 1..(L - 1)
      BY <1>2
    <3> QED
      BY <1>2, <1>5, <1>9, <3>1
  <2> QED
    BY <1>5, <1>6, <1>9, <2>1 DEF FreeingOK
<1>11. HeapOK'
  BY <1>1, <1>4, <1>5, <1>8 DEF HeapOK, FreeEntry
<1>12. cursor' \in alive' \cup {HEAD, TAIL}
  <2>1. \A k \in 1..(L - 1) : order'[k] \in alive'
    BY <1>5 DEF EntriesOK
  <2>2. At(1)' = IF Len(order') = 0 THEN TAIL ELSE order'[1]
    BY <1>2, <1>5 DEF At
  <2>3. L - 1 = 0 \/ 1 \in 1..(L - 1)
    <3>1. L \in Nat /\ L >= 1
      BY <1>2, <1>3
    <3> HIDE DEF L
    <3>2. L = 1 \/ L - 1 >= 1
      BY <3>1
    <3> QED
      BY <3>1, <3>2
  <2> QED
    BY <1>5, <1>6, <2>1, <2>2, <2>3
<1>13. CallerOK' /\ ArrOK' /\ WalkOK'
  BY <1>1, <1>12 DEF CallerOK, ArrOK, WalkOK, FreeEntry
<1>14. ListTypeOK' /\ ListIsChain'
  BY <1>1, <1>5, <1>11, <1>13, NextParts
<1> QED
  BY <1>10, <1>13, <1>14 DEF ListInv

\* At the tail no entry is left.
LEMMA FreeEndsStep ==
    ASSUME ListInv, FreeEnds
    PROVE  ListInv'
<1> DEFINE L == Len(order)
<1>1. HeapOK /\ CallerOK /\ EntriesOK /\ ArrOK /\ FreeingOK /\ mode = "freeing" /\ mode' = "freed"
  BY InvParts DEF FreeEnds
<1>2. alive = {}
  <2>1. L \in Nat /\ cursor = At(1) /\ \A k \in 1..L : next[order[k]] = At(k + 1)
    BY <1>1, AtFacts DEF FreeingOK
  <2>2. L = 0
    <3>1. SUFFICES ASSUME L # 0 PROVE FALSE
      OBVIOUS
    <3>2. 1 \in 1..L /\ 1 + 1 \in 0..(L + 1)
      BY <2>1, <3>1
    <3>3. next[At(1)] = At(1 + 1) /\ At(1 + 1) \in Entry
      BY <1>1, <2>1, <3>2, AtFacts
    <3> QED
      BY <2>1, <3>3, NoEntry DEF FreeEnds
  <2> QED
    BY <1>1, <2>2 DEF EntriesOK
<1>3. HeapOK'
  BY <1>1, NoEntry DEF HeapOK, FreeEnds
<1>4. EntriesOK'
  BY <1>1 DEF EntriesOK, FreeEnds
<1>5. CallerOK' /\ ArrOK' /\ WalkOK' /\ FreeingOK'
  BY <1>1 DEF CallerOK, ArrOK, WalkOK, FreeingOK, FreeEnds
<1>6. ListTypeOK' /\ ListIsChain'
  BY <1>1, <1>2, <1>3, <1>4, <1>5, NextParts DEF FreeEnds
<1> QED
  BY <1>5, <1>6 DEF ListInv

-----------------------------------------------------------------------------

LEMMA InitInv == ListInit => ListInv
<1> SUFFICES ASSUME ListInit PROVE ListInv
  OBVIOUS
<1>1. order = <<>> /\ Len(order) = 0 /\ order \in Seq(Node) /\ alive = {} /\ size = 0 /\ mode = "idle"
  BY DEF ListInit
<1>2. At(0) = HEAD /\ At(1) = TAIL
  BY <1>1 DEF At
<1>3. HeapOK
  BY <1>1, NoEntry DEF HeapOK, ListInit, Entry
<1>4. EntriesOK
  BY <1>1 DEF EntriesOK
<1>5. next[HEAD] = TAIL /\ next[TAIL] = NULL /\ prev[HEAD] = NULL /\ prev[TAIL] = HEAD
  BY NoEntry DEF ListInit
<1>6. Linked
  BY <1>1, <1>2, <1>5 DEF Linked
<1>7. CallerOK /\ FreeingOK /\ WalkOK /\ ArrOK
  BY <1>1 DEF ListInit, CallerOK, FreeingOK, WalkOK, ArrOK
<1> QED
  BY <1>1, <1>3, <1>4, <1>6, <1>7, Parts DEF ListInv

LEMMA StepInv == ListInv /\ [ListNext]_listVars => ListInv'
<1> SUFFICES ASSUME ListInv, [ListNext]_listVars PROVE ListInv'
  OBVIOUS
<1>1. CASE InsertAfter \/ InsertBefore
  BY <1>1, InsertStep
<1>2. CASE RefsStart \/ DeleteRef \/ RefsEnd \/ WalkEnd \/ DeleteAndBreak \/ SortData
  BY <1>2, RestingSteps
<1>3. CASE WalkStart
  BY <1>3, WalkStartStep
<1>4. CASE Keep \/ DeleteForward \/ DeleteBackward
  <2>1. mode = "forward" \/ mode = "backward"
    BY <1>4 DEF Keep, DeleteForward, DeleteBackward, Meets, InLoop
  <2>2. DeleteForward => mode = "forward"
    BY DEF DeleteForward
  <2>3. DeleteBackward => mode = "backward"
    BY DEF DeleteBackward
  <2>4. "forward" # "backward"
    OBVIOUS
  <2> QED
    BY <1>4, <2>1, <2>2, <2>3, <2>4, ForwardTurn, BackwardTurn
<1>5. CASE FreeStart
  BY <1>5, FreeStartStep
<1>6. CASE FreeEntry
  BY <1>6, FreeEntryStep
<1>7. CASE FreeEnds
  BY <1>7, FreeEndsStep
<1>8. CASE UNCHANGED listVars
  <2>1. UNCHANGED <<next, prev, data, size, alive, cursor, mode, arr, order, before, visited>>
    BY <1>8 DEF listVars
  <2>2. UnchangedList /\ \A k : At(k)' = At(k)
    BY <2>1 DEF UnchangedList, At
  <2>3. HeapOK' /\ EntriesOK' /\ (mode' \notin {"freeing", "freed"} => Linked')
    BY <2>1, <2>2, InvParts, SameList
  <2>4. CallerOK' /\ ArrOK' /\ FreeingOK' /\ (mode' = "freed" => alive' = {})
    BY <2>1, <2>2, InvParts DEF CallerOK, ArrOK, FreeingOK
  <2>5. WalkOK'
    <3>1. WalkOK
      BY InvParts
    <3>2. \A c : (ForwardAt(c) => ForwardAt(c)') /\ (BackwardAt(c) => BackwardAt(c)')
      BY <2>1, <2>2 DEF ForwardAt, BackwardAt
    <3> QED
      BY <2>1, <3>1, <3>2 DEF WalkOK
  <2>6. ListTypeOK' /\ ListIsChain'
    BY <2>3, <2>4, NextParts
  <2> QED
    BY <2>4, <2>5, <2>6 DEF ListInv
<1> QED
  BY <1>1, <1>2, <1>3, <1>4, <1>5, <1>6, <1>7, <1>8 DEF ListNext

\* The invariant of the list holds for good.
LEMMA InvHolds == ListSpec => []ListInv
BY InitInv, StepInv, PTL DEF ListSpec

\* No loop of list_for_each, list_for_each_r or list_free, and no array of
\* delete_refs, holds an entry that list_delete freed.
THEOREM NoFreedEntryHeld == ListSpec => []ListTypeOK
<1>1. ListInv => ListTypeOK
  BY DEF ListInv
<1> QED
  BY <1>1, InvHolds, PTL

\* Both chains of pointers and the size are those of the list the operations
\* describe, whatever the order in which entries come, go and are reused.
THEOREM ListStaysChain == ListSpec => []ListIsChain
<1>1. ListInv => ListIsChain
  BY DEF ListInv
<1> QED
  BY <1>1, InvHolds, PTL

\* A walk that deletes entries under itself meets all there were, each once.
THEOREM WalksAreComplete == ListSpec => []EachVisitedOnce
<1>1. ASSUME ListInv PROVE EachVisitedOnce
  <2> DEFINE L == Len(order)
             v == Len(visited)
  <2>1. HeapOK /\ CallerOK /\ EntriesOK /\ WalkOK
    BY <1>1, InvParts
  <2>2. L \in Nat /\ v \in Nat /\ before \in Seq(Node) /\ visited \in Seq(Node)
    BY <2>1 DEF HeapOK, CallerOK
  <2>3. ASSUME mode = "forward" PROVE EachVisitedOnce
    <3>1. Linked
      BY <1>1, <2>3, InvParts
    <3>2. PICK c \in 1..(L + 1) : ForwardAt(c)
      BY <2>1, <2>3 DEF WalkOK
    <3>3. Len(before) = v + (L + 1 - c) /\ \A m \in 1..v : visited[m] = before[m]
      BY <3>2 DEF ForwardAt
    <3>4. v <= Len(before) /\ visited = SubSeq(before, 1, v)
      BY <2>2, <3>3
    <3>5. CASE c = L + 1
      <4>1. ~InLoop
        BY <2>1, <2>3, <3>1, <3>2, <3>5, AtFacts DEF InLoop, ForwardAt, Linked
      <4>2. visited = before
        BY <2>2, <3>3, <3>5
      <4> QED
        BY <2>3, <3>4, <4>1, <4>2 DEF EachVisitedOnce
    <3>6. CASE c # L + 1
      <4>1. c \in 1..L /\ c \in 0..L /\ c + 1 \in 0..(L + 1)
        BY <2>2, <3>6
      <4>2. next[cursor] = At(c + 1) /\ At(c + 1) \in Entry /\ cursor = order[c]
        BY <2>1, <3>1, <3>2, <4>1, AtFacts DEF Linked, ForwardAt
      <4>3. InLoop
        BY <2>3, <4>2, NoEntry DEF InLoop
      <4>4. v < Len(before) /\ before[v + 1] = cursor
        <5>1. before[v + 1 + c - c] = order[c]
          BY <3>2, <4>1 DEF ForwardAt
        <5> QED
          BY <2>2, <3>3, <4>1, <4>2, <5>1
      <4> QED
        BY <2>3, <3>4, <4>3, <4>4 DEF EachVisitedOnce
    <3> QED
      BY <3>5, <3>6
  <2>4. ASSUME mode = "backward" PROVE EachVisitedOnce
    <3> DEFINE R == Reversed(before)
    <3>1. Linked
      BY <1>1, <2>4, InvParts
    <3>2. PICK c \in 0..L : BackwardAt(c)
      BY <2>1, <2>4 DEF WalkOK
    <3>3. /\ Len(before) = v + c
          /\ \A m \in 1..v : visited[m] = before[Len(before) + 1 - m]
          /\ \A m \in 1..c : before[m] = order[m]
      BY <3>2 DEF BackwardAt
    <3>4. R \in Seq(Node) /\ Len(R) = Len(before)
          /\ \A m \in 1..Len(before) : R[m] = before[Len(before) + 1 - m]
      <4>1. \A m \in 1..Len(before) : before[Len(before) + 1 - m] \in Node
        BY <2>2
      <4> QED
        BY <2>2, <4>1 DEF Reversed
    <3>5. v <= Len(R) /\ visited = SubSeq(R, 1, v)
      <4>1. \A m \in 1..v : m \in 1..Len(before) /\ visited[m] = R[m]
        BY <2>2, <3>3, <3>4
      <4> HIDE DEF R
      <4> QED
        BY <2>2, <3>3, <3>4, <4>1
    <3>6. CASE c = 0
      <4>1. ~InLoop
        BY <2>1, <2>4, <3>1, <3>2, <3>6, AtFacts DEF InLoop, BackwardAt, Linked
      <4>2. visited = R
        <5>1. \A m \in 1..v : m \in 1..Len(before) /\ visited[m] = R[m]
          BY <2>2, <3>3, <3>4
        <5> HIDE DEF R
        <5> QED
          BY <2>2, <3>3, <3>4, <3>6, <5>1
      <4> QED
        BY <2>4, <3>5, <4>1, <4>2 DEF EachVisitedOnce
    <3>7. CASE c # 0
      <4>1. c \in 1..L /\ c - 1 \in 0..L /\ (c - 1) + 1 = c /\ c - 1 \in 0..(L + 1)
        BY <2>2, <3>7
      <4>2. prev[cursor] = At(c - 1) /\ At(c - 1) \in Entry /\ cursor = order[c]
        BY <2>1, <3>1, <3>2, <4>1, AtFacts DEF Linked, BackwardAt
      <4>3. InLoop
        BY <2>4, <4>2, NoEntry DEF InLoop
      <4>4. v < Len(R) /\ R[v + 1] = cursor
        <5>1. Len(before) + 1 - (v + 1) = c /\ v + 1 \in 1..Len(before) /\ c \in 1..c
          BY <2>2, <3>3, <4>1
        <5>2. R[v + 1] = before[c]
          BY <3>4, <5>1
        <5> QED
          BY <2>2, <3>3, <3>4, <4>1, <4>2, <5>1, <5>2
      <4> QED
        BY <2>4, <3>5, <4>3, <4>4 DEF EachVisitedOnce
    <3> QED
      BY <3>6, <3>7
  <2> QED
    BY <2>3, <2>4 DEF EachVisitedOnce
<1> QED
  BY <1>1, InvHolds, PTL
=============================================================================
