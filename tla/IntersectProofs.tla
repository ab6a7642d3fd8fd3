--------------------------- MODULE IntersectProofs ---------------------------
(***************************************************************************)
(* intersect_uniq reports the intersection of any two sorted arrays, and   *)
(* no false orphan. (Intersect)                                            *)
(***************************************************************************)
EXTENDS Intersect, WellFoundedInduction, TLAPS

LEMMA TypeInit == Init => TypeOK
<1> SUFFICES ASSUME Init PROVE TypeOK
    OBVIOUS
<1> Key \subseteq Int
    BY KeyAssumption
<1>1. a \in [0..(asz - 1) -> Int] /\ b \in [0..(bsz - 1) -> Int]
    BY DEF Init
<1> QED
    BY <1>1, KeyAssumption DEF Init, TypeOK

LEMMA TypeStep == TypeOK /\ [Next]_vars => TypeOK'
<1> SUFFICES ASSUME TypeOK, [Next]_vars PROVE TypeOK'
    OBVIOUS
<1> USE DEF TypeOK, args
<1>1. CASE Outer
    BY <1>1 DEF Outer
<1>2. CASE Inner
    <2>1. i \in 0..(asz - 1) /\ j \in 0..(bsz - 1)
        BY <1>2 DEF Inner
    <2>2. cmp' \in Int
        <3>1. b[j] \in Int /\ a[i] \in Int
            BY <2>1
        <3> QED
            BY <1>2, <3>1 DEF Inner
    <2>3. j' \in 0..bsz /\ next' \in 0..bsz /\ (pc' = "equal" => j' < bsz)
        BY <1>2, <2>1 DEF Inner
    <2>4. pc' \in {"inner", "equal", "after"}
        BY <1>2 DEF Inner
    <2> QED
        BY <1>2, <2>1, <2>2, <2>3, <2>4 DEF Inner
<1>3. CASE InnerEnds
    BY <1>3 DEF InnerEnds
<1>4. CASE Equal
    BY <1>4 DEF Equal
<1>5. CASE Found
    <2>1. i \in 0..(asz - 1) /\ j \in 0..(bsz - 1)
        BY <1>5 DEF Found
    <2>2. hits' \subseteq (0..(asz - 1)) \X (0..(bsz - 1))
        BY <1>5, <2>1 DEF Found
    <2> QED
        BY <1>5, <2>2 DEF Found
<1>6. CASE After
    BY <1>6 DEF After
<1>7. CASE UNCHANGED vars
    BY <1>7 DEF vars
<1> QED
    BY <1>1, <1>2, <1>3, <1>4, <1>5, <1>6, <1>7 DEF Next, Done

\* The type invariant holds for arrays of any size.
THEOREM TypeCorrect == Spec => []TypeOK
<1>1. Init => TypeOK
    BY TypeInit
<1>2. TypeOK /\ [Next]_vars => TypeOK'
    BY TypeStep
<1> QED
    BY <1>1, <1>2, PTL DEF Spec

-----------------------------------------------------------------------------
(* The loop invariant.                                                     *)

Sorted ==
    /\ \A k, m \in 0..(asz - 1) : k < m => a[k] < a[m]
    /\ \A k, m \in 0..(bsz - 1) : k < m => b[k] <= b[m]

Reported(m) == \E h \in hits : h[1] = m

\* What is reported is right, and what is before i has been treated.
HitsRight == \A h \in hits : a[h[1]] = b[h[2]]
UniqsRight == \A m \in uniqs : ~InBoth(m)
Past == ~uniqf => \A m \in 0..(asz - 1) : m < i /\ InBoth(m) => Reported(m)

\* The entries of b that were passed over, at each point of the loop.
AtOuter == pc = "outer" /\ i < asz => \A k \in 0..(bsz - 1) : k < next => b[k] < a[i]
AtInner == pc = "inner" => \A k \in 0..(bsz - 1) : k < j => b[k] < a[i]
AtEqual == pc = "equal" =>
    /\ cmp = 0 /\ b[j] = a[i]
    /\ \A k \in 0..(bsz - 1) : k < next => b[k] <= a[i]
AtAfter == pc = "after" =>
    /\ \A k \in 0..(bsz - 1) : k < next \/ bsz <= j => b[k] <= a[i]
    /\ ~uniqf /\ InBoth(i) => Reported(i)
    /\ cmp # 0 => ~InBoth(i)
AtDone == pc = "done" /\ ~uniqf => \A m \in 0..(asz - 1) : InBoth(m) => Reported(m)

Loop == HitsRight /\ UniqsRight /\ Past /\ AtOuter /\ AtInner /\ AtEqual /\ AtAfter /\ AtDone
IInv == TypeOK /\ Sorted /\ Loop

LEMMA LoopInit == Init => Loop
BY DEF Init, Loop, HitsRight, UniqsRight, Past, AtOuter, AtInner, AtEqual, AtAfter, AtDone

\* The arrays are not written to.
LEMMA ArraysStay == [Next]_vars => UNCHANGED args
BY DEF Next, vars, args, Outer, Inner, InnerEnds, Equal, Found, After, Done

LEMMA SortedStep == Sorted /\ UNCHANGED args => Sorted'
BY DEF Sorted, args

LEMMA LoopStep == IInv /\ [Next]_vars => Loop'
<1> SUFFICES ASSUME IInv, [Next]_vars PROVE Loop'
    OBVIOUS
<1> USE DEF IInv, TypeOK, Loop
<1>0. UNCHANGED <<a, asz, b, bsz, uniqf>>
    BY ArraysStay DEF args
<1>n. \A m \in 0..(asz - 1) : InBoth(m)' <=> InBoth(m)
    BY <1>0 DEF InBoth
<1>t. TypeOK'
    BY TypeStep
<1>1. CASE Outer
    <2>1. HitsRight' /\ UniqsRight' /\ Past'
        BY <1>0, <1>1, <1>n DEF Outer, HitsRight, UniqsRight, Past, Reported
    <2>2. AtInner' /\ AtOuter'
        BY <1>0, <1>1 DEF Outer, AtInner, AtOuter
    <2>3. AtEqual' /\ AtAfter'
        BY <1>1 DEF Outer, AtEqual, AtAfter
    <2>4. AtDone'
        BY <1>0, <1>1, <1>n DEF Outer, AtDone, Past, Reported
    <2> QED
        BY <2>1, <2>2, <2>3, <2>4
<1>2. CASE Inner
    <2>0. i \in 0..(asz - 1) /\ j \in 0..(bsz - 1) /\ b[j] \in Int /\ a[i] \in Int
          /\ pc = "inner" /\ UNCHANGED <<i, hits, uniqs>>
        BY <1>2 DEF Inner
    <2>1. HitsRight' /\ UniqsRight' /\ Past'
        BY <1>0, <2>0, <1>n DEF HitsRight, UniqsRight, Past, Reported
    <2>2. CASE cmp' < 0 /\ j' = j + 1 /\ UNCHANGED <<next, pc>>
        <3>1. b[j] < a[i]
            BY <1>2, <2>0, <2>2 DEF Inner
        <3>2. AtInner'
            BY <1>0, <2>0, <2>2, <3>1 DEF AtInner
        <3> QED
            BY <2>0, <2>1, <2>2, <3>2 DEF AtOuter, AtEqual, AtAfter, AtDone
    <2>3. CASE cmp' > 0 /\ next' = j /\ pc' = "after" /\ UNCHANGED j
        <3>1. a[i] < b[j]
            BY <1>2, <2>0, <2>3 DEF Inner
        <3>2. \A k \in 0..(bsz - 1) : k < j => b[k] < a[i]
            BY <2>0 DEF AtInner
        <3>3. \A k \in 0..(bsz - 1) : j <= k => b[j] <= b[k] /\ b[k] \in Int
            BY <2>0 DEF Sorted
        <3>4. ~InBoth(i)
            <4>1. ASSUME NEW k \in 0..(bsz - 1) PROVE b[k] # a[i]
                BY <2>0, <3>1, <3>2, <3>3
            <4> QED
                BY <4>1 DEF InBoth
        <3>5. AtAfter'
            BY <1>0, <2>0, <2>3, <3>2, <3>4 DEF AtAfter, InBoth
        <3> QED
            BY <2>1, <2>3, <3>5 DEF AtOuter, AtInner, AtEqual, AtDone
    <2>4. CASE cmp' = 0 /\ next' = j + 1 /\ pc' = "equal" /\ UNCHANGED j
        <3>1. b[j] = a[i]
            BY <1>2, <2>0, <2>4 DEF Inner
        <3>2. AtEqual'
            BY <1>0, <2>0, <2>4, <3>1 DEF AtEqual, AtInner
        <3> QED
            BY <2>1, <2>4, <3>2 DEF AtOuter, AtInner, AtAfter, AtDone
    <2> QED
        BY <1>2, <2>2, <2>3, <2>4 DEF Inner
<1>3. CASE InnerEnds
    <2>1. HitsRight' /\ UniqsRight' /\ Past'
        BY <1>0, <1>3, <1>n DEF InnerEnds, HitsRight, UniqsRight, Past, Reported
    <2>2. \A k \in 0..(bsz - 1) : b[k] < a[i] /\ b[k] \in Int /\ a[i] \in Int
        BY <1>3 DEF InnerEnds, AtInner
    <2>3. AtAfter'
        BY <1>0, <1>3, <2>2 DEF InnerEnds, AtAfter, InBoth
    <2> QED
        BY <1>3, <2>1, <2>3 DEF InnerEnds, AtOuter, AtInner, AtEqual, AtDone
<1>4. CASE Equal
    <2>1. HitsRight' /\ UniqsRight' /\ Past'
        BY <1>0, <1>4, <1>n DEF Equal, HitsRight, UniqsRight, Past, Reported
    <2>2. AtEqual'
        <3>1. b[next] = a[i] /\ a[i] \in Int
            BY <1>4 DEF Equal, AtEqual
        <3>2. \A k \in 0..(bsz - 1) : k < next + 1 => b[k] <= a[i]
            BY <1>4, <3>1 DEF Equal, AtEqual
        <3> QED
            BY <1>0, <1>4, <3>2 DEF Equal, AtEqual
    <2> QED
        BY <1>4, <2>1, <2>2 DEF Equal, AtOuter, AtInner, AtAfter, AtDone
<1>5. CASE Found
    <2>0. i \in 0..(asz - 1) /\ b[j] = a[i] /\ cmp = 0 /\ j < bsz
          /\ pc = "equal" /\ pc' = "after" /\ UNCHANGED <<i, j, next, cmp, uniqs>>
        BY <1>5 DEF Found, AtEqual
    <2>1. HitsRight'
        <3>1. \A h \in hits' : h \in hits \/ h = <<i, j>>
            BY <1>5 DEF Found
        <3> QED
            BY <1>0, <2>0, <3>1 DEF HitsRight
    <2>2. UniqsRight' /\ Past'
        <3>1. \A m \in 0..(asz - 1) : Reported(m) => Reported(m)'
            BY <1>5 DEF Found, Reported
        <3> QED
            BY <1>0, <2>0, <1>n, <3>1 DEF UniqsRight, Past
    <2>3. AtAfter'
        <3>1. ~uniqf => Reported(i)'
            <4>1. ~uniqf => <<i, j>> \in hits'
                BY <1>5 DEF Found
            <4> QED
                BY <2>0, <4>1 DEF Reported
        <3> QED
            BY <1>0, <2>0, <3>1 DEF AtAfter, AtEqual
    <2> QED
        BY <2>0, <2>1, <2>2, <2>3 DEF AtOuter, AtInner, AtEqual, AtDone
<1>6. CASE After
    <2>0. i \in 0..(asz - 1) /\ a[i] \in Int /\ pc = "after" /\ UNCHANGED <<j, next, cmp, hits>>
        BY <1>6 DEF After
    <2>1. HitsRight'
        BY <1>0, <2>0 DEF HitsRight
    <2>2. UniqsRight'
        BY <1>0, <1>6, <1>n, <2>0 DEF After, UniqsRight, AtAfter
    <2>3. ~uniqf => \A m \in 0..(asz - 1) : m <= i /\ InBoth(m) => Reported(m)
        BY <2>0 DEF Past, AtAfter
    <2>4. \A m \in 0..(asz - 1) : i < m => a[i] < a[m] /\ a[m] \in Int
        BY <2>0 DEF Sorted
    <2>5. CASE ~uniqf /\ (next >= bsz \/ j >= bsz)
        <3>1. pc' = "done" /\ UNCHANGED i
            BY <1>6, <2>5 DEF After
        <3>2. \A k \in 0..(bsz - 1) : b[k] <= a[i] /\ b[k] \in Int
            BY <2>0, <2>5 DEF AtAfter
        <3>3. \A m \in 0..(asz - 1) : i < m => ~InBoth(m)
            BY <2>0, <2>4, <3>2 DEF InBoth
        <3>4. \A m \in 0..(asz - 1) : InBoth(m) => Reported(m)
            BY <2>0, <2>3, <2>5, <3>3
        <3>5. AtDone' /\ Past'
            BY <1>0, <1>n, <2>0, <3>1, <3>4 DEF AtDone, Past, Reported
        <3> QED
            BY <2>1, <2>2, <3>1, <3>5 DEF AtOuter, AtInner, AtEqual, AtAfter
    <2>6. CASE ~(~uniqf /\ (next >= bsz \/ j >= bsz))
        <3>1. pc' = "outer" /\ i' = i + 1
            BY <1>6, <2>6 DEF After
        <3>2. Past'
            BY <1>0, <1>n, <2>0, <2>3, <3>1 DEF Past, Reported
        <3>3. \A k \in 0..(bsz - 1) : k < next => b[k] <= a[i] /\ b[k] \in Int
            BY <2>0 DEF AtAfter
        <3>4. AtOuter'
            BY <1>0, <2>0, <2>4, <3>1, <3>3 DEF AtOuter
        <3> QED
            BY <2>1, <2>2, <3>1, <3>2, <3>4 DEF AtInner, AtEqual, AtAfter, AtDone
    <2> QED
        BY <2>5, <2>6
<1>7. CASE UNCHANGED vars
    BY <1>7, <1>0, <1>n DEF vars, HitsRight, UniqsRight, Past, AtOuter, AtInner, AtEqual,
        AtAfter, AtDone, Reported
<1> QED
    BY <1>1, <1>2, <1>3, <1>4, <1>5, <1>6, <1>7 DEF Next, Done

THEOREM Invariant == Spec => []IInv
<1>1. Init => IInv
    BY TypeInit, LoopInit DEF IInv, Init, Sorted
<1>2. IInv /\ [Next]_vars => IInv'
    BY TypeStep, ArraysStay, SortedStep, LoopStep DEF IInv
<1> QED
    BY <1>1, <1>2, PTL DEF Spec

\* intef gets the intersection of the two arrays, whatever their size.
THEOREM ReportsIntersection == Spec => []HitsAreIntersection
<1>1. IInv => HitsAreIntersection
    BY DEF IInv, Loop, HitsRight, AtDone, Reported, HitsAreIntersection
<1> QED
    BY <1>1, Invariant, PTL

\* uniqf gets nothing that is in the second array, whatever their size.
THEOREM ReportsNoFalseOrphan == Spec => []NoFalseOrphan
<1>1. IInv => NoFalseOrphan
    BY DEF IInv, Loop, UniqsRight, NoFalseOrphan
<1> QED
    BY <1>1, Invariant, PTL

-----------------------------------------------------------------------------
(* What uniqf gets: by the last comparison made, for whichever entry of a  *)
(* that was. It stays "equal" once the last entry of b has been met in a.  *)

Last == b[bsz - 1]
MetLast(n) == \E k \in 0..(asz - 1) : k < n /\ a[k] = Last
Wanted(m) ==
    /\ ~InBoth(m)
    /\ bsz > 0 /\ Last < a[m] => \A k \in 0..(asz - 1) : a[k] # Last

\* The entries of a that the comparisons so far are about.
Treated == IF pc = "after" THEN i + 1 ELSE i

Met ==
    /\ bsz = 0 => cmp # 0
    /\ pc # "equal" /\ bsz > 0 /\ next = bsz => cmp = 0 /\ MetLast(Treated)
    /\ pc = "equal" \/ next < bsz => ~MetLast(Treated)
Turn ==
    /\ pc = "inner" => next <= j /\ (next < j => cmp < 0)
    /\ pc = "equal" => j < next /\ \A k \in j..(next - 1) : b[k] = b[j]
    /\ pc = "after" => (cmp # 0 <=> Wanted(i))
Chosen ==
    /\ \A m \in 0..(asz - 1) : m \in uniqs <=> m < i /\ Wanted(m)
    /\ pc = "done" => i = asz
Unique == Met /\ Turn /\ Chosen

LEMMA UniqueInit == Init /\ uniqf => Unique
BY DEF Init, Unique, Met, Turn, Chosen, MetLast, Treated

\* What the order says of an entry of a and the last of b.
LEMMA LastFacts ==
    ASSUME IInv, bsz > 0
    PROVE  /\ Last \in Int /\ bsz - 1 \in 0..(bsz - 1)
           /\ \A k \in 0..(bsz - 1) : b[k] \in Int /\ b[k] <= Last
<1>1. bsz - 1 \in 0..(bsz - 1)
    BY DEF IInv, TypeOK
<1>2. ASSUME NEW k \in 0..(bsz - 1)
      PROVE  b[k] \in Int /\ b[k] <= Last
    BY <1>1 DEF IInv, TypeOK, Sorted, Last
<1> QED
    BY <1>1, <1>2 DEF IInv, TypeOK, Last

LEMMA UniqueStep == IInv /\ uniqf /\ Unique /\ [Next]_vars => Unique'
<1> SUFFICES ASSUME IInv, uniqf, Unique, [Next]_vars PROVE Unique'
    OBVIOUS
<1>0. UNCHANGED <<a, asz, b, bsz, uniqf>>
    BY ArraysStay DEF args
<1>t. TypeOK /\ TypeOK'
    BY TypeStep DEF IInv
<1>w. \A m \in 0..(asz - 1) : Wanted(m)' <=> Wanted(m)
    BY <1>0 DEF Wanted, InBoth, Last
<1>m. \A n : MetLast(n)' <=> MetLast(n)
    BY <1>0 DEF MetLast, Last
<1>1. CASE Outer
    <2>1. Met'
        BY <1>0, <1>1, <1>m DEF Outer, Unique, Met, Treated
    <2>2. Turn'
        BY <1>0, <1>1, <1>t DEF Outer, Turn, TypeOK
    <2>3. Chosen'
        BY <1>0, <1>1, <1>w, <1>t DEF Outer, Unique, Chosen, TypeOK
    <2> QED
        BY <2>1, <2>2, <2>3 DEF Unique
<1>2. CASE Inner
    <2>0. /\ i \in 0..(asz - 1) /\ j \in 0..(bsz - 1) /\ b[j] \in Int /\ a[i] \in Int
          /\ pc = "inner" /\ next <= j /\ next < bsz /\ bsz > 0 /\ next \in 0..bsz
          /\ UNCHANGED <<i, hits, uniqs>>
        BY <1>2, <1>t DEF Inner, TypeOK, Unique, Turn
    <2>1. Chosen'
        BY <1>0, <1>2, <1>w, <2>0 DEF Inner, Unique, Chosen
    <2>m. ~MetLast(i)
        BY <2>0 DEF Unique, Met, Treated
    <2>2. CASE cmp' < 0 /\ j' = j + 1 /\ UNCHANGED <<next, pc>>
        BY <1>0, <1>m, <2>0, <2>1, <2>2, <2>m DEF Unique, Met, Turn, Treated
    <2>3. CASE cmp' > 0 /\ next' = j /\ pc' = "after" /\ UNCHANGED j
        <3>1. a[i] < b[j] /\ b[j] <= Last /\ Last \in Int
            BY <1>2, <2>0, <2>3, LastFacts DEF Inner
        <3>2. ~MetLast(i + 1)
            BY <2>0, <2>m, <3>1 DEF MetLast
        <3>3. Met'
            BY <1>0, <1>m, <2>0, <2>3, <3>2 DEF Met, Treated
        <3>4. cmp' # 0 /\ ~InBoth(i)
            <4>1. Loop' /\ cmp' # 0
                BY <2>3, LoopStep
            <4> QED
                BY <1>0, <2>0, <2>3, <4>1 DEF Loop, AtAfter, InBoth
        <3>5. Wanted(i)
            BY <2>0, <3>1, <3>4 DEF Wanted
        <3>6. Turn'
            BY <1>w, <2>0, <2>3, <3>4, <3>5 DEF Turn
        <3> QED
            BY <2>1, <3>3, <3>6 DEF Unique
    <2>4. CASE cmp' = 0 /\ next' = j + 1 /\ pc' = "equal" /\ UNCHANGED j
        <3>1. Met'
            BY <1>0, <1>m, <2>0, <2>4, <2>m DEF Met, Treated
        <3>2. Turn'
            BY <1>0, <2>0, <2>4 DEF Turn
        <3> QED
            BY <2>1, <3>1, <3>2 DEF Unique
    <2> QED
        BY <1>2, <2>2, <2>3, <2>4 DEF Inner
<1>3. CASE InnerEnds
    <2>0. /\ i \in 0..(asz - 1) /\ a[i] \in Int /\ pc = "inner" /\ pc' = "after"
          /\ j = bsz /\ bsz \in Nat /\ next \in 0..bsz /\ cmp \in Int
          /\ UNCHANGED <<i, j, next, cmp, hits, uniqs>>
        BY <1>3, <1>t DEF InnerEnds, TypeOK
    <2>1. Chosen'
        BY <1>0, <1>w, <2>0 DEF Unique, Chosen
    <2>2. \A k \in 0..(bsz - 1) : b[k] < a[i] /\ b[k] \in Int
        BY <2>0, <1>t DEF IInv, Loop, AtInner, TypeOK
    <2>3. ~InBoth(i)
        BY <2>0, <2>2 DEF InBoth
    <2>4. CASE bsz = 0
        <3>1. cmp # 0 /\ Wanted(i)
            BY <2>3, <2>4 DEF Unique, Met, Wanted
        <3> QED
            BY <1>0, <1>w, <2>0, <2>1, <2>4, <3>1 DEF Unique, Met, Turn
    <2>5. CASE bsz > 0 /\ next = bsz
        <3>1. cmp = 0 /\ MetLast(i)
            BY <2>0, <2>5 DEF Unique, Met, Treated
        <3>2. PICK k \in 0..(asz - 1) : k < i /\ a[k] = Last
            BY <3>1 DEF MetLast
        <3>3. Last < a[i]
            BY <2>2, <2>5, LastFacts DEF Last
        <3>4. ~Wanted(i)
            BY <2>5, <3>2, <3>3 DEF Wanted
        <3>5. MetLast(i + 1)
            BY <2>0, <3>2 DEF MetLast
        <3> QED
            BY <1>0, <1>m, <1>w, <2>0, <2>1, <2>5, <3>1, <3>4, <3>5
               DEF Unique, Met, Turn, Treated
    <2>6. CASE bsz > 0 /\ next < bsz
        <3>1. cmp < 0 /\ ~MetLast(i)
            BY <2>0, <2>6 DEF Unique, Met, Turn, Treated
        <3>2. Last < a[i] /\ Last \in Int
            BY <2>2, <2>6, LastFacts DEF Last
        <3>3. ASSUME NEW k \in 0..(asz - 1), i <= k
              PROVE  a[i] <= a[k] /\ a[k] \in Int
            <4>1. a[k] \in Int
                BY <1>t DEF TypeOK
            <4>2. i < k => a[i] < a[k]
                BY <2>0 DEF IInv, Sorted
            <4>3. i = k \/ i < k
                BY <2>0, <3>3
            <4> QED
                BY <2>0, <4>1, <4>2, <4>3
        <3>4. \A k \in 0..(asz - 1) : a[k] # Last
            BY <2>0, <3>1, <3>2, <3>3 DEF MetLast
        <3>5. Wanted(i) /\ ~MetLast(i + 1)
            BY <2>3, <3>4 DEF Wanted, MetLast
        <3> QED
            BY <1>0, <1>m, <1>w, <2>0, <2>1, <2>6, <3>1, <3>5 DEF Unique, Met, Turn, Treated
    <2> QED
        BY <2>0, <2>4, <2>5, <2>6
<1>4. CASE Equal
    <2>1. Chosen'
        BY <1>0, <1>4, <1>w DEF Equal, Unique, Chosen
    <2>2. Met'
        BY <1>0, <1>4, <1>m DEF Equal, Unique, Met, Treated
    <2>3. Turn'
        BY <1>0, <1>4, <1>t DEF Equal, Unique, Turn, TypeOK
    <2> QED
        BY <2>1, <2>2, <2>3 DEF Unique
<1>5. CASE Found
    <2>0. /\ i \in 0..(asz - 1) /\ j \in 0..(bsz - 1) /\ b[j] = a[i] /\ cmp = 0
          /\ j < next /\ next \in 0..bsz /\ bsz \in Nat /\ bsz > 0
          /\ pc = "equal" /\ pc' = "after" /\ UNCHANGED <<i, j, next, cmp, uniqs>>
        BY <1>5, <1>t DEF Found, TypeOK, IInv, Loop, AtEqual, Unique, Turn
    <2>1. Chosen'
        BY <1>0, <1>w, <2>0 DEF Unique, Chosen
    <2>2. InBoth(i) /\ ~Wanted(i)
        BY <2>0 DEF InBoth, Wanted
    <2>3. Turn'
        BY <1>w, <2>0, <2>2 DEF Turn
    <2>4. CASE next = bsz
        <3>1. a[i] = Last
            BY <2>0, <2>4 DEF Unique, Turn, Last
        <3>2. MetLast(i + 1)
            BY <2>0, <3>1 DEF MetLast
        <3> QED
            BY <1>0, <1>m, <2>0, <2>1, <2>3, <2>4, <3>2 DEF Unique, Met, Treated
    <2>5. CASE next < bsz
        <3>1. b[j] # b[next] /\ next \in 0..(bsz - 1) /\ b[j] \in Int /\ b[next] \in Int
            BY <1>5, <1>t, <2>0, <2>5 DEF Found, TypeOK
        <3>2. b[j] <= b[next] /\ b[next] <= Last /\ Last \in Int
            BY <2>0, <2>5, <3>1, LastFacts DEF IInv, Sorted
        <3>3. a[i] # Last
            BY <2>0, <3>1, <3>2
        <3>4. ~MetLast(i)
            BY <2>0 DEF Unique, Met, Treated
        <3>5. ~MetLast(i + 1)
            BY <2>0, <3>3, <3>4 DEF MetLast
        <3> QED
            BY <1>0, <1>m, <2>0, <2>1, <2>3, <2>5, <3>5 DEF Unique, Met, Treated
    <2> QED
        BY <2>0, <2>4, <2>5
<1>6. CASE After
    <2>0. /\ i \in 0..(asz - 1) /\ pc = "after" /\ pc' = "outer" /\ i' = i + 1
          /\ uniqs' = (IF cmp # 0 THEN uniqs \cup {i} ELSE uniqs)
          /\ UNCHANGED <<j, next, cmp, hits>>
        BY <1>6, <1>t DEF After, TypeOK
    <2>1. Met'
        BY <1>0, <1>m, <2>0 DEF Unique, Met, Treated
    <2>2. Turn'
        BY <2>0 DEF Turn
    <2>3. Chosen'
        <3>1. \A m \in 0..(asz - 1) : m \in uniqs' <=> m < i + 1 /\ Wanted(m)
            BY <2>0 DEF Unique, Turn, Chosen
        <3> QED
            BY <1>0, <1>w, <2>0, <3>1 DEF Chosen
    <2> QED
        BY <2>1, <2>2, <2>3 DEF Unique
<1>7. CASE UNCHANGED vars
    <2>1. UNCHANGED <<pc, i, j, next, cmp, uniqs>>
        BY <1>7 DEF vars
    <2> QED
        BY <1>0, <1>m, <1>w, <1>t, <2>1 DEF Unique, Met, Turn, Chosen, Treated, TypeOK
<1> QED
    BY <1>1, <1>2, <1>3, <1>4, <1>5, <1>6, <1>7 DEF Next, Done

\* uniqf gets what is only in the first array, up to the last entry of the
\* second, and what is behind it only if that one is in the first array neither:
\* exactly this, whatever the sizes.
THEOREM ReportsOrphansUpToLast == Spec => []ReportsUpToLastMatch
<1>1. Init => (uniqf => Unique)
    BY UniqueInit
<1>2. IInv /\ (uniqf => Unique) /\ [Next]_vars => (uniqf => Unique)'
    <2>1. [Next]_vars => uniqf' = uniqf
        BY ArraysStay DEF args
    <2> QED
        BY <2>1, UniqueStep
<1>3. IInv /\ (uniqf => Unique) => ReportsUpToLastMatch
    <2> SUFFICES ASSUME IInv, uniqf, Unique, pc = "done"
                 PROVE  uniqs = {m \in 0..(asz - 1) : Wanted(m)}
        BY DEF ReportsUpToLastMatch, Wanted, Last
    <2>1. \A m \in 0..(asz - 1) : m \in uniqs <=> Wanted(m)
        BY DEF Unique, Chosen, IInv, TypeOK
    <2>2. uniqs \subseteq 0..(asz - 1)
        BY DEF IInv, TypeOK
    <2> QED
        BY <2>1, <2>2
<1> QED
    BY <1>1, <1>2, <1>3, Invariant, PTL DEF Spec

-----------------------------------------------------------------------------
(* The pass ends: every turn of its loops lowers a triple of naturals.     *)

Less == {p \in Nat \X Nat : p[1] < p[2]}
Triple == Nat \X (Nat \X Nat)
Below == LexPairOrdering(Less, LexPairOrdering(Less, Less, Nat, Nat), Nat, Nat \X Nat)

Phase == [outer |-> 4, inner |-> 3, equal |-> 2, after |-> 1, done |-> 0]

\* What is left of a, of the loop body, and of b for the loop in it.
Countdown ==
    <<asz - i,
      <<Phase[pc], IF pc = "inner" THEN bsz - j ELSE IF pc = "equal" THEN bsz - next ELSE 0>>>>

LEMMA LessWellFounded == IsWellFoundedOn(Less, Nat)
<1>1. IsWellFoundedOn(OpToRel(<, Nat), Nat)
    BY NatLessThanWellFounded
<1> QED
    BY <1>1 DEF OpToRel, Less

\* No triple can be lowered for ever.
LEMMA BelowWellFounded == IsWellFoundedOn(Below, Triple)
BY LessWellFounded, WFLexPairOrdering DEF Below, Triple

LEMMA BelowIs ==
    ASSUME NEW x \in Triple, NEW y \in Triple,
           \/ x[1] < y[1]
           \/ x[1] = y[1] /\ x[2][1] < y[2][1]
           \/ x[1] = y[1] /\ x[2][1] = y[2][1] /\ x[2][2] < y[2][2]
    PROVE  <<x, y>> \in Below
BY DEF Below, Triple, Less, LexPairOrdering

IsTriple == Countdown \in Triple

LEMMA CountdownTyped == TypeOK => IsTriple
<1> SUFFICES ASSUME TypeOK PROVE IsTriple
    OBVIOUS
<1>1. Phase[pc] \in Nat
    BY DEF Phase, TypeOK
<1>2. asz - i \in Nat /\ bsz - j \in Nat /\ bsz - next \in Nat
    BY DEF TypeOK
<1> QED
    BY <1>1, <1>2 DEF IsTriple, Countdown, Triple

\* A step that changes anything leaves less to do.
Lowered == <<Countdown', Countdown>> \in Below

LEMMA CountdownFalls == TypeOK /\ [Next]_vars => [Lowered]_vars
<1>t. TypeOK' => IsTriple'
    BY CountdownTyped, PTL
<1> SUFFICES ASSUME TypeOK, Next, ~UNCHANGED vars PROVE <<Countdown', Countdown>> \in Below
    BY DEF Lowered
<1> DEFINE Left == Countdown[2][2]
<1>0. Countdown \in Triple /\ Countdown' \in Triple
    BY <1>t, TypeStep, CountdownTyped DEF IsTriple
<1>1. asz' = asz /\ bsz' = bsz
    BY ArraysStay DEF args
<1>2. /\ Countdown[1] = asz - i /\ Countdown[2][1] = Phase[pc]
      /\ Left = IF pc = "inner" THEN bsz - j ELSE IF pc = "equal" THEN bsz - next ELSE 0
      /\ Countdown'[1] = asz - i' /\ Countdown'[2][1] = Phase[pc']
      /\ Left' = IF pc' = "inner" THEN bsz - j' ELSE IF pc' = "equal" THEN bsz - next' ELSE 0
    BY <1>1 DEF Countdown
<1>3. asz \in Nat /\ bsz \in Nat /\ i \in Nat /\ j \in Nat /\ next \in Nat
    BY DEF TypeOK
<1> HIDE DEF Left
<1>4. \/ asz - i' < asz - i
      \/ i' = i /\ Phase[pc'] < Phase[pc]
      \/ i' = i /\ pc' = pc /\ Left' < Left
    <2>1. CASE Outer
        BY <2>1 DEF Outer, Phase, vars, args
    <2>2. CASE Inner
        BY <1>2, <1>3, <2>2 DEF Inner, Phase
    <2>3. CASE InnerEnds
        BY <2>3 DEF InnerEnds, Phase
    <2>4. CASE Equal
        BY <1>2, <1>3, <2>4 DEF Equal
    <2>5. CASE Found
        BY <2>5 DEF Found, Phase
    <2>6. CASE After
        BY <1>3, <2>6 DEF After, Phase
    <2> QED
        BY <2>1, <2>2, <2>3, <2>4, <2>5, <2>6 DEF Next, Done
<1> QED
    BY <1>0, <1>2, <1>4, BelowIs DEF Left

\* The pass over any two arrays takes no more turns than a triple of naturals
\* can be lowered: every step that changes anything lowers it, in an order
\* without infinite descent, although j goes back to next for each entry of a.
THEOREM EveryTurnCounts ==
    /\ IsWellFoundedOn(Below, Triple)
    /\ Spec => [][Lowered]_vars
<1>1. IsWellFoundedOn(Below, Triple)
    BY BelowWellFounded
<1>2. TypeOK /\ [Next]_vars => [Lowered]_vars
    BY CountdownFalls
<1> QED
    BY <1>1, <1>2, TypeCorrect, PTL DEF Spec
=============================================================================
