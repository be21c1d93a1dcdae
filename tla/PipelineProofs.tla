--------------------------- MODULE PipelineProofs ---------------------------
(***************************************************************************)
(* What heaptrack_interpret makes of the raw stream, for any values of the *)
(* constants: its map from addresses to infos and its statistics follow    *)
(* the stream (EventsAreFollowed), and the lines it writes are what        *)
(* TraceData assumes of a data file (FileIsForTraceData).                  *)
(*                                                                         *)
(* Below that, PointerMap is a map for any size of the pages               *)
(* (PointerAdded, PointerTaken).  The places of a page are sorted, so that *)
(* std::lower_bound finds a place if it is there and where it belongs if   *)
(* not; At relates the places of a page to their infos.                    *)
(*                                                                         *)
(* Recursive functions of the model are first shown to exist, place by     *)
(* place, with induction over a set of numbers.                            *)
(***************************************************************************)
EXTENDS Pipeline, SequenceTheorems, FiniteSetTheorems, WellFoundedInduction, TLAPS

-----------------------------------------------------------------------------
(* PointerMap                                                              *)

\* The places of a page.
Smalls == 0 .. PageSize - 1

\* No place occurs twice, and they are in order.
Sorted(parts) == \A i, j \in 1 .. Len(parts) : i < j => parts[i] < parts[j]

\* A page is two vectors of the same length, the places in order.
PageOK(page, Infos) ==
    /\ page \in [smallPtrParts : Seq(Smalls), allocationIndices : Seq(Infos)]
    /\ Sorted(page.smallPtrParts)
    /\ Len(page.allocationIndices) = Len(page.smallPtrParts)

\* No page is empty.
MapOK(map, Infos) ==
    \A b \in DOMAIN map : PageOK(map[b], Infos) /\ map[b].allocationIndices # <<>>

\* The page has the info at the place.
At(page, small, info) ==
    \E n \in 1 .. Len(page.smallPtrParts) :
        page.smallPtrParts[n] = small /\ page.allocationIndices[n] = info

\* An address is its page and its place.
LEMMA SplitPointer ==
    ASSUME NEW p \in Nat, NEW q \in Nat
    PROVE  /\ Big(p) \in Nat /\ Small(p) \in Smalls
           /\ Big(p) = Big(q) /\ Small(p) = Small(q) => p = q
<1>1. Big(p) \in Nat /\ Small(p) \in 0 .. PageSize - 1 /\ p = PageSize * Big(p) + Small(p)
  BY PointerMapAssumption DEF Big, Small
<1>2. p = PageSize * Big(p) + Small(p) /\ q = PageSize * Big(q) + Small(q)
  BY PointerMapAssumption DEF Big, Small
<1> QED
  BY <1>1, <1>2 DEF Smalls

\* Where std::lower_bound splits a sorted vector.
LEMMA LowerBoundSplits ==
    ASSUME NEW parts \in Seq(Smalls), Sorted(parts), NEW small \in Smalls
    PROVE  /\ LowerBound(parts, small) \in 1 .. Len(parts) + 1
           /\ \A n \in 1 .. Len(parts) : n < LowerBound(parts, small) <=> parts[n] < small
<1>1. Len(parts) \in Nat /\ DOMAIN parts = 1 .. Len(parts)
  BY LenProperties
<1>2. \A n \in 1 .. Len(parts) : parts[n] \in Nat
  BY PointerMapAssumption, <1>1, ElementOfSeq DEF Smalls
<1>3. small \in Nat
  BY DEF Smalls
<1> DEFINE above == {n \in 1 .. Len(parts) + 1 : n = Len(parts) + 1 \/ ~ parts[n] < small}
           less == OpToRel(<, Nat)
<1>4. above \subseteq Nat /\ above # {}
  BY <1>1
<1>5. IsWellFoundedOn(less, Nat)
  BY NatLessThanWellFounded
<1>6. \A j, k \in Nat : j < k => <<j, k>> \in less
  BY DEF OpToRel
<1> HIDE DEF less
<1>7. PICK m \in above : \A j \in above : <<j, m>> \notin less
  BY <1>4, <1>5, WFMin
<1>8. m \in 1 .. Len(parts) + 1
  OBVIOUS
<1>9. \A n \in 1 .. Len(parts) : n < m => parts[n] < small
  <2> SUFFICES ASSUME NEW n \in 1 .. Len(parts), n < m PROVE parts[n] < small
    OBVIOUS
  <2>1. n \in Nat /\ m \in Nat /\ n \in 1 .. Len(parts) + 1 /\ n # Len(parts) + 1
    BY <1>1, <1>8
  <2>2. n \notin above
    BY <1>6, <1>7, <2>1
  <2> QED
    BY <2>1, <2>2
<1>10. \A n \in 1 .. Len(parts) : ~ n < m => ~ parts[n] < small
  <2> SUFFICES ASSUME NEW n \in 1 .. Len(parts), ~ n < m PROVE ~ parts[n] < small
    OBVIOUS
  <2>1. m \in 1 .. Len(parts) /\ ~ parts[m] < small
    BY <1>1, <1>8
  <2>2. CASE n = m
    BY <2>1, <2>2
  <2>3. CASE m < n
    <3>1. parts[m] < parts[n]
      BY <2>1, <2>3 DEF Sorted
    <3> QED
      BY <1>2, <1>3, <2>1, <3>1
  <2> QED
    BY <1>1, <1>8, <2>2, <2>3
<1>11. {n \in DOMAIN parts : parts[n] < small} = 1 .. m - 1
  BY <1>1, <1>8, <1>9, <1>10
<1>12. Cardinality(1 .. m - 1) = m - 1
  BY <1>1, <1>8, FS_Interval
<1>13. LowerBound(parts, small) = m
  <2>1. LowerBound(parts, small) = Cardinality(1 .. m - 1) + 1
    BY <1>11 DEF LowerBound
  <2> QED
    BY <1>8, <1>12, <2>1
<1> HIDE DEF above
<1> QED
  BY <1>8, <1>9, <1>10, <1>13

\* The elements after an insertion.
LEMMA Inserted ==
    ASSUME NEW S, NEW s \in Seq(S), NEW e \in S, NEW at \in 1 .. Len(s) + 1
    PROVE  /\ InsertAt(s, at, e) \in Seq(S) /\ Len(InsertAt(s, at, e)) = Len(s) + 1
           /\ \A n \in 1 .. Len(s) + 1 :
                 InsertAt(s, at, e)[n] = IF n < at THEN s[n] ELSE IF n = at THEN e ELSE s[n - 1]
<1>1. Len(s) \in Nat /\ \A n \in 1 .. Len(s) : s[n] \in S
  BY LenProperties, ElementOfSeq
<1> DEFINE front == SubSeq(s, 1, at - 1)
           back == SubSeq(s, at, Len(s))
           one == <<e>>
<1>2. at - 1 \in Int /\ at \in Int /\ Len(s) \in Int
      /\ (\A i \in 1 .. at - 1 : s[i] \in S) /\ (\A i \in at .. Len(s) : s[i] \in S)
  BY <1>1
<1>3. /\ front \in Seq(S) /\ Len(front) = at - 1
      /\ \A i \in 1 .. at - 1 : front[i] = s[i]
  <2>1. /\ front \in Seq(S) /\ Len(front) = IF 1 <= at - 1 THEN at - 1 - 1 + 1 ELSE 0
        /\ \A i \in 1 .. at - 1 - 1 + 1 : front[i] = s[1 + i - 1]
    BY <1>2, SubSeqProperties
  <2> HIDE DEF front
  <2> QED
    BY <1>2, <2>1
<1>4. /\ back \in Seq(S) /\ Len(back) = Len(s) - at + 1
      /\ \A i \in 1 .. Len(s) - at + 1 : back[i] = s[at + i - 1]
  <2>1. /\ back \in Seq(S) /\ Len(back) = IF at <= Len(s) THEN Len(s) - at + 1 ELSE 0
        /\ \A i \in 1 .. Len(s) - at + 1 : back[i] = s[at + i - 1]
    BY <1>2, SubSeqProperties
  <2> HIDE DEF back
  <2> QED
    BY <1>1, <1>2, <2>1
<1>5. one \in Seq(S) /\ Len(one) = 1 /\ one[1] = e
  OBVIOUS
<1> HIDE DEF front, back, one
<1> DEFINE both == front \o one
<1>6. /\ both \in Seq(S) /\ Len(both) = at
      /\ \A i \in 1 .. at : both[i] = IF i < at THEN s[i] ELSE e
  <2>1. /\ both \in Seq(S) /\ Len(both) = Len(front) + Len(one)
        /\ \A i \in 1 .. Len(front) + Len(one) :
              both[i] = IF i <= Len(front) THEN front[i] ELSE one[i - Len(front)]
    BY <1>3, <1>5, ConcatProperties
  <2> HIDE DEF both
  <2>2. Len(both) = at
    BY <1>2, <1>3, <1>5, <2>1
  <2> SUFFICES ASSUME NEW i \in 1 .. at PROVE both[i] = IF i < at THEN s[i] ELSE e
    BY <2>1, <2>2
  <2>3. both[i] = IF i <= at - 1 THEN front[i] ELSE one[i - (at - 1)]
    BY <1>2, <1>3, <1>5, <2>1
  <2>4. CASE i < at
    BY <1>3, <2>3, <2>4
  <2>5. CASE i = at
    <3>1. i - (at - 1) = 1
      BY <2>5
    <3> QED
      BY <1>5, <2>3, <2>5, <3>1
  <2> QED
    BY <2>4, <2>5
<1> HIDE DEF both
<1> DEFINE all == both \o back
<1>7. /\ all \in Seq(S) /\ Len(all) = Len(s) + 1
      /\ \A n \in 1 .. Len(s) + 1 : all[n] = IF n < at THEN s[n] ELSE IF n = at THEN e ELSE s[n - 1]
  <2>1. /\ all \in Seq(S) /\ Len(all) = Len(both) + Len(back)
        /\ \A i \in 1 .. Len(both) + Len(back) :
              all[i] = IF i <= Len(both) THEN both[i] ELSE back[i - Len(both)]
    BY <1>4, <1>6, ConcatProperties
  <2> HIDE DEF all
  <2>2. Len(both) + Len(back) = Len(s) + 1
    BY <1>1, <1>4, <1>6
  <2> SUFFICES ASSUME NEW n \in 1 .. Len(s) + 1
               PROVE  all[n] = IF n < at THEN s[n] ELSE IF n = at THEN e ELSE s[n - 1]
    BY <2>1, <2>2
  <2>3. all[n] = IF n <= at THEN both[n] ELSE back[n - at]
    BY <1>6, <2>1, <2>2
  <2>4. CASE n <= at
    BY <1>6, <2>3, <2>4
  <2>5. CASE at < n
    <3>1. n - at \in 1 .. Len(s) - at + 1 /\ at + (n - at) - 1 = n - 1
      BY <1>1, <2>5
    <3> QED
      BY <1>4, <2>3, <2>5, <3>1
  <2> QED
    BY <2>4, <2>5
<1>8. InsertAt(s, at, e) = all
  BY DEF InsertAt, all, both, front, back, one
<1> QED
  BY <1>7, <1>8

\* The elements after a removal.
LEMMA Removed ==
    ASSUME NEW S, NEW s \in Seq(S), NEW at \in 1 .. Len(s)
    PROVE  /\ RemoveAt(s, at) \in Seq(S) /\ Len(RemoveAt(s, at)) = Len(s) - 1
           /\ \A n \in 1 .. Len(s) - 1 : RemoveAt(s, at)[n] = IF n < at THEN s[n] ELSE s[n + 1]
<1>1. Len(s) \in Nat /\ \A n \in 1 .. Len(s) : s[n] \in S
  BY LenProperties, ElementOfSeq
<1> DEFINE front == SubSeq(s, 1, at - 1)
           back == SubSeq(s, at + 1, Len(s))
<1>2. at - 1 \in Int /\ at + 1 \in Int /\ at \in Int /\ Len(s) \in Int
      /\ (\A i \in 1 .. at - 1 : s[i] \in S) /\ (\A i \in at + 1 .. Len(s) : s[i] \in S)
  BY <1>1
<1>3. /\ front \in Seq(S) /\ Len(front) = at - 1
      /\ \A i \in 1 .. at - 1 : front[i] = s[i]
  <2>1. /\ front \in Seq(S) /\ Len(front) = IF 1 <= at - 1 THEN at - 1 - 1 + 1 ELSE 0
        /\ \A i \in 1 .. at - 1 - 1 + 1 : front[i] = s[1 + i - 1]
    BY <1>2, SubSeqProperties
  <2> HIDE DEF front
  <2> QED
    BY <1>2, <2>1
<1>4. /\ back \in Seq(S) /\ Len(back) = Len(s) - at
      /\ \A i \in 1 .. Len(s) - at : back[i] = s[at + i]
  <2>1. /\ back \in Seq(S)
        /\ Len(back) = IF at + 1 <= Len(s) THEN Len(s) - (at + 1) + 1 ELSE 0
        /\ \A i \in 1 .. Len(s) - (at + 1) + 1 : back[i] = s[at + 1 + i - 1]
    BY <1>2, SubSeqProperties
  <2> HIDE DEF back
  <2> QED
    BY <1>1, <1>2, <2>1
<1> HIDE DEF front, back
<1> DEFINE all == front \o back
<1>5. /\ all \in Seq(S) /\ Len(all) = Len(s) - 1
      /\ \A n \in 1 .. Len(s) - 1 : all[n] = IF n < at THEN s[n] ELSE s[n + 1]
  <2>1. /\ all \in Seq(S) /\ Len(all) = Len(front) + Len(back)
        /\ \A i \in 1 .. Len(front) + Len(back) :
              all[i] = IF i <= Len(front) THEN front[i] ELSE back[i - Len(front)]
    BY <1>3, <1>4, ConcatProperties
  <2> HIDE DEF all
  <2>2. Len(front) + Len(back) = Len(s) - 1
    BY <1>1, <1>3, <1>4
  <2> SUFFICES ASSUME NEW n \in 1 .. Len(s) - 1
               PROVE  all[n] = IF n < at THEN s[n] ELSE s[n + 1]
    BY <2>1, <2>2
  <2>3. all[n] = IF n <= at - 1 THEN front[n] ELSE back[n - (at - 1)]
    BY <1>3, <2>1, <2>2
  <2>4. CASE n < at
    BY <1>3, <2>3, <2>4
  <2>5. CASE at <= n
    <3>1. n - (at - 1) \in 1 .. Len(s) - at /\ at + (n - (at - 1)) = n + 1
      BY <1>1, <2>5
    <3> QED
      BY <1>4, <2>3, <2>5, <3>1
  <2> QED
    BY <2>4, <2>5
<1>6. RemoveAt(s, at) = all
  BY DEF RemoveAt, all, front, back
<1> QED
  BY <1>5, <1>6

\* Looking a place up finds the info the page has at it.
LEMMA PageLookup ==
    ASSUME NEW Infos, NEW page, PageOK(page, Infos), NEW small \in Smalls,
           NEW at, at = LowerBound(page.smallPtrParts, small), NEW info
    PROVE  At(page, small, info) <=>
             /\ at \in DOMAIN page.smallPtrParts
             /\ page.smallPtrParts[at] = small
             /\ page.allocationIndices[at] = info
<1> DEFINE parts == page.smallPtrParts
<1>1. /\ parts \in Seq(Smalls) /\ Sorted(parts) /\ Len(parts) \in Nat
      /\ DOMAIN parts = 1 .. Len(parts)
  BY LenProperties DEF PageOK
<1>2. at \in 1 .. Len(parts) + 1 /\ \A n \in 1 .. Len(parts) : n < at <=> parts[n] < small
  BY <1>1, LowerBoundSplits
<1>3. ASSUME NEW n \in 1 .. Len(parts), parts[n] = small PROVE n = at
  <2>1. ~ n < at
    BY <1>2, <1>3 DEF Smalls
  <2>2. CASE at < n
    <3>1. at \in 1 .. Len(parts) /\ ~ at < at
      BY <1>1, <1>2, <2>2
    <3>2. ~ parts[at] < small
      BY <1>2, <3>1
    <3>3. parts[at] < parts[n]
      BY <1>1, <2>2, <3>1 DEF Sorted
    <3> QED
      BY <1>3, <3>2, <3>3
  <2> QED
    BY <1>1, <1>2, <2>1, <2>2
<1> QED
  BY <1>1, <1>3 DEF At

\* Adding a place that the page does not have.
LEMMA PageInserted ==
    ASSUME NEW Infos, NEW page, PageOK(page, Infos), NEW small \in Smalls, NEW info \in Infos,
           NEW at, at = LowerBound(page.smallPtrParts, small),
           ~ (at \in DOMAIN page.smallPtrParts /\ page.smallPtrParts[at] = small),
           NEW new, new = [smallPtrParts |-> InsertAt(page.smallPtrParts, at, small),
                           allocationIndices |-> InsertAt(page.allocationIndices, at, info)]
    PROVE  /\ PageOK(new, Infos) /\ new.allocationIndices # <<>>
           /\ \A s \in Smalls : \A i : At(new, s, i) <=> (s = small /\ i = info) \/ At(page, s, i)
<1> DEFINE parts == page.smallPtrParts
           indices == page.allocationIndices
           newParts == new.smallPtrParts
           newIndices == new.allocationIndices
           L == Len(parts)
<1>1. /\ parts \in Seq(Smalls) /\ Sorted(parts) /\ L \in Nat /\ DOMAIN parts = 1 .. L
      /\ indices \in Seq(Infos) /\ Len(indices) = L
      /\ \A n \in 1 .. L : parts[n] \in Smalls
  BY LenProperties, ElementOfSeq DEF PageOK
<1>2. at \in 1 .. L + 1 /\ \A n \in 1 .. L : n < at <=> parts[n] < small
  BY <1>1, LowerBoundSplits
<1>3. /\ newParts \in Seq(Smalls) /\ Len(newParts) = L + 1
      /\ \A n \in 1 .. L + 1 :
            newParts[n] = IF n < at THEN parts[n] ELSE IF n = at THEN small ELSE parts[n - 1]
  <2>1. newParts = InsertAt(parts, at, small)
    OBVIOUS
  <2>0. parts \in Seq(Smalls) /\ small \in Smalls /\ at \in 1 .. Len(parts) + 1
    BY <1>1, <1>2
  <2> HIDE DEF parts, newParts
  <2>2. /\ InsertAt(parts, at, small) \in Seq(Smalls)
        /\ Len(InsertAt(parts, at, small)) = Len(parts) + 1
        /\ \A n \in 1 .. Len(parts) + 1 :
              InsertAt(parts, at, small)[n] =
                  IF n < at THEN parts[n] ELSE IF n = at THEN small ELSE parts[n - 1]
    BY <2>0, Inserted
  <2> QED
    BY <2>1, <2>2
<1>4. /\ newIndices \in Seq(Infos) /\ Len(newIndices) = L + 1
      /\ \A n \in 1 .. L + 1 :
            newIndices[n] = IF n < at THEN indices[n] ELSE IF n = at THEN info ELSE indices[n - 1]
  <2>1. newIndices = InsertAt(indices, at, info)
    OBVIOUS
  <2>2. indices \in Seq(Infos) /\ info \in Infos /\ at \in 1 .. Len(indices) + 1
    BY <1>1, <1>2
  <2> HIDE DEF parts, indices, newIndices, L
  <2>3. /\ InsertAt(indices, at, info) \in Seq(Infos)
        /\ Len(InsertAt(indices, at, info)) = Len(indices) + 1
        /\ \A n \in 1 .. Len(indices) + 1 :
              InsertAt(indices, at, info)[n] =
                  IF n < at THEN indices[n] ELSE IF n = at THEN info ELSE indices[n - 1]
    BY <2>2, Inserted
  <2> QED
    BY <1>1, <2>1, <2>3
<1>5. new = [smallPtrParts |-> newParts, allocationIndices |-> newIndices]
  OBVIOUS
<1>6. /\ \A s, i : At(page, s, i) <=> \E n \in 1 .. L : parts[n] = s /\ indices[n] = i
      /\ \A s, i : At(new, s, i) <=> \E n \in 1 .. L + 1 : newParts[n] = s /\ newIndices[n] = i
  BY <1>3 DEF At
<1>7. \A n \in 1 .. L : ~ n < at => small < parts[n]
  <2> SUFFICES ASSUME NEW n \in 1 .. L, ~ n < at PROVE small < parts[n]
    OBVIOUS
  <2>1. parts[n] # small
    <3>1. CASE n = at
      BY <1>1, <3>1
    <3>2. CASE at < n
      <4>1. at \in 1 .. L /\ ~ at < at
        BY <1>1, <1>2, <3>2
      <4>2. parts[at] < parts[n]
        BY <1>1, <3>2, <4>1 DEF Sorted
      <4>3. ~ parts[at] < small
        BY <1>2, <4>1
      <4> QED
        BY <1>1, <4>1, <4>2, <4>3 DEF Smalls
    <3> QED
      BY <1>1, <1>2, <3>1, <3>2
  <2> QED
    BY <1>1, <1>2, <2>1 DEF Smalls
<1>8. Sorted(newParts)
  <2> SUFFICES ASSUME NEW i \in 1 .. L + 1, NEW j \in 1 .. L + 1, i < j
               PROVE  newParts[i] < newParts[j]
    BY <1>3 DEF Sorted
  <2> HIDE DEF parts, indices, newParts, newIndices, L
  <2>1. CASE j < at
    <3>1. i \in 1 .. L /\ j \in 1 .. L /\ i < at
      BY <1>1, <1>2, <2>1
    <3> QED
      BY <1>1, <1>3, <2>1, <3>1 DEF Sorted, L
  <2>2. CASE j = at
    <3>1. i \in 1 .. L /\ i < at
      BY <1>1, <1>2, <2>2
    <3> QED
      BY <1>2, <1>3, <2>2, <3>1
  <2>3. CASE at < j
    <3>1. j - 1 \in 1 .. L /\ ~ j - 1 < at
      BY <1>1, <1>2, <2>3
    <3>2. newParts[j] = parts[j - 1] /\ small < parts[j - 1] /\ parts[j - 1] \in Smalls
      <4>1. ~ j < at /\ j # at
        BY <1>2, <2>3
      <4>2. newParts[j] = parts[j - 1]
        BY <1>3, <4>1
      <4> QED
        BY <1>1, <1>7, <3>1, <4>2
    <3>3. CASE i < at
      <4>1. i \in 1 .. L /\ i < j - 1
        BY <1>1, <1>2, <2>3, <3>3
      <4> QED
        BY <1>1, <1>3, <3>1, <3>2, <3>3, <4>1 DEF Sorted, L
    <3>4. CASE i = at
      BY <1>3, <3>2, <3>4
    <3>5. CASE at < i
      <4>1. i - 1 \in 1 .. L /\ i - 1 < j - 1 /\ newParts[i] = parts[i - 1]
        BY <1>1, <1>2, <1>3, <3>5
      <4> QED
        BY <1>1, <3>1, <3>2, <4>1 DEF Sorted, L
    <3> QED
      BY <1>2, <3>3, <3>4, <3>5
  <2> QED
    BY <1>2, <2>1, <2>2, <2>3
<1>9. PageOK(new, Infos) /\ newIndices # <<>>
  BY <1>1, <1>3, <1>4, <1>5, <1>8 DEF PageOK
<1>10. ASSUME NEW s \in Smalls, NEW i
       PROVE  At(new, s, i) <=> (s = small /\ i = info) \/ At(page, s, i)
  <2> HIDE DEF parts, indices, newParts, newIndices, L
  <2>1. ASSUME At(new, s, i) PROVE (s = small /\ i = info) \/ At(page, s, i)
    <3>1. PICK n \in 1 .. L + 1 : newParts[n] = s /\ newIndices[n] = i
      BY <1>6, <2>1
    <3>2. CASE n < at
      <4>1. n \in 1 .. L
        BY <1>1, <1>2, <3>2
      <4> QED
        BY <1>3, <1>4, <1>6, <3>1, <3>2, <4>1
    <3>3. CASE n = at
      BY <1>3, <1>4, <3>1, <3>3
    <3>4. CASE at < n
      <4>1. n - 1 \in 1 .. L
        BY <1>1, <1>2, <3>4
      <4>2. parts[n - 1] = s /\ indices[n - 1] = i
        BY <1>2, <1>3, <1>4, <3>1, <3>4
      <4> QED
        BY <1>6, <4>1, <4>2
    <3> QED
      BY <1>2, <3>2, <3>3, <3>4
  <2>2. ASSUME s = small, i = info PROVE At(new, s, i)
    BY <1>1, <1>2, <1>3, <1>4, <1>6, <2>2
  <2>3. ASSUME At(page, s, i) PROVE At(new, s, i)
    <3>1. PICK n \in 1 .. L : parts[n] = s /\ indices[n] = i
      BY <1>6, <2>3
    <3>2. CASE n < at
      <4>1. n \in 1 .. L + 1
        BY <1>1
      <4> QED
        BY <1>3, <1>4, <1>6, <3>1, <3>2, <4>1
    <3>3. CASE ~ n < at
      <4>1. n + 1 \in 1 .. L + 1 /\ at < n + 1 /\ n + 1 - 1 = n
        BY <1>1, <1>2, <3>3
      <4>2. newParts[n + 1] = s /\ newIndices[n + 1] = i
        BY <1>2, <1>3, <1>4, <3>1, <4>1
      <4> QED
        BY <1>6, <4>1, <4>2
    <3> QED
      BY <3>2, <3>3
  <2> QED
    BY <2>1, <2>2, <2>3
<1> QED
  BY <1>9, <1>10

\* The page with another info for a place that it has.
Replaced(page, at, info) ==
    [smallPtrParts |-> page.smallPtrParts,
     allocationIndices |-> [page.allocationIndices EXCEPT ![at] = info]]

\* Adding a place that the page has.
LEMMA PageReplaced ==
    ASSUME NEW Infos, NEW page, PageOK(page, Infos), NEW small \in Smalls, NEW info \in Infos,
           NEW at \in 1 .. Len(page.smallPtrParts), page.smallPtrParts[at] = small,
           NEW new, new = Replaced(page, at, info)
    PROVE  /\ PageOK(new, Infos) /\ new.allocationIndices # <<>>
           /\ \A s \in Smalls : \A i :
                At(new, s, i) <=> (s = small /\ i = info) \/ (s # small /\ At(page, s, i))
<1> DEFINE parts == page.smallPtrParts
           indices == page.allocationIndices
           newIndices == [indices EXCEPT ![at] = info]
           L == Len(parts)
<1>1. /\ parts \in Seq(Smalls) /\ Sorted(parts) /\ L \in Nat /\ at \in 1 .. L
      /\ indices \in Seq(Infos) /\ Len(indices) = L
  BY LenProperties DEF PageOK
<1>2. \A n \in 1 .. L : parts[n] \in Nat
  BY SMTT(40), PointerMapAssumption, <1>1, ElementOfSeq DEF Smalls
<1>3. /\ newIndices \in Seq(Infos) /\ Len(newIndices) = L
      /\ \A n \in 1 .. L : newIndices[n] = IF n = at THEN info ELSE indices[n]
  <2> HIDE DEF parts, indices
  <2>1. at \in 1 .. Len(indices) /\ DOMAIN indices = 1 .. L
    BY <1>1, LenProperties
  <2>2. newIndices \in Seq(Infos) /\ Len(newIndices) = Len(indices)
    BY <1>1, <2>1, ExceptSeq
  <2> QED
    BY <1>1, <2>1, <2>2
<1>4. new = [smallPtrParts |-> parts, allocationIndices |-> newIndices]
  BY DEF Replaced
<1>10. new.smallPtrParts = parts /\ new.allocationIndices = newIndices
  BY <1>4
<1>5. /\ \A s, i : At(page, s, i) <=> \E n \in 1 .. L : parts[n] = s /\ indices[n] = i
      /\ \A s, i : At(new, s, i) <=> \E n \in 1 .. L : parts[n] = s /\ newIndices[n] = i
  BY <1>10 DEF At
<1>6. PageOK(new, Infos)
  <2> HIDE DEF parts, indices, newIndices
  <2> QED
    BY <1>1, <1>3, <1>4 DEF PageOK
<1>7. new.allocationIndices # <<>>
  <2> HIDE DEF parts, indices, newIndices, L
  <2>1. Len(newIndices) # 0
    BY <1>1, <1>3
  <2>2. newIndices # <<>>
    BY <2>1, EmptySeq
  <2> QED
    BY <1>10, <2>2
<1>8. \A n \in 1 .. L : parts[n] = small <=> n = at
  <2> SUFFICES ASSUME NEW n \in 1 .. L, parts[n] = small, n # at PROVE FALSE
    OBVIOUS
  <2>1. n < at \/ at < n
    BY <1>1
  <2>2. parts[n] < parts[at] \/ parts[at] < parts[n]
    BY <1>1, <2>1 DEF Sorted
  <2> QED
    BY <1>1, <1>2, <2>2
<1>9. ASSUME NEW s \in Smalls, NEW i
      PROVE  At(new, s, i) <=> (s = small /\ i = info) \/ (s # small /\ At(page, s, i))
  <2> HIDE DEF parts, indices, newIndices, L
  <2>1. CASE s = small
    <3>1. parts[at] = s /\ newIndices[at] = info
      BY <1>1, <1>3, <1>8, <2>1
    <3>2. \A n \in 1 .. L : parts[n] = s => newIndices[n] = info
      BY <1>3, <1>8, <2>1
    <3>3. At(new, s, i) => i = info
      BY <1>5, <3>2
    <3>4. i = info => At(new, s, i)
      BY ZenonT(60), <1>1, <1>5, <3>1
    <3> QED
      BY <2>1, <3>3, <3>4
  <2>2. CASE s # small
    BY SMTT(40), <1>3, <1>5, <1>8, <2>2
  <2> QED
    BY <2>1, <2>2
<1> QED
  BY <1>6, <1>7, <1>9

\* Removing a place that the page has.
LEMMA PageRemoved ==
    ASSUME NEW Infos, NEW page, PageOK(page, Infos), NEW small \in Smalls,
           NEW at \in 1 .. Len(page.smallPtrParts), page.smallPtrParts[at] = small,
           NEW new, new = [smallPtrParts |-> RemoveAt(page.smallPtrParts, at),
                           allocationIndices |-> RemoveAt(page.allocationIndices, at)]
    PROVE  /\ PageOK(new, Infos)
           /\ \A s \in Smalls : \A i : At(new, s, i) <=> s # small /\ At(page, s, i)
<1> DEFINE parts == page.smallPtrParts
           indices == page.allocationIndices
           newParts == new.smallPtrParts
           newIndices == new.allocationIndices
           L == Len(parts)
<1>1. /\ parts \in Seq(Smalls) /\ Sorted(parts) /\ L \in Nat /\ at \in 1 .. L
      /\ indices \in Seq(Infos) /\ Len(indices) = L
  BY LenProperties DEF PageOK
<1>2. \A n \in 1 .. L : parts[n] \in Nat
  BY PointerMapAssumption, <1>1, ElementOfSeq DEF Smalls
<1>3. /\ newParts \in Seq(Smalls) /\ Len(newParts) = L - 1
      /\ \A n \in 1 .. L - 1 : newParts[n] = IF n < at THEN parts[n] ELSE parts[n + 1]
  <2>1. newParts = RemoveAt(parts, at)
    OBVIOUS
  <2>2. parts \in Seq(Smalls) /\ at \in 1 .. Len(parts)
    BY <1>1
  <2> HIDE DEF parts, newParts
  <2>3. /\ RemoveAt(parts, at) \in Seq(Smalls) /\ Len(RemoveAt(parts, at)) = Len(parts) - 1
        /\ \A n \in 1 .. Len(parts) - 1 :
              RemoveAt(parts, at)[n] = IF n < at THEN parts[n] ELSE parts[n + 1]
    BY <2>2, Removed
  <2> QED
    BY <2>1, <2>3
<1>4. /\ newIndices \in Seq(Infos) /\ Len(newIndices) = L - 1
      /\ \A n \in 1 .. L - 1 : newIndices[n] = IF n < at THEN indices[n] ELSE indices[n + 1]
  <2>1. newIndices = RemoveAt(indices, at)
    OBVIOUS
  <2>2. indices \in Seq(Infos) /\ at \in 1 .. Len(indices)
    BY <1>1
  <2> HIDE DEF parts, indices, newIndices, L
  <2>3. /\ RemoveAt(indices, at) \in Seq(Infos) /\ Len(RemoveAt(indices, at)) = Len(indices) - 1
        /\ \A n \in 1 .. Len(indices) - 1 :
              RemoveAt(indices, at)[n] = IF n < at THEN indices[n] ELSE indices[n + 1]
    BY <2>2, Removed
  <2> QED
    BY <1>1, <2>1, <2>3
<1>5. new = [smallPtrParts |-> newParts, allocationIndices |-> newIndices]
  OBVIOUS
<1>6. /\ \A s, i : At(page, s, i) <=> \E n \in 1 .. L : parts[n] = s /\ indices[n] = i
      /\ \A s, i : At(new, s, i) <=> \E n \in 1 .. L - 1 : newParts[n] = s /\ newIndices[n] = i
  BY <1>3 DEF At
<1>7. \A n \in 1 .. L : parts[n] = small <=> n = at
  <2> SUFFICES ASSUME NEW n \in 1 .. L, parts[n] = small, n # at PROVE FALSE
    OBVIOUS
  <2>1. n < at \/ at < n
    BY <1>1
  <2>2. parts[n] < parts[at] \/ parts[at] < parts[n]
    BY <1>1, <2>1 DEF Sorted
  <2> QED
    BY <1>1, <1>2, <2>2
\* Where an element was before.
<1> DEFINE from(n) == IF n < at THEN n ELSE n + 1
<1>8. \A n \in 1 .. L - 1 :
        /\ from(n) \in 1 .. L /\ from(n) # at
        /\ newParts[n] = parts[from(n)] /\ newIndices[n] = indices[from(n)]
  <2> HIDE DEF parts, indices, newParts, newIndices, L
  <2> SUFFICES ASSUME NEW n \in 1 .. L - 1
               PROVE  /\ from(n) \in 1 .. L /\ from(n) # at
                      /\ newParts[n] = parts[from(n)] /\ newIndices[n] = indices[from(n)]
    OBVIOUS
  <2>1. from(n) \in 1 .. L /\ from(n) # at
    BY <1>1
  <2>2. newParts[n] = parts[from(n)]
    BY <1>3
  <2>3. newIndices[n] = indices[from(n)]
    BY <1>1, <1>4
  <2> QED
    BY <2>1, <2>2, <2>3
<1>9. \A m, n \in 1 .. L - 1 : m < n => from(m) < from(n)
  <2> HIDE DEF L
  <2> QED
    BY <1>1
<1>10. \A k \in 1 .. L : k # at => \E n \in 1 .. L - 1 : from(n) = k
  <2> HIDE DEF L
  <2> SUFFICES ASSUME NEW k \in 1 .. L, k # at PROVE \E n \in 1 .. L - 1 : from(n) = k
    OBVIOUS
  <2>1. CASE k < at
    <3>1. k \in 1 .. L - 1 /\ from(k) = k
      BY <1>1, <2>1
    <3> QED
      BY <3>1
  <2>2. CASE at < k
    <3>1. k - 1 \in 1 .. L - 1 /\ from(k - 1) = k
      BY <1>1, <2>2
    <3> QED
      BY <3>1
  <2> QED
    BY <1>1, <2>1, <2>2
<1>11. Sorted(newParts)
  <2> SUFFICES ASSUME NEW i \in 1 .. L - 1, NEW j \in 1 .. L - 1, i < j
               PROVE  newParts[i] < newParts[j]
    BY <1>3 DEF Sorted
  <2>1. from(i) < from(j) /\ from(i) \in 1 .. L /\ from(j) \in 1 .. L
    BY <1>8, <1>9
  <2>2. newParts[i] = parts[from(i)] /\ newParts[j] = parts[from(j)]
    BY <1>8
  <2> HIDE DEF newParts, newIndices, indices, from
  <2> QED
    BY <1>1, <2>1, <2>2 DEF Sorted
<1>12. PageOK(new, Infos)
  <2> HIDE DEF parts, indices, newParts, newIndices
  <2> QED
    BY <1>1, <1>3, <1>4, <1>5, <1>11 DEF PageOK
<1>13. ASSUME NEW s \in Smalls, NEW i PROVE At(new, s, i) <=> s # small /\ At(page, s, i)
  <2> HIDE DEF parts, indices, newParts, newIndices, from, L
  <2>1. ASSUME At(new, s, i) PROVE s # small /\ At(page, s, i)
    <3>1. PICK n \in 1 .. L - 1 : newParts[n] = s /\ newIndices[n] = i
      BY <1>6, <2>1
    <3> QED
      BY <1>6, <1>7, <1>8, <3>1
  <2>2. ASSUME s # small, At(page, s, i) PROVE At(new, s, i)
    <3>1. PICK k \in 1 .. L : parts[k] = s /\ indices[k] = i
      BY <1>6, <2>2
    <3>2. k # at
      BY <1>7, <2>2, <3>1
    <3>3. PICK n \in 1 .. L - 1 : from(n) = k
      BY <1>10, <3>2
    <3> QED
      BY <1>6, <1>8, <3>1, <3>3
  <2> QED
    BY <2>1, <2>2
<1> QED
  BY <1>12, <1>13

\* The page of an address, which may be one that does not exist.
LEMMA PageTyped ==
    ASSUME NEW Infos, NEW map, MapOK(map, Infos), NEW ptr
    PROVE  PageOK(Page(map, ptr), Infos)
<1>1. PageOK(NoPage, Infos)
  <2>1. <<>> \in Seq(Smalls) /\ <<>> \in Seq(Infos) /\ Len(<<>>) = 0
    OBVIOUS
  <2> QED
    BY <2>1 DEF PageOK, NoPage, Sorted
<1> QED
  BY <1>1 DEF Page, MapOK

\* A page that does not exist has no place.
LEMMA NothingAtNoPage == ASSUME NEW s, NEW i PROVE ~ At(NoPage, s, i)
BY DEF At, NoPage

\* Looking an address up finds the info that its page has at its place.
LEMMA Lookup ==
    ASSUME NEW Infos, NEW map, MapOK(map, Infos), NEW ptr \in Nat
    PROVE  /\ \A i : At(Page(map, ptr), Small(ptr), i)
                       <=> HasPointer(map, ptr) /\ PointerAt(map, ptr) = i
           /\ HasPointer(map, ptr) => /\ Slot(map, ptr) \in 1 .. Len(Page(map, ptr).smallPtrParts)
                                      /\ Page(map, ptr).smallPtrParts[Slot(map, ptr)] = Small(ptr)
<1> DEFINE page == Page(map, ptr)
<1>1. PageOK(page, Infos)
  BY PageTyped
<1>2. Small(ptr) \in Smalls
  BY SplitPointer
<1>3. DOMAIN page.smallPtrParts = 1 .. Len(page.smallPtrParts)
  BY <1>1, LenProperties DEF PageOK
<1>4. ASSUME NEW i
      PROVE  At(page, Small(ptr), i) <=>
               /\ Slot(map, ptr) \in DOMAIN page.smallPtrParts
               /\ page.smallPtrParts[Slot(map, ptr)] = Small(ptr)
               /\ page.allocationIndices[Slot(map, ptr)] = i
  <2>1. Slot(map, ptr) = LowerBound(page.smallPtrParts, Small(ptr))
    BY DEF Slot
  <2> HIDE DEF page
  <2> QED
    BY <1>1, <1>2, <2>1, PageLookup
<1> QED
  BY <1>3, <1>4 DEF HasPointer, PointerAt

\* Only the page of the address changes.
LEMMA PageSet ==
    ASSUME NEW Infos, NEW map, MapOK(map, Infos), NEW big, NEW page, PageOK(page, Infos),
           page.allocationIndices # <<>>
    PROVE  /\ MapOK(SetPage(map, big, page), Infos)
           /\ \A q : Page(SetPage(map, big, page), q) = IF Big(q) = big THEN page ELSE Page(map, q)
BY DEF MapOK, SetPage, Page

-----------------------------------------------------------------------------
\* The interpreter starts with a map that has no address.
LEMMA EmptyMap == ASSUME NEW Infos PROVE MapOK(<<>>, Infos) /\ \A q : ~ HasPointer(<<>>, q)
BY DEF MapOK, HasPointer, Page, NoPage

\* addPointer: the map has the address with its info, and is otherwise as before,
\* whatever page and place it takes.
THEOREM PointerAdded ==
    ASSUME NEW Infos, NEW map, MapOK(map, Infos), NEW ptr \in Nat, NEW info \in Infos
    PROVE  /\ MapOK(AddPointer(map, ptr, info), Infos)
           /\ \A q \in Nat :
                /\ HasPointer(AddPointer(map, ptr, info), q) <=> q = ptr \/ HasPointer(map, q)
                /\ HasPointer(AddPointer(map, ptr, info), q) =>
                     PointerAt(AddPointer(map, ptr, info), q) =
                         IF q = ptr THEN info ELSE PointerAt(map, q)
<1> DEFINE page == Page(map, ptr)
           at == Slot(map, ptr)
           grown == [smallPtrParts |-> InsertAt(page.smallPtrParts, at, Small(ptr)),
                     allocationIndices |-> InsertAt(page.allocationIndices, at, info)]
           changed == [page EXCEPT !.allocationIndices[at] = info]
           new == IF HasPointer(map, ptr) THEN changed ELSE grown
           after == AddPointer(map, ptr, info)
<1>1. after = SetPage(map, Big(ptr), new)
  BY DEF AddPointer
<1>2. PageOK(page, Infos) /\ Small(ptr) \in Smalls
  BY PageTyped, SplitPointer
<1>3. at = LowerBound(page.smallPtrParts, Small(ptr))
  BY DEF Slot
<1>4. /\ PageOK(new, Infos) /\ new.allocationIndices # <<>>
      /\ \A s \in Smalls : \A i :
            At(new, s, i) <=> IF s = Small(ptr) THEN i = info ELSE At(page, s, i)
  <2>1. CASE HasPointer(map, ptr)
    <3>1. at \in 1 .. Len(page.smallPtrParts) /\ page.smallPtrParts[at] = Small(ptr)
      BY <2>1, Lookup
    <3>2. new = Replaced(page, at, info)
      BY <1>2, <2>1 DEF PageOK, Replaced
    <3> HIDE DEF page, at, new
    <3>3. /\ PageOK(new, Infos) /\ new.allocationIndices # <<>>
          /\ \A s \in Smalls : \A i :
                At(new, s, i) <=> (s = Small(ptr) /\ i = info) \/ (s # Small(ptr) /\ At(page, s, i))
      BY <1>2, <3>1, <3>2, PageReplaced
    <3> QED
      BY <1>2, <3>3
  <2>2. CASE ~ HasPointer(map, ptr)
    <3>1. ~ (at \in DOMAIN page.smallPtrParts /\ page.smallPtrParts[at] = Small(ptr))
      BY <2>2 DEF HasPointer
    <3>2. new = grown
      BY <2>2
    <3>3. \A i : ~ At(page, Small(ptr), i)
      BY <2>2, Lookup
    <3> HIDE DEF page, at, new
    <3>4. /\ PageOK(new, Infos) /\ new.allocationIndices # <<>>
          /\ \A s \in Smalls : \A i :
                At(new, s, i) <=> (s = Small(ptr) /\ i = info) \/ At(page, s, i)
      BY <1>2, <1>3, <3>1, <3>2, PageInserted
    <3> QED
      BY <1>2, <3>3, <3>4
  <2> QED
    BY <2>1, <2>2
<1> HIDE DEF new
<1>5. /\ MapOK(after, Infos)
      /\ \A q : Page(after, q) = IF Big(q) = Big(ptr) THEN new ELSE Page(map, q)
  <2>1. PageOK(new, Infos) /\ new.allocationIndices # <<>>
    BY <1>4
  <2> HIDE DEF after
  <2> QED
    BY <1>1, <2>1, PageSet
<1> HIDE DEF after
<1>6. ASSUME NEW q \in Nat, NEW i
      PROVE  At(Page(after, q), Small(q), i) <=>
                IF q = ptr THEN i = info ELSE At(Page(map, q), Small(q), i)
  <2>1. Small(q) \in Smalls /\ (Big(q) = Big(ptr) /\ Small(q) = Small(ptr) <=> q = ptr)
    BY SplitPointer
  <2>2. CASE Big(q) = Big(ptr)
    <3>1. Page(map, q) = page /\ Page(after, q) = new
      BY <1>5, <2>2 DEF Page
    <3> QED
      BY <1>4, <2>1, <2>2, <3>1
  <2>3. CASE Big(q) # Big(ptr)
    BY <1>5, <2>1, <2>3
  <2> QED
    BY <2>2, <2>3
<1>7. ASSUME NEW q \in Nat
      PROVE  /\ HasPointer(after, q) <=> q = ptr \/ HasPointer(map, q)
             /\ HasPointer(after, q) =>
                  PointerAt(after, q) = IF q = ptr THEN info ELSE PointerAt(map, q)
  <2>1. \A i : At(Page(after, q), Small(q), i) <=> HasPointer(after, q) /\ PointerAt(after, q) = i
    BY <1>5, Lookup
  <2>2. \A i : At(Page(map, q), Small(q), i) <=> HasPointer(map, q) /\ PointerAt(map, q) = i
    BY Lookup
  <2>3. \A i : HasPointer(after, q) /\ PointerAt(after, q) = i <=>
                  IF q = ptr THEN i = info ELSE HasPointer(map, q) /\ PointerAt(map, q) = i
    BY <1>6, <2>1, <2>2
  <2> QED
    BY <2>3
<1> QED
  BY <1>5, <1>7 DEF after

\* takePointer: the map has the address no more, its page goes with the last
\* address in it, and every other address keeps its info.
THEOREM PointerTaken ==
    ASSUME NEW Infos, NEW map, MapOK(map, Infos), NEW ptr \in Nat, HasPointer(map, ptr)
    PROVE  /\ MapOK(TakePointer(map, ptr), Infos)
           /\ \A q \in Nat :
                /\ HasPointer(TakePointer(map, ptr), q) <=> q # ptr /\ HasPointer(map, q)
                /\ HasPointer(TakePointer(map, ptr), q) =>
                     PointerAt(TakePointer(map, ptr), q) = PointerAt(map, q)
<1> DEFINE page == Page(map, ptr)
           at == Slot(map, ptr)
           rest == [smallPtrParts |-> RemoveAt(page.smallPtrParts, at),
                    allocationIndices |-> RemoveAt(page.allocationIndices, at)]
           after == TakePointer(map, ptr)
<1>1. after = IF rest.allocationIndices = <<>>
              THEN [b \in DOMAIN map \ {Big(ptr)} |-> map[b]]
              ELSE SetPage(map, Big(ptr), rest)
  BY DEF TakePointer
<1>2. PageOK(page, Infos) /\ Small(ptr) \in Smalls
  BY PageTyped, SplitPointer
<1>3. /\ PageOK(rest, Infos)
      /\ \A s \in Smalls : \A i : At(rest, s, i) <=> s # Small(ptr) /\ At(page, s, i)
  <2>1. at \in 1 .. Len(page.smallPtrParts) /\ page.smallPtrParts[at] = Small(ptr)
    BY Lookup
  <2> HIDE DEF page, at
  <2> QED
    BY <1>2, <2>1, PageRemoved
<1> HIDE DEF rest
<1>4. /\ MapOK(after, Infos)
      /\ \A q : Big(q) # Big(ptr) => Page(after, q) = Page(map, q)
      /\ \A q : Big(q) = Big(ptr) => \A s, i : At(Page(after, q), s, i) <=> At(rest, s, i)
  <2>1. CASE rest.allocationIndices = <<>>
    <3>1. after = [b \in DOMAIN map \ {Big(ptr)} |-> map[b]]
      BY <1>1, <2>1
    <3> HIDE DEF after
    <3>2. MapOK(after, Infos)
      BY <3>1 DEF MapOK
    <3>3. \A q : Page(after, q) = IF Big(q) = Big(ptr) THEN NoPage ELSE Page(map, q)
      BY <3>1 DEF Page
    <3>4. \A s, i : ~ At(rest, s, i)
      <4>1. Len(rest.smallPtrParts) = 0
        BY <1>3, <2>1, EmptySeq DEF PageOK
      <4> QED
        BY <4>1 DEF At
    <3> QED
      BY <3>2, <3>3, <3>4, NothingAtNoPage
  <2>2. CASE rest.allocationIndices # <<>>
    <3>1. after = SetPage(map, Big(ptr), rest)
      BY <1>1, <2>2
    <3> HIDE DEF after
    <3>2. /\ MapOK(after, Infos)
          /\ \A q : Page(after, q) = IF Big(q) = Big(ptr) THEN rest ELSE Page(map, q)
      BY <1>3, <2>2, <3>1, PageSet
    <3> QED
      BY <3>2
  <2> QED
    BY <2>1, <2>2
<1> HIDE DEF after
<1>5. ASSUME NEW q \in Nat, NEW i
      PROVE  At(Page(after, q), Small(q), i) <=> q # ptr /\ At(Page(map, q), Small(q), i)
  <2>1. Small(q) \in Smalls /\ (Big(q) = Big(ptr) /\ Small(q) = Small(ptr) <=> q = ptr)
    BY SplitPointer
  <2>2. CASE Big(q) = Big(ptr)
    <3>1. Page(map, q) = page
      BY <2>2 DEF Page
    <3> QED
      BY <1>3, <1>4, <2>1, <2>2, <3>1
  <2>3. CASE Big(q) # Big(ptr)
    BY <1>4, <2>1, <2>3
  <2> QED
    BY <2>2, <2>3
<1>6. ASSUME NEW q \in Nat
      PROVE  /\ HasPointer(after, q) <=> q # ptr /\ HasPointer(map, q)
             /\ HasPointer(after, q) => PointerAt(after, q) = PointerAt(map, q)
  <2>1. \A i : At(Page(after, q), Small(q), i) <=> HasPointer(after, q) /\ PointerAt(after, q) = i
    BY <1>4, Lookup
  <2>2. \A i : At(Page(map, q), Small(q), i) <=> HasPointer(map, q) /\ PointerAt(map, q) = i
    BY Lookup
  <2>3. \A i : HasPointer(after, q) /\ PointerAt(after, q) = i <=>
                  q # ptr /\ HasPointer(map, q) /\ PointerAt(map, q) = i
    BY <1>5, <2>1, <2>2
  <2> QED
    BY <2>3
<1> QED
  BY <1>4, <1>6 DEF after

-----------------------------------------------------------------------------
(* Induction and parts of sequences                                        *)

\* Induction, stated for a set of numbers.
LEMMA Induction ==
    ASSUME NEW S, 0 \in S, \A n \in Nat : n \in S => n + 1 \in S
    PROVE  \A n \in Nat : n \in S
<1> DEFINE others == {n \in Nat : n \notin S}
           less == OpToRel(<, Nat)
<1> SUFFICES ASSUME others # {} PROVE FALSE
  OBVIOUS
<1>1. IsWellFoundedOn(less, Nat)
  BY NatLessThanWellFounded
<1>2. \A j, k \in Nat : j < k => <<j, k>> \in less
  BY DEF OpToRel
<1> HIDE DEF less
<1>3. others \subseteq Nat
  OBVIOUS
<1>4. PICK m \in others : \A j \in others : <<j, m>> \notin less
  BY <1>1, <1>3, WFMin
<1>5. m \in Nat /\ m # 0 /\ m - 1 \in Nat /\ m - 1 < m
  OBVIOUS
<1>6. m - 1 \notin others
  BY <1>2, <1>4, <1>5
<1> QED
  BY <1>5, <1>6

\* A function on an interval is a sequence.
LEMMA FunctionIsSeq ==
    ASSUME NEW S, NEW n \in Nat, NEW f \in [1..n -> S]
    PROVE  f \in Seq(S) /\ Len(f) = n
<1>1. f \in Seq(S)
  BY SeqDef
<1>2. DOMAIN f = 1..n /\ DOMAIN f = 1..Len(f) /\ Len(f) \in Nat
  BY <1>1, LenProperties
<1> QED
  BY <1>1, <1>2

\* What the recursive function of InOrder is.
IsKept(f, n, places) ==
    f = [k \in 0 .. n |-> IF k = 0 THEN <<>>
                          ELSE IF k \in places THEN Append(f[k - 1], k) ELSE f[k - 1]]

\* There is such a function.
LEMMA KeptExists ==
    ASSUME NEW places PROVE \A n \in Nat : \E f : IsKept(f, n, places)
<1> DEFINE S == {n \in Nat : \E f : IsKept(f, n, places)}
<1>1. 0 \in S
  <2>1. IsKept([k \in 0 .. 0 |-> <<>>], 0, places)
    BY DEF IsKept
  <2> QED
    BY <2>1
<1>2. ASSUME NEW n \in Nat, n \in S PROVE n + 1 \in S
  <2>1. PICK f : IsKept(f, n, places)
    BY <1>2
  <2> DEFINE last == IF n + 1 \in places THEN Append(f[n], n + 1) ELSE f[n]
             g == [k \in 0 .. n + 1 |-> IF k = n + 1 THEN last ELSE f[k]]
  <2>3. ASSUME NEW k \in 0 .. n + 1
        PROVE  g[k] = IF k = 0 THEN <<>>
                      ELSE IF k \in places THEN Append(g[k - 1], k) ELSE g[k - 1]
    <3>1. CASE k = n + 1
      <4>1. g[k] = last /\ g[k - 1] = f[n] /\ k # 0
        BY <3>1
      <4> HIDE DEF g
      <4> QED
        BY <3>1, <4>1
    <3>2. CASE k = 0
      <4>1. g[k] = f[0] /\ f[0] = <<>>
        BY <2>1, <3>2 DEF IsKept
      <4> HIDE DEF g
      <4> QED
        BY <3>2, <4>1
    <3>3. CASE k \in 1 .. n
      <4>1. g[k] = f[k] /\ g[k - 1] = f[k - 1] /\ k # 0 /\ k \in 0 .. n
        BY <3>3
      <4>2. f[k] = IF k \in places THEN Append(f[k - 1], k) ELSE f[k - 1]
        BY <2>1, <4>1 DEF IsKept
      <4> HIDE DEF g
      <4> QED
        BY <4>1, <4>2
    <3> QED
      BY <3>1, <3>2, <3>3
  <2>2. IsKept(g, n + 1, places)
    <3>1. g = [k \in 0 .. n + 1 |-> g[k]]
      OBVIOUS
    <3> HIDE DEF g
    <3> QED
      BY <2>3, <3>1 DEF IsKept
  <2> QED
    BY <2>2
<1> HIDE DEF S
<1>3. \A n \in Nat : n \in S
  BY <1>1, <1>2, Induction
<1> QED
  BY <1>3 DEF S

\* The numbers up to n that are in a set, in order and all of them.
IsInOrder(s, n, places) ==
    /\ s \in Seq(1 .. n)
    /\ \A k \in 1 .. Len(s) : s[k] \in places
    /\ \A j, k \in 1 .. Len(s) : j < k => s[j] < s[k]
    /\ \A i \in 1 .. n : i \in places => \E k \in 1 .. Len(s) : s[k] = i

\* InOrder gives them.
LEMMA InOrderIs ==
    ASSUME NEW n \in Nat, NEW places
    PROVE  IsInOrder(InOrder(n, places), n, places)
<1>1. PICK f : IsKept(f, n, places) /\ InOrder(n, places) = f[n]
  <2>1. \E f : IsKept(f, n, places)
    BY KeptExists
  <2>2. IsKept(CHOOSE f : IsKept(f, n, places), n, places)
    BY <2>1
  <2>3. InOrder(n, places) = (CHOOSE f : IsKept(f, n, places))[n]
    BY DEF InOrder, IsKept
  <2> QED
    BY <2>2, <2>3
<1> DEFINE S == {k \in Nat : k <= n => IsInOrder(f[k], k, places)}
<1>2. 0 \in S
  <2>1. f[0] = <<>>
    BY <1>1 DEF IsKept
  <2>2. <<>> \in Seq(1 .. 0) /\ Len(<<>>) = 0
    OBVIOUS
  <2>3. IsInOrder(<<>>, 0, places)
    BY <2>2 DEF IsInOrder
  <2> QED
    BY <2>1, <2>3
<1>3. ASSUME NEW k \in Nat, k \in S PROVE k + 1 \in S
  <2> SUFFICES ASSUME k + 1 <= n PROVE IsInOrder(f[k + 1], k + 1, places)
    OBVIOUS
  <2>1. IsInOrder(f[k], k, places)
    BY <1>3
  <2>2. f[k + 1] = IF k + 1 \in places THEN Append(f[k], k + 1) ELSE f[k]
    <3>1. k + 1 \in 0 .. n /\ k + 1 # 0 /\ (k + 1) - 1 = k
      OBVIOUS
    <3> QED
      BY <1>1, <3>1 DEF IsKept
  <2> DEFINE old == f[k]
             new == f[k + 1]
  <2>3. old \in Seq(1 .. k) /\ old \in Seq(1 .. k + 1) /\ Len(old) \in Nat
        /\ \A j \in 1 .. Len(old) : old[j] \in 1 .. k
    BY <2>1, LenProperties, ElementOfSeq DEF IsInOrder
  <2>6. /\ \A j \in 1 .. Len(old) : old[j] \in places
        /\ \A i, j \in 1 .. Len(old) : i < j => old[i] < old[j]
        /\ \A i \in 1 .. k : i \in places => \E j \in 1 .. Len(old) : old[j] = i
    BY <2>1 DEF IsInOrder
  <2> HIDE DEF S
  <2>4. CASE k + 1 \notin places
    <3>1. new = old
      BY <2>2, <2>4
    <3> HIDE DEF old, new
    <3> QED
      BY <2>3, <2>4, <2>6, <3>1 DEF IsInOrder, new
  <2>5. CASE k + 1 \in places
    <3>1. new = Append(old, k + 1)
      BY <2>2, <2>5
    <3> HIDE DEF old, new
    <3>2. /\ new \in Seq(1 .. k + 1) /\ Len(new) = Len(old) + 1
          /\ \A j \in 1 .. Len(old) : new[j] = old[j]
          /\ new[Len(old) + 1] = k + 1
      BY <2>3, <3>1, AppendProperties
    <3>6. ASSUME NEW j \in 1 .. Len(new)
          PROVE  (j \in 1 .. Len(old) /\ new[j] = old[j]) \/ (j = Len(old) + 1 /\ new[j] = k + 1)
      BY <2>3, <3>2
    <3>3. \A j \in 1 .. Len(new) : new[j] \in places
      BY <2>5, <2>6, <3>6
    <3>4. \A i, j \in 1 .. Len(new) : i < j => new[i] < new[j]
      <4> SUFFICES ASSUME NEW i \in 1 .. Len(new), NEW j \in 1 .. Len(new), i < j PROVE new[i] < new[j]
        OBVIOUS
      <4>1. i \in 1 .. Len(old) /\ new[i] = old[i] /\ old[i] \in 1 .. k
        BY <2>3, <3>2
      <4> QED
        BY <2>6, <3>6, <4>1
    <3>5. \A i \in 1 .. k + 1 : i \in places => \E j \in 1 .. Len(new) : new[j] = i
      <4> SUFFICES ASSUME NEW i \in 1 .. k + 1, i \in places PROVE \E j \in 1 .. Len(new) : new[j] = i
        OBVIOUS
      <4>1. CASE i = k + 1
        BY <2>3, <3>2, <4>1
      <4>2. CASE i \in 1 .. k
        <5>1. PICK j \in 1 .. Len(old) : old[j] = i
          BY <2>6, <4>2
        <5>2. j \in 1 .. Len(new) /\ new[j] = i
          BY <2>3, <3>2, <5>1
        <5> QED
          BY <5>2
      <4> QED
        BY <4>1, <4>2
    <3> QED
      BY <3>2, <3>3, <3>4, <3>5 DEF IsInOrder, new
  <2> QED
    BY <2>4, <2>5
<1> HIDE DEF S
<1>4. \A k \in Nat : k \in S
  BY <1>2, <1>3, Induction
<1> QED
  BY <1>1, <1>4 DEF S

-----------------------------------------------------------------------------
(* The writer                                                              *)

\* The part of a sequence at some places.
LEMMA OnlyIs ==
    ASSUME NEW S, NEW s \in Seq(S), NEW places
    PROVE  LET order == InOrder(Len(s), places) IN
           /\ IsInOrder(order, Len(s), places)
           /\ Only(s, places) \in Seq(S) /\ Len(Only(s, places)) = Len(order)
           /\ \A k \in 1 .. Len(order) : Only(s, places)[k] = s[order[k]]
<1> DEFINE order == InOrder(Len(s), places)
<1>1. Len(s) \in Nat
  BY LenProperties
<1>2. IsInOrder(order, Len(s), places)
  BY <1>1, InOrderIs
<1> HIDE DEF order
<1>3. order \in Seq(1 .. Len(s)) /\ DOMAIN order = 1 .. Len(order) /\ Len(order) \in Nat
      /\ \A k \in 1 .. Len(order) : order[k] \in 1 .. Len(s)
  BY <1>2, LenProperties, ElementOfSeq DEF IsInOrder
<1>4. Only(s, places) = [k \in 1 .. Len(order) |-> s[order[k]]]
  BY <1>3 DEF Only, order
<1>5. \A k \in 1 .. Len(order) : s[order[k]] \in S
  BY <1>3, ElementOfSeq
<1>6. Only(s, places) \in [1 .. Len(order) -> S]
  BY <1>4, <1>5
<1>7. Only(s, places) \in Seq(S) /\ Len(Only(s, places)) = Len(order)
  BY <1>3, <1>6, FunctionIsSeq
<1> QED
  BY <1>2, <1>4, <1>7 DEF order

\* Return addresses that are not null.
LEMMA NotNullTyped ==
    ASSUME NEW ips \in Seq(Nat) PROVE NotNull(ips) \in Seq(Nat \ {0})
<1> DEFINE places == {i \in DOMAIN ips : ips[i] # 0}
           order == InOrder(Len(ips), places)
<1>1. /\ IsInOrder(order, Len(ips), places)
      /\ Only(ips, places) \in Seq(Nat) /\ Len(Only(ips, places)) = Len(order)
      /\ \A k \in 1 .. Len(order) : Only(ips, places)[k] = ips[order[k]]
  <2> HIDE DEF places
  <2> QED
    BY OnlyIs
<1>2. \A k \in 1 .. Len(order) : order[k] \in DOMAIN ips /\ ips[order[k]] # 0
  BY <1>1 DEF IsInOrder
<1> DEFINE only == NotNull(ips)
<1>3. only = Only(ips, places)
  BY DEF NotNull
<1> HIDE DEF places, order, only
<1>4. \A k \in 1 .. Len(only) : only[k] \in Nat \ {0}
  BY <1>1, <1>2, <1>3, ElementOfSeq
<1>5. only \in [1 .. Len(only) -> Nat \ {0}] /\ Len(only) \in Nat
  BY <1>1, <1>3, <1>4, LenProperties
<1>6. only \in Seq(Nat \ {0})
  BY <1>5, FunctionIsSeq
<1> QED
  BY <1>6 DEF only

\* Parts of sequences of numbers.
LEMMA SubSeqTyped ==
    ASSUME NEW S, NEW s \in Seq(S), NEW m \in Nat \ {0}, NEW n \in Int, n <= Len(s)
    PROVE  SubSeq(s, m, n) \in Seq(S)
<1>1. Len(s) \in Nat /\ \A i \in 1 .. Len(s) : s[i] \in S
  BY LenProperties, ElementOfSeq
<1>2. \A i \in m .. n : s[i] \in S
  BY <1>1
<1> QED
  BY <1>2, SubSeqProperties

\* So is a beginning of them.
LEMMA FirstTyped ==
    ASSUME NEW S, NEW s \in Seq(S), NEW n \in Int PROVE First(s, n) \in Seq(S)
<1>1. Len(s) \in Nat /\ (IF n < Len(s) THEN n ELSE Len(s)) \in Int
      /\ (IF n < Len(s) THEN n ELSE Len(s)) <= Len(s)
  BY LenProperties
<1> QED
  BY <1>1, SubSeqTyped DEF First

\* A place that is searched for is 0 or in the sequence.
LEMMA LeastOf ==
    ASSUME NEW I, I \subseteq Nat, I # {}
    PROVE  Min(I) \in I /\ \A i \in I : Min(I) <= i
<1> DEFINE less == OpToRel(<, Nat)
<1>1. IsWellFoundedOn(less, Nat)
  BY NatLessThanWellFounded
<1>2. \A j, k \in Nat : j < k => <<j, k>> \in less
  BY DEF OpToRel
<1> HIDE DEF less
<1>3. PICK m \in I : \A j \in I : <<j, m>> \notin less
  BY <1>1, WFMin
<1>4. ASSUME NEW i \in I PROVE m <= i
  <2>1. i \in Nat /\ m \in Nat /\ ~ i < m
    BY <1>2, <1>3
  <2> QED
    BY <2>1
<1> QED
  BY <1>3, <1>4 DEF Min

\* The last of some places.
LEMMA GreatestOf ==
    ASSUME NEW I, NEW n \in Nat, I \subseteq 1 .. n, I # {}
    PROVE  Max(I) \in I /\ \A i \in I : i <= Max(I)
<1> DEFINE J == {n - i : i \in I}
<1>1. J \subseteq Nat /\ J # {}
  <2>1. \A i \in I : n - i \in Nat
    OBVIOUS
  <2> QED
    BY <2>1
<1>2. Min(J) \in J /\ \A j \in J : Min(J) <= j
  BY <1>1, LeastOf
<1>3. PICK m \in I : Min(J) = n - m
  BY <1>2
<1>4. ASSUME NEW i \in I PROVE i <= m
  <2>1. n - m <= n - i
    BY <1>2, <1>3
  <2>2. i \in Int /\ m \in Int
    OBVIOUS
  <2> HIDE DEF J
  <2> QED
    BY <2>1, <2>2
<1> QED
  BY <1>3, <1>4 DEF Max

\* The backtrace of a stack.
LEMMA FillTyped ==
    ASSUME NEW stack \in Stacks, NEW u \in Unwinders PROVE Fill(stack, u) \in Seq(Nat)
<1>1. stack.ips \in Seq(Nat)
  BY UnwindAssumption
<1>9. u \in {"libunwind", "unwind tables", "macOS x86_64", "macOS arm64"}
  BY UnwindAssumption
<1>10. MaxSize \in Nat \ {0}
  BY UnwindAssumption
<1>11. MaxSize \in Int /\ MaxSize - 1 \in Int
  BY <1>10
<1>2. NotNull(stack.ips) \in Seq(Nat)
  <2>1. NotNull(stack.ips) \in Seq(Nat \ {0})
    BY <1>1, NotNullTyped
  <2> QED
    BY <2>1
<1>3. FramePointerWalk(stack) \in Seq(Nat)
  <2> DEFINE walked == [i \in DOMAIN stack.ips |-> IsWalked(stack, i)]
             I == {i \in 1 .. Len(walked) : ~ walked[i]}
             broken == SelectInSeq(walked, LAMBDA b : ~ b)
             rest == IF broken = 0 THEN stack.ips ELSE SubSeq(stack.ips, 1, broken - 1)
  <2>1. Len(walked) = Len(stack.ips) /\ Len(stack.ips) \in Nat
    <3>1. DOMAIN stack.ips = 1 .. Len(stack.ips) /\ Len(stack.ips) \in Nat
      BY <1>1, LenProperties
    <3>2. walked \in [1 .. Len(stack.ips) -> {IsWalked(stack, i) : i \in 1 .. Len(stack.ips)}]
      BY <3>1
    <3> HIDE DEF walked
    <3> QED
      BY <3>1, <3>2, FunctionIsSeq
  <2>2. broken = IF I # {} THEN Min(I) ELSE 0
    BY DEF SelectInSeq
  <2> HIDE DEF walked, broken
  <2>3. broken \in Nat /\ broken <= Len(stack.ips)
    <3>1. I \subseteq Nat /\ I \subseteq 1 .. Len(stack.ips)
      BY <2>1
    <3>2. CASE I # {}
      <4>1. Min(I) \in I
        BY <3>1, <3>2, LeastOf
      <4>2. broken = Min(I)
        BY <2>2, <3>2
      <4> HIDE DEF I
      <4>3. broken \in 1 .. Len(stack.ips)
        BY <3>1, <4>1, <4>2
      <4> QED
        BY <2>1, <4>3
    <3>3. CASE I = {}
      BY <2>1, <2>2, <3>3
    <3> QED
      BY <3>2, <3>3
  <2>4. rest \in Seq(Nat)
    <3>1. CASE broken # 0
      <4>1. broken - 1 \in Int /\ broken - 1 <= Len(stack.ips) /\ 1 \in Nat \ {0}
        BY <2>1, <2>3
      <4>2. SubSeq(stack.ips, 1, broken - 1) \in Seq(Nat)
        BY <1>1, <4>1, SubSeqTyped
      <4> QED
        BY <3>1, <4>2
    <3>2. CASE broken = 0
      BY <1>1, <3>2
    <3> QED
      BY <3>1, <3>2
  <2>5. FramePointerWalk(stack) = First(rest, MaxSize)
    BY DEF FramePointerWalk, walked, broken
  <2> HIDE DEF rest
  <2> QED
    BY <1>11, <2>4, <2>5, FirstTyped
<1> DEFINE all == UnwindStack(stack, u)
<1>4. all \in Seq(Nat)
  <2>1. \A s \in Seq(Nat) : First(s, MaxSize) \in Seq(Nat) /\ First(s, MaxSize - 1) \in Seq(Nat)
    BY <1>11, FirstTyped
  <2> QED
    BY <1>1, <1>2, <1>3, <1>9, <2>1 DEF UnwindStack
<1> HIDE DEF all
<1> DEFINE last == SelectLastInSeq(all, LAMBDA ip : ip # 0)
           data == SubSeq(all, 1, last)
<1>5. last \in Nat /\ last <= Len(all)
  <2> DEFINE I == {i \in 1 .. Len(all) : all[i] # 0}
  <2>1. last = IF I # {} THEN Max(I) ELSE 0
    BY DEF SelectLastInSeq
  <2>2. Len(all) \in Nat
    BY <1>4, LenProperties
  <2> HIDE DEF last
  <2>3. CASE I # {}
    <3>1. Max(I) \in I
      BY <2>2, <2>3, GreatestOf
    <3> QED
      BY <2>1, <2>2, <2>3, <3>1
  <2> QED
    BY <2>1, <2>2, <2>3
<1> HIDE DEF last
<1>6. data \in Seq(Nat) /\ Len(data) \in Nat
  <2>1. data \in Seq(Nat)
    BY <1>4, <1>5, SubSeqTyped
  <2> QED
    BY <2>1, LenProperties
<1>7. Fill(stack, u) = SubSeq(data, Skip + 1, Len(data))
  BY DEF Fill, WithoutNullsAtEnd, all, last
<1> HIDE DEF data
<1>8. SubSeq(data, Skip + 1, Len(data)) \in Seq(Nat)
  BY <1>6, SubSeqTyped DEF Skip
<1> QED
  BY <1>7, <1>8

-----------------------------------------------------------------------------
\* The lines of the raw stream.
RawLine ==
    [mode : {"m"}, modules : Layouts] \cup [mode : {"t"}, ip : Int, parent : Nat]
      \cup [mode : {"+"}, size : Sizes, trace : Nat, ptr : Ptrs] \cup [mode : {"-"}, ptr : Ptrs]

Traced == [ip : Nat \ {0}, parent : Nat]

\* The writer's state. The edge it has reached exists.
WriterOK ==
    /\ unwinder \in Unwinders /\ layout \in Layouts /\ s_moduleCacheDirty \in BOOLEAN
    /\ pc \in {"idle", "modules", "index", "closed"} /\ events \in Nat
    /\ edges \in Seq(Traced) /\ frames \in Seq(Nat \ {0}) /\ parent \in 0 .. Len(edges)
    /\ pc \in {"modules", "index"} => request \in [stack : Stacks, size : Sizes, ptr : Ptrs]
    /\ buffer \in Seq(RawLine) /\ raw \in Seq(RawLine) /\ failures \in Nat
    /\ recorded \in Seq(Stacks)

\* The raw stream only grows.
RawGrows ==
    /\ Len(raw) <= Len(raw')
    /\ \A k \in 1 .. Len(raw) : raw'[k] = raw[k]

\* As it does where it is not written.
LEMMA RawSame == ASSUME WriterOK, raw' = raw PROVE RawGrows
<1>1. Len(raw) \in Nat
  BY LenProperties DEF WriterOK
<1> QED
  BY <1>1 DEF RawGrows

\* What a concatenation has.
LEMMA Concatenated ==
    ASSUME NEW S, NEW s \in Seq(S), NEW t \in Seq(S)
    PROVE  /\ s \o t \in Seq(S) /\ Len(s \o t) = Len(s) + Len(t)
           /\ \A k \in 1 .. Len(s) : (s \o t)[k] = s[k]
           /\ \A k \in 1 .. Len(t) : (s \o t)[Len(s) + k] = t[k]
<1>1. Len(s) \in Nat /\ Len(t) \in Nat
  BY LenProperties
<1>2. /\ s \o t \in Seq(S) /\ Len(s \o t) = Len(s) + Len(t)
      /\ \A k \in 1 .. Len(s) + Len(t) : (s \o t)[k] = IF k <= Len(s) THEN s[k] ELSE t[k - Len(s)]
  BY ConcatProperties
<1> DEFINE u == s \o t
<1> HIDE DEF u
<1>3. \A k \in 1 .. Len(s) : u[k] = s[k]
  BY <1>1, <1>2 DEF u
<1>4. ASSUME NEW k \in 1 .. Len(t) PROVE u[Len(s) + k] = t[k]
  <2>1. Len(s) + k \in 1 .. Len(s) + Len(t) /\ ~ Len(s) + k <= Len(s) /\ (Len(s) + k) - Len(s) = k
    BY <1>1
  <2> QED
    BY <1>2, <2>1 DEF u
<1> QED
  BY <1>2, <1>3, <1>4 DEF u

\* The buffer reaches the output.
LEMMA FlushedStep ==
    ASSUME WriterOK, Flushed
    PROVE  raw' \in Seq(RawLine) /\ failures' \in Nat /\ RawGrows
<1>1. raw \in Seq(RawLine) /\ buffer \in Seq(RawLine) /\ Len(raw) \in Nat /\ Len(buffer) \in Nat
      /\ failures \in Nat
  BY LenProperties DEF WriterOK
<1>2. ASSUME NEW lines \in Seq(RawLine), raw' = raw \o lines
      PROVE  raw' \in Seq(RawLine) /\ RawGrows
  <2>1. /\ raw' \in Seq(RawLine) /\ Len(raw') = Len(raw) + Len(lines)
        /\ \A k \in 1 .. Len(raw) : raw'[k] = raw[k]
    BY <1>1, <1>2, Concatenated
  <2>2. Len(lines) \in Nat
    BY LenProperties
  <2> QED
    BY <1>1, <2>1, <2>2 DEF RawGrows
<1>3. CASE raw' = raw \o buffer /\ UNCHANGED failures
  BY <1>1, <1>2, <1>3
<1>4. CASE /\ failures < MaxFailures /\ failures' = failures + 1
           /\ \E n \in 0 .. (Len(buffer) - 1) : raw' = raw \o SubSeq(buffer, 1, n)
  <2>1. PICK n \in 0 .. (Len(buffer) - 1) : raw' = raw \o SubSeq(buffer, 1, n)
    BY <1>4
  <2>2. SubSeq(buffer, 1, n) \in Seq(RawLine)
    <3>1. n \in Int /\ n <= Len(buffer) /\ 1 \in Nat \ {0}
      BY <1>1
    <3> QED
      BY <1>1, <3>1, SubSeqTyped
  <2>3. raw' \in Seq(RawLine) /\ RawGrows
    BY <1>2, <2>1, <2>2
  <2> QED
    BY <1>1, <1>4, <2>3
<1> QED
  BY <1>3, <1>4 DEF Flushed

\* A line is written, or it is not.
LEMMA WrittenStep ==
    ASSUME WriterOK, NEW line \in RawLine, Written(line) \/ Failed
    PROVE  buffer' \in Seq(RawLine) /\ raw' \in Seq(RawLine) /\ failures' \in Nat /\ RawGrows
<1>1. raw \in Seq(RawLine) /\ buffer \in Seq(RawLine) /\ failures \in Nat
  BY DEF WriterOK
<1>2. CASE Fits /\ buffer' = Append(buffer, line) /\ UNCHANGED <<raw, failures>>
  BY <1>1, <1>2, AppendProperties, RawSame
<1>3. CASE ~ Fits /\ buffer' = <<line>> /\ Flushed
  BY <1>3, FlushedStep
<1>4. CASE Failed
  BY <1>1, <1>4, RawSame DEF Failed
<1> QED
  BY <1>2, <1>3, <1>4 DEF Written

\* The last return address and those before it.
LEMMA FrontTyped ==
    ASSUME NEW S, NEW s \in Seq(S), s # <<>>
    PROVE  /\ Front(s) \in Seq(S) /\ Len(Front(s)) = Len(s) - 1 /\ Len(s) \in Nat \ {0}
           /\ Last(s) \in S /\ Last(s) = s[Len(s)]
           /\ \A k \in 1 .. Len(s) - 1 : Front(s)[k] = s[k]
<1>1. Len(s) \in Nat /\ Len(s) # 0 /\ \A k \in 1 .. Len(s) : s[k] \in S
  BY LenProperties, ElementOfSeq, EmptySeq
<1>2. Front(s) = SubSeq(s, 1, Len(s) - 1)
  BY DEF Front
<1>3. 1 \in Int /\ Len(s) - 1 \in Int /\ \A k \in 1 .. Len(s) - 1 : s[k] \in S
  BY <1>1
<1>4. /\ SubSeq(s, 1, Len(s) - 1) \in Seq(S)
      /\ Len(SubSeq(s, 1, Len(s) - 1)) = IF 1 <= Len(s) - 1 THEN (Len(s) - 1) - 1 + 1 ELSE 0
      /\ \A k \in 1 .. (Len(s) - 1) - 1 + 1 : SubSeq(s, 1, Len(s) - 1)[k] = s[1 + k - 1]
  BY <1>3, SubSeqProperties
<1> DEFINE t == SubSeq(s, 1, Len(s) - 1)
<1> HIDE DEF t
<1>5. Len(t) = Len(s) - 1 /\ \A k \in 1 .. Len(s) - 1 : t[k] = s[k]
  <2>1. /\ Len(t) = IF 1 <= Len(s) - 1 THEN (Len(s) - 1) - 1 + 1 ELSE 0
        /\ \A k \in 1 .. (Len(s) - 1) - 1 + 1 : t[k] = s[1 + k - 1]
    BY <1>4 DEF t
  <2>2. Len(t) = Len(s) - 1
    <3>1. Len(s) \in Nat \ {0} /\ Len(t) = IF 1 <= Len(s) - 1 THEN (Len(s) - 1) - 1 + 1 ELSE 0
      BY <1>1, <2>1
    <3> DEFINE L == Len(s)
               M == Len(t)
    <3>2. L \in Nat \ {0} /\ M = IF 1 <= L - 1 THEN (L - 1) - 1 + 1 ELSE 0
      BY <3>1
    <3> HIDE DEF L, M
    <3>3. M = L - 1
      <4>1. CASE L = 1
        BY <3>2, <4>1
      <4>2. CASE L > 1
        BY <3>2, <4>2
      <4> QED
        BY <3>2, <4>1, <4>2
    <3> QED
      BY <3>3 DEF L, M
  <2>3. ASSUME NEW k \in 1 .. Len(s) - 1 PROVE t[k] = s[k]
    <3>1. k \in 1 .. (Len(s) - 1) - 1 + 1 /\ 1 + k - 1 = k
      BY <1>1
    <3> QED
      BY <2>1, <3>1
  <2> QED
    BY <2>2, <2>3
<1> QED
  BY <1>1, <1>2, <1>4, <1>5 DEF Last, t

\* A position that is looked for, 0 if there is none.
LEMMA PositionIs ==
    ASSUME NEW S, NEW s \in Seq(S), NEW e
    PROVE  /\ Position(e, s) \in 0 .. Len(s)
           /\ Position(e, s) # 0 => s[Position(e, s)] = e
           /\ Position(e, s) = 0 => \A k \in 1 .. Len(s) : s[k] # e
           /\ \A k \in 1 .. Len(s) : s[k] = e => Position(e, s) <= k
<1> DEFINE I == {i \in 1 .. Len(s) : s[i] = e}
<1>1. Len(s) \in Nat
  BY LenProperties
<1>2. Position(e, s) = IF I # {} THEN Min(I) ELSE 0
  BY DEF Position, SelectInSeq
<1>3. CASE I # {}
  <2>1. Min(I) \in I /\ \A i \in I : Min(I) <= i
    <3>1. I \subseteq Nat
      BY <1>1
    <3> QED
      BY <1>3, <3>1, LeastOf
  <2> DEFINE m == Min(I)
  <2>2. Position(e, s) = m /\ m \in I /\ \A i \in I : m <= i
    BY <1>2, <1>3, <2>1
  <2> HIDE DEF m
  <2> QED
    BY <1>1, <2>2
<1>4. CASE I = {}
  BY <1>1, <1>2, <1>4
<1> QED
  BY <1>3, <1>4

\* The child of an edge exists.
LEMMA EdgeExists ==
    ASSUME edges \in Seq(Traced), NEW ip, NEW above PROVE Edge(ip, above) \in 0 .. Len(edges)
BY PositionIs DEF Edge

\* Each action of the writer.
LEMMA WriterStep == ASSUME WriterOK, WriterNext PROVE WriterOK' /\ RawGrows
<1>0. /\ raw \in Seq(RawLine) /\ buffer \in Seq(RawLine) /\ failures \in Nat
      /\ edges \in Seq(Traced) /\ frames \in Seq(Nat \ {0}) /\ Len(edges) \in Nat
      /\ events \in Nat /\ layout \in Layouts /\ unwinder \in Unwinders
      /\ parent \in 0 .. Len(edges) /\ parent \in Nat /\ recorded \in Seq(Stacks)
      /\ s_moduleCacheDirty \in BOOLEAN
  <2>1. Len(edges) \in Nat
    BY LenProperties DEF WriterOK
  <2> QED
    BY <2>1 DEF WriterOK
<1> USE DEF tree, output, history
<1>1. CASE HandleMalloc
  <2>1. PICK stack \in Stacks, s \in Sizes, p \in Ptrs :
          /\ request' = [stack |-> stack, size |-> s, ptr |-> p]
          /\ frames' = Frames(Fill(stack, unwinder))
    BY <1>1 DEF HandleMalloc
  <2>2. frames' \in Seq(Nat \ {0})
    <3>1. Fill(stack, unwinder) \in Seq(Nat)
      BY <1>0, FillTyped
    <3> QED
      BY <2>1, <3>1, NotNullTyped DEF Frames
  <2>3. request' \in [stack : Stacks, size : Sizes, ptr : Ptrs]
    BY <2>1
  <2>4. events' \in Nat /\ pc' \in {"idle", "modules", "index", "closed"}
        /\ UNCHANGED <<unwinder, layout, s_moduleCacheDirty, edges, parent, buffer, raw, failures, recorded>>
    BY <1>0, <1>1 DEF HandleMalloc
  <2> QED
    BY <1>0, <2>2, <2>3, <2>4, RawSame DEF WriterOK
<1>2. CASE UpdateModuleCache
  <2>1. ModulesLine(layout) \in RawLine
    BY <1>0 DEF ModulesLine, RawLine
  <2>2. Written(ModulesLine(layout)) \/ Failed
    BY <1>2 DEF UpdateModuleCache
  <2>3. buffer' \in Seq(RawLine) /\ raw' \in Seq(RawLine) /\ failures' \in Nat /\ RawGrows
    BY <2>1, <2>2, WrittenStep
  <2>4. /\ pc = "modules" /\ pc' = "index" /\ s_moduleCacheDirty' \in BOOLEAN
        /\ UNCHANGED <<unwinder, layout, tree, events, history>>
    BY <1>0, <1>2 DEF UpdateModuleCache
  <2> QED
    BY <1>0, <2>3, <2>4 DEF WriterOK
<1>3. CASE Descend
  <2>1. parent' \in 0 .. Len(edges)
    BY <1>0, <1>3, EdgeExists DEF Descend
  <2>2. frames' \in Seq(Nat \ {0})
    BY <1>0, <1>3, FrontTyped DEF Descend
  <2> QED
    BY <1>0, <1>3, <2>1, <2>2, RawSame DEF WriterOK, Descend
<1>4. CASE Insert
  <2> DEFINE ip == Last(frames)
             line == LineOfIp(ip, parent)
             edge == [ip |-> ip, parent |-> parent]
  <2>1. frames # <<>> /\ ip \in Nat \ {0} /\ Front(frames) \in Seq(Nat \ {0})
    BY <1>0, <1>4, FrontTyped DEF Insert
  <2>2. line \in RawLine
    <3>1. ip - 1 \in Int
      BY <2>1
    <3> QED
      BY <1>0, <3>1 DEF LineOfIp, TraceLine, RawLine
  <2>3. Written(line) \/ Failed
    BY <1>4 DEF Insert
  <2>4. buffer' \in Seq(RawLine) /\ raw' \in Seq(RawLine) /\ failures' \in Nat /\ RawGrows
    BY <2>2, <2>3, WrittenStep
  <2>5. edges' \in Seq(Traced) /\ Len(edges') = Len(edges) + 1
    <3>1. edge \in Traced
      BY <1>0, <2>1 DEF Traced
    <3>2. edges' = Append(edges, edge)
      BY <1>4 DEF Insert
    <3> HIDE DEF edge
    <3> QED
      BY <1>0, <3>1, <3>2, AppendProperties
  <2>6. (parent' = Len(edges) + 1 /\ frames' = Front(frames)) \/ (parent' = 0 /\ frames' = <<>>)
    BY <1>4 DEF Insert
  <2>7. parent' \in 0 .. Len(edges') /\ frames' \in Seq(Nat \ {0})
    <3>1. <<>> \in Seq(Nat \ {0})
      OBVIOUS
    <3>2. Len(edges) + 1 \in 0 .. Len(edges') /\ 0 \in 0 .. Len(edges')
      BY <1>0, <2>5
    <3> QED
      BY <2>1, <2>6, <3>1, <3>2
  <2>8. UNCHANGED <<unwinder, layout, s_moduleCacheDirty, request, pc, events, recorded>>
    BY <1>4 DEF Insert
  <2> QED
    BY <1>0, <2>4, <2>5, <2>7, <2>8 DEF WriterOK
<1>5. CASE WriteAllocation
  <2> DEFINE line == AllocationLine(request.size, parent, request.ptr)
  <2>1. request \in [stack : Stacks, size : Sizes, ptr : Ptrs]
    BY <1>5 DEF WriteAllocation, WriterOK
  <2>2. line \in RawLine
    BY <1>0, <2>1 DEF AllocationLine, RawLine
  <2>3. Written(line) \/ Failed
    BY <1>5 DEF WriteAllocation
  <2>4. buffer' \in Seq(RawLine) /\ raw' \in Seq(RawLine) /\ failures' \in Nat /\ RawGrows
    BY <2>2, <2>3, WrittenStep
  <2>5. recorded' \in Seq(Stacks)
    <3>1. recorded' = Append(recorded, request.stack) \/ recorded' = recorded
      BY <1>5 DEF WriteAllocation
    <3>2. request.stack \in Stacks
      BY <2>1
    <3>3. Append(recorded, request.stack) \in Seq(Stacks)
      BY <1>0, <3>2, AppendProperties
    <3> QED
      BY <1>0, <3>1, <3>3
  <2>6. /\ pc' = "idle" /\ parent' = 0
        /\ UNCHANGED <<unwinder, layout, s_moduleCacheDirty, edges, frames, events>>
    BY <1>5 DEF WriteAllocation
  <2> QED
    BY <1>0, <2>4, <2>5, <2>6 DEF WriterOK
<1>6. CASE HandleFree
  <2>1. PICK p \in Ptrs : Written(FreeLine(p)) \/ Failed
    BY <1>6 DEF HandleFree
  <2>2. FreeLine(p) \in RawLine
    BY DEF FreeLine, RawLine
  <2>3. buffer' \in Seq(RawLine) /\ raw' \in Seq(RawLine) /\ failures' \in Nat /\ RawGrows
    BY <2>1, <2>2, WrittenStep
  <2>4. /\ events' \in Nat /\ pc' = pc
        /\ UNCHANGED <<unwinder, layout, s_moduleCacheDirty, tree, history>>
    BY <1>0, <1>6 DEF HandleFree
  <2> QED
    BY <1>0, <2>3, <2>4 DEF WriterOK
<1>7. CASE ChangeModules
  BY <1>0, <1>7, RawSame DEF WriterOK, ChangeModules
<1>8. CASE Shutdown
  <2>1. raw' \in Seq(RawLine) /\ failures' \in Nat /\ RawGrows
    BY <1>8, FlushedStep DEF Shutdown
  <2>2. buffer' \in Seq(RawLine)
    <3>1. buffer' = <<>>
      BY <1>8 DEF Shutdown
    <3> QED
      BY <3>1
  <2>3. /\ pc' = "closed"
        /\ UNCHANGED <<unwinder, layout, s_moduleCacheDirty, tree, events, history>>
    BY <1>8 DEF Shutdown
  <2> QED
    BY <1>0, <2>1, <2>2, <2>3 DEF WriterOK
<1> QED
  BY <1>1, <1>2, <1>3, <1>4, <1>5, <1>6, <1>7, <1>8 DEF WriterNext

-----------------------------------------------------------------------------
(* The tables of names                                                     *)

\* Names are whatever was resolved; what matters is that they are numbered.
IsSequence(s) == \E S : s \in Seq(S)

\* A sequence over more than its elements.
LEMMA SeqWider ==
    ASSUME NEW S, NEW T, S \subseteq T, NEW s \in Seq(S) PROVE s \in Seq(T)
<1>1. Len(s) \in Nat /\ s \in [1 .. Len(s) -> S]
  BY LenProperties
<1>2. s \in [1 .. Len(s) -> T]
  BY <1>1
<1> QED
  BY <1>1, <1>2, FunctionIsSeq

\* Two sequences have their elements in one set.
LEMMA Common ==
    ASSUME NEW s, IsSequence(s), NEW t, IsSequence(t)
    PROVE  \E S : s \in Seq(S) /\ t \in Seq(S)
<1>1. PICK A : s \in Seq(A)
  BY DEF IsSequence
<1>2. PICK B : t \in Seq(B)
  BY DEF IsSequence
<1>3. A \subseteq A \cup B /\ B \subseteq A \cup B
  OBVIOUS
<1>4. s \in Seq(A \cup B) /\ t \in Seq(A \cup B)
  BY <1>1, <1>2, <1>3, SeqWider
<1> QED
  BY <1>4

\* One more element of whatever kind.
LEMMA AppendShape ==
    ASSUME NEW s, IsSequence(s), NEW e
    PROVE  /\ IsSequence(Append(s, e)) /\ Len(s) \in Nat /\ Len(Append(s, e)) = Len(s) + 1
           /\ \A k \in 1 .. Len(s) : Append(s, e)[k] = s[k]
           /\ Append(s, e)[Len(s) + 1] = e
<1>1. PICK S : s \in Seq(S)
  BY DEF IsSequence
<1>2. S \subseteq S \cup {e} /\ e \in S \cup {e}
  OBVIOUS
<1>3. s \in Seq(S \cup {e})
  BY <1>1, <1>2, SeqWider
<1>4. /\ Append(s, e) \in Seq(S \cup {e}) /\ Len(Append(s, e)) = Len(s) + 1
      /\ \A k \in 1 .. Len(s) : Append(s, e)[k] = s[k]
      /\ Append(s, e)[Len(s) + 1] = e
  BY <1>2, <1>3, AppendProperties
<1>5. Len(s) \in Nat
  BY <1>1, LenProperties
<1> QED
  BY <1>4, <1>5 DEF IsSequence

\* Another sequence after it.
LEMMA ConcatShape ==
    ASSUME NEW s, IsSequence(s), NEW t, IsSequence(t)
    PROVE  /\ IsSequence(s \o t) /\ Len(s) \in Nat /\ Len(t) \in Nat
           /\ Len(s \o t) = Len(s) + Len(t)
           /\ \A k \in 1 .. Len(s) : (s \o t)[k] = s[k]
           /\ \A k \in 1 .. Len(t) : (s \o t)[Len(s) + k] = t[k]
<1>1. PICK S : s \in Seq(S) /\ t \in Seq(S)
  BY Common
<1>2. /\ s \o t \in Seq(S) /\ Len(s \o t) = Len(s) + Len(t)
      /\ \A k \in 1 .. Len(s) : (s \o t)[k] = s[k]
      /\ \A k \in 1 .. Len(t) : (s \o t)[Len(s) + k] = t[k]
  BY <1>1, Concatenated
<1>3. Len(s) \in Nat /\ Len(t) \in Nat
  BY <1>1, LenProperties
<1> QED
  BY <1>2, <1>3 DEF IsSequence

\* A function on an interval.
LEMMA FunctionShape ==
    ASSUME NEW n \in Nat, NEW f, f = [k \in 1 .. n |-> f[k]]
    PROVE  IsSequence(f) /\ Len(f) = n
<1> DEFINE S == {f[k] : k \in 1 .. n}
<1>1. f \in [1 .. n -> S]
  OBVIOUS
<1> HIDE DEF S
<1>2. f \in Seq(S) /\ Len(f) = n
  BY <1>1, FunctionIsSeq
<1> QED
  BY <1>2 DEF IsSequence

-----------------------------------------------------------------------------
\* What the recursive function of Interned is.
IsKnown(f, strings0, names) ==
    f = [n \in 0 .. Len(names) |-> IF n = 0 THEN strings0 ELSE Intern(f[n - 1], names[n])]

\* There is such a function.
LEMMA KnownExists ==
    ASSUME NEW strings0, NEW names, IsSequence(names) PROVE \E f : IsKnown(f, strings0, names)
<1> DEFINE Upto(f, m) ==
             f = [n \in 0 .. m |-> IF n = 0 THEN strings0 ELSE Intern(f[n - 1], names[n])]
           S == {m \in Nat : \E f : Upto(f, m)}
<1>1. 0 \in S
  <2>1. Upto([k \in 0 .. 0 |-> strings0], 0)
    OBVIOUS
  <2> QED
    BY <2>1
<1>2. ASSUME NEW m \in Nat, m \in S PROVE m + 1 \in S
  <2>1. PICK f : Upto(f, m)
    BY <1>2
  <2> DEFINE last == Intern(f[m], names[m + 1])
             g == [k \in 0 .. m + 1 |-> IF k = m + 1 THEN last ELSE f[k]]
  <2>2. ASSUME NEW k \in 0 .. m + 1
        PROVE  g[k] = IF k = 0 THEN strings0 ELSE Intern(g[k - 1], names[k])
    <3>1. CASE k = m + 1
      <4>1. g[k] = last /\ g[k - 1] = f[m] /\ k # 0
        BY <3>1
      <4> HIDE DEF g
      <4> QED
        BY <3>1, <4>1
    <3>2. CASE k = 0
      <4>1. g[k] = f[0] /\ f[0] = strings0
        BY <2>1, <3>2
      <4> HIDE DEF g
      <4> QED
        BY <3>2, <4>1
    <3>3. CASE k \in 1 .. m
      <4>1. g[k] = f[k] /\ g[k - 1] = f[k - 1] /\ k # 0 /\ k \in 0 .. m
        BY <3>3
      <4>2. f[k] = Intern(f[k - 1], names[k])
        BY <2>1, <4>1
      <4> HIDE DEF g
      <4> QED
        BY <4>1, <4>2
    <3> QED
      BY <3>1, <3>2, <3>3
  <2>3. Upto(g, m + 1)
    <3>1. g = [k \in 0 .. m + 1 |-> g[k]]
      OBVIOUS
    <3> HIDE DEF g
    <3> QED
      BY <2>2, <3>1
  <2> HIDE DEF g
  <2>4. \E f0 : Upto(f0, m + 1)
    BY <2>3
  <2> QED
    BY <2>4
<1> HIDE DEF S
<1>3. \A m \in Nat : m \in S
  BY <1>1, <1>2, Induction
<1>4. Len(names) \in Nat
  BY LenProperties DEF IsSequence
<1> QED
  BY <1>3, <1>4 DEF S, IsKnown

\* Interning names adds to the strings.
LEMMA InternedIs ==
    ASSUME NEW strings0, IsSequence(strings0), NEW names, IsSequence(names)
    PROVE  /\ IsSequence(Interned(strings0, names))
           /\ Len(strings0) \in Nat /\ Len(Interned(strings0, names)) \in Nat
           /\ Len(strings0) <= Len(Interned(strings0, names))
           /\ \A k \in 1 .. Len(strings0) : Interned(strings0, names)[k] = strings0[k]
<1>1. PICK f : IsKnown(f, strings0, names) /\ Interned(strings0, names) = f[Len(names)]
  <2>1. IsKnown(CHOOSE f : IsKnown(f, strings0, names), strings0, names)
    BY KnownExists
  <2>2. Interned(strings0, names) = (CHOOSE f : IsKnown(f, strings0, names))[Len(names)]
    BY DEF Interned, IsKnown
  <2> QED
    BY <2>1, <2>2
<1> DEFINE Extends(s) == /\ IsSequence(s) /\ Len(strings0) \in Nat /\ Len(s) \in Nat
                         /\ Len(strings0) <= Len(s)
                         /\ \A k \in 1 .. Len(strings0) : s[k] = strings0[k]
           S == {n \in Nat : n <= Len(names) => Extends(f[n])}
<1>2. Len(names) \in Nat /\ Len(strings0) \in Nat
  BY LenProperties DEF IsSequence
<1>3. 0 \in S
  <2>1. f[0] = strings0
    BY <1>1, <1>2 DEF IsKnown
  <2> QED
    BY <1>2, <2>1
<1>4. ASSUME NEW n \in Nat, n \in S PROVE n + 1 \in S
  <2> SUFFICES ASSUME n + 1 <= Len(names) PROVE Extends(f[n + 1])
    OBVIOUS
  <2>1. Extends(f[n])
    BY <1>2, <1>4
  <2>2. f[n + 1] = Intern(f[n], names[n + 1])
    <3>1. n + 1 \in 0 .. Len(names) /\ n + 1 # 0 /\ (n + 1) - 1 = n
      BY <1>2
    <3> QED
      BY <1>1, <3>1 DEF IsKnown
  <2>3. f[n + 1] = f[n] \/ f[n + 1] = Append(f[n], names[n + 1])
    BY <2>2 DEF Intern
  <2> DEFINE old == f[n]
             new == Append(old, names[n + 1])
  <2>4. /\ IsSequence(new) /\ Len(old) \in Nat /\ Len(new) = Len(old) + 1
        /\ \A k \in 1 .. Len(old) : new[k] = old[k]
    <3>1. IsSequence(old)
      BY <2>1
    <3> HIDE DEF old
    <3> QED
      BY <3>1, AppendShape
  <2>5. Extends(new)
    <3>1. /\ Len(strings0) \in Nat /\ Len(strings0) <= Len(old)
          /\ \A k \in 1 .. Len(strings0) : old[k] = strings0[k]
      BY <2>1
    <3> HIDE DEF old, new
    <3>2. \A k \in 1 .. Len(strings0) : k \in 1 .. Len(old)
      BY <2>4, <3>1
    <3>3. \A k \in 1 .. Len(strings0) : new[k] = strings0[k]
      BY <2>4, <3>1, <3>2
    <3>4. Len(new) \in Nat /\ Len(strings0) <= Len(new)
      BY <2>4, <3>1
    <3> QED
      BY <2>4, <3>1, <3>3, <3>4
  <2> HIDE DEF Extends
  <2> QED
    BY <2>1, <2>3, <2>5
<1> HIDE DEF S
<1>5. \A n \in Nat : n \in S
  BY <1>3, <1>4, Induction
<1>6. Extends(f[Len(names)])
  BY <1>2, <1>5 DEF S
<1> QED
  BY <1>1, <1>6

\* What the recursive function of DieNames is, over any chain of DIEs.
NextName(b, done, d) == WithName(done, DieName(b, d, done.cache))

IsNamed(f, b, chain, cache) ==
    f = [n \in 0 .. Len(chain) |->
            IF n = 0 THEN [names |-> <<>>, cache |-> cache] ELSE NextName(b, f[n - 1], chain[n])]

\* There is such a function.
LEMMA NamedExists ==
    ASSUME NEW b, NEW cache, NEW chain, IsSequence(chain) PROVE \E f : IsNamed(f, b, chain, cache)
<1> DEFINE start == [names |-> <<>>, cache |-> cache]
           Upto(f, m) ==
             f = [n \in 0 .. m |-> IF n = 0 THEN start ELSE NextName(b, f[n - 1], chain[n])]
           S == {m \in Nat : \E f : Upto(f, m)}
<1> HIDE DEF start
<1>1. 0 \in S
  <2>1. Upto([k \in 0 .. 0 |-> start], 0)
    OBVIOUS
  <2> QED
    BY <2>1
<1>2. ASSUME NEW m \in Nat, m \in S PROVE m + 1 \in S
  <2>1. PICK f : Upto(f, m)
    BY <1>2
  <2> DEFINE last == NextName(b, f[m], chain[m + 1])
             g == [k \in 0 .. m + 1 |-> IF k = m + 1 THEN last ELSE f[k]]
  <2>2. ASSUME NEW k \in 0 .. m + 1
        PROVE  g[k] = IF k = 0 THEN start ELSE NextName(b, g[k - 1], chain[k])
    <3>1. CASE k = m + 1
      <4>1. g[k] = last /\ g[k - 1] = f[m] /\ k # 0
        BY <3>1
      <4> HIDE DEF g
      <4> QED
        BY <3>1, <4>1
    <3>2. CASE k = 0
      <4>1. g[k] = f[0] /\ f[0] = start
        BY <2>1, <3>2
      <4> HIDE DEF g
      <4> QED
        BY <3>2, <4>1
    <3>3. CASE k \in 1 .. m
      <4>1. g[k] = f[k] /\ g[k - 1] = f[k - 1] /\ k # 0 /\ k \in 0 .. m
        BY <3>3
      <4>2. f[k] = NextName(b, f[k - 1], chain[k])
        BY <2>1, <4>1
      <4> HIDE DEF g
      <4> QED
        BY <4>1, <4>2
    <3> QED
      BY <3>1, <3>2, <3>3
  <2>3. Upto(g, m + 1)
    <3>1. g = [k \in 0 .. m + 1 |-> g[k]]
      OBVIOUS
    <3> HIDE DEF g
    <3> QED
      BY <2>2, <3>1
  <2> HIDE DEF g
  <2>4. \E f0 : Upto(f0, m + 1)
    BY <2>3
  <2> QED
    BY <2>4
<1> HIDE DEF S
<1>3. \A m \in Nat : m \in S
  BY <1>1, <1>2, Induction
<1>4. Len(chain) \in Nat
  BY LenProperties DEF IsSequence
<1> QED
  BY <1>3, <1>4 DEF S, IsNamed, start

\* One name for each DIE of the chain.
LEMMA NamedShape ==
    ASSUME NEW b, NEW cache, NEW chain, IsSequence(chain), NEW f, IsNamed(f, b, chain, cache)
    PROVE  IsSequence(f[Len(chain)].names)
<1> DEFINE S == {n \in Nat : n <= Len(chain) => IsSequence(f[n].names)}
<1>1. Len(chain) \in Nat
  BY LenProperties DEF IsSequence
<1>2. 0 \in S
  <2>1. f[0].names = <<>>
    BY <1>1 DEF IsNamed
  <2>2. <<>> \in Seq({})
    OBVIOUS
  <2> QED
    BY <2>1, <2>2 DEF IsSequence
<1>3. ASSUME NEW n \in Nat, n \in S PROVE n + 1 \in S
  <2> SUFFICES ASSUME n + 1 <= Len(chain) PROVE IsSequence(f[n + 1].names)
    OBVIOUS
  <2>1. n + 1 \in 0 .. Len(chain) /\ n + 1 # 0 /\ (n + 1) - 1 = n
    BY <1>1
  <2>2. f[n + 1] = NextName(b, f[n], chain[n + 1])
    BY <2>1 DEF IsNamed
  <2> DEFINE names == f[n].names
             name == DieName(b, chain[n + 1], f[n].cache).name
  <2>3. f[n + 1].names = Append(names, name)
    BY <2>2 DEF NextName, WithName
  <2>4. IsSequence(names)
    BY <1>1, <1>3
  <2> HIDE DEF names, name
  <2>5. IsSequence(Append(names, name))
    BY <2>4, AppendShape
  <2> QED
    BY <2>3, <2>5
<1> HIDE DEF S
<1>4. \A n \in Nat : n \in S
  BY <1>2, <1>3, Induction
<1> QED
  BY <1>1, <1>4 DEF S

\* The function is the one that DieNames chooses.
LEMMA DieNamesShape ==
    ASSUME NEW b, NEW cache, NEW chain, IsSequence(chain)
    PROVE  IsSequence(DieNames(b, chain, cache).names)
<1> DEFINE f == CHOOSE g : IsNamed(g, b, chain, cache)
<1>1. IsNamed(f, b, chain, cache)
  BY NamedExists
<1>2. DieNames(b, chain, cache) = f[Len(chain)]
  BY DEF DieNames, IsNamed, NextName
<1> HIDE DEF f
<1>3. IsSequence(f[Len(chain)].names)
  BY <1>1, NamedShape
<1> QED
  BY <1>2, <1>3

\* Whatever is resolved has names that can be gone through.
LEMMA ResolvedShape ==
    ASSUME NEW b \in DOMAIN Binaries, NEW offset, NEW cache
    PROVE  IsSequence(ResolveAddress(b, offset, cache).names)
<1> DEFINE cu == FindCuDie(b, offset)
           subprogram == IF cu = 0 THEN 0 ELSE FindSubprogramDie(b, cu, offset)
           scopes == FindInlineScopes(b, subprogram, offset)
           chain == Reverse(<<subprogram>> \o scopes)
<1>1. IsSequence(scopes)
  <2>1. Len(Binaries[b].dies) \in Nat
    BY SymbolizerAssumption, LenProperties
  <2>2. \A places : InOrder(Len(Binaries[b].dies), places) \in Seq(1 .. Len(Binaries[b].dies))
    BY <2>1, InOrderIs DEF IsInOrder
  <2> QED
    BY <2>2 DEF FindInlineScopes, IsSequence
<1> HIDE DEF subprogram, scopes
<1>2. IsSequence(chain)
  <2>1. IsSequence(<<subprogram>>)
    <3>1. <<subprogram>> \in Seq({subprogram})
      OBVIOUS
    <3> QED
      BY <3>1 DEF IsSequence
  <2> DEFINE all == <<subprogram>> \o scopes
  <2>2. IsSequence(all)
    BY <1>1, <2>1, ConcatShape
  <2>3. Len(all) \in Nat
    BY <2>2, LenProperties DEF IsSequence
  <2> HIDE DEF all
  <2> DEFINE back == Reverse(all)
  <2>4. back = [k \in 1 .. Len(all) |-> back[k]]
    BY DEF Reverse
  <2> HIDE DEF back
  <2>5. IsSequence(back)
    BY <2>3, <2>4, FunctionShape
  <2> QED
    BY <2>5 DEF back, all
<1> HIDE DEF chain
<1>3. CASE subprogram = 0
  <2> DEFINE name == FindSymbol(b, offset)
  <2>1. ResolveAddress(b, offset, cache).names = <<name>>
    BY <1>3 DEF ResolveAddress, subprogram
  <2> HIDE DEF name
  <2>2. <<name>> \in Seq({name})
    OBVIOUS
  <2> QED
    BY <2>1, <2>2 DEF IsSequence
<1>4. CASE subprogram # 0
  <2>1. ResolveAddress(b, offset, cache) = DieNames(b, chain, cache)
    BY <1>4 DEF ResolveAddress, subprogram, chain, scopes
  <2>2. IsSequence(DieNames(b, chain, cache).names)
    BY <1>2, DieNamesShape
  <2> QED
    BY <2>1, <2>2
<1> QED
  BY <1>3, <1>4

\* Lines of the data file that have no part in the allocations are added to it.
QuietModes == {"s", "i", "t"}

Quietly(s, t) ==
    /\ IsSequence(t) /\ Len(s) \in Nat /\ Len(t) \in Nat /\ Len(s) <= Len(t)
    /\ \A k \in 1 .. Len(s) : t[k] = s[k]
    /\ \A k \in (Len(s) + 1) .. Len(t) : t[k].mode \in QuietModes

\* After whatever there is,
LEMMA QuietConcat ==
    ASSUME NEW s, IsSequence(s), NEW t, IsSequence(t),
           \A k \in 1 .. Len(t) : t[k].mode \in QuietModes
    PROVE  Quietly(s, s \o t)
<1> DEFINE u == s \o t
<1>1. /\ IsSequence(u) /\ Len(s) \in Nat /\ Len(t) \in Nat
      /\ Len(u) = Len(s) + Len(t)
      /\ \A k \in 1 .. Len(s) : u[k] = s[k]
      /\ \A k \in 1 .. Len(t) : u[Len(s) + k] = t[k]
  BY ConcatShape
<1> HIDE DEF u
<1>2. ASSUME NEW k \in (Len(s) + 1) .. Len(u) PROVE u[k].mode \in QuietModes
  <2>1. k - Len(s) \in 1 .. Len(t) /\ Len(s) + (k - Len(s)) = k
    BY <1>1
  <2>2. u[k] = t[k - Len(s)]
    BY <1>1, <2>1
  <2> QED
    BY <2>1, <2>2
<1>3. Len(u) \in Nat /\ Len(s) <= Len(u)
  BY <1>1
<1> QED
  BY <1>1, <1>2, <1>3 DEF Quietly, u

\* and one after the other.
LEMMA QuietTwice ==
    ASSUME NEW s, NEW t, Quietly(s, t), NEW u, Quietly(t, u) PROVE Quietly(s, u)
<1>1. /\ Len(s) \in Nat /\ Len(t) \in Nat /\ Len(u) \in Nat /\ Len(s) <= Len(t) /\ Len(t) <= Len(u)
  BY DEF Quietly
<1>2. \A k \in 1 .. Len(s) : u[k] = s[k]
  BY <1>1 DEF Quietly
<1>3. \A k \in (Len(s) + 1) .. Len(u) : u[k].mode \in QuietModes
  <2> SUFFICES ASSUME NEW k \in (Len(s) + 1) .. Len(u) PROVE u[k].mode \in QuietModes
    OBVIOUS
  <2>1. CASE k <= Len(t)
    <3>1. k \in (Len(s) + 1) .. Len(t) /\ k \in 1 .. Len(t)
      BY <1>1, <2>1
    <3> QED
      BY <3>1 DEF Quietly
  <2>2. CASE k > Len(t)
    <3>1. k \in (Len(t) + 1) .. Len(u)
      BY <1>1, <2>2
    <3> QED
      BY <3>1 DEF Quietly
  <2> QED
    BY <1>1, <2>1, <2>2
<1>4. IsSequence(u) /\ Len(s) <= Len(u)
  BY <1>1 DEF Quietly
<1> QED
  BY <1>1, <1>2, <1>3, <1>4 DEF Quietly

\* One such line
LEMMA QuietLine ==
    ASSUME NEW s, IsSequence(s), NEW line, line.mode \in QuietModes
    PROVE  Quietly(s, s \o <<line>>) /\ Quietly(s, Append(s, line))
<1>1. IsSequence(<<line>>) /\ Len(<<line>>) = 1 /\ <<line>>[1] = line
  <2>1. <<line>> \in Seq({line})
    OBVIOUS
  <2> QED
    BY <2>1 DEF IsSequence
<1>2. Quietly(s, s \o <<line>>)
  <2> DEFINE t == <<line>>
  <2>1. IsSequence(t) /\ Len(t) = 1 /\ t[1] = line
    BY <1>1
  <2> HIDE DEF t
  <2>2. \A k \in 1 .. Len(t) : t[k].mode \in QuietModes
    BY <2>1
  <2>3. Quietly(s, s \o t)
    BY <2>1, <2>2, QuietConcat
  <2> QED
    BY <2>3 DEF t
<1>3. Quietly(s, Append(s, line))
  <2> DEFINE u == Append(s, line)
  <2>1. /\ IsSequence(u) /\ Len(s) \in Nat /\ Len(u) = Len(s) + 1
        /\ \A k \in 1 .. Len(s) : u[k] = s[k]
        /\ u[Len(s) + 1] = line
    BY AppendShape
  <2> HIDE DEF u
  <2>2. \A k \in (Len(s) + 1) .. Len(u) : u[k].mode \in QuietModes
    BY <2>1
  <2> QED
    BY <2>1, <2>2 DEF Quietly, u
<1> QED
  BY <1>2, <1>3

\* or those of new strings.
LEMMA QuietStrings ==
    ASSUME NEW s, IsSequence(s), IsSequence(m_internedData),
           NEW strings0, IsSequence(strings0), Len(m_internedData) <= Len(strings0)
    PROVE  Quietly(s, s \o StringLines(strings0))
<1> DEFINE t == StringLines(strings0)
           n == Len(strings0) - Len(m_internedData)
<1>1. n \in Nat
  <2>1. Len(strings0) \in Nat /\ Len(m_internedData) \in Nat
    BY LenProperties DEF IsSequence
  <2> QED
    BY <2>1
<1>2. t = [k \in 1 .. n |-> t[k]] /\ \A k \in 1 .. n : t[k].mode = "s"
  BY DEF StringLines, StringLine
<1> HIDE DEF t, n
<1>3. IsSequence(t) /\ Len(t) = n
  BY <1>1, <1>2, FunctionShape
<1>4. \A k \in 1 .. Len(t) : t[k].mode \in QuietModes
  BY <1>2, <1>3 DEF QuietModes
<1>5. Quietly(s, s \o t)
  BY <1>3, <1>4, QuietConcat
<1> QED
  BY <1>5 DEF t

-----------------------------------------------------------------------------
\* The module of an address is one of those in use.
LEMMA ResolveIs ==
    ASSUME m_moduleFragments \in Layouts \cup {<<>>}, NEW ip \in Int
    PROVE  Resolve(ip) = NoModule \/ Resolve(ip).name \in DOMAIN Binaries
<1> DEFINE above == {m \in Range(m_moduleFragments) : m.stop >= ip}
<1>1. CASE above = {}
  BY <1>1 DEF Resolve
<1>2. CASE above # {}
  <2>1. m_moduleFragments \in Layouts
    <3>1. Range(<<>>) = {}
      BY DEF Range
    <3> QED
      BY <1>2, <3>1
  <2>2. \A m \in Range(m_moduleFragments) : m \in Module /\ m.name \in DOMAIN Binaries
    <3>1. m_moduleFragments \in Seq(Module)
      BY <2>1, TraceWriterAssumption
    <3>2. \A k \in DOMAIN m_moduleFragments : m_moduleFragments[k] \in Module
      BY <3>1, LenProperties, ElementOfSeq
    <3> QED
      BY <2>1, <3>2, PipelineAssumption DEF Range
  <2> DEFINE starts == {m.start : m \in above}
  <2>3. Min(starts) \in starts /\ \A i \in starts : Min(starts) <= i
    <3>1. starts \subseteq Nat /\ starts # {}
      BY <1>2, <2>2 DEF Module
    <3> QED
      BY <3>1, LeastOf
  <2>4. \E m \in above : \A n \in above : m.start <= n.start
    BY <2>3
  <2> DEFINE first == CHOOSE m \in above : \A n \in above : m.start <= n.start
  <2>5. first \in above
    BY <2>4
  <2>6. Resolve(ip) = IF first.start <= ip THEN first ELSE NoModule
    BY <1>2 DEF Resolve
  <2> HIDE DEF first
  <2> QED
    BY <2>2, <2>5, <2>6
<1> QED
  BY <1>1, <1>2

\* What an address is resolved to.
LEMMA ResolvedNames ==
    ASSUME m_moduleFragments \in Layouts \cup {<<>>}, NEW ip \in Int
    PROVE  IsSequence(Resolved(ip).names)
<1>1. CASE Resolve(ip) = NoModule
  <2>1. Resolved(ip).names = <<Unknown>>
    BY <1>1 DEF Resolved
  <2> DEFINE name == Unknown
  <2> HIDE DEF name
  <2>2. <<name>> \in Seq({name})
    OBVIOUS
  <2> QED
    BY <2>1, <2>2 DEF IsSequence, name
<1>2. CASE Resolve(ip) # NoModule
  <2>1. Resolve(ip).name \in DOMAIN Binaries
    BY <1>2, ResolveIs
  <2>2. Resolved(ip) = ResolveAddress(Resolve(ip).name, ip - Resolve(ip).start, m_dieNameCache)
    BY <1>2 DEF Resolved
  <2> QED
    BY <2>1, <2>2, ResolvedShape
<1> QED
  BY <1>1, <1>2

\* The next line of the raw stream, for the reader.
LEMMA LineIs ==
    ASSUME WriterOK, pos \in 0 .. Len(raw), pos < Len(raw)
    PROVE  /\ Line \in RawLine /\ Line = raw[pos + 1] /\ pos \in Nat /\ Len(raw) \in Nat
           /\ Line.mode = "m" => Line.modules \in Layouts
           /\ Line.mode = "t" => Line.ip \in Int /\ Line.parent \in Nat
           /\ Line.mode = "+" => Line.size \in Sizes /\ Line.trace \in Nat /\ Line.ptr \in Ptrs
           /\ Line.mode = "-" => Line.ptr \in Ptrs
<1>1. raw \in Seq(RawLine) /\ Len(raw) \in Nat
  BY LenProperties DEF WriterOK
<1>2. pos + 1 \in 1 .. Len(raw)
  BY <1>1
<1>3. Line \in RawLine
  BY <1>1, <1>2, ElementOfSeq DEF Line
<1> QED
  BY <1>1, <1>3 DEF Line, RawLine

\* Module lists and traces: the reader's tables of names grow, and those lines are
\* all that is written.
TablesOK == m_moduleFragments \in Layouts \cup {<<>>} /\ IsSequence(m_internedData) /\ IsSequence(out)

LEMMA TablesStep ==
    ASSUME WriterOK, pos \in 0 .. Len(raw), TablesOK, ReadModules \/ ReadTrace \/ ReadKnownTrace
    PROVE  TablesOK' /\ Quietly(out, out') /\ UNCHANGED allocations
<1>0. pos < Len(raw)
  BY DEF ReadModules, ReadTrace, ReadKnownTrace, GetLine
<1>1. CASE ReadModules
  <2> DEFINE names == [m \in DOMAIN Line.modules |-> Line.modules[m].name]
             strings0 == Interned(m_internedData, names)
  <2>1. Line.modules \in Layouts
    BY <1>0, <1>1, LineIs DEF ReadModules, GetLine
  <2>2. IsSequence(names)
    <3>1. Line.modules \in Seq(Module)
      BY <2>1, TraceWriterAssumption
    <3>2. DOMAIN Line.modules = 1 .. Len(Line.modules) /\ Len(Line.modules) \in Nat
      BY <3>1, LenProperties
    <3>3. names = [k \in 1 .. Len(Line.modules) |-> names[k]]
      BY <3>2
    <3> HIDE DEF names
    <3> QED
      BY <3>2, <3>3, FunctionShape
  <2>3. /\ m_moduleFragments' = Line.modules /\ m_internedData' = strings0
        /\ out' = out \o StringLines(strings0) /\ UNCHANGED allocations
    BY <1>1 DEF ReadModules
  <2> HIDE DEF names
  <2>4. IsSequence(strings0) /\ Len(m_internedData) <= Len(strings0)
    BY <2>2, InternedIs DEF TablesOK
  <2> HIDE DEF strings0
  <2>5. Quietly(out, out')
    BY <2>3, <2>4, QuietStrings DEF TablesOK
  <2> QED
    BY <2>1, <2>3, <2>4, <2>5 DEF TablesOK, Quietly
<1>2. CASE ReadTrace
  <2> DEFINE resolved == Resolved(Line.ip)
             strings0 == Interned(m_internedData, resolved.names)
  <2>1. Line.ip \in Int
    BY <1>0, <1>2, LineIs DEF ReadTrace, GetLine
  <2>2. IsSequence(resolved.names)
    BY <2>1, ResolvedNames DEF TablesOK
  <2> DEFINE module == Resolve(Line.ip)
             functions == [i \in DOMAIN resolved.names |-> StringId(strings0, resolved.names[i])]
             listed == module # NoModule /\ Binaries[module.name].hasSources
             line1 == IpLine(Line.ip, StringId(strings0, module.name), Head(functions),
                             IF listed THEN Tail(functions) ELSE <<>>)
             line2 == NodeLine(Len(m_encounteredIps'), Line.parent)
  <2>3. /\ out' = out \o StringLines(strings0) \o <<line1>> \o <<line2>>
        /\ m_internedData' = strings0
    BY <1>2 DEF ReadTrace, AddIp
  <2>11. line1.mode \in QuietModes /\ line2.mode \in QuietModes
    BY DEF IpLine, NodeLine, QuietModes
  <2> HIDE DEF line1, line2
  <2>4. UNCHANGED <<m_moduleFragments, allocations>>
    BY <1>2 DEF ReadTrace
  <2> HIDE DEF resolved
  <2>5. IsSequence(strings0) /\ Len(m_internedData) <= Len(strings0)
    BY <2>2, InternedIs DEF TablesOK
  <2> HIDE DEF strings0
  <2> DEFINE out1 == out \o StringLines(strings0)
             out2 == out1 \o <<line1>>
  <2>6. Quietly(out, out1)
    BY <2>5, QuietStrings DEF TablesOK
  <2> HIDE DEF out1
  <2>7. Quietly(out1, out2)
    <3>1. IsSequence(out1)
      BY <2>6 DEF Quietly
    <3> QED
      BY <2>11, <3>1, QuietLine
  <2> HIDE DEF out2
  <2>8. Quietly(out2, out2 \o <<line2>>)
    <3>1. IsSequence(out2)
      BY <2>7 DEF Quietly
    <3> QED
      BY <2>11, <3>1, QuietLine
  <2>9. out' = out2 \o <<line2>>
    BY <2>3 DEF out1, out2
  <2>10. Quietly(out, out')
    BY <2>6, <2>7, <2>8, <2>9, QuietTwice
  <2> QED
    BY <2>3, <2>4, <2>5, <2>10 DEF TablesOK, Quietly
<1>3. CASE ReadKnownTrace
  <2> DEFINE line == NodeLine(Position(Line.ip, m_encounteredIps), Line.parent)
  <2>1. out' = Append(out, line)
    BY <1>3 DEF ReadKnownTrace
  <2>3. line.mode \in QuietModes /\ IsSequence(out)
    BY DEF NodeLine, QuietModes, TablesOK
  <2> HIDE DEF line
  <2>2. Quietly(out, out')
    BY <2>1, <2>3, QuietLine
  <2> QED
    BY <1>3, <2>2 DEF ReadKnownTrace, ids, TablesOK, Quietly
<1> QED
  BY <1>1, <1>2, <1>3

-----------------------------------------------------------------------------
(* The data file                                                           *)

\* One more number of those up to n is in a set, or not.
LEMMA PlacesNext ==
    ASSUME NEW places, NEW n \in Nat
    PROVE  LET old == {k \in 1 .. n : k \in places}
               new == {k \in 1 .. n + 1 : k \in places}
           IN  /\ Cardinality(old) \in Nat /\ Cardinality(new) \in Nat
               /\ n + 1 \in places => Cardinality(new) = Cardinality(old) + 1
               /\ n + 1 \notin places => Cardinality(new) = Cardinality(old)
<1> DEFINE old == {k \in 1 .. n : k \in places}
           new == {k \in 1 .. n + 1 : k \in places}
<1>1. IsFiniteSet(old) /\ IsFiniteSet(new)
  <2>1. IsFiniteSet(1 .. n) /\ IsFiniteSet(1 .. n + 1)
    BY FS_Interval
  <2>2. old \in SUBSET (1 .. n) /\ new \in SUBSET (1 .. n + 1)
    OBVIOUS
  <2> HIDE DEF old, new
  <2> QED
    BY <2>1, <2>2, FS_Subset
<1>2. Cardinality(old) \in Nat /\ Cardinality(new) \in Nat
  BY <1>1, FS_CardinalityType
<1>3. CASE n + 1 \in places
  <2>1. new = old \cup {n + 1} /\ n + 1 \notin old
    BY <1>3
  <2> HIDE DEF old, new
  <2>2. Cardinality(new) = Cardinality(old) + 1
    BY <1>1, <2>1, FS_AddElement
  <2> QED
    BY <1>2, <1>3, <2>2 DEF old, new
<1>4. CASE n + 1 \notin places
  <2>1. new = old
    BY <1>4
  <2> HIDE DEF old, new
  <2> QED
    BY <1>2, <1>4, <2>1 DEF old, new
<1> QED
  BY <1>3, <1>4

\* Events and infos among the first n lines of a data file.
CountIn(s, n, mode, info) == Cardinality({k \in 1 .. n : s[k] = EventLine(mode, info)})
EventsIn(s, n, mode) == Cardinality({k \in 1 .. n : s[k].mode = mode})

\* They are numbers.
LEMMA CountTyped ==
    ASSUME NEW s, NEW n \in Nat, NEW mode, NEW info
    PROVE  CountIn(s, n, mode, info) \in Nat /\ EventsIn(s, n, mode) \in Nat
<1>1. \A places : Cardinality({k \in 1 .. n : k \in places}) \in Nat
  BY PlacesNext
<1> DEFINE P == {k \in 1 .. n : s[k] = EventLine(mode, info)}
           Q == {k \in 1 .. n : s[k].mode = mode}
<1>2. P = {k \in 1 .. n : k \in P} /\ Q = {k \in 1 .. n : k \in Q}
  OBVIOUS
<1> HIDE DEF P, Q
<1>3. Cardinality(P) \in Nat /\ Cardinality(Q) \in Nat
  BY <1>1, <1>2
<1> QED
  BY <1>3 DEF P, Q, CountIn, EventsIn

\* They depend on these lines only,
LEMMA CountSame ==
    ASSUME NEW s, NEW t, NEW n \in Nat, \A k \in 1 .. n : t[k] = s[k], NEW mode, NEW info
    PROVE  CountIn(t, n, mode, info) = CountIn(s, n, mode, info) /\ EventsIn(t, n, mode) = EventsIn(s, n, mode)
<1>1. {k \in 1 .. n : t[k] = EventLine(mode, info)} = {k \in 1 .. n : s[k] = EventLine(mode, info)}
  OBVIOUS
<1>2. {k \in 1 .. n : t[k].mode = mode} = {k \in 1 .. n : s[k].mode = mode}
  OBVIOUS
<1> QED
  BY <1>1, <1>2 DEF CountIn, EventsIn

\* one more line counts or not,
LEMMA CountNext ==
    ASSUME NEW s, NEW n \in Nat, NEW mode, NEW info
    PROVE  /\ CountIn(s, n, mode, info) \in Nat /\ EventsIn(s, n, mode) \in Nat
           /\ CountIn(s, n + 1, mode, info) = CountIn(s, n, mode, info)
                  + (IF s[n + 1] = EventLine(mode, info) THEN 1 ELSE 0)
           /\ EventsIn(s, n + 1, mode) = EventsIn(s, n, mode) + (IF s[n + 1].mode = mode THEN 1 ELSE 0)
<1> DEFINE P == {k \in 1 .. n + 1 : s[k] = EventLine(mode, info)}
           Q == {k \in 1 .. n + 1 : s[k].mode = mode}
<1>1. /\ {k \in 1 .. n : s[k] = EventLine(mode, info)} = {k \in 1 .. n : k \in P}
      /\ P = {k \in 1 .. n + 1 : k \in P}
      /\ {k \in 1 .. n : s[k].mode = mode} = {k \in 1 .. n : k \in Q}
      /\ Q = {k \in 1 .. n + 1 : k \in Q}
  OBVIOUS
<1>2. (n + 1 \in P <=> s[n + 1] = EventLine(mode, info)) /\ (n + 1 \in Q <=> s[n + 1].mode = mode)
  OBVIOUS
<1>3. /\ CountIn(s, n, mode, info) = Cardinality({k \in 1 .. n : k \in P})
      /\ CountIn(s, n + 1, mode, info) = Cardinality({k \in 1 .. n + 1 : k \in P})
      /\ EventsIn(s, n, mode) = Cardinality({k \in 1 .. n : k \in Q})
      /\ EventsIn(s, n + 1, mode) = Cardinality({k \in 1 .. n + 1 : k \in Q})
  BY <1>1 DEF CountIn, EventsIn
<1> HIDE DEF P, Q
<1> DEFINE a == Cardinality({k \in 1 .. n : k \in P})
           b == Cardinality({k \in 1 .. n + 1 : k \in P})
           c == Cardinality({k \in 1 .. n : k \in Q})
           d == Cardinality({k \in 1 .. n + 1 : k \in Q})
<1>4. /\ a \in Nat /\ b \in Nat
      /\ n + 1 \in P => b = a + 1
      /\ n + 1 \notin P => b = a
  BY PlacesNext
<1>5. /\ c \in Nat /\ d \in Nat
      /\ n + 1 \in Q => d = c + 1
      /\ n + 1 \notin Q => d = c
  BY PlacesNext
<1> HIDE DEF a, b, c, d
<1>6. /\ CountIn(s, n, mode, info) = a /\ CountIn(s, n + 1, mode, info) = b
      /\ EventsIn(s, n, mode) = c /\ EventsIn(s, n + 1, mode) = d
  BY <1>3 DEF a, b, c, d
<1>7. CountIn(s, n + 1, mode, info) = CountIn(s, n, mode, info)
                  + (IF s[n + 1] = EventLine(mode, info) THEN 1 ELSE 0)
  BY <1>2, <1>4, <1>6
<1>8. EventsIn(s, n + 1, mode) = EventsIn(s, n, mode) + (IF s[n + 1].mode = mode THEN 1 ELSE 0)
  BY <1>2, <1>5, <1>6
<1> QED
  BY <1>4, <1>5, <1>6, <1>7, <1>8

\* and the quiet lines do not.
LEMMA CountQuiet ==
    ASSUME NEW s, NEW t, Quietly(s, t), NEW mode \in {"a", "+", "-"}, NEW info
    PROVE  /\ CountIn(t, Len(t), mode, info) = CountIn(s, Len(s), mode, info)
           /\ EventsIn(t, Len(t), mode) = EventsIn(s, Len(s), mode)
<1>1. /\ Len(s) \in Nat /\ Len(t) \in Nat /\ Len(s) <= Len(t)
      /\ \A k \in 1 .. Len(s) : t[k] = s[k]
      /\ \A k \in (Len(s) + 1) .. Len(t) : t[k].mode \in QuietModes
  BY DEF Quietly
<1>2. \A k \in 1 .. Len(t) : t[k].mode = mode => k \in 1 .. Len(s)
  BY <1>1 DEF QuietModes
<1>3. {k \in 1 .. Len(t) : t[k].mode = mode} = {k \in 1 .. Len(s) : s[k].mode = mode}
  BY <1>1, <1>2
<1>4. EventLine(mode, info).mode = mode
  BY DEF EventLine
<1>5. {k \in 1 .. Len(t) : t[k] = EventLine(mode, info)} = {k \in 1 .. Len(s) : s[k] = EventLine(mode, info)}
  BY <1>1, <1>2, <1>4
<1> QED
  BY <1>3, <1>5 DEF CountIn, EventsIn

-----------------------------------------------------------------------------
\* What FileForTraceData says of a line, but for the last one.
LineOK(s, n) ==
    /\ s[n].mode = "a" => /\ \A k \in 1 .. (n - 1) : s[k] # s[n]
                          /\ n < Len(s) => s[n + 1] = EventLine("+", EventsIn(s, n, "a") - 1)
    /\ s[n].mode \in {"+", "-"} =>
         /\ s[n].info < EventsIn(s, n, "a")
         /\ CountIn(s, n, "-", s[n].info) <= CountIn(s, n, "+", s[n].info)

LinesOK(s) == \A n \in 1 .. Len(s) : LineOK(s, n)

\* That is what FileForTraceData says.
LEMMA FileIs ==
    ASSUME IsSequence(out), LinesOK(out), Len(out) > 0 => out[Len(out)].mode # "a"
    PROVE  FileForTraceData
<1>1. DOMAIN out = 1 .. Len(out) /\ Len(out) \in Nat
  BY LenProperties DEF IsSequence
<1>2. ASSUME NEW n \in 1 .. Len(out), out[n].mode = "a" PROVE n < Len(out)
  BY <1>1, <1>2
<1> QED
  BY <1>1, <1>2 DEF FileForTraceData, LinesOK, LineOK, CountIn, EventsIn

\* A line is added.
OneMore(s, t, line) ==
    /\ IsSequence(t) /\ Len(s) \in Nat /\ Len(t) = Len(s) + 1
    /\ \A k \in 1 .. Len(s) : t[k] = s[k]
    /\ t[Len(s) + 1] = line

\* Either way of writing it.
LEMMA OneMoreIs ==
    ASSUME NEW s, IsSequence(s), NEW line
    PROVE  OneMore(s, Append(s, line), line) /\ OneMore(s, s \o <<line>>, line)
<1> DEFINE t == <<line>>
           u == s \o t
<1>1. IsSequence(t) /\ Len(t) = 1 /\ t[1] = line
  <2>1. <<line>> \in Seq({line})
    OBVIOUS
  <2> QED
    BY <2>1 DEF IsSequence
<1> HIDE DEF t
<1>6. IsSequence(t)
  BY <1>1
<1>2. /\ IsSequence(u) /\ Len(s) \in Nat /\ Len(t) \in Nat
      /\ Len(u) = Len(s) + Len(t)
      /\ \A k \in 1 .. Len(s) : u[k] = s[k]
      /\ \A k \in 1 .. Len(t) : u[Len(s) + k] = t[k]
  BY <1>6, ConcatShape
<1> HIDE DEF u
<1>3. u[Len(s) + 1] = line
  BY <1>1, <1>2
<1>4. OneMore(s, u, line)
  BY <1>1, <1>2, <1>3 DEF OneMore
<1>5. OneMore(s, Append(s, line), line)
  BY AppendShape DEF OneMore
<1> QED
  BY <1>4, <1>5 DEF t, u

\* The lines before it are as they were,
LEMMA LinesSame ==
    ASSUME NEW s, NEW t, LinesOK(s), Len(s) \in Nat, Len(t) \in Nat, Len(s) <= Len(t),
           \A k \in 1 .. Len(s) : t[k] = s[k],
           (Len(s) > 0 /\ s[Len(s)].mode = "a" /\ Len(s) < Len(t))
              => t[Len(s) + 1] = EventLine("+", EventsIn(s, Len(s), "a") - 1)
    PROVE  \A n \in 1 .. Len(s) : LineOK(t, n)
<1> SUFFICES ASSUME NEW n \in 1 .. Len(s) PROVE LineOK(t, n)
  OBVIOUS
<1>1. LineOK(s, n) /\ t[n] = s[n] /\ n \in Nat
  BY DEF LinesOK
<1>2. \A mode, info : CountIn(t, n, mode, info) = CountIn(s, n, mode, info) /\ EventsIn(t, n, mode) = EventsIn(s, n, mode)
  <2>1. \A k \in 1 .. n : t[k] = s[k]
    OBVIOUS
  <2> QED
    BY <1>1, <2>1, CountSame
<1>3. ASSUME s[n].mode = "a" PROVE \A k \in 1 .. (n - 1) : t[k] # t[n]
  <2>1. \A k \in 1 .. (n - 1) : t[k] = s[k]
    OBVIOUS
  <2> QED
    BY <1>1, <1>3, <2>1 DEF LineOK
<1>4. ASSUME s[n].mode = "a", n < Len(t) PROVE t[n + 1] = EventLine("+", EventsIn(t, n, "a") - 1)
  <2>1. CASE n < Len(s)
    <3>1. t[n + 1] = s[n + 1]
      BY <2>1
    <3> QED
      BY <1>1, <1>2, <1>4, <2>1, <3>1 DEF LineOK
  <2>2. CASE n = Len(s)
    BY <1>2, <1>4, <2>2
  <2> QED
    BY <2>1, <2>2
<1> QED
  BY <1>1, <1>2, <1>3, <1>4 DEF LineOK

\* and it is as it should be.
LEMMA LinesNext ==
    ASSUME NEW s, NEW t, NEW line, OneMore(s, t, line), LinesOK(s),
           line.mode = "a" => \A k \in 1 .. Len(s) : s[k] # line,
           line.mode \in {"+", "-"} =>
               /\ line.info < EventsIn(s, Len(s), "a")
               /\ CountIn(t, Len(t), "-", line.info) <= CountIn(t, Len(t), "+", line.info),
           (Len(s) > 0 /\ s[Len(s)].mode = "a") => line = EventLine("+", EventsIn(s, Len(s), "a") - 1)
    PROVE  LinesOK(t)
<1>1. /\ Len(s) \in Nat /\ Len(t) \in Nat /\ Len(t) = Len(s) + 1
      /\ \A k \in 1 .. Len(s) : t[k] = s[k]
      /\ t[Len(t)] = line
  BY DEF OneMore
<1>2. \A n \in 1 .. Len(s) : LineOK(t, n)
  <2>1. (Len(s) > 0 /\ s[Len(s)].mode = "a" /\ Len(s) < Len(t))
              => t[Len(s) + 1] = EventLine("+", EventsIn(s, Len(s), "a") - 1)
    BY <1>1
  <2>2. Len(s) <= Len(t)
    BY <1>1
  <2> QED
    BY <1>1, <2>1, <2>2, LinesSame
<1>3. LineOK(t, Len(t))
  <2>1. ASSUME line.mode = "a" PROVE \A k \in 1 .. (Len(t) - 1) : t[k] # line
    BY <1>1, <2>1
  <2>2. ASSUME line.mode \in {"+", "-"} PROVE line.info < EventsIn(t, Len(t), "a")
    <3>1. EventsIn(t, Len(s), "a") = EventsIn(s, Len(s), "a")
      <4>1. \A mode, info : /\ CountIn(t, Len(s), mode, info) = CountIn(s, Len(s), mode, info)
                            /\ EventsIn(t, Len(s), mode) = EventsIn(s, Len(s), mode)
        <5>1. Len(s) \in Nat /\ \A k \in 1 .. Len(s) : t[k] = s[k]
          BY <1>1
        <5> QED
          BY <5>1, CountSame
      <4> QED
        BY <4>1
    <3>2. line.mode # "a"
      BY <2>2
    <3>3. EventsIn(t, Len(s) + 1, "a") = EventsIn(t, Len(s), "a") + (IF t[Len(s) + 1].mode = "a" THEN 1 ELSE 0)
          /\ EventsIn(t, Len(s), "a") \in Nat
      <4>1. \A mode, info :
              /\ CountIn(t, Len(s), mode, info) \in Nat /\ EventsIn(t, Len(s), mode) \in Nat
              /\ CountIn(t, Len(s) + 1, mode, info) = CountIn(t, Len(s), mode, info)
                   + (IF t[Len(s) + 1] = EventLine(mode, info) THEN 1 ELSE 0)
              /\ EventsIn(t, Len(s) + 1, mode)
                                 = EventsIn(t, Len(s), mode) + (IF t[Len(s) + 1].mode = mode THEN 1 ELSE 0)
        BY <1>1, CountNext
      <4> QED
        BY <4>1
    <3>4. EventsIn(t, Len(t), "a") = EventsIn(s, Len(s), "a")
      BY <1>1, <3>1, <3>2, <3>3
    <3> QED
      BY <2>2, <3>4
  <2>3. ~ Len(t) < Len(t)
    BY <1>1
  <2> QED
    BY <1>1, <2>1, <2>2, <2>3 DEF LineOK
<1>4. \A n \in 1 .. Len(t) : n \in 1 .. Len(s) \/ n = Len(t)
  BY <1>1
<1> QED
  BY <1>2, <1>3, <1>4 DEF LinesOK

\* Quiet lines may be added.
LEMMA LinesQuiet ==
    ASSUME NEW s, NEW t, Quietly(s, t), LinesOK(s), Len(s) > 0 => s[Len(s)].mode # "a"
    PROVE  LinesOK(t) /\ (Len(t) > 0 => t[Len(t)].mode # "a")
<1>1. /\ Len(s) \in Nat /\ Len(t) \in Nat /\ Len(s) <= Len(t)
      /\ \A k \in 1 .. Len(s) : t[k] = s[k]
      /\ \A k \in (Len(s) + 1) .. Len(t) : t[k].mode \in QuietModes
  BY DEF Quietly
<1>2. \A n \in 1 .. Len(s) : LineOK(t, n)
  <2>1. ~ (Len(s) > 0 /\ s[Len(s)].mode = "a" /\ Len(s) < Len(t))
    OBVIOUS
  <2> QED
    BY <1>1, <2>1, LinesSame
<1>3. \A n \in (Len(s) + 1) .. Len(t) : LineOK(t, n)
  BY <1>1 DEF LineOK, QuietModes
<1>4. \A n \in 1 .. Len(t) : n \in 1 .. Len(s) \/ n \in (Len(s) + 1) .. Len(t)
  BY <1>1
<1>5. ASSUME Len(t) > 0 PROVE t[Len(t)].mode # "a"
  <2>1. CASE Len(t) = Len(s)
    BY <1>1, <1>5, <2>1
  <2>2. CASE Len(t) > Len(s)
    BY <1>1, <2>2 DEF QuietModes
  <2> QED
    BY <1>1, <2>1, <2>2
<1> QED
  BY <1>2, <1>3, <1>4, <1>5 DEF LinesOK

-----------------------------------------------------------------------------
(* The raw stream                                                          *)

\* The first m lines of a raw stream: line n is the last event of an address, and
\* the last event of all is an allocation of it.
IsEvent(r, k) == r[k].mode \in {"+", "-"}

LastOf(r, m, n, p) ==
    /\ n \in 1 .. m /\ IsEvent(r, n) /\ r[n].ptr = p
    /\ \A k \in (n + 1) .. m : ~ (IsEvent(r, k) /\ r[k].ptr = p)

JustAllocated(r, m, p) ==
    \E n \in 1 .. m : r[n].mode = "+" /\ r[n].ptr = p /\ \A k \in (n + 1) .. m : ~ IsEvent(r, k)

IsTemporary(r, n) == r[n].mode = "-" /\ JustAllocated(r, n - 1, r[n].ptr)

Temporaries(r, m) == Cardinality({n \in 1 .. m : IsTemporary(r, n)})

\* All of it depends on these lines only.
LEMMA StreamSame ==
    ASSUME NEW r, NEW s, NEW m \in Nat, \A k \in 1 .. m : s[k] = r[k]
    PROVE  /\ \A n, p : LastOf(s, m, n, p) <=> LastOf(r, m, n, p)
           /\ \A p : JustAllocated(s, m, p) <=> JustAllocated(r, m, p)
           /\ Temporaries(s, m) = Temporaries(r, m)
<1>1. \A n, p : LastOf(s, m, n, p) <=> LastOf(r, m, n, p)
  BY DEF LastOf, IsEvent
<1>2. ASSUME NEW j \in 0 .. m, NEW p PROVE JustAllocated(s, j, p) <=> JustAllocated(r, j, p)
  <2>1. \A k \in 1 .. j : s[k] = r[k]
    OBVIOUS
  <2>2. \A n \in 1 .. j : \A k \in (n + 1) .. j : k \in 1 .. j
    OBVIOUS
  <2> QED
    BY <2>1, <2>2 DEF JustAllocated, IsEvent
<1>3. m \in 0 .. m
  OBVIOUS
<1>4. \A n \in 1 .. m : IsTemporary(s, n) <=> IsTemporary(r, n)
  <2> SUFFICES ASSUME NEW n \in 1 .. m PROVE IsTemporary(s, n) <=> IsTemporary(r, n)
    OBVIOUS
  <2>1. n - 1 \in 0 .. m /\ s[n] = r[n]
    OBVIOUS
  <2>2. \A p : JustAllocated(s, n - 1, p) <=> JustAllocated(r, n - 1, p)
    BY <1>2, <2>1
  <2> QED
    BY <2>1, <2>2 DEF IsTemporary
<1>5. {n \in 1 .. m : IsTemporary(s, n)} = {n \in 1 .. m : IsTemporary(r, n)}
  BY <1>4
<1> QED
  BY <1>1, <1>2, <1>3, <1>5 DEF Temporaries

\* One more line
LEMMA StreamNext ==
    ASSUME NEW r, NEW m \in Nat
    PROVE  /\ Temporaries(r, m) \in Nat
           /\ Temporaries(r, m + 1) = Temporaries(r, m)
                + (IF r[m + 1].mode = "-" /\ JustAllocated(r, m, r[m + 1].ptr) THEN 1 ELSE 0)
<1> DEFINE P == {n \in 1 .. m + 1 : IsTemporary(r, n)}
           a == Cardinality({k \in 1 .. m : k \in P})
           b == Cardinality({k \in 1 .. m + 1 : k \in P})
<1>1. {n \in 1 .. m : IsTemporary(r, n)} = {k \in 1 .. m : k \in P} /\ P = {k \in 1 .. m + 1 : k \in P}
  OBVIOUS
<1>2. m + 1 \in P <=> r[m + 1].mode = "-" /\ JustAllocated(r, m, r[m + 1].ptr)
  <2>1. m + 1 \in 1 .. m + 1 /\ (m + 1) - 1 = m
    OBVIOUS
  <2>2. m + 1 \in P <=> IsTemporary(r, m + 1)
    BY <2>1
  <2> QED
    BY <2>1, <2>2 DEF IsTemporary
<1>3. Temporaries(r, m) = a /\ Temporaries(r, m + 1) = b
  BY <1>1 DEF Temporaries
<1> HIDE DEF P
<1>4. /\ a \in Nat /\ b \in Nat
      /\ m + 1 \in P => b = a + 1
      /\ m + 1 \notin P => b = a
  BY PlacesNext
<1> HIDE DEF a, b
<1> QED
  BY <1>2, <1>3, <1>4

\* that is no event,
LEMMA StreamQuiet ==
    ASSUME NEW r, NEW m \in Nat, ~ IsEvent(r, m + 1)
    PROVE  /\ \A n, p : LastOf(r, m + 1, n, p) <=> LastOf(r, m, n, p)
           /\ \A p : JustAllocated(r, m + 1, p) <=> JustAllocated(r, m, p)
<1>1. \A n : n \in 1 .. m + 1 /\ IsEvent(r, n) => n \in 1 .. m
  OBVIOUS
<1>2. ASSUME NEW n \in 1 .. m, NEW k \in (n + 1) .. m + 1 PROVE k \in (n + 1) .. m \/ k = m + 1
  OBVIOUS
<1>3. ASSUME NEW n \in 1 .. m, NEW k \in (n + 1) .. m PROVE k \in (n + 1) .. m + 1
  OBVIOUS
<1>4. \A n, p : LastOf(r, m + 1, n, p) <=> LastOf(r, m, n, p)
  <2> SUFFICES ASSUME NEW n, NEW p PROVE LastOf(r, m + 1, n, p) <=> LastOf(r, m, n, p)
    OBVIOUS
  <2>1. ASSUME LastOf(r, m + 1, n, p) PROVE LastOf(r, m, n, p)
    BY <1>1, <1>3, <2>1 DEF LastOf
  <2>2. ASSUME LastOf(r, m, n, p) PROVE LastOf(r, m + 1, n, p)
    BY <1>2, <2>2 DEF LastOf
  <2> QED
    BY <2>1, <2>2
<1>5. \A p : JustAllocated(r, m + 1, p) <=> JustAllocated(r, m, p)
  <2> SUFFICES ASSUME NEW p PROVE JustAllocated(r, m + 1, p) <=> JustAllocated(r, m, p)
    OBVIOUS
  <2>1. ASSUME JustAllocated(r, m + 1, p) PROVE JustAllocated(r, m, p)
    <3>1. PICK n \in 1 .. m + 1 :
            r[n].mode = "+" /\ r[n].ptr = p /\ \A k \in (n + 1) .. m + 1 : ~ IsEvent(r, k)
      BY <2>1 DEF JustAllocated
    <3>2. n \in 1 .. m
      BY <1>1, <3>1 DEF IsEvent
    <3> QED
      BY <1>3, <3>1, <3>2 DEF JustAllocated
  <2>2. ASSUME JustAllocated(r, m, p) PROVE JustAllocated(r, m + 1, p)
    <3>1. PICK n \in 1 .. m :
            r[n].mode = "+" /\ r[n].ptr = p /\ \A k \in (n + 1) .. m : ~ IsEvent(r, k)
      BY <2>2 DEF JustAllocated
    <3>2. n \in 1 .. m + 1 /\ \A k \in (n + 1) .. m + 1 : ~ IsEvent(r, k)
      BY <1>2, <3>1
    <3> QED
      BY <3>1, <3>2 DEF JustAllocated
  <2> QED
    BY <2>1, <2>2
<1> QED
  BY <1>4, <1>5

\* or one of an address.
LEMMA StreamEvent ==
    ASSUME NEW r, NEW m \in Nat, IsEvent(r, m + 1)
    PROVE  /\ \A n : LastOf(r, m + 1, n, r[m + 1].ptr) <=> n = m + 1
           /\ \A n, p : p # r[m + 1].ptr => (LastOf(r, m + 1, n, p) <=> LastOf(r, m, n, p))
           /\ \A p : JustAllocated(r, m + 1, p) <=> r[m + 1].mode = "+" /\ r[m + 1].ptr = p
<1>1. m + 1 \in 1 .. m + 1 /\ \A k \in (m + 1 + 1) .. m + 1 : FALSE
  OBVIOUS
<1>2. \A n \in 1 .. m + 1 : n # m + 1 => n \in 1 .. m /\ m + 1 \in (n + 1) .. m + 1
  OBVIOUS
<1>3. \A n : LastOf(r, m + 1, n, r[m + 1].ptr) <=> n = m + 1
  BY <1>1, <1>2 DEF LastOf
<1>4. ASSUME NEW n, NEW p, p # r[m + 1].ptr PROVE LastOf(r, m + 1, n, p) <=> LastOf(r, m, n, p)
  <2>1. ASSUME LastOf(r, m + 1, n, p) PROVE LastOf(r, m, n, p)
    <3>1. n \in 1 .. m /\ \A k \in (n + 1) .. m : k \in (n + 1) .. m + 1
      BY <1>2, <1>4, <2>1 DEF LastOf
    <3> QED
      BY <2>1, <3>1 DEF LastOf
  <2>2. ASSUME LastOf(r, m, n, p) PROVE LastOf(r, m + 1, n, p)
    <3>1. n \in 1 .. m /\ \A k \in (n + 1) .. m + 1 : k \in (n + 1) .. m \/ k = m + 1
      BY <2>2 DEF LastOf
    <3> QED
      BY <1>4, <2>2, <3>1 DEF LastOf
  <2> QED
    BY <2>1, <2>2
<1>5. \A p : JustAllocated(r, m + 1, p) <=> r[m + 1].mode = "+" /\ r[m + 1].ptr = p
  BY <1>1, <1>2 DEF JustAllocated, IsEvent
<1> QED
  BY <1>3, <1>4, <1>5

\* What MapOfStream calls the last line of an address.
LEMMA LastLineIs ==
    ASSUME pos \in Nat, NEW p
    PROVE  /\ LastLine(p) # 0 => LastLine(p) \in 1 .. pos /\ LastOf(raw, pos, LastLine(p), p)
           /\ LastLine(p) = 0 => \A n : ~ LastOf(raw, pos, n, p)
<1> DEFINE I == {i \in 1 .. pos : raw[i].mode \in {"+", "-"} /\ raw[i].ptr = p}
<1>1. LastLine(p) = IF I # {} THEN Max(I) ELSE 0
  BY DEF LastLine, SelectLastInSubSeq
<1>2. \A n : LastOf(raw, pos, n, p) => n \in I
  BY DEF LastOf, IsEvent
<1>3. \A k : k \in I <=> k \in 1 .. pos /\ IsEvent(raw, k) /\ raw[k].ptr = p
  BY DEF IsEvent
<1> HIDE DEF I
<1>4. CASE I # {}
  <2>1. I \subseteq 1 .. pos
    BY <1>3
  <2>2. Max(I) \in I /\ \A i \in I : i <= Max(I)
    BY <1>4, <2>1, GreatestOf
  <2> DEFINE m == Max(I)
  <2>3. LastLine(p) = m /\ m \in I /\ \A i \in I : i <= m
    BY <1>1, <1>4, <2>2
  <2> HIDE DEF m
  <2>4. m \in 1 .. pos
    BY <1>3, <2>3
  <2>5. ASSUME NEW k \in (m + 1) .. pos PROVE k \notin I
    <3>1. ~ k <= m /\ k \in 1 .. pos
      BY <2>4
    <3> QED
      BY <2>3, <3>1
  <2>6. LastOf(raw, pos, m, p)
    <3>1. \A k \in (m + 1) .. pos : k \in 1 .. pos
      BY <2>4
    <3> QED
      BY <1>3, <2>3, <2>4, <2>5, <3>1 DEF LastOf
  <2> QED
    BY <2>3, <2>4, <2>6
<1>5. CASE I = {}
  BY <1>1, <1>2, <1>5
<1> QED
  BY <1>4, <1>5

\* There is one such line.
LEMMA LastOnce ==
    ASSUME NEW r, NEW m \in Nat, NEW n, NEW j, NEW p, LastOf(r, m, n, p), LastOf(r, m, j, p)
    PROVE  n = j
<1>1. n \in 1 .. m /\ j \in 1 .. m
  BY DEF LastOf
<1>2. CASE n < j
  <2>1. j \in (n + 1) .. m
    BY <1>1, <1>2
  <2> QED
    BY <2>1 DEF LastOf
<1>3. CASE j < n
  <2>1. n \in (j + 1) .. m
    BY <1>1, <1>3
  <2> QED
    BY <2>1 DEF LastOf
<1> QED
  BY <1>1, <1>2, <1>3

-----------------------------------------------------------------------------
(* The reader                                                              *)

InfoRecord == [size : Sizes, trace : Nat]
Stats == [allocations : Nat, leaked : Int, temporary : Nat]

\* The map and what it refers to follow the stream, and the reader remembers the
\* address that was allocated by the last line of it.
MapInv ==
    /\ allocationInfos \in Seq(InfoRecord)
    /\ MapOK(ptrToIndex, Nat)
    /\ \A p \in Ptrs : HasPointer(ptrToIndex, p) <=> \E n : LastOf(raw, pos, n, p) /\ raw[n].mode = "+"
    /\ \A p \in Ptrs : \A n : LastOf(raw, pos, n, p) /\ raw[n].mode = "+" =>
         /\ PointerAt(ptrToIndex, p) \in 0 .. Len(allocationInfos) - 1
         /\ allocationInfos[PointerAt(ptrToIndex, p) + 1] = [size |-> raw[n].size, trace |-> raw[n].trace]

CountersInv ==
    /\ lastPtr \in Nat
    /\ \A p \in Ptrs : lastPtr = p <=> JustAllocated(raw, pos, p)
    /\ c_stats \in Stats
    /\ c_stats.temporary = Temporaries(raw, pos)
    /\ c_stats.leaked = EventsIn(out, Len(out), "+") - EventsIn(out, Len(out), "-")

\* The addresses that are live with an info.
LiveIn(map, info) == {p \in Ptrs : HasPointer(map, p) /\ PointerAt(map, p) = info}

FileInv ==
    /\ LinesOK(out) /\ (Len(out) > 0 => out[Len(out)].mode # "a")
    /\ EventsIn(out, Len(out), "a") = Len(allocationInfos)
    /\ \A k \in 1 .. Len(out) : out[k].mode = "a" =>
         \E i \in 1 .. Len(allocationInfos) : out[k] = InfoLine(allocationInfos[i].size, allocationInfos[i].trace)
    /\ \A i \in Nat : /\ IsFiniteSet(LiveIn(ptrToIndex, i))
                      /\ CountIn(out, Len(out), "-", i) + Cardinality(LiveIn(ptrToIndex, i))
                           <= CountIn(out, Len(out), "+", i)

ReaderOK == pos \in 0 .. Len(raw) /\ TablesOK /\ MapInv /\ CountersInv /\ FileInv

\* It says what the properties say.
LEMMA Followed == ASSUME WriterOK, ReaderOK PROVE EventsFollowed /\ FileForTraceData
<1>0. pos \in Nat /\ IsSequence(out)
  <2>1. Len(raw) \in Nat
    BY LenProperties DEF WriterOK
  <2> QED
    BY <2>1 DEF ReaderOK, TablesOK
<1>1. MapOfStream
  <2> SUFFICES ASSUME NEW p \in Ptrs
               PROVE  LET last == LastLine(p)
                          live == last # 0 /\ raw[last].mode = "+"
                      IN  /\ HasPointer(ptrToIndex, p) <=> live
                          /\ live => allocationInfos[PointerAt(ptrToIndex, p) + 1]
                                       = [size |-> raw[last].size, trace |-> raw[last].trace]
    BY DEF MapOfStream
  <2> DEFINE last == LastLine(p)
  <2>1. /\ last # 0 => last \in 1 .. pos /\ LastOf(raw, pos, last, p)
        /\ last = 0 => \A n : ~ LastOf(raw, pos, n, p)
    BY <1>0, LastLineIs
  <2> HIDE DEF last
  <2>2. /\ HasPointer(ptrToIndex, p) <=> \E n : LastOf(raw, pos, n, p) /\ raw[n].mode = "+"
        /\ \A n : LastOf(raw, pos, n, p) /\ raw[n].mode = "+" =>
             allocationInfos[PointerAt(ptrToIndex, p) + 1] = [size |-> raw[n].size, trace |-> raw[n].trace]
    BY DEF ReaderOK, MapInv
  <2>3. CASE last = 0
    BY <2>1, <2>2, <2>3 DEF last
  <2>4. CASE last # 0
    <3>1. \A n : LastOf(raw, pos, n, p) => n = last
      BY <1>0, <2>1, <2>4, LastOnce
    <3>2. HasPointer(ptrToIndex, p) <=> raw[last].mode = "+"
      BY <2>1, <2>2, <2>4, <3>1
    <3> QED
      BY <2>1, <2>2, <2>4, <3>2 DEF last
  <2> QED
    BY <2>3, <2>4
<1>2. PagesInStep
  <2> SUFFICES ASSUME NEW page \in Range(ptrToIndex)
               PROVE  /\ Len(page.smallPtrParts) = Len(page.allocationIndices)
                      /\ page.smallPtrParts # <<>>
                      /\ \A m, n \in DOMAIN page.smallPtrParts :
                           m < n => page.smallPtrParts[m] < page.smallPtrParts[n]
    BY DEF PagesInStep
  <2>1. PageOK(page, Nat) /\ page.allocationIndices # <<>>
    BY DEF Range, ReaderOK, MapInv, MapOK
  <2> DEFINE smalls == page.smallPtrParts
             indices == page.allocationIndices
  <2>2. /\ smalls \in Seq(Smalls) /\ indices \in Seq(Nat) /\ Len(smalls) = Len(indices) /\ indices # <<>>
        /\ \A i, j \in 1 .. Len(smalls) : i < j => smalls[i] < smalls[j]
    BY <2>1 DEF PageOK, Sorted
  <2> HIDE DEF smalls, indices
  <2>3. DOMAIN smalls = 1 .. Len(smalls) /\ smalls # <<>>
    BY <2>2, LenProperties, EmptySeq
  <2> QED
    BY <2>2, <2>3 DEF smalls, indices
<1>3. StatsAgree
  <2>1. DOMAIN out = 1 .. Len(out)
    BY <1>0, LenProperties DEF IsSequence
  <2>2. c_stats.leaked = Cardinality({n \in DOMAIN out : out[n].mode = "+"})
                       - Cardinality({n \in DOMAIN out : out[n].mode = "-"})
    BY <2>1 DEF ReaderOK, CountersInv, EventsIn
  <2>3. {n \in 1 .. pos :
            /\ raw[n].mode = "-"
            /\ \E m \in 1 .. (n - 1) : /\ raw[m].mode = "+" /\ raw[m].ptr = raw[n].ptr
                                       /\ \A k \in (m + 1) .. (n - 1) : raw[k].mode \notin {"+", "-"}}
        = {n \in 1 .. pos : IsTemporary(raw, n)}
    BY DEF IsTemporary, JustAllocated, IsEvent
  <2>4. c_stats.temporary = Cardinality({n \in 1 .. pos : IsTemporary(raw, n)})
    BY DEF ReaderOK, CountersInv, Temporaries
  <2> QED
    BY <2>2, <2>3, <2>4 DEF StatsAgree
<1>4. FileForTraceData
  BY <1>0, FileIs DEF ReaderOK, FileInv
<1> QED
  BY <1>1, <1>2, <1>3, <1>4 DEF EventsFollowed

-----------------------------------------------------------------------------
\* The writer's steps do not disturb what was read.
LEMMA ReaderWaits ==
    ASSUME WriterOK, ReaderOK, RawGrows, UNCHANGED reader, raw' \in Seq(RawLine)
    PROVE  ReaderOK'
<1>1. Len(raw) \in Nat /\ Len(raw') \in Nat
  BY LenProperties DEF WriterOK
<1>2. /\ pos \in 0 .. Len(raw') /\ pos \in Nat /\ pos' = pos
      /\ \A k \in 1 .. pos : raw'[k] = raw[k]
  BY <1>1 DEF ReaderOK, RawGrows, reader
<1>3. /\ \A n, p : LastOf(raw', pos, n, p) <=> LastOf(raw, pos, n, p)
      /\ \A p : JustAllocated(raw', pos, p) <=> JustAllocated(raw, pos, p)
      /\ Temporaries(raw', pos) = Temporaries(raw, pos)
  BY <1>2, StreamSame
<1>4. TablesOK' /\ FileInv' /\ UNCHANGED <<ptrToIndex, allocationInfos, lastPtr, c_stats, out, pos>>
  BY DEF ReaderOK, TablesOK, FileInv, LiveIn, reader, allocations, ids
<1>5. MapInv'
  <2>1. \A n, p : LastOf(raw, pos, n, p) => raw'[n] = raw[n]
    BY <1>2 DEF LastOf
  <2>2. MapInv
    BY DEF ReaderOK
  <2>3. \A p \in Ptrs : HasPointer(ptrToIndex, p) <=> \E n : LastOf(raw', pos, n, p) /\ raw'[n].mode = "+"
    BY <1>3, <2>1, <2>2 DEF MapInv
  <2>4. \A p \in Ptrs : \A n : LastOf(raw', pos, n, p) /\ raw'[n].mode = "+" =>
         /\ PointerAt(ptrToIndex, p) \in 0 .. Len(allocationInfos) - 1
         /\ allocationInfos[PointerAt(ptrToIndex, p) + 1] = [size |-> raw'[n].size, trace |-> raw'[n].trace]
    BY <1>3, <2>1, <2>2 DEF MapInv
  <2>5. allocationInfos \in Seq(InfoRecord) /\ MapOK(ptrToIndex, Nat)
    BY <2>2 DEF MapInv
  <2> QED
    BY <1>4, <2>3, <2>4, <2>5 DEF MapInv
<1>6. CountersInv'
  BY <1>3, <1>4 DEF ReaderOK, CountersInv
<1> QED
  BY <1>2, <1>4, <1>5, <1>6 DEF ReaderOK

\* The lines of modules and traces.
LEMMA ReaderTables ==
    ASSUME WriterOK, ReaderOK, ReadModules \/ ReadTrace \/ ReadKnownTrace, UNCHANGED raw
    PROVE  ReaderOK'
<1>1. TablesOK' /\ Quietly(out, out') /\ UNCHANGED <<ptrToIndex, allocationInfos, lastPtr, c_stats>>
  BY TablesStep DEF ReaderOK, allocations
<1>2. /\ pos \in Nat /\ pos' = pos + 1 /\ pos' \in 0 .. Len(raw) /\ raw' = raw
      /\ ~ IsEvent(raw, pos + 1)
  <2>1. pos < Len(raw) /\ pos' = pos + 1 /\ Line.mode \in {"m", "t"}
    BY DEF ReadModules, ReadTrace, ReadKnownTrace, GetLine
  <2>2. Len(raw) \in Nat
    BY LenProperties DEF WriterOK
  <2> QED
    BY <2>1, <2>2 DEF ReaderOK, Line, IsEvent
<1>3. /\ \A n, p : LastOf(raw', pos', n, p) <=> LastOf(raw, pos, n, p)
      /\ \A p : JustAllocated(raw', pos', p) <=> JustAllocated(raw, pos, p)
  BY <1>2, StreamQuiet
<1>4. Temporaries(raw', pos') = Temporaries(raw, pos)
  <2>1. raw[pos + 1].mode # "-"
    BY <1>2 DEF IsEvent
  <2> QED
    BY <1>2, <2>1, StreamNext
<1>5. MapInv'
  <2>1. \A p \in Ptrs : HasPointer(ptrToIndex, p) <=> \E n : LastOf(raw', pos', n, p) /\ raw'[n].mode = "+"
    BY <1>2, <1>3 DEF ReaderOK, MapInv
  <2>2. \A p \in Ptrs : \A n : LastOf(raw', pos', n, p) /\ raw'[n].mode = "+" =>
         /\ PointerAt(ptrToIndex, p) \in 0 .. Len(allocationInfos) - 1
         /\ allocationInfos[PointerAt(ptrToIndex, p) + 1] = [size |-> raw'[n].size, trace |-> raw'[n].trace]
    BY <1>2, <1>3 DEF ReaderOK, MapInv
  <2> QED
    BY <1>1, <2>1, <2>2 DEF ReaderOK, MapInv
<1>6. \A mode \in {"a", "+", "-"} : \A info :
        /\ CountIn(out', Len(out'), mode, info) = CountIn(out, Len(out), mode, info)
        /\ EventsIn(out', Len(out'), mode) = EventsIn(out, Len(out), mode)
  BY <1>1, CountQuiet
<1>7. CountersInv'
  BY <1>1, <1>3, <1>4, <1>6 DEF ReaderOK, CountersInv
<1>8. FileInv'
  <2>1. LinesOK(out') /\ (Len(out') > 0 => out'[Len(out')].mode # "a")
    BY <1>1, LinesQuiet DEF ReaderOK, FileInv
  <2>2. \A k \in 1 .. Len(out') : out'[k].mode = "a" => k \in 1 .. Len(out) /\ out'[k] = out[k]
    <3>1. /\ Len(out) \in Nat /\ Len(out') \in Nat /\ Len(out) <= Len(out')
          /\ \A k \in 1 .. Len(out) : out'[k] = out[k]
          /\ \A k \in (Len(out) + 1) .. Len(out') : out'[k].mode \in QuietModes
      BY <1>1 DEF Quietly
    <3> QED
      BY <3>1 DEF QuietModes
  <2> QED
    BY <1>1, <1>6, <2>1, <2>2 DEF ReaderOK, FileInv, LiveIn
<1> QED
  BY <1>1, <1>2, <1>5, <1>7, <1>8 DEF ReaderOK

\* What one more line counts for.
Counted(s, t, line, mode, info) ==
    /\ CountIn(s, Len(s), mode, info) \in Nat /\ EventsIn(s, Len(s), mode) \in Nat
    /\ CountIn(t, Len(t), mode, info) = CountIn(s, Len(s), mode, info)
         + (IF line = EventLine(mode, info) THEN 1 ELSE 0)
    /\ EventsIn(t, Len(t), mode) = EventsIn(s, Len(s), mode) + (IF line.mode = mode THEN 1 ELSE 0)

LEMMA OneMoreCounts ==
    ASSUME NEW s, NEW t, NEW line, OneMore(s, t, line), NEW mode, NEW info
    PROVE  Counted(s, t, line, mode, info)
<1>1. /\ Len(s) \in Nat /\ Len(t) = Len(s) + 1 /\ t[Len(s) + 1] = line
      /\ \A k \in 1 .. Len(s) : t[k] = s[k]
  BY DEF OneMore
<1>2. /\ CountIn(t, Len(s), mode, info) = CountIn(s, Len(s), mode, info)
      /\ EventsIn(t, Len(s), mode) = EventsIn(s, Len(s), mode)
  <2>1. Len(s) \in Nat /\ \A k \in 1 .. Len(s) : t[k] = s[k]
    BY <1>1
  <2> QED
    BY <2>1, CountSame
<1>3. /\ CountIn(t, Len(s), mode, info) \in Nat /\ EventsIn(t, Len(s), mode) \in Nat
      /\ CountIn(t, Len(s) + 1, mode, info) = CountIn(t, Len(s), mode, info)
             + (IF t[Len(s) + 1] = EventLine(mode, info) THEN 1 ELSE 0)
      /\ EventsIn(t, Len(s) + 1, mode) = EventsIn(t, Len(s), mode)
             + (IF t[Len(s) + 1].mode = mode THEN 1 ELSE 0)
  <2> DEFINE n == Len(s)
  <2>1. n \in Nat
    BY <1>1
  <2> HIDE DEF n
  <2>2. /\ CountIn(t, n, mode, info) \in Nat /\ EventsIn(t, n, mode) \in Nat
        /\ CountIn(t, n + 1, mode, info) = CountIn(t, n, mode, info)
             + (IF t[n + 1] = EventLine(mode, info) THEN 1 ELSE 0)
        /\ EventsIn(t, n + 1, mode) = EventsIn(t, n, mode) + (IF t[n + 1].mode = mode THEN 1 ELSE 0)
    BY <2>1, CountNext
  <2> QED
    BY <2>2 DEF n
<1> QED
  BY <1>1, <1>2, <1>3 DEF Counted

\* An event is written, of an info that is known.
EventCounted(s, t, mode, index) ==
    /\ LinesOK(t) /\ Len(t) > 0 /\ t[Len(t)].mode = mode
    /\ EventsIn(t, Len(t), "a") = EventsIn(s, Len(s), "a")
    /\ \A m \in {"+", "-"} :
         /\ EventsIn(s, Len(s), m) \in Nat
         /\ EventsIn(t, Len(t), m) = EventsIn(s, Len(s), m) + (IF m = mode THEN 1 ELSE 0)
    /\ \A m \in {"+", "-"}, i \in Nat :
         /\ CountIn(s, Len(s), m, i) \in Nat
         /\ CountIn(t, Len(t), m, i) = CountIn(s, Len(s), m, i)
              + (IF m = mode /\ i = index THEN 1 ELSE 0)

LEMMA EventAdded ==
    ASSUME NEW s, NEW t, NEW mode \in {"+", "-"}, NEW index \in Nat,
           OneMore(s, t, EventLine(mode, index)), LinesOK(s),
           index < EventsIn(s, Len(s), "a"),
           (Len(s) > 0 /\ s[Len(s)].mode = "a") => mode = "+" /\ index = EventsIn(s, Len(s), "a") - 1,
           CountIn(s, Len(s), "-", index) <= CountIn(s, Len(s), "+", index),
           mode = "-" => CountIn(s, Len(s), "-", index) < CountIn(s, Len(s), "+", index)
    PROVE  EventCounted(s, t, mode, index)
<1> DEFINE line == EventLine(mode, index)
<1>1. line.mode = mode /\ line.info = index /\ \A m, i : line = EventLine(m, i) <=> m = mode /\ i = index
  BY DEF EventLine
<1> HIDE DEF line
<1>2. \A m, i : /\ CountIn(s, Len(s), m, i) \in Nat /\ EventsIn(s, Len(s), m) \in Nat
                /\ CountIn(t, Len(t), m, i) = CountIn(s, Len(s), m, i)
                     + (IF line = EventLine(m, i) THEN 1 ELSE 0)
                /\ EventsIn(t, Len(t), m) = EventsIn(s, Len(s), m) + (IF line.mode = m THEN 1 ELSE 0)
  <2>1. OneMore(s, t, line)
    BY DEF line
  <2>2. \A m, i : Counted(s, t, line, m, i)
    BY <2>1, OneMoreCounts
  <2> QED
    BY <2>2 DEF Counted
<1>7. \A m : /\ EventsIn(s, Len(s), m) \in Nat
             /\ EventsIn(t, Len(t), m) = EventsIn(s, Len(s), m) + (IF line.mode = m THEN 1 ELSE 0)
  <2>1. \A m : /\ CountIn(s, Len(s), m, 0) \in Nat /\ EventsIn(s, Len(s), m) \in Nat
               /\ EventsIn(t, Len(t), m) = EventsIn(s, Len(s), m) + (IF line.mode = m THEN 1 ELSE 0)
    BY <1>2
  <2> QED
    BY <2>1
<1>3. CountIn(t, Len(t), "-", index) <= CountIn(t, Len(t), "+", index)
  <2> DEFINE a == CountIn(s, Len(s), "-", index)
             b == CountIn(s, Len(s), "+", index)
             c == CountIn(t, Len(t), "-", index)
             d == CountIn(t, Len(t), "+", index)
  <2>1. /\ a \in Nat /\ b \in Nat /\ c = a + (IF line = EventLine("-", index) THEN 1 ELSE 0)
        /\ d = b + (IF line = EventLine("+", index) THEN 1 ELSE 0)
        /\ a <= b /\ (mode = "-" => a < b)
    BY <1>2
  <2> HIDE DEF a, b, c, d
  <2>2. CASE mode = "+"
    <3>1. c = a + 0 /\ d = b + 1
      BY <1>1, <2>1, <2>2
    <3> QED
      BY <2>1, <3>1 DEF c, d
  <2>3. CASE mode = "-"
    <3>1. c = a + 1 /\ d = b + 0
      BY <1>1, <2>1, <2>3
    <3> QED
      BY <2>1, <2>3, <3>1 DEF c, d
  <2> QED
    BY <2>2, <2>3
<1>4. LinesOK(t)
  <2>1. OneMore(s, t, line)
    BY DEF line
  <2>2. line.mode # "a"
    BY <1>1
  <2>3. (Len(s) > 0 /\ s[Len(s)].mode = "a") => line = EventLine("+", EventsIn(s, Len(s), "a") - 1)
    BY DEF line
  <2> QED
    BY <1>1, <1>3, <2>1, <2>2, <2>3, LinesNext
<1>5. Len(t) > 0 /\ t[Len(t)] = line
  BY DEF OneMore, line
<1>6. EventsIn(t, Len(t), "a") = EventsIn(s, Len(s), "a")
  <2>1. line.mode # "a"
    BY <1>1
  <2> QED
    BY <1>7, <2>1
<1>8. \A m \in {"+", "-"} :
        /\ EventsIn(s, Len(s), m) \in Nat
        /\ EventsIn(t, Len(t), m) = EventsIn(s, Len(s), m) + (IF m = mode THEN 1 ELSE 0)
  BY <1>1, <1>7
<1>9. \A m \in {"+", "-"}, i \in Nat :
        /\ CountIn(s, Len(s), m, i) \in Nat
        /\ CountIn(t, Len(t), m, i) = CountIn(s, Len(s), m, i) + (IF m = mode /\ i = index THEN 1 ELSE 0)
  <2> SUFFICES ASSUME NEW m \in {"+", "-"}, NEW i \in Nat
               PROVE  /\ CountIn(s, Len(s), m, i) \in Nat
                      /\ CountIn(t, Len(t), m, i) =
                           CountIn(s, Len(s), m, i) + (IF m = mode /\ i = index THEN 1 ELSE 0)
    OBVIOUS
  <2>1. /\ CountIn(s, Len(s), m, i) \in Nat
        /\ CountIn(t, Len(t), m, i) =
             CountIn(s, Len(s), m, i) + (IF line = EventLine(m, i) THEN 1 ELSE 0)
    BY <1>2
  <2>2. line = EventLine(m, i) <=> m = mode /\ i = index
    BY <1>1
  <2> QED
    BY <2>1, <2>2
<1> QED
  BY <1>1, <1>4, <1>5, <1>6, <1>8, <1>9 DEF EventCounted

\* The addresses that are live with an info, after an allocation
LEMMA LiveAdded ==
    ASSUME NEW map, MapOK(map, Nat), NEW p \in Ptrs, NEW index \in Nat, NEW i \in Nat
    PROVE  LiveIn(AddPointer(map, p, index), i) =
             IF i = index THEN LiveIn(map, i) \cup {p} ELSE LiveIn(map, i) \ {p}
<1> DEFINE after == AddPointer(map, p, index)
<1>1. Ptrs \subseteq Nat /\ p \in Nat
  BY TraceWriterAssumption
<1>2. \A q \in Nat : /\ HasPointer(after, q) <=> q = p \/ HasPointer(map, q)
                     /\ HasPointer(after, q) => PointerAt(after, q) = IF q = p THEN index ELSE PointerAt(map, q)
  BY <1>1, PointerAdded
<1> HIDE DEF after
<1>3. \A q \in Ptrs : HasPointer(after, q) /\ PointerAt(after, q) = i <=>
          IF q = p THEN i = index ELSE HasPointer(map, q) /\ PointerAt(map, q) = i
  BY <1>1, <1>2
<1> QED
  BY <1>3 DEF LiveIn, after

\* and a release.
LEMMA LiveTaken ==
    ASSUME NEW map, MapOK(map, Nat), NEW p \in Ptrs, HasPointer(map, p), NEW i \in Nat
    PROVE  LiveIn(TakePointer(map, p), i) = LiveIn(map, i) \ {p}
<1> DEFINE after == TakePointer(map, p)
<1>1. Ptrs \subseteq Nat /\ p \in Nat
  BY TraceWriterAssumption
<1>2. \A q \in Nat : /\ HasPointer(after, q) <=> q # p /\ HasPointer(map, q)
                     /\ HasPointer(after, q) => PointerAt(after, q) = PointerAt(map, q)
  BY <1>1, PointerTaken
<1> HIDE DEF after
<1>3. \A q \in Ptrs : HasPointer(after, q) /\ PointerAt(after, q) = i <=>
          q # p /\ HasPointer(map, q) /\ PointerAt(map, q) = i
  BY <1>1, <1>2
<1> QED
  BY <1>3 DEF LiveIn, after

\* The next line is an event of an address.
LEMMA EventRead ==
    ASSUME WriterOK, ReaderOK, UNCHANGED raw, pos < Len(raw), pos' = pos + 1, Line.mode \in {"+", "-"}
    PROVE  /\ pos \in Nat /\ pos' \in 0 .. Len(raw)
           /\ Line.ptr \in Ptrs /\ Line.ptr \in Nat \ {0} /\ Line = raw[pos + 1]
           /\ Line.mode = "+" => Line.size \in Sizes /\ Line.trace \in Nat
           /\ \A n : LastOf(raw', pos', n, Line.ptr) <=> n = pos + 1
           /\ \A n, p : p # Line.ptr => (LastOf(raw', pos', n, p) <=> LastOf(raw, pos, n, p))
           /\ \A p : JustAllocated(raw', pos', p) <=> Line.mode = "+" /\ Line.ptr = p
           /\ Temporaries(raw', pos') = Temporaries(raw, pos)
                + (IF Line.mode = "-" /\ JustAllocated(raw, pos, Line.ptr) THEN 1 ELSE 0)
           /\ Temporaries(raw, pos) \in Nat
<1>1. /\ Line = raw[pos + 1] /\ pos \in Nat /\ Len(raw) \in Nat
      /\ Line.mode = "+" => Line.size \in Sizes /\ Line.trace \in Nat /\ Line.ptr \in Ptrs
      /\ Line.mode = "-" => Line.ptr \in Ptrs
  BY LineIs DEF ReaderOK
<1>2. Line.ptr \in Ptrs /\ Line.ptr \in Nat \ {0} /\ pos' \in 0 .. Len(raw)
  <2>1. Ptrs \subseteq Nat \ {0}
    BY TraceWriterAssumption
  <2>2. Line.ptr \in Ptrs
    BY <1>1
  <2>3. pos' \in 0 .. Len(raw)
    BY <1>1
  <2> QED
    BY <2>1, <2>2, <2>3
<1>3. IsEvent(raw, pos + 1)
  BY <1>1 DEF IsEvent
<1>4. /\ \A n : LastOf(raw, pos + 1, n, raw[pos + 1].ptr) <=> n = pos + 1
      /\ \A n, p : p # raw[pos + 1].ptr => (LastOf(raw, pos + 1, n, p) <=> LastOf(raw, pos, n, p))
      /\ \A p : JustAllocated(raw, pos + 1, p) <=> raw[pos + 1].mode = "+" /\ raw[pos + 1].ptr = p
  BY <1>1, <1>3, StreamEvent
<1>5. /\ Temporaries(raw, pos) \in Nat
      /\ Temporaries(raw, pos + 1) = Temporaries(raw, pos)
             + (IF raw[pos + 1].mode = "-" /\ JustAllocated(raw, pos, raw[pos + 1].ptr) THEN 1 ELSE 0)
  BY <1>1, StreamNext
<1> QED
  BY <1>1, <1>2, <1>4, <1>5

\* The info of an allocation, old or new.
IndexOf(size, trace) ==
    IF InfoOf(size, trace) = 0 THEN Len(allocationInfos) ELSE InfoOf(size, trace) - 1

InfosWith(size, trace) ==
    IF InfoOf(size, trace) = 0 THEN Append(allocationInfos, [size |-> size, trace |-> trace])
    ELSE allocationInfos

LEMMA InfoFound ==
    ASSUME allocationInfos \in Seq(InfoRecord), NEW size \in Sizes, NEW trace \in Nat
    PROVE  /\ InfosWith(size, trace) \in Seq(InfoRecord)
           /\ Len(allocationInfos) \in Nat /\ Len(InfosWith(size, trace)) \in Nat
           /\ Len(InfosWith(size, trace)) = Len(allocationInfos) + (IF InfoOf(size, trace) = 0 THEN 1 ELSE 0)
           /\ \A k \in 1 .. Len(allocationInfos) : InfosWith(size, trace)[k] = allocationInfos[k]
           /\ IndexOf(size, trace) \in Nat /\ IndexOf(size, trace) \in 0 .. Len(InfosWith(size, trace)) - 1
           /\ InfosWith(size, trace)[IndexOf(size, trace) + 1] = [size |-> size, trace |-> trace]
           /\ InfoOf(size, trace) = 0 => \A k \in 1 .. Len(allocationInfos) :
                                            allocationInfos[k] # [size |-> size, trace |-> trace]
<1> DEFINE info == [size |-> size, trace |-> trace]
           at == InfoOf(size, trace)
           infos0 == InfosWith(size, trace)
           index == IndexOf(size, trace)
<1>1. info \in InfoRecord
  BY DEF InfoRecord
<1>2. Len(allocationInfos) \in Nat
  BY LenProperties
<1>3. at = Position(info, allocationInfos)
  BY DEF InfoOf
<1> HIDE DEF info, at, infos0, index
<1>4. /\ at \in 0 .. Len(allocationInfos)
      /\ at # 0 => allocationInfos[at] = info
      /\ at = 0 => \A k \in 1 .. Len(allocationInfos) : allocationInfos[k] # info
  BY <1>3, PositionIs
<1>5. CASE at = 0
  <2>1. /\ Append(allocationInfos, info) \in Seq(InfoRecord)
        /\ Len(Append(allocationInfos, info)) = Len(allocationInfos) + 1
        /\ \A k \in 1 .. Len(allocationInfos) : Append(allocationInfos, info)[k] = allocationInfos[k]
        /\ Append(allocationInfos, info)[Len(allocationInfos) + 1] = info
    BY <1>1, AppendProperties
  <2>2. infos0 = Append(allocationInfos, info) /\ index = Len(allocationInfos)
    BY <1>5 DEF at, info, infos0, index, InfosWith, IndexOf
  <2>3. index \in 0 .. Len(infos0) - 1 /\ Len(infos0) \in Nat
    BY <1>2, <2>1, <2>2
  <2> QED
    BY <1>2, <1>4, <1>5, <2>1, <2>2, <2>3 DEF at, info, infos0, index
<1>6. CASE at # 0
  <2>1. infos0 = allocationInfos /\ index = at - 1
    BY <1>6 DEF at, infos0, index, InfosWith, IndexOf
  <2>2. index \in Nat /\ index \in 0 .. Len(infos0) - 1 /\ index + 1 = at
    BY <1>2, <1>4, <1>6, <2>1
  <2> QED
    BY <1>2, <1>4, <1>6, <2>1, <2>2 DEF at, info, infos0, index
<1> QED
  BY <1>5, <1>6

\* A + line.
LEMMA AllocationRead == ASSUME WriterOK, ReaderOK, ReadAllocation, UNCHANGED raw PROVE ReaderOK'
<1> DEFINE size == Line.size
           trace == Line.trace
           p == Line.ptr
           info == [size |-> size, trace |-> trace]
           isNew == InfoOf(size, trace) = 0
           index == IF isNew THEN Len(allocationInfos) ELSE InfoOf(size, trace) - 1
           line == InfoLine(size, trace)
           event == EventLine("+", index)
<1>1. /\ pos < Len(raw) /\ Line.mode = "+" /\ pos' = pos + 1
      /\ allocationInfos' = IF isNew THEN Append(allocationInfos, info) ELSE allocationInfos
      /\ ptrToIndex' = AddPointer(ptrToIndex, p, index)
      /\ lastPtr' = p
      /\ c_stats' = [c_stats EXCEPT !.allocations = @ + 1, !.leaked = @ + 1]
      /\ out' = out \o (IF isNew THEN <<line>> ELSE <<>>) \o <<event>>
      /\ UNCHANGED <<m_moduleFragments, m_internedData>>
  BY DEF ReadAllocation, GetLine, ids
<1>2. /\ pos \in Nat /\ pos' \in 0 .. Len(raw)
      /\ p \in Ptrs /\ p \in Nat \ {0} /\ Line = raw[pos + 1] /\ size \in Sizes /\ trace \in Nat
      /\ \A n : LastOf(raw', pos', n, p) <=> n = pos + 1
      /\ \A n, q : q # p => (LastOf(raw', pos', n, q) <=> LastOf(raw, pos, n, q))
      /\ \A q : JustAllocated(raw', pos', q) <=> p = q
      /\ Temporaries(raw', pos') = Temporaries(raw, pos) /\ Temporaries(raw, pos) \in Nat
  <2>1. Line.mode \in {"+", "-"} /\ Line.mode # "-"
    BY <1>1
  <2> QED
    BY <1>1, <2>1, EventRead
<1>3. IsSequence(out) /\ TablesOK /\ MapInv /\ CountersInv /\ FileInv
  BY DEF ReaderOK, TablesOK
<1>4. /\ allocationInfos' \in Seq(InfoRecord) /\ Len(allocationInfos) \in Nat /\ Len(allocationInfos') \in Nat
      /\ Len(allocationInfos') = Len(allocationInfos) + (IF isNew THEN 1 ELSE 0)
      /\ \A k \in 1 .. Len(allocationInfos) : allocationInfos'[k] = allocationInfos[k]
      /\ index \in Nat /\ index \in 0 .. Len(allocationInfos') - 1
      /\ allocationInfos'[index + 1] = info
      /\ isNew => \A k \in 1 .. Len(allocationInfos) : allocationInfos[k] # info
  <2>1. allocationInfos \in Seq(InfoRecord) /\ size \in Sizes /\ trace \in Nat
    BY <1>2, <1>3 DEF MapInv
  <2>2. index = IndexOf(size, trace) /\ allocationInfos' = InfosWith(size, trace)
    BY <1>1 DEF IndexOf, InfosWith
  <2> HIDE DEF size, trace, index
  <2>3. /\ InfosWith(size, trace) \in Seq(InfoRecord)
        /\ Len(allocationInfos) \in Nat /\ Len(InfosWith(size, trace)) \in Nat
        /\ Len(InfosWith(size, trace)) = Len(allocationInfos) + (IF InfoOf(size, trace) = 0 THEN 1 ELSE 0)
        /\ \A k \in 1 .. Len(allocationInfos) : InfosWith(size, trace)[k] = allocationInfos[k]
        /\ IndexOf(size, trace) \in Nat /\ IndexOf(size, trace) \in 0 .. Len(InfosWith(size, trace)) - 1
        /\ InfosWith(size, trace)[IndexOf(size, trace) + 1] = [size |-> size, trace |-> trace]
        /\ InfoOf(size, trace) = 0 => \A k \in 1 .. Len(allocationInfos) :
                                         allocationInfos[k] # [size |-> size, trace |-> trace]
    BY <2>1, InfoFound
  <2> QED
    BY <2>2, <2>3
<1>5. isNew => index = Len(allocationInfos)
  OBVIOUS
<1> HIDE DEF isNew, index, size, trace, p, info
<1>6. MapInv'
  <2>1. MapOK(ptrToIndex, Nat) /\ p \in Nat
    BY <1>2, <1>3 DEF MapInv
  <2>2. /\ MapOK(ptrToIndex', Nat)
        /\ \A q \in Nat :
             /\ HasPointer(ptrToIndex', q) <=> q = p \/ HasPointer(ptrToIndex, q)
             /\ HasPointer(ptrToIndex', q) =>
                  PointerAt(ptrToIndex', q) = IF q = p THEN index ELSE PointerAt(ptrToIndex, q)
    BY <1>1, <1>4, <2>1, PointerAdded
  <2>3. Ptrs \subseteq Nat
    BY TraceWriterAssumption
  <2>4. raw' = raw /\ raw[pos + 1].mode = "+" /\ info = [size |-> raw[pos + 1].size, trace |-> raw[pos + 1].trace]
    BY <1>1, <1>2 DEF info, size, trace
  <2>5. ASSUME NEW q \in Ptrs
        PROVE  HasPointer(ptrToIndex', q) <=> \E n : LastOf(raw', pos', n, q) /\ raw'[n].mode = "+"
    <3>1. CASE q = p
      BY <1>2, <2>2, <2>3, <2>4, <3>1
    <3>2. CASE q # p
      <4>1. HasPointer(ptrToIndex, q) <=> \E n : LastOf(raw, pos, n, q) /\ raw[n].mode = "+"
        BY <1>3 DEF MapInv
      <4> QED
        BY <1>2, <2>2, <2>3, <2>4, <3>2, <4>1
    <3> QED
      BY <3>1, <3>2
  <2>6. ASSUME NEW q \in Ptrs, NEW n, LastOf(raw', pos', n, q) /\ raw'[n].mode = "+"
        PROVE  /\ PointerAt(ptrToIndex', q) \in 0 .. Len(allocationInfos') - 1
               /\ allocationInfos'[PointerAt(ptrToIndex', q) + 1] = [size |-> raw'[n].size, trace |-> raw'[n].trace]
    <3>1. q \in Nat /\ HasPointer(ptrToIndex', q)
      BY <2>3, <2>5, <2>6
    <3>2. CASE q = p
      <4>1. n = pos + 1
        BY <1>2, <2>6, <3>2
      <4>2. PointerAt(ptrToIndex', q) = index
        BY <2>2, <3>1, <3>2
      <4> QED
        BY <1>4, <2>4, <4>1, <4>2
    <3>3. CASE q # p
      <4>1. LastOf(raw, pos, n, q) /\ raw[n].mode = "+"
        BY <1>2, <2>4, <2>6, <3>3
      <4> DEFINE at == PointerAt(ptrToIndex, q)
      <4>2. /\ at \in 0 .. Len(allocationInfos) - 1
            /\ allocationInfos[at + 1] = [size |-> raw[n].size, trace |-> raw[n].trace]
        BY <1>3, <4>1 DEF MapInv
      <4>3. PointerAt(ptrToIndex', q) = at
        BY <2>2, <3>1, <3>3
      <4> HIDE DEF at
      <4>4. at + 1 \in 1 .. Len(allocationInfos) /\ at \in 0 .. Len(allocationInfos') - 1
        BY <1>4, <4>2
      <4> QED
        BY <1>4, <2>4, <4>2, <4>3, <4>4
    <3> QED
      BY <3>2, <3>3
  <2> QED
    BY <1>4, <2>2, <2>5, <2>6 DEF MapInv
\* The lines that are written
<1> DEFINE out1 == IF isNew THEN out \o <<line>> ELSE out
<1>7. IsSequence(out1) /\ out' = out1 \o <<event>>
  <2>1. CASE isNew
    <3>1. OneMore(out, out \o <<line>>, line)
      BY <1>3, OneMoreIs
    <3> HIDE DEF line, event
    <3> QED
      BY <1>1, <2>1, <3>1 DEF OneMore
  <2>2. CASE ~ isNew
    <3>1. out \o <<>> = out
      <4>1. PICK S : out \in Seq(S)
        BY <1>3 DEF IsSequence
      <4> QED
        BY <4>1, ConcatEmptySeq
    <3> HIDE DEF line, event
    <3> QED
      BY <1>1, <1>3, <2>2, <3>1
  <2> QED
    BY <2>1, <2>2
<1>8. OneMore(out1, out', event)
  <2> HIDE DEF out1, event
  <2> QED
    BY <1>7, OneMoreIs
<1>9. /\ LinesOK(out1) /\ Len(out1) \in Nat
      /\ EventsIn(out1, Len(out1), "a") = Len(allocationInfos')
      /\ (Len(out1) > 0 /\ out1[Len(out1)].mode = "a") => index = Len(allocationInfos') - 1
      /\ \A mode \in {"+", "-"} :
           /\ EventsIn(out1, Len(out1), mode) = EventsIn(out, Len(out), mode)
           /\ \A i \in Nat : CountIn(out1, Len(out1), mode, i) = CountIn(out, Len(out), mode, i)
      /\ \A k \in 1 .. Len(out1) : out1[k].mode = "a" =>
           \E i \in 1 .. Len(allocationInfos') :
              out1[k] = InfoLine(allocationInfos'[i].size, allocationInfos'[i].trace)
  <2>1. CASE isNew
    <3>1. OneMore(out, out1, line)
      <4>1. out1 = out \o <<line>>
        BY <2>1
      <4> HIDE DEF out1, line
      <4> QED
        BY <1>3, <4>1, OneMoreIs
    <3>2. line.mode = "a" /\ \A mode, i : mode \in {"+", "-"} => line # EventLine(mode, i)
      BY DEF InfoLine, EventLine
    <3>3. ASSUME NEW k \in 1 .. Len(out) PROVE out[k] # line
      <4> SUFFICES ASSUME out[k] = line PROVE FALSE
        OBVIOUS
      <4>1. PICK i \in 1 .. Len(allocationInfos) :
              out[k] = InfoLine(allocationInfos[i].size, allocationInfos[i].trace)
        BY <1>3, <3>2 DEF FileInv
      <4>2. allocationInfos[i].size = size /\ allocationInfos[i].trace = trace
        BY <4>1 DEF InfoLine
      <4>3. allocationInfos[i] \in InfoRecord
        BY <1>3, ElementOfSeq DEF MapInv
      <4>4. allocationInfos[i] = info
        BY <4>2, <4>3 DEF InfoRecord, info
      <4> QED
        BY <1>4, <2>1, <4>4
    <3> HIDE DEF line, out1
    <3>4. LinesOK(out1)
      <4>1. line.mode = "a" => \A k \in 1 .. Len(out) : out[k] # line
        BY <3>3
      <4>2. line.mode \notin {"+", "-"}
        BY <3>2
      <4>3. LinesOK(out) /\ ~ (Len(out) > 0 /\ out[Len(out)].mode = "a")
        BY <1>3 DEF FileInv
      <4> QED
        BY <3>1, <4>1, <4>2, <4>3, LinesNext
    <3>5. \A mode, i : /\ EventsIn(out, Len(out), mode) \in Nat /\ CountIn(out, Len(out), mode, i) \in Nat
                       /\ EventsIn(out1, Len(out1), mode) = EventsIn(out, Len(out), mode)
                             + (IF line.mode = mode THEN 1 ELSE 0)
                       /\ CountIn(out1, Len(out1), mode, i) = CountIn(out, Len(out), mode, i)
                             + (IF line = EventLine(mode, i) THEN 1 ELSE 0)
      <4>1. \A mode, i : Counted(out, out1, line, mode, i)
        BY <3>1, OneMoreCounts
      <4> QED
        BY <4>1 DEF Counted
    <3>6. EventsIn(out1, Len(out1), "a") = Len(allocationInfos) + 1
      <4>1. /\ EventsIn(out, Len(out), "a") = Len(allocationInfos)
        BY <1>3 DEF FileInv
      <4>2. \A mode : /\ CountIn(out, Len(out), mode, 0) \in Nat
                      /\ EventsIn(out1, Len(out1), mode) = EventsIn(out, Len(out), mode)
                             + (IF line.mode = mode THEN 1 ELSE 0)
        BY <3>5
      <4> QED
        BY <3>2, <4>1, <4>2
    <3>7. \A mode \in {"+", "-"} :
            /\ EventsIn(out1, Len(out1), mode) = EventsIn(out, Len(out), mode)
            /\ \A i \in Nat : CountIn(out1, Len(out1), mode, i) = CountIn(out, Len(out), mode, i)
      <4> SUFFICES ASSUME NEW mode \in {"+", "-"}, NEW i \in Nat
                   PROVE  /\ EventsIn(out1, Len(out1), mode) = EventsIn(out, Len(out), mode)
                          /\ CountIn(out1, Len(out1), mode, i) = CountIn(out, Len(out), mode, i)
        OBVIOUS
      <4>1. line.mode # mode /\ line # EventLine(mode, i)
        BY <3>2
      <4>2. /\ EventsIn(out, Len(out), mode) \in Nat /\ CountIn(out, Len(out), mode, i) \in Nat
            /\ EventsIn(out1, Len(out1), mode) = EventsIn(out, Len(out), mode)
                  + (IF line.mode = mode THEN 1 ELSE 0)
            /\ CountIn(out1, Len(out1), mode, i) = CountIn(out, Len(out), mode, i)
                  + (IF line = EventLine(mode, i) THEN 1 ELSE 0)
        BY <3>5
      <4> QED
        BY <4>1, <4>2
    <3>8. \A k \in 1 .. Len(out1) : out1[k].mode = "a" =>
           \E i \in 1 .. Len(allocationInfos') :
              out1[k] = InfoLine(allocationInfos'[i].size, allocationInfos'[i].trace)
      <4> SUFFICES ASSUME NEW k \in 1 .. Len(out1), out1[k].mode = "a"
                   PROVE  \E i \in 1 .. Len(allocationInfos') :
                             out1[k] = InfoLine(allocationInfos'[i].size, allocationInfos'[i].trace)
        OBVIOUS
      <4>1. Len(allocationInfos') = Len(allocationInfos) + 1
        BY <1>4, <2>1
      <4>2. CASE k \in 1 .. Len(out)
        <5>1. out1[k] = out[k]
          BY <3>1, <4>2 DEF OneMore
        <5>2. PICK i \in 1 .. Len(allocationInfos) :
                out[k] = InfoLine(allocationInfos[i].size, allocationInfos[i].trace)
          BY <1>3, <4>2, <5>1 DEF FileInv
        <5>3. i \in 1 .. Len(allocationInfos') /\ allocationInfos'[i] = allocationInfos[i]
          BY <1>4, <4>1
        <5> QED
          BY <5>1, <5>2, <5>3
      <4>3. CASE k = Len(out) + 1
        <5>1. out1[k] = line
          BY <3>1, <4>3 DEF OneMore
        <5>2. index + 1 \in 1 .. Len(allocationInfos') /\ allocationInfos'[index + 1] = info
          BY <1>4
        <5>3. line = InfoLine(info.size, info.trace)
          BY DEF line, info
        <5> QED
          BY <5>1, <5>2, <5>3
      <4> QED
        BY <3>1, <4>2, <4>3 DEF OneMore
    <3>9. Len(out1) \in Nat /\ Len(allocationInfos') = Len(allocationInfos) + 1 /\ index = Len(allocationInfos') - 1
      BY <1>4, <1>5, <2>1, <3>1 DEF OneMore
    <3> QED
      BY <3>4, <3>6, <3>7, <3>8, <3>9
  <2>2. CASE ~ isNew
    <3>1. out1 = out /\ allocationInfos' = allocationInfos
      BY <1>1, <2>2
    <3>2. Len(out) \in Nat
      BY <1>3, LenProperties DEF IsSequence
    <3> HIDE DEF out1
    <3> QED
      BY <1>3, <3>1, <3>2 DEF FileInv
  <2> QED
    BY <2>1, <2>2
<1> HIDE DEF out1
<1>10. ASSUME NEW i \in Nat
       PROVE  CountIn(out, Len(out), "-", i) \in Nat /\ CountIn(out, Len(out), "+", i) \in Nat
  BY <1>3, CountTyped, LenProperties DEF IsSequence
<1>11. \A i \in Nat : /\ IsFiniteSet(LiveIn(ptrToIndex, i)) /\ Cardinality(LiveIn(ptrToIndex, i)) \in Nat
                      /\ CountIn(out, Len(out), "-", i) + Cardinality(LiveIn(ptrToIndex, i))
                           <= CountIn(out, Len(out), "+", i)
  BY <1>3, FS_CardinalityType DEF FileInv
<1>12. /\ LinesOK(out') /\ Len(out') > 0 /\ out'[Len(out')].mode = "+"
       /\ EventsIn(out', Len(out'), "a") = EventsIn(out1, Len(out1), "a")
       /\ \A m \in {"+", "-"} :
            /\ EventsIn(out1, Len(out1), m) \in Nat
            /\ EventsIn(out', Len(out'), m) = EventsIn(out1, Len(out1), m) + (IF m = "+" THEN 1 ELSE 0)
       /\ \A m \in {"+", "-"}, i \in Nat :
            /\ CountIn(out1, Len(out1), m, i) \in Nat
            /\ CountIn(out', Len(out'), m, i) = CountIn(out1, Len(out1), m, i)
                 + (IF m = "+" /\ i = index THEN 1 ELSE 0)
  <2>1. CountIn(out1, Len(out1), "-", index) <= CountIn(out1, Len(out1), "+", index)
    <3> DEFINE a == CountIn(out, Len(out), "-", index)
               b == CountIn(out, Len(out), "+", index)
               c == Cardinality(LiveIn(ptrToIndex, index))
    <3>1. a \in Nat /\ b \in Nat /\ c \in Nat /\ a + c <= b
      BY <1>4, <1>10, <1>11
    <3>2. CountIn(out1, Len(out1), "-", index) = a /\ CountIn(out1, Len(out1), "+", index) = b
      BY <1>4, <1>9
    <3> HIDE DEF a, b, c
    <3> QED
      BY <3>1, <3>2
  <2>2. index < EventsIn(out1, Len(out1), "a")
    BY <1>4, <1>9
  <2>3. (Len(out1) > 0 /\ out1[Len(out1)].mode = "a") => index = EventsIn(out1, Len(out1), "a") - 1
    BY <1>9
  <2>4. OneMore(out1, out', EventLine("+", index)) /\ LinesOK(out1) /\ index \in Nat
    BY <1>4, <1>8, <1>9
  <2>5. EventCounted(out1, out', "+", index)
    BY <2>1, <2>2, <2>3, <2>4, EventAdded
  <2> QED
    BY <2>5 DEF EventCounted
<1>13. FileInv'
  <2>1. \A k \in 1 .. Len(out') : out'[k].mode = "a" => k \in 1 .. Len(out1) /\ out'[k] = out1[k]
    <3>1. event.mode # "a"
      BY DEF EventLine
    <3> HIDE DEF event
    <3> QED
      BY <1>8, <3>1 DEF OneMore
  <2>2. \A k \in 1 .. Len(out') : out'[k].mode = "a" =>
           \E i \in 1 .. Len(allocationInfos') :
              out'[k] = InfoLine(allocationInfos'[i].size, allocationInfos'[i].trace)
    BY <1>9, <2>1
  <2>3. ASSUME NEW i \in Nat
        PROVE  /\ IsFiniteSet(LiveIn(ptrToIndex', i))
               /\ CountIn(out', Len(out'), "-", i) + Cardinality(LiveIn(ptrToIndex', i))
                    <= CountIn(out', Len(out'), "+", i)
    <3> DEFINE live == LiveIn(ptrToIndex, i)
               after == LiveIn(ptrToIndex', i)
               a == CountIn(out, Len(out), "-", i)
               b == CountIn(out, Len(out), "+", i)
               c == CountIn(out', Len(out'), "-", i)
               d == CountIn(out', Len(out'), "+", i)
    <3>1. MapOK(ptrToIndex, Nat)
      BY <1>3 DEF MapInv
    <3>2. after = IF i = index THEN live \cup {p} ELSE live \ {p}
      BY <1>1, <1>2, <1>4, <3>1, LiveAdded
    <3>3. a \in Nat /\ b \in Nat /\ IsFiniteSet(live) /\ Cardinality(live) \in Nat /\ a + Cardinality(live) <= b
      BY <1>10, <1>11
    <3>4. c = a /\ d = b + (IF i = index THEN 1 ELSE 0)
      <4>1. c = a + 0
        BY <1>9, <1>12
      <4>2. d = b + (IF i = index THEN 1 ELSE 0)
        BY <1>9, <1>12
      <4> HIDE DEF a, b, c, d
      <4> QED
        BY <3>3, <4>1, <4>2
    <3> HIDE DEF live, after, a, b, c, d
    <3>5. IsFiniteSet(after) /\ c + Cardinality(after) <= d
      <4>1. CASE i = index
        <5>1. IsFiniteSet(live \cup {p}) /\ Cardinality(live \cup {p}) =
                IF p \in live THEN Cardinality(live) ELSE Cardinality(live) + 1
          BY <3>3, FS_AddElement
        <5>2. after = live \cup {p} /\ d = b + 1
          BY <3>2, <3>4, <4>1
        <5> QED
          BY <3>3, <3>4, <5>1, <5>2
      <4>2. CASE i # index
        <5>1. IsFiniteSet(live \ {p}) /\ Cardinality(live \ {p}) =
                IF p \in live THEN Cardinality(live) - 1 ELSE Cardinality(live)
          BY <3>3, FS_RemoveElement
        <5>2. after = live \ {p} /\ d = b
          BY <3>2, <3>3, <3>4, <4>2
        <5> QED
          BY <3>3, <3>4, <5>1, <5>2
      <4> QED
        BY <4>1, <4>2
    <3> QED
      BY <3>5 DEF after, c, d
  <2>4. out'[Len(out')].mode # "a" /\ EventsIn(out', Len(out'), "a") = Len(allocationInfos')
    BY <1>9, <1>12
  <2> QED
    BY <1>12, <2>2, <2>3, <2>4 DEF FileInv
<1>14. CountersInv'
  <2>1. /\ EventsIn(out', Len(out'), "+") = EventsIn(out, Len(out), "+") + 1
        /\ EventsIn(out', Len(out'), "-") = EventsIn(out, Len(out), "-")
        /\ EventsIn(out, Len(out), "+") \in Nat /\ EventsIn(out, Len(out), "-") \in Nat
    <3>1. /\ EventsIn(out1, Len(out1), "+") = EventsIn(out, Len(out), "+")
          /\ EventsIn(out1, Len(out1), "-") = EventsIn(out, Len(out), "-")
          /\ EventsIn(out1, Len(out1), "+") \in Nat /\ EventsIn(out1, Len(out1), "-") \in Nat
      BY <1>9, <1>12
    <3>2. /\ EventsIn(out', Len(out'), "+") = EventsIn(out1, Len(out1), "+") + 1
          /\ EventsIn(out', Len(out'), "-") = EventsIn(out1, Len(out1), "-") + 0
      BY <1>12
    <3> QED
      BY <3>1, <3>2
  <2>2. c_stats \in Stats
    BY <1>3 DEF CountersInv
  <2>3. /\ c_stats' \in Stats /\ c_stats'.temporary = c_stats.temporary
        /\ c_stats'.leaked = c_stats.leaked + 1
    <3>1. c_stats' = [c_stats EXCEPT !.allocations = c_stats.allocations + 1, !.leaked = c_stats.leaked + 1]
      BY <1>1
    <3>2. c_stats' = [allocations |-> c_stats.allocations + 1, leaked |-> c_stats.leaked + 1,
                      temporary |-> c_stats.temporary]
      BY <2>2, <3>1 DEF Stats
    <3> QED
      BY <2>2, <3>2 DEF Stats
  <2>4. c_stats'.leaked = EventsIn(out', Len(out'), "+") - EventsIn(out', Len(out'), "-")
    BY <1>3, <2>1, <2>3 DEF CountersInv
  <2>5. c_stats'.temporary = Temporaries(raw', pos')
    BY <1>2, <1>3, <2>3 DEF CountersInv
  <2>6. \A q \in Ptrs : lastPtr' = q <=> JustAllocated(raw', pos', q)
    BY <1>1, <1>2
  <2>7. lastPtr' \in Nat
    BY <1>1, <1>2
  <2> QED
    BY <2>3, <2>4, <2>5, <2>6, <2>7 DEF CountersInv
<1>15. TablesOK'
  <2>1. IsSequence(out')
    BY <1>8 DEF OneMore
  <2> QED
    BY <1>1, <1>3, <2>1 DEF TablesOK
<1>16. pos' \in 0 .. Len(raw')
  BY <1>2
<1> QED
  BY <1>6, <1>13, <1>14, <1>15, <1>16 DEF ReaderOK

\* An address is in the map if and only if its last event is its allocation.
LEMMA FreeFollowed ==
    ASSUME WriterOK, ReaderOK, UNCHANGED <<raw, allocationInfos>>, pos < Len(raw), pos' = pos + 1,
           Line.mode = "-", MapOK(ptrToIndex', Nat),
           \A q \in Nat :
             /\ HasPointer(ptrToIndex', q) <=> q # Line.ptr /\ HasPointer(ptrToIndex, q)
             /\ HasPointer(ptrToIndex', q) => PointerAt(ptrToIndex', q) = PointerAt(ptrToIndex, q)
    PROVE  MapInv'
<1> DEFINE p == Line.ptr
<1>1. /\ \A n : LastOf(raw', pos', n, p) <=> n = pos + 1
      /\ \A n, q : q # p => (LastOf(raw', pos', n, q) <=> LastOf(raw, pos, n, q))
      /\ Line = raw[pos + 1]
  BY EventRead
<1>2. Ptrs \subseteq Nat
  BY TraceWriterAssumption
<1>3. raw' = raw /\ raw[pos + 1].mode # "+" /\ MapInv
  BY <1>1 DEF ReaderOK
<1> HIDE DEF p
<1>4. ASSUME NEW q \in Ptrs
      PROVE  HasPointer(ptrToIndex', q) <=> \E n : LastOf(raw', pos', n, q) /\ raw'[n].mode = "+"
  <2>1. CASE q = p
    BY <1>1, <1>2, <1>3, <2>1 DEF p
  <2>2. CASE q # p
    <3>1. HasPointer(ptrToIndex, q) <=> \E n : LastOf(raw, pos, n, q) /\ raw[n].mode = "+"
      BY <1>3 DEF MapInv
    <3>2. HasPointer(ptrToIndex', q) <=> HasPointer(ptrToIndex, q)
      BY <1>2, <2>2 DEF p
    <3> QED
      BY <1>1, <1>3, <2>2, <3>1, <3>2
  <2> QED
    BY <2>1, <2>2
<1>5. ASSUME NEW q \in Ptrs, NEW n, LastOf(raw', pos', n, q) /\ raw'[n].mode = "+"
      PROVE  /\ PointerAt(ptrToIndex', q) \in 0 .. Len(allocationInfos) - 1
             /\ allocationInfos[PointerAt(ptrToIndex', q) + 1] = [size |-> raw'[n].size, trace |-> raw'[n].trace]
  <2>1. q \in Nat /\ HasPointer(ptrToIndex', q)
    BY <1>2, <1>4, <1>5
  <2>2. q # p
    BY <1>1, <1>3, <1>5
  <2>3. LastOf(raw, pos, n, q) /\ raw[n].mode = "+"
    BY <1>1, <1>3, <1>5, <2>2
  <2> DEFINE at == PointerAt(ptrToIndex, q)
  <2>4. /\ at \in 0 .. Len(allocationInfos) - 1
        /\ allocationInfos[at + 1] = [size |-> raw[n].size, trace |-> raw[n].trace]
    BY <1>3, <2>3 DEF MapInv
  <2>5. PointerAt(ptrToIndex', q) = at
    BY <2>1
  <2> HIDE DEF at
  <2> QED
    BY <1>3, <2>4, <2>5
<1> QED
  BY <1>3, <1>4, <1>5 DEF MapInv

\* A - line of an address that is known.
LEMMA FreeRead == ASSUME WriterOK, ReaderOK, ReadFree, UNCHANGED raw PROVE ReaderOK'
<1> DEFINE p == Line.ptr
           index == PointerAt(ptrToIndex, p)
           event == EventLine("-", index)
           temporary == IF lastPtr = p THEN 1 ELSE 0
<1>1. /\ pos < Len(raw) /\ Line.mode = "-" /\ pos' = pos + 1
      /\ HasPointer(ptrToIndex, p)
      /\ ptrToIndex' = TakePointer(ptrToIndex, p)
      /\ lastPtr' = 0
      /\ c_stats' = [c_stats EXCEPT !.leaked = @ - 1, !.temporary = @ + temporary]
      /\ out' = Append(out, event)
      /\ UNCHANGED <<m_moduleFragments, m_internedData, allocationInfos>>
  BY DEF ReadFree, GetLine, ids, LastPtrAfterFree
<1>2. /\ pos \in Nat /\ pos' \in 0 .. Len(raw)
      /\ p \in Ptrs /\ p \in Nat \ {0} /\ Line = raw[pos + 1]
      /\ \A q : ~ JustAllocated(raw', pos', q)
      /\ Temporaries(raw', pos') = Temporaries(raw, pos) + (IF JustAllocated(raw, pos, p) THEN 1 ELSE 0)
      /\ Temporaries(raw, pos) \in Nat
  <2>1. Line.mode \in {"+", "-"} /\ Line.mode # "+"
    BY <1>1
  <2> QED
    BY <1>1, <2>1, EventRead
<1>3. IsSequence(out) /\ TablesOK /\ MapInv /\ CountersInv /\ FileInv /\ MapOK(ptrToIndex, Nat)
  BY DEF ReaderOK, TablesOK, MapInv
<1>4. index \in Nat /\ index < Len(allocationInfos) /\ Len(allocationInfos) \in Nat
  <2>1. index \in 0 .. Len(allocationInfos) - 1 /\ allocationInfos \in Seq(InfoRecord)
    BY <1>1, <1>2, <1>3 DEF MapInv
  <2>2. Len(allocationInfos) \in Nat
    BY <2>1, LenProperties
  <2> HIDE DEF index
  <2> QED
    BY <2>1, <2>2
<1>5. MapInv'
  <2>1. /\ MapOK(ptrToIndex', Nat)
        /\ \A q \in Nat :
             /\ HasPointer(ptrToIndex', q) <=> q # p /\ HasPointer(ptrToIndex, q)
             /\ HasPointer(ptrToIndex', q) => PointerAt(ptrToIndex', q) = PointerAt(ptrToIndex, q)
    BY <1>1, <1>2, <1>3, PointerTaken
  <2> QED
    BY <1>1, <2>1, FreeFollowed
<1>6. \A i \in Nat : LiveIn(ptrToIndex', i) = LiveIn(ptrToIndex, i) \ {p}
  BY <1>1, <1>2, <1>3, LiveTaken
<1>7. p \in LiveIn(ptrToIndex, index)
  BY <1>1, <1>2 DEF LiveIn
<1> HIDE DEF index
<1>8. OneMore(out, out', event)
  <2> HIDE DEF event
  <2> QED
    BY <1>1, <1>3, OneMoreIs
<1>9. ASSUME NEW i \in Nat
      PROVE  CountIn(out, Len(out), "-", i) \in Nat /\ CountIn(out, Len(out), "+", i) \in Nat
  BY <1>3, CountTyped, LenProperties DEF IsSequence
<1>10. \A i \in Nat : /\ IsFiniteSet(LiveIn(ptrToIndex, i)) /\ Cardinality(LiveIn(ptrToIndex, i)) \in Nat
                      /\ CountIn(out, Len(out), "-", i) + Cardinality(LiveIn(ptrToIndex, i))
                           <= CountIn(out, Len(out), "+", i)
  BY <1>3, FS_CardinalityType DEF FileInv
<1>11. \A i \in Nat : /\ IsFiniteSet(LiveIn(ptrToIndex', i))
                      /\ Cardinality(LiveIn(ptrToIndex', i)) =
                           Cardinality(LiveIn(ptrToIndex, i)) - (IF p \in LiveIn(ptrToIndex, i) THEN 1 ELSE 0)
  <2> SUFFICES ASSUME NEW i \in Nat
               PROVE  /\ IsFiniteSet(LiveIn(ptrToIndex', i))
                      /\ Cardinality(LiveIn(ptrToIndex', i)) =
                           Cardinality(LiveIn(ptrToIndex, i)) - (IF p \in LiveIn(ptrToIndex, i) THEN 1 ELSE 0)
    OBVIOUS
  <2> DEFINE live == LiveIn(ptrToIndex, i)
  <2>1. LiveIn(ptrToIndex', i) = live \ {p} /\ IsFiniteSet(live) /\ Cardinality(live) \in Nat
    BY <1>6, <1>10
  <2> HIDE DEF live, p
  <2>2. IsFiniteSet(live \ {p}) /\ Cardinality(live \ {p}) =
          IF p \in live THEN Cardinality(live) - 1 ELSE Cardinality(live)
    BY <2>1, FS_RemoveElement
  <2>3. IsFiniteSet(LiveIn(ptrToIndex', i))
        /\ Cardinality(LiveIn(ptrToIndex', i)) = Cardinality(live) - (IF p \in live THEN 1 ELSE 0)
    BY <2>1, <2>2
  <2> QED
    BY <2>3 DEF live
<1>12. CountIn(out, Len(out), "-", index) < CountIn(out, Len(out), "+", index)
  <2> DEFINE a == CountIn(out, Len(out), "-", index)
             b == CountIn(out, Len(out), "+", index)
             live == LiveIn(ptrToIndex, index)
  <2>1. a \in Nat /\ b \in Nat /\ IsFiniteSet(live) /\ Cardinality(live) \in Nat /\ a + Cardinality(live) <= b
    BY <1>4, <1>9, <1>10
  <2>2. p \in live
    BY <1>7
  <2> HIDE DEF a, b, live, p
  <2>3. Cardinality(live) # 0
    BY <2>1, <2>2, FS_EmptySet
  <2> QED
    BY <2>1, <2>3 DEF a, b
<1>13. /\ LinesOK(out') /\ Len(out') > 0 /\ out'[Len(out')].mode = "-"
       /\ EventsIn(out', Len(out'), "a") = EventsIn(out, Len(out), "a")
       /\ \A m \in {"+", "-"} :
            /\ EventsIn(out, Len(out), m) \in Nat
            /\ EventsIn(out', Len(out'), m) = EventsIn(out, Len(out), m) + (IF m = "-" THEN 1 ELSE 0)
       /\ \A m \in {"+", "-"}, i \in Nat :
            /\ CountIn(out, Len(out), m, i) \in Nat
            /\ CountIn(out', Len(out'), m, i) = CountIn(out, Len(out), m, i)
                 + (IF m = "-" /\ i = index THEN 1 ELSE 0)
  <2>1. CountIn(out, Len(out), "-", index) <= CountIn(out, Len(out), "+", index)
    BY <1>4, <1>9, <1>12
  <2>2. index < EventsIn(out, Len(out), "a")
    BY <1>3, <1>4 DEF FileInv
  <2>3. ~ (Len(out) > 0 /\ out[Len(out)].mode = "a") /\ LinesOK(out)
    BY <1>3 DEF FileInv
  <2>4. OneMore(out, out', EventLine("-", index)) /\ index \in Nat
    BY <1>4, <1>8
  <2> DEFINE mode == "-"
  <2>5. /\ mode \in {"+", "-"}
        /\ (Len(out) > 0 /\ out[Len(out)].mode = "a") => mode = "+" /\ index = EventsIn(out, Len(out), "a") - 1
        /\ mode = "-" => CountIn(out, Len(out), "-", index) < CountIn(out, Len(out), "+", index)
        /\ OneMore(out, out', EventLine(mode, index)) /\ LinesOK(out) /\ index \in Nat
    BY <1>12, <2>3, <2>4
  <2> HIDE DEF mode, event
  <2>6. EventCounted(out, out', mode, index)
    BY <2>1, <2>2, <2>5, EventAdded
  <2> QED
    BY <2>6 DEF mode, EventCounted
<1>14. FileInv'
  <2>1. \A k \in 1 .. Len(out') : out'[k].mode = "a" => k \in 1 .. Len(out) /\ out'[k] = out[k]
    <3>1. event.mode # "a"
      BY DEF EventLine
    <3> HIDE DEF event
    <3> QED
      BY <1>8, <3>1 DEF OneMore
  <2>2. \A k \in 1 .. Len(out') : out'[k].mode = "a" =>
           \E i \in 1 .. Len(allocationInfos) :
              out'[k] = InfoLine(allocationInfos[i].size, allocationInfos[i].trace)
    BY <1>3, <2>1 DEF FileInv
  <2>3. ASSUME NEW i \in Nat
        PROVE  /\ IsFiniteSet(LiveIn(ptrToIndex', i))
               /\ CountIn(out', Len(out'), "-", i) + Cardinality(LiveIn(ptrToIndex', i))
                    <= CountIn(out', Len(out'), "+", i)
    <3> DEFINE a == CountIn(out, Len(out), "-", i)
               b == CountIn(out, Len(out), "+", i)
               c == CountIn(out', Len(out'), "-", i)
               d == CountIn(out', Len(out'), "+", i)
               e == Cardinality(LiveIn(ptrToIndex, i))
               f == Cardinality(LiveIn(ptrToIndex', i))
    <3>1. a \in Nat /\ b \in Nat /\ e \in Nat /\ a + e <= b /\ IsFiniteSet(LiveIn(ptrToIndex', i))
      BY <1>9, <1>10, <1>11
    <3>2. c = a + (IF i = index THEN 1 ELSE 0) /\ d = b + 0
      BY <1>13
    <3>3. f = e - (IF p \in LiveIn(ptrToIndex, i) THEN 1 ELSE 0) /\ (i = index => p \in LiveIn(ptrToIndex, i))
      BY <1>7, <1>11
    <3> HIDE DEF a, b, c, d, e, f, p
    <3>4. CASE i = index
      <4>1. c = a + 1 /\ f = e - 1
        BY <3>2, <3>3, <3>4
      <4> QED
        BY <3>1, <3>2, <4>1 DEF c, d, f
    <3>5. CASE i # index
      <4>1. c = a + 0 /\ (f = e - 1 \/ f = e - 0)
        BY <3>2, <3>3, <3>5
      <4> QED
        BY <3>1, <3>2, <4>1 DEF c, d, f
    <3> QED
      BY <3>4, <3>5
  <2>4. out'[Len(out')].mode # "a" /\ EventsIn(out', Len(out'), "a") = Len(allocationInfos)
    BY <1>3, <1>13 DEF FileInv
  <2> QED
    BY <1>1, <1>13, <2>2, <2>3, <2>4 DEF FileInv
<1>15. CountersInv'
  <2>1. /\ EventsIn(out', Len(out'), "+") = EventsIn(out, Len(out), "+") + 0
        /\ EventsIn(out', Len(out'), "-") = EventsIn(out, Len(out), "-") + 1
        /\ EventsIn(out, Len(out), "+") \in Nat /\ EventsIn(out, Len(out), "-") \in Nat
    BY <1>13
  <2>2. c_stats \in Stats /\ temporary \in Nat
    BY <1>3 DEF CountersInv
  <2>3. /\ c_stats' \in Stats /\ c_stats'.temporary = c_stats.temporary + temporary
        /\ c_stats'.leaked = c_stats.leaked - 1
    <3>1. c_stats' = [c_stats EXCEPT !.leaked = c_stats.leaked - 1, !.temporary = c_stats.temporary + temporary]
      BY <1>1
    <3> HIDE DEF temporary
    <3>2. c_stats' = [allocations |-> c_stats.allocations, leaked |-> c_stats.leaked - 1,
                      temporary |-> c_stats.temporary + temporary]
      BY <2>2, <3>1 DEF Stats
    <3> QED
      BY <2>2, <3>2 DEF Stats
  <2>4. c_stats'.leaked = EventsIn(out', Len(out'), "+") - EventsIn(out', Len(out'), "-")
    BY <1>3, <2>1, <2>3 DEF CountersInv
  <2>5. c_stats'.temporary = Temporaries(raw', pos')
    <3>1. (lastPtr = p <=> JustAllocated(raw, pos, p)) /\ c_stats.temporary = Temporaries(raw, pos)
      BY <1>2, <1>3 DEF CountersInv
    <3> QED
      BY <1>2, <2>3, <3>1
  <2>6. \A q \in Ptrs : lastPtr' = q <=> JustAllocated(raw', pos', q)
    <3>1. Ptrs \subseteq Nat \ {0}
      BY TraceWriterAssumption
    <3> QED
      BY <1>1, <1>2, <3>1
  <2> QED
    BY <1>1, <2>3, <2>4, <2>5, <2>6 DEF CountersInv
<1>16. TablesOK' /\ pos' \in 0 .. Len(raw')
  <2>1. IsSequence(out')
    BY <1>8 DEF OneMore
  <2> QED
    BY <1>1, <1>2, <1>3, <2>1 DEF TablesOK
<1> QED
  BY <1>5, <1>14, <1>15, <1>16 DEF ReaderOK

\* Or of one that is not.
LEMMA FreeSkipped == ASSUME WriterOK, ReaderOK, SkipFree, UNCHANGED raw PROVE ReaderOK'
<1> DEFINE p == Line.ptr
<1>1. /\ pos < Len(raw) /\ Line.mode = "-" /\ pos' = pos + 1 /\ lastPtr' = 0
      /\ ~ HasPointer(ptrToIndex, p)
      /\ UNCHANGED <<m_moduleFragments, m_internedData, ptrToIndex, allocationInfos, c_stats, out>>
  BY DEF SkipFree, GetLine, ids, LastPtrAfterFree
<1>2. /\ pos \in Nat /\ pos' \in 0 .. Len(raw)
      /\ p \in Ptrs /\ p \in Nat \ {0} /\ Line = raw[pos + 1]
      /\ \A q : ~ JustAllocated(raw', pos', q)
      /\ Temporaries(raw', pos') = Temporaries(raw, pos) + (IF JustAllocated(raw, pos, p) THEN 1 ELSE 0)
      /\ Temporaries(raw, pos) \in Nat
  <2>1. Line.mode \in {"+", "-"} /\ Line.mode # "+"
    BY <1>1
  <2> QED
    BY <1>1, <2>1, EventRead
<1>3. TablesOK /\ MapInv /\ CountersInv /\ FileInv /\ MapOK(ptrToIndex, Nat)
  BY DEF ReaderOK, MapInv
<1>4. MapInv'
  <2>1. /\ MapOK(ptrToIndex', Nat)
        /\ \A q \in Nat :
             /\ HasPointer(ptrToIndex', q) <=> q # p /\ HasPointer(ptrToIndex, q)
             /\ HasPointer(ptrToIndex', q) => PointerAt(ptrToIndex', q) = PointerAt(ptrToIndex, q)
    BY <1>1, <1>3
  <2> QED
    BY <1>1, <2>1, FreeFollowed
\* The line before was not its allocation, or it would be known.
<1>5. ~ JustAllocated(raw, pos, p)
  <2> SUFFICES ASSUME JustAllocated(raw, pos, p) PROVE FALSE
    OBVIOUS
  <2>1. PICK n \in 1 .. pos :
          raw[n].mode = "+" /\ raw[n].ptr = p /\ \A k \in (n + 1) .. pos : ~ IsEvent(raw, k)
    BY DEF JustAllocated
  <2>2. LastOf(raw, pos, n, p)
    BY <2>1 DEF LastOf, IsEvent
  <2> QED
    BY <1>1, <1>2, <1>3, <2>1, <2>2 DEF MapInv
<1>6. CountersInv'
  <2>1. Temporaries(raw', pos') = Temporaries(raw, pos)
    BY <1>2, <1>5
  <2>2. \A q \in Ptrs : lastPtr' = q <=> JustAllocated(raw', pos', q)
    <3>1. Ptrs \subseteq Nat \ {0}
      BY TraceWriterAssumption
    <3> QED
      BY <1>1, <1>2, <3>1
  <2> QED
    BY <1>1, <1>3, <2>1, <2>2 DEF CountersInv
<1>7. FileInv' /\ TablesOK' /\ pos' \in 0 .. Len(raw')
  BY <1>1, <1>2, <1>3 DEF FileInv, TablesOK, LiveIn
<1> QED
  BY <1>4, <1>6, <1>7 DEF ReaderOK

-----------------------------------------------------------------------------
PipelineOK == WriterOK /\ ReaderOK

\* Nothing was written or read.
LEMMA PipelineInit == ASSUME Init PROVE PipelineOK
<1>1. WriterOK
  <2>1. <<>> \in Seq(Traced) /\ <<>> \in Seq(Nat \ {0}) /\ <<>> \in Seq(RawLine) /\ <<>> \in Seq(Stacks)
    OBVIOUS
  <2>2. 0 \in 0 .. Len(edges)
    BY DEF Init, WriterInit
  <2> QED
    BY <2>1, <2>2 DEF Init, WriterInit, WriterOK
<1>2. /\ pos = 0 /\ raw = <<>> /\ out = <<>> /\ m_internedData = <<>> /\ m_moduleFragments = <<>>
      /\ ptrToIndex = <<>> /\ allocationInfos = <<>> /\ lastPtr = 0
      /\ c_stats = [allocations |-> 0, leaked |-> 0, temporary |-> 0]
  BY DEF Init, WriterInit, ReaderInit
<1>3. /\ <<>> \in Seq(InfoRecord) /\ <<>> \in Seq({}) /\ Len(<<>>) = 0
  OBVIOUS
<1>4. IsSequence(<<>>)
  BY <1>3 DEF IsSequence
<1>5. MapOK(<<>>, Nat) /\ \A q : ~ HasPointer(<<>>, q)
  BY EmptyMap
<1>6. \A n, p : ~ LastOf(raw, 0, n, p) /\ ~ JustAllocated(raw, 0, p)
  BY DEF LastOf, JustAllocated
<1>7. \A mode, i : CountIn(<<>>, 0, mode, i) = 0 /\ EventsIn(<<>>, 0, mode) = 0
  <2>1. \A mode, i : {k \in 1 .. 0 : <<>>[k] = EventLine(mode, i)} = {} /\ {k \in 1 .. 0 : <<>>[k].mode = mode} = {}
    OBVIOUS
  <2> QED
    BY <2>1, FS_EmptySet DEF CountIn, EventsIn
<1>8. Temporaries(raw, 0) = 0
  <2>1. {n \in 1 .. 0 : IsTemporary(raw, n)} = {}
    OBVIOUS
  <2> QED
    BY <2>1, FS_EmptySet DEF Temporaries
<1>9. MapInv
  BY <1>2, <1>3, <1>5, <1>6 DEF MapInv
<1>10. CountersInv
  <2>1. Ptrs \subseteq Nat \ {0}
    BY TraceWriterAssumption
  <2>2. c_stats \in Stats /\ c_stats.temporary = 0 /\ c_stats.leaked = 0
    BY <1>2 DEF Stats
  <2>3. Len(out) = 0 /\ EventsIn(out, Len(out), "+") = 0 /\ EventsIn(out, Len(out), "-") = 0
    <3>1. Len(out) = 0 /\ out = <<>>
      BY <1>2
    <3>2. \A mode : CountIn(<<>>, 0, mode, 0) = 0 /\ EventsIn(<<>>, 0, mode) = 0
      BY <1>7
    <3> QED
      BY <3>1, <3>2
  <2> QED
    BY <1>2, <1>6, <1>8, <2>1, <2>2, <2>3 DEF CountersInv
<1>11. FileInv
  <2>1. \A i \in Nat : LiveIn(<<>>, i) = {}
    BY <1>5 DEF LiveIn
  <2>2. IsFiniteSet({}) /\ Cardinality({}) = 0
    BY FS_EmptySet
  <2>3. \A i \in Nat : IsFiniteSet(LiveIn(<<>>, i)) /\ CountIn(<<>>, 0, "-", i) + Cardinality(LiveIn(<<>>, i))
                             <= CountIn(<<>>, 0, "+", i)
    <3>1. \A i : CountIn(<<>>, 0, "-", i) = 0 /\ CountIn(<<>>, 0, "+", i) = 0
      BY <1>7
    <3> SUFFICES ASSUME NEW i \in Nat
                 PROVE  IsFiniteSet(LiveIn(<<>>, i)) /\ CountIn(<<>>, 0, "-", i) + Cardinality(LiveIn(<<>>, i))
                             <= CountIn(<<>>, 0, "+", i)
      OBVIOUS
    <3>2. IsFiniteSet(LiveIn(<<>>, i)) /\ Cardinality(LiveIn(<<>>, i)) = 0
      BY <2>1, <2>2
    <3>3. CountIn(<<>>, 0, "-", i) = 0 /\ CountIn(<<>>, 0, "+", i) = 0
      BY <3>1
    <3> QED
      BY <3>2, <3>3
  <2>4. EventsIn(<<>>, 0, "a") = 0
    <3>1. \A mode : CountIn(<<>>, 0, mode, 0) = 0 /\ EventsIn(<<>>, 0, mode) = 0
      BY <1>7
    <3> QED
      BY <3>1
  <2>5. LinesOK(<<>>)
    BY DEF LinesOK
  <2> QED
    BY <1>2, <1>3, <2>3, <2>4, <2>5 DEF FileInv
<1>12. TablesOK /\ pos \in 0 .. Len(raw)
  BY <1>2, <1>3, <1>4 DEF TablesOK
<1> QED
  BY <1>1, <1>9, <1>10, <1>11, <1>12 DEF PipelineOK, ReaderOK

\* A step of either process keeps all of it.
LEMMA PipelineStep == ASSUME PipelineOK, [Next]_vars PROVE PipelineOK'
<1>0. WriterOK /\ ReaderOK
  BY DEF PipelineOK
<1>1. CASE WriterNext /\ UNCHANGED reader
  <2>1. WriterOK' /\ RawGrows
    BY <1>0, <1>1, WriterStep
  <2>2. raw' \in Seq(RawLine)
    BY <2>1 DEF WriterOK
  <2>3. ReaderOK'
    BY <1>0, <1>1, <2>1, <2>2, ReaderWaits
  <2> QED
    BY <2>1, <2>3 DEF PipelineOK
<1>2. CASE ReaderNext /\ UNCHANGED writer
  <2>1. UNCHANGED raw /\ WriterOK'
    BY <1>0, <1>2 DEF writer, output, tree, history, WriterOK
  <2>2. ReaderOK'
    BY <1>0, <1>2, <2>1, ReaderTables, AllocationRead, FreeRead, FreeSkipped DEF ReaderNext
  <2> QED
    BY <2>1, <2>2 DEF PipelineOK
<1>3. CASE UNCHANGED vars
  <2>1. WriterOK' /\ RawGrows /\ raw' \in Seq(RawLine)
    BY <1>0, <1>3, RawSame DEF vars, writer, output, tree, history, WriterOK
  <2>2. ReaderOK'
    BY <1>0, <1>3, <2>1, ReaderWaits DEF vars
  <2> QED
    BY <2>1, <2>2 DEF PipelineOK
<1> QED
  BY <1>1, <1>2, <1>3 DEF Next

\* The writer's and the reader's state, whatever lines the output loses.
LEMMA Invariance == Spec => []PipelineOK
<1>1. Init => PipelineOK
  BY PipelineInit
<1>2. PipelineOK /\ [Next]_vars => PipelineOK'
  BY PipelineStep
<1> QED
  BY <1>1, <1>2, PTL DEF Spec

\* The interpreter's map, its pages and its statistics follow the raw stream after
\* every line, for any stacks, addresses, layouts and binaries, any size of the
\* buffer and the pages, and any failures of the output.
THEOREM EventsAreFollowed == Spec => []EventsFollowed
<1>1. PipelineOK => EventsFollowed
  BY Followed DEF PipelineOK
<1> QED
  BY <1>1, Invariance, PTL

\* The data file is what TraceData assumes: no info twice, each followed by its
\* first +, none released more often than allocated, at any moment.
THEOREM FileIsForTraceData == Spec => []FileForTraceData
<1>1. PipelineOK => FileForTraceData
  BY Followed DEF PipelineOK
<1> QED
  BY <1>1, Invariance, PTL
=============================================================================
