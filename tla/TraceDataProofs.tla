-------------------------- MODULE TraceDataProofs --------------------------
(***************************************************************************)
(* Theorems about TraceData, and about Readers, which extends it, for      *)
(* files of any length, any sizes, traces and time stamps, any number of   *)
(* reparses and any capacity of the snippets.                              *)
(*                                                                         *)
(* Two facts are carried from line to line. IndexInv: allocations and      *)
(* allocationIndex are inverse to each other, and the shortcut for the     *)
(* newest trace points to it. PeakInv: the peak of the totals is the       *)
(* higher one of the peaks of the two snippets, and the current snippet    *)
(* has seen every total since it was started.                              *)
(*                                                                         *)
(* CostInv ties the costs to the lines of the file: the clock of a pass is *)
(* the greatest time stamp before the line it is at, so the lines it takes *)
(* are the ones in the filter (ClockInv); every cost is the sum or the     *)
(* number of its lines among those (ChargedInv); lastAllocationPtr names   *)
(* the info of the latest + line or none (LastInv), so the temporary ones  *)
(* are counted where a - line follows its + line (TemporaryInv); and       *)
(* suppressing moves whole traces out of the total (SuppressedInv).        *)
(*                                                                         *)
(* ReplayInv ties the snippets to the costs: a replay of all events of the *)
(* current snippet gives what the allocations leak now, so that the replay *)
(* up to a new peak is the snapshot PeakSnapshot takes.                    *)
(*                                                                         *)
(* PrintInv is what heaptrack_print adds: its histogram and the snapshots  *)
(* of its massif file are those of the lines it has read.                  *)
(***************************************************************************)
EXTENDS Readers, SequenceTheorems, FiniteSetTheorems, WellFoundedInduction, TLAPS

\* allocationIndex and allocations are inverse, newest is the greatest trace.
IndexInv ==
    /\ \A t \in DOMAIN allocationIndex : /\ allocationIndex[t] \in 1..Len(allocations)
                                         /\ allocations[allocationIndex[t]].trace = t
    /\ \A a \in 1..Len(allocations) : /\ allocations[a].trace \in DOMAIN allocationIndex
                                      /\ allocationIndex[allocations[a].trace] = a
                                      /\ allocations[a].trace <= newest.trace
    /\ allocations # <<>> => /\ newest.index \in 1..Len(allocations)
                             /\ allocations[newest.index].trace = newest.trace
    /\ allocations = <<>> => newest.trace = 0

\* The higher one of the peaks of the two snippets.
Best(tracker) ==
    IF tracker.curr.peakMem > tracker.peak.peakMem THEN tracker.curr.peakMem ELSE tracker.peak.peakMem

\* What the snippets know about the totals.
PeakInv ==
    phase = "reading" /\ pass = "first" =>
        /\ totalCost.leaked <= peakTracker.curr.peakMem
        /\ totalCost.peak = Best(peakTracker)

IInv == TypeOK /\ IndexInv /\ PeakInv
USE CapacityAssumption, TraceDataAssumption

-----------------------------------------------------------------------------
(* Sequences and snippets                                                  *)

\* A function on 1..n is a sequence of length n.
LEMMA FunctionIsSeq ==
    ASSUME NEW S, NEW n \in Nat, NEW f \in [1..n -> S]
    PROVE  f \in Seq(S) /\ Len(f) = n
<1>1. f \in Seq(S)
  BY SeqDef
<1>2. DOMAIN f = 1..n /\ DOMAIN f = 1..Len(f) /\ Len(f) \in Nat
  BY <1>1, LenProperties
<1> QED
  BY <1>1, <1>2

\* The leaks of well-formed allocations are a sequence of numbers.
LEMMA LeaksTyped ==
    ASSUME NEW allocs \in Seq(Allocation) PROVE Leaks(allocs) \in Seq(Int)
<1>1. DOMAIN allocs = 1..Len(allocs) /\ \A a \in 1..Len(allocs) : allocs[a] \in Allocation
  BY LenProperties, ElementOfSeq
<1>2. Leaks(allocs) \in [1..Len(allocs) -> Int]
  BY <1>1 DEF Leaks, Allocation
<1> QED
  BY <1>2, FunctionIsSeq, LenProperties

\* Clearing the costs leaves the traces alone.
LEMMA ClearCostsTyped ==
    ASSUME NEW allocs \in Seq(Allocation)
    PROVE  /\ ClearCosts(allocs) \in Seq(Allocation)
           /\ Len(ClearCosts(allocs)) = Len(allocs)
           /\ \A a \in 1..Len(allocs) : ClearCosts(allocs)[a].trace = allocs[a].trace
<1>1. DOMAIN allocs = 1..Len(allocs) /\ \A a \in 1..Len(allocs) : allocs[a] \in Allocation
  BY LenProperties, ElementOfSeq
<1>2. \A r \in Allocation : LET c == [trace |-> r.trace, cost |-> NoCost] IN c \in Allocation /\ c.trace = r.trace
  BY DEF Allocation, NoCost
<1>3. /\ ClearCosts(allocs) \in [1..Len(allocs) -> Allocation]
      /\ \A a \in 1..Len(allocs) : ClearCosts(allocs)[a].trace = allocs[a].trace
  BY <1>1, <1>2 DEF ClearCosts
<1> QED
  BY <1>3, FunctionIsSeq, LenProperties

\* A new tracker has empty snippets that start at the same total.
LEMMA NewTrackerTyped ==
    ASSUME NEW time \in Nat, NEW total \in Int, NEW leaked \in Seq(Int)
    PROVE  /\ NewTracker(time, total, leaked) \in [peak : Snippet, curr : Snippet]
           /\ Len(NewTracker(time, total, leaked).curr.events) <= Capacity
           /\ Len(NewTracker(time, total, leaked).peak.events) <= Capacity
           /\ NewTracker(time, total, leaked).curr.peakMem = total
           /\ NewTracker(time, total, leaked).peak.peakMem = total
<1>1. <<>> \in Seq(Event) /\ Len(<<>>) = 0
  BY EmptySeq
<1> QED
  BY <1>1 DEF NewTracker, NewSnippet, Snippet

\* PeakTracker::recordEvent keeps the peaks of the two snippets apart from the
\* totals: their maximum only grows to the new total.
LEMMA RecordEventPeaks ==
    ASSUME NEW tracker \in [peak : Snippet, curr : Snippet], NEW event \in Event,
           NEW time \in Nat, NEW total \in Int, NEW leaked \in Seq(Int),
           Len(tracker.curr.events) <= Capacity, Len(tracker.peak.events) <= Capacity
    PROVE  LET t == RecordEvent(tracker, event, time, total, leaked) IN
           /\ t \in [peak : Snippet, curr : Snippet]
           /\ Len(t.curr.events) <= Capacity /\ Len(t.peak.events) <= Capacity
           /\ total <= t.curr.peakMem
           /\ Best(t) = IF total > Best(tracker) THEN total ELSE Best(tracker)
<1> DEFINE t == RecordEvent(tracker, event, time, total, leaked)
<1> SUFFICES /\ t \in [peak : Snippet, curr : Snippet]
             /\ Len(t.curr.events) <= Capacity /\ Len(t.peak.events) <= Capacity
             /\ total <= t.curr.peakMem
             /\ Best(t) = IF total > Best(tracker) THEN total ELSE Best(tracker)
  OBVIOUS
<1>1. CASE IsFull(tracker.curr)
  <2>1. <<>> \in Seq(Event) /\ Len(<<>>) = 0
    BY EmptySeq
  <2>2. t = [peak |-> IF tracker.curr.peakMem > tracker.peak.peakMem THEN tracker.curr ELSE tracker.peak,
             curr |-> NewSnippet(time, total, leaked)]
    BY <1>1 DEF RecordEvent, Finalize
  <2>3. /\ NewSnippet(time, total, leaked) \in Snippet
        /\ NewSnippet(time, total, leaked).peakMem = total
        /\ Len(NewSnippet(time, total, leaked).events) <= Capacity
    BY <2>1 DEF NewSnippet, Snippet
  <2> HIDE DEF t
  <2> QED
    BY <2>2, <2>3 DEF Snippet, Best
<1>2. CASE ~ IsFull(tracker.curr)
  <2> DEFINE c == RecordInSnippet(tracker.curr, event, time, total)
  <2>1. t = [peak |-> tracker.peak, curr |-> c]
    BY <1>2 DEF RecordEvent
  <2>2. Append(tracker.curr.events, event) \in Seq(Event)
        /\ Len(Append(tracker.curr.events, event)) = Len(tracker.curr.events) + 1
    BY DEF Snippet
  <2>3. /\ c \in Snippet
        /\ c.events = Append(tracker.curr.events, event)
        /\ c.peakMem = IF total > tracker.curr.peakMem THEN total ELSE tracker.curr.peakMem
    <3>1. tracker.curr \in Snippet
      OBVIOUS
    <3>2. CASE total > tracker.curr.peakMem
      <4>1. c = [peakTime |-> time, peakMem |-> total,
                 peakIdx |-> Len(tracker.curr.events) + 1, starting |-> tracker.curr.starting,
                 events |-> Append(tracker.curr.events, event)]
        BY <3>1, <3>2, <2>2 DEF RecordInSnippet, Snippet
      <4>2. Len(tracker.curr.events) + 1 \in Nat
        BY <3>1, LenProperties DEF Snippet
      <4> QED
        BY SMTT(40), <3>1, <3>2, <4>1, <4>2, <2>2 DEF Snippet
    <3>3. CASE ~ total > tracker.curr.peakMem
      <4>1. c = [tracker.curr EXCEPT !.events = Append(@, event)]
        BY <3>3 DEF RecordInSnippet
      <4> QED
        BY <3>1, <3>3, <4>1, <2>2 DEF Snippet
    <3> QED
      BY <3>2, <3>3
  <2>4. Len(c.events) <= Capacity
    <3>1. Len(tracker.curr.events) \in Nat /\ Len(tracker.curr.events) # Capacity
      BY <1>2, LenProperties DEF IsFull, Snippet
    <3> HIDE DEF c
    <3> QED
      BY <3>1, <2>2, <2>3
  <2>5. tracker.curr.peakMem \in Int /\ tracker.peak.peakMem \in Int
    BY DEF Snippet
  <2> HIDE DEF c, t
  <2>6. t \in [peak : Snippet, curr : Snippet] /\ t.curr = c /\ t.peak = tracker.peak
    BY <2>1, <2>3
  <2>7. total <= c.peakMem /\ Best(t) = IF total > Best(tracker) THEN total ELSE Best(tracker)
    BY <2>3, <2>5, <2>6 DEF Best
  <2> QED
    BY <2>4, <2>6, <2>7
<1> QED
  BY <1>1, <1>2

\* An allocation may be replaced by one of the same trace.
LEMMA UpdateTyped ==
    ASSUME NEW allocs \in Seq(Allocation), NEW a \in 1..Len(allocs), NEW r \in Allocation,
           r.trace = allocs[a].trace
    PROVE  /\ [allocs EXCEPT ![a] = r] \in Seq(Allocation)
           /\ Len([allocs EXCEPT ![a] = r]) = Len(allocs)
           /\ \A b \in 1..Len(allocs) : [allocs EXCEPT ![a] = r][b].trace = allocs[b].trace
<1> DEFINE u == [allocs EXCEPT ![a] = r]
<1>1. DOMAIN allocs = 1..Len(allocs) /\ \A b \in 1..Len(allocs) : allocs[b] \in Allocation
  BY LenProperties, ElementOfSeq
<1>2. u \in [1..Len(allocs) -> Allocation] /\ \A b \in 1..Len(allocs) : u[b].trace = allocs[b].trace
  BY <1>1
<1> QED
  BY <1>2, FunctionIsSeq, LenProperties

-----------------------------------------------------------------------------
(* The invariant is inductive                                              *)

LEMMA InitIInv == Init => IInv
<1> SUFFICES ASSUME Init PROVE IInv
  OBVIOUS
<1>1. <<>> \in Seq(Int) /\ <<>> \in Seq(Info) /\ <<>> \in Seq(Allocation) /\ Len(<<>>) = 0
  BY EmptySeq
<1>2. ControlOK
  <2>1. filter \in Nat \X Nat
    <3>1. PICK opening \in Openings : filter = opening[1]
      BY DEF Init
    <3> QED
      BY <3>1, TraceDataAssumption DEF Filters
  <2>2. reparsing \in BOOLEAN
    BY DEF Init
  <2>3. phase \in {"empty", "reading", "read", "summarized", "ready"} /\ pass \in {"first", "second"}
    BY DEF Init
  <2>4. /\ timeStamp \in Nat /\ parsedStamp \in Nat /\ lastAllocationPtr \in Nat
        /\ peakTime \in Nat /\ totalTime \in Nat
    BY DEF Init
  <2> QED
    BY <2>1, <2>2, <2>3, <2>4 DEF ControlOK
<1>3. InfosOK
  BY <1>1 DEF Init, InfosOK
<1>4. CostsOK
  <2>1. totalCost \in Total
    BY DEF Init, NoTotal, Total
  <2>2. 0 \in Nat /\ 0 \in Int
    OBVIOUS
  <2>3. peakTracker = NewTracker(0, 0, <<>>)
    BY DEF Init
  <2> QED
    BY <1>1, <2>1, <2>2, <2>3, NewTrackerTyped DEF CostsOK
<1>5. IndexInv
  BY <1>1 DEF Init, IndexInv
<1>6. PeakInv
  BY DEF Init, PeakInv
<1> QED
  BY <1>2, <1>3, <1>4, <1>5, <1>6 DEF IInv, TypeOK

USE DEF control, reader, infos, results, costs

\* Filters and time stamps stay numbers, and the phases are passed in order.
LEMMA ControlStep == ASSUME IInv, [Next]_vars PROVE ControlOK'
<1> USE DEF IInv, TypeOK, ControlOK, GetLine
<1>1. CASE Parse
  BY <1>1 DEF Parse, StartPass
<1>2. CASE ReadInfo
  BY <1>2 DEF ReadInfo
<1>3. CASE ReadAllocation
  BY <1>3 DEF ReadAllocation
<1>4. CASE ReadDeallocation
  BY <1>4 DEF ReadDeallocation
<1>5. CASE SkipEvent
  BY <1>5 DEF SkipEvent
<1>6. CASE ReadTimeStamp
  BY <1>6 DEF ReadTimeStamp
<1>7. CASE EndFirstPass
  <2>1. Finalized.peak \in Snippet
    BY DEF Finalized, Finalize, CostsOK
  <2>2. peakTime' \in Nat
    BY <1>7, <2>1 DEF EndFirstPass, Snippet
  <2>3. filter' \in Nat \X Nat /\ totalTime' \in Nat
    BY <1>7 DEF EndFirstPass
  <2> QED
    BY <1>7, <2>2, <2>3 DEF EndFirstPass
<1>8. CASE ApplyLeakSuppressions
  BY <1>8 DEF ApplyLeakSuppressions
<1>9. CASE StartSecondPass
  BY <1>9 DEF StartSecondPass, StartPass
<1>10. CASE EndSecondPass
  BY <1>10 DEF EndSecondPass
<1>11. CASE Reparse
  <2>1. PICK choice \in Reparsings :
            StartPass("first", TRUE, <<choice[1][1], IF choice[1][2] < totalTime THEN choice[1][2]
                                                     ELSE totalTime>>, choice[2])
    BY <1>11 DEF Reparse
  <2>2. choice[1] \in Nat \X Nat
    BY TraceDataAssumption DEF Filters
  <2> QED
    BY <2>1, <2>2 DEF StartPass
<1>12. CASE UNCHANGED vars
  BY <1>12 DEF vars
<1> QED
  BY <1>1, <1>2, <1>3, <1>4, <1>5, <1>6, <1>7, <1>8, <1>9, <1>10, <1>11, <1>12 DEF Next

\* Only costs changed.
SameTraces ==
    /\ UNCHANGED infos
    /\ allocations' \in Seq(Allocation) /\ Len(allocations') = Len(allocations)
    /\ \A a \in 1..Len(allocations) : allocations'[a].trace = allocations[a].trace

\* Costs change by numbers, the trace stays.
LEMMA ChargeTyped ==
    ASSUME NEW r \in Allocation, NEW bytes \in Int, NEW count \in Int, NEW temp \in Int
    PROVE  Charge(r, bytes, count, temp) \in Allocation /\ Charge(r, bytes, count, temp).trace = r.trace
  BY DEF Charge, Allocation

\* The allocations and infos that lines and actions refer to exist.
LEMMA Elements ==
    ASSUME IInv
    PROVE  /\ DOMAIN allocations = 1..Len(allocations)
           /\ \A a \in 1..Len(allocations) : allocations[a] \in Allocation
           /\ \A i \in 0..(Len(allocationInfos) - 1) :
                /\ allocationInfos[i + 1].size \in Sizes
                /\ allocationInfos[i + 1].size \in Nat
                /\ allocationInfos[i + 1].allocation \in 1..Len(allocations)
                /\ allocationInfos[i + 1].allocation \in Nat
<1>1. allocations \in Seq(Allocation) /\ allocationInfos \in Seq(Info)
  BY DEF IInv, TypeOK, InfosOK
<1>2. \A i \in 0..(Len(allocationInfos) - 1) : allocationInfos[i + 1] \in Info
  BY <1>1, LenProperties, ElementOfSeq
<1>3. ASSUME NEW r \in Info
      PROVE  /\ r.size \in Sizes /\ r.size \in Nat
             /\ r.allocation \in 1..Len(allocations) /\ r.allocation \in Nat
  <2>1. r.size \in Sizes /\ r.allocation \in 1..Len(allocations)
    BY DEF Info
  <2>2. Len(allocations) \in Nat
    BY <1>1, LenProperties
  <2>3. r.size \in Nat
    BY <2>1
  <2>4. r.allocation \in Nat
    BY <2>1, <2>2
  <2> QED
    BY <2>1, <2>3, <2>4
<1>4. DOMAIN allocations = 1..Len(allocations) /\ \A a \in 1..Len(allocations) : allocations[a] \in Allocation
  BY <1>1, LenProperties, ElementOfSeq
<1> QED
  BY <1>2, <1>3, <1>4

\* Lines other than a and the ends of passes leave traces and infos alone.
LEMMA CostsOnly ==
    ASSUME IInv,
           \/ Parse \/ ReadAllocation \/ ReadDeallocation \/ SkipEvent \/ ReadTimeStamp
           \/ EndFirstPass \/ ApplyLeakSuppressions \/ StartSecondPass \/ EndSecondPass \/ Reparse
           \/ UNCHANGED vars
    PROVE  SameTraces
<1>0. allocations \in Seq(Allocation) /\ Len(allocations) \in Nat
  BY LenProperties DEF IInv, TypeOK, InfosOK
<1>1. ASSUME NEW p, NEW again, NEW limits, NEW off, StartPass(p, again, limits, off) PROVE SameTraces
  BY <1>0, <1>1, ClearCostsTyped DEF StartPass, SameTraces
<1>2. CASE ReadAllocation
  <2>1. PICK i \in 0..(Len(allocationInfos) - 1) :
            /\ allocations' = [allocations EXCEPT ![allocationInfos[i + 1].allocation] =
                                    Charge(@, allocationInfos[i + 1].size, 1, 0)]
            /\ UNCHANGED infos
    BY <1>2 DEF ReadAllocation
  <2> DEFINE a == allocationInfos[i + 1].allocation
             r == Charge(allocations[a], allocationInfos[i + 1].size, 1, 0)
  <2>2. a \in 1..Len(allocations) /\ r \in Allocation /\ r.trace = allocations[a].trace
    BY Elements, ChargeTyped
  <2>3. allocations' = [allocations EXCEPT ![a] = r]
    BY <2>1
  <2> HIDE DEF a, r
  <2>4. /\ allocations' \in Seq(Allocation) /\ Len(allocations') = Len(allocations)
        /\ \A b \in 1..Len(allocations) : allocations'[b].trace = allocations[b].trace
    BY <1>0, <2>2, <2>3, UpdateTyped
  <2> QED
    BY <2>1, <2>4 DEF SameTraces
<1>3. CASE ReadDeallocation
  <2>1. PICK i \in 0..(Len(allocationInfos) - 1), temp \in {0, 1} :
            /\ allocations' = [allocations EXCEPT ![allocationInfos[i + 1].allocation] =
                                    Charge(@, - allocationInfos[i + 1].size, 0, temp)]
            /\ UNCHANGED infos
    BY <1>3 DEF ReadDeallocation
  <2> DEFINE a == allocationInfos[i + 1].allocation
             r == Charge(allocations[a], - allocationInfos[i + 1].size, 0, temp)
  <2>2. a \in 1..Len(allocations) /\ r \in Allocation /\ r.trace = allocations[a].trace
    BY Elements, ChargeTyped
  <2>3. allocations' = [allocations EXCEPT ![a] = r]
    BY <2>1
  <2> HIDE DEF a, r
  <2>4. /\ allocations' \in Seq(Allocation) /\ Len(allocations') = Len(allocations)
        /\ \A b \in 1..Len(allocations) : allocations'[b].trace = allocations[b].trace
    BY <1>0, <2>2, <2>3, UpdateTyped
  <2> QED
    BY <2>1, <2>4 DEF SameTraces
<1>4. CASE ApplyLeakSuppressions
  <2>1. \A r \in Allocation : /\ Charge(r, - r.cost.leaked, 0, 0) \in Allocation
                              /\ Charge(r, - r.cost.leaked, 0, 0).trace = r.trace
    BY DEF Charge, Allocation
  <2>2. /\ allocations' \in [1..Len(allocations) -> Allocation]
        /\ \A a \in 1..Len(allocations) : allocations'[a].trace = allocations[a].trace
    BY <1>4, <2>1, Elements DEF ApplyLeakSuppressions
  <2> QED
    BY <1>0, <1>4, <2>2, FunctionIsSeq DEF ApplyLeakSuppressions, SameTraces
<1>5. CASE SkipEvent
  BY <1>0, <1>5 DEF SkipEvent, SameTraces
<1>6. CASE ReadTimeStamp
  BY <1>0, <1>6 DEF ReadTimeStamp, SameTraces
<1>7. CASE EndFirstPass
  BY <1>0, <1>7 DEF EndFirstPass, SameTraces
<1>8. CASE EndSecondPass
  BY <1>0, <1>8 DEF EndSecondPass, SameTraces
<1>9. CASE UNCHANGED vars
  BY <1>0, <1>9 DEF vars, SameTraces
<1> QED
  BY <1>1, <1>2, <1>3, <1>4, <1>5, <1>6, <1>7, <1>8, <1>9 DEF Parse, StartSecondPass, Reparse

\* Costs are not what infos and the index are about.
LEMMA CostsOnlyKeeps == ASSUME IInv, SameTraces PROVE InfosOK' /\ IndexInv'
<1>1. Len(allocations) \in Nat /\ (allocations = <<>> <=> Len(allocations) = 0)
  BY LenProperties, EmptySeq DEF IInv, TypeOK, InfosOK
<1>2. allocations' = <<>> <=> Len(allocations') = 0
  BY EmptySeq DEF SameTraces
<1>3. InfosOK'
  BY DEF IInv, TypeOK, InfosOK, SameTraces, Info
<1>4. IndexInv'
  BY <1>1, <1>2 DEF IInv, IndexInv, SameTraces
<1> QED
  BY <1>3, <1>4

\* Line a finds the allocation of its trace or adds one for it.
LEMMA ReadInfoKeeps == ASSUME IInv, ReadInfo PROVE InfosOK' /\ IndexInv'
<1>1. PICK size \in Sizes, trace \in Traces :
        IF FirstReading
        THEN /\ AddAllocation(trace)
             /\ allocationInfos' = Append(allocationInfos,
                    [size |-> size, allocation |-> MapToAllocationIndex(trace)])
        ELSE UNCHANGED <<allocations, infos>>
  BY DEF ReadInfo
<1> DEFINE at == MapToAllocationIndex(trace)
<1>2. /\ allocations \in Seq(Allocation) /\ Len(allocations) \in Nat
      /\ (allocations = <<>> <=> Len(allocations) = 0)
      /\ newest.trace \in Nat /\ newest.index \in 0..Len(allocations) /\ newest \in [trace : Nat, index : Nat]
  BY LenProperties, EmptySeq DEF IInv, TypeOK, InfosOK
<1>3. CASE ~ FirstReading
  BY <1>1, <1>2, <1>3, CostsOnlyKeeps DEF SameTraces
<1>4. CASE FirstReading /\ IsKnown(trace)
  <2>1. at \in 1..Len(allocations)
    BY <1>2, <1>4 DEF MapToAllocationIndex, IsKnown, IInv, IndexInv
  <2>2. UNCHANGED <<allocations, allocationIndex, newest>>
    BY <1>1, <1>4 DEF AddAllocation
  <2>3. IndexInv'
    BY <2>2 DEF IInv, IndexInv
  <2> HIDE DEF at
  <2>5. [size |-> size, allocation |-> at] \in Info
    BY <2>1 DEF Info
  <2>6. allocationInfos' = Append(allocationInfos, [size |-> size, allocation |-> at])
    BY <1>1, <1>4 DEF at
  <2>4. allocationInfos' \in Seq(Info)
    BY <2>5, <2>6, AppendProperties DEF IInv, TypeOK, InfosOK
  <2> QED
    BY <2>2, <2>3, <2>4 DEF IInv, TypeOK, InfosOK, Info
<1>5. CASE FirstReading /\ ~ IsKnown(trace)
  <2>1. /\ at = Len(allocations) + 1
        /\ allocations' = Append(allocations, [trace |-> trace, cost |-> NoCost])
        /\ allocationIndex' = [t \in DOMAIN allocationIndex \cup {trace} |->
                                    IF t = trace THEN at ELSE allocationIndex[t]]
        /\ newest' = IF trace >= newest.trace THEN [trace |-> trace, index |-> at] ELSE newest
        /\ allocationInfos' = Append(allocationInfos, [size |-> size, allocation |-> at])
    BY <1>1, <1>5 DEF AddAllocation, MapToAllocationIndex
  <2> HIDE DEF at
  <2>2. [trace |-> trace, cost |-> NoCost] \in Allocation
    BY DEF Allocation, NoCost
  <2>3. /\ allocations' \in Seq(Allocation) /\ Len(allocations') = Len(allocations) + 1
        /\ \A a \in 1..Len(allocations) : allocations'[a] = allocations[a]
        /\ allocations'[at].trace = trace
        /\ allocations' # <<>>
    BY <1>2, <2>1, <2>2, AppendProperties, EmptySeq
  <2>4. trace \in Nat
    OBVIOUS
  <2>5. trace \notin DOMAIN allocationIndex
    <3> SUFFICES ASSUME trace \in DOMAIN allocationIndex PROVE FALSE
      OBVIOUS
    <3> DEFINE a == allocationIndex[trace]
    <3>1. a \in 1..Len(allocations) /\ allocations[a].trace = trace
      BY DEF IInv, IndexInv
    <3>2. allocations[a].trace <= newest.trace
      BY <3>1 DEF IInv, IndexInv
    <3>3. allocations # <<>>
      BY <1>2, <3>1
    <3>4. trace < newest.trace \/ trace = newest.trace
      BY <1>2, <2>4, <3>1, <3>2
    <3> QED
      BY <1>5, <3>3, <3>4 DEF IsKnown
  <2>6. \A t \in DOMAIN allocationIndex' : /\ allocationIndex'[t] \in 1..Len(allocations')
                                           /\ allocations'[allocationIndex'[t]].trace = t
    BY <1>2, <2>1, <2>3, <2>5 DEF IInv, IndexInv
  <2>7. \A a \in 1..Len(allocations') : /\ allocations'[a].trace \in DOMAIN allocationIndex'
                                        /\ allocationIndex'[allocations'[a].trace] = a
                                        /\ allocations'[a].trace <= newest'.trace
    <3>1. ASSUME NEW a \in 1..Len(allocations)
          PROVE  /\ allocations'[a].trace \in DOMAIN allocationIndex'
                 /\ allocationIndex'[allocations'[a].trace] = a
                 /\ allocations'[a].trace <= newest'.trace
      <4>1. /\ allocations'[a].trace = allocations[a].trace
            /\ allocations[a].trace \in DOMAIN allocationIndex
            /\ allocationIndex[allocations[a].trace] = a
            /\ allocations[a].trace <= newest.trace
        BY <2>3 DEF IInv, IndexInv
      <4>2. allocations[a].trace \in Nat
        <5>1. allocations[a] \in Allocation
          BY Elements
        <5> QED
          BY <5>1 DEF Allocation
      <4>3. newest.trace <= newest'.trace /\ newest'.trace \in Nat
        BY <1>2, <2>1, <2>4
      <4> QED
        BY <1>2, <2>1, <2>5, <4>1, <4>2, <4>3
    <3>2. /\ trace \in DOMAIN allocationIndex' /\ allocationIndex'[trace] = at
          /\ trace <= newest'.trace
      BY <1>2, <2>1, <2>4
    <3>3. 1..Len(allocations') = 1..Len(allocations) \cup {at}
      BY <1>2, <2>1, <2>3
    <3> QED
      BY <2>3, <3>1, <3>2, <3>3
  <2>8. newest'.index \in 1..Len(allocations') /\ allocations'[newest'.index].trace = newest'.trace
    BY <1>2, <2>1, <2>3, <2>4 DEF IInv, IndexInv
  <2>9. IndexInv'
    BY <2>3, <2>6, <2>7, <2>8 DEF IndexInv
  <2>10. allocationInfos \in Seq(Info') /\ [size |-> size, allocation |-> at] \in Info'
    <3>1. Info \subseteq Info'
      BY <1>2, <2>3 DEF Info
    <3>2. allocationInfos \in [1..Len(allocationInfos) -> Info'] /\ Len(allocationInfos) \in Nat
      BY <3>1, LenProperties, ElementOfSeq DEF IInv, TypeOK, InfosOK
    <3>3. allocationInfos \in Seq(Info')
      BY <3>2, FunctionIsSeq
    <3>4. at \in 1..Len(allocations')
      BY <1>2, <2>1, <2>3
    <3> QED
      BY <3>3, <3>4 DEF Info
  <2>11. allocationInfos' \in Seq(Info')
    BY <2>1, <2>10, AppendProperties
  <2>12. newest' \in [trace : Nat, index : 0..Len(allocations')]
    BY <1>2, <2>1, <2>3, <2>4
  <2> QED
    BY <2>3, <2>9, <2>11, <2>12 DEF InfosOK
<1> QED
  BY <1>3, <1>4, <1>5

\* An event keeps the snippets up to date with the totals.
LEMMA TrackKeeps ==
    ASSUME IInv, SameTraces, phase = "reading", phase' = phase, pass' = pass,
           NEW info, info.size \in Sizes, info.allocation \in Nat,
           NEW isAlloc \in BOOLEAN, TrackEvent(info, isAlloc),
           totalCost' \in Total,
           pass = "first" => totalCost'.peak = IF totalCost'.leaked > totalCost.peak
                                               THEN totalCost'.leaked ELSE totalCost.peak
    PROVE  CostsOK' /\ PeakInv'
<1>1. CASE pass # "first"
  BY <1>1 DEF TrackEvent, CostsOK, PeakInv, IInv, TypeOK
<1>2. CASE pass = "first"
  <2> DEFINE event  == [size |-> info.size, allocation |-> info.allocation, isAlloc |-> isAlloc]
             total  == totalCost'.leaked
             leaked == Leaks(allocations')
  <2>1. peakTracker' = RecordEvent(peakTracker, event, timeStamp, total, leaked)
    BY <1>2 DEF TrackEvent
  <2>2. event \in Event
    BY DEF Event
  <2>3. total \in Int /\ timeStamp \in Nat
    BY DEF Total, IInv, TypeOK, ControlOK
  <2>4. leaked \in Seq(Int)
    BY LeaksTyped DEF SameTraces
  <2>5. /\ peakTracker \in [peak : Snippet, curr : Snippet]
        /\ Len(peakTracker.curr.events) <= Capacity /\ Len(peakTracker.peak.events) <= Capacity
        /\ totalCost.peak = Best(peakTracker)
    BY <1>2 DEF IInv, TypeOK, CostsOK, PeakInv
  <2> HIDE DEF event, total, leaked
  <2>6. /\ peakTracker' \in [peak : Snippet, curr : Snippet]
        /\ Len(peakTracker'.curr.events) <= Capacity /\ Len(peakTracker'.peak.events) <= Capacity
        /\ total <= peakTracker'.curr.peakMem
        /\ Best(peakTracker') = IF total > Best(peakTracker) THEN total ELSE Best(peakTracker)
    BY <2>1, <2>2, <2>3, <2>4, <2>5, RecordEventPeaks
  <2>7. totalCost'.peak = Best(peakTracker')
    BY <1>2, <2>5, <2>6 DEF total
  <2>8. PeakInv'
    BY <2>6, <2>7 DEF PeakInv, total, Best
  <2> QED
    BY <2>6, <2>8 DEF CostsOK
<1> QED
  BY <1>1, <1>2

\* The snippets know the peak of the totals after every step.
LEMMA CostsStep == ASSUME IInv, [Next]_vars PROVE CostsOK' /\ PeakInv'
<1>0. CostsOK /\ PeakInv
  BY DEF IInv, TypeOK
<1>1. ASSUME NEW p, NEW again, NEW limits, NEW off, StartPass(p, again, limits, off) PROVE CostsOK' /\ PeakInv'
  <2> DEFINE leaked == Leaks(allocations)
  <2>1. leaked \in Seq(Int) /\ parsedStamp \in Nat /\ 0 \in Int
    BY LeaksTyped DEF IInv, TypeOK, InfosOK, ControlOK
  <2>2. totalCost' = NoTotal /\ peakTracker' = NewTracker(parsedStamp, 0, leaked)
    BY <1>1 DEF StartPass
  <2>3. NoTotal \in Total /\ NoTotal.peak = 0 /\ NoTotal.leaked = 0
    BY DEF NoTotal, Total
  <2> HIDE DEF leaked
  <2>4. /\ peakTracker' \in [peak : Snippet, curr : Snippet]
        /\ Len(peakTracker'.curr.events) <= Capacity /\ Len(peakTracker'.peak.events) <= Capacity
        /\ peakTracker'.curr.peakMem = 0 /\ peakTracker'.peak.peakMem = 0
    BY <2>1, <2>2, NewTrackerTyped
  <2> QED
    BY <2>2, <2>3, <2>4 DEF CostsOK, PeakInv, Best
<1>2. CASE ReadInfo
  BY <1>0, <1>2 DEF ReadInfo, GetLine, CostsOK, PeakInv
<1>3. CASE ReadAllocation
  <2>1. PICK i \in 0..(Len(allocationInfos) - 1) :
            LET info  == allocationInfos[i + 1]
                total == totalCost.leaked + info.size
            IN  /\ totalCost' = [totalCost EXCEPT !.allocations = @ + 1, !.leaked = total,
                                                  !.peak = IF total > @ THEN total ELSE @]
                /\ TrackEvent(info, TRUE)
    BY <1>3 DEF ReadAllocation
  <2>2. phase = "reading" /\ phase' = phase /\ pass' = pass
    BY <1>3 DEF ReadAllocation, GetLine
  <2> DEFINE info == allocationInfos[i + 1]
  <2>3. info.size \in Sizes /\ info.size \in Nat /\ info.allocation \in Nat
    BY Elements
  <2>4. totalCost \in Total
    BY <1>0, <2>2 DEF CostsOK
  <2> DEFINE total == totalCost.leaked + info.size
  <2>8. totalCost' = [allocations |-> totalCost.allocations + 1, temporary |-> totalCost.temporary,
                      leaked |-> total, peak |-> IF total > totalCost.peak THEN total ELSE totalCost.peak]
    BY <2>1, <2>4 DEF Total
  <2>5. totalCost' \in Total
    BY <2>3, <2>4, <2>8 DEF Total
  <2>6. totalCost'.peak = IF totalCost'.leaked > totalCost.peak THEN totalCost'.leaked ELSE totalCost.peak
    BY <2>8
  <2>7. SameTraces
    BY <1>3, CostsOnly
  <2> QED
    BY <2>1, <2>2, <2>3, <2>5, <2>6, <2>7, TrackKeeps
<1>4. CASE ReadDeallocation
  <2>1. PICK i \in 0..(Len(allocationInfos) - 1), temp \in {0, 1} :
            LET info == allocationInfos[i + 1]
            IN  /\ totalCost' = [totalCost EXCEPT !.leaked = @ - info.size, !.temporary = @ + temp]
                /\ TrackEvent(info, FALSE)
    BY <1>4 DEF ReadDeallocation
  <2>2. phase = "reading" /\ phase' = phase /\ pass' = pass
    BY <1>4 DEF ReadDeallocation, GetLine
  <2> DEFINE info == allocationInfos[i + 1]
  <2>3. info.size \in Sizes /\ info.size \in Nat /\ info.allocation \in Nat
    BY Elements
  <2>4. totalCost \in Total
    BY <1>0, <2>2 DEF CostsOK
  <2>8. totalCost' = [allocations |-> totalCost.allocations, temporary |-> totalCost.temporary + temp,
                      leaked |-> totalCost.leaked - info.size, peak |-> totalCost.peak]
    BY <2>1, <2>4 DEF Total
  <2>5. totalCost' \in Total
    BY SMTT(40), <2>3, <2>4, <2>8 DEF Total
  <2>6. pass = "first" =>
          totalCost'.peak = IF totalCost'.leaked > totalCost.peak THEN totalCost'.leaked ELSE totalCost.peak
    <3> SUFFICES ASSUME pass = "first" PROVE ~ totalCost'.leaked > totalCost.peak
      BY <2>8
    <3>1. peakTracker.curr.peakMem \in Int /\ peakTracker.peak.peakMem \in Int
      BY <1>0 DEF CostsOK, Snippet
    <3>2. totalCost.leaked <= totalCost.peak /\ totalCost.leaked \in Int /\ totalCost.peak \in Int
      BY <1>0, <2>2, <2>4, <3>1 DEF PeakInv, Best, Total
    <3> QED
      BY <2>3, <2>8, <3>2
  <2>7. SameTraces
    BY <1>4, CostsOnly
  <2> QED
    BY <2>1, <2>2, <2>3, <2>5, <2>6, <2>7, TrackKeeps
<1>5. CASE SkipEvent
  BY <1>0, <1>5 DEF SkipEvent, GetLine, CostsOK, PeakInv
<1>6. CASE ReadTimeStamp
  BY <1>0, <1>6 DEF ReadTimeStamp, GetLine, CostsOK, PeakInv
<1>7. CASE EndFirstPass \/ EndSecondPass
  <2>1. phase = "reading" /\ phase' # "reading" /\ totalCost' = totalCost /\ totalCost \in Total
    BY <1>0, <1>7 DEF EndFirstPass, EndSecondPass, AtEnd, CostsOK
  <2>2. peakTracker' = NewTracker(0, 0, <<>>)
    BY <1>7 DEF EndFirstPass, EndSecondPass
  <2>3. <<>> \in Seq(Int) /\ 0 \in Nat /\ 0 \in Int
    BY EmptySeq
  <2> QED
    BY <2>1, <2>2, <2>3, NewTrackerTyped DEF CostsOK, PeakInv
<1>8. CASE ApplyLeakSuppressions
  BY <1>0, <1>8 DEF ApplyLeakSuppressions, CostsOK, PeakInv
<1>9. CASE UNCHANGED vars
  BY <1>0, <1>9 DEF vars, CostsOK, PeakInv
<1> QED
  BY <1>1, <1>2, <1>3, <1>4, <1>5, <1>6, <1>7, <1>8, <1>9 DEF Next, Parse, StartSecondPass, Reparse

\* The index is only touched by line a.
LEMMA IndexStep == ASSUME IInv, [Next]_vars PROVE InfosOK' /\ IndexInv'
<1>1. CASE ReadInfo
  BY <1>1, ReadInfoKeeps
<1>2. CASE ~ ReadInfo
  BY <1>2, CostsOnly, CostsOnlyKeeps DEF Next
<1> QED
  BY <1>1, <1>2

\* Index and peak agree with the totals after every line.
THEOREM Invariance == Spec => []IInv
<1>1. IInv /\ [Next]_vars => IInv'
  BY ControlStep, IndexStep, CostsStep DEF IInv, TypeOK
<1> QED
  BY InitIInv, <1>1, PTL DEF Spec

-----------------------------------------------------------------------------
(* Theorems                                                                *)

\* The analysis data keep their shape: every info leads to an allocation that
\* exists and no snippet has more events than fit (allocationInfos and
\* allocations of accumulatedtracedata.h, s_allocEventsCapacity).
THEOREM TypeCorrect == Spec => []TypeOK
<1>1. IInv => TypeOK
  BY DEF IInv
<1> QED
  BY Invariance, <1>1, PTL

\* mapToAllocationIndex never makes a second allocation for a trace, and finds
\* the one there is, in whatever order the traces arrive.
THEOREM UniqueAllocations == Spec => []OneAllocationPerTrace
<1>1. IInv => OneAllocationPerTrace
  <2> SUFFICES ASSUME IInv PROVE OneAllocationPerTrace
    OBVIOUS
  <2>1. DOMAIN allocations = 1..Len(allocations)
    BY Elements
  <2> QED
    BY <2>1 DEF IInv, IndexInv, OneAllocationPerTrace
<1> QED
  BY Invariance, <1>1, PTL

\* However long the recording and however small the snippets, the snippet that
\* PeakTracker will replay is one in which the peak of the totals was reached.
THEOREM PeakFound == Spec => []PeakOfBestSnippet
<1>1. IInv => PeakOfBestSnippet
  <2> SUFFICES ASSUME IInv, phase = "reading", pass = "first"
               PROVE  totalCost.peak = Finalized.peak.peakMem
    BY DEF PeakOfBestSnippet
  <2>1. totalCost.peak = Best(peakTracker)
    BY DEF IInv, PeakInv
  <2> QED
    BY <2>1 DEF Best, Finalized, Finalize
<1> QED
  BY Invariance, <1>1, PTL

-----------------------------------------------------------------------------
(* Sums over finite sets                                                   *)

\* Induction, stated for a set of numbers.
LEMMA Induction ==
    ASSUME NEW S, 0 \in S, \A n \in Nat : n \in S => n + 1 \in S
    PROVE  \A n \in Nat : n \in S
<1> DEFINE others == {n \in Nat : n \notin S}
           less == OpToRel(<, Nat)
<1> SUFFICES ASSUME others # {} PROVE FALSE
  OBVIOUS
<1>1. IsWellFoundedOn(less, Nat)
  BY NatLessThanWellFounded
<1>2. \A j, k \in Nat : j < k => <<j, k>> \in less
  BY DEF OpToRel
<1> HIDE DEF less
<1>3. others \subseteq Nat
  OBVIOUS
<1>4. PICK m \in others : \A j \in others : <<j, m>> \notin less
  BY <1>1, <1>3, WFMin
<1>5. m \in Nat /\ m # 0 /\ m - 1 \in Nat /\ m - 1 < m
  OBVIOUS
<1>6. m - 1 \notin others
  BY <1>2, <1>4, <1>5
<1> QED
  BY <1>5, <1>6

\* Induction over the subsets of a finite set.
LEMMA SetInduction ==
    ASSUME NEW D, IsFiniteSet(D), NEW P, {} \in P,
           \A s \in SUBSET D : \A x \in D : s \in P /\ x \notin s => s \cup {x} \in P
    PROVE  D \in P
<1> DEFINE S == {n \in Nat : \A s \in SUBSET D : Cardinality(s) = n => s \in P}
<1>1. \A s \in SUBSET D : IsFiniteSet(s) /\ Cardinality(s) \in Nat
  BY FS_Subset, FS_CardinalityType
<1>2. 0 \in S
  <2>1. \A s \in SUBSET D : Cardinality(s) = 0 => s = {}
    BY <1>1, FS_EmptySet
  <2> QED
    BY <2>1
<1>3. ASSUME NEW n \in Nat, n \in S PROVE n + 1 \in S
  <2> SUFFICES ASSUME NEW s \in SUBSET D, Cardinality(s) = n + 1 PROVE s \in P
    OBVIOUS
  <2>1. s # {}
    BY <1>1, FS_EmptySet
  <2>2. PICK x \in s : TRUE
    BY <2>1
  <2>3. Cardinality(s \ {x}) = n
    <3>1. IsFiniteSet(s)
      BY <1>1
    <3>2. Cardinality(s \ {x}) = Cardinality(s) - 1
      BY <3>1, <2>2, FS_RemoveElement
    <3> QED
      BY <3>2
  <2>4. s \ {x} \in SUBSET D /\ s \ {x} \in P
    BY <1>3, <2>3
  <2>5. s = (s \ {x}) \cup {x} /\ x \notin s \ {x} /\ x \in D
    BY <2>2
  <2> QED
    BY <2>4, <2>5
<1> HIDE DEF S
<1>4. \A n \in Nat : n \in S
  BY <1>2, <1>3, Induction
<1>5. Cardinality(D) \in S
  BY <1>1, <1>4
<1> QED
  BY <1>5 DEF S

-----------------------------------------------------------------------------
\* The recursive function behind SumFunction.
IsIter(g, f, D) ==
    g = [s \in SUBSET D |-> IF s = {} THEN 0
                            ELSE f[CHOOSE x \in s : TRUE] + g[s \ {CHOOSE x \in s : TRUE}]]

\* A sum is the iteration at the whole set.
LEMMA SumIs == ASSUME NEW f, NEW D PROVE SumFunctionOnSet(f, D) = (CHOOSE g : IsIter(g, f, D))[D]
  BY DEF SumFunctionOnSet, FoldFunctionOnSet, MapThenFoldSet, IsIter

\* It exists for a finite set.
LEMMA IterExists ==
    ASSUME NEW f, NEW D, IsFiniteSet(D) PROVE \E g : IsIter(g, f, D)
<1> DEFINE Small(n) == {s \in SUBSET D : Cardinality(s) <= n}
           Value(g, s) == IF s = {} THEN 0 ELSE f[CHOOSE x \in s : TRUE] + g[s \ {CHOOSE x \in s : TRUE}]
           Upto(g, n) == g = [s \in Small(n) |-> Value(g, s)]
           S == {n \in Nat : \E g : Upto(g, n)}
<1>1. \A s \in SUBSET D : IsFiniteSet(s) /\ Cardinality(s) \in Nat
  BY FS_Subset, FS_CardinalityType
<1>2. ASSUME NEW s \in SUBSET D, s # {}
      PROVE  /\ s \ {CHOOSE x \in s : TRUE} \in SUBSET D
             /\ Cardinality(s \ {CHOOSE x \in s : TRUE}) = Cardinality(s) - 1
  <2> DEFINE y == CHOOSE x \in s : TRUE
  <2>1. y \in s
    BY <1>2
  <2> HIDE DEF y
  <2>2. Cardinality(s \ {y}) = Cardinality(s) - 1
    BY <1>1, <2>1, FS_RemoveElement
  <2>3. s \ {y} \in SUBSET D
    OBVIOUS
  <2> QED
    BY <2>2, <2>3 DEF y
<1>3. 0 \in S
  <2>1. \A s \in Small(0) : s = {}
    BY <1>1, FS_EmptySet
  <2> DEFINE g == [s \in Small(0) |-> 0]
  <2>2. Upto(g, 0)
    BY <2>1
  <2> QED
    BY <2>2
<1>4. ASSUME NEW n \in Nat, n \in S PROVE n + 1 \in S
  <2>1. PICK g : Upto(g, n)
    BY <1>4
  <2> DEFINE h == [s \in Small(n + 1) |-> Value(g, s)]
  <2>2. ASSUME NEW s \in Small(n + 1) PROVE h[s] = Value(h, s)
    <3>1. CASE s = {}
      BY <3>1
    <3>2. CASE s # {}
      <4> DEFINE r == s \ {CHOOSE x \in s : TRUE}
      <4>1. r \in SUBSET D /\ Cardinality(r) = Cardinality(s) - 1
        BY <1>2, <3>2
      <4>2. Cardinality(r) \in Nat /\ Cardinality(s) \in Nat
        BY <1>1, <4>1
      <4>3. r \in Small(n) /\ r \in Small(n + 1)
        BY <4>1, <4>2
      <4>4. h[r] = Value(g, r)
        BY <4>3
      <4>5. g[r] = Value(g, r)
        BY <2>1, <4>3
      <4>6. h[r] = g[r]
        BY <4>4, <4>5
      <4>7. h[s] = f[CHOOSE x \in s : TRUE] + g[r]
        BY <3>2
      <4> HIDE DEF h
      <4> QED
        BY <3>2, <4>6, <4>7
    <3> QED
      BY <3>1, <3>2
  <2>3. h = [s \in Small(n + 1) |-> h[s]]
    OBVIOUS
  <2> HIDE DEF h
  <2>4. Upto(h, n + 1)
    <3> HIDE DEF Small, Value
    <3> QED
      BY <2>2, <2>3
  <2> HIDE DEF Upto
  <2> QED
    BY <2>4
<1>5. \A n \in Nat : n \in S
  <2> HIDE DEF S
  <2> QED
    BY <1>3, <1>4, Induction
<1>6. Cardinality(D) \in Nat /\ \A s \in SUBSET D : Cardinality(s) <= Cardinality(D)
  BY FS_Subset, FS_CardinalityType
<1>7. Small(Cardinality(D)) = SUBSET D
  BY <1>6
<1>8. PICK g : Upto(g, Cardinality(D))
  BY <1>5, <1>6
<1>9. IsIter(g, f, D)
  BY <1>7, <1>8 DEF IsIter
<1> QED
  BY <1>9

\* What the function has for a set does not depend on the order in which its
\* elements are chosen.
LEMMA IterAnyOrder ==
    ASSUME NEW f, NEW D, IsFiniteSet(D), \A x \in D : f[x] \in Int, NEW g, IsIter(g, f, D)
    PROVE  /\ g[{}] = 0
           /\ \A s \in SUBSET D : g[s] \in Int /\ \A y \in s : g[s] = f[y] + g[s \ {y}]
<1> DEFINE Good(s) == g[s] \in Int /\ \A y \in s : g[s] = f[y] + g[s \ {y}]
           S == {n \in Nat : \A s \in SUBSET D : Cardinality(s) <= n => Good(s)}
<1>1. \A s \in SUBSET D : IsFiniteSet(s) /\ Cardinality(s) \in Nat
  BY FS_Subset, FS_CardinalityType
<1>2. g[{}] = 0
  BY DEF IsIter
<1>3. 0 \in S
  <2>1. \A s \in SUBSET D : Cardinality(s) <= 0 => s = {}
    BY <1>1, FS_EmptySet
  <2>2. Good({})
    BY <1>2
  <2> HIDE DEF Good
  <2> QED
    BY <2>1, <2>2
<1>4. ASSUME NEW n \in Nat, n \in S PROVE n + 1 \in S
  <2> SUFFICES ASSUME NEW s \in SUBSET D, Cardinality(s) <= n + 1 PROVE Good(s)
    OBVIOUS
  <2>1. CASE s = {}
    BY <1>2, <2>1
  <2>2. CASE s # {}
    <3> DEFINE c == CHOOSE x \in s : TRUE
    <3>1. c \in s
      BY <2>2
    <3>2. g[s] = f[c] + g[s \ {c}]
      BY <2>2 DEF IsIter
    <3> HIDE DEF c
    <3>3. ASSUME NEW y \in s PROVE Good(s \ {y})
      <4>1. IsFiniteSet(s)
        BY <1>1
      <4>2. Cardinality(s \ {y}) = Cardinality(s) - 1
        BY <4>1, FS_RemoveElement
      <4>3. s \ {y} \in SUBSET D /\ Cardinality(s) \in Nat
        BY <1>1
      <4>4. Cardinality(s \ {y}) <= n
        BY <4>2, <4>3
      <4> HIDE DEF Good
      <4> QED
        BY <1>4, <4>3, <4>4
    <3>4. g[s] \in Int
      BY <3>1, <3>2, <3>3
    <3>5. ASSUME NEW y \in s PROVE g[s] = f[y] + g[s \ {y}]
      <4>1. CASE y = c
        BY <3>2, <4>1
      <4>2. CASE y # c
        <5>1. y \in s \ {c} /\ c \in s \ {y}
          BY <3>1, <4>2
        <5>2. g[s \ {c}] = f[y] + g[(s \ {c}) \ {y}]
          BY <3>1, <3>3, <5>1
        <5>3. g[s \ {y}] = f[c] + g[(s \ {y}) \ {c}]
          BY <3>3, <5>1
        <5>4. (s \ {y}) \ {c} = (s \ {c}) \ {y}
          OBVIOUS
        <5>5. f[c] \in Int /\ f[y] \in Int /\ g[s \ {c}] \in Int /\ g[s \ {y}] \in Int
          BY <3>1, <3>3
        <5> DEFINE rest == g[(s \ {c}) \ {y}]
        <5>6. rest \in Int
          <6>1. Good(s \ {c})
            BY <3>1, <3>3
          <6>2. (s \ {c}) \ {y} \in SUBSET D
            OBVIOUS
          <6>3. Cardinality((s \ {c}) \ {y}) <= n
            <7>1. IsFiniteSet(s) /\ IsFiniteSet(s \ {c}) /\ Cardinality(s) \in Nat
              BY <1>1
            <7>2. Cardinality(s \ {c}) = Cardinality(s) - 1
              BY <3>1, <7>1, FS_RemoveElement
            <7>3. Cardinality((s \ {c}) \ {y}) = Cardinality(s \ {c}) - 1
              <8> DEFINE u == s \ {c}
              <8>1. IsFiniteSet(u) /\ y \in u
                BY <5>1, <7>1
              <8> HIDE DEF u
              <8>2. Cardinality(u \ {y}) = Cardinality(u) - 1
                BY <8>1, FS_RemoveElement
              <8> QED
                BY <8>2 DEF u
            <7> QED
              BY <7>1, <7>2, <7>3
          <6> QED
            BY <1>4, <6>2, <6>3
        <5>7. g[s \ {c}] = f[y] + rest /\ g[s \ {y}] = f[c] + rest
          BY <5>2, <5>3, <5>4
        <5> HIDE DEF rest
        <5> QED
          BY <3>2, <5>5, <5>6, <5>7
      <4> QED
        BY <4>1, <4>2
    <3> QED
      BY <3>4, <3>5
  <2> QED
    BY <2>1, <2>2
<1> HIDE DEF S
<1>5. \A n \in Nat : n \in S
  BY <1>3, <1>4, Induction
<1>6. ASSUME NEW s \in SUBSET D PROVE Good(s)
  <2>1. Cardinality(s) \in Nat
    BY <1>1
  <2>2. Cardinality(s) \in S
    BY <1>5, <2>1
  <2> HIDE DEF Good
  <2> QED
    BY <2>1, <2>2 DEF S
<1> QED
  BY <1>2, <1>6

\* Two such functions agree on the sets that their functions agree on.
LEMMA IterSame ==
    ASSUME NEW f, NEW D, NEW g, IsIter(g, f, D), NEW e, NEW E, NEW h, IsIter(h, e, E),
           NEW C \in (SUBSET D) \cap (SUBSET E), IsFiniteSet(C), \A x \in C : f[x] = e[x]
    PROVE  g[C] = h[C]
<1> DEFINE S == {n \in Nat : \A s \in SUBSET C : Cardinality(s) <= n => g[s] = h[s]}
<1>1. \A s \in SUBSET C : IsFiniteSet(s) /\ Cardinality(s) \in Nat
  BY FS_Subset, FS_CardinalityType
<1>2. g[{}] = 0 /\ h[{}] = 0
  BY DEF IsIter
<1>3. 0 \in S
  <2>1. \A s \in SUBSET C : Cardinality(s) <= 0 => s = {}
    BY <1>1, FS_EmptySet
  <2> QED
    BY <1>2, <2>1
<1>4. ASSUME NEW n \in Nat, n \in S PROVE n + 1 \in S
  <2> SUFFICES ASSUME NEW s \in SUBSET C, Cardinality(s) <= n + 1 PROVE g[s] = h[s]
    OBVIOUS
  <2>1. CASE s = {}
    BY <1>2, <2>1
  <2>2. CASE s # {}
    <3> DEFINE c == CHOOSE x \in s : TRUE
    <3>1. c \in s
      BY <2>2
    <3>2. g[s] = f[c] + g[s \ {c}] /\ h[s] = e[c] + h[s \ {c}]
      <4>1. s \in SUBSET D /\ s \in SUBSET E
        OBVIOUS
      <4>2. g[s] = f[c] + g[s \ {c}]
        BY <2>2, <4>1 DEF IsIter
      <4>3. h[s] = e[c] + h[s \ {c}]
        BY <2>2, <4>1 DEF IsIter
      <4> QED
        BY <4>2, <4>3
    <3> HIDE DEF c
    <3>3. Cardinality(s \ {c}) = Cardinality(s) - 1
      <4>1. IsFiniteSet(s)
        BY <1>1
      <4> QED
        BY <3>1, <4>1, FS_RemoveElement
    <3>4. Cardinality(s) \in Nat
      BY <1>1
    <3>5. Cardinality(s \ {c}) <= n /\ s \ {c} \in SUBSET C
      BY <3>3, <3>4
    <3>6. g[s \ {c}] = h[s \ {c}]
      BY <1>4, <3>5
    <3> QED
      BY <3>1, <3>2, <3>6
  <2> QED
    BY <2>1, <2>2
<1> HIDE DEF S
<1>5. \A n \in Nat : n \in S
  BY <1>3, <1>4, Induction
<1>6. Cardinality(C) \in Nat /\ C \in SUBSET C
  BY <1>1
<1>7. Cardinality(C) \in S
  BY <1>5, <1>6
<1> QED
  BY <1>6, <1>7 DEF S

-----------------------------------------------------------------------------
\* A sum over nothing, and over one element more.
LEMMA SumNothing == ASSUME NEW f PROVE SumFunctionOnSet(f, {}) = 0
<1>1. IsFiniteSet({})
  BY FS_EmptySet
<1> DEFINE g == CHOOSE h : IsIter(h, f, {})
<1>2. IsIter(g, f, {})
  BY <1>1, IterExists
<1>3. g[{}] = 0
  BY <1>2 DEF IsIter
<1> HIDE DEF g
<1> QED
  BY <1>3, SumIs DEF g

\* A sum takes its elements in any order: any one may be the last to be added.
LEMMA SumAdded ==
    ASSUME NEW D, IsFiniteSet(D), NEW f, \A x \in D : f[x] \in Int, NEW y \in D
    PROVE  /\ SumFunctionOnSet(f, D) \in Int /\ SumFunctionOnSet(f, D \ {y}) \in Int
           /\ SumFunctionOnSet(f, D) = f[y] + SumFunctionOnSet(f, D \ {y})
<1> DEFINE E == D \ {y}
           g == CHOOSE h : IsIter(h, f, D)
           h == CHOOSE k : IsIter(k, f, E)
<1>1. IsFiniteSet(E)
  BY FS_RemoveElement
<1>2. IsIter(g, f, D)
  BY IterExists
<1>3. IsIter(h, f, E)
  BY <1>1, IterExists
<1>4. SumFunctionOnSet(f, D) = g[D] /\ SumFunctionOnSet(f, E) = h[E]
  BY SumIs
<1> HIDE DEF g, h
<1>5. /\ \A s \in SUBSET D : g[s] \in Int /\ \A z \in s : g[s] = f[z] + g[s \ {z}]
  BY <1>2, IterAnyOrder, SMTT(20)
<1>6. g[D] \in Int /\ g[E] \in Int /\ g[D] = f[y] + g[E]
  <2>1. D \in SUBSET D /\ E \in SUBSET D
    OBVIOUS
  <2> QED
    BY <1>5, <2>1
<1>7. g[E] = h[E]
  <2>1. E \in (SUBSET D) \cap (SUBSET E)
    OBVIOUS
  <2> HIDE DEF E
  <2> QED
    BY <1>1, <1>2, <1>3, <2>1, IterSame
<1> QED
  BY <1>4, <1>6, <1>7

\* It is a number, and depends on the values only.
LEMMA SumTyped ==
    ASSUME NEW D, IsFiniteSet(D), NEW f, \A x \in D : f[x] \in Int
    PROVE  SumFunctionOnSet(f, D) \in Int
<1>1. CASE D = {}
  BY <1>1, SumNothing
<1>2. CASE D # {}
  <2>1. PICK y \in D : TRUE
    BY <1>2
  <2> QED
    BY <2>1, SumAdded
<1> QED
  BY <1>1, <1>2

\* A sum depends on the values at the elements only.
LEMMA SumSame ==
    ASSUME NEW D, IsFiniteSet(D), NEW f, NEW e, \A x \in D : f[x] = e[x]
    PROVE  SumFunctionOnSet(f, D) = SumFunctionOnSet(e, D)
<1> DEFINE g == CHOOSE k : IsIter(k, f, D)
           h == CHOOSE k : IsIter(k, e, D)
<1>1. IsIter(g, f, D) /\ IsIter(h, e, D)
  BY IterExists
<1>2. SumFunctionOnSet(f, D) = g[D] /\ SumFunctionOnSet(e, D) = h[D]
  BY SumIs
<1> HIDE DEF g, h
<1>3. D \in (SUBSET D) \cap (SUBSET D)
  OBVIOUS
<1>4. g[D] = h[D]
  BY <1>1, <1>3, IterSame
<1> QED
  BY <1>2, <1>4

\* The sum of the values f at the elements of S.
SumOver(f, S) == SumFunctionOnSet(f, S)


\* The functions e and f differ by d at y, and nowhere else in D.
Moved(f, e, D, y, d) ==
    /\ \A x \in D : f[x] \in Int /\ e[x] \in Int /\ (x # y => e[x] = f[x])
    /\ e[y] = f[y] + d

\* One value changes, and so does the sum.
LEMMA SumMoves ==
    ASSUME NEW D, IsFiniteSet(D), NEW f, NEW e, NEW y \in D, NEW d \in Int, Moved(f, e, D, y, d)
    PROVE  SumOver(f, D) \in Int /\ SumOver(e, D) = SumOver(f, D) + d
<1> DEFINE E == D \ {y}
           F == SumFunctionOnSet(f, D)
           G == SumFunctionOnSet(e, D)
           R == SumFunctionOnSet(f, E)
<1>0. /\ \A x \in D : f[x] \in Int /\ e[x] \in Int /\ (x # y => e[x] = f[x])
      /\ e[y] = f[y] + d
  BY DEF Moved
<1>1. F \in Int /\ R \in Int /\ F = f[y] + R
  BY <1>0, SumAdded
<1>2. G \in Int /\ G = e[y] + SumFunctionOnSet(e, E)
  BY <1>0, SumAdded
<1>3. SumFunctionOnSet(e, E) = R
  <2>1. IsFiniteSet(E) /\ \A x \in E : e[x] = f[x]
    BY <1>0, FS_RemoveElement
  <2> HIDE DEF E
  <2> QED
    BY <2>1, SumSame
<1> HIDE DEF F, G, R, E
<1>4. f[y] \in Int /\ e[y] \in Int /\ e[y] = f[y] + d
  BY <1>0
<1>5. F \in Int /\ G = F + d
  BY <1>1, <1>2, <1>3, <1>4
<1> QED
  BY <1>5 DEF F, G, SumOver

\* A sum of zeros.
LEMMA SumZero ==
    ASSUME NEW D, IsFiniteSet(D), NEW f, \A x \in D : f[x] = 0
    PROVE  SumFunctionOnSet(f, D) = 0
<1> DEFINE P == {s \in SUBSET D : SumFunctionOnSet(f, s) = 0}
<1>1. {} \in P
  BY SumNothing
<1>2. ASSUME NEW s \in SUBSET D, NEW x \in D, s \in P, x \notin s PROVE s \cup {x} \in P
  <2> DEFINE t == s \cup {x}
  <2>1. IsFiniteSet(t) /\ (\A z \in t : f[z] \in Int) /\ x \in t
    BY FS_Subset
  <2>2. t \ {x} = s
    BY <1>2
  <2>3. SumFunctionOnSet(f, t \ {x}) = 0
    BY <1>2, <2>2
  <2> HIDE DEF t
  <2>4. SumFunctionOnSet(f, t) = f[x] + SumFunctionOnSet(f, t \ {x})
    BY <2>1, SumAdded
  <2>5. SumFunctionOnSet(f, t) = 0
    BY <2>3, <2>4
  <2> QED
    BY <2>5 DEF t
<1> HIDE DEF P
<1>3. D \in P
  BY <1>1, <1>2, SetInduction
<1> QED
  BY <1>3 DEF P

\* A sum over two parts.
LEMMA SumSplit ==
    ASSUME NEW D, IsFiniteSet(D), NEW f, \A x \in D : f[x] \in Int, NEW C \in SUBSET D
    PROVE  SumFunctionOnSet(f, D) = SumFunctionOnSet(f, C) + SumFunctionOnSet(f, D \ C)
<1> DEFINE E == D \ C
           P == {s \in SUBSET E : SumFunctionOnSet(f, C \cup s) = SumFunctionOnSet(f, C) + SumFunctionOnSet(f, s)}
<1>1. IsFiniteSet(C) /\ IsFiniteSet(E)
  BY FS_Subset
<1>2. SumFunctionOnSet(f, C) \in Int
  BY <1>1, SumTyped
<1>3. {} \in P
  <2>1. C \cup {} = C /\ SumFunctionOnSet(f, {}) = 0
    BY SumNothing
  <2> QED
    BY <1>2, <2>1
<1>4. ASSUME NEW s \in SUBSET E, NEW x \in E, s \in P, x \notin s PROVE s \cup {x} \in P
  <2> DEFINE t == s \cup {x}
             b == C \cup t
             S1 == SumFunctionOnSet(f, t)
             S2 == SumFunctionOnSet(f, s)
             B1 == SumFunctionOnSet(f, b)
             B2 == SumFunctionOnSet(f, C \cup s)
             A  == SumFunctionOnSet(f, C)
  <2>1. IsFiniteSet(t) /\ (\A z \in t : f[z] \in Int) /\ x \in t /\ t \ {x} = s
    <3>1. t \in SUBSET D
      OBVIOUS
    <3> QED
      BY <1>4, <3>1, FS_Subset
  <2>2. IsFiniteSet(b) /\ (\A z \in b : f[z] \in Int) /\ x \in b /\ b \ {x} = C \cup s
    <3>1. b \in SUBSET D
      OBVIOUS
    <3> QED
      BY <1>4, <3>1, FS_Subset
  <2> HIDE DEF t, b
  <2>3. S1 = f[x] + S2 /\ S1 \in Int /\ S2 \in Int
    BY <2>1, SumAdded
  <2>4. B1 = f[x] + B2 /\ B1 \in Int /\ B2 \in Int
    BY <2>2, SumAdded
  <2>5. B2 = A + S2
    BY <1>4
  <2>6. f[x] \in Int /\ A \in Int
    BY <1>2
  <2> HIDE DEF S1, S2, B1, B2, A
  <2>7. B1 = A + S1
    BY <2>3, <2>4, <2>5, <2>6
  <2> QED
    BY <2>7 DEF B1, A, S1, b, t
<1> HIDE DEF P
<1>5. E \in P
  BY <1>1, <1>3, <1>4, SetInduction
<1>6. C \cup E = D
  OBVIOUS
<1> QED
  BY <1>5, <1>6 DEF P

\* Only some of the values are not 0.
LEMMA SumOfPart ==
    ASSUME NEW D, IsFiniteSet(D), NEW f, \A x \in D : f[x] \in Int, NEW C \in SUBSET D,
           \A x \in D : x \notin C => f[x] = 0
    PROVE  SumFunctionOnSet(f, D) = SumFunctionOnSet(f, C)
<1> DEFINE E == D \ C
<1>1. SumFunctionOnSet(f, D) = SumFunctionOnSet(f, C) + SumFunctionOnSet(f, E)
  BY SumSplit
<1>2. IsFiniteSet(C) /\ IsFiniteSet(E) /\ \A x \in E : f[x] = 0
  BY FS_Subset
<1> HIDE DEF E
<1>3. SumFunctionOnSet(f, E) = 0
  BY <1>2, SumZero
<1>4. SumFunctionOnSet(f, C) \in Int
  BY <1>2, SumTyped
<1> QED
  BY <1>1, <1>3, <1>4

\* The same values under other names.
LEMMA SumRenamed ==
    ASSUME NEW D, IsFiniteSet(D), NEW e, NEW T, IsFiniteSet(T), NEW f,
           \A x \in T : f[x] \in Int,
           NEW m, \A x \in D : m[x] \in T /\ e[x] = f[m[x]],
           \A x, y \in D : m[x] = m[y] => x = y,
           \A z \in T : (\A x \in D : m[x] # z) => f[z] = 0
    PROVE  SumFunctionOnSet(e, D) = SumFunctionOnSet(f, T)
<1> DEFINE Image(s) == {m[x] : x \in s}
           P == {s \in SUBSET D : SumFunctionOnSet(e, s) = SumFunctionOnSet(f, Image(s))}
<1>1. {} \in P
  <2>1. Image({}) = {}
    OBVIOUS
  <2> QED
    BY <2>1, SumNothing
<1>2. ASSUME NEW s \in SUBSET D, NEW x \in D, s \in P, x \notin s PROVE s \cup {x} \in P
  <2> DEFINE t == s \cup {x}
             I == Image(t)
  <2>1. IsFiniteSet(t) /\ (\A z \in t : e[z] \in Int) /\ x \in t /\ t \ {x} = s
    <3>1. t \in SUBSET D
      OBVIOUS
    <3>2. \A z \in D : e[z] \in Int
      OBVIOUS
    <3> QED
      BY <1>2, <3>1, <3>2, FS_Subset
  <2>2. I \in SUBSET T
    OBVIOUS
  <2>3. m[x] \in I
    OBVIOUS
  <2>4. I \ {m[x]} = Image(s)
    BY <1>2
  <2>5. SumFunctionOnSet(e, s) = SumFunctionOnSet(f, Image(s))
    BY <1>2
  <2> HIDE DEF t, I, Image
  <2>6. IsFiniteSet(I) /\ \A z \in I : f[z] \in Int
    BY <2>2, FS_Subset
  <2>7. SumFunctionOnSet(e, t) = e[x] + SumFunctionOnSet(e, s)
    BY <2>1, SumAdded
  <2>8. SumFunctionOnSet(f, I) = f[m[x]] + SumFunctionOnSet(f, Image(s))
    BY <2>3, <2>4, <2>6, SumAdded
  <2>9. SumFunctionOnSet(e, t) = SumFunctionOnSet(f, I)
    BY <2>5, <2>7, <2>8
  <2> QED
    BY <2>9 DEF t, I
<1> HIDE DEF P
<1>3. D \in P
  BY <1>1, <1>2, SetInduction
<1>4. SumFunctionOnSet(e, D) = SumFunctionOnSet(f, Image(D))
  BY <1>3 DEF P
<1>5. Image(D) \in SUBSET T
  OBVIOUS
<1>6. \A z \in T : z \notin Image(D) => f[z] = 0
  OBVIOUS
<1> HIDE DEF Image
<1>7. SumFunctionOnSet(f, T) = SumFunctionOnSet(f, Image(D))
  BY <1>5, <1>6, SumOfPart
<1> QED
  BY <1>4, <1>7

-----------------------------------------------------------------------------
(* The lines of a file and their times                                     *)

Lines == [mode : {"a", "+", "-", "c"}, value : Nat, trace : Nat]

\* The time stamps before a line of a file, and its time.
StampsBefore(f, n) == {f[m].value : m \in {k \in 1..(n - 1) : f[k].mode = "c"}} \cup {0}

Time(f, n) == Max(StampsBefore(f, n))

\* The lines of a kind within a filter, among the first lines of a file.
Seen(f, limits, mode, last) ==
    {n \in 1..last : /\ f[n].mode = mode
                     /\ limits[1] <= Time(f, n) /\ Time(f, n) < limits[2]}

\* The maximum is what it should be.
LEMMA MaxIs ==
    ASSUME NEW S \in SUBSET Int, NEW x \in S, \A y \in S : x >= y
    PROVE  Max(S) = x
<1> DEFINE m == CHOOSE z \in S : \A y \in S : z >= y
<1>1. m \in S /\ \A y \in S : m >= y
  OBVIOUS
<1>2. Max(S) = m
  BY DEF Max
<1> HIDE DEF m
<1>3. m >= x /\ x >= m /\ m \in Int /\ x \in Int
  BY <1>1
<1> QED
  BY <1>2, <1>3

\* The time of a line follows from the line before.
LEMMA TimeSteps ==
    ASSUME NEW f, NEW l \in Nat, \A n \in 1..l : f[n].value \in Nat
    PROVE  /\ Time(f, 1) = 0
           /\ \A n \in 1..(l + 1) : Time(f, n) \in StampsBefore(f, n) /\ Time(f, n) \in Nat
                                    /\ \A s \in StampsBefore(f, n) : s <= Time(f, n)
           /\ \A n \in 1..l : Time(f, n + 1) = IF f[n].mode = "c" /\ f[n].value > Time(f, n)
                                               THEN f[n].value ELSE Time(f, n)
<1> DEFINE Good(n) == Time(f, n) \in StampsBefore(f, n) /\ Time(f, n) \in Nat
                      /\ \A s \in StampsBefore(f, n) : s <= Time(f, n)
           Next1(n) == Time(f, n + 1) = IF f[n].mode = "c" /\ f[n].value > Time(f, n)
                                       THEN f[n].value ELSE Time(f, n)
           S == {n \in Nat : n + 1 \in 1..(l + 1) => Good(n + 1)}
<1>1. Time(f, 1) = 0 /\ Good(1)
  <2>1. StampsBefore(f, 1) = {0}
    BY DEF StampsBefore
  <2>2. Time(f, 1) = 0
    BY <2>1, MaxIs DEF Time
  <2> QED
    BY <2>1, <2>2
<1>2. ASSUME NEW n \in 1..l, Good(n) PROVE Good(n + 1) /\ Next1(n)
  <2> DEFINE t == Time(f, n)
             v == f[n].value
             old == StampsBefore(f, n)
             new == StampsBefore(f, n + 1)
  <2>0. n \in Nat /\ (n + 1) - 1 = n /\ v \in Nat
    OBVIOUS
  <2>1. \A k : k \in 1..n <=> k \in 1..(n - 1) \/ k = n
    OBVIOUS
  <2>2. new = old \cup (IF f[n].mode = "c" THEN {v} ELSE {})
    BY <2>0, <2>1 DEF StampsBefore
  <2>3. old \in SUBSET Nat
    <3>1. \A k \in 1..(n - 1) : f[k].value \in Nat
      OBVIOUS
    <3> QED
      BY <3>1 DEF StampsBefore
  <2>4. t \in old /\ t \in Nat /\ \A s \in old : s <= t
    BY <1>2
  <2> DEFINE x == IF f[n].mode = "c" /\ v > t THEN v ELSE t
  <2>5. new \in SUBSET Int /\ x \in new /\ (\A y \in new : x >= y) /\ x \in Nat
    <3> HIDE DEF t, v, old, new
    <3> QED
      BY <2>0, <2>2, <2>3, <2>4
  <2>6. Max(new) = x
    <3> HIDE DEF x, new
    <3> QED
      BY <2>5, MaxIs
  <2> QED
    BY <2>5, <2>6 DEF Time
<1>3. 0 \in S
  BY <1>1
<1>4. ASSUME NEW n \in Nat, n \in S PROVE n + 1 \in S
  <2> SUFFICES ASSUME n + 2 \in 1..(l + 1) PROVE Good(n + 2)
    OBVIOUS
  <2>1. n + 1 \in 1..l /\ n + 1 \in 1..(l + 1) /\ (n + 1) + 1 = n + 2
    OBVIOUS
  <2>2. Good(n + 1)
    BY <1>4, <2>1
  <2> HIDE DEF Good
  <2> QED
    BY <1>2, <2>1, <2>2
<1> HIDE DEF S
<1>5. \A n \in Nat : n \in S
  BY <1>3, <1>4, Induction
<1>6. \A n \in 1..(l + 1) : Good(n)
  <2> SUFFICES ASSUME NEW n \in 1..(l + 1) PROVE Good(n)
    OBVIOUS
  <2>1. n - 1 \in Nat /\ (n - 1) + 1 = n
    OBVIOUS
  <2> HIDE DEF Good
  <2> QED
    BY <1>5, <2>1 DEF S
<1>7. \A n \in 1..l : Next1(n)
  <2> SUFFICES ASSUME NEW n \in 1..l PROVE Next1(n)
    OBVIOUS
  <2>1. n \in 1..(l + 1)
    OBVIOUS
  <2> HIDE DEF Good, Next1
  <2> QED
    BY <1>2, <1>6, <2>1
<1> QED
  BY <1>1, <1>6, <1>7

\* Time does not go backwards.
LEMMA TimeGrows ==
    ASSUME NEW f, NEW l \in Nat, \A n \in 1..l : f[n].value \in Nat,
           NEW n \in 1..(l + 1), NEW m \in 1..n
    PROVE  Time(f, m) <= Time(f, n)
<1>1. m \in 1..(l + 1)
  OBVIOUS
<1>2. Time(f, m) \in StampsBefore(f, m)
  BY <1>1, TimeSteps
<1>3. StampsBefore(f, m) \subseteq StampsBefore(f, n)
  BY DEF StampsBefore
<1>4. \A s \in StampsBefore(f, n) : s <= Time(f, n)
  BY TimeSteps
<1> QED
  BY <1>2, <1>3, <1>4

\* The lines seen so far depend on those lines alone.
LEMMA SeenSame ==
    ASSUME NEW f, NEW g, NEW last \in Nat, \A n \in 1..last : g[n] = f[n], NEW limits, NEW mode
    PROVE  /\ \A n \in 1..(last + 1) : Time(g, n) = Time(f, n)
           /\ Seen(g, limits, mode, last) = Seen(f, limits, mode, last)
<1>1. ASSUME NEW n \in 1..(last + 1) PROVE Time(g, n) = Time(f, n)
  <2>1. \A k \in 1..(n - 1) : k \in 1..last
    OBVIOUS
  <2>2. \A k \in 1..(n - 1) : g[k] = f[k]
    BY <2>1
  <2>3. StampsBefore(g, n) = StampsBefore(f, n)
    BY <2>2 DEF StampsBefore
  <2> QED
    BY <2>3 DEF Time
<1>2. \A n \in 1..last : Time(g, n) = Time(f, n)
  BY <1>1
<1> QED
  BY <1>1, <1>2 DEF Seen

\* One more line.
LEMMA SeenNext ==
    ASSUME NEW f, NEW last \in Nat, NEW limits, NEW mode
    PROVE  Seen(f, limits, mode, last + 1) =
              Seen(f, limits, mode, last)
              \cup (IF f[last + 1].mode = mode /\ limits[1] <= Time(f, last + 1)
                       /\ Time(f, last + 1) < limits[2]
                    THEN {last + 1} ELSE {})
<1>1. \A n : n \in 1..(last + 1) <=> n \in 1..last \/ n = last + 1
  OBVIOUS
<1> QED
  BY <1>1 DEF Seen

-----------------------------------------------------------------------------
(* The file and the lines a pass takes                                     *)

\* The file, and how far a pass has come.
FileInv ==
    /\ file \in Seq(Lines) /\ pos \in 0..Len(file)
    /\ \A n \in 1..Len(file) : file[n].mode \in {"+", "-"} => file[n].value < Len(allocationInfos)
    /\ phase = "empty" => file = <<>> /\ pass = "first" /\ reparsing = FALSE /\ suppressions = {}
    /\ phase = "reading" /\ FirstReading => pos = Len(file)
    /\ phase \in {"read", "summarized"} => pass = "first"
    /\ phase = "ready" => pass = "second"

\* The suppressions in use are the ones the filter leaves, or those of before.
SuppressionsInv ==
    /\ suppressions \subseteq Kinds /\ disabled \subseteq Kinds
    /\ phase # "empty" => suppressions = Kinds \ disabled \/ (reparsing /\ "builtin" \in disabled)

\* What the reader knows of the time.
ClockInv ==
    phase = "reading" =>
        /\ timeStamp = Time(file, pos + 1)
        /\ inFilteredTime <=> filter[1] <= timeStamp /\ timeStamp <= filter[2]
        /\ \A n \in 1..pos : Time(file, n) < filter[2]

\* The file grows while it is read for the first time, by the line that is read.
LineRead(line) ==
    /\ pos \in Nat /\ pos' = pos + 1 /\ pos' \in 0..Len(file')
    /\ file' \in Seq(Lines) /\ file'[pos + 1] = line
    /\ \A n \in 1..Len(file) : n \in 1..Len(file') /\ file'[n] = file[n]
    /\ \A n \in 1..pos : n \in 1..Len(file) /\ file'[n] = file[n]
    /\ \A n \in 1..Len(file') : n \in 1..Len(file) \/ (n = pos + 1 /\ FirstReading)
    /\ FirstReading => pos' = Len(file')
    /\ ~ FirstReading => file' = file
    /\ phase = "reading" /\ timeStamp < filter[2]

\* What getLine establishes about the line it returns.
LEMMA LineFacts ==
    ASSUME FileInv, NEW line \in Lines, GetLine(line)
    PROVE  LineRead(line)
<1>1. /\ file \in Seq(Lines) /\ Len(file) \in Nat /\ pos \in Nat /\ pos <= Len(file)
      /\ phase = "reading" /\ timeStamp < filter[2] /\ pos' = pos + 1
      /\ FirstReading => pos = Len(file)
      /\ \A n \in 1..pos : n \in 1..Len(file)
  BY LenProperties DEF FileInv, GetLine
<1>2. CASE pos < Len(file)
  <2>1. file' = file /\ line = file[pos + 1] /\ ~ FirstReading
    BY <1>1, <1>2 DEF GetLine
  <2> QED
    BY <1>1, <1>2, <2>1 DEF LineRead
<1>3. CASE ~ pos < Len(file)
  <2>1. file' = Append(file, line) /\ FirstReading /\ pos = Len(file)
    BY <1>1, <1>3 DEF GetLine
  <2>2. file' \in Seq(Lines) /\ Len(file') = Len(file) + 1 /\ file'[Len(file) + 1] = line
        /\ \A n \in 1..Len(file) : file'[n] = file[n]
    BY <1>1, <2>1, AppendProperties
  <2> QED
    BY <1>1, <2>1, <2>2 DEF LineRead
<1> QED
  BY <1>2, <1>3

\* The lines of the model are lines.
LEMMA LinesTyped ==
    /\ \A i \in Nat, mode \in {"+", "-", "c"} : Line(mode, i) \in Lines
    /\ \A size \in Sizes, trace \in Traces : InfoLine(size, trace) \in Lines
  BY DEF Line, InfoLine, Lines

\* The values of lines are numbers.
LEMMA ValuesTyped ==
    ASSUME NEW f \in Seq(Lines)
    PROVE  Len(f) \in Nat /\ \A n \in 1..Len(f) : f[n] \in Lines /\ f[n].value \in Nat
<1>1. Len(f) \in Nat /\ \A n \in 1..Len(f) : f[n] \in Lines
  BY LenProperties, ElementOfSeq
<1> QED
  BY <1>1 DEF Lines

\* How the time goes on with a line.
LEMMA TimeOfLine ==
    ASSUME FileInv, ClockInv, NEW line \in Lines, GetLine(line)
    PROVE  /\ \A n \in 1..(pos + 1) : Time(file', n) = Time(file, n)
           /\ timeStamp = Time(file', pos + 1)
           /\ Time(file', pos + 2) = IF line.mode = "c" /\ line.value > timeStamp
                                     THEN line.value ELSE timeStamp
           /\ \A n \in 1..(pos + 1) : Time(file', n) < filter[2]
<1>1. LineRead(line)
  BY LineFacts
<1>2. pos \in Nat /\ \A n \in 1..pos : file'[n] = file[n]
  BY <1>1 DEF LineRead
<1>3. \A n \in 1..(pos + 1) : Time(file', n) = Time(file, n)
  BY <1>2, SeenSame
<1>4. timeStamp = Time(file', pos + 1)
  BY <1>1, <1>2, <1>3 DEF LineRead, ClockInv
<1>5. \A n \in 1..Len(file') : file'[n].value \in Nat
  BY <1>1, ValuesTyped DEF LineRead
<1>6. Len(file') \in Nat /\ pos + 1 \in 1..Len(file') /\ (pos + 1) + 1 = pos + 2
  BY <1>1, LenProperties DEF LineRead
<1>7. Time(file', (pos + 1) + 1) = IF file'[pos + 1].mode = "c" /\ file'[pos + 1].value > Time(file', pos + 1)
                                   THEN file'[pos + 1].value ELSE Time(file', pos + 1)
  BY <1>5, <1>6, TimeSteps
<1>8. \A n \in 1..(pos + 1) : Time(file', n) < filter[2]
  <2> SUFFICES ASSUME NEW n \in 1..(pos + 1) PROVE Time(file', n) < filter[2]
    OBVIOUS
  <2>1. CASE n = pos + 1
    BY <1>1, <1>4, <2>1 DEF LineRead
  <2>2. CASE n # pos + 1
    <3>1. n \in 1..pos
      BY <1>2, <2>2
    <3> QED
      BY <1>1, <1>3, <3>1 DEF ClockInv, LineRead
  <2> QED
    BY <2>1, <2>2
<1> QED
  BY <1>1, <1>3, <1>4, <1>6, <1>7, <1>8 DEF LineRead

\* The lines taken into account up to here.
Taken(mode) == Seen(file, filter, mode, IF phase = "reading" THEN pos ELSE Len(file))

\* A line is taken if it is within the filter.
LEMMA TakenNext ==
    ASSUME FileInv, ClockInv, ControlOK, NEW line \in Lines, GetLine(line), UNCHANGED control, NEW mode
    PROVE  Taken(mode)' = Taken(mode) \cup (IF line.mode = mode /\ inFilteredTime THEN {pos + 1} ELSE {})
<1>1. LineRead(line)
  BY LineFacts
<1>2. /\ pos \in Nat /\ pos' = pos + 1 /\ file'[pos + 1] = line /\ phase = "reading" /\ phase' = "reading"
      /\ filter' = filter /\ timeStamp < filter[2] /\ \A n \in 1..pos : file'[n] = file[n]
  BY <1>1 DEF LineRead
<1>3. Taken(mode)' = Seen(file', filter, mode, pos + 1) /\ Taken(mode) = Seen(file, filter, mode, pos)
  BY <1>2 DEF Taken
<1>4. Seen(file', filter, mode, pos) = Seen(file, filter, mode, pos)
  BY <1>2, SeenSame
<1>5. Seen(file', filter, mode, pos + 1) =
        Seen(file', filter, mode, pos)
        \cup (IF file'[pos + 1].mode = mode /\ filter[1] <= Time(file', pos + 1) /\ Time(file', pos + 1) < filter[2]
              THEN {pos + 1} ELSE {})
  BY <1>2, SeenNext
<1>6. timeStamp = Time(file', pos + 1)
  BY TimeOfLine
<1>7. (inFilteredTime <=> filter[1] <= timeStamp /\ timeStamp <= filter[2])
      /\ filter[2] \in Nat /\ timeStamp \in Nat
  BY <1>2 DEF ClockInv, ControlOK
<1>8. inFilteredTime <=> filter[1] <= Time(file', pos + 1) /\ Time(file', pos + 1) < filter[2]
  BY <1>2, <1>6, <1>7
<1> QED
  BY <1>2, <1>3, <1>4, <1>5, <1>8

\* A pass starts at the beginning of the file.
LEMMA PassStarts ==
    ASSUME FileInv, SuppressionsInv, NEW p \in {"first", "second"}, NEW again \in BOOLEAN,
           NEW limits \in Nat \X Nat, NEW off \in SUBSET Kinds,
           StartPass(p, again, limits, off),
           again = FALSE /\ p = "first" => file = <<>> /\ suppressions = {},
           p = "second" => again = reparsing /\ off = disabled /\ phase # "empty"
    PROVE  FileInv' /\ SuppressionsInv' /\ ClockInv'
<1>1. /\ phase' = "reading" /\ pass' = p /\ reparsing' = again /\ filter' = limits /\ disabled' = off
      /\ pos' = 0 /\ timeStamp' = 0 /\ (inFilteredTime' <=> limits[1] = 0)
      /\ file' = file /\ allocationInfos' = allocationInfos
  BY DEF StartPass
<1>2. Len(file) \in Nat /\ Len(<<>>) = 0
  BY LenProperties, EmptySeq DEF FileInv
<1>3. FileInv'
  BY <1>1, <1>2 DEF FileInv, FirstReading
<1>4. SuppressionsInv'
  <2>1. CASE p = "second"
    BY <2>1 DEF StartPass, SuppressionsInv
  <2>2. CASE p = "first"
    <3>1. suppressions' = (IF "builtin" \in off THEN suppressions ELSE {"builtin"}) \cup ({"embedded"} \ off)
      BY <2>2 DEF StartPass, NewSuppressions
    <3> QED
      BY <1>1, <2>2, <3>1 DEF SuppressionsInv, Kinds
  <2> QED
    BY <2>1, <2>2
<1>5. ClockInv'
  <2>2. \A n \in 1..0 : FALSE
    OBVIOUS
  <2>3. 0 \in Nat /\ \A n \in 1..0 : file[n].value \in Nat
    BY <2>2
  <2>1. Time(file, 1) = 0
    BY <2>3, TimeSteps
  <2> QED
    BY <1>1, <2>1, <2>2 DEF ClockInv
<1> QED
  BY <1>3, <1>4, <1>5

\* A line is read.
LEMMA LineKeepsFile ==
    ASSUME FileInv, SuppressionsInv, ClockInv, ControlOK, NEW line \in Lines, GetLine(line),
           UNCHANGED control,
           Len(allocationInfos) \in Nat, Len(allocationInfos') \in Nat,
           Len(allocationInfos) <= Len(allocationInfos'),
           line.mode \in {"+", "-"} => line.value < Len(allocationInfos'),
           line.mode # "c" => UNCHANGED <<timeStamp, inFilteredTime>>,
           line.mode = "c" =>
              IF line.value < timeStamp
              THEN UNCHANGED <<timeStamp, inFilteredTime>>
              ELSE /\ timeStamp' = line.value
                   /\ inFilteredTime' = (line.value >= filter[1] /\ line.value <= filter[2])
    PROVE  FileInv' /\ SuppressionsInv' /\ ClockInv'
<1>1. LineRead(line)
  BY LineFacts
<1>2. phase = "reading" /\ UNCHANGED control
  BY <1>1 DEF LineRead
<1>3. FileInv'
  <2>1. \A n \in 1..Len(file') : file'[n].mode \in {"+", "-"} => file'[n].value < Len(allocationInfos')
    <3> SUFFICES ASSUME NEW n \in 1..Len(file'), file'[n].mode \in {"+", "-"}
                 PROVE  file'[n].value < Len(allocationInfos')
      OBVIOUS
    <3>1. CASE n \in 1..Len(file)
      <4>1. file'[n] = file[n] /\ file[n].value < Len(allocationInfos)
        BY <1>1, <3>1 DEF LineRead, FileInv
      <4>2. file[n].value \in Nat
        BY <3>1, ValuesTyped DEF FileInv
      <4> QED
        BY <4>1, <4>2
    <3>2. CASE n = pos + 1
      BY <1>1, <3>2 DEF LineRead
    <3> QED
      BY <1>1, <3>1, <3>2 DEF LineRead
  <2>2. FirstReading' <=> FirstReading
    BY <1>2 DEF FirstReading
  <2> QED
    BY <1>1, <1>2, <2>1, <2>2 DEF LineRead, FileInv
<1>4. SuppressionsInv'
  BY <1>2 DEF SuppressionsInv
<1>5. ClockInv'
  <2>1. /\ timeStamp = Time(file', pos + 1)
        /\ Time(file', pos + 2) = IF line.mode = "c" /\ line.value > timeStamp
                                  THEN line.value ELSE timeStamp
        /\ \A n \in 1..(pos + 1) : Time(file', n) < filter[2]
    BY TimeOfLine
  <2>2. timeStamp \in Nat /\ line.value \in Nat /\ filter[1] \in Nat /\ filter[2] \in Nat
    BY DEF ControlOK, Lines
  <2>3. pos' = pos + 1 /\ pos' + 1 = pos + 2
    BY <1>1 DEF LineRead
  <2>4. timeStamp' = Time(file', pos + 2)
    <3>1. CASE line.mode # "c"
      BY <3>1, <2>1
    <3>2. CASE line.mode = "c" /\ line.value < timeStamp
      BY <3>2, <2>1, <2>2
    <3>3. CASE line.mode = "c" /\ ~ line.value < timeStamp
      BY <3>3, <2>1, <2>2
    <3> QED
      BY <3>1, <3>2, <3>3
  <2>5. inFilteredTime' <=> filter[1] <= timeStamp' /\ timeStamp' <= filter[2]
    <3>1. CASE line.mode # "c" \/ line.value < timeStamp
      <4>1. UNCHANGED <<timeStamp, inFilteredTime>>
        BY <3>1
      <4> QED
        BY <4>1, <1>2 DEF ClockInv
    <3>3. CASE line.mode = "c" /\ ~ line.value < timeStamp
      BY <3>3, <2>2
    <3> QED
      BY <3>1, <3>3
  <2> QED
    BY <1>2, <2>1, <2>3, <2>4, <2>5 DEF ClockInv
<1> QED
  BY <1>3, <1>4, <1>5

\* The events of a line refer to infos.
LEMMA InfosLength ==
    ASSUME InfosOK PROVE Len(allocationInfos) \in Nat
  BY LenProperties DEF InfosOK

\* The file, the suppressions and the clock after every step.
LEMMA FileStep ==
    ASSUME IInv, FileInv, SuppressionsInv, ClockInv, [Next]_vars
    PROVE  FileInv' /\ SuppressionsInv' /\ ClockInv'
<1>0. /\ ControlOK /\ InfosOK /\ Len(allocationInfos) \in Nat /\ filter \in Nat \X Nat
      /\ timeStamp \in Nat /\ totalTime \in Nat /\ reparsing \in BOOLEAN /\ disabled \subseteq Kinds
  BY InfosLength DEF IInv, TypeOK, ControlOK, SuppressionsInv
<1>1. CASE Parse
  <2>1. StartPass("first", FALSE, filter, disabled) /\ file = <<>> /\ suppressions = {}
    BY <1>1 DEF Parse, FileInv
  <2> QED
    BY <1>0, <2>1, PassStarts
<1>2. CASE ReadInfo
  <2>1. PICK size \in Sizes, trace \in Traces :
            /\ GetLine(InfoLine(size, trace))
            /\ UNCHANGED <<control, timeStamp, inFilteredTime>>
            /\ IF FirstReading
               THEN allocationInfos' = Append(allocationInfos,
                        [size |-> size, allocation |-> MapToAllocationIndex(trace)])
               ELSE allocationInfos' = allocationInfos
    BY <1>2 DEF ReadInfo
  <2>2. InfoLine(size, trace) \in Lines /\ InfoLine(size, trace).mode = "a"
    BY LinesTyped DEF InfoLine
  <2>3. Len(allocationInfos') \in Nat /\ Len(allocationInfos) <= Len(allocationInfos')
    BY <1>0, <2>1 DEF InfosOK
  <2> QED
    BY <1>0, <2>1, <2>2, <2>3, LineKeepsFile
<1>3. CASE ReadAllocation \/ ReadDeallocation \/ SkipEvent
  <2>1. PICK i \in 0..(Len(allocationInfos) - 1), mode \in {"+", "-"} :
            /\ GetLine(Line(mode, i))
            /\ UNCHANGED <<control, timeStamp, inFilteredTime, allocationInfos>>
    BY <1>3 DEF ReadAllocation, ReadDeallocation, SkipEvent
  <2>2. i \in Nat /\ i < Len(allocationInfos)
    BY <1>0
  <2>3. Line(mode, i) \in Lines /\ Line(mode, i).mode = mode /\ Line(mode, i).value = i
    BY <2>2, LinesTyped DEF Line
  <2> QED
    BY <1>0, <2>1, <2>2, <2>3, LineKeepsFile
<1>4. CASE ReadTimeStamp
  <2>1. PICK stamp \in 1..MaxStamp :
            /\ GetLine(Line("c", stamp))
            /\ IF stamp < timeStamp
               THEN UNCHANGED <<timeStamp, inFilteredTime>>
               ELSE /\ timeStamp' = stamp
                    /\ inFilteredTime' = (stamp >= filter[1] /\ stamp <= filter[2])
            /\ UNCHANGED <<control, allocationInfos>>
    BY <1>4 DEF ReadTimeStamp
  <2>2. stamp \in Nat
    OBVIOUS
  <2>3. Line("c", stamp) \in Lines /\ Line("c", stamp).mode = "c" /\ Line("c", stamp).value = stamp
    BY <2>2, LinesTyped DEF Line
  <2> QED
    BY <1>0, <2>1, <2>3, LineKeepsFile
<1>5. CASE EndFirstPass
  <2>1. FileInv'
    BY <1>5 DEF EndFirstPass, AtEnd, FileInv, FirstReading
  <2>2. SuppressionsInv'
    BY <1>5 DEF EndFirstPass, AtEnd, SuppressionsInv
  <2>3. ClockInv'
    BY <1>5 DEF EndFirstPass, ClockInv
  <2> QED
    BY <2>1, <2>2, <2>3
<1>6. CASE ApplyLeakSuppressions
  BY <1>6 DEF ApplyLeakSuppressions, FileInv, SuppressionsInv, ClockInv, FirstReading
<1>7. CASE StartSecondPass
  <2>1. StartPass("second", reparsing, filter, disabled) /\ phase # "empty"
    BY <1>7 DEF StartSecondPass
  <2> QED
    BY <1>0, <2>1, PassStarts
<1>8. CASE EndSecondPass
  BY <1>8 DEF EndSecondPass, AtEnd, FileInv, SuppressionsInv, ClockInv, FirstReading
<1>9. CASE Reparse
  <2>1. PICK choice \in Reparsings :
            StartPass("first", TRUE, <<choice[1][1], IF choice[1][2] < totalTime THEN choice[1][2]
                                                     ELSE totalTime>>, choice[2])
    BY <1>9 DEF Reparse
  <2>2. choice[1] \in Nat \X Nat /\ choice[2] \in SUBSET Kinds
    BY TraceDataAssumption DEF Filters
  <2>3. <<choice[1][1], IF choice[1][2] < totalTime THEN choice[1][2] ELSE totalTime>> \in Nat \X Nat
    BY <1>0, <2>2
  <2> QED
    BY <2>1, <2>2, <2>3, PassStarts
<1>10. CASE UNCHANGED vars
  BY <1>10 DEF vars, FileInv, SuppressionsInv, ClockInv, FirstReading
<1> QED
  BY <1>1, <1>2, <1>3, <1>4, <1>5, <1>6, <1>7, <1>8, <1>9, <1>10 DEF Next

-----------------------------------------------------------------------------
(* What one line adds to the costs                                         *)

\* The lines that are about an allocation.
Part(lines, of, a) == {n \in lines : of[n] = a}

Temporaries(allocs) == [a \in DOMAIN allocs |-> allocs[a].cost.temporary]

\* The costs of allocations and totals that follow from the lines + and - that
\* a pass took into account, of given sizes and about given allocations.
CostsAre(allocs, total, size, of, plus, minus) ==
    /\ \A a \in 1..Len(allocs) :
        /\ allocs[a].cost.leaked = SumOver(size, Part(plus, of, a)) - SumOver(size, Part(minus, of, a))
        /\ allocs[a].cost.allocations = Cardinality(Part(plus, of, a))
    /\ total.allocations = Cardinality(plus)
    /\ total.leaked = SumOver(size, plus) - SumOver(size, minus)
    /\ total.temporary = SumOver(Temporaries(allocs), 1..Len(allocs))
    /\ total.leaked = SumOver(Leaks(allocs), 1..Len(allocs))

\* What lines have in common whose sizes and allocations did not change.
Agree(L, f, g, o, p) == \A n \in L : f[n] \in Int /\ g[n] = f[n] /\ p[n] = o[n]

SumGrown(L, x, f, g) ==
    /\ SumOver(f, L) \in Int /\ SumOver(g, L \cup {x}) = SumOver(f, L) + g[x]
    /\ Cardinality(L) \in Nat /\ Cardinality(L \cup {x}) = Cardinality(L) + 1

PartGrown(L, x, f, g, o, p, a) ==
    /\ SumOver(f, Part(L, o, a)) \in Int /\ Cardinality(Part(L, o, a)) \in Nat
    /\ p[x] = a => /\ SumOver(g, Part(L \cup {x}, p, a)) = SumOver(f, Part(L, o, a)) + g[x]
                   /\ Cardinality(Part(L \cup {x}, p, a)) = Cardinality(Part(L, o, a)) + 1
    /\ p[x] # a => /\ SumOver(g, Part(L \cup {x}, p, a)) = SumOver(f, Part(L, o, a))
                   /\ Cardinality(Part(L \cup {x}, p, a)) = Cardinality(Part(L, o, a))

PartKept(L, f, g, o, p) ==
    /\ SumOver(f, L) \in Int /\ SumOver(g, L) = SumOver(f, L) /\ Cardinality(L) \in Nat
    /\ \A a : /\ Part(L, p, a) = Part(L, o, a)
              /\ SumOver(g, Part(L, p, a)) = SumOver(f, Part(L, o, a))
              /\ SumOver(f, Part(L, o, a)) \in Int

\* An allocation is charged, and what that does to sums.
Charged(allocs, b, bytes, count, temp) ==
    [allocs EXCEPT ![b] = Charge(allocs[b], bytes, count, temp)]

ChargedSums(allocs, b, bytes, count, temp, more) ==
    /\ Len(more) = Len(allocs)
    /\ \A a \in 1..Len(allocs) : allocs[a] \in Allocation /\ (a # b => more[a] = allocs[a])
    /\ more[b].cost.allocations = allocs[b].cost.allocations + count
    /\ more[b].cost.temporary = allocs[b].cost.temporary + temp
    /\ more[b].cost.leaked = allocs[b].cost.leaked + bytes
    /\ SumOver(Leaks(allocs), 1..Len(allocs)) \in Int
    /\ SumOver(Leaks(more), 1..Len(more)) = SumOver(Leaks(allocs), 1..Len(allocs)) + bytes
    /\ SumOver(Temporaries(allocs), 1..Len(allocs)) \in Int
    /\ SumOver(Temporaries(more), 1..Len(more)) = SumOver(Temporaries(allocs), 1..Len(allocs)) + temp

\* One more line.
LEMMA SumGrows ==
    ASSUME NEW L, IsFiniteSet(L), NEW x, x \notin L, NEW f, NEW g,
           \A n \in L : f[n] \in Int /\ g[n] = f[n], g[x] \in Int
    PROVE  SumGrown(L, x, f, g)
<1> DEFINE D == L \cup {x}
<1>1. IsFiniteSet(D) /\ Cardinality(L) \in Nat /\ Cardinality(D) = Cardinality(L) + 1
  BY FS_AddElement, FS_CardinalityType
<1>2. x \in D /\ D \ {x} = L /\ \A n \in D : g[n] \in Int
  OBVIOUS
<1> HIDE DEF D
<1>3. SumOver(g, D) = g[x] + SumOver(g, D \ {x})
  BY <1>1, <1>2, SumAdded DEF SumOver
<1>4. SumOver(g, L) = SumOver(f, L)
  BY SumSame DEF SumOver
<1>5. SumOver(f, L) \in Int
  BY SumTyped DEF SumOver
<1>7. SumOver(g, D \ {x}) = SumOver(g, L)
  BY <1>2, Zenon
<1>6. SumOver(g, D) = SumOver(f, L) + g[x]
  BY <1>3, <1>4, <1>5, <1>7
<1> QED
  BY <1>1, <1>5, <1>6 DEF D, SumGrown

\* One more line, about one of the allocations.
LEMMA PartGrows ==
    ASSUME NEW L, IsFiniteSet(L), NEW x, x \notin L, NEW f, NEW g, NEW o, NEW p,
           Agree(L, f, g, o, p), g[x] \in Int, NEW a
    PROVE  PartGrown(L, x, f, g, o, p, a)
<1> DEFINE C == Part(L, o, a)
<1>1. C \subseteq L
  BY DEF Part
<1>2. IsFiniteSet(C)
  BY <1>1, FS_Subset
<1>3. x \notin C /\ \A n \in C : f[n] \in Int /\ g[n] = f[n]
  BY <1>1 DEF Agree
<1>4. Part(L \cup {x}, p, a) = C \cup (IF p[x] = a THEN {x} ELSE {})
  BY DEF Part, Agree
<1> HIDE DEF C
<1>8. SumGrown(C, x, f, g)
  BY <1>2, <1>3, SumGrows
<1>5. SumOver(f, C) \in Int /\ Cardinality(C) \in Nat
  BY <1>8 DEF SumGrown
<1>6. CASE p[x] = a
  <2>1. SumOver(g, C \cup {x}) = SumOver(f, C) + g[x] /\ Cardinality(C \cup {x}) = Cardinality(C) + 1
    BY <1>8 DEF SumGrown
  <2> DEFINE E == Part(L \cup {x}, p, a)
  <2>2. E = C \cup {x}
    BY <1>4, <1>6
  <2> HIDE DEF E
  <2>3. /\ SumOver(f, C) \in Int /\ Cardinality(C) \in Nat
        /\ SumOver(g, E) = SumOver(f, C) + g[x] /\ Cardinality(E) = Cardinality(C) + 1
    BY <1>5, <2>1, <2>2
  <2> QED
    BY <1>6, <2>3 DEF C, E, PartGrown
<1>7. CASE p[x] # a
  <2>1. SumOver(g, C) = SumOver(f, C)
    BY <1>2, <1>3, SumSame DEF SumOver
  <2> DEFINE E == Part(L \cup {x}, p, a)
  <2>2. E = C
    BY <1>4, <1>7
  <2> HIDE DEF E
  <2>3. /\ SumOver(f, C) \in Int /\ Cardinality(C) \in Nat
        /\ SumOver(g, E) = SumOver(f, C) /\ Cardinality(E) = Cardinality(C)
    BY <1>5, <2>1, <2>2
  <2> QED
    BY <1>7, <2>3 DEF C, E, PartGrown
<1> QED
  BY <1>6, <1>7

\* No more lines.
LEMMA PartSame ==
    ASSUME NEW L, IsFiniteSet(L), NEW f, NEW g, NEW o, NEW p, Agree(L, f, g, o, p)
    PROVE  PartKept(L, f, g, o, p)
<1>1. SumOver(f, L) \in Int /\ SumOver(g, L) = SumOver(f, L) /\ Cardinality(L) \in Nat
  BY SumTyped, SumSame, FS_CardinalityType DEF SumOver, Agree
<1>2. ASSUME NEW a
      PROVE  /\ Part(L, p, a) = Part(L, o, a)
             /\ SumOver(g, Part(L, p, a)) = SumOver(f, Part(L, o, a))
             /\ SumOver(f, Part(L, o, a)) \in Int
  <2> DEFINE C == Part(L, o, a)
  <2>1. C \subseteq L /\ Part(L, p, a) = C
    BY DEF Part, Agree
  <2>2. IsFiniteSet(C)
    BY <2>1, FS_Subset
  <2>3. \A n \in C : f[n] \in Int /\ g[n] = f[n]
    BY <2>1 DEF Agree
  <2> HIDE DEF C
  <2>4. SumOver(f, C) \in Int /\ SumOver(g, C) = SumOver(f, C)
    BY <2>2, <2>3, SumTyped, SumSame DEF SumOver
  <2> QED
    BY <2>1, <2>4 DEF C
<1> QED
  BY <1>1, <1>2 DEF PartKept

\* The sums over the allocations change with the one that is charged.
LEMMA ChargeSums ==
    ASSUME NEW allocs \in Seq(Allocation), NEW b \in 1..Len(allocs),
           NEW bytes \in Int, NEW count \in Int, NEW temp \in Int, NEW more \in Seq(Allocation),
           more = Charged(allocs, b, bytes, count, temp)
    PROVE  ChargedSums(allocs, b, bytes, count, temp, more)
<1> DEFINE D == 1..Len(allocs)
<1>1. /\ DOMAIN allocs = D /\ (\A a \in D : allocs[a] \in Allocation) /\ Len(allocs) \in Nat
      /\ DOMAIN more = 1..Len(more) /\ Len(more) \in Nat
  BY LenProperties, ElementOfSeq
<1>2. DOMAIN more = D /\ Len(more) = Len(allocs)
  BY <1>1 DEF Charged
<1>3. \A a \in D : a # b => more[a] = allocs[a]
  BY <1>1 DEF Charged
<1>4. more[b] = Charge(allocs[b], bytes, count, temp)
  BY <1>1 DEF Charged
<1>5. more[b].cost = [allocations |-> allocs[b].cost.allocations + count,
                      temporary   |-> allocs[b].cost.temporary + temp,
                      leaked      |-> allocs[b].cost.leaked + bytes]
  BY <1>4 DEF Charge
<1>6. IsFiniteSet(D)
  BY <1>1, FS_Interval
<1>17. /\ more[b].cost.leaked = allocs[b].cost.leaked + bytes
       /\ more[b].cost.temporary = allocs[b].cost.temporary + temp
  BY <1>5
<1>7. \A a \in D : /\ allocs[a].cost.leaked \in Int /\ allocs[a].cost.temporary \in Int
                   /\ Leaks(allocs)[a] = allocs[a].cost.leaked
                   /\ Temporaries(allocs)[a] = allocs[a].cost.temporary
                   /\ Leaks(more)[a] = more[a].cost.leaked
                   /\ Temporaries(more)[a] = more[a].cost.temporary
  BY <1>1, <1>2 DEF Leaks, Temporaries, Allocation
<1>13. Leaks(more)[b] = Leaks(allocs)[b] + bytes /\ Leaks(allocs)[b] \in Int /\ Leaks(more)[b] \in Int
  <2>1. Leaks(more)[b] = Leaks(allocs)[b] + bytes /\ Leaks(allocs)[b] \in Int
    BY <1>17, <1>7
  <2> QED
    BY <2>1
<1>14. /\ Temporaries(more)[b] = Temporaries(allocs)[b] + temp /\ Temporaries(allocs)[b] \in Int
       /\ Temporaries(more)[b] \in Int
  <2>1. Temporaries(more)[b] = Temporaries(allocs)[b] + temp /\ Temporaries(allocs)[b] \in Int
    BY <1>17, <1>7
  <2> QED
    BY <2>1
<1>8. \A a \in D : /\ Leaks(allocs)[a] \in Int /\ Leaks(more)[a] \in Int
                   /\ (a # b => Leaks(more)[a] = Leaks(allocs)[a])
  <2> SUFFICES ASSUME NEW a \in D
               PROVE  /\ Leaks(allocs)[a] \in Int /\ Leaks(more)[a] \in Int
                      /\ (a # b => Leaks(more)[a] = Leaks(allocs)[a])
    OBVIOUS
  <2>1. CASE a = b
    BY <1>13, <2>1
  <2>2. CASE a # b
    <3>1. more[a].cost.leaked = allocs[a].cost.leaked
      BY <1>3, <2>2
    <3> QED
      BY <1>7, <3>1
  <2> QED
    BY <2>1, <2>2
<1>9. \A a \in D : /\ Temporaries(allocs)[a] \in Int /\ Temporaries(more)[a] \in Int
                   /\ (a # b => Temporaries(more)[a] = Temporaries(allocs)[a])
  <2> SUFFICES ASSUME NEW a \in D
               PROVE  /\ Temporaries(allocs)[a] \in Int /\ Temporaries(more)[a] \in Int
                      /\ (a # b => Temporaries(more)[a] = Temporaries(allocs)[a])
    OBVIOUS
  <2>1. CASE a = b
    BY <1>14, <2>1
  <2>2. CASE a # b
    <3>1. more[a].cost.temporary = allocs[a].cost.temporary
      BY <1>3, <2>2
    <3> QED
      BY <1>7, <3>1
  <2> QED
    BY <2>1, <2>2
<1>10. b \in D
  OBVIOUS
<1> HIDE DEF D
<1>15. SumOver(Leaks(allocs), D) \in Int /\ SumOver(Leaks(more), D) = SumOver(Leaks(allocs), D) + bytes
  <2>1. Moved(Leaks(allocs), Leaks(more), D, b, bytes)
    BY <1>8, <1>13 DEF Moved
  <2> QED
    BY <1>6, <1>10, <2>1, SumMoves
<1>16. /\ SumOver(Temporaries(allocs), D) \in Int
       /\ SumOver(Temporaries(more), D) = SumOver(Temporaries(allocs), D) + temp
  <2>1. Moved(Temporaries(allocs), Temporaries(more), D, b, temp)
    BY <1>9, <1>14 DEF Moved
  <2> QED
    BY <1>6, <1>10, <2>1, SumMoves
<1> QED
  BY <1>1, <1>2, <1>3, <1>5, <1>15, <1>16 DEF D, ChargedSums

\* What costs are does not change with the numbering beyond the lines counted.
LEMMA CostsStay ==
    ASSUME NEW allocs, NEW total, NEW size, NEW of, NEW plus, NEW minus, NEW sizes, NEW ofs,
           IsFiniteSet(plus), IsFiniteSet(minus),
           Agree(plus, size, sizes, of, ofs), Agree(minus, size, sizes, of, ofs),
           CostsAre(allocs, total, size, of, plus, minus)
    PROVE  CostsAre(allocs, total, sizes, ofs, plus, minus)
<1>1. PartKept(plus, size, sizes, of, ofs) /\ PartKept(minus, size, sizes, of, ofs)
  BY PartSame
<1> QED
  BY <1>1 DEF CostsAre, PartKept

\* An allocation.
LEMMA CostsPlus ==
    ASSUME NEW allocs \in Seq(Allocation), NEW total, NEW size, NEW of, NEW plus, NEW minus, NEW sizes, NEW ofs,
           IsFiniteSet(plus), IsFiniteSet(minus),
           Agree(plus, size, sizes, of, ofs), Agree(minus, size, sizes, of, ofs),
           CostsAre(allocs, total, size, of, plus, minus),
           NEW x, x \notin plus, sizes[x] \in Int, NEW b \in 1..Len(allocs), ofs[x] = b,
           NEW more \in Seq(Allocation), more = Charged(allocs, b, sizes[x], 1, 0),
           NEW totals, totals.allocations = total.allocations + 1,
           totals.leaked = total.leaked + sizes[x], totals.temporary = total.temporary
    PROVE  CostsAre(more, totals, sizes, ofs, plus \cup {x}, minus)
<1> DEFINE plus2 == plus \cup {x}
<1>1. SumGrown(plus, x, size, sizes)
  <2>1. \A n \in plus : size[n] \in Int /\ sizes[n] = size[n]
    BY DEF Agree
  <2> QED
    BY <2>1, SumGrows
<1>2. PartKept(minus, size, sizes, of, ofs)
  BY PartSame
<1>3. ChargedSums(allocs, b, sizes[x], 1, 0, more)
  BY ChargeSums
<1>4. /\ SumOver(size, plus) \in Int /\ SumOver(sizes, plus2) = SumOver(size, plus) + sizes[x]
      /\ Cardinality(plus) \in Nat /\ Cardinality(plus2) = Cardinality(plus) + 1
  BY <1>1 DEF SumGrown
<1>5. /\ SumOver(size, minus) \in Int /\ SumOver(sizes, minus) = SumOver(size, minus)
      /\ \A a : /\ SumOver(sizes, Part(minus, ofs, a)) = SumOver(size, Part(minus, of, a))
                /\ SumOver(size, Part(minus, of, a)) \in Int
  BY <1>2 DEF PartKept
<1>6. /\ Len(more) = Len(allocs)
      /\ \A a \in 1..Len(allocs) : allocs[a] \in Allocation /\ (a # b => more[a] = allocs[a])
      /\ more[b].cost.allocations = allocs[b].cost.allocations + 1
      /\ more[b].cost.leaked = allocs[b].cost.leaked + sizes[x]
      /\ SumOver(Leaks(allocs), 1..Len(allocs)) \in Int
      /\ SumOver(Leaks(more), 1..Len(more)) = SumOver(Leaks(allocs), 1..Len(allocs)) + sizes[x]
      /\ SumOver(Temporaries(allocs), 1..Len(allocs)) \in Int
      /\ SumOver(Temporaries(more), 1..Len(more)) = SumOver(Temporaries(allocs), 1..Len(allocs)) + 0
  BY <1>3 DEF ChargedSums
<1>7. ASSUME NEW a \in 1..Len(more)
      PROVE  /\ more[a].cost.leaked = SumOver(sizes, Part(plus2, ofs, a)) - SumOver(sizes, Part(minus, ofs, a))
             /\ more[a].cost.allocations = Cardinality(Part(plus2, ofs, a))
  <2> DEFINE p == SumOver(size, Part(plus, of, a))
             q == SumOver(size, Part(minus, of, a))
             c == Cardinality(Part(plus, of, a))
             p2 == SumOver(sizes, Part(plus2, ofs, a))
             q2 == SumOver(sizes, Part(minus, ofs, a))
             c2 == Cardinality(Part(plus2, ofs, a))
  <2>1. p \in Int /\ c \in Nat /\ (b = a => p2 = p + sizes[x] /\ c2 = c + 1) /\ (b # a => p2 = p /\ c2 = c)
    <3>1. PartGrown(plus, x, size, sizes, of, ofs, a)
      BY PartGrows
    <3> QED
      BY <3>1 DEF PartGrown
  <2>2. q \in Int /\ q2 = q
    BY <1>5
  <2>3. allocs[a].cost.leaked = p - q /\ allocs[a].cost.allocations = c
    BY <1>6 DEF CostsAre
  <2>4. CASE a = b
    <3>1. more[a].cost.leaked = allocs[a].cost.leaked + sizes[x]
          /\ more[a].cost.allocations = allocs[a].cost.allocations + 1
      BY <1>6, <2>4
    <3> HIDE DEF p, q, c, p2, q2, c2
    <3>2. more[a].cost.leaked = p2 - q2 /\ more[a].cost.allocations = c2
      BY <2>1, <2>2, <2>3, <2>4, <3>1
    <3> QED
      BY <3>2 DEF p2, q2, c2
  <2>5. CASE a # b
    <3>1. more[a].cost.leaked = allocs[a].cost.leaked /\ more[a].cost.allocations = allocs[a].cost.allocations
      BY <1>6, <2>5
    <3> HIDE DEF p, q, c, p2, q2, c2
    <3>2. more[a].cost.leaked = p2 - q2 /\ more[a].cost.allocations = c2
      BY <2>1, <2>2, <2>3, <2>5, <3>1
    <3> QED
      BY <3>2 DEF p2, q2, c2
  <2> QED
    BY <2>4, <2>5
<1>8. /\ total.allocations = Cardinality(plus)
      /\ total.leaked = SumOver(size, plus) - SumOver(size, minus)
      /\ total.temporary = SumOver(Temporaries(allocs), 1..Len(allocs))
      /\ total.leaked = SumOver(Leaks(allocs), 1..Len(allocs))
  BY DEF CostsAre
<1>9. totals.allocations = Cardinality(plus2)
  BY <1>4, <1>8
<1>10. totals.leaked = SumOver(sizes, plus2) - SumOver(sizes, minus)
  BY <1>4, <1>5, <1>8
<1>11. totals.temporary = SumOver(Temporaries(more), 1..Len(more))
  BY <1>6, <1>8
<1>12. totals.leaked = SumOver(Leaks(more), 1..Len(more))
  BY <1>6, <1>8
<1> HIDE DEF plus2
<1>13. CostsAre(more, totals, sizes, ofs, plus2, minus)
  BY <1>7, <1>9, <1>10, <1>11, <1>12 DEF CostsAre
<1> QED
  BY <1>13 DEF plus2

\* A deallocation.
LEMMA CostsMinus ==
    ASSUME NEW allocs \in Seq(Allocation), NEW total, NEW size, NEW of, NEW plus, NEW minus, NEW sizes, NEW ofs,
           IsFiniteSet(plus), IsFiniteSet(minus),
           Agree(plus, size, sizes, of, ofs), Agree(minus, size, sizes, of, ofs),
           CostsAre(allocs, total, size, of, plus, minus),
           NEW x, x \notin minus, sizes[x] \in Int, NEW b \in 1..Len(allocs), ofs[x] = b, NEW temp \in Int,
           NEW more \in Seq(Allocation), more = Charged(allocs, b, - sizes[x], 0, temp),
           NEW totals, totals.allocations = total.allocations,
           totals.leaked = total.leaked - sizes[x], totals.temporary = total.temporary + temp
    PROVE  CostsAre(more, totals, sizes, ofs, plus, minus \cup {x})
<1> DEFINE minus2 == minus \cup {x}
           z == - sizes[x]
<1>1. SumGrown(minus, x, size, sizes)
  <2>1. \A n \in minus : size[n] \in Int /\ sizes[n] = size[n]
    BY DEF Agree
  <2> QED
    BY <2>1, SumGrows
<1>2. PartKept(plus, size, sizes, of, ofs)
  BY PartSame
<1>4. SumOver(size, minus) \in Int /\ SumOver(sizes, minus2) = SumOver(size, minus) + sizes[x]
  BY <1>1 DEF SumGrown
<1>5. /\ SumOver(size, plus) \in Int /\ SumOver(sizes, plus) = SumOver(size, plus)
      /\ \A a : /\ Part(plus, ofs, a) = Part(plus, of, a)
                /\ SumOver(sizes, Part(plus, ofs, a)) = SumOver(size, Part(plus, of, a))
                /\ SumOver(size, Part(plus, of, a)) \in Int
  BY <1>2 DEF PartKept
<1>15. z \in Int /\ more = Charged(allocs, b, z, 0, temp)
  OBVIOUS
<1> HIDE DEF z
<1>3. ChargedSums(allocs, b, z, 0, temp, more)
  BY <1>15, ChargeSums
<1>6. /\ Len(more) = Len(allocs)
      /\ \A a \in 1..Len(allocs) : allocs[a] \in Allocation /\ (a # b => more[a] = allocs[a])
      /\ more[b].cost.allocations = allocs[b].cost.allocations + 0
      /\ more[b].cost.leaked = allocs[b].cost.leaked + z
      /\ SumOver(Leaks(allocs), 1..Len(allocs)) \in Int
      /\ SumOver(Leaks(more), 1..Len(more)) = SumOver(Leaks(allocs), 1..Len(allocs)) + z
      /\ SumOver(Temporaries(allocs), 1..Len(allocs)) \in Int
      /\ SumOver(Temporaries(more), 1..Len(more)) = SumOver(Temporaries(allocs), 1..Len(allocs)) + temp
  BY <1>3 DEF ChargedSums
<1>7. ASSUME NEW a \in 1..Len(more)
      PROVE  /\ more[a].cost.leaked = SumOver(sizes, Part(plus, ofs, a)) - SumOver(sizes, Part(minus2, ofs, a))
             /\ more[a].cost.allocations = Cardinality(Part(plus, ofs, a))
  <2> DEFINE p == SumOver(size, Part(plus, of, a))
             q == SumOver(size, Part(minus, of, a))
             c == Cardinality(Part(plus, of, a))
             p2 == SumOver(sizes, Part(plus, ofs, a))
             q2 == SumOver(sizes, Part(minus2, ofs, a))
             c2 == Cardinality(Part(plus, ofs, a))
  <2>1. q \in Int /\ (b = a => q2 = q + sizes[x]) /\ (b # a => q2 = q)
    <3>1. PartGrown(minus, x, size, sizes, of, ofs, a)
      BY PartGrows
    <3> QED
      BY <3>1 DEF PartGrown
  <2>6. c \in Nat
    <3>1. IsFiniteSet(Part(plus, of, a))
      BY FS_Subset DEF Part
    <3> QED
      BY <3>1, FS_CardinalityType
  <2>2. p \in Int /\ p2 = p /\ c2 = c
    BY <1>5
  <2>3. allocs[a].cost.leaked = p - q /\ allocs[a].cost.allocations = c
    BY <1>6 DEF CostsAre
  <2>4. CASE a = b
    <3>1. more[a].cost.leaked = allocs[a].cost.leaked - sizes[x]
          /\ more[a].cost.allocations = allocs[a].cost.allocations + 0
      <4>1. more[a].cost.leaked = allocs[a].cost.leaked + z /\ allocs[a].cost.leaked \in Int
            /\ more[a].cost.allocations = allocs[a].cost.allocations + 0
        BY <1>6, <2>4 DEF Allocation
      <4> QED
        BY <4>1 DEF z
    <3> HIDE DEF p, q, c, p2, q2, c2
    <3>2. more[a].cost.leaked = p2 - q2 /\ more[a].cost.allocations = c2
      BY <2>1, <2>2, <2>3, <2>4, <2>6, <3>1
    <3> QED
      BY <3>2 DEF p2, q2, c2
  <2>5. CASE a # b
    <3>1. more[a].cost.leaked = allocs[a].cost.leaked /\ more[a].cost.allocations = allocs[a].cost.allocations
      BY <1>6, <2>5
    <3> HIDE DEF p, q, c, p2, q2, c2
    <3>2. more[a].cost.leaked = p2 - q2 /\ more[a].cost.allocations = c2
      BY <2>1, <2>2, <2>3, <2>5, <2>6, <3>1
    <3> QED
      BY <3>2 DEF p2, q2, c2
  <2> QED
    BY <2>4, <2>5
<1>8. /\ total.allocations = Cardinality(plus)
      /\ total.leaked = SumOver(size, plus) - SumOver(size, minus)
      /\ total.temporary = SumOver(Temporaries(allocs), 1..Len(allocs))
      /\ total.leaked = SumOver(Leaks(allocs), 1..Len(allocs))
  BY DEF CostsAre
<1>9. totals.allocations = Cardinality(plus)
  BY <1>8
<1>10. totals.leaked = SumOver(sizes, plus) - SumOver(sizes, minus2)
  BY <1>4, <1>5, <1>8
<1>11. totals.temporary = SumOver(Temporaries(more), 1..Len(more))
  BY <1>6, <1>8
<1>12. totals.leaked = SumOver(Leaks(more), 1..Len(more))
  <2>1. total.leaked \in Int /\ SumOver(Leaks(more), 1..Len(more)) = total.leaked + z
    BY <1>6, <1>8
  <2> QED
    BY <2>1 DEF z
<1> HIDE DEF minus2
<1>13. CostsAre(more, totals, sizes, ofs, plus, minus2)
  BY <1>7, <1>9, <1>10, <1>11, <1>12 DEF CostsAre
<1> QED
  BY <1>13 DEF minus2

-----------------------------------------------------------------------------
(* The costs of a pass                                                     *)

\* No costs follow from no lines.
LEMMA CostsCleared ==
    ASSUME NEW allocs \in Seq(Allocation), NEW size, NEW of
    PROVE  CostsAre(ClearCosts(allocs), NoTotal, size, of, {}, {})
<1> DEFINE cleared == ClearCosts(allocs)
           D == 1..Len(allocs)
<1>1. /\ DOMAIN allocs = D /\ Len(allocs) \in Nat
      /\ cleared \in Seq(Allocation) /\ Len(cleared) = Len(allocs) /\ DOMAIN cleared = D
      /\ \A a \in D : cleared[a].cost = NoCost
  BY ClearCostsTyped, LenProperties DEF ClearCosts
<1>2. IsFiniteSet(D)
  BY <1>1, FS_Interval
<1>3. \A a \in D : Leaks(cleared)[a] = 0 /\ Temporaries(cleared)[a] = 0
  BY <1>1 DEF Leaks, Temporaries, NoCost
<1>4. SumOver(Leaks(cleared), D) = 0
  BY <1>2, <1>3, SumZero DEF SumOver
<1>5. SumOver(Temporaries(cleared), D) = 0
  BY <1>2, <1>3, SumZero DEF SumOver
<1>6. \A a : Part({}, of, a) = {}
  BY DEF Part
<1>7. SumOver(size, {}) = 0 /\ Cardinality({}) = 0
  BY SumNothing, FS_EmptySet DEF SumOver
<1>8. \A a \in D : cleared[a].cost.leaked = 0 /\ cleared[a].cost.allocations = 0
  BY <1>1 DEF NoCost
<1>9. NoTotal.allocations = 0 /\ NoTotal.leaked = 0 /\ NoTotal.temporary = 0
  BY DEF NoTotal
<1>11. \A a : SumOver(size, Part({}, of, a)) = 0 /\ Cardinality(Part({}, of, a)) = 0
  BY <1>6, <1>7, Zenon
<1> HIDE DEF cleared, D
<1>10. /\ \A a \in D :
             /\ cleared[a].cost.leaked = SumOver(size, Part({}, of, a)) - SumOver(size, Part({}, of, a))
             /\ cleared[a].cost.allocations = Cardinality(Part({}, of, a))
       /\ NoTotal.allocations = Cardinality({})
       /\ NoTotal.leaked = SumOver(size, {}) - SumOver(size, {})
       /\ NoTotal.temporary = SumOver(Temporaries(cleared), D)
       /\ NoTotal.leaked = SumOver(Leaks(cleared), D)
  BY <1>4, <1>5, <1>7, <1>8, <1>9, <1>11
<1> QED
  BY <1>1, <1>10 DEF CostsAre, cleared, D

\* A new allocation that no line is about yet.
LEMMA CostsAppended ==
    ASSUME NEW allocs \in Seq(Allocation), NEW total, NEW size, NEW of, NEW plus, NEW minus,
           CostsAre(allocs, total, size, of, plus, minus),
           \A n \in plus \cup minus : of[n] # Len(allocs) + 1,
           NEW r \in Allocation, r.cost = NoCost
    PROVE  CostsAre(Append(allocs, r), total, size, of, plus, minus)
<1> DEFINE more == Append(allocs, r)
           D == 1..Len(allocs)
           y == Len(allocs) + 1
           E == 1..Len(more)
<1>1. /\ DOMAIN allocs = D /\ Len(allocs) \in Nat /\ \A a \in D : allocs[a] \in Allocation
      /\ more \in Seq(Allocation) /\ Len(more) = y /\ DOMAIN more = E
      /\ more[y] = r /\ \A a \in D : more[a] = allocs[a]
  BY LenProperties, AppendProperties, ElementOfSeq
<1>2. E = D \cup {y} /\ y \notin D /\ y \in E /\ E \ {y} = D
  BY <1>1
<1>3. IsFiniteSet(D) /\ IsFiniteSet(E)
  BY <1>1, FS_Interval
<1>4. \A a \in D : /\ Leaks(allocs)[a] \in Int /\ Temporaries(allocs)[a] \in Int
                   /\ Leaks(more)[a] = Leaks(allocs)[a] /\ Temporaries(more)[a] = Temporaries(allocs)[a]
  BY <1>1, <1>2 DEF Leaks, Temporaries, Allocation
<1>5. Leaks(more)[y] = 0 /\ Temporaries(more)[y] = 0
  BY <1>1, <1>2 DEF Leaks, Temporaries, NoCost
<1>6. more[y].cost.leaked = 0 /\ more[y].cost.allocations = 0
  BY <1>1 DEF NoCost
<1>7. Part(plus, of, y) = {} /\ Part(minus, of, y) = {}
  BY DEF Part
<1>8. SumOver(size, {}) = 0 /\ Cardinality({}) = 0
  BY SumNothing, FS_EmptySet DEF SumOver
<1>13. /\ SumOver(size, Part(plus, of, y)) = 0 /\ SumOver(size, Part(minus, of, y)) = 0
       /\ Cardinality(Part(plus, of, y)) = 0
  BY <1>7, <1>8, Zenon
<1> HIDE DEF more, y, D, E
<1>9. SumOver(Leaks(more), E) = SumOver(Leaks(allocs), D)
  <2>1. \A a \in E : Leaks(more)[a] \in Int
    BY <1>2, <1>4, <1>5
  <2>2. SumOver(Leaks(more), E) = SumOver(Leaks(more), D)
    <3>1. D \in SUBSET E /\ \A a \in E : a \notin D => Leaks(more)[a] = 0
      BY <1>2, <1>5
    <3> QED
      BY <1>3, <2>1, <3>1, SumOfPart DEF SumOver
  <2>3. \A a \in D : Leaks(more)[a] = Leaks(allocs)[a]
    BY <1>4
  <2>4. SumOver(Leaks(more), D) = SumOver(Leaks(allocs), D)
    BY <1>3, <2>3, SumSame DEF SumOver
  <2> QED
    BY <2>2, <2>4
<1>10. SumOver(Temporaries(more), E) = SumOver(Temporaries(allocs), D)
  <2>1. \A a \in E : Temporaries(more)[a] \in Int
    BY <1>2, <1>4, <1>5
  <2>2. SumOver(Temporaries(more), E) = SumOver(Temporaries(more), D)
    <3>1. D \in SUBSET E /\ \A a \in E : a \notin D => Temporaries(more)[a] = 0
      BY <1>2, <1>5
    <3> QED
      BY <1>3, <2>1, <3>1, SumOfPart DEF SumOver
  <2>3. \A a \in D : Temporaries(more)[a] = Temporaries(allocs)[a]
    BY <1>4
  <2>4. SumOver(Temporaries(more), D) = SumOver(Temporaries(allocs), D)
    BY <1>3, <2>3, SumSame DEF SumOver
  <2> QED
    BY <2>2, <2>4
<1>11. /\ \A a \in D :
            /\ allocs[a].cost.leaked = SumOver(size, Part(plus, of, a)) - SumOver(size, Part(minus, of, a))
            /\ allocs[a].cost.allocations = Cardinality(Part(plus, of, a))
       /\ total.allocations = Cardinality(plus)
       /\ total.leaked = SumOver(size, plus) - SumOver(size, minus)
       /\ total.temporary = SumOver(Temporaries(allocs), D)
       /\ total.leaked = SumOver(Leaks(allocs), D)
  BY DEF CostsAre, D
<1>12. ASSUME NEW a \in E
       PROVE  /\ more[a].cost.leaked = SumOver(size, Part(plus, of, a)) - SumOver(size, Part(minus, of, a))
              /\ more[a].cost.allocations = Cardinality(Part(plus, of, a))
  <2>1. CASE a \in D
    BY <1>1, <1>11, <2>1
  <2>2. CASE a = y
    BY <1>6, <1>13, <2>2
  <2> QED
    BY <1>2, <2>1, <2>2
<1> QED
  BY <1>9, <1>10, <1>11, <1>12 DEF CostsAre, more, E

\* Sizes and allocations of the lines of the file.
LineSizes == [n \in 1..Len(file) |-> allocationInfos[file[n].value + 1].size]
LineAllocations == [n \in 1..Len(file) |-> allocationInfos[file[n].value + 1].allocation]

\* The costs after each line, and at the end of a pass.
ChargedInv ==
    phase \in {"reading", "read", "ready"} =>
        CostsAre(allocations, totalCost, LineSizes, LineAllocations, Taken("+"), Taken("-"))

\* The lines taken into account exist and refer to infos.
LEMMA TakenTyped ==
    ASSUME IInv, FileInv, NEW mode \in {"+", "-"}
    PROVE  /\ IsFiniteSet(Taken(mode))
           /\ \A n \in Taken(mode) :
                 /\ n \in 1..Len(file) /\ file[n].value \in 0..(Len(allocationInfos) - 1)
                 /\ phase = "reading" => n \in 1..pos
                 /\ LineSizes[n] = allocationInfos[file[n].value + 1].size /\ LineSizes[n] \in Nat
                 /\ LineAllocations[n] = allocationInfos[file[n].value + 1].allocation
                 /\ LineAllocations[n] \in 1..Len(allocations)
<1> DEFINE last == IF phase = "reading" THEN pos ELSE Len(file)
<1>1. file \in Seq(Lines) /\ Len(file) \in Nat /\ pos \in Nat /\ last \in Nat
      /\ \A n \in 1..last : n \in 1..Len(file)
  BY LenProperties DEF FileInv
<1>2. Taken(mode) \subseteq 1..last /\ \A n \in Taken(mode) : file[n].mode = mode
  BY DEF Taken, Seen
<1>3. IsFiniteSet(Taken(mode))
  <2>1. IsFiniteSet(1..last)
    BY <1>1, FS_Interval
  <2> QED
    BY <1>2, <2>1, FS_Subset
<1>4. ASSUME NEW n \in Taken(mode)
      PROVE  /\ n \in 1..Len(file) /\ file[n].value \in 0..(Len(allocationInfos) - 1)
             /\ phase = "reading" => n \in 1..pos
             /\ LineSizes[n] = allocationInfos[file[n].value + 1].size /\ LineSizes[n] \in Nat
             /\ LineAllocations[n] = allocationInfos[file[n].value + 1].allocation
             /\ LineAllocations[n] \in 1..Len(allocations)
  <2>1. n \in 1..Len(file) /\ (phase = "reading" => n \in 1..pos)
    BY <1>1, <1>2
  <2>2. file[n].value \in Nat /\ file[n].mode = mode
    BY <1>1, <1>2, <2>1, ValuesTyped
  <2>3. file[n].value < Len(allocationInfos)
    BY <2>1, <2>2 DEF FileInv
  <2>4. Len(allocationInfos) \in Nat
    BY InfosLength DEF IInv, TypeOK
  <2>5. file[n].value \in 0..(Len(allocationInfos) - 1)
    BY <2>2, <2>3, <2>4
  <2>6. allocationInfos[file[n].value + 1].size \in Nat
        /\ allocationInfos[file[n].value + 1].allocation \in 1..Len(allocations)
    BY <2>5, Elements
  <2> QED
    BY <2>1, <2>5, <2>6 DEF LineSizes, LineAllocations
<1> QED
  BY <1>3, <1>4

\* The infos of earlier lines stay.
InfosStay ==
    \A i \in 0..(Len(allocationInfos) - 1) : allocationInfos'[i + 1] = allocationInfos[i + 1]

\* The lines counted keep their sizes and allocations when the file grows.
LEMMA LinesAgree ==
    ASSUME IInv, FileInv, InfosStay, NEW mode \in {"+", "-"},
           \A n \in Taken(mode) : n \in 1..Len(file') /\ file'[n] = file[n]
    PROVE  Agree(Taken(mode), LineSizes, LineSizes', LineAllocations, LineAllocations')
<1> SUFFICES ASSUME NEW n \in Taken(mode)
             PROVE  /\ LineSizes[n] \in Int /\ LineSizes'[n] = LineSizes[n]
                    /\ LineAllocations'[n] = LineAllocations[n]
  BY DEF Agree
<1>1. /\ file[n].value \in 0..(Len(allocationInfos) - 1)
      /\ LineSizes[n] = allocationInfos[file[n].value + 1].size /\ LineSizes[n] \in Nat
      /\ LineAllocations[n] = allocationInfos[file[n].value + 1].allocation
  BY TakenTyped
<1>2. LineSizes'[n] = allocationInfos'[file'[n].value + 1].size
      /\ LineAllocations'[n] = allocationInfos'[file'[n].value + 1].allocation
  BY DEF LineSizes, LineAllocations
<1>3. allocationInfos'[file[n].value + 1] = allocationInfos[file[n].value + 1]
  BY <1>1 DEF InfosStay
<1> QED
  BY <1>1, <1>2, <1>3

\* Lines that change no cost.
LEMMA ChargedStays ==
    ASSUME IInv, FileInv, ChargedInv, phase \in {"reading", "read", "ready"},
           phase' \in {"reading", "read", "ready"}, InfosStay, UNCHANGED <<allocations, totalCost>>,
           \A n \in 1..Len(file) : n \in 1..Len(file') /\ file'[n] = file[n],
           Taken("+")' = Taken("+"), Taken("-")' = Taken("-")
    PROVE  ChargedInv'
<1>0. "+" \in {"+", "-"} /\ "-" \in {"+", "-"}
  OBVIOUS
<1>1. IsFiniteSet(Taken("+")) /\ IsFiniteSet(Taken("-"))
  BY <1>0, TakenTyped
<1>2. \A n \in Taken("+") : n \in 1..Len(file') /\ file'[n] = file[n]
  BY <1>0, TakenTyped
<1>3. \A n \in Taken("-") : n \in 1..Len(file') /\ file'[n] = file[n]
  BY <1>0, TakenTyped
<1>4. /\ Agree(Taken("+"), LineSizes, LineSizes', LineAllocations, LineAllocations')
      /\ Agree(Taken("-"), LineSizes, LineSizes', LineAllocations, LineAllocations')
  BY <1>0, <1>2, <1>3, LinesAgree
<1>5. CostsAre(allocations, totalCost, LineSizes, LineAllocations, Taken("+"), Taken("-"))
  BY DEF ChargedInv
<1>6. CostsAre(allocations, totalCost, LineSizes', LineAllocations', Taken("+"), Taken("-"))
  BY <1>1, <1>4, <1>5, CostsStay
<1> QED
  BY <1>6 DEF ChargedInv

\* The events of the file.
LEMMA EventLine ==
    ASSUME IInv, FileInv, ClockInv, NEW i \in 0..(Len(allocationInfos) - 1), NEW sign \in {"+", "-"},
           GetLine(Line(sign, i)), UNCHANGED <<control, infos>>, inFilteredTime
    PROVE  /\ phase = "reading" /\ phase' = "reading" /\ pos \in Nat
           /\ Taken(sign)' = Taken(sign) \cup {pos + 1} /\ pos + 1 \notin Taken(sign)
           /\ \A mode \in {"+", "-"} :
                /\ mode # sign => Taken(mode)' = Taken(mode)
                /\ IsFiniteSet(Taken(mode)) /\ pos + 1 \notin Taken(mode)
                /\ Agree(Taken(mode), LineSizes, LineSizes', LineAllocations, LineAllocations')
           /\ LineSizes'[pos + 1] = allocationInfos[i + 1].size
           /\ LineAllocations'[pos + 1] = allocationInfos[i + 1].allocation
           /\ LineRead(Line(sign, i)) /\ Line(sign, i).mode = sign /\ Line(sign, i).value = i
<1>1. Len(allocationInfos) \in Nat /\ i \in Nat /\ ControlOK
  BY InfosLength DEF IInv, TypeOK
<1>2. Line(sign, i) \in Lines /\ Line(sign, i).mode = sign /\ Line(sign, i).value = i
  BY <1>1, LinesTyped DEF Line
<1>3. LineRead(Line(sign, i))
  BY <1>2, LineFacts
<1>4. phase = "reading" /\ phase' = "reading" /\ pos \in Nat /\ pos + 1 \in 1..Len(file')
      /\ file'[pos + 1] = Line(sign, i)
  <2>1. Len(file') \in Nat
    BY <1>3, LenProperties DEF LineRead
  <2> QED
    BY <1>3, <2>1 DEF LineRead
<1>5. ASSUME NEW mode \in {"+", "-"}
      PROVE  /\ Taken(mode)' = Taken(mode) \cup (IF sign = mode THEN {pos + 1} ELSE {})
             /\ IsFiniteSet(Taken(mode)) /\ pos + 1 \notin Taken(mode)
             /\ Agree(Taken(mode), LineSizes, LineSizes', LineAllocations, LineAllocations')
  <2>1. Taken(mode)' = Taken(mode) \cup (IF Line(sign, i).mode = mode /\ inFilteredTime THEN {pos + 1} ELSE {})
    BY <1>1, <1>2, TakenNext
  <2>2. IsFiniteSet(Taken(mode)) /\ \A n \in Taken(mode) : n \in 1..pos
    BY <1>4, TakenTyped
  <2>3. \A n \in Taken(mode) : n \in 1..Len(file') /\ file'[n] = file[n]
    BY <1>3, <2>2 DEF LineRead
  <2>4. InfosStay
    BY DEF InfosStay
  <2>5. Agree(Taken(mode), LineSizes, LineSizes', LineAllocations, LineAllocations')
    BY <2>3, <2>4, LinesAgree
  <2>6. pos + 1 \notin Taken(mode)
    BY <1>4, <2>2
  <2> QED
    BY <1>2, <2>1, <2>2, <2>5, <2>6
<1>6. LineSizes'[pos + 1] = allocationInfos[i + 1].size
      /\ LineAllocations'[pos + 1] = allocationInfos[i + 1].allocation
  BY <1>2, <1>4 DEF LineSizes, LineAllocations
<1> QED
  BY <1>2, <1>3, <1>4, <1>5, <1>6

\* Line + charges the allocation and the totals alike.
LEMMA ChargedAllocation == ASSUME IInv, FileInv, ClockInv, ChargedInv, ReadAllocation PROVE ChargedInv'
<1>1. PICK i \in 0..(Len(allocationInfos) - 1) :
        LET info  == allocationInfos[i + 1]
            total == totalCost.leaked + info.size
        IN  /\ GetLine(Line("+", i)) /\ inFilteredTime
            /\ allocations' = [allocations EXCEPT ![info.allocation] = Charge(@, info.size, 1, 0)]
            /\ totalCost' = [totalCost EXCEPT !.allocations = @ + 1, !.leaked = total,
                                              !.peak = IF total > @ THEN total ELSE @]
            /\ UNCHANGED <<control, infos>>
  BY DEF ReadAllocation
<1> DEFINE b == allocationInfos[i + 1].allocation
           z == allocationInfos[i + 1].size
           x == pos + 1
<1>2. "+" \in {"+", "-"} /\ "-" \in {"+", "-"} /\ GetLine(Line("+", i)) /\ inFilteredTime
      /\ UNCHANGED <<control, infos>>
  BY <1>1
<1>3. /\ phase = "reading" /\ phase' = "reading" /\ pos \in Nat
      /\ Taken("+")' = Taken("+") \cup {x} /\ x \notin Taken("+") /\ Taken("-")' = Taken("-")
      /\ IsFiniteSet(Taken("+")) /\ IsFiniteSet(Taken("-"))
      /\ Agree(Taken("+"), LineSizes, LineSizes', LineAllocations, LineAllocations')
      /\ Agree(Taken("-"), LineSizes, LineSizes', LineAllocations, LineAllocations')
      /\ LineSizes'[x] = z /\ LineAllocations'[x] = b
  BY <1>2, EventLine
<1>4. b \in 1..Len(allocations) /\ z \in Int /\ allocations \in Seq(Allocation)
  <2>1. b \in 1..Len(allocations) /\ z \in Nat
    BY Elements
  <2>2. allocations \in Seq(Allocation)
    BY DEF IInv, TypeOK, InfosOK
  <2> QED
    BY <2>1, <2>2
<1>5. CostsAre(allocations, totalCost, LineSizes, LineAllocations, Taken("+"), Taken("-"))
  BY <1>3 DEF ChargedInv
<1>6. totalCost \in Total
  BY <1>3 DEF IInv, TypeOK, CostsOK
<1>7. totalCost'.allocations = totalCost.allocations + 1 /\ totalCost'.leaked = totalCost.leaked + z
      /\ totalCost'.temporary = totalCost.temporary
  BY <1>1, <1>6 DEF Total
<1>8. allocations' \in Seq(Allocation)
  BY CostsOnly DEF SameTraces
<1>9. allocations' = Charged(allocations, b, z, 1, 0)
  BY <1>1 DEF Charged
<1> DEFINE more == allocations'
           totals == totalCost'
           sizes == LineSizes'
           ofs == LineAllocations'
<1> HIDE DEF b, z, x, more, totals, sizes, ofs
<1>10. /\ more \in Seq(Allocation) /\ more = Charged(allocations, b, sizes[x], 1, 0)
       /\ totals.allocations = totalCost.allocations + 1
       /\ totals.leaked = totalCost.leaked + sizes[x]
       /\ totals.temporary = totalCost.temporary
       /\ sizes[x] \in Int /\ ofs[x] = b
       /\ Agree(Taken("+"), LineSizes, sizes, LineAllocations, ofs)
       /\ Agree(Taken("-"), LineSizes, sizes, LineAllocations, ofs)
  BY <1>3, <1>4, <1>7, <1>8, <1>9 DEF more, totals, sizes, ofs
<1>11. CostsAre(more, totals, sizes, ofs, Taken("+") \cup {x}, Taken("-"))
  BY <1>3, <1>4, <1>5, <1>10, CostsPlus
<1>12. CostsAre(allocations', totalCost', LineSizes', LineAllocations', Taken("+")', Taken("-")')
  BY <1>3, <1>11 DEF more, totals, sizes, ofs
<1> QED
  BY <1>12 DEF ChargedInv

\* Line - charges the allocation and the totals alike.
LEMMA ChargedDeallocation == ASSUME IInv, FileInv, ClockInv, ChargedInv, ReadDeallocation PROVE ChargedInv'
<1>1. PICK i \in 0..(Len(allocationInfos) - 1) :
        LET info == allocationInfos[i + 1]
            temp == IF IsTemporary(i) THEN 1 ELSE 0
        IN  /\ GetLine(Line("-", i)) /\ inFilteredTime
            /\ allocations' = [allocations EXCEPT ![info.allocation] = Charge(@, - info.size, 0, temp)]
            /\ totalCost' = [totalCost EXCEPT !.leaked = @ - info.size, !.temporary = @ + temp]
            /\ UNCHANGED <<control, infos>>
  BY DEF ReadDeallocation
<1> DEFINE b == allocationInfos[i + 1].allocation
           z == allocationInfos[i + 1].size
           x == pos + 1
           temp == IF IsTemporary(i) THEN 1 ELSE 0
<1>2. "+" \in {"+", "-"} /\ "-" \in {"+", "-"} /\ GetLine(Line("-", i)) /\ inFilteredTime
      /\ UNCHANGED <<control, infos>>
  BY <1>1
<1>3. /\ phase = "reading" /\ phase' = "reading" /\ pos \in Nat
      /\ Taken("-")' = Taken("-") \cup {x} /\ x \notin Taken("-") /\ Taken("+")' = Taken("+")
      /\ IsFiniteSet(Taken("+")) /\ IsFiniteSet(Taken("-"))
      /\ Agree(Taken("+"), LineSizes, LineSizes', LineAllocations, LineAllocations')
      /\ Agree(Taken("-"), LineSizes, LineSizes', LineAllocations, LineAllocations')
      /\ LineSizes'[x] = z /\ LineAllocations'[x] = b
  BY <1>2, EventLine
<1>4. b \in 1..Len(allocations) /\ z \in Int /\ allocations \in Seq(Allocation) /\ temp \in Int
  <2>1. b \in 1..Len(allocations) /\ z \in Nat
    BY Elements
  <2>2. allocations \in Seq(Allocation)
    BY DEF IInv, TypeOK, InfosOK
  <2> QED
    BY <2>1, <2>2
<1>5. CostsAre(allocations, totalCost, LineSizes, LineAllocations, Taken("+"), Taken("-"))
  BY <1>3 DEF ChargedInv
<1>6. totalCost \in Total
  BY <1>3 DEF IInv, TypeOK, CostsOK
<1>7. totalCost'.allocations = totalCost.allocations /\ totalCost'.leaked = totalCost.leaked - z
      /\ totalCost'.temporary = totalCost.temporary + temp
  BY <1>1, <1>6 DEF Total
<1>8. allocations' \in Seq(Allocation)
  BY CostsOnly DEF SameTraces
<1>9. allocations' = Charged(allocations, b, - z, 0, temp)
  BY <1>1 DEF Charged
<1> DEFINE more == allocations'
           totals == totalCost'
           sizes == LineSizes'
           ofs == LineAllocations'
<1> HIDE DEF b, z, x, temp, more, totals, sizes, ofs
<1>10. /\ more \in Seq(Allocation) /\ more = Charged(allocations, b, - sizes[x], 0, temp)
       /\ totals.allocations = totalCost.allocations
       /\ totals.leaked = totalCost.leaked - sizes[x]
       /\ totals.temporary = totalCost.temporary + temp
       /\ sizes[x] \in Int /\ ofs[x] = b
       /\ Agree(Taken("+"), LineSizes, sizes, LineAllocations, ofs)
       /\ Agree(Taken("-"), LineSizes, sizes, LineAllocations, ofs)
  BY <1>3, <1>4, <1>7, <1>8, <1>9 DEF more, totals, sizes, ofs
<1>11. CostsAre(more, totals, sizes, ofs, Taken("+"), Taken("-") \cup {x})
  BY <1>3, <1>4, <1>5, <1>10, CostsMinus
<1>12. CostsAre(allocations', totalCost', LineSizes', LineAllocations', Taken("+")', Taken("-")')
  BY <1>3, <1>11 DEF more, totals, sizes, ofs
<1> QED
  BY <1>12 DEF ChargedInv

\* Other lines are not taken into account.
LEMMA OtherLine ==
    ASSUME IInv, FileInv, ClockInv, ChargedInv, NEW line \in Lines, GetLine(line), UNCHANGED control,
           line.mode \in {"a", "c"} \/ ~ inFilteredTime
    PROVE  /\ Taken("+")' = Taken("+") /\ Taken("-")' = Taken("-")
           /\ phase = "reading" /\ phase' = "reading"
           /\ \A n \in 1..Len(file) : n \in 1..Len(file') /\ file'[n] = file[n]
<1>1. LineRead(line)
  BY LineFacts
<1>2. ASSUME NEW mode \in {"+", "-"} PROVE Taken(mode)' = Taken(mode)
  <2>1. Taken(mode)' = Taken(mode) \cup (IF line.mode = mode /\ inFilteredTime THEN {pos + 1} ELSE {})
    BY TakenNext DEF IInv, TypeOK
  <2> QED
    BY <2>1
<1>3. Taken("+")' = Taken("+") /\ Taken("-")' = Taken("-")
  BY <1>2
<1> QED
  BY <1>1, <1>3 DEF LineRead

\* Line a changes no cost.
LEMMA ChargedInfo == ASSUME IInv, FileInv, ClockInv, ChargedInv, ReadInfo PROVE ChargedInv'
<1>1. PICK size \in Sizes, trace \in Traces :
        /\ GetLine(InfoLine(size, trace))
        /\ IF FirstReading
           THEN /\ AddAllocation(trace)
                /\ allocationInfos' = Append(allocationInfos,
                        [size |-> size, allocation |-> MapToAllocationIndex(trace)])
           ELSE UNCHANGED <<allocations, infos>>
        /\ UNCHANGED <<control, totalCost>>
  BY DEF ReadInfo
<1>2. InfoLine(size, trace) \in Lines /\ InfoLine(size, trace).mode \in {"a", "c"}
  BY LinesTyped DEF InfoLine
<1>3. /\ Taken("+")' = Taken("+") /\ Taken("-")' = Taken("-")
      /\ phase = "reading" /\ phase' = "reading"
      /\ \A n \in 1..Len(file) : n \in 1..Len(file') /\ file'[n] = file[n]
  BY <1>1, <1>2, OtherLine
<1>4. InfosStay
  <2>1. allocationInfos \in Seq(Info) /\ Len(allocationInfos) \in Nat
    BY LenProperties DEF IInv, TypeOK, InfosOK
  <2>2. allocationInfos' = allocationInfos
        \/ allocationInfos' = Append(allocationInfos, [size |-> size, allocation |-> MapToAllocationIndex(trace)])
    BY <1>1
  <2>3. \A i \in 0..(Len(allocationInfos) - 1) : i + 1 \in 1..Len(allocationInfos)
    BY <2>1
  <2> QED
    BY <2>1, <2>2, <2>3, AppendProperties DEF InfosStay
<1>5. CASE UNCHANGED allocations
  BY <1>1, <1>3, <1>4, <1>5, ChargedStays
<1>6. CASE ~ UNCHANGED allocations
  <2> DEFINE r == [trace |-> trace, cost |-> NoCost]
             sizes == LineSizes'
             ofs == LineAllocations'
  <2>1. allocations' = Append(allocations, r)
    BY <1>1, <1>6 DEF AddAllocation
  <2>2. r \in Allocation /\ r.cost = NoCost /\ allocations \in Seq(Allocation)
    BY DEF IInv, TypeOK, InfosOK, Allocation, NoCost
  <2>3. "+" \in {"+", "-"} /\ "-" \in {"+", "-"}
    OBVIOUS
  <2>4. IsFiniteSet(Taken("+")) /\ IsFiniteSet(Taken("-"))
    BY <2>3, TakenTyped
  <2>5. \A n \in Taken("+") : n \in 1..Len(file') /\ file'[n] = file[n]
    BY <1>3, <2>3, TakenTyped
  <2>6. \A n \in Taken("-") : n \in 1..Len(file') /\ file'[n] = file[n]
    BY <1>3, <2>3, TakenTyped
  <2>7. /\ Agree(Taken("+"), LineSizes, sizes, LineAllocations, ofs)
        /\ Agree(Taken("-"), LineSizes, sizes, LineAllocations, ofs)
    BY <1>4, <2>3, <2>5, <2>6, LinesAgree
  <2>8. CostsAre(allocations, totalCost, LineSizes, LineAllocations, Taken("+"), Taken("-"))
    BY <1>3 DEF ChargedInv
  <2>9. \A n \in Taken("+") \cup Taken("-") : ofs[n] # Len(allocations) + 1
    <3>1. Len(allocations) \in Nat
      BY <2>2, LenProperties
    <3>2. \A n \in Taken("+") : LineAllocations[n] \in 1..Len(allocations)
      BY <2>3, TakenTyped
    <3>3. \A n \in Taken("-") : LineAllocations[n] \in 1..Len(allocations)
      BY <2>3, TakenTyped
    <3> HIDE DEF ofs
    <3>4. \A n \in Taken("+") \cup Taken("-") : ofs[n] = LineAllocations[n]
      BY <2>7 DEF Agree
    <3> QED
      BY <3>1, <3>2, <3>3, <3>4
  <2> HIDE DEF r, sizes, ofs
  <2>10. CostsAre(allocations, totalCost, sizes, ofs, Taken("+"), Taken("-"))
    BY <2>4, <2>7, <2>8, CostsStay
  <2>11. CostsAre(Append(allocations, r), totalCost, sizes, ofs, Taken("+"), Taken("-"))
    BY <2>2, <2>9, <2>10, CostsAppended
  <2>12. CostsAre(allocations', totalCost', LineSizes', LineAllocations', Taken("+")', Taken("-")')
    BY <1>1, <1>3, <2>1, <2>11 DEF sizes, ofs
  <2> QED
    BY <2>12 DEF ChargedInv
<1> QED
  BY <1>5, <1>6

\* The lines a pass takes into account are those within the filter it ends with.
LEMMA TakenAtEnd ==
    ASSUME FileInv, ClockInv, ControlOK, AtEnd, NEW limits \in Nat \X Nat,
           limits = filter \/ (pos = Len(file) /\ limits[1] = filter[1] /\ limits[2] = timeStamp + 1),
           NEW mode
    PROVE  Seen(file, limits, mode, Len(file)) = Taken(mode)
<1>1. /\ phase = "reading" /\ timeStamp = Time(file, pos + 1) /\ timeStamp \in Nat
      /\ filter[1] \in Nat /\ filter[2] \in Nat /\ limits[1] = filter[1] /\ limits[2] \in Nat
      /\ \A n \in 1..pos : Time(file, n) < filter[2]
  BY DEF AtEnd, ClockInv, ControlOK
<1>2. /\ file \in Seq(Lines) /\ Len(file) \in Nat /\ pos \in Nat /\ pos <= Len(file)
      /\ pos + 1 \in 1..(Len(file) + 1)
  BY LenProperties DEF FileInv
<1>3. \A n \in 1..Len(file) : file[n].value \in Nat
  BY <1>2, ValuesTyped
<1>4. \A n \in 1..(Len(file) + 1) : Time(file, n) \in Nat
  BY <1>2, <1>3, TimeSteps
<1>5. ASSUME NEW n \in 1..Len(file)
      PROVE  Time(file, n) < limits[2] <=> n \in 1..pos
  <2>1. n \in 1..(Len(file) + 1) /\ Time(file, n) \in Nat
    BY <1>2, <1>4
  <2>2. CASE n \in 1..pos
    <3>1. n \in 1..(pos + 1)
      BY <1>2, <2>2
    <3>2. Time(file, n) <= timeStamp
      BY <1>1, <1>2, <1>3, <3>1, TimeGrows
    <3> QED
      BY <1>1, <2>1, <2>2, <3>2
  <2>3. CASE n \notin 1..pos
    <3>1. pos # Len(file) /\ pos + 1 \in 1..n
      BY <1>2, <2>3
    <3>2. timeStamp >= filter[2] /\ limits = filter
      BY <3>1 DEF AtEnd
    <3>3. timeStamp <= Time(file, n)
      BY <1>1, <1>2, <1>3, <2>1, <3>1, TimeGrows
    <3> QED
      BY <1>1, <2>1, <2>3, <3>2, <3>3
  <2> QED
    BY <2>2, <2>3
<1>6. Taken(mode) = Seen(file, filter, mode, pos)
  BY <1>1 DEF Taken
<1>7. \A n \in 1..pos : n \in 1..Len(file)
  BY <1>2
<1> QED
  BY <1>1, <1>5, <1>6, <1>7 DEF Seen

-----------------------------------------------------------------------------
(* Deallocations that follow their allocation                              *)

\* A pass starts with no lines.
LEMMA NothingTaken ==
    ASSUME FileInv, NEW p, NEW again, NEW limits, NEW off, StartPass(p, again, limits, off), NEW mode
    PROVE  Taken(mode)' = {} /\ phase' = "reading" /\ pos' = 0
<1>1. phase' = "reading" /\ pos' = 0
  BY DEF StartPass
<1>2. Taken(mode)' = Seen(file', filter', mode, 0)
  BY <1>1 DEF Taken
<1>3. \A n \in 1..0 : FALSE
  OBVIOUS
<1> QED
  BY <1>1, <1>2, <1>3 DEF Seen

\* Passes end with what they took into account.
LEMMA PassEnds ==
    ASSUME FileInv, ClockInv, ControlOK, EndFirstPass \/ EndSecondPass, NEW mode
    PROVE  /\ Taken(mode)' = Taken(mode) /\ phase = "reading" /\ phase' \in {"read", "ready"}
           /\ UNCHANGED <<file, allocationInfos, allocations, totalCost>>
<1>1. /\ AtEnd /\ phase = "reading" /\ phase' \in {"read", "ready"}
      /\ UNCHANGED <<file, allocationInfos, allocations, totalCost>>
  BY DEF EndFirstPass, EndSecondPass, AtEnd
<1>2. filter \in Nat \X Nat /\ timeStamp \in Nat
  BY DEF ControlOK
<1>3. filter' \in Nat \X Nat
      /\ (filter' = filter \/ (pos = Len(file) /\ filter'[1] = filter[1] /\ filter'[2] = timeStamp + 1))
  <2>1. CASE EndFirstPass /\ ~ reparsing
    <3>1. filter' = [filter EXCEPT ![2] = timeStamp + 1] /\ FirstReading
      BY <2>1 DEF EndFirstPass, FirstReading
    <3>2. pos = Len(file)
      BY <1>1, <3>1 DEF FileInv
    <3> QED
      BY <1>2, <3>1, <3>2
  <2>2. CASE ~ (EndFirstPass /\ ~ reparsing)
    <3>1. filter' = filter
      BY <2>2 DEF EndFirstPass, EndSecondPass
    <3> QED
      BY <1>2, <3>1
  <2> QED
    BY <2>1, <2>2
<1>4. Seen(file, filter', mode, Len(file)) = Taken(mode)
  BY <1>1, <1>3, TakenAtEnd
<1>5. Taken(mode)' = Seen(file, filter', mode, Len(file))
  BY <1>1 DEF Taken
<1> QED
  BY <1>1, <1>4, <1>5

\* The costs follow from the lines after every step.
LEMMA ChargedStep == ASSUME IInv, FileInv, ClockInv, ChargedInv, [Next]_vars PROVE ChargedInv'
<1>0. ControlOK /\ allocations \in Seq(Allocation)
  BY DEF IInv, TypeOK, InfosOK
<1>1. ASSUME NEW p, NEW again, NEW limits, NEW off, StartPass(p, again, limits, off) PROVE ChargedInv'
  <2>1. Taken("+")' = {} /\ Taken("-")' = {}
    BY <1>1, NothingTaken
  <2>2. allocations' = ClearCosts(allocations) /\ totalCost' = NoTotal
    BY <1>1 DEF StartPass
  <2> DEFINE sizes == LineSizes'
             ofs == LineAllocations'
  <2> HIDE DEF sizes, ofs
  <2>3. CostsAre(ClearCosts(allocations), NoTotal, sizes, ofs, {}, {})
    BY <1>0, CostsCleared
  <2>4. CostsAre(allocations', totalCost', LineSizes', LineAllocations', Taken("+")', Taken("-")')
    BY <2>1, <2>2, <2>3 DEF sizes, ofs
  <2> QED
    BY <2>4 DEF ChargedInv
<1>2. CASE ReadInfo
  BY <1>2, ChargedInfo
<1>3. CASE ReadAllocation
  BY <1>3, ChargedAllocation
<1>4. CASE ReadDeallocation
  BY <1>4, ChargedDeallocation
<1>5. CASE SkipEvent \/ ReadTimeStamp
  <2>1. PICK line \in Lines : GetLine(line) /\ (line.mode \in {"a", "c"} \/ ~ inFilteredTime)
    <3>1. CASE SkipEvent
      <4>1. PICK i \in 0..(Len(allocationInfos) - 1), mode \in {"+", "-"} : GetLine(Line(mode, i))
        BY <3>1 DEF SkipEvent
      <4>2. i \in Nat
        BY InfosLength DEF IInv, TypeOK
      <4> QED
        BY <3>1, <4>1, <4>2, LinesTyped DEF SkipEvent
    <3>2. CASE ReadTimeStamp
      <4>1. PICK stamp \in 1..MaxStamp : GetLine(Line("c", stamp))
        BY <3>2 DEF ReadTimeStamp
      <4>2. Line("c", stamp) \in Lines /\ Line("c", stamp).mode = "c"
        <5>1. stamp \in Nat
          OBVIOUS
        <5> QED
          BY <5>1, LinesTyped DEF Line
      <4> QED
        BY <4>1, <4>2
    <3> QED
      BY <1>5, <3>1, <3>2
  <2>2. UNCHANGED <<control, infos, allocations, totalCost>>
    BY <1>5 DEF SkipEvent, ReadTimeStamp
  <2>3. /\ Taken("+")' = Taken("+") /\ Taken("-")' = Taken("-")
        /\ phase = "reading" /\ phase' = "reading"
        /\ \A n \in 1..Len(file) : n \in 1..Len(file') /\ file'[n] = file[n]
    BY <2>1, <2>2, OtherLine
  <2>4. InfosStay
    BY <2>2 DEF InfosStay
  <2> QED
    BY <2>2, <2>3, <2>4, ChargedStays
<1>6. CASE EndFirstPass \/ EndSecondPass
  <2>1. /\ Taken("+")' = Taken("+") /\ Taken("-")' = Taken("-")
        /\ phase = "reading" /\ phase' \in {"read", "ready"}
        /\ UNCHANGED <<file, allocationInfos, allocations, totalCost>>
    BY <1>0, <1>6, PassEnds
  <2>2. InfosStay
    BY <2>1 DEF InfosStay
  <2> QED
    BY <2>1, <2>2, ChargedStays
<1>7. CASE ApplyLeakSuppressions
  BY <1>7 DEF ApplyLeakSuppressions, ChargedInv
<1>8. CASE UNCHANGED vars
  BY <1>8 DEF vars, ChargedInv, Taken, LineSizes, LineAllocations
<1> QED
  BY <1>1, <1>2, <1>3, <1>4, <1>5, <1>6, <1>7, <1>8 DEF Next, Parse, StartSecondPass, Reparse

-----------------------------------------------------------------------------
(* Temporary allocations                                                   *)

\* No line + or - between two lines.
Quiet(f, m, n) == \A k \in (m + 1)..(n - 1) : f[k].mode \notin {"+", "-"}

\* Does the line follow an allocation with the same data?
Follows(f, plus, n) == \E m \in plus : m < n /\ f[m].value = f[n].value /\ Quiet(f, m, n)

Temporary(f, plus, minus) == {n \in minus : Follows(f, plus, n)}

\* lastAllocationPtr is the info of the allocation that was just read, if any.
LastInv ==
    phase = "reading" =>
        /\ lastAllocationPtr # 0 =>
             \E m \in Taken("+") : file[m].value = lastAllocationPtr /\ Quiet(file, m, pos + 1)
        /\ \A m \in Taken("+") : Quiet(file, m, pos + 1) => file[m].value = lastAllocationPtr
        /\ timeStamp < filter[1] => lastAllocationPtr = 0

\* The temporary allocations up to here.
TemporaryInv ==
    phase \in {"reading", "read", "ready"} =>
        \E zero \in SUBSET {n \in Taken("-") : file[n].value = 0} :
            totalCost.temporary = Cardinality(Temporary(file, Taken("+"), Taken("-")) \cup zero)

\* Quiet goes on with lines that are neither + nor -.
LEMMA QuietNext ==
    ASSUME NEW f, NEW g, NEW p \in Nat, \A n \in 1..p : g[n] = f[n], NEW m \in 1..p
    PROVE  Quiet(g, m, p + 2) <=> Quiet(f, m, p + 1) /\ g[p + 1].mode \notin {"+", "-"}
<1>1. \A k : k \in (m + 1)..((p + 2) - 1) <=> k \in (m + 1)..((p + 1) - 1) \/ k = p + 1
  OBVIOUS
<1>2. \A k \in (m + 1)..((p + 1) - 1) : g[k] = f[k]
  OBVIOUS
<1> QED
  BY <1>1, <1>2 DEF Quiet

\* Two files start with the same lines.
SameStart(f, g, p) == \A n \in 1..p : g[n] = f[n]

Within(lines, p) == lines \subseteq 1..p

\* Later lines do not make an earlier one temporary.
LEMMA TemporaryKept ==
    ASSUME NEW f, NEW g, NEW p \in Nat, SameStart(f, g, p),
           NEW plus, NEW minus, Within(plus, p), Within(minus, p),
           NEW more, more = plus \/ more = plus \cup {p + 1}
    PROVE  Temporary(g, more, minus) = Temporary(f, plus, minus)
<1>1. ASSUME NEW n \in minus PROVE Follows(g, more, n) <=> Follows(f, plus, n)
  <2>1. n \in 1..p /\ g[n] = f[n]
    BY DEF SameStart, Within
  <2>2. ASSUME NEW m \in plus, m < n PROVE Quiet(g, m, n) <=> Quiet(f, m, n)
    <3>3. m \in 1..p
      BY DEF Within
    <3>1. \A k \in (m + 1)..(n - 1) : k \in 1..p
      BY <2>1, <3>3
    <3>2. \A k \in (m + 1)..(n - 1) : g[k] = f[k]
      BY <3>1 DEF SameStart
    <3> QED
      BY <3>2 DEF Quiet
  <2>3. \A m \in plus : g[m] = f[m]
    BY DEF SameStart, Within
  <2>4. ~ p + 1 < n
    BY <2>1
  <2> QED
    BY <2>1, <2>2, <2>3, <2>4 DEF Follows
<1> QED
  BY <1>1 DEF Temporary

\* Which lines were taken so far.
LEMMA TakenUpTo ==
    ASSUME IInv, FileInv, phase = "reading"
    PROVE  /\ Taken("+") \in SUBSET (1..pos) /\ Taken("-") \in SUBSET (1..pos)
           /\ IsFiniteSet(Taken("+")) /\ IsFiniteSet(Taken("-"))
<1>1. "+" \in {"+", "-"} /\ "-" \in {"+", "-"}
  OBVIOUS
<1>2. \A n \in Taken("+") : n \in 1..pos
  BY <1>1, TakenTyped
<1>3. \A n \in Taken("-") : n \in 1..pos
  BY <1>1, TakenTyped
<1> QED
  BY <1>1, <1>2, <1>3, TakenTyped

\* A line that is not taken into account.
LEMMA LastOther ==
    ASSUME IInv, FileInv, ClockInv, ChargedInv, LastInv, NEW line \in Lines, GetLine(line),
           UNCHANGED control, UNCHANGED lastAllocationPtr,
           line.mode \in {"a", "c"} \/ ~ inFilteredTime,
           timeStamp' < filter[1] => timeStamp < filter[1]
    PROVE  LastInv'
<1>1. LineRead(line)
  BY LineFacts
<1>2. Taken("+")' = Taken("+") /\ phase = "reading" /\ phase' = "reading"
  BY OtherLine
<1>3. Taken("+") \in SUBSET (1..pos)
  BY <1>2, TakenUpTo
<1>4. pos \in Nat /\ pos' = pos + 1 /\ pos' + 1 = pos + 2 /\ file'[pos + 1] = line
      /\ \A n \in 1..pos : file'[n] = file[n]
  BY <1>1 DEF LineRead
<1>5. \A m \in Taken("+") : Quiet(file', m, pos + 2) <=> Quiet(file, m, pos + 1) /\ line.mode \notin {"+", "-"}
  BY <1>3, <1>4, QuietNext
<1>6. \A m \in Taken("+") : file'[m] = file[m]
  BY <1>3, <1>4
<1>7. /\ timeStamp < filter[2] /\ timeStamp \in Nat /\ filter[1] \in Nat /\ filter[2] \in Nat
      /\ (inFilteredTime <=> filter[1] <= timeStamp /\ timeStamp <= filter[2])
  BY <1>1, <1>2 DEF LineRead, IInv, TypeOK, ControlOK, ClockInv
<1>8. line.mode \in {"+", "-"} => lastAllocationPtr = 0
  BY <1>2, <1>7 DEF LastInv
<1>9. /\ lastAllocationPtr # 0 =>
             \E m \in Taken("+") : file'[m].value = lastAllocationPtr /\ Quiet(file', m, pos + 2)
      /\ \A m \in Taken("+") : Quiet(file', m, pos + 2) => file'[m].value = lastAllocationPtr
      /\ timeStamp' < filter[1] => lastAllocationPtr = 0
  BY <1>2, <1>5, <1>6, <1>8 DEF LastInv
<1> QED
  BY <1>2, <1>4, <1>9 DEF LastInv

\* The last allocation after every step.
LEMMA LastStep ==
    ASSUME IInv, FileInv, ClockInv, ChargedInv, LastInv, [Next]_vars
    PROVE  LastInv'
<1>0. ControlOK
  BY DEF IInv, TypeOK
<1>1. ASSUME NEW p, NEW again, NEW limits, NEW off, StartPass(p, again, limits, off) PROVE LastInv'
  <2>1. Taken("+")' = {} /\ lastAllocationPtr' = 0
    BY <1>1, NothingTaken DEF StartPass
  <2> QED
    BY <2>1 DEF LastInv
<1>2. CASE ReadInfo
  <2>1. PICK size \in Sizes, trace \in Traces : GetLine(InfoLine(size, trace))
    BY <1>2 DEF ReadInfo
  <2>2. InfoLine(size, trace) \in Lines /\ InfoLine(size, trace).mode \in {"a", "c"}
    BY LinesTyped DEF InfoLine
  <2>3. UNCHANGED <<control, lastAllocationPtr, timeStamp>>
    BY <1>2 DEF ReadInfo
  <2> QED
    BY <2>1, <2>2, <2>3, LastOther
<1>3. CASE ReadAllocation \/ ReadDeallocation
  <2>1. PICK i \in 0..(Len(allocationInfos) - 1), sign \in {"+", "-"} :
            /\ GetLine(Line(sign, i)) /\ inFilteredTime
            /\ UNCHANGED <<control, infos, timeStamp>>
            /\ lastAllocationPtr' = IF sign = "+" THEN i ELSE 0
    BY <1>3 DEF ReadAllocation, ReadDeallocation
  <2>2. /\ phase = "reading" /\ phase' = "reading" /\ pos \in Nat
        /\ Taken(sign)' = Taken(sign) \cup {pos + 1}
        /\ \A mode \in {"+", "-"} : mode # sign => Taken(mode)' = Taken(mode)
        /\ LineRead(Line(sign, i)) /\ Line(sign, i).mode = sign /\ Line(sign, i).value = i
    BY <2>1, EventLine
  <2>3. Taken("+") \in SUBSET (1..pos)
    BY <2>2, TakenUpTo
  <2>4. Taken("+")' = Taken("+") \cup (IF sign = "+" THEN {pos + 1} ELSE {})
    BY <2>2
  <2>5. pos' + 1 = pos + 2 /\ file'[pos + 1].mode = sign /\ file'[pos + 1].value = i
        /\ \A n \in 1..pos : file'[n] = file[n]
    BY <2>2 DEF LineRead
  <2>6. \A m \in Taken("+") : ~ Quiet(file', m, pos + 2)
    BY <2>2, <2>3, <2>5, QuietNext
  <2>7. Quiet(file', pos + 1, pos + 2)
    <3>1. \A k \in ((pos + 1) + 1)..((pos + 2) - 1) : FALSE
      BY <2>2
    <3> QED
      BY <3>1 DEF Quiet
  <2>8. ~ timeStamp' < filter'[1]
    BY <2>1, <2>2, <1>0 DEF ClockInv, ControlOK
  <2>9. /\ lastAllocationPtr' # 0 =>
             \E m \in Taken("+")' : file'[m].value = lastAllocationPtr' /\ Quiet(file', m, pos + 2)
        /\ \A m \in Taken("+")' : Quiet(file', m, pos + 2) => file'[m].value = lastAllocationPtr'
    BY <2>1, <2>4, <2>5, <2>6, <2>7
  <2> QED
    BY <2>5, <2>8, <2>9 DEF LastInv
<1>4. CASE SkipEvent
  <2>1. PICK i \in 0..(Len(allocationInfos) - 1), mode \in {"+", "-"} : GetLine(Line(mode, i))
    BY <1>4 DEF SkipEvent
  <2>2. i \in Nat
    BY InfosLength DEF IInv, TypeOK
  <2>3. UNCHANGED <<control, lastAllocationPtr, timeStamp>> /\ ~ inFilteredTime
    BY <1>4 DEF SkipEvent
  <2>4. Line(mode, i) \in Lines
    BY <2>2, LinesTyped
  <2> QED
    BY <2>1, <2>3, <2>4, LastOther
<1>5. CASE ReadTimeStamp
  <2>1. PICK stamp \in 1..MaxStamp :
            /\ GetLine(Line("c", stamp))
            /\ IF stamp < timeStamp THEN timeStamp' = timeStamp ELSE timeStamp' = stamp
            /\ UNCHANGED <<control, lastAllocationPtr>>
    BY <1>5 DEF ReadTimeStamp
  <2>2. stamp \in Nat
    OBVIOUS
  <2>3. Line("c", stamp) \in Lines /\ Line("c", stamp).mode \in {"a", "c"}
    BY <2>2, LinesTyped DEF Line
  <2>4. timeStamp' < filter[1] => timeStamp < filter[1]
    BY <1>0, <2>1, <2>2 DEF ControlOK
  <2> QED
    BY <2>1, <2>3, <2>4, LastOther
<1>6. CASE EndFirstPass \/ EndSecondPass \/ ApplyLeakSuppressions
  BY <1>6 DEF EndFirstPass, EndSecondPass, ApplyLeakSuppressions, LastInv
<1>7. CASE UNCHANGED vars
  BY <1>7 DEF vars, LastInv, Taken
<1> QED
  BY <1>1, <1>2, <1>3, <1>4, <1>5, <1>6, <1>7 DEF Next, Parse, StartSecondPass, Reparse

\* Lines that make nothing temporary.
LEMMA TemporaryStays ==
    ASSUME IInv, FileInv, TemporaryInv, phase = "reading", phase' = "reading",
           \A n \in 1..pos : file'[n] = file[n],
           Taken("-")' = Taken("-"),
           Taken("+")' = Taken("+") \/ Taken("+")' = Taken("+") \cup {pos + 1},
           totalCost'.temporary = totalCost.temporary
    PROVE  TemporaryInv'
<1>1. Taken("+") \in SUBSET (1..pos) /\ Taken("-") \in SUBSET (1..pos) /\ pos \in Nat
  BY TakenUpTo DEF FileInv
<1> DEFINE f == file
           g == file'
           plus == Taken("+")
           minus == Taken("-")
           more == Taken("+")'
<1>2. more = plus \/ more = plus \cup {pos + 1}
  OBVIOUS
<1>3. \A n \in 1..pos : g[n] = f[n]
  OBVIOUS
<1> HIDE DEF f, g, plus, minus, more
<1>10. SameStart(f, g, pos) /\ Within(plus, pos) /\ Within(minus, pos) /\ pos \in Nat
  BY <1>1, <1>3 DEF SameStart, Within, plus, minus
<1>4. Temporary(g, more, minus) = Temporary(f, plus, minus)
  BY <1>2, <1>10, TemporaryKept
<1>5. PICK zero \in SUBSET {n \in minus : f[n].value = 0} :
        totalCost.temporary = Cardinality(Temporary(f, plus, minus) \cup zero)
  BY DEF TemporaryInv, f, plus, minus
<1>6. zero \in SUBSET {n \in minus : g[n].value = 0}
  BY <1>1, <1>3, <1>5 DEF minus
<1>7. totalCost'.temporary = Cardinality(Temporary(g, more, minus) \cup zero)
  BY <1>4, <1>5
<1>8. \E z \in SUBSET {n \in minus : g[n].value = 0} :
        totalCost'.temporary = Cardinality(Temporary(g, more, minus) \cup z)
  BY <1>6, <1>7
<1>9. \E z \in SUBSET {n \in Taken("-")' : file'[n].value = 0} :
        totalCost'.temporary = Cardinality(Temporary(file', Taken("+")', Taken("-")') \cup z)
  BY <1>8 DEF g, more, minus
<1> QED
  BY <1>9 DEF TemporaryInv

\* A deallocation is counted as temporary exactly if it follows an allocation of
\* its info, or is one of info 0 and follows none.
LEMMA TemporaryDeallocation ==
    ASSUME IInv, FileInv, ClockInv, LastInv, TemporaryInv, ReadDeallocation
    PROVE  TemporaryInv'
<1>1. PICK i \in 0..(Len(allocationInfos) - 1) :
        LET temp == IF IsTemporary(i) THEN 1 ELSE 0
        IN  /\ GetLine(Line("-", i)) /\ inFilteredTime
            /\ totalCost' = [totalCost EXCEPT !.leaked = @ - allocationInfos[i + 1].size, !.temporary = @ + temp]
            /\ UNCHANGED <<control, infos>>
  BY DEF ReadDeallocation
<1>2. "-" \in {"+", "-"} /\ "+" \in {"+", "-"} /\ GetLine(Line("-", i)) /\ inFilteredTime /\ UNCHANGED <<control, infos>>
  BY <1>1
<1> DEFINE x == pos + 1
<1>3. /\ phase = "reading" /\ phase' = "reading" /\ pos \in Nat
      /\ Taken("-")' = Taken("-") \cup {x} /\ x \notin Taken("-") /\ Taken("+")' = Taken("+")
      /\ LineRead(Line("-", i)) /\ Line("-", i).value = i
  BY <1>2, EventLine
<1>4. Taken("+") \in SUBSET (1..pos) /\ Taken("-") \in SUBSET (1..pos)
      /\ IsFiniteSet(Taken("+")) /\ IsFiniteSet(Taken("-"))
  BY <1>3, TakenUpTo
<1>5. totalCost \in Total
  BY <1>3 DEF IInv, TypeOK, CostsOK
<1>6. totalCost'.temporary = totalCost.temporary + (IF lastAllocationPtr = i THEN 1 ELSE 0)
  BY <1>1, <1>5 DEF Total, IsTemporary
<1>7. file'[x].value = i /\ \A n \in 1..pos : file'[n] = file[n]
  BY <1>3 DEF LineRead
<1> DEFINE f == file
           g == file'
           plus == Taken("+")
           minus == Taken("-")
           t == Temporary(f, plus, minus)
<1>8. \A m \in plus : Quiet(g, m, x) <=> Quiet(f, m, x)
  <2> SUFFICES ASSUME NEW m \in plus PROVE Quiet(g, m, x) <=> Quiet(f, m, x)
    OBVIOUS
  <2>1. \A k \in (m + 1)..(x - 1) : k \in 1..pos
    BY <1>3, <1>4
  <2> QED
    BY <1>7, <2>1 DEF Quiet
<1>9. \A m \in plus : m < x /\ g[m] = f[m]
  BY <1>3, <1>4, <1>7
<1>10. /\ lastAllocationPtr # 0 => \E m \in plus : f[m].value = lastAllocationPtr /\ Quiet(f, m, x)
       /\ \A m \in plus : Quiet(f, m, x) => f[m].value = lastAllocationPtr
  BY <1>3 DEF LastInv
<1>11. PICK zero \in SUBSET {n \in minus : f[n].value = 0} : totalCost.temporary = Cardinality(t \cup zero)
  BY <1>3 DEF TemporaryInv
<1>12. Temporary(g, plus, minus) = t
  <2>1. plus = plus \/ plus = plus \cup {pos + 1}
    OBVIOUS
  <2>2. SameStart(f, g, pos) /\ Within(plus, pos) /\ Within(minus, pos) /\ pos \in Nat
    BY <1>3, <1>4, <1>7 DEF SameStart, Within
  <2> HIDE DEF f, g, plus, minus
  <2>3. Temporary(g, plus, minus) = Temporary(f, plus, minus)
    BY <2>1, <2>2, TemporaryKept
  <2> QED
    BY <2>3
<1>13. Temporary(g, plus, minus \cup {x}) = t \cup (IF Follows(g, plus, x) THEN {x} ELSE {})
  <2>1. Temporary(g, plus, minus \cup {x}) = Temporary(g, plus, minus) \cup (IF Follows(g, plus, x) THEN {x} ELSE {})
    BY DEF Temporary
  <2> HIDE DEF f, g, plus, minus, t
  <2> QED
    BY <1>12, <2>1
<1>14. t \subseteq minus
  BY DEF Temporary
<1>15. zero \subseteq minus /\ zero \in SUBSET {n \in minus \cup {x} : g[n].value = 0}
  BY <1>4, <1>7, <1>11
<1>16. g[x].value = i
  BY <1>7
<1>17. IsFiniteSet(t \cup zero)
  <2>1. t \cup zero \subseteq minus
    BY <1>14, <1>15
  <2> QED
    BY <1>4, <2>1, FS_Subset
<1>18. x \notin t \cup zero
  BY <1>3, <1>14, <1>15
<1>19. Cardinality(t \cup zero) \in Nat /\ Cardinality((t \cup zero) \cup {x}) = Cardinality(t \cup zero) + 1
  BY <1>17, <1>18, FS_AddElement, FS_CardinalityType
<1> DEFINE total == totalCost'.temporary
           all == Temporary(g, plus, minus \cup {x})
<1>24. total = Cardinality(t \cup zero) + (IF lastAllocationPtr = i THEN 1 ELSE 0)
  BY <1>6, <1>11
<1>20. ASSUME NEW z \in SUBSET {n \in minus \cup {x} : g[n].value = 0}, total = Cardinality(all \cup z)
       PROVE  TemporaryInv'
  <2>1. \E y \in SUBSET {n \in Taken("-")' : file'[n].value = 0} :
            totalCost'.temporary = Cardinality(Temporary(file', Taken("+")', Taken("-")') \cup y)
    BY <1>3, <1>20
  <2> QED
    BY <2>1 DEF TemporaryInv
<1> HIDE DEF f, g, plus, minus, t, total, all, x
<1>21. CASE lastAllocationPtr = i /\ Follows(g, plus, x)
  <2>1. all \cup zero = (t \cup zero) \cup {x}
    BY <1>13, <1>21 DEF all
  <2>2. Cardinality(all \cup zero) = Cardinality((t \cup zero) \cup {x})
    BY <2>1, Zenon
  <2>3. total = Cardinality(all \cup zero)
    BY <1>19, <1>21, <1>24, <2>2
  <2> QED
    BY <1>15, <1>20, <2>3
<1>22. CASE lastAllocationPtr = i /\ ~ Follows(g, plus, x)
  <2>1. lastAllocationPtr = 0
    BY <1>8, <1>9, <1>10, <1>16, <1>22 DEF Follows
  <2> DEFINE z == zero \cup {x}
  <2>2. z \in SUBSET {n \in minus \cup {x} : g[n].value = 0}
    BY <1>15, <1>16, <1>22, <2>1
  <2>3. all \cup z = (t \cup zero) \cup {x}
    BY <1>13, <1>22 DEF all
  <2>4. Cardinality(all \cup z) = Cardinality((t \cup zero) \cup {x})
    BY <2>3, Zenon
  <2>5. total = Cardinality(all \cup z)
    BY <1>19, <1>22, <1>24, <2>4
  <2> HIDE DEF z
  <2> QED
    BY <1>20, <2>2, <2>5
<1>23. CASE lastAllocationPtr # i
  <2>1. ~ Follows(g, plus, x)
    BY <1>8, <1>9, <1>10, <1>16, <1>23 DEF Follows
  <2>2. all \cup zero = t \cup zero
    BY <1>13, <2>1 DEF all
  <2>3. Cardinality(all \cup zero) = Cardinality(t \cup zero)
    BY <2>2, Zenon
  <2>4. total = Cardinality(all \cup zero)
    BY <1>19, <1>23, <1>24, <2>3
  <2> QED
    BY <1>15, <1>20, <2>4
<1> QED
  BY <1>21, <1>22, <1>23

\* The temporary allocations after every step.
LEMMA TemporaryStep ==
    ASSUME IInv, FileInv, ClockInv, ChargedInv, LastInv, TemporaryInv, [Next]_vars
    PROVE  TemporaryInv'
<1>0. ControlOK
  BY DEF IInv, TypeOK
<1>1. ASSUME NEW p, NEW again, NEW limits, NEW off, StartPass(p, again, limits, off) PROVE TemporaryInv'
  <2>1. Taken("+")' = {} /\ Taken("-")' = {} /\ totalCost' = NoTotal
    BY <1>1, NothingTaken DEF StartPass
  <2>2. Temporary(file', {}, {}) \cup {} = {} /\ {} \in SUBSET {n \in {} : file'[n].value = 0}
    BY DEF Temporary
  <2>3. Cardinality(Temporary(file', {}, {}) \cup {}) = 0
    BY <2>2, FS_EmptySet, Zenon
  <2>4. totalCost'.temporary = Cardinality(Temporary(file', {}, {}) \cup {})
    BY <2>1, <2>3 DEF NoTotal
  <2>5. \E z \in SUBSET {n \in {} : file'[n].value = 0} :
            totalCost'.temporary = Cardinality(Temporary(file', {}, {}) \cup z)
    BY <2>2, <2>4
  <2>6. \E z \in SUBSET {n \in Taken("-")' : file'[n].value = 0} :
            totalCost'.temporary = Cardinality(Temporary(file', Taken("+")', Taken("-")') \cup z)
    BY <2>1, <2>5
  <2> QED
    BY <2>6 DEF TemporaryInv
<1>2. CASE ReadInfo \/ SkipEvent \/ ReadTimeStamp
  <2>1. PICK line \in Lines : GetLine(line) /\ (line.mode \in {"a", "c"} \/ ~ inFilteredTime)
    <3>1. CASE ReadInfo
      <4>1. PICK size \in Sizes, trace \in Traces : GetLine(InfoLine(size, trace))
        BY <3>1 DEF ReadInfo
      <4>2. InfoLine(size, trace) \in Lines /\ InfoLine(size, trace).mode \in {"a", "c"}
        BY LinesTyped DEF InfoLine
      <4> QED
        BY <4>1, <4>2
    <3>2. CASE SkipEvent
      <4>1. PICK i \in 0..(Len(allocationInfos) - 1), mode \in {"+", "-"} : GetLine(Line(mode, i))
        BY <3>2 DEF SkipEvent
      <4>2. i \in Nat
        BY InfosLength DEF IInv, TypeOK
      <4> QED
        BY <3>2, <4>1, <4>2, LinesTyped DEF SkipEvent
    <3>3. CASE ReadTimeStamp
      <4>1. PICK stamp \in 1..MaxStamp : GetLine(Line("c", stamp))
        BY <3>3 DEF ReadTimeStamp
      <4>2. stamp \in Nat
        OBVIOUS
      <4>3. Line("c", stamp) \in Lines /\ Line("c", stamp).mode = "c"
        BY <4>2, LinesTyped DEF Line
      <4> QED
        BY <4>1, <4>3
    <3> QED
      BY <1>2, <3>1, <3>2, <3>3
  <2>2. UNCHANGED <<control, totalCost>>
    BY <1>2 DEF ReadInfo, SkipEvent, ReadTimeStamp
  <2>3. /\ Taken("+")' = Taken("+") /\ Taken("-")' = Taken("-")
        /\ phase = "reading" /\ phase' = "reading"
    BY <2>1, <2>2, OtherLine
  <2>4. \A n \in 1..pos : file'[n] = file[n]
    BY <2>1, LineFacts DEF LineRead
  <2> QED
    BY <2>2, <2>3, <2>4, TemporaryStays
<1>3. CASE ReadAllocation
  <2>1. PICK i \in 0..(Len(allocationInfos) - 1) :
            LET total == totalCost.leaked + allocationInfos[i + 1].size
            IN  /\ GetLine(Line("+", i)) /\ inFilteredTime
                /\ totalCost' = [totalCost EXCEPT !.allocations = @ + 1, !.leaked = total,
                                                  !.peak = IF total > @ THEN total ELSE @]
                /\ UNCHANGED <<control, infos>>
    BY <1>3 DEF ReadAllocation
  <2>2. "+" \in {"+", "-"} /\ "-" \in {"+", "-"} /\ GetLine(Line("+", i)) /\ inFilteredTime
        /\ UNCHANGED <<control, infos>>
    BY <2>1
  <2>3. /\ phase = "reading" /\ phase' = "reading"
        /\ Taken("+")' = Taken("+") \cup {pos + 1} /\ Taken("-")' = Taken("-")
        /\ LineRead(Line("+", i))
    BY <2>2, EventLine
  <2>4. totalCost \in Total
    BY <2>3 DEF IInv, TypeOK, CostsOK
  <2>5. totalCost'.temporary = totalCost.temporary
    BY <2>1, <2>4 DEF Total
  <2>6. \A n \in 1..pos : file'[n] = file[n]
    BY <2>3 DEF LineRead
  <2> QED
    BY <2>3, <2>5, <2>6, TemporaryStays
<1>4. CASE ReadDeallocation
  BY <1>4, TemporaryDeallocation
<1>5. CASE EndFirstPass \/ EndSecondPass
  <2>1. /\ Taken("+")' = Taken("+") /\ Taken("-")' = Taken("-")
        /\ phase = "reading" /\ UNCHANGED <<file, totalCost>>
    BY <1>0, <1>5, PassEnds
  <2> QED
    BY <2>1 DEF TemporaryInv
<1>6. CASE ApplyLeakSuppressions
  BY <1>6 DEF ApplyLeakSuppressions, TemporaryInv
<1>7. CASE UNCHANGED vars
  BY <1>7 DEF vars, TemporaryInv, Taken
<1> QED
  BY <1>1, <1>2, <1>3, <1>4, <1>5, <1>6, <1>7 DEF Next, Parse, StartSecondPass, Reparse

-----------------------------------------------------------------------------
(* Leaks of traces                                                         *)

LineTraces == [n \in 1..Len(file) |-> Trace(n)]

\* The leaks of a trace by the lines taken into account.
LeaksOf ==
    [t \in Traces |-> SumOver(LineSizes, Part(Taken("+"), LineTraces, t))
                    - SumOver(LineSizes, Part(Taken("-"), LineTraces, t))]

\* After a pass, and all along the first one over a new file, the lines taken into
\* account are those within the filter.
LEMMA WindowIs ==
    ASSUME FileInv, phase = "reading" => pos = Len(file), NEW mode
    PROVE  Window(mode) = Taken(mode)
<1>1. DOMAIN file = 1..Len(file)
  BY LenProperties DEF FileInv
<1>2. \A n : TimeOf(n) = Time(file, n)
  BY DEF TimeOf, Time, StampsBefore
<1> QED
  BY <1>1, <1>2 DEF Window, Taken, Seen

\* The sizes of lines that were taken into account.
LEMMA SizeOfIs ==
    ASSUME IInv, FileInv, NEW mode \in {"+", "-"}, NEW lines \in SUBSET Taken(mode)
    PROVE  /\ IsFiniteSet(lines) /\ SumOver(LineSizes, lines) \in Int
           /\ SizeOf(lines) = SumOver(LineSizes, lines)
<1>1. IsFiniteSet(lines)
  BY TakenTyped, FS_Subset
<1>2. \A n \in lines : LineSizes[n] \in Int /\ LineSizes[n] = Size(n)
  BY TakenTyped DEF Size
<1> DEFINE s == [n \in lines |-> Size(n)]
<1>3. \A n \in lines : s[n] = LineSizes[n]
  BY <1>2
<1>4. DOMAIN s = lines /\ SizeOf(lines) = SumFunctionOnSet(s, DOMAIN s)
  BY DEF SizeOf, SumFunction
<1> HIDE DEF s
<1>5. SumFunctionOnSet(s, lines) = SumFunctionOnSet(LineSizes, lines)
  BY <1>1, <1>3, SumSame
<1>6. SumFunctionOnSet(LineSizes, lines) \in Int
  BY <1>1, <1>2, SumTyped
<1> QED
  BY <1>1, <1>4, <1>5, <1>6 DEF SumOver

\* The lines of a trace are those of its allocation.
LEMMA LinesOfTrace ==
    ASSUME IInv, FileInv, NEW mode \in {"+", "-"}
    PROVE  /\ \A a \in 1..Len(allocations) :
                 Part(Taken(mode), LineTraces, allocations[a].trace) = Part(Taken(mode), LineAllocations, a)
           /\ \A t : (\A a \in 1..Len(allocations) : allocations[a].trace # t)
                     => Part(Taken(mode), LineTraces, t) = {}
           /\ \A t : Part(Taken(mode), LineTraces, t) = {n \in Taken(mode) : Trace(n) = t}
<1>1. \A n \in Taken(mode) :
        /\ LineAllocations[n] \in 1..Len(allocations)
        /\ LineTraces[n] = allocations[LineAllocations[n]].trace /\ LineTraces[n] = Trace(n)
  BY TakenTyped DEF LineTraces, Trace
<1>2. \A a, b \in 1..Len(allocations) : allocations[a].trace = allocations[b].trace => a = b
  BY DEF IInv, IndexInv
<1> QED
  BY <1>1, <1>2 DEF Part

\* What the file says a trace leaks, after a pass.
LEMMA LeakOfIs ==
    ASSUME IInv, FileInv, phase = "reading" => pos = Len(file), NEW t \in Traces
    PROVE  LeaksOf[t] = LeakOf(t) /\ LeaksOf[t] \in Int
<1> DEFINE plus == Part(Taken("+"), LineTraces, t)
           minus == Part(Taken("-"), LineTraces, t)
<1>1. "+" \in {"+", "-"} /\ "-" \in {"+", "-"}
  OBVIOUS
<1>2. plus = {n \in Window("+") : Trace(n) = t} /\ minus = {n \in Window("-") : Trace(n) = t}
  <2>1. Window("+") = Taken("+") /\ Window("-") = Taken("-")
    BY WindowIs
  <2>2. plus = {n \in Taken("+") : Trace(n) = t}
    BY <1>1, LinesOfTrace
  <2>3. minus = {n \in Taken("-") : Trace(n) = t}
    BY <1>1, LinesOfTrace
  <2> QED
    BY <2>1, <2>2, <2>3
<1>3. LeakOf(t) = SizeOf(plus) - SizeOf(minus)
  BY <1>2 DEF LeakOf
<1>4. plus \in SUBSET Taken("+") /\ minus \in SUBSET Taken("-")
  BY DEF Part
<1> HIDE DEF plus, minus
<1>5. SizeOf(plus) = SumOver(LineSizes, plus) /\ SumOver(LineSizes, plus) \in Int
  BY <1>1, <1>4, SizeOfIs
<1>6. SizeOf(minus) = SumOver(LineSizes, minus) /\ SumOver(LineSizes, minus) \in Int
  BY <1>1, <1>4, SizeOfIs
<1>7. LeaksOf[t] = SumOver(LineSizes, plus) - SumOver(LineSizes, minus)
  BY DEF LeaksOf, plus, minus
<1> QED
  BY <1>3, <1>5, <1>6, <1>7

\* What an allocation leaks is what its trace leaks; other traces leak nothing.
LEMMA LeaksOfAllocations ==
    ASSUME IInv, FileInv, ChargedInv, phase \in {"reading", "read", "ready"}
    PROVE  /\ \A a \in 1..Len(allocations) :
                /\ allocations[a].trace \in Traces
                /\ allocations[a].cost.leaked = LeaksOf[allocations[a].trace]
           /\ \A t \in Traces : (\A a \in 1..Len(allocations) : allocations[a].trace # t) => LeaksOf[t] = 0
<1>1. "+" \in {"+", "-"} /\ "-" \in {"+", "-"}
  OBVIOUS
<1>2. ASSUME NEW a \in 1..Len(allocations)
      PROVE  /\ allocations[a].trace \in Traces
             /\ allocations[a].cost.leaked = LeaksOf[allocations[a].trace]
  <2> DEFINE t == allocations[a].trace
  <2>1. t \in Traces
    BY Elements DEF Allocation
  <2>2. Part(Taken("+"), LineTraces, t) = Part(Taken("+"), LineAllocations, a)
    BY <1>1, LinesOfTrace
  <2>3. Part(Taken("-"), LineTraces, t) = Part(Taken("-"), LineAllocations, a)
    BY <1>1, LinesOfTrace
  <2>4. allocations[a].cost.leaked = SumOver(LineSizes, Part(Taken("+"), LineAllocations, a))
                                   - SumOver(LineSizes, Part(Taken("-"), LineAllocations, a))
    BY DEF ChargedInv, CostsAre
  <2> HIDE DEF t
  <2>5. LeaksOf[t] = SumOver(LineSizes, Part(Taken("+"), LineTraces, t))
                   - SumOver(LineSizes, Part(Taken("-"), LineTraces, t))
    BY <2>1 DEF LeaksOf
  <2>6. LeaksOf[t] = allocations[a].cost.leaked
    BY <2>2, <2>3, <2>4, <2>5, Zenon
  <2> QED
    BY <2>1, <2>6 DEF t
<1>3. ASSUME NEW t \in Traces, \A a \in 1..Len(allocations) : allocations[a].trace # t
      PROVE  LeaksOf[t] = 0
  <2>1. Part(Taken("+"), LineTraces, t) = {}
    BY <1>1, <1>3, LinesOfTrace
  <2>2. Part(Taken("-"), LineTraces, t) = {}
    BY <1>1, <1>3, LinesOfTrace
  <2>3. SumOver(LineSizes, {}) = 0
    BY SumNothing DEF SumOver
  <2>4. LeaksOf[t] = SumOver(LineSizes, Part(Taken("+"), LineTraces, t))
                   - SumOver(LineSizes, Part(Taken("-"), LineTraces, t))
    BY DEF LeaksOf
  <2>5. SumOver(LineSizes, Part(Taken("+"), LineTraces, t)) = 0
    BY <2>1, <2>3, Zenon
  <2>6. SumOver(LineSizes, Part(Taken("-"), LineTraces, t)) = 0
    BY <2>2, <2>3, Zenon
  <2> QED
    BY <2>4, <2>5, <2>6
<1> QED
  BY <1>2, <1>3

-----------------------------------------------------------------------------
(* What a filter of suppressions hides                                     *)

\* The traces whose leaks are suppressed.
Hidden == UNION {Matches[kind] : kind \in suppressions}

\* What is reported and what is hidden, until the next pass starts.
SuppressedInv ==
    phase = "summarized" =>
        /\ totalLeakedSuppressed = SumOver(LeaksOf, Hidden)
        /\ totalCost.leaked = SumOver(LeaksOf, Traces \ Hidden)
        /\ totalCost.leaked = SumOver(Leaks(allocations), 1..Len(allocations))

\* The values of a function by other names, of which none is used twice.
Renamed(e, D, f, T, m) ==
    /\ IsFiniteSet(D) /\ IsFiniteSet(T) /\ \A z \in T : f[z] \in Int
    /\ \A x \in D : m[x] \in T /\ e[x] = f[m[x]]
    /\ \A x, y \in D : m[x] = m[y] => x = y
    /\ \A z \in T : (\A x \in D : m[x] # z) => f[z] = 0

\* The same, from its premises under one name.
LEMMA SumMapped ==
    ASSUME NEW e, NEW D, NEW f, NEW T, NEW m, Renamed(e, D, f, T, m)
    PROVE  SumFunctionOnSet(e, D) = SumFunctionOnSet(f, T)
  BY SumRenamed DEF Renamed

\* A sum over allocations is one over traces.
LEMMA SumByTrace ==
    ASSUME IInv, NEW e, NEW f, \A t \in Traces : f[t] \in Int,
           \A a \in 1..Len(allocations) : allocations[a].trace \in Traces /\ e[a] = f[allocations[a].trace],
           \A t \in Traces : (\A a \in 1..Len(allocations) : allocations[a].trace # t) => f[t] = 0
    PROVE  SumOver(e, 1..Len(allocations)) = SumOver(f, Traces)
<1> DEFINE D == 1..Len(allocations)
           m == [a \in D |-> allocations[a].trace]
<1>1. IsFiniteSet(D) /\ IsFiniteSet(Traces)
  BY TracesAssumption, FS_Interval, LenProperties DEF IInv, TypeOK, InfosOK
<1>2. \A x \in D : m[x] \in Traces /\ e[x] = f[m[x]]
  OBVIOUS
<1>3. \A x, y \in D : m[x] = m[y] => x = y
  BY DEF IInv, IndexInv
<1>4. \A z \in Traces : (\A x \in D : m[x] # z) => f[z] = 0
  OBVIOUS
<1> HIDE DEF D, m
<1>6. Renamed(e, D, f, Traces, m)
  BY <1>1, <1>2, <1>3, <1>4 DEF Renamed
<1>5. SumFunctionOnSet(e, D) = SumFunctionOnSet(f, Traces)
  BY <1>6, SumMapped
<1> QED
  BY <1>5 DEF D, SumOver

\* Suppressions hide the leaks of the traces that they match.
LEMMA SuppressedEstablished ==
    ASSUME IInv, FileInv, SuppressionsInv, ChargedInv, ApplyLeakSuppressions
    PROVE  SuppressedInv'
<1>1. /\ phase = "read" /\ phase' = "summarized"
      /\ totalLeakedSuppressed' = HiddenLeaks
      /\ totalCost' = [totalCost EXCEPT !.leaked = @ - HiddenLeaks]
      /\ allocations' = [a \in DOMAIN allocations |->
                            IF IsSuppressed(allocations[a])
                            THEN Charge(allocations[a], - allocations[a].cost.leaked, 0, 0)
                            ELSE allocations[a]]
      /\ UNCHANGED <<file, suppressions, infos, filter>>
  BY DEF ApplyLeakSuppressions
<1> DEFINE D == 1..Len(allocations)
           hidden == Hidden
           L == LeaksOf
           inside == [t \in Traces |-> IF t \in hidden THEN L[t] ELSE 0]
           outside == [t \in Traces |-> IF t \in hidden THEN 0 ELSE L[t]]
<1>2. DOMAIN allocations = D /\ \A a \in D : allocations[a] \in Allocation
  BY Elements
<1>3. hidden \in SUBSET Traces /\ \A a \in D : IsSuppressed(allocations[a]) <=> allocations[a].trace \in hidden
  BY DEF Hidden, IsSuppressed, SuppressionsInv
<1>4. /\ \A a \in D : allocations[a].trace \in Traces /\ allocations[a].cost.leaked = L[allocations[a].trace]
      /\ \A t \in Traces : (\A a \in D : allocations[a].trace # t) => L[t] = 0
  BY <1>1, LeaksOfAllocations
<1>5. \A t \in Traces : L[t] \in Int
  BY <1>1, LeakOfIs
<1>6. IsFiniteSet(Traces) /\ IsFiniteSet(hidden) /\ IsFiniteSet(Traces \ hidden)
  BY <1>3, TracesAssumption, FS_Subset
<1> HIDE DEF hidden, L
<1>7. HiddenLeaks = SumOver(L, hidden)
  <2> DEFINE e == [a \in DOMAIN allocations |->
                    IF IsSuppressed(allocations[a]) THEN allocations[a].cost.leaked ELSE 0]
  <2>1. HiddenLeaks = SumOver(e, DOMAIN e) /\ DOMAIN e = D
    BY <1>2 DEF HiddenLeaks, SumFunction, SumOver
  <2>2. \A a \in D : allocations[a].trace \in Traces /\ e[a] = inside[allocations[a].trace]
    BY <1>2, <1>3, <1>4
  <2>3. \A t \in Traces : inside[t] \in Int
    BY <1>5
  <2>4. \A t \in Traces : (\A a \in D : allocations[a].trace # t) => inside[t] = 0
    BY <1>4
  <2> HIDE DEF e
  <2>5. (\A t \in Traces : t \notin hidden => inside[t] = 0) /\ \A t \in hidden : inside[t] = L[t]
    BY <1>3
  <2> HIDE DEF inside
  <2>6. SumOver(e, D) = SumOver(inside, Traces)
    BY <2>2, <2>3, <2>4, SumByTrace
  <2>7. SumOver(inside, Traces) = SumOver(inside, hidden)
    BY <1>3, <1>6, <2>3, <2>5, SumOfPart DEF SumOver
  <2>8. SumOver(inside, hidden) = SumOver(L, hidden)
    BY <1>6, <2>5, SumSame DEF SumOver
  <2> QED
    BY <2>1, <2>6, <2>7, <2>8
<1>8. totalCost.leaked = SumOver(L, Traces)
  <2>1. totalCost.leaked = SumOver(Leaks(allocations), D)
    BY <1>1 DEF ChargedInv, CostsAre
  <2>2. \A a \in D : allocations[a].trace \in Traces /\ Leaks(allocations)[a] = L[allocations[a].trace]
    BY <1>2, <1>4 DEF Leaks
  <2>3. SumOver(Leaks(allocations), D) = SumOver(L, Traces)
    BY <1>4, <1>5, <2>2, SumByTrace
  <2> QED
    BY <2>1, <2>3
<1>9. /\ SumOver(L, Traces) = SumOver(L, hidden) + SumOver(L, Traces \ hidden)
      /\ SumOver(L, hidden) \in Int /\ SumOver(L, Traces \ hidden) \in Int
  <2>1. SumOver(L, Traces) = SumOver(L, hidden) + SumOver(L, Traces \ hidden)
    BY <1>3, <1>5, <1>6, SumSplit DEF SumOver
  <2>2. \A t \in hidden : L[t] \in Int
    BY <1>3, <1>5
  <2>3. \A t \in Traces \ hidden : L[t] \in Int
    BY <1>5
  <2>4. SumOver(L, hidden) \in Int
    BY <1>6, <2>2, SumTyped DEF SumOver
  <2>5. SumOver(L, Traces \ hidden) \in Int
    BY <1>6, <2>3, SumTyped DEF SumOver
  <2> QED
    BY <2>1, <2>4, <2>5
<1>10. totalCost'.leaked = SumOver(L, Traces \ hidden)
  <2>1. totalCost \in Total
    BY <1>1 DEF IInv, TypeOK, CostsOK
  <2>2. totalCost'.leaked = totalCost.leaked - HiddenLeaks
    BY <1>1, <2>1 DEF Total
  <2> QED
    BY <1>7, <1>8, <1>9, <2>2
<1>11. Len(allocations') = Len(allocations) /\ DOMAIN allocations' = D
  BY <1>1, <1>2, CostsOnly DEF SameTraces
<1>12. \A a \in D : Leaks(allocations')[a] = outside[allocations[a].trace]
  <2> SUFFICES ASSUME NEW a \in D PROVE Leaks(allocations')[a] = outside[allocations[a].trace]
    OBVIOUS
  <2>1. allocations[a].cost.leaked \in Int
    BY <1>2 DEF Allocation
  <2>2. Leaks(allocations')[a] = allocations'[a].cost.leaked
    BY <1>11 DEF Leaks
  <2>3. CASE IsSuppressed(allocations[a])
    <3>1. allocations'[a] = Charge(allocations[a], - allocations[a].cost.leaked, 0, 0)
      BY <1>1, <1>2, <2>3
    <3>2. allocations'[a].cost.leaked = allocations[a].cost.leaked + (- allocations[a].cost.leaked)
      BY <3>1 DEF Charge
    <3> QED
      BY <1>3, <1>4, <2>1, <2>2, <2>3, <3>2
  <2>4. CASE ~ IsSuppressed(allocations[a])
    <3>1. allocations'[a] = allocations[a]
      BY <1>1, <1>2, <2>4
    <3> QED
      BY <1>3, <1>4, <2>2, <2>4, <3>1
  <2> QED
    BY <2>3, <2>4
<1>13. SumOver(Leaks(allocations'), D) = SumOver(L, Traces \ hidden)
  <2> DEFINE e == Leaks(allocations')
             rest == Traces \ hidden
  <2>2. \A a \in D : allocations[a].trace \in Traces /\ e[a] = outside[allocations[a].trace]
    BY <1>4, <1>12
  <2>3. \A t \in Traces : outside[t] \in Int
    BY <1>5
  <2>4. \A t \in Traces : (\A a \in D : allocations[a].trace # t) => outside[t] = 0
    BY <1>4
  <2>5. (\A t \in Traces : t \notin rest => outside[t] = 0) /\ (\A t \in rest : outside[t] = L[t])
        /\ rest \in SUBSET Traces
    OBVIOUS
  <2> HIDE DEF e, outside
  <2>6. SumOver(e, D) = SumOver(outside, Traces)
    BY <2>2, <2>3, <2>4, SumByTrace
  <2> HIDE DEF rest
  <2>7. SumOver(outside, Traces) = SumOver(outside, rest)
    BY <1>6, <2>3, <2>5, SumOfPart DEF SumOver
  <2>9. IsFiniteSet(rest)
    BY <1>6 DEF rest
  <2>8. SumOver(outside, rest) = SumOver(L, rest)
    BY <2>5, <2>9, SumSame DEF SumOver
  <2> QED
    BY <2>6, <2>7, <2>8 DEF e, rest
<1>14. Hidden' = hidden
  BY <1>1 DEF Hidden, hidden
<1>15. LeaksOf' = L
  <2>1. \A mode : Taken(mode)' = Taken(mode)
    BY <1>1 DEF Taken
  <2>2. LineSizes' = LineSizes
    BY <1>1 DEF LineSizes
  <2>3. ASSUME NEW mode \in {"+", "-"}
        PROVE  \A n \in Taken(mode) : LineTraces'[n] = LineTraces[n]
    <3> SUFFICES ASSUME NEW n \in Taken(mode) PROVE LineTraces'[n] = LineTraces[n]
      OBVIOUS
    <3>1. n \in 1..Len(file) /\ LineAllocations[n] \in D
          /\ LineAllocations[n] = allocationInfos[file[n].value + 1].allocation
      BY TakenTyped
    <3>2. LineTraces[n] = allocations[LineAllocations[n]].trace
          /\ LineTraces'[n] = allocations'[LineAllocations[n]].trace
      BY <1>1, <3>1 DEF LineTraces, Trace
    <3>3. allocations'[LineAllocations[n]].trace = allocations[LineAllocations[n]].trace
      BY <3>1, CostsOnly DEF SameTraces
    <3> QED
      BY <3>2, <3>3
  <2>4. \A t : /\ Part(Taken("+"), LineTraces', t) = Part(Taken("+"), LineTraces, t)
               /\ Part(Taken("-"), LineTraces', t) = Part(Taken("-"), LineTraces, t)
    BY <2>3 DEF Part
  <2> DEFINE sizes == LineSizes
             traces == LineTraces'
             new(t) == SumOver(sizes, Part(Taken("+"), traces, t)) - SumOver(sizes, Part(Taken("-"), traces, t))
             old(t) == SumOver(sizes, Part(Taken("+"), LineTraces, t))
                     - SumOver(sizes, Part(Taken("-"), LineTraces, t))
  <2>5. LeaksOf' = [t \in Traces |-> new(t)]
    BY <2>1, <2>2 DEF LeaksOf
  <2>6. L = [t \in Traces |-> old(t)]
    BY DEF L, LeaksOf
  <2>7. \A t : new(t) = old(t)
    BY <2>4, Zenon
  <2> HIDE DEF new, old
  <2> QED
    BY <2>5, <2>6, <2>7
<1>16. totalLeakedSuppressed' = SumOver(LeaksOf', Hidden') /\ totalCost'.leaked = SumOver(LeaksOf', Traces \ Hidden')
       /\ totalCost'.leaked = SumOver(Leaks(allocations'), 1..Len(allocations'))
  BY <1>1, <1>7, <1>10, <1>11, <1>13, <1>14, <1>15
<1> QED
  BY <1>16 DEF SuppressedInv

-----------------------------------------------------------------------------
(* Theorems about costs and suppressions                                   *)

\* All that the costs depend on.
CostInv ==
    /\ FileInv /\ SuppressionsInv /\ ClockInv
    /\ ChargedInv /\ LastInv /\ TemporaryInv /\ SuppressedInv

\* Nothing is counted of an empty file.
LEMMA InitCostInv == Init => CostInv
<1> SUFFICES ASSUME Init PROVE CostInv
  OBVIOUS
<1>1. /\ file = <<>> /\ pos = 0 /\ phase = "empty" /\ pass = "first" /\ reparsing = FALSE
      /\ suppressions = {}
  BY DEF Init
<1>2. <<>> \in Seq(Lines) /\ Len(<<>>) = 0
  BY EmptySeq
<1>3. FileInv
  BY <1>1, <1>2 DEF FileInv, FirstReading
<1>4. disabled \subseteq Kinds
  <2>1. PICK opening \in Openings : disabled = opening[2]
    BY DEF Init
  <2> QED
    BY <2>1, TraceDataAssumption DEF Filters
<1>5. SuppressionsInv
  BY <1>1, <1>4 DEF SuppressionsInv
<1>6. ClockInv /\ ChargedInv /\ LastInv /\ TemporaryInv /\ SuppressedInv
  BY <1>1 DEF ClockInv, ChargedInv, LastInv, TemporaryInv, SuppressedInv
<1> QED
  BY <1>3, <1>5, <1>6 DEF CostInv

\* Nothing changes what was suppressed before the next pass.
LEMMA SuppressedStep ==
    ASSUME IInv, FileInv, SuppressionsInv, ChargedInv, SuppressedInv, [Next]_vars
    PROVE  SuppressedInv'
<1>1. ASSUME NEW p, NEW again, NEW limits, NEW off, StartPass(p, again, limits, off) PROVE SuppressedInv'
  BY <1>1 DEF StartPass, SuppressedInv
<1>2. CASE ReadInfo \/ ReadAllocation \/ ReadDeallocation \/ SkipEvent \/ ReadTimeStamp
  BY <1>2 DEF ReadInfo, ReadAllocation, ReadDeallocation, SkipEvent, ReadTimeStamp, GetLine, SuppressedInv
<1>3. CASE EndFirstPass \/ EndSecondPass
  BY <1>3 DEF EndFirstPass, EndSecondPass, SuppressedInv
<1>4. CASE ApplyLeakSuppressions
  BY <1>4, SuppressedEstablished
<1>5. CASE UNCHANGED vars
  BY <1>5 DEF vars, SuppressedInv, Hidden, LeaksOf, LineSizes, LineTraces, Trace, Taken
<1> QED
  BY <1>1, <1>2, <1>3, <1>4, <1>5 DEF Next, Parse, StartSecondPass, Reparse

\* The costs of every step.
LEMMA CostsInvariance == Spec => []CostInv
<1>1. IInv /\ CostInv /\ [Next]_vars => CostInv'
  BY FileStep, ChargedStep, LastStep, TemporaryStep, SuppressedStep DEF CostInv
<1> QED
  BY InitCostInv, Invariance, <1>1, PTL DEF Spec

\* The costs of a pass follow from the lines of the file within the filter alone:
\* what the first pass, the second pass and reparses compute is what a count of
\* those lines would give, for files of any length (parseLine of
\* AccumulatedTraceData, clearCost).  This is where lastAllocationPtr, the clock
\* and the early end of a pass have to agree with the lines.
THEOREM CostsFollow == Spec => []CostsOfFile
<1>1. IInv /\ CostInv => CostsOfFile
  <2> SUFFICES ASSUME IInv, CostInv, phase \in {"read", "ready"} PROVE CostsOfFile
    BY DEF CostsOfFile
  <2>1. FileInv /\ ChargedInv /\ TemporaryInv /\ phase # "reading"
    BY DEF CostInv
  <2>2. "+" \in {"+", "-"} /\ "-" \in {"+", "-"}
    OBVIOUS
  <2>3. Window("+") = Taken("+") /\ Window("-") = Taken("-")
    BY <2>1, WindowIs
  <2>4. CostsAre(allocations, totalCost, LineSizes, LineAllocations, Taken("+"), Taken("-"))
    BY <2>1 DEF ChargedInv
  <2>5. DOMAIN allocations = 1..Len(allocations)
    BY Elements
  <2>6. ASSUME NEW a \in 1..Len(allocations)
        PROVE  LET t == allocations[a].trace IN
               /\ allocations[a].cost.leaked = LeakOf(t)
               /\ allocations[a].cost.allocations = Cardinality({n \in Window("+") : Trace(n) = t})
    <3> DEFINE t == allocations[a].trace
    <3>1. t \in Traces /\ allocations[a].cost.leaked = LeaksOf[t]
      BY <2>1, LeaksOfAllocations
    <3>2. LeaksOf[t] = LeakOf(t)
      BY <2>1, <3>1, LeakOfIs
    <3>3. Part(Taken("+"), LineTraces, t) = Part(Taken("+"), LineAllocations, a)
      BY <2>1, <2>2, LinesOfTrace
    <3>4. Part(Taken("+"), LineTraces, t) = {n \in Taken("+") : Trace(n) = t}
      BY <2>1, <2>2, LinesOfTrace
    <3>5. allocations[a].cost.allocations = Cardinality(Part(Taken("+"), LineAllocations, a))
      BY <2>4 DEF CostsAre
    <3> HIDE DEF t
    <3>6. {n \in Window("+") : Trace(n) = t} = Part(Taken("+"), LineAllocations, a)
      BY <2>3, <3>3, <3>4
    <3>7. allocations[a].cost.allocations = Cardinality({n \in Window("+") : Trace(n) = t})
      BY <3>5, <3>6, Zenon
    <3>8. allocations[a].cost.leaked = LeakOf(t)
      BY <3>1, <3>2 DEF t
    <3> QED
      BY <3>7, <3>8 DEF t
  <2>7. totalCost.allocations = Cardinality(Window("+"))
    BY <2>3, <2>4 DEF CostsAre
  <2>8. totalCost.leaked = SizeOf(Window("+")) - SizeOf(Window("-"))
    <3>1. Taken("+") \in SUBSET Taken("+") /\ Taken("-") \in SUBSET Taken("-")
      OBVIOUS
    <3>2. SizeOf(Taken("+")) = SumOver(LineSizes, Taken("+"))
      BY <2>1, <2>2, <3>1, SizeOfIs
    <3>3. SizeOf(Taken("-")) = SumOver(LineSizes, Taken("-"))
      BY <2>1, <2>2, <3>1, SizeOfIs
    <3>4. totalCost.leaked = SumOver(LineSizes, Taken("+")) - SumOver(LineSizes, Taken("-"))
      BY <2>4 DEF CostsAre
    <3> QED
      BY <2>3, <3>2, <3>3, <3>4
  <2>9. totalCost.temporary = SumFunction([a \in DOMAIN allocations |-> allocations[a].cost.temporary])
    <3>1. totalCost.temporary = SumOver(Temporaries(allocations), DOMAIN allocations)
      BY <2>4, <2>5 DEF CostsAre
    <3> QED
      BY <3>1 DEF SumOver, SumFunction, Temporaries
  <2>10. \E zero \in SUBSET {n \in Window("-") : file[n].value = 0} :
            totalCost.temporary = Cardinality({n \in Window("-") : FollowsAllocation(n)} \cup zero)
    <3>1. PICK zero \in SUBSET {n \in Taken("-") : file[n].value = 0} :
            totalCost.temporary = Cardinality(Temporary(file, Taken("+"), Taken("-")) \cup zero)
      BY <2>1 DEF TemporaryInv
    <3>2. \A n : FollowsAllocation(n) <=> Follows(file, Taken("+"), n)
      BY <2>3 DEF FollowsAllocation, Follows, Quiet
    <3>3. {n \in Window("-") : FollowsAllocation(n)} = Temporary(file, Taken("+"), Taken("-"))
      BY <2>3, <3>2 DEF Temporary
    <3>4. totalCost.temporary = Cardinality({n \in Window("-") : FollowsAllocation(n)} \cup zero)
      BY <3>1, <3>3, Zenon
    <3>5. zero \in SUBSET {n \in Window("-") : file[n].value = 0}
      BY <2>3, <3>1
    <3> QED
      BY <3>4, <3>5
  <2> QED
    BY <2>5, <2>6, <2>7, <2>8, <2>9, <2>10 DEF CostsOfFile
<1> QED
  BY Invariance, CostsInvariance, <1>1, PTL

\* Suppressions neither lose a leak nor count one twice, whatever earlier parses
\* suppressed: what is reported and what is hidden are the leaks that follow from
\* the file (applyLeakSuppressions), and what is hidden follows from the filter
\* but for a reparse that disables the built-in suppressions.
THEOREM SuppressionsHide == Spec => []SuppressionsAddUp
<1>1. IInv /\ CostInv => SuppressionsAddUp
  <2> SUFFICES ASSUME IInv, CostInv, phase = "summarized" PROVE SuppressionsAddUp
    BY DEF SuppressionsAddUp
  <2>1. FileInv /\ SuppressionsInv /\ SuppressedInv /\ phase # "reading" /\ phase # "empty"
    BY DEF CostInv
  <2> DEFINE hidden == UNION {Matches[kind] : kind \in suppressions}
             reported == Traces \ hidden
  <2>2. Hidden = hidden /\ hidden \subseteq Traces
    BY <2>1 DEF Hidden, SuppressionsInv
  <2>3. IsFiniteSet(hidden) /\ IsFiniteSet(reported)
    BY <2>2, TracesAssumption, FS_Subset
  <2> HIDE DEF hidden
  <2>4. \A t \in Traces : LeaksOf[t] = LeakOf(t)
    BY <2>1, LeakOfIs
  <2>5. SumFunction([t \in hidden |-> LeakOf(t)]) = SumOver(LeaksOf, hidden)
    <3> DEFINE e == [t \in hidden |-> LeakOf(t)]
    <3>1. DOMAIN e = hidden /\ \A t \in hidden : LeaksOf[t] = e[t]
      BY <2>2, <2>4
    <3>2. SumFunction(e) = SumFunctionOnSet(e, DOMAIN e)
      BY DEF SumFunction
    <3> HIDE DEF e
    <3>3. SumFunctionOnSet(LeaksOf, hidden) = SumFunctionOnSet(e, hidden)
      BY <2>3, <3>1, SumSame
    <3>4. SumFunction(e) = SumFunctionOnSet(LeaksOf, hidden)
      BY <3>1, <3>2, <3>3
    <3> QED
      BY <3>4 DEF e, SumOver
  <2>6. SumFunction([t \in reported |-> LeakOf(t)]) = SumOver(LeaksOf, reported)
    <3> DEFINE e == [t \in reported |-> LeakOf(t)]
    <3>1. DOMAIN e = reported /\ \A t \in reported : LeaksOf[t] = e[t]
      BY <2>4
    <3>2. SumFunction(e) = SumFunctionOnSet(e, DOMAIN e)
      BY DEF SumFunction
    <3> HIDE DEF e
    <3>3. SumFunctionOnSet(LeaksOf, reported) = SumFunctionOnSet(e, reported)
      BY <2>3, <3>1, SumSame
    <3>4. SumFunction(e) = SumFunctionOnSet(LeaksOf, reported)
      BY <3>1, <3>2, <3>3
    <3> QED
      BY <3>4 DEF e, SumOver
  <2>7. /\ totalLeakedSuppressed = SumOver(LeaksOf, hidden)
        /\ totalCost.leaked = SumOver(LeaksOf, reported)
        /\ totalCost.leaked = SumOver(Leaks(allocations), 1..Len(allocations))
    BY <2>1, <2>2 DEF SuppressedInv
  <2>8. totalCost.leaked = SumFunction(Leaks(allocations))
    <3>1. DOMAIN Leaks(allocations) = 1..Len(allocations)
      BY Elements DEF Leaks
    <3> QED
      BY <2>7, <3>1 DEF SumFunction, SumOver
  <2>9. suppressions = Kinds \ disabled \/ (reparsing /\ "builtin" \in disabled)
    BY <2>1 DEF SuppressionsInv
  <2> QED
    BY <2>5, <2>6, <2>7, <2>8, <2>9 DEF SuppressionsAddUp, hidden
<1> QED
  BY Invariance, CostsInvariance, <1>1, PTL

-----------------------------------------------------------------------------
(* The replay of a snippet                                                 *)

\* The function that a replay of n events computes.
IsReplay(f, starting, events, n) ==
    f = [k \in 0..n |-> IF k = 0 THEN starting ELSE Replay(f[k - 1], events[k])]

\* The leaks after some events are a value of that function.
LEMMA LeaksAfterIs ==
    ASSUME NEW snippet, NEW n
    PROVE  LeaksAfter(snippet, n) = (CHOOSE f : IsReplay(f, snippet.starting, snippet.events, n))[n]
  BY DEF LeaksAfter, IsReplay

\* There is one for any number of events.
LEMMA ReplayExists ==
    ASSUME NEW starting, NEW events PROVE \A n \in Nat : \E f : IsReplay(f, starting, events, n)
<1> DEFINE S == {n \in Nat : \E f : IsReplay(f, starting, events, n)}
<1>1. 0 \in S
  <2> DEFINE f == [k \in 0..0 |-> starting]
  <2>1. IsReplay(f, starting, events, 0)
    BY DEF IsReplay
  <2> HIDE DEF f
  <2> QED
    BY <2>1
<1>2. ASSUME NEW n \in Nat, n \in S PROVE n + 1 \in S
  <2>1. PICK f : IsReplay(f, starting, events, n)
    BY <1>2
  <2> DEFINE g == [k \in 0..(n + 1) |-> IF k = n + 1 THEN Replay(f[n], events[n + 1]) ELSE f[k]]
  <2>2. \A k \in 0..n : f[k] = IF k = 0 THEN starting ELSE Replay(f[k - 1], events[k])
    BY <2>1 DEF IsReplay
  <2>3. ASSUME NEW k \in 0..(n + 1)
        PROVE  g[k] = IF k = 0 THEN starting ELSE Replay(g[k - 1], events[k])
    <3>1. CASE k = 0
      BY <2>2, <3>1
    <3>2. CASE k = n + 1
      <4>1. g[k - 1] = f[n] /\ k # 0 /\ g[k] = Replay(f[n], events[k])
        BY <3>2
      <4> HIDE DEF g
      <4> QED
        BY <4>1
    <3>3. CASE k # 0 /\ k # n + 1
      <4>1. k \in 0..n /\ g[k] = f[k] /\ g[k - 1] = f[k - 1]
        BY <3>3
      <4> HIDE DEF g
      <4>2. f[k] = Replay(f[k - 1], events[k])
        BY <2>2, <3>3, <4>1
      <4> QED
        BY <3>3, <4>1, <4>2
    <3> QED
      BY <3>1, <3>2, <3>3
  <2>4. g = [k \in 0..(n + 1) |-> g[k]]
    OBVIOUS
  <2> HIDE DEF g
  <2>5. IsReplay(g, starting, events, n + 1)
    BY <2>3, <2>4 DEF IsReplay
  <2> QED
    BY <2>5
<1> HIDE DEF S
<1>3. \A n \in Nat : n \in S
  BY <1>1, <1>2, Induction
<1> QED
  BY <1>3 DEF S

\* Replays of different lengths agree as far as both go.
LEMMA ReplaySame ==
    ASSUME NEW starting, NEW events, NEW n \in Nat, NEW m \in Nat, n <= m,
           NEW f, NEW g, IsReplay(f, starting, events, n), IsReplay(g, starting, events, m)
    PROVE  \A k \in 0..n : f[k] = g[k]
<1> DEFINE S == {k \in Nat : k <= n => f[k] = g[k]}
<1>0. /\ \A k \in 0..n : f[k] = IF k = 0 THEN starting ELSE Replay(f[k - 1], events[k])
      /\ \A k \in 0..m : g[k] = IF k = 0 THEN starting ELSE Replay(g[k - 1], events[k])
  BY DEF IsReplay
<1>1. 0 \in S
  BY <1>0
<1>2. ASSUME NEW k \in Nat, k \in S PROVE k + 1 \in S
  <2> SUFFICES ASSUME k + 1 <= n PROVE f[k + 1] = g[k + 1]
    OBVIOUS
  <2>1. f[k] = g[k] /\ k + 1 \in 0..n /\ k + 1 \in 0..m /\ k + 1 # 0 /\ (k + 1) - 1 = k
    BY <1>2
  <2>2. f[k + 1] = Replay(f[k], events[k + 1]) /\ g[k + 1] = Replay(g[k], events[k + 1])
    BY <1>0, <2>1
  <2> QED
    BY <2>1, <2>2
<1> HIDE DEF S
<1>3. \A k \in Nat : k \in S
  BY <1>1, <1>2, Induction
<1> QED
  BY <1>3 DEF S

\* A replay goes on with the next event.
LEMMA LeaksAfterSteps ==
    ASSUME NEW snippet, NEW n \in Nat
    PROVE  /\ LeaksAfter(snippet, 0) = snippet.starting
           /\ LeaksAfter(snippet, n + 1) = Replay(LeaksAfter(snippet, n), snippet.events[n + 1])
<1> DEFINE f == CHOOSE h : IsReplay(h, snippet.starting, snippet.events, 0)
           g == CHOOSE h : IsReplay(h, snippet.starting, snippet.events, n)
           e == CHOOSE h : IsReplay(h, snippet.starting, snippet.events, n + 1)
<1>1. /\ IsReplay(f, snippet.starting, snippet.events, 0)
      /\ IsReplay(g, snippet.starting, snippet.events, n)
      /\ IsReplay(e, snippet.starting, snippet.events, n + 1)
  <2>1. 0 \in Nat /\ n + 1 \in Nat
    OBVIOUS
  <2> QED
    BY <2>1, ReplayExists
<1>2. /\ LeaksAfter(snippet, 0) = f[0] /\ LeaksAfter(snippet, n) = g[n]
      /\ LeaksAfter(snippet, n + 1) = e[n + 1]
  BY LeaksAfterIs
<1> HIDE DEF f, g, e
<1>3. f[0] = snippet.starting
  BY <1>1 DEF IsReplay
<1>4. e[n + 1] = Replay(e[n], snippet.events[n + 1])
  BY <1>1 DEF IsReplay
<1>5. g[n] = e[n]
  <2>1. n <= n + 1 /\ n + 1 \in Nat /\ n \in 0..n
    OBVIOUS
  <2> QED
    BY <1>1, <2>1, ReplaySame
<1> QED
  BY <1>2, <1>3, <1>4, <1>5

\* A replay depends on the events replayed only.
LEMMA LeaksAfterSame ==
    ASSUME NEW snippet, NEW other, NEW n \in Nat, other.starting = snippet.starting,
           \A k \in 1..n : other.events[k] = snippet.events[k]
    PROVE  LeaksAfter(other, n) = LeaksAfter(snippet, n)
<1> DEFINE S == {k \in Nat : k <= n => LeaksAfter(other, k) = LeaksAfter(snippet, k)}
<1>1. 0 \in S
  <2>1. LeaksAfter(other, 0) = other.starting /\ LeaksAfter(snippet, 0) = snippet.starting
    BY LeaksAfterSteps
  <2> QED
    BY <2>1
<1>2. ASSUME NEW k \in Nat, k \in S PROVE k + 1 \in S
  <2> SUFFICES ASSUME k + 1 <= n PROVE LeaksAfter(other, k + 1) = LeaksAfter(snippet, k + 1)
    OBVIOUS
  <2>1. LeaksAfter(other, k) = LeaksAfter(snippet, k) /\ k + 1 \in 1..n
    BY <1>2
  <2>2. LeaksAfter(other, k + 1) = Replay(LeaksAfter(other, k), other.events[k + 1])
    BY LeaksAfterSteps
  <2>3. LeaksAfter(snippet, k + 1) = Replay(LeaksAfter(snippet, k), snippet.events[k + 1])
    BY LeaksAfterSteps
  <2> QED
    BY <2>1, <2>2, <2>3
<1> HIDE DEF S
<1>3. n \in S
  BY <1>1, <1>2, Induction
<1> QED
  BY <1>3 DEF S

\* The values are the leaks, but that zeros at the end may be missing.
Padded(values, leaks) ==
    /\ values \in Seq(Int) /\ Len(values) <= Len(leaks)
    /\ \A a \in 1..Len(leaks) : leaks[a] = IF a <= Len(values) THEN values[a] ELSE 0

\* The leaks after an event.
Leaked(leaks, event) ==
    [leaks EXCEPT ![event.allocation] = IF event.isAlloc THEN @ + event.size ELSE @ - event.size]

\* Replaying an event keeps up with the leaks.
LEMMA ReplayPads ==
    ASSUME NEW leaks \in Seq(Int), NEW values, Padded(values, leaks),
           NEW event \in Event, event.allocation \in 1..Len(leaks)
    PROVE  Padded(Replay(values, event), Leaked(leaks, event))
<1> DEFINE b == event.allocation
           n == IF b > Len(values) THEN b ELSE Len(values)
           resized == [a \in 1..n |-> IF a <= Len(values) THEN values[a] ELSE 0]
           more == Replay(values, event)
           after == Leaked(leaks, event)
           d == IF event.isAlloc THEN event.size ELSE - event.size
<1>1. /\ values \in Seq(Int) /\ Len(values) \in Nat /\ Len(leaks) \in Nat /\ Len(values) <= Len(leaks)
      /\ \A a \in 1..Len(leaks) : leaks[a] = IF a <= Len(values) THEN values[a] ELSE 0
      /\ \A a \in 1..Len(values) : values[a] \in Int
      /\ DOMAIN leaks = 1..Len(leaks) /\ \A a \in 1..Len(leaks) : leaks[a] \in Int
  BY LenProperties, ElementOfSeq DEF Padded
<1>2. b \in 1..Len(leaks) /\ d \in Int /\ event.size \in Int /\ event.isAlloc \in BOOLEAN
  <2>1. event.size \in Sizes /\ event.isAlloc \in BOOLEAN
    BY DEF Event
  <2>2. event.size \in Int
    <3>1. \A size \in Sizes : size \in Int
      OBVIOUS
    <3> QED
      BY <2>1, <3>1
  <2> QED
    BY <2>1, <2>2
<1>3. n \in Nat /\ b \in 1..n /\ n <= Len(leaks) /\ Len(values) <= n
  BY <1>1, <1>2
<1>4. resized \in [1..n -> Int] /\ \A a \in 1..n : resized[a] = leaks[a]
  BY <1>1, <1>3
<1>5. more = [resized EXCEPT ![b] = IF event.isAlloc THEN @ + event.size ELSE @ - event.size]
  BY DEF Replay
<1> HIDE DEF n, resized
<1>6. more \in [1..n -> Int] /\ \A a \in 1..n : more[a] = IF a = b THEN leaks[b] + d ELSE leaks[a]
  <2> HIDE DEF more, b
  <2>1. more \in [1..n -> Int]
    BY <1>2, <1>3, <1>4, <1>5
  <2>2. \A a \in 1..n : more[a] = IF a = b THEN leaks[b] + d ELSE leaks[a]
    BY <1>2, <1>3, <1>4, <1>5
  <2> QED
    BY <2>1, <2>2
<1>7. /\ DOMAIN after = 1..Len(leaks)
      /\ \A a \in 1..Len(leaks) : after[a] = IF a = b THEN leaks[b] + d ELSE leaks[a]
  <2> HIDE DEF b
  <2> QED
    BY <1>1, <1>2 DEF Leaked, b
<1>8. after \in [1..Len(leaks) -> Int]
  <2>1. after = [a \in 1..Len(leaks) |-> after[a]]
    BY <1>7 DEF Leaked
  <2> HIDE DEF after, d
  <2>2. \A a \in 1..Len(leaks) : after[a] \in Int
    BY <1>1, <1>2, <1>7
  <2> QED
    BY <2>1, <2>2
<1> HIDE DEF more, after, d, b
<1>9. Len(after) = Len(leaks)
  BY <1>1, <1>8, FunctionIsSeq
<1>10. more \in Seq(Int) /\ Len(more) = n
  BY <1>3, <1>6, FunctionIsSeq
<1>11. \A a \in 1..Len(leaks) : after[a] = IF a <= n THEN more[a] ELSE 0
  BY <1>1, <1>3, <1>6, <1>7
<1>12. Padded(more, after)
  BY <1>3, <1>9, <1>10, <1>11 DEF Padded
<1> QED
  BY <1>12 DEF more, after

-----------------------------------------------------------------------------
(* Values of allocations by their traces                                   *)

\* The positions of the values that are of a trace.
Places(allocs, values, t) == {b \in DOMAIN values : allocs[b].trace = t}

\* Values of allocations by their traces, as ByTrace.
PerTrace(allocs, values) ==
    [t \in Traces |-> SumFunction([a \in Places(allocs, values, t) |-> values[a]])]

\* No two allocations have the same trace.
Distinct(allocs) ==
    \A a, b \in 1..Len(allocs) : allocs[a].trace = allocs[b].trace => a = b

\* Numbers for some of the allocations.
Values(allocs, values) == values \in Seq(Int) /\ Len(values) <= Len(allocs)

\* The value of a trace is the one of its allocation.
LEMMA ShownAt ==
    ASSUME NEW allocs \in Seq(Allocation), Distinct(allocs), NEW values, Values(allocs, values),
           NEW b \in 1..Len(values), NEW t \in Traces, allocs[b].trace = t
    PROVE  PerTrace(allocs, values)[t] = values[b]
<1>1. /\ DOMAIN values = 1..Len(values) /\ Len(values) \in Nat /\ Len(allocs) \in Nat
      /\ Len(values) <= Len(allocs) /\ values[b] \in Int
  BY LenProperties, ElementOfSeq DEF Values
<1>2. Places(allocs, values, t) = {b}
  BY <1>1 DEF Places, Distinct
<1> DEFINE f == [a \in Places(allocs, values, t) |-> values[a]]
<1>3. DOMAIN f = {b} /\ f[b] = values[b]
  BY <1>2
<1>4. PerTrace(allocs, values)[t] = SumFunction(f)
  BY DEF PerTrace
<1>5. SumFunction(f) = SumFunctionOnSet(f, DOMAIN f)
  BY DEF SumFunction
<1> HIDE DEF f
<1>6. SumFunctionOnSet(f, {b}) = f[b] + SumFunctionOnSet(f, {b} \ {b})
  <2>1. IsFiniteSet({b}) /\ b \in {b} /\ \A x \in {b} : f[x] \in Int
    BY <1>1, <1>3, FS_Singleton
  <2> QED
    BY <2>1, SumAdded
<1>7. SumFunctionOnSet(f, {b} \ {b}) = 0
  <2>1. {b} \ {b} = {}
    OBVIOUS
  <2>2. SumFunctionOnSet(f, {}) = 0
    BY SumNothing
  <2> QED
    BY <2>1, <2>2, Zenon
<1>8. SumFunctionOnSet(f, DOMAIN f) = SumFunctionOnSet(f, {b})
  BY <1>3, Zenon
<1> QED
  BY <1>1, <1>3, <1>4, <1>5, <1>6, <1>7, <1>8

\* A trace that has no allocation has no value.
LEMMA ShownOther ==
    ASSUME NEW allocs, NEW values, NEW t \in Traces, Places(allocs, values, t) = {}
    PROVE  PerTrace(allocs, values)[t] = 0
<1> DEFINE f == [a \in Places(allocs, values, t) |-> values[a]]
<1>1. DOMAIN f = {}
  OBVIOUS
<1>2. PerTrace(allocs, values)[t] = SumFunction(f)
  BY DEF PerTrace
<1>3. SumFunction(f) = SumFunctionOnSet(f, DOMAIN f)
  BY DEF SumFunction
<1> HIDE DEF f
<1>4. SumFunctionOnSet(f, DOMAIN f) = SumFunctionOnSet(f, {})
  BY <1>1, Zenon
<1>5. SumFunctionOnSet(f, {}) = 0
  BY SumNothing
<1> QED
  BY <1>2, <1>3, <1>4, <1>5

\* What is shown is numbers, the same with and without zeros at the end.
LEMMA ShownPadded ==
    ASSUME NEW allocs \in Seq(Allocation), Distinct(allocs), NEW leaks, Values(allocs, leaks),
           NEW values, Padded(values, leaks)
    PROVE  PerTrace(allocs, values) = PerTrace(allocs, leaks)
<1>1. /\ values \in Seq(Int) /\ Len(values) \in Nat /\ Len(leaks) \in Nat /\ Len(allocs) \in Nat
      /\ Len(values) <= Len(leaks) /\ Len(leaks) <= Len(allocs)
      /\ DOMAIN values = 1..Len(values) /\ DOMAIN leaks = 1..Len(leaks)
      /\ \A a \in 1..Len(leaks) : leaks[a] = IF a <= Len(values) THEN values[a] ELSE 0
  BY LenProperties DEF Values, Padded
<1>2. Values(allocs, values)
  BY <1>1 DEF Values
<1>3. ASSUME NEW t \in Traces PROVE PerTrace(allocs, values)[t] = PerTrace(allocs, leaks)[t]
  <2>1. CASE \E b \in 1..Len(values) : allocs[b].trace = t
    <3>1. PICK b \in 1..Len(values) : allocs[b].trace = t
      BY <2>1
    <3>2. b \in 1..Len(leaks) /\ leaks[b] = values[b]
      BY <1>1
    <3>3. PerTrace(allocs, values)[t] = values[b]
      BY <1>2, <3>1, ShownAt
    <3>4. PerTrace(allocs, leaks)[t] = leaks[b]
      BY <3>1, <3>2, ShownAt
    <3> QED
      BY <3>2, <3>3, <3>4
  <2>2. CASE ~ \E b \in 1..Len(values) : allocs[b].trace = t
    <3>1. Places(allocs, values, t) = {}
      BY <1>1, <2>2 DEF Places
    <3>2. PerTrace(allocs, values)[t] = 0
      BY <3>1, ShownOther
    <3>3. CASE Places(allocs, leaks, t) = {}
      BY <3>2, <3>3, ShownOther
    <3>4. CASE Places(allocs, leaks, t) # {}
      <4>1. PICK b \in 1..Len(leaks) : allocs[b].trace = t
        BY <1>1, <3>4 DEF Places
      <4>2. PerTrace(allocs, leaks)[t] = leaks[b]
        BY <4>1, ShownAt
      <4>3. leaks[b] = 0
        BY <1>1, <2>2, <4>1
      <4> QED
        BY <3>2, <4>2, <4>3
    <3> QED
      BY <3>3, <3>4
  <2> QED
    BY <2>1, <2>2
<1>4. PerTrace(allocs, values) = [t \in Traces |-> PerTrace(allocs, values)[t]]
  BY DEF PerTrace
<1>5. PerTrace(allocs, leaks) = [t \in Traces |-> PerTrace(allocs, leaks)[t]]
  BY DEF PerTrace
<1> QED
  BY <1>3, <1>4, <1>5

\* Only the traces of the allocations matter.
LEMMA ShownSameTraces ==
    ASSUME NEW allocs, NEW more, NEW values, \A b \in DOMAIN values : more[b].trace = allocs[b].trace
    PROVE  PerTrace(more, values) = PerTrace(allocs, values)
<1>1. ASSUME NEW t \in Traces PROVE PerTrace(more, values)[t] = PerTrace(allocs, values)[t]
  <2>1. Places(more, values, t) = Places(allocs, values, t)
    BY DEF Places
  <2>2. SumFunction([a \in Places(more, values, t) |-> values[a]])
          = SumFunction([a \in Places(allocs, values, t) |-> values[a]])
    BY <2>1, Zenon
  <2> QED
    BY <2>2 DEF PerTrace
<1>2. PerTrace(more, values) = [t \in Traces |-> PerTrace(more, values)[t]]
  BY DEF PerTrace
<1>3. PerTrace(allocs, values) = [t \in Traces |-> PerTrace(allocs, values)[t]]
  BY DEF PerTrace
<1> QED
  BY <1>1, <1>2, <1>3

\* Values add up to the same by traces and by allocations.
LEMMA ShownSum ==
    ASSUME NEW allocs \in Seq(Allocation), Distinct(allocs), NEW values, Values(allocs, values)
    PROVE  SumFunction(PerTrace(allocs, values)) = SumOver(values, 1..Len(values))
<1> DEFINE perTrace == PerTrace(allocs, values)
           D == 1..Len(values)
           m == [a \in D |-> allocs[a].trace]
<1>1. /\ Len(values) \in Nat /\ DOMAIN values = D /\ \A a \in D : values[a] \in Int
      /\ Len(values) <= Len(allocs) /\ Len(allocs) \in Nat
      /\ \A a \in 1..Len(allocs) : allocs[a] \in Allocation
  BY LenProperties, ElementOfSeq DEF Values
<1>4. \A a \in D : m[a] \in Traces
  <2> SUFFICES ASSUME NEW a \in D PROVE allocs[a].trace \in Traces
    OBVIOUS
  <2>1. a \in 1..Len(allocs)
    BY <1>1
  <2>2. allocs[a] \in Allocation
    BY <1>1, <2>1
  <2> QED
    BY <2>2 DEF Allocation
<1> HIDE DEF perTrace
<1>5. \A a \in D : perTrace[m[a]] = values[a]
  <2> SUFFICES ASSUME NEW a \in D PROVE perTrace[m[a]] = values[a]
    OBVIOUS
  <2>1. a \in 1..Len(values) /\ allocs[a].trace = m[a] /\ m[a] \in Traces
    BY <1>4
  <2> DEFINE t == m[a]
  <2>3. t \in Traces /\ allocs[a].trace = t
    BY <2>1
  <2> HIDE DEF D, m, t
  <2>2. PerTrace(allocs, values)[t] = values[a]
    BY <2>1, <2>3, ShownAt
  <2> QED
    BY <2>2 DEF perTrace, t
<1>6. ASSUME NEW t \in Traces, \A a \in D : m[a] # t PROVE perTrace[t] = 0
  <2>1. Places(allocs, values, t) = {}
    BY <1>1, <1>6 DEF Places
  <2> QED
    BY <2>1, ShownOther DEF perTrace
<1>7. \A t \in Traces : perTrace[t] \in Int
  <2> SUFFICES ASSUME NEW t \in Traces PROVE perTrace[t] \in Int
    OBVIOUS
  <2> HIDE DEF D, m
  <2>1. CASE \A a \in D : m[a] # t
    BY <1>6, <2>1
  <2>2. CASE \E a \in D : m[a] = t
    BY <1>1, <1>5, <2>2
  <2> QED
    BY <2>1, <2>2
<1>8. \A a, b \in D : m[a] = m[b] => a = b
  BY <1>1 DEF Distinct
<1>9. IsFiniteSet(D) /\ IsFiniteSet(Traces)
  BY <1>1, FS_Interval, TracesAssumption
<1> HIDE DEF D, m
<1>10. Renamed(values, D, perTrace, Traces, m)
  BY <1>4, <1>5, <1>6, <1>7, <1>8, <1>9 DEF Renamed
<1>11. SumFunctionOnSet(values, D) = SumFunctionOnSet(perTrace, Traces)
  BY <1>10, SumMapped
<1>12. DOMAIN perTrace = Traces
  BY DEF perTrace, PerTrace
<1>13. SumFunction(perTrace) = SumFunctionOnSet(perTrace, DOMAIN perTrace)
  BY DEF SumFunction
<1>14. SumFunctionOnSet(perTrace, DOMAIN perTrace) = SumFunctionOnSet(perTrace, Traces)
  BY <1>12, Zenon
<1> QED
  BY <1>11, <1>13, <1>14 DEF SumOver, perTrace, D

-----------------------------------------------------------------------------
(* What the tracker knows                                                  *)

\* The snippet that finalize() would keep.
Kept(tracker) == IF tracker.curr.peakMem > tracker.peak.peakMem THEN tracker.curr ELSE tracker.peak

\* What a replay of a snippet up to its peak gives are values of n allocations.
SnippetOK(snippet, n) ==
    /\ snippet.peakIdx <= Len(snippet.events)
    /\ PeakAllocations(snippet) \in Seq(Int) /\ Len(PeakAllocations(snippet)) <= n

\* A replay of all events of the current snippet gives the present leaks.
KnowsLeaks(tracker, allocs) ==
    /\ Padded(LeaksAfter(tracker.curr, Len(tracker.curr.events)), Leaks(allocs))
    /\ SnippetOK(tracker.curr, Len(allocs)) /\ SnippetOK(tracker.peak, Len(allocs))

\* After an event the snippet to keep is one at whose peak the leaks were the
\* present ones, if the total is a new peak, and as good as before if not.
KeepsPeak(tracker, next, total, allocs) ==
    IF total > Best(tracker)
    THEN Padded(PeakAllocations(Kept(next)), Leaks(allocs))
    ELSE PeakAllocations(Kept(next)) = PeakAllocations(Kept(tracker))

\* Leaks of well-formed allocations.
LEMMA LeaksLength ==
    ASSUME NEW allocs \in Seq(Allocation)
    PROVE  /\ Leaks(allocs) \in Seq(Int) /\ Len(Leaks(allocs)) = Len(allocs) /\ Len(allocs) \in Nat
           /\ DOMAIN Leaks(allocs) = 1..Len(allocs)
           /\ \A a \in 1..Len(allocs) : Leaks(allocs)[a] = allocs[a].cost.leaked
           /\ Values(allocs, Leaks(allocs)) /\ Padded(Leaks(allocs), Leaks(allocs))
<1> DEFINE leaks == Leaks(allocs)
<1>1. /\ DOMAIN allocs = 1..Len(allocs) /\ Len(allocs) \in Nat /\ leaks \in Seq(Int)
      /\ DOMAIN leaks = 1..Len(allocs) /\ \A a \in 1..Len(allocs) : leaks[a] = allocs[a].cost.leaked
  BY LenProperties, LeaksTyped DEF Leaks
<1> HIDE DEF leaks
<1>2. DOMAIN leaks = 1..Len(leaks) /\ Len(leaks) \in Nat
  BY <1>1, LenProperties
<1>3. Len(leaks) = Len(allocs)
  BY <1>1, <1>2
<1>4. Padded(leaks, leaks)
  BY <1>1, <1>2 DEF Padded
<1>5. Values(allocs, leaks)
  BY <1>1, <1>3 DEF Values
<1> QED
  BY <1>1, <1>3, <1>4, <1>5 DEF leaks

\* A new snippet starts with the present leaks.
LEMMA NewSnippetKnows ==
    ASSUME NEW allocs \in Seq(Allocation), NEW time, NEW total, NEW s,
           s = NewSnippet(time, total, Leaks(allocs))
    PROVE  /\ s.peakMem = total /\ PeakAllocations(s) = Leaks(allocs)
           /\ Padded(LeaksAfter(s, Len(s.events)), Leaks(allocs))
           /\ SnippetOK(s, Len(allocs))
<1>1. s.peakMem = total /\ s.peakIdx = 0 /\ s.starting = Leaks(allocs) /\ s.events = <<>>
  BY DEF NewSnippet
<1>2. LeaksAfter(s, 0) = Leaks(allocs)
  BY <1>1, LeaksAfterSteps
<1>3. Len(s.events) = 0
  BY <1>1, EmptySeq
<1>4. PeakAllocations(s) = Leaks(allocs)
  BY <1>1, <1>2 DEF PeakAllocations
<1>5. /\ Leaks(allocs) \in Seq(Int) /\ Len(Leaks(allocs)) = Len(allocs) /\ Len(allocs) \in Nat
      /\ Padded(Leaks(allocs), Leaks(allocs))
  BY LeaksLength
<1>6. Padded(LeaksAfter(s, Len(s.events)), Leaks(allocs))
  BY <1>2, <1>3, <1>5
<1>7. SnippetOK(s, Len(allocs))
  BY <1>1, <1>3, <1>4, <1>5 DEF SnippetOK
<1> QED
  BY <1>1, <1>4, <1>6, <1>7

\* An event recorded in a snippet.
LEMMA RecordedKnows ==
    ASSUME NEW allocs \in Seq(Allocation), NEW more \in Seq(Allocation),
           NEW snippet \in Snippet, NEW event \in Event, NEW time \in Nat, NEW total \in Int,
           event.allocation \in 1..Len(allocs), Len(more) = Len(allocs),
           Leaks(more) = Leaked(Leaks(allocs), event),
           Padded(LeaksAfter(snippet, Len(snippet.events)), Leaks(allocs)),
           SnippetOK(snippet, Len(allocs)),
           NEW s, s = RecordInSnippet(snippet, event, time, total)
    PROVE  /\ Padded(LeaksAfter(s, Len(s.events)), Leaks(more))
           /\ SnippetOK(s, Len(more))
           /\ IF total > snippet.peakMem
              THEN s.peakMem = total /\ Padded(PeakAllocations(s), Leaks(more))
              ELSE s.peakMem = snippet.peakMem /\ PeakAllocations(s) = PeakAllocations(snippet)
<1> DEFINE n == Len(snippet.events)
           events == Append(snippet.events, event)
<1>1. snippet.events \in Seq(Event) /\ n \in Nat /\ snippet.peakIdx \in Nat
  BY LenProperties DEF Snippet
<1>2. /\ Len(events) = n + 1 /\ events[n + 1] = event
      /\ \A k \in 1..n : events[k] = snippet.events[k]
  BY <1>1, AppendProperties
<1>3. /\ s.events = events /\ s.starting = snippet.starting
      /\ s.peakMem = IF total > snippet.peakMem THEN total ELSE snippet.peakMem
      /\ s.peakIdx = IF total > snippet.peakMem THEN Len(events) ELSE snippet.peakIdx
  BY DEF RecordInSnippet, Snippet
<1> HIDE DEF n, events
<1>4. LeaksAfter(s, n) = LeaksAfter(snippet, n)
  <2>1. \A k \in 1..n : s.events[k] = snippet.events[k]
    BY <1>2, <1>3
  <2> QED
    BY <1>1, <1>3, <2>1, LeaksAfterSame
<1>5. LeaksAfter(s, n + 1) = Replay(LeaksAfter(snippet, n), event)
  <2>1. LeaksAfter(s, n + 1) = Replay(LeaksAfter(s, n), s.events[n + 1])
    BY <1>1, LeaksAfterSteps
  <2> QED
    BY <1>2, <1>3, <1>4, <2>1
<1>6. Leaks(allocs) \in Seq(Int) /\ Len(Leaks(allocs)) = Len(allocs) /\ Len(allocs) \in Nat
  BY LeaksLength
<1>7. Padded(LeaksAfter(s, n + 1), Leaks(more))
  <2>1. Padded(LeaksAfter(snippet, n), Leaks(allocs))
    BY DEF n
  <2>2. event.allocation \in 1..Len(Leaks(allocs))
    BY <1>6
  <2>3. Padded(Replay(LeaksAfter(snippet, n), event), Leaked(Leaks(allocs), event))
    BY <1>6, <2>1, <2>2, ReplayPads
  <2> QED
    BY <1>5, <2>3
<1>8. Padded(LeaksAfter(s, Len(s.events)), Leaks(more))
  BY <1>2, <1>3, <1>7
<1>9. Len(Leaks(more)) = Len(more)
  BY LeaksLength
<1>10. CASE total > snippet.peakMem
  <2>1. PeakAllocations(s) = LeaksAfter(s, n + 1)
    BY <1>2, <1>3, <1>10 DEF PeakAllocations
  <2>2. Padded(PeakAllocations(s), Leaks(more))
    BY <1>7, <2>1
  <2>3. PeakAllocations(s) \in Seq(Int) /\ Len(PeakAllocations(s)) <= Len(more)
    BY <1>9, <2>2 DEF Padded
  <2>4. s.peakIdx <= Len(s.events)
    BY <1>1, <1>2, <1>3, <1>10
  <2> QED
    BY <1>3, <1>8, <1>10, <2>2, <2>3, <2>4 DEF SnippetOK
<1>11. CASE ~ total > snippet.peakMem
  <2>1. snippet.peakIdx <= n
    BY DEF SnippetOK, n
  <2>2. \A k \in 1..snippet.peakIdx : s.events[k] = snippet.events[k]
    BY <1>1, <1>2, <1>3, <2>1
  <2>3. LeaksAfter(s, snippet.peakIdx) = LeaksAfter(snippet, snippet.peakIdx)
    BY <1>1, <1>3, <2>2, LeaksAfterSame
  <2>4. PeakAllocations(s) = PeakAllocations(snippet)
    BY <1>3, <1>11, <2>3 DEF PeakAllocations
  <2>5. s.peakIdx <= Len(s.events)
    BY <1>1, <1>2, <1>3, <1>11, <2>1
  <2> QED
    BY <1>3, <1>8, <1>11, <2>4, <2>5 DEF SnippetOK
<1> QED
  BY <1>10, <1>11

\* Recording an event keeps up with the leaks and keeps the right snippet,
\* also when the current one was full.
LEMMA RecordEventKnows ==
    ASSUME NEW allocs \in Seq(Allocation), NEW more \in Seq(Allocation),
           NEW tracker \in [peak : Snippet, curr : Snippet], NEW event \in Event,
           NEW time \in Nat, NEW total \in Int,
           event.allocation \in 1..Len(allocs), Len(more) = Len(allocs),
           Leaks(more) = Leaked(Leaks(allocs), event),
           KnowsLeaks(tracker, allocs),
           NEW next, next = RecordEvent(tracker, event, time, total, Leaks(more))
    PROVE  KnowsLeaks(next, more) /\ KeepsPeak(tracker, next, total, more)
<1> DEFINE curr == tracker.curr
           peak == tracker.peak
<1>1. curr \in Snippet /\ peak \in Snippet /\ curr.peakMem \in Int /\ peak.peakMem \in Int
  BY DEF Snippet
<1>2. /\ Padded(LeaksAfter(curr, Len(curr.events)), Leaks(allocs))
      /\ SnippetOK(curr, Len(allocs)) /\ SnippetOK(peak, Len(allocs))
  BY DEF KnowsLeaks
<1>3. CASE IsFull(tracker.curr)
  <2> DEFINE s == NewSnippet(time, total, Leaks(more))
  <2>1. next.curr = s /\ next.peak = Kept(tracker)
    BY <1>3 DEF RecordEvent, Finalize, Kept
  <2>2. /\ s.peakMem = total /\ PeakAllocations(s) = Leaks(more)
        /\ Padded(LeaksAfter(s, Len(s.events)), Leaks(more))
        /\ SnippetOK(s, Len(more))
    BY NewSnippetKnows
  <2> HIDE DEF s
  <2>3. SnippetOK(next.peak, Len(more))
    BY <1>2, <2>1 DEF Kept
  <2>4. KnowsLeaks(next, more)
    BY <2>1, <2>2, <2>3 DEF KnowsLeaks
  <2>5. next.peak.peakMem = Best(tracker)
    BY <2>1 DEF Kept, Best
  <2>6. Kept(next) = IF total > Best(tracker) THEN s ELSE Kept(tracker)
    BY <2>1, <2>2, <2>5 DEF Kept
  <2>7. Padded(Leaks(more), Leaks(more))
    BY LeaksLength
  <2>8. KeepsPeak(tracker, next, total, more)
    BY <2>2, <2>6, <2>7 DEF KeepsPeak
  <2> QED
    BY <2>4, <2>8
<1>4. CASE ~ IsFull(tracker.curr)
  <2> DEFINE s == RecordInSnippet(curr, event, time, total)
  <2>1. next.curr = s /\ next.peak = peak
    BY <1>4 DEF RecordEvent
  <2>2. /\ Padded(LeaksAfter(s, Len(s.events)), Leaks(more))
        /\ SnippetOK(s, Len(more))
        /\ IF total > curr.peakMem
           THEN s.peakMem = total /\ Padded(PeakAllocations(s), Leaks(more))
           ELSE s.peakMem = curr.peakMem /\ PeakAllocations(s) = PeakAllocations(curr)
    <3> HIDE DEF curr
    <3> QED
      BY <1>1, <1>2, RecordedKnows
  <2> HIDE DEF s
  <2>3. KnowsLeaks(next, more)
    BY <1>2, <2>1, <2>2 DEF KnowsLeaks
  <2>4. CASE total > Best(tracker)
    <3>1. total > curr.peakMem /\ total > peak.peakMem
      BY <1>1, <2>4 DEF Best
    <3>2. Kept(next) = s /\ Padded(PeakAllocations(s), Leaks(more))
      BY <2>1, <2>2, <3>1 DEF Kept
    <3> QED
      BY <2>3, <2>4, <3>2 DEF KeepsPeak
  <2>5. CASE ~ total > Best(tracker)
    <3>1. CASE total > curr.peakMem
      <4>1. ~ curr.peakMem > peak.peakMem /\ ~ total > peak.peakMem
        BY <1>1, <2>5, <3>1 DEF Best
      <4>2. Kept(next) = peak /\ Kept(tracker) = peak
        BY <2>1, <2>2, <3>1, <4>1 DEF Kept
      <4> QED
        BY <2>3, <2>5, <4>2 DEF KeepsPeak
    <3>2. CASE ~ total > curr.peakMem
      <4>1. s.peakMem = curr.peakMem /\ PeakAllocations(s) = PeakAllocations(curr)
        BY <2>2, <3>2
      <4>2. PeakAllocations(Kept(next)) = PeakAllocations(Kept(tracker))
        BY <2>1, <4>1 DEF Kept
      <4> QED
        BY <2>3, <2>5, <4>2 DEF KeepsPeak
    <3> QED
      BY <3>1, <3>2
  <2> QED
    BY <2>4, <2>5
<1> QED
  BY <1>3, <1>4

\* The leaks of traces after an event.
LEMMA ShownLeaked ==
    ASSUME NEW allocs \in Seq(Allocation), NEW more \in Seq(Allocation), Distinct(allocs),
           Len(more) = Len(allocs),
           \A a \in 1..Len(allocs) : more[a].trace = allocs[a].trace,
           NEW event, event.allocation \in 1..Len(allocs),
           Leaks(more) = Leaked(Leaks(allocs), event),
           NEW u \in Traces, u = allocs[event.allocation].trace
    PROVE  PerTrace(more, Leaks(more)) =
             [PerTrace(allocs, Leaks(allocs)) EXCEPT
                ![u] = IF event.isAlloc THEN @ + event.size ELSE @ - event.size]
<1> DEFINE before == Leaks(allocs)
           after == Leaks(more)
           b == event.allocation
<1>1. /\ Values(allocs, before) /\ Values(more, after) /\ Len(allocs) \in Nat
      /\ DOMAIN before = 1..Len(allocs) /\ DOMAIN after = 1..Len(allocs)
      /\ Len(before) = Len(allocs) /\ Len(after) = Len(allocs)
  BY LeaksLength
<1>2. Distinct(more)
  BY DEF Distinct
<1>3. /\ \A a \in 1..Len(allocs) : a # b => after[a] = before[a]
      /\ after[b] = IF event.isAlloc THEN before[b] + event.size ELSE before[b] - event.size
  BY <1>1 DEF Leaked
<1> HIDE DEF before, after, b
<1>4. ASSUME NEW t \in Traces, t # u PROVE PerTrace(more, after)[t] = PerTrace(allocs, before)[t]
  <2>1. Places(more, after, t) = Places(allocs, before, t)
    BY <1>1 DEF Places
  <2>2. CASE Places(allocs, before, t) = {}
    <3>1. PerTrace(allocs, before)[t] = 0
      BY <2>2, ShownOther
    <3>2. Places(more, after, t) = {}
      BY <2>1, <2>2
    <3>3. PerTrace(more, after)[t] = 0
      BY <3>2, ShownOther
    <3> QED
      BY <3>1, <3>3
  <2>3. CASE Places(allocs, before, t) # {}
    <3>1. PICK a \in 1..Len(allocs) : allocs[a].trace = t
      BY <1>1, <2>3 DEF Places
    <3>2. a \in 1..Len(before) /\ a \in 1..Len(after) /\ more[a].trace = t /\ a # b
      BY <1>1, <1>4, <3>1 DEF b
    <3>3. PerTrace(allocs, before)[t] = before[a]
      BY <1>1, <3>1, <3>2, ShownAt
    <3>4. PerTrace(more, after)[t] = after[a]
      BY <1>1, <1>2, <3>2, ShownAt
    <3> QED
      BY <1>3, <3>2, <3>3, <3>4
  <2> QED
    BY <2>2, <2>3
<1>5. /\ b \in 1..Len(before) /\ b \in 1..Len(after)
      /\ allocs[b].trace = u /\ more[b].trace = u
  BY <1>1 DEF b
<1>6. PerTrace(allocs, before)[u] = before[b]
  BY <1>1, <1>5, ShownAt
<1>7. PerTrace(more, after)[u] = after[b]
  BY <1>1, <1>2, <1>5, ShownAt
<1>8. /\ PerTrace(allocs, before) = [t \in Traces |-> PerTrace(allocs, before)[t]]
      /\ PerTrace(more, after) = [t \in Traces |-> PerTrace(more, after)[t]]
  BY DEF PerTrace
<1> DEFINE f == PerTrace(allocs, before)
           g == PerTrace(more, after)
<1> HIDE DEF f, g
<1>9. /\ f = [t \in Traces |-> f[t]] /\ g = [t \in Traces |-> g[t]]
      /\ \A t \in Traces : t # u => g[t] = f[t]
      /\ g[u] = IF event.isAlloc THEN f[u] + event.size ELSE f[u] - event.size
  BY <1>3, <1>4, <1>6, <1>7, <1>8 DEF f, g
<1>10. g = [f EXCEPT ![u] = IF event.isAlloc THEN @ + event.size ELSE @ - event.size]
  BY <1>9
<1> QED
  BY <1>10 DEF f, g, before, after

\* No two allocations have the same trace.
LEMMA TracesDistinct == ASSUME IInv PROVE Distinct(allocations)
  BY DEF IInv, IndexInv, Distinct

\* What the tracker knows in the first pass over a new file.
ReplayInv ==
    /\ phase = "empty" => allocations = <<>>
    /\ Tracking => KnowsLeaks(peakTracker, allocations)

\* An event in the first pass over a new file, seen by the costs and the tracker.
EventSeen(isAlloc) ==
    \E i \in 0..(Len(allocationInfos) - 1), count \in Int, temp \in Int :
        LET info == allocationInfos[i + 1] IN
        /\ allocations' = Charged(allocations, info.allocation,
                                  IF isAlloc THEN info.size ELSE - info.size, count, temp)
        /\ TrackEvent(info, isAlloc)

\* Lines + and - are such events.
LEMMA EventsSeen ==
    ASSUME IInv, ReadAllocation \/ ReadDeallocation
    PROVE  \E isAlloc \in BOOLEAN : EventSeen(isAlloc)
<1>1. CASE ReadAllocation
  <2>1. PICK i \in 0..(Len(allocationInfos) - 1) :
          LET info == allocationInfos[i + 1] IN
          /\ allocations' = [allocations EXCEPT ![info.allocation] = Charge(@, info.size, 1, 0)]
          /\ TrackEvent(info, TRUE)
    BY <1>1 DEF ReadAllocation
  <2> DEFINE info == allocationInfos[i + 1]
             bytes == IF TRUE THEN info.size ELSE - info.size
  <2>2. allocations' = Charged(allocations, info.allocation, bytes, 1, 0)
    BY <2>1 DEF Charged
  <2>4. 1 \in Int /\ 0 \in Int /\ 0 \in Int
    OBVIOUS
  <2>5. TrackEvent(info, TRUE)
    BY <2>1
  <2>3. EventSeen(TRUE)
    BY <2>2, <2>4, <2>5, Zenon DEF EventSeen
  <2> QED
    BY <2>3
<1>2. CASE ReadDeallocation
  <2>1. PICK i \in 0..(Len(allocationInfos) - 1), temp \in {0, 1} :
          LET info == allocationInfos[i + 1] IN
          /\ allocations' = [allocations EXCEPT ![info.allocation] = Charge(@, - info.size, 0, temp)]
          /\ TrackEvent(info, FALSE)
    BY <1>2 DEF ReadDeallocation
  <2> DEFINE info == allocationInfos[i + 1]
             bytes == IF FALSE THEN info.size ELSE - info.size
  <2>2. allocations' = Charged(allocations, info.allocation, bytes, 0, temp)
    BY <2>1 DEF Charged
  <2>4. 1 \in Int /\ 0 \in Int /\ temp \in Int
    OBVIOUS
  <2>5. TrackEvent(info, FALSE)
    BY <2>1
  <2>3. EventSeen(FALSE)
    BY <2>2, <2>4, <2>5, Zenon DEF EventSeen
  <2> QED
    BY <2>3
<1> QED
  BY <1>1, <1>2

\* What an event does to the leaks of traces, the totals and the tracker.
EventTracked ==
    /\ \E t \in Traces, s \in Sizes :
        PerTrace(allocations', Leaks(allocations')) \in
            {[PerTrace(allocations, Leaks(allocations)) EXCEPT ![t] = @ + s],
             [PerTrace(allocations, Leaks(allocations)) EXCEPT ![t] = @ - s]}
    /\ totalCost'.peak = IF totalCost'.leaked > totalCost.peak THEN totalCost'.leaked ELSE totalCost.peak
    /\ totalCost.peak = Best(peakTracker)
    /\ KnowsLeaks(peakTracker', allocations')
    /\ KeepsPeak(peakTracker, peakTracker', totalCost'.leaked, allocations')
    /\ SameTraces

\* That is what it does.
LEMMA EventIsTracked ==
    ASSUME IInv, IInv', ReplayInv, Tracking, ReadAllocation \/ ReadDeallocation
    PROVE  EventTracked
<1>1. phase = "reading" /\ phase' = phase /\ pass = "first" /\ pass' = pass
  BY DEF ReadAllocation, ReadDeallocation, GetLine, Tracking, FirstReading
<1>2. PICK isAlloc \in BOOLEAN : EventSeen(isAlloc)
  BY EventsSeen
<1>3. PICK i \in 0..(Len(allocationInfos) - 1), count \in Int, temp \in Int :
        LET info == allocationInfos[i + 1] IN
        /\ allocations' = Charged(allocations, info.allocation,
                                  IF isAlloc THEN info.size ELSE - info.size, count, temp)
        /\ TrackEvent(info, isAlloc)
  BY <1>2 DEF EventSeen
<1> DEFINE info == allocationInfos[i + 1]
           b == info.allocation
           bytes == IF isAlloc THEN info.size ELSE - info.size
           event == [size |-> info.size, allocation |-> b, isAlloc |-> isAlloc]
           total == totalCost'.leaked
<1>4. /\ info.size \in Sizes /\ info.size \in Nat /\ b \in 1..Len(allocations) /\ b \in Nat
      /\ allocations[b] \in Allocation
  BY Elements
<1>5. event \in Event /\ event.allocation = b /\ event.size = info.size /\ event.isAlloc = isAlloc
  BY <1>4 DEF Event
<1>6. /\ allocations \in Seq(Allocation) /\ allocations' \in Seq(Allocation)
      /\ Len(allocations) \in Nat /\ Len(allocations') \in Nat
      /\ DOMAIN allocations = 1..Len(allocations) /\ DOMAIN allocations' = 1..Len(allocations')
  BY LenProperties DEF IInv, TypeOK, InfosOK
<1>7. peakTracker' = RecordEvent(peakTracker, event, timeStamp, total, Leaks(allocations'))
  BY <1>1, <1>3 DEF TrackEvent
<1>8. total \in Int /\ timeStamp \in Nat
  BY <1>1 DEF IInv, TypeOK, ControlOK, CostsOK, Total
<1>9. /\ peakTracker \in [peak : Snippet, curr : Snippet]
      /\ Len(peakTracker.curr.events) <= Capacity /\ Len(peakTracker.peak.events) <= Capacity
      /\ totalCost.peak = Best(peakTracker) /\ totalCost'.peak = Best(peakTracker')
  BY <1>1 DEF IInv, TypeOK, CostsOK, PeakInv
<1>10. KnowsLeaks(peakTracker, allocations)
  BY DEF ReplayInv
<1>11. allocations' = [allocations EXCEPT ![b] = Charge(allocations[b], bytes, count, temp)]
  BY <1>3 DEF Charged
<1> HIDE DEF bytes, event, total
<1>18. SameTraces
  BY CostsOnly
<1>12. /\ Len(allocations') = Len(allocations)
       /\ \A a \in 1..Len(allocations) : a # b => allocations'[a] = allocations[a]
       /\ allocations'[b] = Charge(allocations[b], bytes, count, temp)
  <2> HIDE DEF info, b
  <2>2. Len(allocations') = Len(allocations)
    BY <1>18 DEF SameTraces
  <2> QED
    BY <1>4, <1>6, <1>11, <2>2
<1>13. /\ \A a \in 1..Len(allocations) : allocations'[a].trace = allocations[a].trace
       /\ allocations'[b].cost.leaked = allocations[b].cost.leaked + bytes
  <2>1. /\ allocations'[b].trace = allocations[b].trace
        /\ allocations'[b].cost.leaked = allocations[b].cost.leaked + bytes
    BY <1>12 DEF Charge
  <2> HIDE DEF info, b
  <2> QED
    BY <1>12, <2>1
<1>14. Leaks(allocations') = Leaked(Leaks(allocations), event)
  <2> DEFINE before == Leaks(allocations)
             after == Leaks(allocations')
  <2>1. /\ DOMAIN before = 1..Len(allocations) /\ DOMAIN after = 1..Len(allocations)
        /\ \A a \in 1..Len(allocations) : before[a] = allocations[a].cost.leaked
        /\ \A a \in 1..Len(allocations) : after[a] = allocations'[a].cost.leaked
    BY <1>6, <1>12, LeaksLength
  <2>2. after = [a \in 1..Len(allocations) |-> after[a]] /\ before = [a \in 1..Len(allocations) |-> before[a]]
    BY <2>1 DEF Leaks
  <2>3. allocations[b].cost.leaked \in Int
    BY <1>4 DEF Allocation
  <2>4. after[b] = IF event.isAlloc THEN before[b] + event.size ELSE before[b] - event.size
    BY <1>4, <1>5, <1>13, <2>1, <2>3 DEF bytes
  <2>5. \A a \in 1..Len(allocations) : a # b => after[a] = before[a]
    BY <1>12, <2>1
  <2> HIDE DEF before, after, info, b
  <2>6. event.allocation = b /\ b \in 1..Len(allocations)
    BY <1>4, <1>5
  <2>7. after = [before EXCEPT ![b] = IF event.isAlloc THEN before[b] + event.size ELSE before[b] - event.size]
    BY <2>1, <2>2, <2>4, <2>5, <2>6
  <2>8. after = Leaked(before, event)
    BY <2>6, <2>7 DEF Leaked
  <2> QED
    BY <2>8 DEF before, after
<1>15. KnowsLeaks(peakTracker', allocations') /\ KeepsPeak(peakTracker, peakTracker', total, allocations')
  <2>1. event.allocation \in 1..Len(allocations)
    BY <1>4, <1>5
  <2> QED
    BY <1>5, <1>6, <1>7, <1>8, <1>9, <1>10, <1>12, <1>14, <2>1, RecordEventKnows
<1>16. Best(peakTracker') = IF total > Best(peakTracker) THEN total ELSE Best(peakTracker)
  <2>1. Leaks(allocations') \in Seq(Int)
    BY <1>6, LeaksLength
  <2> QED
    BY <1>5, <1>7, <1>8, <1>9, <2>1, RecordEventPeaks
<1>17. \E t \in Traces, s \in Sizes :
        PerTrace(allocations', Leaks(allocations')) \in
            {[PerTrace(allocations, Leaks(allocations)) EXCEPT ![t] = @ + s],
             [PerTrace(allocations, Leaks(allocations)) EXCEPT ![t] = @ - s]}
  <2> DEFINE u == allocations[b].trace
  <2>1. u \in Traces
    BY <1>4 DEF Allocation
  <2>2. event.allocation \in 1..Len(allocations) /\ u = allocations[event.allocation].trace
    BY <1>4, <1>5
  <2>3. Distinct(allocations)
    BY TracesDistinct
  <2> HIDE DEF u, info, b
  <2>4. PerTrace(allocations', Leaks(allocations')) =
             [PerTrace(allocations, Leaks(allocations)) EXCEPT
                ![u] = IF event.isAlloc THEN @ + event.size ELSE @ - event.size]
    BY <1>6, <1>12, <1>13, <1>14, <2>1, <2>2, <2>3, ShownLeaked, SMTT(20)
  <2>5. event.size \in Sizes
    BY <1>4, <1>5
  <2>6. CASE event.isAlloc
    BY <2>1, <2>4, <2>5, <2>6
  <2>7. CASE ~ event.isAlloc
    BY <2>1, <2>4, <2>5, <2>7
  <2> QED
    BY <2>6, <2>7
<1> QED
  BY <1>9, <1>15, <1>16, <1>17, <1>18 DEF EventTracked, total

\* A new allocation has no leaks, and hides nothing of what is there.
LEMMA InfoTracked ==
    ASSUME IInv, IInv', ReadInfo
    PROVE  /\ \A values : Padded(values, Leaks(allocations)) => Padded(values, Leaks(allocations'))
           /\ Len(allocations) <= Len(allocations')
           /\ \A a \in 1..Len(allocations) : allocations'[a] = allocations[a]
           /\ \A a \in 1..Len(allocations') : a > Len(allocations) => allocations'[a].cost.leaked = 0
<1>1. PICK size \in Sizes, trace \in Traces :
        IF FirstReading THEN AddAllocation(trace) ELSE UNCHANGED <<allocations, infos>>
  BY DEF ReadInfo
<1>2. /\ allocations \in Seq(Allocation) /\ Len(allocations) \in Nat
      /\ allocations' \in Seq(Allocation) /\ Len(allocations') \in Nat
  BY LenProperties DEF IInv, TypeOK, InfosOK
<1>3. allocations' = allocations \/ allocations' = Append(allocations, [trace |-> trace, cost |-> NoCost])
  BY <1>1 DEF AddAllocation
<1>4. /\ Len(allocations) <= Len(allocations')
      /\ \A a \in 1..Len(allocations) : allocations'[a] = allocations[a]
      /\ \A a \in 1..Len(allocations') : a > Len(allocations) => allocations'[a].cost.leaked = 0
  <2>1. CASE allocations' = allocations
    BY <1>2, <2>1
  <2>2. CASE allocations' = Append(allocations, [trace |-> trace, cost |-> NoCost])
    <3> DEFINE r == [trace |-> trace, cost |-> NoCost]
    <3>1. r \in Allocation /\ r.cost.leaked = 0
      BY DEF Allocation, NoCost
    <3> HIDE DEF r
    <3>2. /\ Len(allocations') = Len(allocations) + 1
          /\ \A a \in 1..Len(allocations) : allocations'[a] = allocations[a]
          /\ allocations'[Len(allocations) + 1] = r
      BY <1>2, <2>2, <3>1, AppendProperties DEF r
    <3>3. \A a \in 1..Len(allocations') : a > Len(allocations) => a = Len(allocations) + 1
      BY <1>2, <3>2
    <3> QED
      BY <1>2, <3>1, <3>2, <3>3
  <2> QED
    BY <1>3, <2>1, <2>2
<1>5. ASSUME NEW values, Padded(values, Leaks(allocations)) PROVE Padded(values, Leaks(allocations'))
  <2> DEFINE before == Leaks(allocations)
             after == Leaks(allocations')
             n == Len(allocations)
             m == Len(allocations')
  <2>1. Len(before) = n /\ Len(after) = m
    BY <1>2, LeaksLength
  <2>2. \A a \in 1..n : before[a] = allocations[a].cost.leaked
    BY <1>2, LeaksLength
  <2>3. \A a \in 1..m : after[a] = allocations'[a].cost.leaked
    BY <1>2, LeaksLength
  <2>4. n \in Nat /\ m \in Nat /\ n <= m
    BY <1>2, <1>4
  <2>5. \A a \in 1..n : after[a] = before[a]
    BY <1>4, <2>2, <2>3, <2>4
  <2>6. \A a \in 1..m : a > n => after[a] = 0
    BY <1>4, <2>3
  <2> HIDE DEF before, after, n, m
  <2>7. /\ values \in Seq(Int) /\ Len(values) \in Nat /\ Len(values) <= n
        /\ \A a \in 1..n : before[a] = IF a <= Len(values) THEN values[a] ELSE 0
    BY <1>5, <2>1, LenProperties DEF Padded, before
  <2>8. Len(values) <= m
    BY <2>4, <2>7
  <2>9. ASSUME NEW a \in 1..m PROVE after[a] = IF a <= Len(values) THEN values[a] ELSE 0
    <3>1. CASE a > n
      BY <2>4, <2>6, <2>7, <3>1
    <3>2. CASE ~ a > n
      <4>1. a \in 1..n
        BY <2>4, <3>2
      <4> QED
        BY <2>5, <2>7, <4>1
    <3> QED
      BY <3>1, <3>2
  <2>10. Padded(values, after)
    BY <2>1, <2>7, <2>8, <2>9 DEF Padded
  <2> QED
    BY <2>10 DEF after
<1> QED
  BY <1>4, <1>5

\* A pass over a new file starts with nothing.
LEMMA ParseTracked ==
    ASSUME IInv, IInv', ReplayInv, Parse
    PROVE  /\ allocations = <<>> /\ allocations' = <<>>
           /\ peakTracker' = NewTracker(parsedStamp, 0, Leaks(<<>>))
<1>1. allocations = <<>> /\ StartPass("first", FALSE, filter, disabled)
  BY DEF Parse, ReplayInv
<1>2. allocations' = ClearCosts(<<>>) /\ peakTracker' = NewTracker(parsedStamp, 0, Leaks(<<>>))
  BY <1>1 DEF StartPass
<1>3. DOMAIN allocations' = DOMAIN <<>>
  BY <1>2 DEF ClearCosts
<1>4. allocations' \in Seq(Allocation) /\ DOMAIN allocations' = 1..Len(allocations') /\ Len(allocations') \in Nat
  BY LenProperties DEF IInv, TypeOK, InfosOK
<1>5. Len(allocations') = 0
  BY <1>3, <1>4
<1>6. allocations' = <<>>
  BY <1>4, <1>5, EmptySeq
<1> QED
  BY <1>1, <1>2, <1>6

\* The tracker keeps up with every line.
LEMMA ReplayStep == ASSUME IInv, IInv', ReplayInv, [Next]_vars PROVE ReplayInv'
<1>1. CASE Parse
  <2>1. allocations' = <<>> /\ peakTracker' = NewTracker(parsedStamp, 0, Leaks(<<>>))
    BY <1>1, ParseTracked
  <2> DEFINE s == NewSnippet(parsedStamp, 0, Leaks(<<>>))
  <2>2. peakTracker'.curr = s /\ peakTracker'.peak = s
    BY <2>1 DEF NewTracker
  <2>3. <<>> \in Seq(Allocation) /\ s = s
    BY EmptySeq
  <2> HIDE DEF s
  <2>4. Padded(LeaksAfter(s, Len(s.events)), Leaks(<<>>)) /\ SnippetOK(s, Len(<<>>))
    BY <2>3, NewSnippetKnows DEF s
  <2>5. KnowsLeaks(peakTracker', allocations')
    BY <2>1, <2>2, <2>4 DEF KnowsLeaks
  <2>6. phase' = "reading"
    BY <1>1 DEF Parse, StartPass
  <2> QED
    BY <2>5, <2>6 DEF ReplayInv
<1>2. CASE ReadInfo
  <2>1. phase = "reading" /\ phase' = phase /\ UNCHANGED <<control, peakTracker>>
    BY <1>2 DEF ReadInfo, GetLine
  <2>2. CASE Tracking
    <3>1. KnowsLeaks(peakTracker, allocations)
      BY <2>2 DEF ReplayInv
    <3>2. Padded(LeaksAfter(peakTracker.curr, Len(peakTracker.curr.events)), Leaks(allocations'))
      BY <1>2, <3>1, InfoTracked DEF KnowsLeaks
    <3>3. Len(allocations) <= Len(allocations') /\ Len(allocations) \in Nat /\ Len(allocations') \in Nat
      BY <1>2, InfoTracked, LenProperties DEF IInv, TypeOK, InfosOK
    <3>4. ASSUME NEW s, SnippetOK(s, Len(allocations)) PROVE SnippetOK(s, Len(allocations'))
      <4>1. PeakAllocations(s) \in Seq(Int)
        BY <3>4 DEF SnippetOK
      <4>2. Len(PeakAllocations(s)) \in Nat
        BY <4>1, LenProperties
      <4> QED
        BY <3>3, <3>4, <4>2 DEF SnippetOK
    <3>5. KnowsLeaks(peakTracker', allocations')
      BY <2>1, <3>1, <3>2, <3>4 DEF KnowsLeaks
    <3> QED
      BY <2>1, <3>5 DEF ReplayInv
  <2>3. CASE ~ Tracking
    BY <2>1, <2>3 DEF ReplayInv, Tracking, FirstReading
  <2> QED
    BY <2>2, <2>3
<1>3. CASE ReadAllocation \/ ReadDeallocation
  <2>1. phase = "reading" /\ phase' = phase /\ UNCHANGED control
    BY <1>3 DEF ReadAllocation, ReadDeallocation, GetLine
  <2>2. CASE Tracking
    <3>1. EventTracked
      BY <1>3, <2>2, EventIsTracked
    <3> QED
      BY <2>1, <3>1 DEF EventTracked, ReplayInv
  <2>3. CASE ~ Tracking
    BY <2>1, <2>3 DEF ReplayInv, Tracking, FirstReading
  <2> QED
    BY <2>2, <2>3
<1>4. CASE SkipEvent \/ ReadTimeStamp
  BY <1>4 DEF SkipEvent, ReadTimeStamp, GetLine, ReplayInv, Tracking, FirstReading
<1>5. CASE EndFirstPass \/ ApplyLeakSuppressions \/ EndSecondPass
  BY <1>5 DEF EndFirstPass, ApplyLeakSuppressions, EndSecondPass, ReplayInv, Tracking
<1>6. CASE StartSecondPass \/ Reparse
  BY <1>6 DEF StartSecondPass, Reparse, StartPass, ReplayInv, Tracking, FirstReading
<1>7. CASE UNCHANGED vars
  BY <1>7 DEF vars, ReplayInv, Tracking, FirstReading
<1> QED
  BY <1>1, <1>2, <1>3, <1>4, <1>5, <1>6, <1>7 DEF Next

\* It always does.
LEMMA ReplayInvariance == Spec => []ReplayInv
<1>1. Init => ReplayInv
  BY DEF Init, ReplayInv, Tracking
<1>2. IInv /\ IInv' /\ ReplayInv /\ [Next]_vars => ReplayInv'
  BY ReplayStep
<1> QED
  BY <1>1, <1>2, Invariance, PTL DEF Spec

\* The state of PeakSnapshot, as Snapshot maps it.
BarLeaked == IF Tracking \/ Tracked THEN ByTrace(Leaks(allocations)) ELSE ByTrace(<<>>)
BarPeak == IF Tracking \/ Tracked THEN totalCost.peak ELSE 0
BarAtPeak == ByTrace(IF Tracking THEN PeakAllocations(Finalized.peak) ELSE IF Tracked THEN peaks ELSE <<>>)

\* The leaks and the peaks of the allocations that this state shows.
ShownLeaks == IF Tracking \/ Tracked THEN Leaks(allocations) ELSE <<>>
ShownPeaks == IF Tracking THEN PeakAllocations(Kept(peakTracker)) ELSE IF Tracked THEN peaks ELSE <<>>

BarsAre ==
    /\ BarLeaked = PerTrace(allocations, ShownLeaks)
    /\ BarAtPeak = PerTrace(allocations, ShownPeaks)

\* The mapping in terms of PerTrace.
LEMMA BarsHold == BarsAre /\ BarsAre'
<1>1. BarLeaked = PerTrace(allocations, ShownLeaks)
  BY DEF BarLeaked, ShownLeaks, ByTrace, PerTrace, Places
<1>2. BarLeaked' = PerTrace(allocations', ShownLeaks')
  BY DEF BarLeaked, ShownLeaks, ByTrace, PerTrace, Places
<1>3. Finalized.peak = Kept(peakTracker) /\ Finalized'.peak = Kept(peakTracker')
  BY DEF Finalized, Finalize, Kept
<1>4. BarAtPeak = PerTrace(allocations, ShownPeaks)
  BY <1>3 DEF BarAtPeak, ShownPeaks, ByTrace, PerTrace, Places
<1>5. BarAtPeak' = PerTrace(allocations', ShownPeaks')
  BY <1>3 DEF BarAtPeak, ShownPeaks, ByTrace, PerTrace, Places
<1> QED
  BY <1>1, <1>2, <1>4, <1>5 DEF BarsAre

-----------------------------------------------------------------------------
(* The first pass implements PeakSnapshot                                  *)

\* Nothing, as PeakSnapshot has it.
Zero == [t \in Traces |-> 0]

\* No values show nothing.
LEMMA ShownNone == ASSUME NEW allocs PROVE PerTrace(allocs, <<>>) = Zero
<1>1. ASSUME NEW t \in Traces PROVE PerTrace(allocs, <<>>)[t] = 0
  <2>1. Places(allocs, <<>>, t) = {}
    BY DEF Places
  <2> QED
    BY <2>1, ShownOther
<1>2. PerTrace(allocs, <<>>) = [t \in Traces |-> PerTrace(allocs, <<>>)[t]]
  BY DEF PerTrace
<1> QED
  BY <1>1, <1>2 DEF Zero

\* The values that are known of no allocations are none.
LEMMA LeaksOfNone == Leaks(<<>>) = <<>>
<1>1. <<>> \in Seq(Allocation)
  BY EmptySeq
<1>2. Leaks(<<>>) \in Seq(Int) /\ Len(Leaks(<<>>)) = Len(<<>>)
  BY <1>1, LeaksLength
<1> QED
  BY <1>2, EmptySeq

\* A step of PeakSnapshot, in terms of what the mapping gives.
Restarts == BarLeaked' = Zero /\ BarPeak' = 0 /\ BarAtPeak' = Zero

Changes ==
    /\ \E t \in Traces : \E s \in Sizes :
        BarLeaked' \in {[BarLeaked EXCEPT ![t] = @ + s], [BarLeaked EXCEPT ![t] = @ - s]}
    /\ IF SumFunction(BarLeaked') > BarPeak
       THEN BarPeak' = SumFunction(BarLeaked') /\ BarAtPeak' = BarLeaked'
       ELSE UNCHANGED <<BarPeak, BarAtPeak>>

Stutters == UNCHANGED <<BarLeaked, BarPeak, BarAtPeak>>

\* A state outside of the first pass over a new file shows nothing.
LEMMA OutsideRestarts == ASSUME ~ Tracking', ~ Tracked' PROVE Restarts
<1>1. BarPeak' = 0 /\ ShownLeaks' = <<>> /\ ShownPeaks' = <<>>
  BY DEF BarPeak, ShownLeaks, ShownPeaks
<1>2. BarLeaked' = PerTrace(allocations', ShownLeaks') /\ BarAtPeak' = PerTrace(allocations', ShownPeaks')
  BY BarsHold DEF BarsAre
<1>3. PerTrace(allocations', <<>>) = Zero
  BY ShownNone
<1> QED
  BY <1>1, <1>2, <1>3 DEF Restarts

\* The start of that pass shows nothing either.
LEMMA ParseRestarts == ASSUME IInv, IInv', ReplayInv, Parse PROVE Restarts
<1>1. allocations' = <<>> /\ peakTracker' = NewTracker(parsedStamp, 0, Leaks(<<>>))
  BY ParseTracked
<1>2. phase' = "reading" /\ totalCost' = NoTotal /\ pass' = "first" /\ reparsing' = FALSE
  BY DEF Parse, StartPass
<1>3. Tracking'
  BY <1>2 DEF Tracking, FirstReading
<1>4. BarPeak' = 0
  BY <1>2, <1>3 DEF BarPeak, NoTotal
<1>5. ShownLeaks' = <<>>
  BY <1>1, <1>3, LeaksOfNone DEF ShownLeaks
<1> DEFINE s == NewSnippet(parsedStamp, 0, Leaks(<<>>))
<1>6. Kept(peakTracker') = s
  BY <1>1 DEF NewTracker, Kept
<1>7. PeakAllocations(s) = Leaks(<<>>)
  <2>1. <<>> \in Seq(Allocation) /\ s = s
    BY EmptySeq
  <2> HIDE DEF s
  <2> QED
    BY <2>1, NewSnippetKnows DEF s
<1>8. ShownPeaks' = <<>>
  <2> HIDE DEF s
  <2> QED
    BY <1>3, <1>6, <1>7, LeaksOfNone DEF ShownPeaks
<1>9. BarLeaked' = PerTrace(allocations', ShownLeaks') /\ BarAtPeak' = PerTrace(allocations', ShownPeaks')
  BY BarsHold DEF BarsAre
<1>10. PerTrace(allocations', <<>>) = Zero
  BY ShownNone
<1> QED
  BY <1>4, <1>5, <1>8, <1>9, <1>10 DEF Restarts

\* A new info does not change what is shown.
LEMMA InfoStutters == ASSUME IInv, IInv', ReplayInv, ReadInfo, Tracking PROVE Stutters
<1>1. /\ phase = "reading" /\ phase' = phase /\ UNCHANGED <<control, peakTracker, totalCost>>
      /\ Tracking' /\ pass = "first" /\ reparsing = FALSE
  BY DEF ReadInfo, GetLine, Tracking, FirstReading, IInv, TypeOK, ControlOK
<1>2. /\ allocations \in Seq(Allocation) /\ allocations' \in Seq(Allocation)
      /\ Len(allocations) \in Nat /\ Len(allocations') \in Nat
  BY LenProperties DEF IInv, TypeOK, InfosOK
<1>3. /\ Padded(Leaks(allocations), Leaks(allocations'))
      /\ Len(allocations) <= Len(allocations')
      /\ \A a \in 1..Len(allocations) : allocations'[a] = allocations[a]
  BY <1>2, InfoTracked, LeaksLength
<1>4. KnowsLeaks(peakTracker, allocations)
  BY DEF ReplayInv
<1>5. ASSUME NEW values, values \in Seq(Int), Len(values) <= Len(allocations)
      PROVE  PerTrace(allocations', values) = PerTrace(allocations, values)
  <2>1. DOMAIN values = 1..Len(values) /\ Len(values) \in Nat
    BY <1>5, LenProperties
  <2>2. \A b \in DOMAIN values : allocations'[b].trace = allocations[b].trace
    BY <1>2, <1>3, <1>5, <2>1
  <2> QED
    BY <2>2, ShownSameTraces
<1>6. PerTrace(allocations', Leaks(allocations')) = PerTrace(allocations, Leaks(allocations))
  <2>1. Distinct(allocations')
    BY DEF IInv, IndexInv, Distinct
  <2>2. Values(allocations', Leaks(allocations'))
    BY <1>2, LeaksLength
  <2>3. PerTrace(allocations', Leaks(allocations)) = PerTrace(allocations', Leaks(allocations'))
    BY <1>2, <1>3, <2>1, <2>2, ShownPadded
  <2>4. Leaks(allocations) \in Seq(Int) /\ Len(Leaks(allocations)) <= Len(allocations)
    BY <1>2, LeaksLength
  <2>5. PerTrace(allocations', Leaks(allocations)) = PerTrace(allocations, Leaks(allocations))
    BY <1>5, <2>4
  <2> QED
    BY <2>3, <2>5
<1>7. SnippetOK(Kept(peakTracker), Len(allocations))
  BY <1>4 DEF KnowsLeaks, Kept
<1> DEFINE values == PeakAllocations(Kept(peakTracker))
<1>8. values \in Seq(Int) /\ Len(values) <= Len(allocations)
  BY <1>7 DEF SnippetOK
<1>9. ShownLeaks = Leaks(allocations) /\ ShownLeaks' = Leaks(allocations')
  BY <1>1 DEF ShownLeaks
<1>10. ShownPeaks = values /\ ShownPeaks' = values
  BY <1>1 DEF ShownPeaks
<1> HIDE DEF values
<1>11. PerTrace(allocations', values) = PerTrace(allocations, values)
  BY <1>5, <1>8
<1>12. BarPeak' = BarPeak
  BY <1>1 DEF BarPeak
<1>13. BarLeaked = PerTrace(allocations, ShownLeaks) /\ BarAtPeak = PerTrace(allocations, ShownPeaks)
  BY BarsHold DEF BarsAre
<1>14. BarLeaked' = PerTrace(allocations', ShownLeaks') /\ BarAtPeak' = PerTrace(allocations', ShownPeaks')
  BY BarsHold DEF BarsAre
<1>15. BarLeaked' = BarLeaked
  BY <1>6, <1>9, <1>13, <1>14
<1>16. BarAtPeak' = BarAtPeak
  BY <1>10, <1>11, <1>13, <1>14
<1> QED
  BY <1>12, <1>15, <1>16 DEF Stutters

\* An event is a change of PeakSnapshot.
LEMMA EventChanges ==
    ASSUME IInv, IInv', ChargedInv', ReplayInv, ReadAllocation \/ ReadDeallocation, Tracking
    PROVE  Changes
<1>1. /\ phase = "reading" /\ phase' = phase /\ UNCHANGED control
      /\ Tracking'
  <2>1. phase = "reading" /\ phase' = phase /\ UNCHANGED control
    BY DEF ReadAllocation, ReadDeallocation, GetLine
  <2>2. Tracking'
    BY <2>1 DEF Tracking, FirstReading
  <2> QED
    BY <2>1, <2>2
<1>2. EventTracked
  BY EventIsTracked
<1> DEFINE before == PerTrace(allocations, Leaks(allocations))
           after == PerTrace(allocations', Leaks(allocations'))
           total == totalCost'.leaked
<1>3. BarLeaked = before /\ BarLeaked' = after
  BY <1>1, BarsHold DEF BarsAre, ShownLeaks
<1>4. BarPeak = totalCost.peak /\ BarPeak' = totalCost'.peak /\ BarPeak = Best(peakTracker)
  BY <1>1, <1>2 DEF BarPeak, EventTracked
<1>5. BarAtPeak = PerTrace(allocations, PeakAllocations(Kept(peakTracker)))
  BY BarsHold DEF BarsAre, ShownPeaks
<1>6. BarAtPeak' = PerTrace(allocations', PeakAllocations(Kept(peakTracker')))
  BY <1>1, BarsHold DEF BarsAre, ShownPeaks
<1>7. /\ allocations \in Seq(Allocation) /\ allocations' \in Seq(Allocation)
      /\ Len(allocations') = Len(allocations) /\ Len(allocations) \in Nat
      /\ \A a \in 1..Len(allocations) : allocations'[a].trace = allocations[a].trace
  BY <1>2, LenProperties DEF EventTracked, SameTraces, IInv, TypeOK, InfosOK
<1>8. Distinct(allocations')
  BY DEF IInv, IndexInv, Distinct
<1>9. SumFunction(after) = total
  <2>3. Values(allocations', Leaks(allocations')) /\ Len(Leaks(allocations')) = Len(allocations')
    BY <1>7, LeaksLength
  <2>4. SumFunction(after) = SumOver(Leaks(allocations'), 1..Len(Leaks(allocations')))
    BY <1>7, <1>8, <2>3, ShownSum
  <2>1. SumFunction(after) = SumOver(Leaks(allocations'), 1..Len(allocations'))
    BY <2>3, <2>4
  <2>2. totalCost'.leaked = SumOver(Leaks(allocations'), 1..Len(allocations'))
    BY <1>1 DEF ChargedInv, CostsAre
  <2> QED
    BY <2>1, <2>2
<1>10. totalCost'.peak = IF total > totalCost.peak THEN total ELSE totalCost.peak
  BY <1>2 DEF EventTracked
<1>11. KeepsPeak(peakTracker, peakTracker', total, allocations')
  BY <1>2 DEF EventTracked
<1>12. ASSUME total > Best(peakTracker) PROVE BarAtPeak' = after
  <2>1. Padded(PeakAllocations(Kept(peakTracker')), Leaks(allocations'))
    BY <1>11, <1>12 DEF KeepsPeak
  <2>2. Values(allocations', Leaks(allocations'))
    BY <1>7, LeaksLength
  <2>3. PerTrace(allocations', PeakAllocations(Kept(peakTracker'))) = after
    BY <1>7, <1>8, <2>1, <2>2, ShownPadded
  <2> QED
    BY <1>6, <2>3
<1>13. ASSUME ~ total > Best(peakTracker) PROVE BarAtPeak' = BarAtPeak
  <2> DEFINE values == PeakAllocations(Kept(peakTracker))
  <2>1. PeakAllocations(Kept(peakTracker')) = values
    BY <1>11, <1>13 DEF KeepsPeak
  <2>2. SnippetOK(Kept(peakTracker), Len(allocations))
    BY DEF ReplayInv, KnowsLeaks, Kept
  <2>3. values \in Seq(Int) /\ Len(values) <= Len(allocations)
    BY <2>2 DEF SnippetOK
  <2> HIDE DEF values
  <2>4. DOMAIN values = 1..Len(values) /\ Len(values) \in Nat
    BY <2>3, LenProperties
  <2>5. \A b \in DOMAIN values : allocations'[b].trace = allocations[b].trace
    BY <1>7, <2>3, <2>4
  <2>6. PerTrace(allocations', values) = PerTrace(allocations, values)
    BY <2>5, ShownSameTraces
  <2> QED
    BY <1>5, <1>6, <2>1, <2>6 DEF values
<1>14. \E t \in Traces : \E s \in Sizes :
          after \in {[before EXCEPT ![t] = @ + s], [before EXCEPT ![t] = @ - s]}
  BY <1>2 DEF EventTracked
<1> HIDE DEF before, after, total
<1>15. \E t \in Traces : \E s \in Sizes :
          BarLeaked' \in {[BarLeaked EXCEPT ![t] = @ + s], [BarLeaked EXCEPT ![t] = @ - s]}
  BY <1>3, <1>14
<1>16. CASE total > Best(peakTracker)
  <2>1. BarPeak' = total /\ BarAtPeak' = after /\ SumFunction(BarLeaked') > BarPeak
    BY <1>3, <1>4, <1>9, <1>10, <1>12, <1>16
  <2> QED
    BY <1>3, <1>9, <1>15, <2>1 DEF Changes
<1>17. CASE ~ total > Best(peakTracker)
  <2>1. BarPeak' = BarPeak /\ BarAtPeak' = BarAtPeak /\ ~ SumFunction(BarLeaked') > BarPeak
    BY <1>3, <1>4, <1>9, <1>10, <1>13, <1>17
  <2> QED
    BY <1>15, <2>1 DEF Changes
<1> QED
  BY <1>16, <1>17

\* Lines of other kinds, and the end of the pass, do not change what is shown.
LEMMA OthersStutter ==
    ASSUME IInv, \/ SkipEvent /\ Tracking
                 \/ ReadTimeStamp /\ Tracking
                 \/ EndFirstPass /\ FirstReading
                 \/ UNCHANGED vars
    PROVE  Stutters
<1>1. BarLeaked = PerTrace(allocations, ShownLeaks) /\ BarAtPeak = PerTrace(allocations, ShownPeaks)
  BY BarsHold DEF BarsAre
<1>2. BarLeaked' = PerTrace(allocations', ShownLeaks') /\ BarAtPeak' = PerTrace(allocations', ShownPeaks')
  BY BarsHold DEF BarsAre
<1>3. CASE (SkipEvent \/ ReadTimeStamp) /\ Tracking
  <2>1. UNCHANGED <<allocations, totalCost, peakTracker, control>> /\ Tracking'
    BY <1>3 DEF SkipEvent, ReadTimeStamp, GetLine, Tracking, FirstReading
  <2>2. ShownLeaks' = ShownLeaks /\ ShownPeaks' = ShownPeaks /\ BarPeak' = BarPeak
    BY <1>3, <2>1 DEF ShownLeaks, ShownPeaks, BarPeak
  <2> QED
    BY <1>1, <1>2, <2>1, <2>2 DEF Stutters
<1>4. CASE EndFirstPass /\ FirstReading
  <2>1. /\ UNCHANGED <<allocations, totalCost>> /\ Tracking /\ ~ Tracking' /\ Tracked'
        /\ peaks' = PeakAllocations(Kept(peakTracker))
    BY <1>4 DEF EndFirstPass, AtEnd, Tracking, Tracked, FirstReading, Finalized, Finalize, Kept
  <2>2. ShownLeaks' = ShownLeaks /\ ShownPeaks' = ShownPeaks /\ BarPeak' = BarPeak
    BY <2>1 DEF ShownLeaks, ShownPeaks, BarPeak
  <2> QED
    BY <1>1, <1>2, <2>1, <2>2 DEF Stutters
<1>5. CASE UNCHANGED vars
  <2>1. /\ UNCHANGED <<allocations, totalCost, peakTracker, peaks>>
        /\ (Tracking' <=> Tracking) /\ (Tracked' <=> Tracked)
    BY <1>5 DEF vars, Tracking, Tracked, FirstReading
  <2>2. ShownLeaks' = ShownLeaks /\ ShownPeaks' = ShownPeaks /\ BarPeak' = BarPeak
    BY <2>1 DEF ShownLeaks, ShownPeaks, BarPeak
  <2> QED
    BY <1>1, <1>2, <2>1, <2>2 DEF Stutters
<1> QED
  BY <1>3, <1>4, <1>5

\* Every step is a step of PeakSnapshot or none.
LEMMA SnapshotStep ==
    ASSUME IInv, IInv', ChargedInv', ReplayInv, [Next]_vars
    PROVE  Restarts \/ Changes \/ Stutters
<1>1. CASE Parse
  BY <1>1, ParseRestarts
<1>2. CASE ReadInfo \/ ReadAllocation \/ ReadDeallocation \/ SkipEvent \/ ReadTimeStamp
  <2>1. phase' = "reading" /\ phase = phase' /\ UNCHANGED control
    BY <1>2 DEF ReadInfo, ReadAllocation, ReadDeallocation, SkipEvent, ReadTimeStamp, GetLine
  <2>2. CASE Tracking
    BY <1>2, <2>2, InfoStutters, EventChanges, OthersStutter
  <2>3. CASE ~ Tracking
    <3>1. ~ Tracking' /\ ~ Tracked'
      BY <2>1, <2>3 DEF Tracking, Tracked, FirstReading
    <3> QED
      BY <3>1, OutsideRestarts
  <2> QED
    BY <2>2, <2>3
<1>3. CASE EndFirstPass
  <2>1. CASE FirstReading
    BY <1>3, <2>1, OthersStutter
  <2>2. CASE ~ FirstReading
    <3>1. ~ Tracking' /\ ~ Tracked'
      BY <1>3, <2>2 DEF EndFirstPass, Tracking, Tracked, FirstReading
    <3> QED
      BY <3>1, OutsideRestarts
  <2> QED
    BY <2>1, <2>2
<1>4. CASE ApplyLeakSuppressions \/ EndSecondPass
  <2>1. ~ Tracking' /\ ~ Tracked'
    BY <1>4 DEF ApplyLeakSuppressions, EndSecondPass, Tracking, Tracked
  <2> QED
    BY <2>1, OutsideRestarts
<1>5. CASE StartSecondPass \/ Reparse
  <2>1. ~ Tracking' /\ ~ Tracked'
    BY <1>5 DEF StartSecondPass, Reparse, StartPass, Tracking, Tracked, FirstReading
  <2> QED
    BY <2>1, OutsideRestarts
<1>6. CASE UNCHANGED vars
  BY <1>6, OthersStutter
<1> QED
  BY <1>1, <1>2, <1>3, <1>4, <1>5, <1>6 DEF Next

\* Nothing is shown at first.
LEMMA InitShowsNothing == Init => BarLeaked = Zero /\ BarPeak = 0 /\ BarAtPeak = Zero
<1> SUFFICES ASSUME Init PROVE BarLeaked = Zero /\ BarPeak = 0 /\ BarAtPeak = Zero
  OBVIOUS
<1>1. ~ Tracking /\ ~ Tracked
  BY DEF Init, Tracking, Tracked
<1>2. BarPeak = 0 /\ ShownLeaks = <<>> /\ ShownPeaks = <<>>
  BY <1>1 DEF BarPeak, ShownLeaks, ShownPeaks
<1>3. BarLeaked = PerTrace(allocations, ShownLeaks) /\ BarAtPeak = PerTrace(allocations, ShownPeaks)
  BY BarsHold DEF BarsAre
<1> QED
  BY <1>2, <1>3, ShownNone

\* Sums are the same in both modules.
LEMMA SnapshotSum == ASSUME NEW f PROVE Snapshot!SumFunction(f) = SumFunction(f)
  BY DEF SumFunction, SumFunctionOnSet, FoldFunctionOnSet, MapThenFoldSet, Snapshot!SumFunction,
         Snapshot!SumFunctionOnSet, Snapshot!FoldFunctionOnSet, Snapshot!MapThenFoldSet

\* The snippets of PeakTracker implement a snapshot at every new peak: what a
\* replay of the snippet that is kept gives is, for every trace, what it leaked
\* when the peak of the totals was reached, for files of any length and snippets
\* of any capacity (the first pass over a new file).
THEOREM PeakRefinement == Spec => ImplementsSnapshot
<1>1. Init => Snapshot!Init
  <2> SUFFICES ASSUME Init PROVE Snapshot!Init
    OBVIOUS
  <2>4. BarLeaked = Zero /\ BarPeak = 0 /\ BarAtPeak = Zero
    BY InitShowsNothing
  <2> QED
    BY <2>4 DEF Snapshot!Init, Snapshot!Nothing, BarLeaked, BarPeak, BarAtPeak, Zero
<1>2. Restarts => Snapshot!Restart
  BY DEF Restarts, Snapshot!Restart, Snapshot!Nothing, BarLeaked, BarPeak, BarAtPeak, Zero
<1>3. Changes => Snapshot!Change
  <2>1. \A f : Snapshot!SumFunction(f) = SumFunction(f)
    BY SnapshotSum
  <2> QED
    BY <2>1, Zenon DEF Changes, Snapshot!Change, BarLeaked, BarPeak, BarAtPeak
<1>4. IInv /\ IInv' /\ ChargedInv' /\ ReplayInv /\ [Next]_vars
        => [Snapshot!Next]_<<BarLeaked, BarPeak, BarAtPeak>>
  BY <1>2, <1>3, SnapshotStep DEF Snapshot!Next, Stutters
<1>5. CostInv => ChargedInv
  BY DEF CostInv
<1> QED
  BY <1>1, <1>4, <1>5, Invariance, CostsInvariance, ReplayInvariance, PTL
     DEF Spec, ImplementsSnapshot, Snapshot!Spec, BarLeaked, BarPeak, BarAtPeak

-----------------------------------------------------------------------------
(* The peaks add up                                                        *)

\* The peaks that are shown are of allocations, and add up to the peak.
PeaksInv ==
    /\ Tracked => Values(allocations, peaks)
    /\ BarPeak = SumFunction(BarAtPeak)

\* A sum of nothing.
LEMMA ZeroAddsUp == SumFunction(Zero) = 0
<1>1. DOMAIN Zero = Traces /\ \A t \in Traces : Zero[t] = 0
  BY DEF Zero
<1>2. SumFunction(Zero) = SumFunctionOnSet(Zero, DOMAIN Zero)
  BY DEF SumFunction
<1>3. SumFunctionOnSet(Zero, DOMAIN Zero) = SumFunctionOnSet(Zero, Traces)
  BY <1>1, Zenon
<1>4. SumFunctionOnSet(Zero, Traces) = 0
  BY <1>1, TracesAssumption, SumZero
<1> QED
  BY <1>2, <1>3, <1>4

\* The peaks are the ones of the snippet that was kept.
LEMMA PeaksStep ==
    ASSUME IInv, IInv', ChargedInv', ReplayInv, PeaksInv, [Next]_vars
    PROVE  PeaksInv'
<1>1. Tracked' => Values(allocations', peaks')
  <2>1. CASE EndFirstPass /\ FirstReading
    <3>1. allocations' = allocations /\ Tracking /\ peaks' = PeakAllocations(Kept(peakTracker))
      BY <2>1 DEF EndFirstPass, AtEnd, Tracking, Finalized, Finalize, Kept
    <3>2. SnippetOK(Kept(peakTracker), Len(allocations))
      BY <3>1 DEF ReplayInv, KnowsLeaks, Kept
    <3> QED
      BY <3>1, <3>2 DEF SnippetOK, Values
  <2>2. CASE EndFirstPass /\ ~ FirstReading
    BY <2>2 DEF EndFirstPass, Tracked, FirstReading
  <2>3. CASE UNCHANGED vars
    BY <2>3 DEF vars, PeaksInv, Tracked, FirstReading
  <2>4. CASE Parse \/ StartSecondPass \/ Reparse
    BY <2>4 DEF Parse, StartSecondPass, Reparse, StartPass, Tracked
  <2>5. CASE ReadInfo \/ ReadAllocation \/ ReadDeallocation \/ SkipEvent \/ ReadTimeStamp
    BY <2>5 DEF ReadInfo, ReadAllocation, ReadDeallocation, SkipEvent, ReadTimeStamp, GetLine, Tracked
  <2>6. CASE ApplyLeakSuppressions \/ EndSecondPass
    BY <2>6 DEF ApplyLeakSuppressions, EndSecondPass, Tracked
  <2> QED
    BY <2>1, <2>2, <2>3, <2>4, <2>5, <2>6 DEF Next
<1>2. BarPeak' = SumFunction(BarAtPeak')
  <2>1. CASE Restarts
    BY <2>1, ZeroAddsUp DEF Restarts
  <2>2. CASE Changes
    BY <2>2 DEF Changes, PeaksInv
  <2>3. CASE Stutters
    BY <2>3 DEF Stutters, PeaksInv
  <2> QED
    BY <2>1, <2>2, <2>3, SnapshotStep
<1> QED
  BY <1>1, <1>2 DEF PeaksInv

\* The peaks of the allocations add up to the peak of the totals after the first
\* pass over a new file, however its events were split into snippets: that a
\* reparse breaks this (run reparse_peaks) is the only way to break it
\* (PeakTracker::peakAllocations and the end of read()).
THEOREM FirstPeaksAddUp == Spec => [](~ reparsing => PeaksAddUp)
<1>1. Init => PeaksInv
  <2> SUFFICES ASSUME Init PROVE PeaksInv
    OBVIOUS
  <2>1. ~ Tracked
    BY DEF Init, Tracked
  <2> QED
    BY <2>1, InitShowsNothing, ZeroAddsUp DEF PeaksInv
<1>2. IInv /\ IInv' /\ ChargedInv' /\ ReplayInv /\ PeaksInv /\ [Next]_vars => PeaksInv'
  BY PeaksStep
<1>3. IInv /\ FileInv /\ PeaksInv => (~ reparsing => PeaksAddUp)
  <2> SUFFICES ASSUME IInv, FileInv, PeaksInv, ~ reparsing, phase = "read"
               PROVE  totalCost.peak = SumFunction(peaks)
    BY DEF PeaksAddUp
  <2>1. Tracked /\ ~ Tracking
    BY DEF FileInv, Tracked, Tracking, FirstReading
  <2>2. Values(allocations, peaks) /\ BarPeak = SumFunction(BarAtPeak)
    BY <2>1 DEF PeaksInv
  <2>3. BarPeak = totalCost.peak /\ ShownPeaks = peaks
    BY <2>1 DEF BarPeak, ShownPeaks
  <2>4. BarAtPeak = PerTrace(allocations, peaks)
    BY <2>3, BarsHold DEF BarsAre
  <2>5. allocations \in Seq(Allocation) /\ Distinct(allocations)
    BY TracesDistinct DEF IInv, TypeOK, InfosOK
  <2>6. SumFunction(PerTrace(allocations, peaks)) = SumOver(peaks, 1..Len(peaks))
    BY <2>2, <2>5, ShownSum
  <2>7. DOMAIN peaks = 1..Len(peaks)
    BY <2>2, LenProperties DEF Values
  <2>8. SumFunction(peaks) = SumFunctionOnSet(peaks, DOMAIN peaks)
    BY DEF SumFunction
  <2>9. SumFunctionOnSet(peaks, DOMAIN peaks) = SumFunctionOnSet(peaks, 1..Len(peaks))
    BY <2>7, Zenon
  <2> QED
    BY <2>2, <2>3, <2>4, <2>6, <2>8, <2>9 DEF SumOver
<1>4. CostInv => ChargedInv /\ FileInv
  BY DEF CostInv
<1> QED
  BY <1>1, <1>2, <1>3, <1>4, Invariance, CostsInvariance, ReplayInvariance, PTL DEF Spec

-----------------------------------------------------------------------------
(* The two programs                                                        *)

\* What the GUI and heaptrack_print do with the data is the analysis.
LEMMA ProgramStep ==
    ASSUME [ReadersNext]_<<vars, guiVars, printerVars, program>>
    PROVE  [Next]_vars
<1>1. CASE GuiNext
  BY <1>1 DEF GuiNext, Counting, Sampling, Reading, Charting, Finishing, Starting, Next
<1>2. CASE PrinterNext
  BY <1>2 DEF PrinterNext, Prepare, ReadFails, PrinterAllocation, PrinterTimeStamp, PrinterReading,
              FinalizePrinter, PrintOutputs, Next
<1>3. CASE UNCHANGED <<vars, guiVars, printerVars, program>>
  BY <1>3
<1> QED
  BY <1>1, <1>2, <1>3 DEF ReadersNext

\* Both programs, the GUI in two passes and heaptrack_print in one, only do with
\* the data what the analysis does: the theorems above hold of both, whatever
\* their handleAllocation and handleTimeStamp add.
THEOREM ProgramsAnalyze == ReadersSpec => Spec
<1>1. ReadersInit => Init
  BY DEF ReadersInit, GuiInit
<1> QED
  BY <1>1, ProgramStep, PTL DEF ReadersSpec, Spec

-----------------------------------------------------------------------------
(* heaptrack_print                                                         *)

\* heaptrack_print reads the file once, without a lower limit of the filter.
Printing ==
    /\ program = "print"
    /\ FirstReading /\ filter[1] = 0 /\ pos = Len(file)
    /\ phase \in {"empty", "reading", "read", "summarized"}

\* How far main() is.
MainInv ==
    /\ step = "options" => phase = "empty" /\ exit = -1
    /\ step = "read" => exit = -1 /\ written = options \cap {"massif"} /\ phase # "summarized"
    /\ step = "print" => exit = -1 /\ phase = "summarized"
    /\ step \in {"options", "read", "print", "ended"}
    /\ step = "ended" => \/ exit = 1 /\ phase = "empty"
                         \/ exit = 0 /\ phase = "summarized"

\* What it starts with.
LEMMA PrintStarts == ReadersInit /\ program = "print" => Printing /\ MainInv
<1> SUFFICES ASSUME ReadersInit, program = "print" PROVE Printing /\ MainInv
  OBVIOUS
<1>1. Init /\ PrinterInit /\ filter[1] = 0
  BY DEF ReadersInit, GuiInit
<1>2. Len(<<>>) = 0
  BY EmptySeq
<1> QED
  BY <1>1, <1>2 DEF Init, PrinterInit, Printing, MainInv, FirstReading

\* A step of the programs when heaptrack_print is one.
Step == [ReadersNext]_<<vars, guiVars, printerVars, program>>

\* What it does next.
LEMMA PrintSteps ==
    ASSUME Printing, Step
    PROVE  program' = "print"
           /\ (PrinterNext \/ UNCHANGED <<vars, printerVars>>)
  BY DEF Printing, Step, ReadersNext

\* heaptrack_print stays in its only pass.
LEMMA PrintStep ==
    ASSUME IInv, CostInv, CostInv', Printing, MainInv, Step
    PROVE  Printing' /\ MainInv'
<1>1. program' = "print" /\ (PrinterNext \/ UNCHANGED <<vars, printerVars>>)
  BY PrintSteps
<1>2. file \in Seq(Lines) /\ FileInv' /\ filter \in Nat \X Nat
  BY DEF CostInv, FileInv, IInv, TypeOK, ControlOK
<1>3. CASE Prepare \/ ReadFails \/ PrintOutputs
  BY <1>1, <1>3 DEF Prepare, ReadFails, PrintOutputs, Printing, MainInv, FirstReading, vars, control,
                    reader, EndWith
<1>4. CASE UNCHANGED <<vars, printerVars>>
  BY <1>1, <1>4 DEF Printing, MainInv, FirstReading, vars, control, reader, printerVars, mainVars
<1>5. CASE /\ Continues
           /\ Parse \/ ReadInfo \/ ReadAllocation \/ ReadDeallocation \/ SkipEvent \/ ReadTimeStamp
  <2>1. phase' = "reading" /\ pass' = pass /\ reparsing' = reparsing /\ filter' = filter
    <3>1. CASE Parse
      BY <3>1 DEF Parse, StartPass, CostInv, FileInv
    <3>2. CASE ~ Parse
      <4>1. phase = "reading" /\ UNCHANGED control
        BY <1>5, <3>2 DEF ReadInfo, ReadAllocation, ReadDeallocation, SkipEvent, ReadTimeStamp, GetLine
      <4> QED
        BY <4>1 DEF control
    <3> QED
      BY <3>1, <3>2
  <2>2. FirstReading'
    BY <2>1 DEF Printing, FirstReading
  <2>3. Printing'
    BY <1>1, <1>2, <2>1, <2>2 DEF Printing, FileInv
  <2> QED
    BY <1>5, <2>1, <2>3 DEF MainInv, Continues, mainVars
<1>6. CASE Continues /\ EndFirstPass
  <2>1. phase' = "read" /\ pass' = pass /\ reparsing' = reparsing /\ UNCHANGED <<file, pos>>
    BY <1>6 DEF EndFirstPass, reader
  <2>2. filter'[1] = filter[1]
    BY <1>2, <1>6 DEF EndFirstPass
  <2>3. Printing'
    BY <1>1, <2>1, <2>2 DEF Printing, FirstReading
  <2> QED
    BY <1>6, <2>1, <2>3 DEF MainInv, Continues, mainVars
<1>7. CASE FinalizePrinter
  <2>1. phase' = "summarized" /\ UNCHANGED <<file, pos, pass, reparsing, filter>>
    BY <1>7 DEF FinalizePrinter, ApplyLeakSuppressions, reader
  <2> QED
    BY <1>1, <1>7, <2>1 DEF FinalizePrinter, Printing, MainInv, FirstReading
<1> QED
  BY <1>1, <1>3, <1>4, <1>5, <1>6, <1>7 DEF PrinterNext, PrinterAllocation, PrinterTimeStamp, PrinterReading

-----------------------------------------------------------------------------
(* The lines heaptrack_print has read                                      *)

Signs == {"+", "-"}

\* All lines within the filter are taken into account, as they are read.
WindowsTaken == \A mode : Window(mode) = Taken(mode)

\* Before and after every step.
LEMMA WindowsAreTaken ==
    /\ FileInv /\ Printing => WindowsTaken
    /\ (FileInv /\ Printing => WindowsTaken)'
<1>1. FileInv /\ Printing => WindowsTaken
  BY WindowIs DEF Printing, WindowsTaken
<1> QED
  BY <1>1, PTL

\* Allocations keep their traces, new ones come at the end.
TracesStay ==
    \A a \in 1..Len(allocations) :
        a \in 1..Len(allocations') /\ allocations'[a].trace = allocations[a].trace

\* Nothing takes back what an info says.
LEMMA InfosKept == ASSUME IInv, [Next]_vars PROVE InfosStay /\ TracesStay
<1>0. /\ allocationInfos \in Seq(Info) /\ Len(allocationInfos) \in Nat
      /\ allocations \in Seq(Allocation) /\ Len(allocations) \in Nat
  BY LenProperties DEF IInv, TypeOK, InfosOK
<1>1. CASE ReadInfo
  <2>1. PICK size \in Sizes, trace \in Traces :
          IF FirstReading
          THEN /\ AddAllocation(trace)
               /\ allocationInfos' = Append(allocationInfos,
                       [size |-> size, allocation |-> MapToAllocationIndex(trace)])
          ELSE UNCHANGED <<allocations, infos>>
    BY <1>1 DEF ReadInfo
  <2>2. InfosStay
    <3>1. allocationInfos' = allocationInfos
          \/ allocationInfos' = Append(allocationInfos,
                                    [size |-> size, allocation |-> MapToAllocationIndex(trace)])
      BY <2>1 DEF infos
    <3>2. \A i \in 0..(Len(allocationInfos) - 1) : i + 1 \in 1..Len(allocationInfos)
      BY <1>0
    <3> DEFINE r == [size |-> size, allocation |-> MapToAllocationIndex(trace)]
    <3>3. allocationInfos' = allocationInfos \/ allocationInfos' = Append(allocationInfos, r)
      BY <3>1
    <3> HIDE DEF r
    <3>4. \A i \in 1..Len(allocationInfos) : Append(allocationInfos, r)[i] = allocationInfos[i]
      BY <1>0
    <3> QED
      BY <3>2, <3>3, <3>4 DEF InfosStay
  <2>3. TracesStay
    <3> DEFINE r == [trace |-> trace, cost |-> NoCost]
    <3>1. allocations' = allocations \/ allocations' = Append(allocations, r)
      BY <2>1 DEF AddAllocation
    <3>2. r \in Allocation
      BY DEF Allocation, NoCost
    <3> HIDE DEF r
    <3>3. CASE allocations' = allocations
      BY <3>3 DEF TracesStay
    <3>4. CASE allocations' = Append(allocations, r)
      <4>1. /\ Len(Append(allocations, r)) = Len(allocations) + 1
            /\ \A a \in 1..Len(allocations) : Append(allocations, r)[a] = allocations[a]
        BY <1>0, <3>2, AppendProperties
      <4>2. \A a \in 1..Len(allocations) : a \in 1..(Len(allocations) + 1)
        BY <1>0
      <4> QED
        BY <3>4, <4>1, <4>2 DEF TracesStay
    <3> QED
      BY <3>1, <3>3, <3>4
  <2> QED
    BY <2>2, <2>3
<1>2. CASE ~ ReadInfo
  <2>1. SameTraces
    BY <1>2, CostsOnly DEF Next
  <2> QED
    BY <2>1 DEF SameTraces, infos, InfosStay, TracesStay
<1> QED
  BY <1>1, <1>2

Stays(mode) == Window(mode)' = Window(mode)
Grows(mode) == Window(mode)' = Window(mode) \cup {pos + 1} /\ pos' = pos + 1

\* The lines already read are the ones before pos, and stay as they are.
LinesKept ==
    /\ pos \in Nat /\ pos' \in Nat /\ pos <= pos'
    /\ \A mode \in Signs : \A n \in Window(mode) :
         /\ n \in 1..pos /\ Size(n) \in Nat /\ Trace(n) \in Traces
         /\ Size(n)' = Size(n) /\ Trace(n)' = Trace(n)

\* A line that is no event within the filter, and the ends of the pass.
LEMMA OthersKeepLines ==
    ASSUME IInv, CostInv, CostInv', Printing, Printing',
           \/ Parse \/ ReadInfo \/ SkipEvent \/ ReadTimeStamp
           \/ EndFirstPass \/ ApplyLeakSuppressions \/ UNCHANGED vars
    PROVE  \A mode \in Signs : Stays(mode)
<1>0. ControlOK /\ FileInv /\ FileInv' /\ ClockInv /\ ChargedInv
  BY DEF IInv, TypeOK, CostInv
<1>1. WindowsTaken /\ WindowsTaken'
  BY <1>0, WindowsAreTaken
<1>2. SUFFICES Taken("+")' = Taken("+") /\ Taken("-")' = Taken("-")
  <2> SUFFICES ASSUME NEW mode \in Signs PROVE Stays(mode)
    OBVIOUS
  <2> QED
    BY <1>1, <1>2 DEF WindowsTaken, Signs, Stays
<1>3. CASE ReadInfo \/ SkipEvent \/ ReadTimeStamp
  <2>1. PICK line \in Lines : GetLine(line) /\ (line.mode \in {"a", "c"} \/ ~ inFilteredTime)
    <3>1. CASE SkipEvent
      <4>1. PICK i \in 0..(Len(allocationInfos) - 1), mode \in {"+", "-"} : GetLine(Line(mode, i))
        BY <3>1 DEF SkipEvent
      <4>2. i \in Nat
        BY InfosLength DEF IInv, TypeOK
      <4> QED
        BY <3>1, <4>1, <4>2, LinesTyped DEF SkipEvent
    <3>2. CASE ReadTimeStamp
      <4>1. PICK stamp \in 1..MaxStamp : GetLine(Line("c", stamp))
        BY <3>2 DEF ReadTimeStamp
      <4>2. Line("c", stamp) \in Lines /\ Line("c", stamp).mode = "c"
        <5>1. stamp \in Nat
          OBVIOUS
        <5> QED
          BY <5>1, LinesTyped DEF Line
      <4> QED
        BY <4>1, <4>2
    <3>3. CASE ReadInfo
      <4>1. PICK size \in Sizes, trace \in Traces : GetLine(InfoLine(size, trace))
        BY <3>3 DEF ReadInfo
      <4>2. InfoLine(size, trace) \in Lines /\ InfoLine(size, trace).mode = "a"
        BY LinesTyped DEF InfoLine
      <4> QED
        BY <4>1, <4>2
    <3> QED
      BY <1>3, <3>1, <3>2, <3>3
  <2>2. UNCHANGED control
    BY <1>3 DEF ReadInfo, SkipEvent, ReadTimeStamp
  <2> QED
    BY <1>0, <2>1, <2>2, OtherLine
<1>4. CASE EndFirstPass
  BY <1>0, <1>4, PassEnds
<1>5. CASE Parse
  <2>1. file = <<>> /\ phase = "empty" /\ phase' = "reading" /\ pos' = 0
    BY <1>0, <1>5 DEF Parse, StartPass, FileInv
  <2>2. Len(file) = 0 /\ \A n \in 1..0 : FALSE
    BY <2>1, EmptySeq
  <2> QED
    BY <2>1, <2>2 DEF Taken, Seen
<1>6. CASE ApplyLeakSuppressions
  BY <1>6 DEF ApplyLeakSuppressions, Taken
<1>7. CASE UNCHANGED vars
  BY <1>7 DEF vars, control, reader, Taken
<1> QED
  BY <1>3, <1>4, <1>5, <1>6, <1>7

\* An event is one more line.
LEMMA EventsGrow ==
    ASSUME IInv, CostInv, CostInv', Printing, Printing',
           NEW i \in 0..(Len(allocationInfos) - 1), NEW sign \in Signs,
           GetLine(Line(sign, i)), inFilteredTime, UNCHANGED <<control, infos>>
    PROVE  /\ Grows(sign) /\ \A mode \in Signs : mode # sign => Stays(mode)
           /\ \A n : n = pos + 1 => Size(n)' = allocationInfos[i + 1].size
           /\ pos + 1 \notin Window(sign)
           /\ file'[pos'].value = i
<1>0. FileInv /\ FileInv' /\ ClockInv
  BY DEF CostInv
<1>1. WindowsTaken /\ WindowsTaken'
  BY <1>0, WindowsAreTaken
<1>2. /\ Taken(sign)' = Taken(sign) \cup {pos + 1} /\ pos + 1 \notin Taken(sign)
      /\ \A mode \in {"+", "-"} : mode # sign => Taken(mode)' = Taken(mode)
      /\ LineRead(Line(sign, i)) /\ Line(sign, i).value = i
  BY <1>0, EventLine DEF Signs
<1>3. pos' = pos + 1 /\ file'[pos'].value = i
  BY <1>2 DEF LineRead
<1>4. \A n : Size(n)' = allocationInfos'[file'[n].value + 1].size
  BY DEF Size
<1> QED
  BY <1>1, <1>2, <1>3, <1>4 DEF WindowsTaken, Signs, Stays, Grows, infos

\* What was read stays.
LEMMA LinesAreKept ==
    ASSUME IInv, CostInv, CostInv', Printing, Printing', [Next]_vars
    PROVE  LinesKept
<1>0. FileInv /\ FileInv' /\ ControlOK
  BY DEF CostInv, IInv, TypeOK
<1>1. WindowsTaken
  BY <1>0, WindowsAreTaken
<1>2. InfosStay /\ TracesStay
  BY InfosKept
<1>3. /\ pos \in Nat /\ pos = Len(file) /\ pos' \in Nat /\ file \in Seq(Lines)
      /\ pos' = Len(file') /\ file' \in Seq(Lines)
  BY <1>0, LenProperties DEF FileInv, Printing
<1>4. pos <= pos' /\ \A n \in 1..pos : file'[n] = file[n]
  <2>1. CASE \E line \in Lines : GetLine(line)
    <3>1. PICK line \in Lines : GetLine(line)
      BY <2>1
    <3>2. LineRead(line)
      BY <1>0, <3>1, LineFacts
    <3> QED
      BY <1>3, <3>2 DEF LineRead
  <2>2. CASE UNCHANGED file
    BY <1>3, <2>2
  <2>3. (\E line \in Lines : GetLine(line)) \/ UNCHANGED file
    <3>1. Len(allocationInfos) \in Nat
      BY InfosLength DEF IInv, TypeOK
    <3>2. ReadAllocation \/ ReadDeallocation \/ SkipEvent
             => \E i \in Nat, mode \in {"+", "-"} : GetLine(Line(mode, i))
      <4>1. \A i \in 0..(Len(allocationInfos) - 1) : i \in Nat
        BY <3>1
      <4>2. ReadAllocation => \E i \in 0..(Len(allocationInfos) - 1) : GetLine(Line("+", i))
        BY DEF ReadAllocation
      <4>3. ReadDeallocation => \E i \in 0..(Len(allocationInfos) - 1) : GetLine(Line("-", i))
        BY DEF ReadDeallocation
      <4>4. SkipEvent => \E i \in 0..(Len(allocationInfos) - 1), mode \in {"+", "-"} : GetLine(Line(mode, i))
        BY DEF SkipEvent
      <4> QED
        BY <4>1, <4>2, <4>3, <4>4
    <3>3. ReadTimeStamp => \E i \in Nat : GetLine(Line("c", i))
      BY DEF ReadTimeStamp
    <3>4. ReadInfo => \E size \in Sizes, trace \in Traces : GetLine(InfoLine(size, trace))
      BY DEF ReadInfo
    <3>5. ~ (ReadAllocation \/ ReadDeallocation \/ SkipEvent \/ ReadTimeStamp \/ ReadInfo) => UNCHANGED file
      BY DEF Next, Parse, EndFirstPass, ApplyLeakSuppressions, StartSecondPass, EndSecondPass, Reparse,
             StartPass, vars
    <3> QED
      BY <3>2, <3>3, <3>4, <3>5, LinesTyped
  <2> QED
    BY <2>1, <2>2, <2>3
<1>5. ASSUME NEW mode \in Signs, NEW n \in Window(mode)
      PROVE  /\ n \in 1..pos /\ Size(n) \in Nat /\ Trace(n) \in Traces
             /\ Size(n)' = Size(n) /\ Trace(n)' = Trace(n)
  <2>1. n \in Taken(mode)
    BY <1>1 DEF WindowsTaken
  <2>2. /\ n \in 1..pos /\ file[n].value \in 0..(Len(allocationInfos) - 1)
        /\ allocationInfos[file[n].value + 1].size \in Nat
        /\ allocationInfos[file[n].value + 1].allocation \in 1..Len(allocations)
    BY <1>0, <1>3, <2>1, TakenTyped DEF Signs
  <2>3. file'[n] = file[n] /\ allocationInfos'[file[n].value + 1] = allocationInfos[file[n].value + 1]
    BY <1>2, <1>4, <2>2 DEF InfosStay
  <2> DEFINE a == allocationInfos[file[n].value + 1].allocation
  <2>4. allocations'[a].trace = allocations[a].trace /\ allocations[a] \in Allocation
    BY <1>2, <2>2, Elements DEF TracesStay
  <2>5. allocations[a].trace \in Traces
    BY <2>4 DEF Allocation
  <2> QED
    BY <2>2, <2>3, <2>4, <2>5 DEF Size, Trace
<1> QED
  BY <1>3, <1>4, <1>5 DEF LinesKept

-----------------------------------------------------------------------------
(* The histogram of heaptrack_print                                        *)

OfSize(s) == {n \in Window("+") : Size(n) = s}

\* The histogram counts the lines + that were read.
SizesInv ==
    "histogram" \in options =>
        /\ DOMAIN sizeHistogram = {Size(n) : n \in Window("+")}
        /\ \A s \in DOMAIN sizeHistogram : sizeHistogram[s] = Cardinality(OfSize(s))

\* There are no lines before a file is read.
LEMMA NoLines == ASSUME file = <<>> PROVE \A mode : Window(mode) = {}
<1>1. DOMAIN file = {}
  BY EmptySeq
<1> QED
  BY <1>1 DEF Window

\* Line +.
LEMMA AllocationGrows ==
    ASSUME IInv, CostInv, CostInv', Printing, Printing', ReadAllocation
    PROVE  /\ Grows("+") /\ Stays("-") /\ pos + 1 \notin Window("+")
           /\ \A n : n = pos + 1 => Size(n)' = allocationInfos[file'[pos'].value + 1].size
<1>1. PICK i \in 0..(Len(allocationInfos) - 1) :
        GetLine(Line("+", i)) /\ inFilteredTime /\ UNCHANGED <<control, infos>>
  BY DEF ReadAllocation
<1>2. "+" \in Signs /\ "-" \in Signs /\ "+" # "-"
  BY DEF Signs
<1> QED
  BY <1>1, <1>2, EventsGrow

\* Line -.
LEMMA DeallocationGrows ==
    ASSUME IInv, CostInv, CostInv', Printing, Printing', ReadDeallocation
    PROVE  Grows("-") /\ Stays("+")
<1>1. PICK i \in 0..(Len(allocationInfos) - 1) :
        GetLine(Line("-", i)) /\ inFilteredTime /\ UNCHANGED <<control, infos>>
  BY DEF ReadDeallocation
<1>2. "+" \in Signs /\ "-" \in Signs /\ "+" # "-"
  BY DEF Signs
<1> QED
  BY <1>1, <1>2, EventsGrow

\* Only a line + adds to the lines +.
LEMMA StaysUnlessAllocation ==
    ASSUME IInv, CostInv, CostInv', Printing, Printing',
           \/ Parse \/ ReadInfo \/ ReadDeallocation \/ SkipEvent \/ ReadTimeStamp
           \/ EndFirstPass \/ ApplyLeakSuppressions \/ UNCHANGED vars
    PROVE  Stays("+")
  BY OthersKeepLines, DeallocationGrows DEF Signs

\* The lines before pos are finite.
LEMMA WindowFinite ==
    ASSUME IInv, CostInv, Printing
    PROVE  \A mode \in Signs : IsFiniteSet(Window(mode))
<1>1. FileInv
  BY DEF CostInv
<1> QED
  BY <1>1, WindowsAreTaken, TakenTyped DEF WindowsTaken, Signs

\* Counting one more line of a size.
LEMMA SizesCount ==
    ASSUME IInv, CostInv, CostInv', Printing, Printing', LinesKept, SizesInv, ReadAllocation,
           UNCHANGED options, CountSize(allocationInfos[file'[pos'].value + 1].size)
    PROVE  SizesInv'
<1> SUFFICES ASSUME "histogram" \in options
             PROVE  /\ DOMAIN sizeHistogram' = {Size(n)' : n \in Window("+")'}
                    /\ \A s \in DOMAIN sizeHistogram' : sizeHistogram'[s] = Cardinality(OfSize(s)')
  BY DEF SizesInv
<1> DEFINE x == pos + 1
           size == allocationInfos[file'[pos'].value + 1].size
           h == sizeHistogram
<1>1. /\ Window("+")' = Window("+") \cup {x} /\ x \notin Window("+")
      /\ \A n : n = x => Size(n)' = size
  BY AllocationGrows DEF Grows
<1>2. \A n \in Window("+") : Size(n)' = Size(n)
  BY DEF LinesKept, Signs
<1>3. sizeHistogram' = [s \in DOMAIN h \cup {size} |->
                (IF s \in DOMAIN h THEN h[s] ELSE 0) + (IF s = size THEN 1 ELSE 0)]
  BY DEF CountSize
<1>4. DOMAIN h = {Size(n) : n \in Window("+")} /\ \A s \in DOMAIN h : h[s] = Cardinality(OfSize(s))
  BY DEF SizesInv
<1>5. \A s : OfSize(s)' = {n \in Window("+")' : Size(n)' = s}
  BY DEF OfSize
<1> HIDE DEF x, size, h
<1>6. DOMAIN sizeHistogram' = DOMAIN h \cup {size}
  BY <1>3
<1>7. {Size(n)' : n \in Window("+")'} = {Size(n) : n \in Window("+")} \cup {size}
  BY <1>1, <1>2
<1>8. ASSUME NEW s \in DOMAIN sizeHistogram'
      PROVE  sizeHistogram'[s] = Cardinality(OfSize(s)')
  <2>1. IsFiniteSet(OfSize(s)) /\ Cardinality(OfSize(s)) \in Nat
    <3>1. IsFiniteSet(Window("+"))
      BY WindowFinite DEF Signs
    <3>2. OfSize(s) \subseteq Window("+")
      BY DEF OfSize
    <3> QED
      BY <3>1, <3>2, FS_Subset, FS_CardinalityType
  <2>2. sizeHistogram'[s] = (IF s \in DOMAIN h THEN h[s] ELSE 0) + (IF s = size THEN 1 ELSE 0)
    BY <1>3, <1>6
  <2>3. (IF s \in DOMAIN h THEN h[s] ELSE 0) = Cardinality(OfSize(s))
    <3>1. CASE s \in DOMAIN h
      BY <1>4, <3>1
    <3>2. CASE s \notin DOMAIN h
      <4>1. OfSize(s) = {}
        BY <1>4, <3>2 DEF OfSize
      <4>2. Cardinality(OfSize(s)) = 0
        BY <4>1, FS_EmptySet, Zenon
      <4> QED
        BY <3>2, <4>2
    <3> QED
      BY <3>1, <3>2
  <2>4. CASE s = size
    <3>1. OfSize(s)' = OfSize(s) \cup {x} /\ x \notin OfSize(s)
      BY <1>1, <1>2, <1>5, <2>4 DEF OfSize
    <3>2. Cardinality(OfSize(s) \cup {x}) = Cardinality(OfSize(s)) + 1
      BY <2>1, <3>1, FS_AddElement
    <3> QED
      BY <2>2, <2>3, <2>4, <3>1, <3>2
  <2>5. CASE s # size
    <3>1. OfSize(s)' = OfSize(s)
      BY <1>1, <1>2, <1>5, <2>5 DEF OfSize
    <3> QED
      BY <2>1, <2>2, <2>3, <2>5, <3>1
  <2> QED
    BY <2>4, <2>5
<1> QED
  BY <1>4, <1>6, <1>7, <1>8

\* Every step keeps the histogram right.
LEMMA SizesStep ==
    ASSUME IInv, CostInv, CostInv', Printing, Printing', SizesInv, Step
    PROVE  SizesInv'
<1>0. [Next]_vars
  BY ProgramStep DEF Step
<1>1. LinesKept
  BY <1>0, LinesAreKept
<1>2. program' = "print" /\ (PrinterNext \/ UNCHANGED <<vars, printerVars>>)
  BY PrintSteps
<1>3. ASSUME UNCHANGED <<options, sizeHistogram>>, Stays("+") PROVE SizesInv'
  <2>1. \A n \in Window("+") : Size(n)' = Size(n)
    BY <1>1 DEF LinesKept, Signs
  <2>2. \A s : OfSize(s)' = OfSize(s)
    BY <1>3, <2>1 DEF OfSize, Stays
  <2>3. {Size(n)' : n \in Window("+")'} = {Size(n) : n \in Window("+")}
    BY <1>3, <2>1 DEF Stays
  <2> QED
    BY <1>3, <2>2, <2>3 DEF SizesInv
<1>4. CASE PrinterAllocation
  BY <1>1, <1>4, SizesCount DEF PrinterAllocation, Continues, mainVars
<1>5. CASE ~ PrinterAllocation
  <2>1. /\ UNCHANGED <<options, sizeHistogram>>
        /\ \/ Parse \/ ReadInfo \/ ReadDeallocation \/ SkipEvent \/ ReadTimeStamp
           \/ EndFirstPass \/ ApplyLeakSuppressions \/ UNCHANGED vars
    BY <1>2, <1>5 DEF PrinterNext, Prepare, ReadFails, PrinterTimeStamp, PrinterReading,
                      FinalizePrinter, PrintOutputs, Continues, mainVars, printerVars
  <2>2. Stays("+")
    BY <2>1, StaysUnlessAllocation
  <2> QED
    BY <1>3, <2>1, <2>2
<1> QED
  BY <1>4, <1>5

-----------------------------------------------------------------------------
(* What was leaked before a line                                           *)

\* Steps of heaptrack_print add one event at most, at the end.
Adds == LinesKept /\ \A mode \in Signs : Stays(mode) \/ Grows(mode)

\* Later lines do not change what was leaked before an earlier one.
LEMMA LeakedKept ==
    ASSUME Adds, NEW n \in 1..(pos + 1), NEW T
    PROVE  LeakedBefore(n, T)' = LeakedBefore(n, T)
<1> DEFINE B(mode) == {k \in Window(mode) : k < n /\ Trace(k) \in T}
<1>1. pos \in Nat
  BY DEF Adds, LinesKept
<1>2. ASSUME NEW mode \in Signs PROVE B(mode)' = B(mode) /\ SizeOf(B(mode))' = SizeOf(B(mode))
  <2>1. \A k \in Window(mode) : k \in 1..pos /\ Size(k)' = Size(k) /\ Trace(k)' = Trace(k)
    BY DEF Adds, LinesKept
  <2>2. Window(mode)' = Window(mode) \/ Window(mode)' = Window(mode) \cup {pos + 1}
    BY DEF Adds, Stays, Grows
  <2>3. B(mode)' = {k \in Window(mode)' : k < n /\ Trace(k)' \in T}
    OBVIOUS
  <2>4. ~ pos + 1 < n
    BY <1>1
  <2>5. B(mode)' = B(mode)
    BY <2>1, <2>2, <2>3, <2>4
  <2>6. \A k \in B(mode) : Size(k)' = Size(k)
    BY <2>1
  <2>7. [k \in B(mode)' |-> Size(k)'] = [k \in B(mode) |-> Size(k)]
    BY <2>5, <2>6
  <2> QED
    BY <2>5, <2>7 DEF SizeOf
<1>3. LeakedBefore(n, T) = SizeOf(B("+")) - SizeOf(B("-"))
  BY DEF LeakedBefore, AllocatedBefore
<1>4. LeakedBefore(n, T)' = SizeOf(B("+"))' - SizeOf(B("-"))'
  BY DEF LeakedBefore, AllocatedBefore
<1>5. "+" \in Signs /\ "-" \in Signs
  BY DEF Signs
<1> HIDE DEF B
<1> QED
  BY <1>2, <1>3, <1>4, <1>5

\* What was leaked is a number.
LEMMA LeakedTyped ==
    ASSUME IInv, CostInv, Printing
    PROVE  \A n, T : LeakedBefore(n, T) \in Int
<1> SUFFICES ASSUME NEW n, NEW T PROVE LeakedBefore(n, T) \in Int
  OBVIOUS
<1> DEFINE B(mode) == {k \in Window(mode) : k < n /\ Trace(k) \in T}
<1>1. FileInv /\ WindowsTaken
  BY WindowsAreTaken DEF CostInv
<1>2. ASSUME NEW mode \in {"+", "-"} PROVE SizeOf(B(mode)) \in Int
  <2>1. B(mode) \in SUBSET Taken(mode)
    BY <1>1 DEF WindowsTaken
  <2> HIDE DEF B
  <2> QED
    BY <1>1, <2>1, SizeOfIs
<1>3. LeakedBefore(n, T) = SizeOf(B("+")) - SizeOf(B("-"))
  BY DEF LeakedBefore, AllocatedBefore
<1>4. SizeOf(B("+")) \in Int /\ SizeOf(B("-")) \in Int
  BY <1>2
<1> HIDE DEF B
<1> QED
  BY <1>3, <1>4

\* A tree of allocations that is made at a line.
IsTree(tree, n) ==
    \A a \in DOMAIN tree : tree[a].cost.leaked = LeakedBefore(n, {tree[a].trace})

\* The totals and the allocations of the reader are those after the last line.
Present ==
    /\ LeakedBefore(pos + 1, Traces) = totalCost.leaked
    /\ IsTree(allocations, pos + 1)

\* The totals while lines are read.
LEMMA PresentIs == ASSUME IInv, CostInv, Printing, phase \in {"reading", "read"} PROVE Present
<1>1. /\ FileInv /\ ChargedInv /\ WindowsTaken /\ pos = Len(file) /\ pos \in Nat
      /\ file \in Seq(Lines)
  BY WindowsAreTaken, LenProperties DEF CostInv, Printing, FileInv
<1>2. "+" \in {"+", "-"} /\ "-" \in {"+", "-"}
  OBVIOUS
<1>3. ASSUME NEW mode \in {"+", "-"}, NEW n \in Taken(mode)
      PROVE  n < pos + 1 /\ Trace(n) \in Traces
  <2>1. /\ n \in 1..Len(file) /\ file[n].value \in 0..(Len(allocationInfos) - 1)
        /\ LineAllocations[n] = allocationInfos[file[n].value + 1].allocation
        /\ LineAllocations[n] \in 1..Len(allocations)
    BY <1>1, <1>3, TakenTyped
  <2>2. allocations[LineAllocations[n]] \in Allocation
    BY <2>1, Elements
  <2>3. Trace(n) \in Traces
    BY <2>1, <2>2 DEF Trace, Allocation
  <2> QED
    BY <1>1, <2>1, <2>3
<1>4. LeakedBefore(pos + 1, Traces) = totalCost.leaked
  <2>1. AllocatedBefore(pos + 1, Traces) = Taken("+")
    BY <1>1, <1>3 DEF AllocatedBefore, WindowsTaken
  <2>2. {k \in Window("-") : k < pos + 1 /\ Trace(k) \in Traces} = Taken("-")
    BY <1>1, <1>3 DEF WindowsTaken
  <2>3. LeakedBefore(pos + 1, Traces) = SizeOf(Taken("+")) - SizeOf(Taken("-"))
    BY <2>1, <2>2 DEF LeakedBefore
  <2>4. Taken("+") \in SUBSET Taken("+") /\ Taken("-") \in SUBSET Taken("-")
    OBVIOUS
  <2>5. SizeOf(Taken("+")) = SumOver(LineSizes, Taken("+"))
    BY <1>1, <1>2, <2>4, SizeOfIs
  <2>6. SizeOf(Taken("-")) = SumOver(LineSizes, Taken("-"))
    BY <1>1, <1>2, <2>4, SizeOfIs
  <2>7. totalCost.leaked = SumOver(LineSizes, Taken("+")) - SumOver(LineSizes, Taken("-"))
    BY <1>1 DEF ChargedInv, CostsAre
  <2> QED
    BY <2>3, <2>5, <2>6, <2>7
<1>5. IsTree(allocations, pos + 1)
  <2> SUFFICES ASSUME NEW a \in 1..Len(allocations)
               PROVE  allocations[a].cost.leaked = LeakedBefore(pos + 1, {allocations[a].trace})
    BY Elements DEF IsTree
  <2> DEFINE t == allocations[a].trace
  <2>1. t \in Traces /\ allocations[a].cost.leaked = LeaksOf[t]
    BY <1>1, LeaksOfAllocations
  <2>2. LeaksOf[t] = LeakOf(t)
    BY <1>1, <2>1, LeakOfIs
  <2> HIDE DEF t
  <2>3. \A mode \in {"+", "-"} : {k \in Window(mode) : k < pos + 1 /\ Trace(k) \in {t}}
                                    = {k \in Window(mode) : Trace(k) = t}
    BY <1>1, <1>3 DEF WindowsTaken
  <2>4. AllocatedBefore(pos + 1, {t}) = {k \in Window("+") : Trace(k) = t}
    BY <1>2, <2>3 DEF AllocatedBefore
  <2>5. {k \in Window("-") : k < pos + 1 /\ Trace(k) \in {t}} = {k \in Window("-") : Trace(k) = t}
    BY <1>2, <2>3
  <2>6. LeakedBefore(pos + 1, {t}) = LeakOf(t)
    BY <2>4, <2>5 DEF LeakedBefore, LeakOf
  <2> QED
    BY <2>1, <2>2, <2>6 DEF t
<1> QED
  BY <1>4, <1>5 DEF Present

\* Before and after every step.
LEMMA PresentHolds ==
    /\ IInv /\ CostInv /\ Printing /\ phase \in {"reading", "read"} => Present
    /\ (IInv /\ CostInv /\ Printing /\ phase \in {"reading", "read"} => Present)'
<1>1. IInv /\ CostInv /\ Printing /\ phase \in {"reading", "read"} => Present
  BY PresentIs
<1> QED
  BY <1>1, PTL

\* A tree stays that of its line.
LEMMA TreeKept ==
    ASSUME Adds, NEW n \in 1..(pos + 1), NEW tree
    PROVE  IsTree(tree, n)' <=> IsTree(tree, n)
<1>1. \A T : LeakedBefore(n, T)' = LeakedBefore(n, T)
  BY LeakedKept
<1> QED
  BY <1>1 DEF IsTree

-----------------------------------------------------------------------------
(* The massif file                                                         *)

\* A snapshot and the lines + since the one before it: it has the highest
\* consumption one of them found, or the present one if none found any.
Agrees(s, since) ==
    \/ /\ \A n \in since : LeakedBefore(n, Traces) <= s.heap
       /\ s.heap > 0
       /\ \E n \in since : s.heap = LeakedBefore(n, Traces) /\ IsTree(s.tree, n + 1)
    \/ /\ \A n \in since : LeakedBefore(n, Traces) <= 0
       /\ s.heap = LeakedBefore(s.at + 1, Traces) /\ IsTree(s.tree, s.at + 1)

\* The lines + since the last snapshot.
SinceLast == {n \in Window("+") : snapshots # <<>> => n > snapshots[Len(snapshots)].at}

MassifSnapshot == [stamp : Nat, at : Nat, heap : Int, detailed : BOOLEAN, tree : Seq(Allocation)]

MassifTyped ==
    /\ snapshots \in Seq(MassifSnapshot) /\ massifAllocations \in Seq(Allocation)
    /\ \A k \in 1..Len(snapshots) : snapshots[k].at <= pos

SnapshotsRight == \A k \in 1..Len(snapshots) : Agrees(snapshots[k], Since(k))

\* lastMassifPeak is the highest consumption since the last snapshot.
PeakRight ==
    /\ lastMassifPeak \in Nat
    /\ \A n \in SinceLast : LeakedBefore(n, Traces) <= lastMassifPeak
    /\ lastMassifPeak # 0 =>
        \E n \in SinceLast : /\ lastMassifPeak = LeakedBefore(n, Traces)
                             /\ IsTree(massifAllocations, n + 1)

\* The last snapshot is the one at the end of the file.
EndsRight ==
    phase \in {"read", "summarized"} =>
        /\ snapshots # <<>>
        /\ snapshots[Len(snapshots)].stamp = totalTime
        /\ DetailedFreq # 0 => snapshots[Len(snapshots)].detailed

MassifInv ==
    /\ "massif" \notin options \/ phase = "empty" => snapshots = <<>> /\ lastMassifPeak = 0
    /\ MassifTyped
    /\ SnapshotsRight
    /\ "massif" \in options => PeakRight /\ EndsRight

\* A snapshot stays right.
LEMMA AgreesKept ==
    ASSUME Adds, NEW s \in MassifSnapshot, s.at <= pos,
           NEW S \in SUBSET (1..pos), Agrees(s, S)
    PROVE  Agrees(s, S)'
<1>1. pos \in Nat
  BY DEF Adds, LinesKept
<1>2. \A n \in 1..(pos + 1) : LeakedBefore(n, Traces)' = LeakedBefore(n, Traces)
  BY LeakedKept
<1>3. \A n \in 1..(pos + 1) : IsTree(s.tree, n)' <=> IsTree(s.tree, n)
  BY TreeKept
<1>4. s.at + 1 \in 1..(pos + 1) /\ \A n \in S : n \in 1..(pos + 1) /\ n + 1 \in 1..(pos + 1)
  BY <1>1 DEF MassifSnapshot
<1> QED
  BY <1>2, <1>3, <1>4 DEF Agrees

\* The lines up to a snapshot stay, those since the last one may grow.
LEMMA SinceKept ==
    ASSUME Adds, MassifTyped, Len(snapshots) <= Len(snapshots'),
           \A k \in 1..Len(snapshots) : snapshots'[k] = snapshots[k]
    PROVE  /\ \A k \in 1..Len(snapshots) :
                 Since(k)' = Since(k) /\ Since(k) \in SUBSET (1..pos) /\ snapshots[k] \in MassifSnapshot
           /\ SinceLast \in SUBSET (1..pos)
<1>1. pos \in Nat /\ Len(snapshots) \in Nat /\ \A k \in 1..Len(snapshots) : snapshots[k] \in MassifSnapshot
  BY LenProperties, ElementOfSeq DEF Adds, LinesKept, MassifTyped
<1>2. (Window("+")' = Window("+") \/ Window("+")' = Window("+") \cup {pos + 1})
      /\ \A n \in Window("+") : n \in 1..pos
  BY DEF Adds, LinesKept, Signs, Stays, Grows
<1>3. ASSUME NEW k \in 1..Len(snapshots)
      PROVE  Since(k)' = Since(k) /\ Since(k) \in SUBSET (1..pos)
  <2>1. snapshots[k].at \in Nat /\ snapshots[k].at <= pos
    BY <1>1 DEF MassifSnapshot, MassifTyped
  <2>2. snapshots'[k] = snapshots[k] /\ (k > 1 => snapshots'[k - 1] = snapshots[k - 1])
    BY <1>1
  <2>3. Since(k)' = {n \in Window("+")' : n <= snapshots'[k].at /\ (k > 1 => n > snapshots'[k - 1].at)}
    BY DEF Since
  <2>4. Since(k) = {n \in Window("+") : n <= snapshots[k].at /\ (k > 1 => n > snapshots[k - 1].at)}
    BY DEF Since
  <2>5. ~ pos + 1 <= snapshots[k].at
    BY <1>1, <2>1
  <2> QED
    BY <1>2, <2>2, <2>3, <2>4, <2>5
<1>4. SinceLast \in SUBSET (1..pos)
  BY <1>2 DEF SinceLast
<1> QED
  BY <1>1, <1>3, <1>4

\* The snapshots so far stay right.
LEMMA SnapshotsKept ==
    ASSUME Adds, MassifTyped, SnapshotsRight, Len(snapshots) <= Len(snapshots'),
           \A k \in 1..Len(snapshots) : snapshots'[k] = snapshots[k]
    PROVE  \A k \in 1..Len(snapshots) : Agrees(snapshots[k], Since(k))' /\ snapshots'[k].at <= pos'
<1> SUFFICES ASSUME NEW k \in 1..Len(snapshots)
             PROVE  Agrees(snapshots[k], Since(k))' /\ snapshots'[k].at <= pos'
  OBVIOUS
<1>1. /\ Since(k)' = Since(k) /\ Since(k) \in SUBSET (1..pos) /\ snapshots[k] \in MassifSnapshot
      /\ snapshots'[k] = snapshots[k]
  BY SinceKept
<1>2. snapshots[k].at <= pos /\ Agrees(snapshots[k], Since(k))
  BY DEF MassifTyped, SnapshotsRight
<1>3. \A s \in MassifSnapshot, S \in SUBSET (1..pos) : s.at <= pos /\ Agrees(s, S) => Agrees(s, S)'
  BY AgreesKept
<1>4. \A s, S : s = snapshots[k] /\ S = Since(k) => Agrees(s, S)'
  BY <1>1, <1>2, <1>3
<1>5. \A s, S : s = snapshots'[k] /\ S = Since(k)' => Agrees(s, S)'
  BY <1>1, <1>4
<1>6. Agrees(snapshots[k], Since(k))'
  BY <1>5 DEF Agrees
<1>7. snapshots[k].at \in Nat /\ pos \in Nat /\ pos' \in Nat /\ pos <= pos'
  BY <1>1 DEF MassifSnapshot, Adds, LinesKept
<1> QED
  BY <1>1, <1>2, <1>6, <1>7

\* What a step that reads no line + and takes no snapshot leaves as it is.
LEMMA MassifStays ==
    ASSUME Adds, MassifInv, Stays("+"), UNCHANGED <<massif, options>>,
           phase' = "empty" => phase = "empty",
           "massif" \in options /\ phase' \in {"read", "summarized"} =>
                phase \in {"read", "summarized"} /\ totalTime' = totalTime
    PROVE  MassifInv'
<1>1. UNCHANGED <<snapshots, lastMassifPeak, massifAllocations>>
  BY DEF massif
<1>2. MassifTyped /\ SnapshotsRight /\ Len(snapshots) \in Nat
  BY LenProperties DEF MassifInv, MassifTyped
<1>3. \A k \in 1..Len(snapshots) : Agrees(snapshots[k], Since(k))' /\ snapshots'[k].at <= pos'
  BY <1>1, <1>2, SnapshotsKept
<1>4. MassifTyped' /\ SnapshotsRight'
  BY <1>1, <1>2, <1>3 DEF MassifTyped, SnapshotsRight
<1>5. ASSUME "massif" \in options PROVE PeakRight'
  <2>1. PeakRight
    BY <1>5 DEF MassifInv
  <2>2. SinceLast' = SinceLast /\ SinceLast \in SUBSET (1..pos) /\ pos \in Nat
    BY <1>1, <1>2, SinceKept DEF SinceLast, Stays, Adds, LinesKept
  <2>3. \A n \in SinceLast : n \in 1..(pos + 1) /\ n + 1 \in 1..(pos + 1)
    BY <2>2
  <2>4. \A n \in SinceLast : LeakedBefore(n, Traces)' = LeakedBefore(n, Traces)
    BY <2>3, LeakedKept
  <2>5. \A n \in SinceLast : \A tree : IsTree(tree, n + 1)' <=> IsTree(tree, n + 1)
    BY <2>3, TreeKept
  <2>6. \A n \in SinceLast : IsTree(massifAllocations, n + 1) => IsTree(massifAllocations, n + 1)'
    <3>1. \A n \in SinceLast : \A tree :
            tree = massifAllocations' /\ IsTree(massifAllocations, n + 1) => IsTree(tree, n + 1)'
      BY <1>1, <2>5
    <3> QED
      BY <3>1 DEF IsTree
  <2> QED
    BY <1>1, <2>1, <2>2, <2>4, <2>6 DEF PeakRight
<1>6. ASSUME "massif" \in options PROVE EndsRight'
  BY <1>1, <1>6 DEF MassifInv, EndsRight
<1> QED
  BY <1>1, <1>4, <1>5, <1>6 DEF MassifInv

\* A line +.
LEMMA MassifPeak ==
    ASSUME IInv, CostInv, IInv', CostInv', Printing, Printing', Adds, MassifInv,
           ReadAllocation, KeepPeak, UNCHANGED options, written = options \cap {"massif"}
    PROVE  MassifInv'
<1>1. /\ MassifTyped /\ SnapshotsRight /\ Len(snapshots) \in Nat /\ snapshots' = snapshots
      /\ phase = "reading" /\ phase' = "reading"
  BY LenProperties DEF MassifInv, MassifTyped, KeepPeak, massif, ReadAllocation, GetLine, control
<1>2. \A k \in 1..Len(snapshots) : Agrees(snapshots[k], Since(k))' /\ snapshots'[k].at <= pos'
  BY <1>1, SnapshotsKept
<1>3. allocations' \in Seq(Allocation) /\ totalCost.leaked \in Int
  BY <1>1 DEF IInv, TypeOK, InfosOK, CostsOK, Total
<1>4. MassifTyped' /\ SnapshotsRight'
  BY <1>1, <1>2, <1>3 DEF MassifTyped, SnapshotsRight, KeepPeak, massif
<1>5. CASE "massif" \notin options
  <2>1. UNCHANGED massif /\ snapshots = <<>> /\ lastMassifPeak = 0
    BY <1>5 DEF KeepPeak, MassifInv
  <2> QED
    BY <1>1, <1>4, <1>5, <2>1 DEF MassifInv, massif
<1>6. CASE "massif" \in options
  <2>0. PICK x, b : x = pos + 1 /\ b = totalCost.leaked
    OBVIOUS
  <2>1. PeakRight
    BY <1>6 DEF MassifInv
  <2>2. pos \in Nat /\ pos' = x /\ SinceLast \in SUBSET (1..pos)
    BY <1>1, <2>0, SinceKept DEF Adds, LinesKept, ReadAllocation, GetLine
  <2>3. SinceLast' = SinceLast \cup {x}
    <3>1. Window("+")' = Window("+") \cup {x}
      BY <2>0, AllocationGrows DEF Grows
    <3>2. snapshots # <<>> => x > snapshots[Len(snapshots)].at
      <4> SUFFICES ASSUME snapshots # <<>> PROVE x > snapshots[Len(snapshots)].at
        OBVIOUS
      <4>1. Len(snapshots) \in 1..Len(snapshots)
        BY <1>1, EmptySeq DEF MassifTyped
      <4>2. snapshots[Len(snapshots)] \in MassifSnapshot /\ snapshots[Len(snapshots)].at <= pos
        BY <1>1, <4>1, ElementOfSeq DEF MassifTyped
      <4> QED
        BY <2>0, <2>2, <4>2 DEF MassifSnapshot
    <3> QED
      BY <1>1, <3>1, <3>2 DEF SinceLast
  <2>4. \A n \in SinceLast : n \in 1..(pos + 1) /\ n + 1 \in 1..(pos + 1)
    BY <2>2
  <2>5. \A n \in SinceLast : LeakedBefore(n, Traces)' = LeakedBefore(n, Traces)
    BY <2>4, LeakedKept
  <2>6. LeakedBefore(x, Traces)' = b
    <3>1. Present
      BY <1>1, PresentHolds
    <3>2. x \in 1..(pos + 1)
      BY <2>0, <2>2
    <3>3. LeakedBefore(x, Traces)' = LeakedBefore(x, Traces)
      BY <3>2, LeakedKept
    <3> QED
      BY <2>0, <3>1, <3>3 DEF Present
  <2>7. CASE b > 0 /\ b > lastMassifPeak
    <3>1. massifAllocations' = allocations' /\ lastMassifPeak' = b
      BY <1>6, <2>0, <2>7 DEF KeepPeak
    <3>2. IsTree(allocations, pos + 1)'
      BY <1>1, PresentHolds DEF Present
    <3>3. \A n : n = x => IsTree(massifAllocations, n + 1)'
      BY <2>0, <2>2, <3>1, <3>2 DEF IsTree
    <3>4. \A n \in SinceLast' : LeakedBefore(n, Traces)' <= b
      <4>1. \A n \in SinceLast : LeakedBefore(n, Traces) <= lastMassifPeak
        BY <2>1 DEF PeakRight
      <4>2. \A n \in SinceLast : LeakedBefore(n, Traces) \in Int
        BY LeakedTyped
      <4>3. lastMassifPeak \in Int /\ b \in Int
        BY <1>3, <2>0, <2>1 DEF PeakRight
      <4> QED
        BY <2>3, <2>5, <2>6, <2>7, <4>1, <4>2, <4>3
    <3>5. b \in Nat
      BY <1>3, <2>0, <2>7
    <3>6. PeakRight'
      BY <2>3, <2>6, <3>1, <3>3, <3>4, <3>5 DEF PeakRight
    <3> QED
      BY <1>1, <1>4, <1>6, <3>6 DEF MassifInv, EndsRight
  <2>8. CASE ~ (b > 0 /\ b > lastMassifPeak)
    <3>1. UNCHANGED <<lastMassifPeak, massifAllocations>> /\ lastMassifPeak \in Nat
      BY <1>6, <2>0, <2>1, <2>8 DEF KeepPeak, massif, PeakRight
    <3>2. b <= lastMassifPeak
      BY <1>3, <2>0, <2>8, <3>1
    <3>3. \A n \in SinceLast' : LeakedBefore(n, Traces)' <= lastMassifPeak
      BY <2>1, <2>3, <2>5, <2>6, <3>2 DEF PeakRight
    <3>4. \A n \in SinceLast : \A tree : IsTree(tree, n + 1)' <=> IsTree(tree, n + 1)
      BY <2>4, TreeKept
    <3>5. \A n \in SinceLast : IsTree(massifAllocations, n + 1) => IsTree(massifAllocations, n + 1)'
      <4>1. \A n \in SinceLast : \A tree :
              tree = massifAllocations' /\ IsTree(massifAllocations, n + 1) => IsTree(tree, n + 1)'
        BY <3>1, <3>4
      <4> QED
        BY <4>1 DEF IsTree
    <3>6. PeakRight'
      BY <2>1, <2>3, <2>5, <3>1, <3>3, <3>5 DEF PeakRight
    <3> QED
      BY <1>1, <1>4, <1>6, <3>6 DEF MassifInv, EndsRight
  <2> QED
    BY <2>7, <2>8
<1> QED
  BY <1>5, <1>6

\* A snapshot is taken.
LEMMA MassifWritten ==
    ASSUME IInv, CostInv, IInv', CostInv', Printing, Printing', Adds, MassifInv,
           Stays("+"), UNCHANGED <<options, allocations, totalCost>>,
           phase = "reading", phase' \in {"reading", "read"}, "massif" \in options,
           NEW stamp \in Nat, NEW isLast \in BOOLEAN, WriteMassifSnapshot(stamp, isLast),
           phase' = "read" => isLast /\ totalTime' = stamp
    PROVE  MassifInv'
<1> DEFINE none == lastMassifPeak = 0
           detailed == DetailedFreq # 0 /\ (isLast \/ Len(snapshots) % DetailedFreq = 0)
           kept == IF none THEN allocations ELSE massifAllocations
<1>0. PICK s, l, S :
        /\ s = [stamp |-> stamp, at |-> pos', heap |-> IF none THEN totalCost.leaked ELSE lastMassifPeak,
                detailed |-> detailed, tree |-> IF detailed THEN kept ELSE <<>>]
        /\ l = Len(snapshots) /\ S = SinceLast
  OBVIOUS
<1>1. snapshots' = Append(snapshots, s) /\ massifAllocations' = kept /\ lastMassifPeak' = 0
  BY <1>0 DEF WriteMassifSnapshot
<1>2. /\ MassifTyped /\ SnapshotsRight /\ PeakRight /\ l \in Nat /\ snapshots \in Seq(MassifSnapshot)
      /\ pos \in Nat /\ pos' \in Nat /\ pos <= pos'
  BY <1>0, LenProperties DEF MassifInv, MassifTyped, Adds, LinesKept
<1>3. allocations \in Seq(Allocation) /\ totalCost.leaked \in Int
      /\ massifAllocations \in Seq(Allocation) /\ lastMassifPeak \in Nat
  BY <1>2 DEF IInv, TypeOK, InfosOK, CostsOK, Total, MassifTyped, PeakRight
<1>4. /\ kept \in Seq(Allocation) /\ s.tree \in Seq(Allocation) /\ s.heap \in Int /\ s.at = pos'
      /\ s.stamp = stamp /\ s.detailed = detailed /\ (s.tree = kept \/ s.tree = <<>>)
      /\ s.heap = IF none THEN totalCost.leaked ELSE lastMassifPeak
  BY <1>0, <1>3, EmptySeq
<1>5. s \in MassifSnapshot
  BY <1>0, <1>2, <1>3, <1>4 DEF MassifSnapshot
<1>6. /\ snapshots' \in Seq(MassifSnapshot) /\ Len(snapshots') = l + 1 /\ snapshots'[l + 1] = s
      /\ \A k \in 1..l : snapshots'[k] = snapshots[k]
  BY <1>0, <1>1, <1>2, <1>5, AppendProperties
<1>7. \A k \in 1..l : Agrees(snapshots[k], Since(k))' /\ snapshots'[k].at <= pos'
  BY <1>0, <1>2, <1>6, SnapshotsKept
<1>8. \A k \in 1..(l + 1) : k \in 1..l \/ k = l + 1
  BY <1>2
<1>9. MassifTyped'
  BY <1>1, <1>2, <1>4, <1>6, <1>7, <1>8 DEF MassifTyped
<1>10. S \in SUBSET (1..pos) /\ Window("+")' = Window("+") /\ \A n \in Window("+") : n \in 1..pos
  BY <1>0, <1>2, <1>6, SinceKept DEF Stays, Adds, LinesKept, Signs
<1>11. Since(l + 1)' = S
  <2>1. \A n \in Window("+") : n <= pos'
    BY <1>2, <1>10
  <2>2. Since(l + 1)' = {n \in Window("+") : n <= s.at /\ (l + 1 > 1 => n > snapshots'[(l + 1) - 1].at)}
    BY <1>6, <1>10 DEF Since
  <2>3. (l + 1) - 1 = l /\ (l + 1 > 1 <=> snapshots # <<>>)
    BY <1>0, <1>2, EmptySeq
  <2>4. l + 1 > 1 => snapshots'[l] = snapshots[l]
    BY <1>2, <1>6
  <2>5. S = {n \in Window("+") : snapshots # <<>> => n > snapshots[l].at}
    BY <1>0 DEF SinceLast
  <2> QED
    BY <1>4, <2>1, <2>2, <2>3, <2>4, <2>5
<1>12. \A n \in S : n \in 1..(pos + 1) /\ n + 1 \in 1..(pos + 1)
  BY <1>2, <1>10
<1>13. \A n \in S : LeakedBefore(n, Traces)' = LeakedBefore(n, Traces)
  BY <1>12, LeakedKept
<1>14. Agrees(s, S)'
  <2>0. \A n : IsTree(<<>>, n)'
    BY EmptySeq DEF IsTree
  <2>1. CASE none
    <3>1. \A n \in S : LeakedBefore(n, Traces)' <= 0
      BY <1>0, <1>2, <1>13, <2>1 DEF PeakRight
    <3>2. Present'
      BY PresentHolds
    <3>3. \A n : n = s.at + 1 => LeakedBefore(n, Traces)' = s.heap
      BY <1>4, <2>1, <3>2 DEF Present
    <3>4. \A n : n = s.at + 1 => IsTree(allocations, n)'
      BY <1>4, <3>2 DEF Present
    <3>5. s.tree = allocations' \/ s.tree = <<>>
      BY <1>4, <2>1
    <3>6. \A n : n = s.at + 1 => IsTree(s.tree, n)'
      BY <2>0, <3>4, <3>5 DEF IsTree
    <3> QED
      BY <3>1, <3>3, <3>6 DEF Agrees
  <2>2. CASE ~ none
    <3>1. s.heap = lastMassifPeak /\ s.heap > 0
      BY <1>3, <1>4, <2>2
    <3>2. \A n \in S : LeakedBefore(n, Traces)' <= s.heap
      BY <1>0, <1>2, <1>13, <3>1 DEF PeakRight
    <3>3. PICK n \in S : lastMassifPeak = LeakedBefore(n, Traces) /\ IsTree(massifAllocations, n + 1)
      BY <1>0, <1>2, <2>2 DEF PeakRight
    <3>4. LeakedBefore(n, Traces)' = s.heap
      BY <1>13, <3>1, <3>3
    <3>5. n + 1 \in 1..(pos + 1)
      BY <1>12
    <3>6. \A tree : tree = massifAllocations => IsTree(tree, n + 1)
      BY <3>3 DEF IsTree
    <3>7. \A tree : IsTree(tree, n + 1)' <=> IsTree(tree, n + 1)
      BY <3>5, TreeKept
    <3>8. s.tree = massifAllocations \/ s.tree = <<>>
      BY <1>4, <2>2
    <3>9. IsTree(s.tree, n + 1)'
      BY <2>0, <3>6, <3>7, <3>8
    <3> QED
      BY <3>1, <3>2, <3>4, <3>9 DEF Agrees
  <2> QED
    BY <2>1, <2>2
<1>15. SnapshotsRight'
  <2> SUFFICES ASSUME NEW k \in 1..(l + 1) PROVE Agrees(snapshots[k], Since(k))'
    BY <1>6 DEF SnapshotsRight
  <2>1. CASE k \in 1..l
    BY <1>7, <2>1
  <2>2. CASE k = l + 1
    <3>1. snapshots'[k] = s /\ Since(k)' = S
      BY <1>6, <1>11, <2>2
    <3> QED
      BY <1>14, <3>1 DEF Agrees
  <2> QED
    BY <1>8, <2>1, <2>2
<1>16. PeakRight'
  <2>1. SinceLast' = {}
    <3>1. snapshots' # <<>> /\ snapshots'[Len(snapshots')].at = pos'
      BY <1>2, <1>4, <1>6, EmptySeq
    <3>2. \A n \in Window("+") : ~ n > pos'
      BY <1>2, <1>10
    <3> QED
      BY <1>10, <3>1, <3>2 DEF SinceLast
  <2> QED
    BY <1>1, <2>1 DEF PeakRight
<1>17. EndsRight'
  <2>1. snapshots' # <<>>
    BY <1>2, <1>6, EmptySeq
  <2>2. isLast /\ DetailedFreq # 0 => detailed
    OBVIOUS
  <2> QED
    BY <1>4, <1>6, <2>1, <2>2 DEF EndsRight
<1> QED
  BY <1>9, <1>15, <1>16, <1>17 DEF MassifInv

\* Every step keeps the massif file right.
LEMMA MassifStep ==
    ASSUME IInv, CostInv, IInv', CostInv', Printing, Printing', MainInv, MassifInv, Step
    PROVE  MassifInv'
<1>0. [Next]_vars
  BY ProgramStep DEF Step
<1>1. LinesKept
  BY <1>0, LinesAreKept
<1>2. program' = "print" /\ (PrinterNext \/ UNCHANGED <<vars, printerVars>>)
  BY PrintSteps
<1>3. FileInv /\ FileInv' /\ ControlOK
  BY DEF CostInv, IInv, TypeOK
<1>4. CASE PrinterAllocation
  <2>1. ReadAllocation /\ KeepPeak /\ step = "read" /\ UNCHANGED options
    BY <1>4 DEF PrinterAllocation, Continues, mainVars
  <2>2. Adds
    BY <1>1, <2>1, AllocationGrows DEF Adds, Signs
  <2>3. written = options \cap {"massif"}
    BY <2>1 DEF MainInv
  <2> QED
    BY <2>1, <2>2, <2>3, MassifPeak
<1>5. ASSUME Parse \/ ReadInfo \/ ReadDeallocation \/ SkipEvent \/ ReadTimeStamp
             \/ EndFirstPass \/ ApplyLeakSuppressions \/ UNCHANGED vars
      PROVE  Adds /\ Stays("+")
  <2>1. Stays("+")
    BY <1>5, StaysUnlessAllocation
  <2>2. Stays("-") \/ Grows("-")
    BY <1>5, OthersKeepLines, DeallocationGrows DEF Signs
  <2> QED
    BY <1>1, <2>1, <2>2 DEF Adds, Signs
<1>6. CASE Prepare \/ ReadFails \/ PrintOutputs \/ UNCHANGED <<vars, printerVars>>
  <2>1. UNCHANGED <<vars, massif, options>>
    BY <1>6 DEF Prepare, ReadFails, PrintOutputs, printerVars, mainVars
  <2>2. UNCHANGED <<phase, totalTime>>
    BY <2>1 DEF vars, control, results
  <2> QED
    BY <1>5, <2>1, <2>2, MassifStays
<1>7. CASE FinalizePrinter
  <2>1. ApplyLeakSuppressions /\ UNCHANGED <<massif, options>>
    BY <1>7 DEF FinalizePrinter
  <2>2. phase = "read" /\ phase' = "summarized" /\ totalTime' = totalTime
    BY <2>1 DEF ApplyLeakSuppressions
  <2> QED
    BY <1>5, <2>1, <2>2, MassifStays
<1>8. CASE PrinterTimeStamp
  <2>1. PICK stamp \in 1..MaxStamp : GetLine(Line("c", stamp))
    BY <1>8 DEF PrinterTimeStamp, ReadTimeStamp
  <2>2. /\ ReadTimeStamp /\ phase = "reading" /\ phase' = "reading" /\ step = "read"
        /\ UNCHANGED <<options, allocations, totalCost, totalTime>>
    BY <1>8 DEF PrinterTimeStamp, ReadTimeStamp, GetLine, control, results, costs, Continues, mainVars
  <2>3. stamp \in Nat /\ Line("c", stamp) \in Lines
    <3>1. stamp \in Nat
      OBVIOUS
    <3> QED
      BY <3>1, LinesTyped
  <2>4. file'[pos'].value = stamp
    <3>1. LineRead(Line("c", stamp))
      BY <1>3, <2>1, <2>3, LineFacts
    <3> QED
      BY <3>1 DEF LineRead, Line
  <2>5. Adds /\ Stays("+")
    BY <1>5, <2>2
  <2>6. UNCHANGED massif \/ TakeSnapshot(stamp, FALSE)
    BY <1>8, <2>4 DEF PrinterTimeStamp
  <2>7. CASE UNCHANGED massif
    BY <2>2, <2>5, <2>7, MassifStays
  <2>8. CASE TakeSnapshot(stamp, FALSE) /\ ~ UNCHANGED massif
    <3>1. "massif" \in options /\ WriteMassifSnapshot(stamp, FALSE)
      BY <2>2, <2>8 DEF TakeSnapshot, MainInv
    <3>2. FALSE \in BOOLEAN /\ phase' \in {"reading", "read"} /\ phase' # "read"
      BY <2>2
    <3> QED
      BY <2>2, <2>3, <2>5, <3>1, <3>2, MassifWritten
  <2> QED
    BY <2>6, <2>7, <2>8
<1>9. CASE /\ Continues /\ UNCHANGED massif
           /\ Parse \/ ReadInfo \/ ReadDeallocation \/ SkipEvent
  <2>1. Adds /\ Stays("+")
    BY <1>5, <1>9
  <2>2. phase' = "reading" /\ UNCHANGED options
    BY <1>9 DEF Parse, StartPass, ReadInfo, ReadDeallocation, SkipEvent, GetLine, control, Continues, mainVars
  <2> QED
    BY <1>9, <2>1, <2>2, MassifStays
<1>10. CASE Continues /\ EndFirstPass /\ TakeSnapshot(timeStamp + 1, TRUE)
  <2>1. /\ phase = "reading" /\ phase' = "read" /\ step = "read" /\ ~ reparsing
        /\ UNCHANGED <<options, allocations, totalCost>> /\ totalTime' = timeStamp + 1
    BY <1>10 DEF EndFirstPass, AtEnd, Continues, mainVars, Printing, FirstReading
  <2>2. Adds /\ Stays("+")
    BY <1>5, <1>10
  <2>3. CASE "massif" \in options
    <3>1. timeStamp + 1 \in Nat /\ TRUE \in BOOLEAN
      BY <1>3 DEF ControlOK
    <3>2. WriteMassifSnapshot(timeStamp + 1, TRUE)
      BY <1>10, <2>1, <2>3 DEF TakeSnapshot, MainInv
    <3>3. \A stamp \in Nat : stamp = timeStamp + 1 => MassifInv'
      <4> SUFFICES ASSUME NEW stamp \in Nat, stamp = timeStamp + 1 PROVE MassifInv'
        OBVIOUS
      <4>1. WriteMassifSnapshot(stamp, TRUE)
        BY <3>2 DEF WriteMassifSnapshot
      <4>2. phase' \in {"reading", "read"} /\ totalTime' = stamp /\ TRUE \in BOOLEAN
        BY <2>1
      <4> QED
        BY <2>1, <2>2, <2>3, <4>1, <4>2, MassifWritten
    <3> QED
      BY <3>1, <3>3
  <2>4. CASE "massif" \notin options
    <3>1. UNCHANGED massif
      BY <1>10, <2>1, <2>4 DEF TakeSnapshot, MainInv
    <3> QED
      BY <2>1, <2>2, <2>4, <3>1, MassifStays
  <2> QED
    BY <2>3, <2>4
<1> QED
  BY <1>2, <1>4, <1>6, <1>7, <1>8, <1>9, <1>10 DEF PrinterNext, PrinterReading

\* What heaptrack_print has written, while it runs.
PrintInv == program = "print" => Printing /\ MainInv /\ SizesInv /\ MassifInv

\* Nothing is written at first.
LEMMA PrintInvStarts == ReadersInit => PrintInv
<1> SUFFICES ASSUME ReadersInit, program = "print" PROVE Printing /\ MainInv /\ SizesInv /\ MassifInv
  BY DEF PrintInv
<1>1. Printing /\ MainInv
  BY PrintStarts
<1>2. /\ file = <<>> /\ phase = "empty"
      /\ lastMassifPeak = 0 /\ massifAllocations = <<>> /\ snapshots = <<>> /\ sizeHistogram = <<>>
  BY DEF ReadersInit, GuiInit, PrinterInit, Init
<1>3. Window("+") = {}
  BY <1>2, NoLines
<1>4. DOMAIN sizeHistogram = {}
  BY <1>2, EmptySeq
<1>5. SizesInv
  BY <1>3, <1>4 DEF SizesInv
<1>6. <<>> \in Seq(MassifSnapshot) /\ <<>> \in Seq(Allocation) /\ Len(<<>>) = 0
  BY EmptySeq
<1>7. MassifTyped /\ SnapshotsRight
  BY <1>2, <1>6 DEF MassifTyped, SnapshotsRight
<1>8. PeakRight /\ EndsRight
  BY <1>2, <1>3 DEF PeakRight, EndsRight, SinceLast
<1> QED
  BY <1>1, <1>2, <1>5, <1>7, <1>8 DEF MassifInv

\* Every step of heaptrack_print.
LEMMA PrintInvariance == ReadersSpec => []PrintInv
<1>1. IInv /\ CostInv /\ IInv' /\ CostInv' /\ PrintInv /\ Step => PrintInv'
  <2> SUFFICES ASSUME IInv, CostInv, IInv', CostInv', PrintInv, Step, program' = "print"
               PROVE  Printing' /\ MainInv' /\ SizesInv' /\ MassifInv'
    BY DEF PrintInv
  <2>1. program = "print"
    BY DEF Step, ReadersNext
  <2>2. Printing /\ MainInv /\ SizesInv /\ MassifInv
    BY <2>1 DEF PrintInv
  <2> QED
    BY <2>2, PrintStep, SizesStep, MassifStep
<1> QED
  BY <1>1, PrintInvStarts, ProgramsAnalyze, Invariance, CostsInvariance, PTL DEF ReadersSpec, Step

\* The histogram heaptrack_print writes counts every allocation within the filter
\* under its size, for files of any length (Printer::handleAllocation).
THEOREM PrintedHistogram == ReadersSpec => [](program = "print" => HistogramsAgree)
<1>1. PrintInv => (program = "print" => HistogramsAgree)
  <2> SUFFICES ASSUME SizesInv, "histogram" \in options
               PROVE  /\ DOMAIN sizeHistogram = {Size(n) : n \in Window("+")}
                      /\ \A s \in DOMAIN sizeHistogram :
                            sizeHistogram[s] = Cardinality({n \in Window("+") : Size(n) = s})
    BY DEF PrintInv, HistogramsAgree, PrintedSizes
  <2> QED
    BY DEF SizesInv, OfSize
<1> QED
  BY <1>1, PrintInvariance, PTL

\* Every snapshot of a massif file has the highest consumption since the one
\* before it, or the present one if nothing was consumed, the detailed ones with
\* the allocations of that moment; the file ends with the end of the recording, and
\* a program that gives up writes none (Printer::handleTimeStamp,
\* writeMassifSnapshot and main()).  For files of any length and any frequency of
\* detailed snapshots.
THEOREM PrintedTimeline == ReadersSpec => [](program = "print" => TimelinesAgree)
<1>1. IInv /\ CostInv /\ PrintInv => (program = "print" => TimelinesAgree)
  <2> SUFFICES ASSUME IInv, CostInv, PrintInv, program = "print"
               PROVE  SnapshotsAgree /\ SnapshotsComplete
    BY DEF TimelinesAgree
  <2>1. Printing /\ MainInv /\ MassifInv
    BY DEF PrintInv
  <2>2. MassifTyped /\ SnapshotsRight /\ DOMAIN snapshots = 1..Len(snapshots)
    BY <2>1, LenProperties DEF MassifInv, MassifTyped
  <2>3. \A n, T : LeakedBefore(n, T) \in Int
    BY <2>1, LeakedTyped
  <2>4. SnapshotsAgree
    <3> SUFFICES ASSUME NEW k \in 1..Len(snapshots)
                 PROVE  LET s == snapshots[k]
                            found == {LeakedBefore(n, Traces) : n \in Since(k)}
                            IsTreeAt(n) == \A a \in DOMAIN s.tree :
                                s.tree[a].cost.leaked = LeakedBefore(n, {s.tree[a].trace})
                        IN  IF \E bytes \in found : bytes > 0
                            THEN /\ \A bytes \in found : bytes <= s.heap
                                 /\ \E n \in Since(k) : /\ s.heap = LeakedBefore(n, Traces)
                                                        /\ IsTreeAt(n + 1)
                            ELSE s.heap = LeakedBefore(s.at + 1, Traces) /\ IsTreeAt(s.at + 1)
      BY <2>2 DEF SnapshotsAgree
    <3>1. Agrees(snapshots[k], Since(k))
      BY <2>2 DEF SnapshotsRight
    <3> DEFINE s == snapshots[k]
               S == Since(k)
               HeapAt(n) == LeakedBefore(n, Traces)
               IsTreeAt(n) == \A a \in DOMAIN s.tree : s.tree[a].cost.leaked = LeakedBefore(n, {s.tree[a].trace})
    <3>2. \A n : HeapAt(n) \in Int
      BY <2>3
    <3>3. \A n : IsTree(s.tree, n) <=> IsTreeAt(n)
      BY DEF IsTree
    <3>4. \/ /\ \A n \in S : HeapAt(n) <= s.heap
             /\ s.heap > 0
             /\ \E n \in S : s.heap = HeapAt(n) /\ IsTreeAt(n + 1)
          \/ /\ \A n \in S : HeapAt(n) <= 0
             /\ s.heap = HeapAt(s.at + 1) /\ IsTreeAt(s.at + 1)
      BY <3>1, <3>3 DEF Agrees
    <3> HIDE DEF s, S, HeapAt, IsTreeAt
    <3>5. IF \E bytes \in {HeapAt(n) : n \in S} : bytes > 0
          THEN /\ \A bytes \in {HeapAt(n) : n \in S} : bytes <= s.heap
               /\ \E n \in S : s.heap = HeapAt(n) /\ IsTreeAt(n + 1)
          ELSE s.heap = HeapAt(s.at + 1) /\ IsTreeAt(s.at + 1)
      BY <3>2, <3>4
    <3> QED
      BY <3>5 DEF s, S, HeapAt, IsTreeAt
  <2>5. SnapshotsComplete
    <3>1. step = "ended" /\ exit = 1 => snapshots = <<>>
      BY <2>1 DEF MainInv, MassifInv
    <3>2. exit = 0 => step = "ended" /\ phase = "summarized"
      BY <2>1 DEF MainInv
    <3>3. step \in {"print", "ended"} /\ snapshots # <<>> => phase = "summarized" /\ "massif" \in options
      BY <2>1 DEF MainInv, MassifInv
    <3>4. phase = "summarized" /\ "massif" \in options => EndsRight
      BY <2>1 DEF MassifInv
    <3>5. "massif" \notin options => snapshots = <<>>
      BY <2>1 DEF MassifInv
    <3> QED
      BY <3>1, <3>2, <3>3, <3>4, <3>5 DEF SnapshotsComplete, EndsRight
  <2> QED
    BY <2>4, <2>5
<1> QED
  BY <1>1, PrintInvariance, ProgramsAnalyze, Invariance, CostsInvariance, PTL
=============================================================================
