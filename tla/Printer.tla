------------------------------ MODULE Printer ------------------------------
(***************************************************************************)
(* What heaptrack_print computes from the allocations: those whose         *)
(* backtrace contains a function (filterAllocations), those that allocate  *)
(* at the same place (mergeAllocations), the lists and backtraces it       *)
(* prints (printMerged, printUnmerged), the stacks for flamegraph.pl       *)
(* (printFlamegraph), and the tree it writes to a massif file              *)
(* (writeMassifBacktrace), node by node. `stops' are the symbols at which  *)
(* backtraces end.                                                         *)
(***************************************************************************)
EXTENDS TraceDiff

-----------------------------------------------------------------------------
(* filterAllocations                                                       *)

\* Whether one of the frames before the first stop function has the symbol. A
\* stop function is not looked at itself.
Mentions(trace, symbol, stops) ==
    LET stop == SelectInSeq(trace, LAMBDA ip : ip.frame[1] \in stops)
        seen == IF stop = 0 THEN trace ELSE SubSeq(trace, 1, stop - 1)
    IN  \E i \in DOMAIN seen :
            \/ seen[i].frame[1] = symbol
            \/ \E j \in DOMAIN seen[i].inlined : seen[i].inlined[j][1] = symbol

FilterAllocations(allocations, symbol, stops) ==
    SelectSeq(allocations, LAMBDA a : Mentions(a.trace, symbol, stops))

-----------------------------------------------------------------------------
(* mergeAllocations                                                        *)

\* Mutation of MergeAllocationByIp: the place found is not compared.
MergeAllocationAnywhere(places, a) ==
    LET ip == IpOf(a.trace)
        at == LowerBound(places, LAMBDA place : CompareIps(place.ip, ip) < 0)
    IN  IF at <= Len(places)
        THEN [places EXCEPT ![at].traces = Append(@, a)]
        ELSE InsertAt(places, at, [ip |-> ip, traces |-> <<a>>])

\* A vector sorted by instruction pointers without their addresses.
MergeAllocationByIp(places, a) ==
    LET ip == IpOf(a.trace)
        at == LowerBound(places, LAMBDA place : CompareIps(place.ip, ip) < 0)
    IN  IF at <= Len(places) /\ CompareIps(places[at].ip, ip) = 0
        THEN [places EXCEPT ![at].traces = Append(@, a)]
        ELSE InsertAt(places, at, [ip |-> ip, traces |-> <<a>>])

MergeByIp(allocations) == FoldLeft(MergeAllocationByIp, <<>>, allocations)

CostOf(place) == SumCosts(place.traces)

-----------------------------------------------------------------------------
(* printMerged, printUnmerged and printFlamegraph                          *)

\* The frames of a backtrace up to the first of a stop function.
UpToStop(trace, stops) ==
    LET stop == SelectInSeq(trace, LAMBDA ip : ip.frame[1] \in stops)
    IN  IF stop = 0 THEN trace ELSE SubSeq(trace, 1, stop)

FramesAt(ip) == <<ip.frame>> \o ip.inlined

\* The first entries by the size of their cost, and none without cost. The order
\* of equal ones is left to std::sort.
Hottest(entries, Cost(_), limit) ==
    LET size(n) == IF n < 0 THEN - n ELSE n
        sorted == SortSeq(entries, LAMBDA l, r : size(Cost(l)) > size(Cost(r)))
        costly == SelectSeq(sorted, LAMBDA e : Cost(e) # 0)
    IN  SubSeq(costly, 1, IF limit < Len(costly) THEN limit ELSE Len(costly))

\* Mutation of Rest: also what was handled is left over.
RestOfAll(place, handled, subPeakLimit) ==
    IF Len(place.traces) > subPeakLimit THEN CostOf(place) ELSE 0

\* The line `and N from M other places'.
Rest(place, handled, subPeakLimit) ==
    IF Len(place.traces) > subPeakLimit THEN CostOf(place) - SumCosts(handled) ELSE 0

\* A place is printed with its hottest backtraces, without their first frame, and
\* what is left over. There is no more to say of a place that is not known.
PrintPlace(place, subPeakLimit, stops) ==
    LET handled == Hottest(place.traces, LAMBDA a : a.cost, subPeakLimit)
        below(trace) == IF trace = <<>> THEN <<>> ELSE Tail(UpToStop(trace, stops))
    IN  [ip |-> place.ip, cost |-> CostOf(place),
         lines |-> IF place.ip = InvalidIp THEN <<>>
                   ELSE [i \in DOMAIN handled |->
                            [cost |-> handled[i].cost, frames |-> below(handled[i].trace)]],
         rest |-> IF place.ip = InvalidIp THEN 0 ELSE Rest(place, handled, subPeakLimit)]

\* limits are peakLimit and subPeakLimit.
PrintMergedList(allocations, limits, stops) ==
    LET hottest == Hottest(MergeByIp(allocations), CostOf, limits[1])
    IN  [i \in DOMAIN hottest |-> PrintPlace(hottest[i], limits[2], stops)]

PrintUnmergedList(allocations, limits, stops) ==
    LET hottest == Hottest(allocations, LAMBDA a : a.cost, limits[1])
    IN  [i \in DOMAIN hottest |->
            [cost |-> hottest[i].cost, frames |-> UpToStop(hottest[i].trace, stops)]]

\* Outermost first, but the inlined frames of an instruction pointer follow the
\* frame they contain.
Stack(trace, stops) ==
    LET ips == Reverse(UpToStop(IF trace = <<>> THEN <<InvalidIp>> ELSE trace, stops))
    IN  FlattenSeq([i \in DOMAIN ips |-> FramesAt(ips[i])])

PrintFlamegraphs(allocations, stops) ==
    [i \in DOMAIN allocations |->
        [stack |-> Stack(allocations[i].trace, stops), cost |-> allocations[i].cost]]

-----------------------------------------------------------------------------
(* writeMassifBacktrace                                                    *)

\* The places listed below a node with the instruction pointer ip, each with
\* the traces shortened by the frame it is for. Below a stop function there are
\* none.
MassifPlaces(node, stops) ==
    IF node.ip.frame[1] \in stops THEN <<>> ELSE MergeByIp(node.traces)

MassifChildren(node, threshold, stops) ==
    {[ip |-> place.ip, heapSize |-> CostOf(place),
      traces |-> [i \in DOMAIN place.traces |->
                    [place.traces[i] EXCEPT !.trace = ParentOf(@)]]] :
        place \in {p \in ToSet(MassifPlaces(node, stops)) :
                        CostOf(p) > 0 /\ CostOf(p) >= threshold}}

\* Mutation of SkippedLeaked: only places without cost are counted.
SkippedNothing(node, threshold, stops) == 0

\* The cost of the places below the threshold, written as one line.
SkippedLeaked(node, threshold, stops) ==
    FoldLeft(LAMBDA sum, place :
                sum + IF CostOf(place) >= 0 /\ CostOf(place) < threshold
                      THEN CostOf(place) ELSE 0,
             0, MassifPlaces(node, stops))
=============================================================================
