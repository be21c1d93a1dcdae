----------------------------- MODULE TraceData -----------------------------
(***************************************************************************)
(* AccumulatedTraceData: the analysis of the lines a, +, - and c of a data *)
(* file in one or two passes, with the filter on time, leak suppressions   *)
(* and the peak, in the order in which Parser::parseImpl of the GUI drives *)
(* them (heaptrack_print ends after the first pass).                       *)
(*                                                                         *)
(* The file is one that heaptrack_interpret can have written: its lines    *)
(* are chosen while the first pass reads them and are the same ever after. *)
(* A line a is followed by the first + of its allocation info, and no info *)
(* is deallocated more often than it was allocated.                        *)
(*                                                                         *)
(* Positions in allocations are counted from 1; indices of infos in lines  *)
(* from 0 as in the file, since 0 is also what lastAllocationPtr is reset  *)
(* to.                                                                     *)
(***************************************************************************)
EXTENDS PeakTracker

CONSTANTS
    Sizes,      \* sizes of allocations
    Traces,     \* trace indices; 0 is the empty trace
    MaxLines,   \* bound on the lines of the file
    MaxStamp,   \* bound on the time stamps in it
    Matches,    \* the traces that each kind of suppression matches
    Openings,   \* filters a file is opened with, some left over from another file
    Reparsings  \* the user's filters for a reparse

\* Suppressions built into heaptrack, and those embedded into the file.
Kinds == {"builtin", "embedded"}

\* A filter: the first and last time, and the kinds of suppressions to ignore.
Filters == (Nat \X Nat) \X SUBSET Kinds

ASSUME TraceDataAssumption ==
    /\ Sizes \subseteq Nat \ {0}
    /\ Traces \subseteq Nat
    /\ MaxLines \in Nat /\ MaxStamp \in Nat
    /\ Matches \in [Kinds -> SUBSET Traces]
    /\ Openings \subseteq Filters /\ Reparsings \subseteq Filters

\* An index is 32 bits wide.
ASSUME TracesAssumption == IsFiniteSet(Traces)

VARIABLES
    file,               \* the lines of the file
    pos,                \* lines the current pass has consumed
    phase,              \* what Parser::parseImpl does with the data
    pass,               \* parsingState.pass
    reparsing,          \* parsingState.reparsing
    filter,             \* filterParameters: minTime and maxTime
    disabled,           \* filterParameters: suppressions to ignore
    suppressions,       \* the suppressions in use
    timeStamp,          \* of the line c last read
    parsedStamp,        \* parsingState.timestamp
    inFilteredTime,
    lastAllocationPtr,
    allocationInfos,    \* size and allocation of each info
    allocations,        \* trace and cost of each allocation, but for the peak
    peaks,              \* the peak of the allocations that had one
    totalCost,
    allocationIndex,    \* traceIndexToAllocationIndex
    newest,             \* m_maxAllocationTraceIndex and m_maxAllocationIndex
    peakTracker,
    peakTime,
    totalTime,
    totalLeakedSuppressed

control == <<phase, pass, reparsing, filter, disabled, suppressions>>
reader  == <<pos, timeStamp, parsedStamp, inFilteredTime, lastAllocationPtr>>
infos   == <<allocationInfos, allocationIndex, newest>>
results == <<peakTime, totalTime, totalLeakedSuppressed>>
costs   == <<allocations, peaks, totalCost, peakTracker>>
vars    == <<file, control, reader, infos, results, costs>>

NoCost == [allocations |-> 0, temporary |-> 0, leaked |-> 0]

NoTotal == [allocations |-> 0, temporary |-> 0, leaked |-> 0, peak |-> 0]

Leaks(allocs) == [a \in DOMAIN allocs |-> allocs[a].cost.leaked]

Init ==
    /\ file = <<>>
    /\ phase = "empty" /\ pass = "first" /\ reparsing = FALSE
    /\ \E opening \in Openings : filter = opening[1] /\ disabled = opening[2]
    /\ suppressions = {}
    /\ pos = 0 /\ timeStamp = 0 /\ parsedStamp = 0 /\ inFilteredTime = TRUE /\ lastAllocationPtr = 0
    /\ allocationInfos = <<>> /\ allocationIndex = <<>> /\ newest = [trace |-> 0, index |-> 0]
    /\ allocations = <<>> /\ peaks = <<>> /\ totalCost = NoTotal
    /\ peakTracker = NewTracker(0, 0, <<>>)
    /\ peakTime = 0 /\ totalTime = 0 /\ totalLeakedSuppressed = 0

-----------------------------------------------------------------------------
(* The file                                                                *)

Line(mode, value) == [mode |-> mode, value |-> value, trace |-> 0]

InfoLine(size, trace) == [mode |-> "a", value |-> size, trace |-> trace]

CountLines(lines, line) == Cardinality({n \in DOMAIN lines : lines[n] = line})

\* Lines that can come next. An info is written with the + it was needed for.
NewLines ==
    LET known == {l \in Range(file) : l.mode = "a"}
        last  == Cardinality(known) - 1
    IN  IF file # <<>> /\ Last(file).mode = "a"
        THEN {Line("+", last)}
        ELSE    ({InfoLine(s, t) : s \in Sizes, t \in Traces} \ known)
           \cup {Line("+", i) : i \in 0..last}
           \cup {Line("-", i) : i \in {j \in 0..last :
                    CountLines(file, Line("+", j)) > CountLines(file, Line("-", j))}}
           \cup {Line("c", stamp) : stamp \in 1..MaxStamp}

FirstReading == pass = "first" /\ ~ reparsing

\* reader.getLine(in) and the time stamp it is parsed at.
GetLine(line) ==
    /\ phase = "reading"
    /\ timeStamp < filter[2]
    /\ pos' = pos + 1
    /\ parsedStamp' = timeStamp
    /\ IF pos < Len(file)
       THEN line = file[pos + 1] /\ file' = file
       ELSE /\ FirstReading /\ Len(file) < IF line.mode = "a" THEN MaxLines - 1 ELSE MaxLines
            /\ line \in NewLines
            /\ file' = Append(file, line)

-----------------------------------------------------------------------------
(* Reading a line                                                          *)

\* A mutation of IsKnown: only the newest trace is looked for.
IsNewest(trace) == trace = newest.trace /\ allocations # <<>>

\* The cases of mapToAllocationIndex that find the trace.
IsKnown(trace) ==
    \/ trace < newest.trace /\ trace \in DOMAIN allocationIndex
    \/ trace = newest.trace /\ allocations # <<>>

\* mapToAllocationIndex: the position of the trace in allocations.
MapToAllocationIndex(trace) ==
    IF ~ IsKnown(trace) THEN Len(allocations) + 1
    ELSE IF trace = newest.trace THEN newest.index ELSE allocationIndex[trace]

AddAllocation(trace) ==
    LET at == MapToAllocationIndex(trace)
    IN  IF IsKnown(trace)
        THEN UNCHANGED <<allocations, allocationIndex, newest>>
        ELSE /\ allocations' = Append(allocations, [trace |-> trace, cost |-> NoCost])
             /\ allocationIndex' = [t \in DOMAIN allocationIndex \cup {trace} |->
                                        IF t = trace THEN at ELSE allocationIndex[t]]
             /\ newest' = IF trace >= newest.trace THEN [trace |-> trace, index |-> at] ELSE newest

\* Line a.
ReadInfo ==
    \E size \in Sizes, trace \in Traces :
        /\ GetLine(InfoLine(size, trace))
        /\ IF FirstReading
           THEN /\ AddAllocation(trace)
                /\ allocationInfos' = Append(allocationInfos,
                        [size |-> size, allocation |-> MapToAllocationIndex(trace)])
           ELSE UNCHANGED <<allocations, infos>>
        /\ UNCHANGED <<control, timeStamp, inFilteredTime, lastAllocationPtr, results,
                       peaks, totalCost, peakTracker>>

\* The tracker sees an event after the costs changed, in the first pass only.
TrackEvent(info, isAlloc) ==
    peakTracker' =
        IF pass = "first"
        THEN RecordEvent(peakTracker,
                 [size |-> info.size, allocation |-> info.allocation, isAlloc |-> isAlloc],
                 timeStamp, totalCost'.leaked, Leaks(allocations'))
        ELSE peakTracker

\* The allocation after an event changed its costs.
Charge(allocation, bytes, count, temporary) ==
    [trace |-> allocation.trace,
     cost  |-> [allocations |-> allocation.cost.allocations + count,
                temporary   |-> allocation.cost.temporary + temporary,
                leaked      |-> allocation.cost.leaked + bytes]]

\* Line +.
ReadAllocation ==
    \E i \in 0..(Len(allocationInfos) - 1) :
        LET info  == allocationInfos[i + 1]
            total == totalCost.leaked + info.size
        IN  /\ GetLine(Line("+", i))
            /\ inFilteredTime
            /\ lastAllocationPtr' = i
            /\ allocations' = [allocations EXCEPT ![info.allocation] = Charge(@, info.size, 1, 0)]
            /\ totalCost' = [totalCost EXCEPT !.allocations = @ + 1, !.leaked = total,
                                              !.peak = IF total > @ THEN total ELSE @]
            /\ TrackEvent(info, TRUE)
            /\ UNCHANGED <<control, timeStamp, inFilteredTime, infos, results, peaks>>

\* Does the deallocation follow with the same data?
IsTemporary(i) == lastAllocationPtr = i

\* Line -.
ReadDeallocation ==
    \E i \in 0..(Len(allocationInfos) - 1) :
        LET info == allocationInfos[i + 1]
            temp == IF IsTemporary(i) THEN 1 ELSE 0
        IN  /\ GetLine(Line("-", i))
            /\ inFilteredTime
            /\ lastAllocationPtr' = 0
            /\ allocations' = [allocations EXCEPT ![info.allocation] = Charge(@, - info.size, 0, temp)]
            /\ totalCost' = [totalCost EXCEPT !.leaked = @ - info.size, !.temporary = @ + temp]
            /\ TrackEvent(info, FALSE)
            /\ UNCHANGED <<control, timeStamp, inFilteredTime, infos, results, peaks>>

\* Lines + and - outside of the filter are skipped.
SkipEvent ==
    /\ \E i \in 0..(Len(allocationInfos) - 1), mode \in {"+", "-"} : GetLine(Line(mode, i))
    /\ ~ inFilteredTime
    /\ UNCHANGED <<control, timeStamp, inFilteredTime, lastAllocationPtr, infos, results, costs>>

\* A mutation of ReadTimeStamp: the start of the filter is left out.
ReadTimeStampLate ==
    \E stamp \in 1..MaxStamp :
        /\ GetLine(Line("c", stamp))
        /\ IF stamp < timeStamp
           THEN UNCHANGED <<timeStamp, inFilteredTime>>
           ELSE /\ timeStamp' = stamp
                /\ inFilteredTime' = (stamp > filter[1] /\ stamp <= filter[2])
        /\ UNCHANGED <<control, lastAllocationPtr, infos, results, costs>>

\* Line c. A time stamp that goes backwards is damaged and ignored.
ReadTimeStamp ==
    \E stamp \in 1..MaxStamp :
        /\ GetLine(Line("c", stamp))
        /\ IF stamp < timeStamp
           THEN UNCHANGED <<timeStamp, inFilteredTime>>
           ELSE /\ timeStamp' = stamp
                /\ inFilteredTime' = (stamp >= filter[1] /\ stamp <= filter[2])
        /\ UNCHANGED <<control, lastAllocationPtr, infos, results, costs>>

-----------------------------------------------------------------------------
(* Passes                                                                  *)

\* AllocationData::clearCost for all allocations.
ClearCosts(allocs) == [a \in DOMAIN allocs |-> [trace |-> allocs[a].trace, cost |-> NoCost]]

\* The suppressions of a pass: the lines S are read anew, the old list is only
\* replaced when the built-in ones are wanted.
NewSuppressions(off) ==
    (IF "builtin" \in off THEN suppressions ELSE {"builtin"}) \cup ({"embedded"} \ off)

\* The start of read(): the tracker copies the leaks before they are cleared.
StartPass(p, again, limits, off) ==
    /\ phase' = "reading" /\ pass' = p /\ reparsing' = again
    /\ filter' = limits /\ disabled' = off
    /\ suppressions' = IF p = "first" THEN NewSuppressions(off) ELSE suppressions
    /\ pos' = 0 /\ timeStamp' = 0
    /\ inFilteredTime' = (limits[1] = 0)
    /\ lastAllocationPtr' = 0
    /\ totalCost' = NoTotal
    /\ peakTime' = 0
    /\ peakTracker' = NewTracker(parsedStamp, 0, Leaks(allocations))
    /\ allocations' = ClearCosts(allocations)
    /\ peaks' = <<>>
    /\ UNCHANGED <<file, parsedStamp, infos, totalTime, totalLeakedSuppressed>>

\* Parser::parse of a new file.
Parse ==
    /\ phase = "empty"
    /\ StartPass("first", FALSE, filter, disabled)

\* The loop ends at the end of the file or after the last time stamp asked for.
AtEnd ==
    /\ phase = "reading"
    /\ \/ timeStamp >= filter[2]
       \/ pos = Len(file) /\ (file # <<>> => Last(file).mode # "a")

\* peakTracker.finalize()
Finalized == Finalize(peakTracker, parsedStamp, totalCost.leaked, Leaks(allocations))

\* The end of read() in the first pass.
EndFirstPass ==
    /\ AtEnd /\ pass = "first"
    /\ phase' = "read"
    /\ peakTime' = Finalized.peak.peakTime
    /\ peaks' = PeakAllocations(Finalized.peak)
    /\ IF reparsing
       THEN UNCHANGED <<totalTime, filter>>
       ELSE totalTime' = timeStamp + 1 /\ filter' = [filter EXCEPT ![2] = timeStamp + 1]
    /\ peakTracker' = NewTracker(0, 0, <<>>)
    /\ UNCHANGED <<file, pass, reparsing, disabled, suppressions, reader, infos, allocations,
                   totalCost, totalLeakedSuppressed>>

\* A mutation of HiddenLeaks: only the allocations still leaking more than two
\* bytes are counted.
LargeHiddenLeaks ==
    SumFunction([a \in DOMAIN allocations |->
        IF \E kind \in suppressions : allocations[a].trace \in Matches[kind]
           /\ allocations[a].cost.leaked > 2
        THEN allocations[a].cost.leaked ELSE 0])

IsSuppressed(allocation) == \E kind \in suppressions : allocation.trace \in Matches[kind]

HiddenLeaks ==
    SumFunction([a \in DOMAIN allocations |->
        IF IsSuppressed(allocations[a]) THEN allocations[a].cost.leaked ELSE 0])

\* applyLeakSuppressions()
ApplyLeakSuppressions ==
    /\ phase = "read"
    /\ phase' = "summarized"
    /\ totalLeakedSuppressed' = HiddenLeaks
    /\ totalCost' = [totalCost EXCEPT !.leaked = @ - HiddenLeaks]
    /\ allocations' = [a \in DOMAIN allocations |->
                        IF IsSuppressed(allocations[a])
                        THEN Charge(allocations[a], - allocations[a].cost.leaked, 0, 0)
                        ELSE allocations[a]]
    /\ UNCHANGED <<file, pass, reparsing, filter, disabled, suppressions, reader, infos, peaks,
                   peakTracker, peakTime, totalTime>>

\* The charts are built in a second pass over the file.
StartSecondPass ==
    /\ phase = "summarized"
    /\ StartPass("second", reparsing, filter, disabled)

EndSecondPass ==
    /\ AtEnd /\ pass = "second"
    /\ phase' = "ready"
    /\ peakTracker' = NewTracker(0, 0, <<>>)
    /\ UNCHANGED <<file, pass, reparsing, filter, disabled, suppressions, reader, infos, results,
                   allocations, peaks, totalCost>>

\* Parser::reparse limits the user's filter to the length of the recording.
Reparse ==
    /\ phase = "ready"
    /\ \E choice \in Reparsings : LET limits == choice[1] IN
        StartPass("first", TRUE, <<limits[1], IF limits[2] < totalTime THEN limits[2] ELSE totalTime>>,
                  choice[2])

Next ==
    \/ Parse \/ ReadInfo \/ ReadAllocation \/ ReadDeallocation \/ SkipEvent \/ ReadTimeStamp
    \/ EndFirstPass \/ ApplyLeakSuppressions \/ StartSecondPass \/ EndSecondPass \/ Reparse

Spec == Init /\ [][Next]_vars

-----------------------------------------------------------------------------
(* What the results mean                                                   *)

Info == [size : Sizes, allocation : 1..Len(allocations)]
Allocation == [trace : Traces, cost : [allocations : Int, temporary : Int, leaked : Int]]
Total == [allocations : Int, temporary : Int, leaked : Int, peak : Int]
Event == [size : Sizes, allocation : Nat, isAlloc : BOOLEAN]
Snippet == [peakTime : Nat, peakMem : Int, peakIdx : Nat, starting : Seq(Int), events : Seq(Event)]

ControlOK ==
    /\ phase \in {"empty", "reading", "read", "summarized", "ready"}
    /\ pass \in {"first", "second"} /\ reparsing \in BOOLEAN /\ filter \in Nat \X Nat
    /\ timeStamp \in Nat /\ parsedStamp \in Nat /\ lastAllocationPtr \in Nat
    /\ peakTime \in Nat /\ totalTime \in Nat

InfosOK ==
    /\ allocationInfos \in Seq(Info)
    /\ allocations \in Seq(Allocation)
    /\ newest \in [trace : Nat, index : 0..Len(allocations)]

CostsOK ==
    /\ phase # "summarized" => totalCost \in Total
    /\ peakTracker \in [peak : Snippet, curr : Snippet]
    /\ Len(peakTracker.curr.events) <= Capacity /\ Len(peakTracker.peak.events) <= Capacity

\* The shape of the analysis data: infos refer to allocations that exist, and
\* no snippet has more events than fit.
TypeOK == ControlOK /\ InfosOK /\ CostsOK

\* mapToAllocationIndex has one allocation for each trace, and the infos of a
\* trace lead to it, although it takes shortcuts for the newest trace: what its
\* assertion says of that trace holds.
OneAllocationPerTrace ==
    /\ \A a, b \in DOMAIN allocations : allocations[a].trace = allocations[b].trace => a = b
    /\ \A t \in DOMAIN allocationIndex : allocations[allocationIndex[t]].trace = t
    /\ allocations # <<>> => allocations[newest.index].trace = newest.trace

\* The time at which the line at a position of the file happened.
TimeOf(n) ==
    LET stamps == {file[m].value : m \in {k \in 1..(n - 1) : file[k].mode = "c"}}
    IN  Max(stamps \cup {0})

\* The lines + and - that a pass takes into account: those within the filter.
Window(mode) == {n \in DOMAIN file : /\ file[n].mode = mode
                                     /\ filter[1] <= TimeOf(n) /\ TimeOf(n) < filter[2]}

Size(n) == allocationInfos[file[n].value + 1].size
Trace(n) == allocations[allocationInfos[file[n].value + 1].allocation].trace

\* The number and the sum of the sizes of some lines.
SizeOf(lines) == SumFunction([n \in lines |-> Size(n)])

\* The leaks of a trace by the lines of the file alone.
LeakOf(trace) == SizeOf({n \in Window("+") : Trace(n) = trace})
               - SizeOf({n \in Window("-") : Trace(n) = trace})

\* A deallocation whose last preceding line + or - is an allocation of its info:
\* what makes the allocation temporary ("when a deallocation follows with the
\* same data").
FollowsAllocation(n) ==
    \E m \in Window("+") : /\ m < n /\ file[m].value = file[n].value
                           /\ \A k \in (m + 1)..(n - 1) : file[k].mode \notin {"+", "-"}

\* After a pass every allocation has the costs that follow from the file, the
\* second pass and a reparse included, and the totals are their sums.  Every
\* temporary allocation is counted; deallocations of info 0 may be counted
\* although they follow no allocation, because 0 also stands for none.
CostsOfFile ==
    phase \in {"read", "ready"} =>
        /\ \A a \in DOMAIN allocations : LET t == allocations[a].trace IN
            /\ allocations[a].cost.leaked = LeakOf(t)
            /\ allocations[a].cost.allocations = Cardinality({n \in Window("+") : Trace(n) = t})
        /\ totalCost.allocations = Cardinality(Window("+"))
        /\ totalCost.leaked = SizeOf(Window("+")) - SizeOf(Window("-"))
        /\ totalCost.temporary =
            SumFunction([a \in DOMAIN allocations |-> allocations[a].cost.temporary])
        /\ \E zero \in SUBSET {n \in Window("-") : file[n].value = 0} :
             totalCost.temporary =
                Cardinality({n \in Window("-") : FollowsAllocation(n)} \cup zero)

\* The leaks that are reported, and those that are hidden, add up: suppressions
\* neither lose a leak nor count one twice, whatever earlier parses suppressed.
\* What is hidden follows from the filter, but for a reparse that disables the
\* built-in suppressions: it keeps those of the previous parse.
SuppressionsAddUp ==
    phase = "summarized" =>
        LET hidden == UNION {Matches[kind] : kind \in suppressions}
        IN  /\ totalLeakedSuppressed = SumFunction([t \in hidden |-> LeakOf(t)])
            /\ totalCost.leaked = SumFunction([t \in Traces \ hidden |-> LeakOf(t)])
            /\ totalCost.leaked = SumFunction(Leaks(allocations))
            /\ suppressions = Kinds \ disabled \/ (reparsing /\ "builtin" \in disabled)

\* The totals' peak, the allocations' peaks and the peak time belong together:
\* the peaks of the allocations add up to the peak of the totals.
PeaksAddUp ==
    phase = "read" =>
        totalCost.peak = SumFunction(peaks)

\* The snippet that will be replayed is the one the peak of the totals was
\* reached in, however the events were split.
PeakOfBestSnippet ==
    phase = "reading" /\ pass = "first" => totalCost.peak = Finalized.peak.peakMem

\* What PeakSnapshot calls leaked, peak and atPeak, in the first pass over a new
\* file and at its end.
ByTrace(values) ==
    [t \in Traces |-> SumFunction([a \in {b \in DOMAIN values : allocations[b].trace = t} |-> values[a]])]

Tracking == phase = "reading" /\ FirstReading

Tracked == phase = "read" /\ FirstReading

\* The peak tracker keeps, in snippets, what a snapshot at every new peak would:
\* the refinement of PeakSnapshot by the first pass.
Snapshot == INSTANCE PeakSnapshot WITH
    leaked <- IF Tracking \/ Tracked THEN ByTrace(Leaks(allocations)) ELSE ByTrace(<<>>),
    peak   <- IF Tracking \/ Tracked THEN totalCost.peak ELSE 0,
    atPeak <- ByTrace(IF Tracking THEN PeakAllocations(Finalized.peak)
                      ELSE IF Tracked THEN peaks ELSE <<>>)

ImplementsSnapshot == Snapshot!Spec
=============================================================================
