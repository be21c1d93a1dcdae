---------------------------- MODULE PeakTracker ----------------------------
(***************************************************************************)
(* class PeakTracker of peaktracker.h: the events of a pass are kept in    *)
(* snippets of a fixed capacity. A snippet starts with a copy of what every *)
(* allocation leaks and remembers after which of its events the total was  *)
(* highest. Only the snippet with the highest total and the current one    *)
(* are kept; the allocations at the peak are computed by a replay.         *)
(*                                                                         *)
(* An event is [size, allocation, isAlloc]: the C++ code keeps the index   *)
(* of the allocation info, which never changes once it was read.           *)
(***************************************************************************)
EXTENDS Integers, Sequences, SequencesExt

CONSTANT Capacity   \* s_allocEventsCapacity

ASSUME CapacityAssumption == Capacity \in Nat \ {0}

\* TraceSnippet::reset, where leaked is what each allocation leaks now.
NewSnippet(time, total, leaked) ==
    [peakTime |-> time, peakMem |-> total, peakIdx |-> 0, starting |-> leaked, events |-> <<>>]

\* The constructor of PeakTracker.
NewTracker(time, total, leaked) ==
    [peak |-> NewSnippet(time, total, leaked), curr |-> NewSnippet(time, total, leaked)]

IsFull(snippet) == Len(snippet.events) = Capacity

\* TraceSnippet::recordEvent, called after the event changed the total.
RecordInSnippet(snippet, event, time, total) ==
    LET recorded == [snippet EXCEPT !.events = Append(@, event)]
    IN  IF total > snippet.peakMem
        THEN [recorded EXCEPT !.peakTime = time, !.peakMem = total,
                              !.peakIdx = Len(recorded.events)]
        ELSE recorded

\* A mutation of Finalize: the last snippet is kept even if an earlier one was
\* as high.
FinalizeLast(tracker, time, total, leaked) ==
    [peak |-> tracker.curr, curr |-> NewSnippet(time, total, leaked)]

\* PeakTracker::finalize keeps the better snippet and starts the next one.
Finalize(tracker, time, total, leaked) ==
    [peak |-> IF tracker.curr.peakMem > tracker.peak.peakMem THEN tracker.curr ELSE tracker.peak,
     curr |-> NewSnippet(time, total, leaked)]

\* A mutation of RecordEvent: a full snippet is replaced, and the event that
\* did not fit is recorded in the new one, which already accounts for it.
RecordEventTwice(tracker, event, time, total, leaked) ==
    LET next == IF IsFull(tracker.curr) THEN Finalize(tracker, time, total, leaked) ELSE tracker
    IN  [next EXCEPT !.curr = RecordInSnippet(@, event, time, total)]

\* PeakTracker::recordEvent. The snapshot a new snippet starts with already
\* includes the event that did not fit.
RecordEvent(tracker, event, time, total, leaked) ==
    IF IsFull(tracker.curr)
    THEN Finalize(tracker, time, total, leaked)
    ELSE [tracker EXCEPT !.curr = RecordInSnippet(@, event, time, total)]

\* One step of the replay; allocations that are newer than the snippet appear
\* with a leak of 0.
Replay(leaked, event) ==
    LET resized == [a \in 1..(IF event.allocation > Len(leaked) THEN event.allocation ELSE Len(leaked)) |->
                        IF a <= Len(leaked) THEN leaked[a] ELSE 0]
    IN  [resized EXCEPT ![event.allocation] =
            IF event.isAlloc THEN @ + event.size ELSE @ - event.size]

\* What the allocations leak after the first n events of a snippet.
LeaksAfter(snippet, n) ==
    LET leaks[k \in 0..n] ==
            IF k = 0 THEN snippet.starting ELSE Replay(leaks[k - 1], snippet.events[k])
    IN  leaks[n]

\* TraceSnippet::peakAllocations.
PeakAllocations(snippet) == LeaksAfter(snippet, snippet.peakIdx)
=============================================================================
