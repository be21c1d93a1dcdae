---------------------------- MODULE PeakSnapshot ----------------------------
(***************************************************************************)
(* What PeakTracker and AccumulatedTraceData promise about the peak: while *)
(* allocations come and go, the highest total so far and the leak of every *)
(* backtrace at the first moment that total was reached are known. This is *)
(* the naive way to do it, a snapshot at every new peak, which the         *)
(* snippets of PeakTracker exist to avoid.                                 *)
(***************************************************************************)
EXTENDS Integers, Functions

CONSTANTS
    Traces,     \* backtraces
    Sizes       \* sizes of an allocation

VARIABLES
    leaked,     \* bytes each backtrace leaks
    peak,       \* the highest total so far
    atPeak      \* what each backtrace leaked when that total was reached

Nothing == [t \in Traces |-> 0]

Init == leaked = Nothing /\ peak = 0 /\ atPeak = Nothing

\* An allocation or a deallocation of a backtrace.
Change ==
    /\ \E t \in Traces : \E s \in Sizes :
        leaked' \in {[leaked EXCEPT ![t] = @ + s], [leaked EXCEPT ![t] = @ - s]}
    /\ IF SumFunction(leaked') > peak
       THEN peak' = SumFunction(leaked') /\ atPeak' = leaked'
       ELSE UNCHANGED <<peak, atPeak>>

\* The results were delivered and the next pass starts.
Restart ==
    /\ leaked' = Nothing
    /\ peak' = 0
    /\ atPeak' = Nothing

Next == Change \/ Restart

Spec == Init /\ [][Next]_<<leaked, peak, atPeak>>
=============================================================================
