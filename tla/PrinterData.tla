---------------------------- MODULE PrinterData ----------------------------
(***************************************************************************)
(* heaptrack_print: main() and its Printer, the analysis of TraceData with *)
(* what Printer adds to it by overriding handleAllocation and              *)
(* handleTimeStamp: a histogram of sizes, and the snapshots of a massif    *)
(* file, which are written while the data file is read.  What is printed   *)
(* of the allocations afterwards is the subject of Printer and Results.    *)
(***************************************************************************)
EXTENDS ParserData

CONSTANTS
    OptionSets,     \* choices of the optional outputs
    DetailedFreq    \* --massif-detailed-freq

Outputs == {"massif", "histogram", "flamegraph"}

ASSUME PrinterDataAssumption ==
    OptionSets \subseteq SUBSET Outputs /\ DetailedFreq \in Nat

VARIABLES
    options,            \* the outputs asked for
    step,               \* how far main() is
    exit,               \* its exit code, or -1 while it runs
    written,            \* the output files that could be opened
    lastMassifPeak,
    massifAllocations,
    snapshots,          \* of the massif file
    sizeHistogram

massif == <<lastMassifPeak, massifAllocations, snapshots>>
mainVars == <<options, step, exit, written>>
printerVars == <<mainVars, massif, sizeHistogram>>

PrinterInit ==
    /\ options \in OptionSets
    /\ step = "options" /\ exit = -1 /\ written = {}
    /\ lastMassifPeak = 0 /\ massifAllocations = <<>> /\ snapshots = <<>>
    /\ sizeHistogram = << >>

-----------------------------------------------------------------------------
(* The massif file                                                         *)

\* `at' is how much of the file was read, `tree' the allocations the detailed
\* tree is made of.
WriteMassifSnapshot(stamp, isLast) ==
    LET none     == lastMassifPeak = 0
        detailed == DetailedFreq # 0 /\ (isLast \/ Len(snapshots) % DetailedFreq = 0)
        kept     == IF none THEN allocations ELSE massifAllocations
    IN  /\ snapshots' = Append(snapshots,
                [stamp |-> stamp, at |-> pos',
                 heap |-> IF none THEN totalCost.leaked ELSE lastMassifPeak,
                 detailed |-> detailed, tree |-> IF detailed THEN kept ELSE <<>>])
        /\ massifAllocations' = kept
        /\ lastMassifPeak' = 0

\* A mutation of KeepPeak: the peak before the last snapshot is compared with.
KeepFirst ==
    IF "massif" \in written /\ totalCost.leaked > 0 /\ lastMassifPeak = 0
    THEN /\ massifAllocations' = allocations'
         /\ lastMassifPeak' = totalCost.leaked
         /\ UNCHANGED snapshots
    ELSE UNCHANGED massif

\* The allocation in progress is in allocations, and not yet in the total.
KeepPeak ==
    IF "massif" \in written /\ totalCost.leaked > 0 /\ totalCost.leaked > lastMassifPeak
    THEN /\ massifAllocations' = allocations'
         /\ lastMassifPeak' = totalCost.leaked
         /\ UNCHANGED snapshots
    ELSE UNCHANGED massif

TakeSnapshot(stamp, isLast) ==
    IF "massif" \in written THEN WriteMassifSnapshot(stamp, isLast) ELSE UNCHANGED massif

-----------------------------------------------------------------------------
(* main()                                                                  *)

EndWith(code) == step' = "ended" /\ exit' = code

\* The massif file is created first; without it, or without the suppressions
\* asked for, nothing is read.
Prepare ==
    /\ step = "options"
    /\ \/ "massif" \in options /\ EndWith(1) /\ UNCHANGED written
       \/ /\ written' = options \cap {"massif"}
          /\ \/ EndWith(1)
             \/ step' = "read" /\ UNCHANGED exit
    /\ UNCHANGED <<vars, options, massif, sizeHistogram>>

Continues == step = "read" /\ UNCHANGED mainVars

\* read() fails: the file cannot be opened, or its version is not known.
ReadFails ==
    /\ step = "read" /\ phase = "empty"
    /\ EndWith(1)
    /\ UNCHANGED <<vars, options, written, massif, sizeHistogram>>

CountSize(size) ==
    sizeHistogram' =
        IF "histogram" \notin options THEN sizeHistogram
        ELSE [s \in DOMAIN sizeHistogram \cup {size} |->
                (IF s \in DOMAIN sizeHistogram THEN sizeHistogram[s] ELSE 0)
                  + (IF s = size THEN 1 ELSE 0)]

\* Line +, with handleAllocation.
PrinterAllocation ==
    /\ Continues
    /\ ReadAllocation
    /\ CountSize(allocationInfos[file'[pos'].value + 1].size)
    /\ KeepPeak

\* Line c, with handleTimeStamp.
PrinterTimeStamp ==
    /\ Continues
    /\ ReadTimeStamp
    /\ LET stamp == file'[pos'].value
       IN  IF stamp >= timeStamp /\ inFilteredTime'
           THEN TakeSnapshot(stamp, FALSE) ELSE UNCHANGED massif
    /\ UNCHANGED sizeHistogram

PrinterReading ==
    /\ Continues
    /\ \/ (Parse \/ ReadInfo \/ ReadDeallocation \/ SkipEvent) /\ UNCHANGED massif
       \/ EndFirstPass /\ TakeSnapshot(timeStamp + 1, TRUE)
    /\ UNCHANGED sizeHistogram

\* finalize(), after which the allocations are printed.
FinalizePrinter ==
    /\ step = "read"
    /\ ApplyLeakSuppressions
    /\ step' = "print"
    /\ UNCHANGED <<options, exit, written, massif, sizeHistogram>>

\* Outputs that cannot be opened now are only complained about.
PrintOutputs ==
    /\ step = "print"
    /\ \E opened \in SUBSET (options \ {"massif"}) : written' = written \cup opened
    /\ EndWith(0)
    /\ UNCHANGED <<vars, options, massif, sizeHistogram>>

PrinterNext ==
    \/ Prepare \/ ReadFails \/ PrinterAllocation \/ PrinterTimeStamp \/ PrinterReading
    \/ FinalizePrinter \/ PrintOutputs

-----------------------------------------------------------------------------
(* What the outputs mean                                                   *)

\* The lines read since the snapshot before one.
Since(k) ==
    {n \in Window("+") : n <= snapshots[k].at /\ (k > 1 => n > snapshots[k - 1].at)}

\* A snapshot has the highest consumption that an allocation since the last one
\* found, or the present one if there was none.  The tree below it is of the same
\* moment, but it has that allocation already: it does not add up to the heap.
SnapshotsAgree ==
    \A k \in DOMAIN snapshots :
        LET s == snapshots[k]
            found == {LeakedBefore(n, Traces) : n \in Since(k)}
            IsTreeAt(n) == \A a \in DOMAIN s.tree :
                s.tree[a].cost.leaked = LeakedBefore(n, {s.tree[a].trace})
        IN  IF \E bytes \in found : bytes > 0
            THEN /\ \A bytes \in found : bytes <= s.heap
                 /\ \E n \in Since(k) : /\ s.heap = LeakedBefore(n, Traces)
                                        /\ IsTreeAt(n + 1)
            ELSE s.heap = LeakedBefore(s.at + 1, Traces) /\ IsTreeAt(s.at + 1)

\* The massif file of a program that ends well covers the recording, up to a
\* detailed snapshot at its end; that of one that gives up has no snapshot.
SnapshotsComplete ==
    /\ step = "ended" /\ exit = 1 => snapshots = <<>>
    /\ step \in {"print", "ended"} /\ snapshots # <<>> =>
        /\ snapshots[Len(snapshots)].stamp = totalTime
        /\ DetailedFreq # 0 => snapshots[Len(snapshots)].detailed
    /\ exit = 0 => ("massif" \in options <=> snapshots # <<>>)

\* The printed histogram counts every allocation under its size.
PrintedSizes ==
    phase \in {"read", "summarized"} /\ "histogram" \in options =>
        /\ DOMAIN sizeHistogram = {Size(n) : n \in Window("+")}
        /\ \A s \in DOMAIN sizeHistogram :
             sizeHistogram[s] = Cardinality({n \in Window("+") : Size(n) = s})
=============================================================================
