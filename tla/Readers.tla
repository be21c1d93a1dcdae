------------------------------ MODULE Readers ------------------------------
(***************************************************************************)
(* The two programs that read a data file by subclassing                   *)
(* AccumulatedTraceData: the GUI, in two passes and again for every        *)
(* reparse, and heaptrack_print, in one.                                   *)
(***************************************************************************)
EXTENDS PrinterData

CONSTANT Programs   \* the programs that may be started, of "gui" and "print"

VARIABLE program

ReadersInit ==
    /\ GuiInit /\ PrinterInit
    /\ program \in Programs
    /\ program = "print" => filter[1] = 0

ReadersNext ==
    /\ \/ program = "gui" /\ GuiNext /\ UNCHANGED printerVars
       \/ program = "print" /\ PrinterNext /\ UNCHANGED guiVars
    /\ UNCHANGED program

ReadersSpec == ReadersInit /\ [][ReadersNext]_<<vars, guiVars, printerVars, program>>

-----------------------------------------------------------------------------
\* Histogram of sizes: that of the GUI, by buckets and symbols, and the one that
\* heaptrack_print writes, by sizes, count the allocations of the file.
HistogramsAgree ==
    IF program = "gui" THEN SizesCounted ELSE PrintedSizes

\* Consumption over time: the charts of the GUI and the snapshots of a massif
\* file have the costs at their time, and so have the tips of a chart.
TimelinesAgree ==
    IF program = "gui" THEN ChartsAgree /\ TipsAgree ELSE SnapshotsAgree /\ SnapshotsComplete
=============================================================================
