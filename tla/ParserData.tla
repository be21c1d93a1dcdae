----------------------------- MODULE ParserData -----------------------------
(***************************************************************************)
(* ParserData of gui/parser.cpp: the analysis of TraceData with what the   *)
(* GUI's parser adds to it by overriding handleAllocation and              *)
(* handleTimeStamp: a counter for every allocation info, made into the     *)
(* histogram of sizes after the first pass, and the rows of the charts,    *)
(* sampled in the second pass.  clearForReparse prepares the same object   *)
(* for a reparse.                                                          *)
(*                                                                         *)
(* The instruction pointer and the symbol of a trace are the trace itself. *)
(* What the parser emitted of a parse is kept until the next one begins.   *)
(***************************************************************************)
EXTENDS TraceData

CONSTANTS
    Limits,     \* the largest size of each bucket but the last, ascending
    Columns,    \* symbols in a row of the histogram
    Labels,     \* hot spots in a chart
    DataPoints  \* MAX_CHART_DATAPOINTS

ASSUME ParserDataAssumption ==
    /\ Limits \in Seq(Nat)
    /\ \A b \in 1..(Len(Limits) - 1) : Limits[b] < Limits[b + 1]
    /\ {Columns, Labels, DataPoints} \subseteq Nat \ {0}

VARIABLES
    allocationInfoCounter,  \* [info, allocations] for each info
    overrun,                \* a counter was written outside of the vector
    histogram,              \* rows emitted for this parse
    buildCharts,
    charts,                 \* labels and rows of the three charts
    shown,                  \* the charts emitted for this parse
    maxConsumed,            \* maxConsumedSinceLastTimeStamp
    lastStamp               \* lastTimeStamp

chartVars == <<buildCharts, charts, maxConsumed, lastStamp>>
emitted == <<histogram, shown>>
counters == <<allocationInfoCounter, overrun>>
guiVars == <<counters, chartVars, emitted>>

Members == {"consumed", "allocations", "temporary"}

NoCharts == [labels |-> [m \in Members |-> <<>>], rows |-> <<>>]

GuiInit ==
    /\ Init
    /\ allocationInfoCounter = <<>> /\ overrun = FALSE /\ histogram = <<>>
    /\ buildCharts = FALSE /\ charts = NoCharts /\ shown = NoCharts
    /\ maxConsumed = 0 /\ lastStamp = 0

\* What std::sort may make of a sequence: equal elements come in any order.
Sorted(seq, IsBefore(_, _)) ==
    {[k \in DOMAIN seq |-> seq[order[k]]] : order \in
        {o \in [DOMAIN seq -> DOMAIN seq] :
            /\ IsInjective(o)
            /\ \A j, k \in DOMAIN seq : j < k => ~ IsBefore(seq[o[k]], seq[o[j]])}}

MaxOf(a, b) == IF a > b THEN a ELSE b

-----------------------------------------------------------------------------
(* The histogram of sizes                                                  *)

\* A mutation of FitsBucket: the largest size of a bucket is left out of it.
FitsBelow(size, bucket) == bucket > Len(Limits) \/ size < Limits[bucket]

FitsBucket(size, bucket) == bucket > Len(Limits) \/ size <= Limits[bucket]

\* CountedAllocationInfo::operator<
IsSmaller(left, right) ==
    \/ left.info.size < right.info.size
    \/ left.info.size = right.info.size /\ left.allocations < right.allocations

NoColumn == [allocations |-> 0, bytes |-> 0]

Counted(column, counter) ==
    [allocations |-> column.allocations + counter.allocations,
     bytes       |-> column.bytes + counter.info.size * counter.allocations]

\* insertColumns: the symbols with the most allocations come first.  Columns
\* that the row does not need keep what the row before it had in them.
InsertColumns(columns, bySymbol) ==
    LET IsMore(left, right) ==
            \/ left.allocations > right.allocations
            \/ left.allocations = right.allocations /\ left.bytes > right.bytes
        unsorted == SetToSeq({[symbol |-> s, allocations |-> bySymbol[s].allocations,
                               bytes |-> bySymbol[s].bytes] : s \in DOMAIN bySymbol})
        sorted == CHOOSE s \in Sorted(unsorted, IsMore) : TRUE
        inserted == SubSeq(sorted, 1, Min({Columns, Len(sorted)}))
    IN  inserted \o SubSeq(columns, Len(inserted) + 1, Len(columns))

\* The row under construction, and the finished ones.
Histogram == [rows |-> <<>>, total |-> NoColumn, columns |-> <<>>, bySymbol |-> << >>]

FinishRow(h) ==
    LET columns == InsertColumns(h.columns, h.bySymbol)
    IN  [h EXCEPT !.rows = Append(@, [total |-> h.total, columns |-> columns]),
                  !.columns = columns, !.bySymbol = << >>]

\* One counter of the sorted ones.  A size that does not fit starts the next
\* bucket, whether it fits that one or not.
AddToHistogram(h, counter) ==
    LET fits   == FitsBucket(counter.info.size, Len(h.rows) + 1)
        row    == IF fits THEN h ELSE FinishRow(h)
        symbol == allocations[counter.info.allocation].trace
        own    == row.bySymbol
    IN  [row EXCEPT
            !.total = Counted(IF fits THEN @ ELSE NoColumn, counter),
            !.bySymbol = [s \in DOMAIN own \cup {symbol} |->
                            IF s # symbol THEN own[s]
                            ELSE Counted(IF s \in DOMAIN own THEN own[s] ELSE NoColumn, counter)]]

\* buildSizeHistogram, which sorts the counters in place.
BuildSizeHistogram ==
    /\ allocationInfoCounter' \in Sorted(allocationInfoCounter, IsSmaller)
    /\ histogram' = IF allocationInfoCounter = <<>> THEN <<>>
                    ELSE FinishRow(FoldLeft(AddToHistogram, Histogram, allocationInfoCounter')).rows

-----------------------------------------------------------------------------
(* The charts                                                              *)

\* What the hot spots of a chart are chosen by, and the cost shown of them.
Rank(a, member) ==
    CASE member = "consumed"    -> IF a \in DOMAIN peaks THEN peaks[a] ELSE 0
      [] member = "allocations" -> allocations[a].cost.allocations
      [] member = "temporary"   -> allocations[a].cost.temporary

Shown(a, member) ==
    CASE member = "consumed"    -> allocations[a].cost.leaked
      [] member = "allocations" -> allocations[a].cost.allocations
      [] member = "temporary"   -> allocations[a].cost.temporary

Abs(n) == IF n < 0 THEN - n ELSE n

\* findTopChartEntries, as positions in allocations.
TopEntries(member) ==
    LET IsHotter(a, b) == Abs(Rank(a, member)) > Abs(Rank(b, member))
        hot == SetToSeq({a \in DOMAIN allocations : Rank(a, member) # 0})
    IN  {SubSeq(sorted, 1, Min({Labels, Len(hot)})) : sorted \in Sorted(hot, IsHotter)}

\* A row with the costs of the total and of the labelled allocations.
ChartRow(stamp, consumed) ==
    [stamp |-> stamp,
     total |-> [consumed |-> consumed, allocations |-> totalCost.allocations,
                temporary |-> totalCost.temporary],
     hot   |-> [m \in Members |-> [l \in DOMAIN charts.labels[m] |-> Shown(charts.labels[m][l], m)]]]

Origin(stamp, labels) ==
    [stamp |-> stamp, total |-> [m \in Members |-> 0],
     hot |-> [m \in Members |-> [l \in DOMAIN labels[m] |-> 0]]]

PrepareBuildCharts ==
    \E consumed \in TopEntries("consumed"), counted \in TopEntries("allocations"),
       temporary \in TopEntries("temporary") :
        LET labels == [consumed |-> consumed, allocations |-> counted, temporary |-> temporary]
        IN  /\ charts' = [labels |-> labels, rows |-> <<Origin(filter[1], labels)>>]
            /\ buildCharts' = TRUE /\ maxConsumed' = 0 /\ lastStamp' = filter[1]

\* The least time between two rows.
DiffBetweenTimeStamps == (filter[2] - filter[1]) \div DataPoints

\* A mutation of HandleTimeStamp: the highest consumption is not started anew.
HandleTimeStampKeepingMax(stamp, isFinal) ==
    LET consumed == MaxOf(maxConsumed, totalCost.leaked)
    IN  IF ~ buildCharts THEN UNCHANGED chartVars
        ELSE IF ~ isFinal /\ stamp - lastStamp < DiffBetweenTimeStamps
        THEN maxConsumed' = consumed /\ UNCHANGED <<buildCharts, charts, lastStamp>>
        ELSE /\ charts' = [charts EXCEPT !.rows = Append(@, ChartRow(stamp, consumed))]
             /\ maxConsumed' = consumed /\ lastStamp' = stamp /\ UNCHANGED buildCharts

HandleTimeStamp(stamp, isFinal) ==
    LET consumed == MaxOf(maxConsumed, totalCost.leaked)
    IN  IF ~ buildCharts THEN UNCHANGED chartVars
        ELSE IF ~ isFinal /\ stamp - lastStamp < DiffBetweenTimeStamps
        THEN maxConsumed' = consumed /\ UNCHANGED <<buildCharts, charts, lastStamp>>
        ELSE /\ charts' = [charts EXCEPT !.rows = Append(@, ChartRow(stamp, consumed))]
             /\ maxConsumed' = 0 /\ lastStamp' = stamp /\ UNCHANGED buildCharts

\* Called before the allocation is added to the total.  A filter left over from
\* another file can hide the first allocation of an info: the counters are then
\* too few for the index of a later one, and nothing can be said of them.
HandleAllocation(index) ==
    /\ maxConsumed' = MaxOf(maxConsumed, totalCost.leaked)
    /\ allocationInfoCounter' =
        IF index = Len(allocationInfoCounter)
        THEN Append(allocationInfoCounter, [info |-> allocationInfos[index + 1], allocations |-> 1])
        ELSE IF index < Len(allocationInfoCounter)
        THEN [allocationInfoCounter EXCEPT ![index + 1].allocations = @ + 1]
        ELSE allocationInfoCounter
    /\ overrun' = (overrun \/ index > Len(allocationInfoCounter))
    /\ UNCHANGED <<buildCharts, charts, lastStamp>>

\* The counters are sorted back by their allocation; the charts start anew.
ClearForReparse ==
    LET IsEarlier(left, right) == left.info.allocation < right.info.allocation
        reset == [k \in DOMAIN allocationInfoCounter |->
                    [allocationInfoCounter[k] EXCEPT !.allocations = 0]]
    IN  /\ allocationInfoCounter' \in Sorted(reset, IsEarlier)
        /\ buildCharts' = FALSE /\ charts' = NoCharts /\ maxConsumed' = 0 /\ lastStamp' = 0

-----------------------------------------------------------------------------
(* Every step of the reader with what the GUI's parser does in it          *)

Counting ==
    /\ ReadAllocation
    /\ HandleAllocation(file'[pos'].value)
    /\ UNCHANGED emitted

Sampling ==
    /\ ReadTimeStamp
    /\ LET stamp == file'[pos'].value
       IN  IF stamp >= timeStamp /\ inFilteredTime'
           THEN HandleTimeStamp(stamp, FALSE)
           ELSE UNCHANGED chartVars
    /\ UNCHANGED <<counters, emitted>>

Reading ==
    \/ (ReadInfo \/ ReadDeallocation \/ SkipEvent \/ ApplyLeakSuppressions) /\ UNCHANGED guiVars
    \/ EndFirstPass /\ HandleTimeStamp(timeStamp + 1, TRUE) /\ UNCHANGED <<counters, emitted>>

\* The histogram is made and the charts are prepared before the second pass.
Charting ==
    /\ StartSecondPass
    /\ BuildSizeHistogram
    /\ PrepareBuildCharts
    /\ UNCHANGED <<overrun, shown>>

\* The final row is part of reading; the charts are emitted before clearing.
Finishing ==
    /\ EndSecondPass
    /\ shown' = [charts EXCEPT !.rows = Append(@,
                    ChartRow(timeStamp + 1, MaxOf(maxConsumed, totalCost.leaked)))]
    /\ ClearForReparse
    /\ UNCHANGED <<overrun, histogram>>

Starting ==
    /\ Parse \/ Reparse
    /\ histogram' = <<>> /\ shown' = NoCharts
    /\ UNCHANGED <<counters, chartVars>>

GuiNext == Counting \/ Sampling \/ Reading \/ Charting \/ Finishing \/ Starting

GuiSpec == GuiInit /\ [][GuiNext]_<<vars, guiVars>>

-----------------------------------------------------------------------------
(* What a chart tells                                                      *)

\* A mutation of TotalCostAt: the first row that is not earlier.
TotalCostAtNext(time, member) ==
    LET r == SelectInSeq(shown.rows, LAMBDA row : row.stamp >= time)
    IN  IF r = 0 THEN 0 ELSE shown.rows[r].total[member]

\* totalCostAt(): the cost in the last row that is not later.
TotalCostAt(time, member) ==
    LET r == SelectLastInSeq(shown.rows, LAMBDA row : row.stamp <= time)
    IN  IF r = 0 THEN 0 ELSE shown.rows[r].total[member]

\* updateToolTip(): the costs at both ends of a selection, made in any direction.
ToolTip(selection, member) ==
    LET startCost == TotalCostAt(Min(selection), member)
        endCost   == TotalCostAt(Max(selection), member)
    IN  [start |-> startCost, end |-> endCost, delta |-> endCost - startCost]

-----------------------------------------------------------------------------
(* What the histogram and the charts mean                                  *)

BucketOf(size) == 1 + Cardinality({b \in DOMAIN Limits : size > Limits[b]})

\* No bucket is skipped on the way from one size to the next larger one.
NoGap ==
    LET buckets == {BucketOf(counter.info.size) : counter \in Range(allocationInfoCounter)}
    IN  \A b \in buckets : b > 2 => b - 1 \in buckets

InBucket(b) == {n \in Window("+") : BucketOf(Size(n)) = b}

\* The rows of the histogram count every allocation within the filter once, and
\* in the first parse of a file each in the row of its size, with the part of
\* each symbol in a column, as long as no bucket between two sizes is empty.
SizesCounted ==
    phase = "ready" /\ ~ overrun =>
        /\ SumFunction([r \in DOMAIN histogram |-> histogram[r].total.allocations])
             = Cardinality(Window("+"))
        /\ ~ reparsing /\ NoGap => \A r \in DOMAIN histogram :
             /\ histogram[r].total.allocations = Cardinality(InBucket(r))
             /\ histogram[r].total.bytes = SizeOf(InBucket(r))
             /\ \A t \in {Trace(n) : n \in InBucket(r)} :
                  LET own == {n \in InBucket(r) : Trace(n) = t}
                  IN  [symbol |-> t, allocations |-> Cardinality(own), bytes |-> SizeOf(own)]
                        \in Range(histogram[r].columns)

\* What was allocated and leaked by the lines before a position.
AllocatedBefore(n, traces) == {k \in Window("+") : k < n /\ Trace(k) \in traces}
LeakedBefore(n, traces) == SizeOf(AllocatedBefore(n, traces))
                         - SizeOf({k \in Window("-") : k < n /\ Trace(k) \in traces})

\* The lines at which a row with a time stamp can have been made.
Samplings(row) ==
    {n \in DOMAIN file : file[n].mode = "c" /\ file[n].value = row.stamp}
        \cup (IF row.stamp = timeStamp + 1 THEN {pos + 1} ELSE {})

\* The charts of a parse start with nothing and end with the totals.  Every row
\* has the costs at a line of its time, those of each labelled hot spot too, and
\* the highest consumption since the row before it, but for a peak that the next
\* line releases; no trace with more allocations than a label has none.
ChartsAgree ==
    phase = "ready" =>
        LET rows == shown.rows
            hottest == shown.labels["allocations"]
        IN  /\ rows[1].stamp = filter[1]
            /\ Last(rows).stamp = timeStamp + 1
            /\ Last(rows).total.allocations = totalCost.allocations
            /\ Last(rows).total.temporary = totalCost.temporary
            /\ \A r \in 2..Len(rows) : \E n \in Samplings(rows[r]) :
                 /\ rows[r].total.allocations = Cardinality(AllocatedBefore(n, Traces))
                 /\ rows[r].total.consumed >= LeakedBefore(n, Traces)
                 /\ \E k \in 1..n : /\ r > 2 => TimeOf(k) >= rows[r - 1].stamp
                                    /\ rows[r].total.consumed = MaxOf(0, LeakedBefore(k, Traces))
                 /\ \A l \in DOMAIN hottest :
                      rows[r].hot["allocations"][l] =
                        Cardinality(AllocatedBefore(n, {allocations[hottest[l]].trace}))
                 /\ \A l \in DOMAIN shown.labels["consumed"] :
                      rows[r].hot["consumed"][l] =
                        LeakedBefore(n, {allocations[shown.labels["consumed"][l]].trace})
                 /\ r < Len(rows) => rows[r].stamp - rows[r - 1].stamp >= DiffBetweenTimeStamps
            /\ \A l \in DOMAIN hottest, a \in DOMAIN allocations :
                 allocations[a].cost.allocations > allocations[hottest[l]].cost.allocations
                    => a \in Range(hottest)

\* The number of allocations that is told of a time is not one of a later time, and
\* not older than the least time between two rows allows.
TipsAgree ==
    phase = "ready" =>
        LET stamps == {n \in DOMAIN file : /\ file[n].mode = "c" /\ file[n].value >= TimeOf(n)
                                           /\ file[n].value \in filter[1] .. filter[2]}
            before == [n \in stamps |-> Cardinality(AllocatedBefore(n, Traces))]
        IN  \A start, end \in filter[1] .. (timeStamp + 1) :
                LET tip == ToolTip({start, end}, "allocations") IN
                /\ tip.delta >= 0
                /\ \A n \in stamps : file[n].value > Max({start, end}) => tip.end <= before[n]
                /\ \A m, n \in stamps :
                    /\ m < n /\ file[n].value <= Min({start, end})
                    /\ file[n].value >= file[m].value + DiffBetweenTimeStamps
                    => tip.start >= before[m]

\* "counts how often a given allocation info is encountered based on its index"
CountersOfInfos ==
    phase = "read" => \A i \in DOMAIN allocationInfoCounter :
        /\ allocationInfoCounter[i].info = allocationInfos[i]
        /\ allocationInfoCounter[i].allocations =
             Cardinality({n \in Window("+") : file[n].value = i - 1})
=============================================================================
