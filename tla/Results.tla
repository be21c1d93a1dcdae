------------------------------ MODULE Results ------------------------------
(***************************************************************************)
(* The results of one data file, or of two that are compared, along the    *)
(* jobs of the GUI's parser: diff, mergeAllocations, then the top-down     *)
(* tree and the caller/callee table in either order, and the views that    *)
(* are opened on them. heaptrack_print works on the same allocations, and  *)
(* writes its massif file while it reads.                                  *)
(***************************************************************************)
EXTENDS CallTrees, Printer

CONSTANTS
    Inputs,      \* the files opened: [data, base, diffMode]
    StopSymbols, \* main and the other functions at which backtraces stop
    Thresholds,  \* percentages below which items and places are cut
    PrintLimits  \* how many places, and backtraces of each, are printed

VARIABLES
    input,       \* the files that are read
    allocations, \* AccumulatedTraceData::allocations
    done,        \* the steps done
    merged,      \* the bottom-up tree and the source map
    topDown,     \* the top-down tree
    table,       \* the caller/callee table
    view         \* what is shown or written last

vars == <<input, allocations, done, merged, topDown, table, view>>

Init ==
    /\ input \in Inputs
    /\ allocations = input.data
    /\ done = {}
    /\ merged = NothingMerged /\ topDown = Empty
    /\ table = CallerCallee(Empty, {}, FALSE)
    /\ view = [kind |-> "none"]

Total(file) == SumCosts(file)
TotalCost == Total(input.data) - Total(input.base)

\* stopIndices: only the strings of the open file are searched for them.
SymbolsIn(file) ==
    UNION {{ip.frame[1] : ip \in ToSet(file[i].trace)}
             \cup UNION {ToSet(SymbolsOf(ip.inlined)) : ip \in ToSet(file[i].trace)} :
           i \in DOMAIN file}
Stops == StopSymbols \cap SymbolsIn(input.data)

Do(step, needed) == step \notin done /\ needed \subseteq done /\ done' = done \cup {step}

DiffBase ==
    /\ input.diffMode
    /\ Do("diff", {})
    /\ allocations' = Diff(input.data, input.base)
    /\ UNCHANGED <<input, merged, topDown, table, view>>

BuildBottomUp ==
    /\ view.kind = "none"
    /\ Do("bottomUp", IF input.diffMode THEN {"diff"} ELSE {})
    /\ merged' = MergeAllocations(allocations, Stops)
    /\ UNCHANGED <<input, allocations, topDown, table, view>>

BuildTopDown ==
    /\ Do("topDown", {"bottomUp"})
    /\ topDown' = TopDown(merged.tree)
    /\ UNCHANGED <<input, allocations, merged, table, view>>

BuildCallerCallee ==
    /\ Do("callerCallee", {"bottomUp"})
    /\ table' = CallerCallee(merged.tree, {l[1] : l \in DOMAIN merged.inclusive},
                             input.diffMode)
    /\ UNCHANGED <<input, allocations, merged, topDown, view>>

\* FlameGraph::showData, with its settings.
ShowFlameGraph(bottomUp, threshold, collapse) ==
    /\ Do("view", {"topDown", "callerCallee"})
    /\ view' = [kind |-> "flameGraph", threshold |-> threshold,
                items |-> ParseData(TotalCost, IF bottomUp THEN merged.tree ELSE topDown,
                                    threshold, collapse)]
    /\ UNCHANGED <<input, allocations, merged, topDown, table>>

\* Printer::finalize, without a function to filter by or with one, and the lists
\* of the places, or of the backtraces, with the highest costs.
PrintLists(symbol, limits) ==
    LET filtered == IF symbol = Unresolved THEN allocations
                    ELSE FilterAllocations(allocations, symbol, Stops)
    IN  /\ Do("view", {"callerCallee"})
        /\ view' = [kind |-> "lists", symbol |-> symbol, limits |-> limits,
                    places |-> MergeByIp(filtered),
                    merged |-> PrintMergedList(filtered, limits, Stops),
                    unmerged |-> PrintUnmergedList(filtered, limits, Stops)]
        /\ UNCHANGED <<input, allocations, merged, topDown, table>>

\* The stacks for flamegraph.pl.
PrintStacks ==
    /\ Do("view", {"topDown", "callerCallee"})
    /\ view' = [kind |-> "stacks", lines |-> PrintFlamegraphs(allocations, Stops)]
    /\ UNCHANGED <<input, allocations, merged, topDown, table>>

\* writeMassifSnapshot, in a run of heaptrack_print that only writes this file:
\* the tree starts at the root and is descended along any path.
WriteMassif(threshold) ==
    /\ done = {} /\ view.kind = "none"
    /\ view' = [kind |-> "massif", threshold |-> (Total(input.data) * threshold) \div 100,
                node |-> [ip |-> InvalidIp, heapSize |-> Total(input.data),
                          traces |-> input.data]]
    /\ UNCHANGED <<input, allocations, done, merged, topDown, table>>

WriteMassifBacktrace ==
    /\ view.kind = "massif"
    /\ \E child \in MassifChildren(view.node, view.threshold, Stops) :
            view' = [view EXCEPT !.node = child]
    /\ UNCHANGED <<input, allocations, done, merged, topDown, table>>

Next ==
    \/ DiffBase \/ BuildBottomUp \/ BuildTopDown \/ BuildCallerCallee
    \/ \E bottomUp, collapse \in BOOLEAN, threshold \in Thresholds :
            ShowFlameGraph(bottomUp, threshold, collapse)
    \/ \E symbol \in SymbolsIn(allocations) \cup {Unresolved}, limits \in PrintLimits :
            PrintLists(symbol, limits)
    \/ PrintStacks
    \/ \E threshold \in Thresholds : WriteMassif(threshold)
    \/ WriteMassifBacktrace

Spec == Init /\ [][Next]_vars
-----------------------------------------------------------------------------
\* The cost of all backtraces of the open file, less those of the base, that a
\* condition holds for.
CostWhere(Holds(_)) ==
    LET cost(file) == FoldLeft(LAMBDA sum, a : sum + IF Holds(a.trace) THEN a.cost ELSE 0,
                               0, file)
    IN  cost(input.data) - cost(input.base)

PathOf(trace) == SymbolsOf(Locations(trace, Stops))
FramesOf(trace) == [i \in DOMAIN trace |-> trace[i].frame]
AllTraces == {a.trace : a \in ToSet(input.data) \cup ToSet(input.base)}

\* diff() finds, in vectors it keeps sorted, the place of every backtrace: the
\* differences are those of backtraces that are equal but for addresses and
\* inlined frames, each listed once and only if there is one.
DiffAgrees ==
    "diff" \in done =>
        LET SameTrace(s, t) == FramesOf(s) = FramesOf(t)
            differing(t) == {i \in DOMAIN allocations : SameTrace(allocations[i].trace, t)}
        IN  /\ \A a \in ToSet(allocations) :
                    a.cost # 0 /\ \E t \in AllTraces : SameTrace(a.trace, t)
            /\ \A t \in AllTraces :
                    LET cost == CostWhere(LAMBDA s : SameTrace(s, t))
                    IN  IF cost = 0 THEN differing(t) = {}
                        ELSE \E i \in differing(t) :
                                differing(t) = {i} /\ allocations[i].cost = cost

\* The top-down tree is built from the bottom-up tree alone, whose rows do not
\* tell their own costs. It has the costs of the backtraces read outside in,
\* and both trees have the total.
TopDownAgrees ==
    "topDown" \in done =>
        LET outsideIn(a) == Reverse(PathOf(a.trace))
            rows == UNION {RowsTo(outsideIn(a)) : a \in ToSet(allocations)}
        IN  \A row \in rows \cup DOMAIN topDown :
                At(topDown, row) = FoldLeft(LAMBDA sum, a :
                    sum + IF IsPrefix(row, outsideIn(a)) THEN a.cost ELSE 0, 0, allocations)

\* Two passes count a function once per backtrace, however often it recurs: the
\* costs of its source lines add up to its own. The table has no entries but
\* those of the source map, so that pointers to them stay valid while it is
\* filled, and it counts a call as often as the backtraces do.
CallerCalleeAgrees ==
    "callerCallee" \in done =>
        LET lines(costs, s) == MapThenSumSet(LAMBDA l : costs[l], {l \in DOMAIN costs : l[1] = s})
            calls(edge) == FoldLeft(LAMBDA sum, a :
                sum + IF edge \in Edges(PathOf(a.trace)) THEN a.cost ELSE 0, 0, allocations)
        IN  /\ \A s \in DOMAIN table.inclusive :
                    /\ table.inclusive[s] = lines(merged.inclusive, s)
                    /\ At(table.self, s) = lines(merged.self, s)
            /\ DOMAIN table.inclusive \subseteq {l[1] : l \in DOMAIN merged.inclusive}
            /\ \A edge \in DOMAIN table.edges : table.edges[edge] = calls(edge)

\* Searching the flame graph for a function finds the inclusive cost of the
\* caller/callee table, and less only where items are below the threshold. An
\* item's children are never wider than the item. Not in a comparison, where
\* costs may be negative.
SearchAgrees ==
    view.kind = "flameGraph" /\ ~ input.diffMode =>
        /\ \A s \in DOMAIN table.inclusive :
                LET found == SearchCost(view.items, <<>>, s)
                IN  /\ found <= table.inclusive[s]
                    /\ view.threshold = 0 => found = table.inclusive[s]
        /\ \A item \in DOMAIN view.items : Own(view.items, item) >= 0

\* Tree and flame graph, computed from the same bottom-up data along different
\* ways, tell of every backtrace and every function what the data says.
TreeViewsAgree == TopDownAgrees /\ SearchAgrees

\* heaptrack_print and the GUI agree on what was allocated where, and on the
\* cost of the backtraces that contain a function, unless it is one to stop at.
PlacesAgree ==
    LET costs == [i \in DOMAIN view.places |-> CostOf(view.places[i])]
    IN  view.kind = "lists" =>
        /\ view.symbol = Unresolved =>
            /\ \A i \in DOMAIN costs : costs[i] = merged.self[view.places[i].ip.frame]
            /\ Len(costs) = Cardinality(DOMAIN merged.self)
        /\ view.symbol \notin Stops \cup {Unresolved} =>
            At(table.inclusive, view.symbol) = FoldLeft(LAMBDA sum, c : sum + c, 0, costs)

\* A list cut to its limit leaves out nothing that costs more than what is in it,
\* and what it says of a known place adds up, whatever is cut and however differences
\* cancel out.
ListsAddUp ==
    LET size(n) == IF n < 0 THEN - n ELSE n
        listed == {view.merged[i].ip.frame : i \in DOMAIN view.merged}
    IN  view.kind = "lists" =>
        /\ \A i \in DOMAIN view.merged : LET place == view.merged[i] IN
            /\ place.ip # InvalidIp => place.cost = place.rest + SumCosts(place.lines)
            /\ Len(place.lines) <= view.limits[2]
            /\ \A other \in ToSet(view.places) : other.ip.frame \notin listed =>
                    size(CostOf(other)) <= size(place.cost)
        /\ Len(view.merged) < view.limits[1] =>
            \A other \in ToSet(view.places) : other.ip.frame \notin listed => CostOf(other) = 0
        /\ Len(view.unmerged) < view.limits[1] /\ view.symbol = Unresolved =>
            SumCosts(view.unmerged) = SumCosts(allocations)

\* The stacks for flamegraph.pl are the top-down tree of the GUI, where nothing
\* was inlined, and have the frames of the backtraces elsewhere.
StacksAgree ==
    view.kind = "stacks" =>
        LET symbols(line) == SymbolsOf(line.stack)
            plain == \A a \in ToSet(allocations) : \A ip \in ToSet(a.trace) : ip.inlined = <<>>
            count(s, seq) == Cardinality({i \in DOMAIN seq : seq[i] = s})
        IN  /\ plain => \A row \in DOMAIN topDown :
                topDown[row] = FoldLeft(LAMBDA sum, line :
                    sum + IF IsPrefix(row, symbols(line)) THEN line.cost ELSE 0, 0, view.lines)
            /\ \A i \in DOMAIN view.lines :
                \A s \in ToSet(symbols(view.lines[i])) \cup ToSet(PathOf(allocations[i].trace)) :
                    count(s, symbols(view.lines[i])) = count(s, PathOf(allocations[i].trace))

\* A node of the massif tree is the sum of the nodes below it and of what is
\* below the threshold, unless the backtraces stop there.
MassifAddsUp ==
    view.kind = "massif" /\ view.node.ip.frame[1] \notin Stops =>
        view.node.heapSize =
            MapThenSumSet(LAMBDA child : child.heapSize,
                          MassifChildren(view.node, view.threshold, Stops))
              + SkippedLeaked(view.node, view.threshold, Stops)

\* What heaptrack_print writes agrees with what the GUI shows, and with itself.
TextAgrees == PlacesAgree /\ ListsAddUp /\ StacksAgree /\ MassifAddsUp
=============================================================================
