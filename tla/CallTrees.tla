----------------------------- MODULE CallTrees -----------------------------
(***************************************************************************)
(* What the GUI computes from the allocations: the bottom-up tree with the *)
(* source map (mergeAllocations), the top-down tree and the caller/callee  *)
(* table, both from the bottom-up tree alone (buildTopDown and             *)
(* buildCallerCallee), the items of the flame graph and their search.      *)
(*                                                                         *)
(* A tree is a function from the paths of its rows, sequences of symbols,  *)
(* to the costs of the rows. `stops' are the symbols in stopIndices.       *)
(***************************************************************************)
EXTENDS TraceDiff

Empty == [k \in {} |-> 0]
At(f, k) == IF k \in DOMAIN f THEN f[k] ELSE 0

\* f with the cost added at every key of a set, as operator[] and += do.
AddTo(f, keys, cost) ==
    [k \in DOMAIN f \cup keys |-> At(f, k) + IF k \in keys THEN cost ELSE 0]

\* The rows on the way to a row, itself included.
RowsTo(path) == Prefixes(path) \ {<<>>}
Children(tree, path) ==
    {p \in DOMAIN tree : Len(p) = Len(path) + 1 /\ IsPrefix(path, p)}

-----------------------------------------------------------------------------
(* mergeAllocations                                                        *)

\* The frames of a backtrace up to the instruction pointer of a stop function.
\* An inlined frame does not stop the walk.
Locations(trace, stops) ==
    LET ips == IF trace = <<>> THEN <<InvalidIp>> ELSE trace
        stop == SelectInSeq(ips, LAMBDA ip : ip.frame[1] \in stops)
        shown == IF stop = 0 THEN ips ELSE SubSeq(ips, 1, stop)
    IN  FlattenSeq([i \in DOMAIN shown |-> <<shown[i].frame>> \o shown[i].inlined])

SymbolsOf(locations) == [i \in DOMAIN locations |-> locations[i][1]]

\* Mutation of Innermost: recursion is not looked at.
EveryLocation(locations) == ToSet(locations)

\* addCallerCalleeEvent counts the innermost location of every symbol.
Innermost(locations) ==
    {locations[i] : i \in {j \in DOMAIN locations :
        \A k \in 1 .. j - 1 : locations[k][1] # locations[j][1]}}

NothingMerged == [tree |-> Empty, inclusive |-> Empty, self |-> Empty]

\* inclusive and self are the costs of the source maps of all entries.
MergeAllocation(merged, allocation, stops) ==
    LET locations == Locations(allocation.trace, stops)
    IN  [tree |-> AddTo(merged.tree, RowsTo(SymbolsOf(locations)), allocation.cost),
         inclusive |-> AddTo(merged.inclusive, Innermost(locations), allocation.cost),
         self |-> AddTo(merged.self, {Head(locations)}, allocation.cost)]

MergeAllocations(allocations, stops) ==
    FoldLeft(LAMBDA merged, a : MergeAllocation(merged, a, stops), NothingMerged, allocations)

-----------------------------------------------------------------------------
(* buildTopDown and buildCallerCallee                                      *)

\* The cost of a row that is not its children's: `row.cost - childCost'.
Own(tree, path) ==
    tree[path] - MapThenSumSet(LAMBDA child : tree[child], Children(tree, path))

\* Mutation of Leaves: rows with children are never leaves.
ChildlessRows(tree) == {path \in DOMAIN tree : Children(tree, path) = {}}

\* Rows that are (partially) a leaf.
Leaves(tree) == {path \in DOMAIN tree : Own(tree, path) # 0}

TopDown(tree) ==
    FoldSet(LAMBDA path, rows : AddTo(rows, RowsTo(Reverse(path)), Own(tree, path)),
            Empty, Leaves(tree))

Edges(path) == {<<path[i + 1], path[i]>> : i \in 1 .. Len(path) - 1}

\* The entries for the symbols of the source map and of the leaves. `edges' are
\* the costs from a caller to a callee, kept in the callees of the one and the
\* callers of the other.
CallerCallee(tree, symbols, diffMode) ==
    LET leaves == Leaves(tree)
        add(path, table) ==
            [inclusive |-> AddTo(table.inclusive, ToSet(path), Own(tree, path)),
             self |-> AddTo(table.self, {path[1]}, Own(tree, path)),
             edges |-> AddTo(table.edges, Edges(path), Own(tree, path))]
        table == FoldSet(add, [inclusive |-> AddTo(Empty, symbols, 0),
                               self |-> AddTo(Empty, symbols, 0), edges |-> Empty], leaves)
        kept == {s \in DOMAIN table.inclusive :
                    diffMode => table.inclusive[s] # 0 \/ At(table.self, s) # 0}
    IN  [table EXCEPT !.inclusive = Restrict(@, kept),
                      !.self = Restrict(@, kept \cap DOMAIN table.self)]

-----------------------------------------------------------------------------
(* The flame graph: toGraphicsItems, parseData and applySearch             *)

\* Adds the children of a row below an item. The threshold is a percentage of
\* the total; the rows are taken in some order.
RECURSIVE ToGraphicsItems(_, _, _, _, _, _)
ToGraphicsItems(items, item, tree, row, threshold, collapse) ==
    LET add(acc, child) ==
            LET symbol == Last(child)
                below == Append(item, symbol)
                added == AddTo(acc, {below}, tree[child])
            IN  IF collapse /\ symbol # Unresolved /\ item # <<>> /\ symbol = Last(item)
                THEN ToGraphicsItems(acc, item, tree, child, threshold, collapse)
                ELSE IF added[below] * 100 > acc[<<>>] * threshold
                     THEN ToGraphicsItems(added, below, tree, child, threshold, collapse)
                     ELSE added
    IN  FoldLeft(add, items, SetToSeq(Children(tree, row)))

\* The root item has the total of the summary.
ParseData(total, tree, threshold, collapse) ==
    ToGraphicsItems(AddTo(Empty, {<<>>}, total), <<>>, tree, <<>>, threshold, collapse)

\* Mutation of SearchCost: matches below a match are counted again.
RECURSIVE SearchCostTwice(_, _, _)
SearchCostTwice(items, item, symbol) ==
    (IF item # <<>> /\ Last(item) = symbol THEN items[item] ELSE 0)
      + MapThenSumSet(LAMBDA child : SearchCostTwice(items, child, symbol),
                      Children(items, item))

\* directCost of applySearch, for a search value that matches one symbol.
RECURSIVE SearchCost(_, _, _)
SearchCost(items, item, symbol) ==
    IF item # <<>> /\ Last(item) = symbol
    THEN items[item]
    ELSE MapThenSumSet(LAMBDA child : SearchCost(items, child, symbol), Children(items, item))
=============================================================================
