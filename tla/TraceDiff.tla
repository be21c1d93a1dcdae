----------------------------- MODULE TraceDiff -----------------------------
(***************************************************************************)
(* Backtraces of a data file, and AccumulatedTraceData::diff, which        *)
(* subtracts a base file from the open one by searching sorted vectors.    *)
(*                                                                         *)
(* A backtrace is the sequence of its instruction pointers, innermost      *)
(* first; the trace index 0 is <<>>. An instruction pointer has an         *)
(* address, the frame <<symbol, line>> at that address and the frames it   *)
(* is inlined into. Symbols are numbers, in the order of their strings;    *)
(* the model names a string by its symbol in both files, as they are after *)
(* remapStrings. One number stands for the four costs of AllocationData,   *)
(* which are added, subtracted and compared with zero together.            *)
(***************************************************************************)
EXTENDS Integers, SequencesExt, TLC

Unresolved == 0     \* the function index 0
InvalidIp == [addr |-> 0, frame |-> <<Unresolved, 0>>, inlined |-> <<>>]

\* What findTrace and findIp return for a trace index.
IpOf(trace) == IF trace = <<>> THEN InvalidIp ELSE Head(trace)
ParentOf(trace) == IF trace = <<>> THEN <<>> ELSE Tail(trace)

SumCosts(allocations) == FoldLeft(LAMBDA sum, a : sum + a.cost, 0, allocations)

-----------------------------------------------------------------------------
(* The orders the vectors are sorted by                                    *)

FrameLess(f, g) == f[1] < g[1] \/ (f[1] = g[1] /\ f[2] < g[2])

\* compareWithoutAddress and equalWithoutAddress as one comparison: neither
\* looks at the address or at the inlined frames.
CompareIps(l, r) ==
    CASE l.frame = r.frame -> 0
      [] FrameLess(l.frame, r.frame) -> -1
      [] OTHER -> 1

\* Mutation of CompareTraces: the parents are not compared.
CompareLeaves(l, r) ==
    IF l = <<>> \/ r = <<>> THEN Len(l) - Len(r) ELSE CompareIps(Head(l), Head(r))

\* compareTraceIndices: a trace with fewer parents comes first, then the trace
\* whose outermost different frame does.
RECURSIVE CompareTraces(_, _)
CompareTraces(l, r) ==
    CASE l = <<>> /\ r = <<>> -> 0
      [] l # <<>> /\ r = <<>> -> 1
      [] l = <<>> /\ r # <<>> -> -1
      [] OTHER ->
            LET parents == CompareTraces(Tail(l), Tail(r))
            IN  IF parents # 0 THEN parents ELSE CompareIps(Head(l), Head(r))

\* std::lower_bound: where the first element is that does not come before.
LowerBound(vector, Before(_)) ==
    LET i == SelectInSeq(vector, LAMBDA e : ~ Before(e))
    IN  IF i = 0 THEN Len(vector) + 1 ELSE i

-----------------------------------------------------------------------------
(* diff()                                                                  *)

\* Steps 1 and 2: sorted, and equal traces merged into the first of them.
SortedAllocations(allocations) ==
    SortSeq(allocations, LAMBDA a, b : CompareTraces(a.trace, b.trace) < 0)

MergeEqual(sorted) ==
    LET merge(merged, a) ==
            IF merged # <<>> /\ CompareTraces(Last(merged).trace, a.trace) = 0
            THEN [merged EXCEPT ![Len(merged)].cost = @ + a.cost]
            ELSE Append(merged, a)
    IN  FoldLeft(merge, <<>>, sorted)

\* remapIpIndex: the first known instruction pointer with this frame, or a copy.
RemapIp(ips, ip) ==
    LET i == SelectInSeq(ips, LAMBDA known : known.frame = ip.frame)
    IN  IF i = 0 THEN ip ELSE ips[i]

\* copyTrace: the outermost instruction pointer is mapped first.
CopyTrace(trace, ips) ==
    LET copy(ip, copied) ==
            LET mapped == RemapIp(copied.ips, ip)
            IN  [trace |-> <<mapped>> \o copied.trace,
                 ips |-> Append(copied.ips, mapped)]
    IN  FoldRight(copy, trace, [trace |-> <<>>, ips |-> ips])

\* Step 4 for one allocation of the base.
Subtract(lhs, a) ==
    LET at == LowerBound(lhs.allocations, LAMBDA b : CompareTraces(b.trace, a.trace) < 0)
        copied == CopyTrace(a.trace, lhs.ips)
    IN  IF at <= Len(lhs.allocations)
           /\ CompareTraces(lhs.allocations[at].trace, a.trace) = 0
        THEN [lhs EXCEPT !.allocations[at].cost = @ - a.cost]
        ELSE [allocations |-> InsertAt(lhs.allocations, at,
                                       [trace |-> copied.trace, cost |-> - a.cost]),
              ips |-> copied.ips]

Diff(data, base) ==
    LET lhs == [allocations |-> MergeEqual(SortedAllocations(data)),
                ips |-> FlattenSeq([i \in DOMAIN data |-> data[i].trace])]
    IN  SelectSeq(FoldLeft(Subtract, lhs, base).allocations, LAMBDA a : a.cost # 0)
=============================================================================
