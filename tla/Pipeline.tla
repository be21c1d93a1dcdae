------------------------------ MODULE Pipeline ------------------------------
(***************************************************************************)
(* From a backtrace in the traced process to the backtrace in the          *)
(* analysis: TraceWriter and Interpreter, joined by the raw stream, and    *)
(* the tables that AccumulatedTraceData::read builds from the lines s, i,  *)
(* t and a of the data file. Everything is numbered twice, by who writes a *)
(* line and by who counts the lines it reads, and the numbers have to      *)
(* agree at any moment, since the recording can end with any line.         *)
(***************************************************************************)
EXTENDS TraceWriter, Interpreter

CONSTANT OpNew  \* names of operator new and operator new[]

\* A module of which nothing can be read has a binary without symbols.
ASSUME PipelineAssumption ==
    \A modules \in Layouts : \A module \in Range(modules) : module.name \in DOMAIN Binaries

vars == <<writer, reader>>

Init == WriterInit /\ ReaderInit

\* The two are processes of their own, joined by a pipe or a file.
Next ==
    \/ WriterNext /\ UNCHANGED reader
    \/ ReaderNext /\ UNCHANGED writer

Spec == Init /\ [][Next]_vars

-----------------------------------------------------------------------------
(* What the analysis makes of the data file                                *)

strings             == LinesOf(out, "s")
instructionPointers == LinesOf(out, "i")
infos               == LinesOf(out, "a")

NoNode == [ip |-> 0, parent |-> 0]

\* opNewIpIndices
IsOpNew(ip) ==
    /\ ip \in DOMAIN instructionPointers
    /\ instructionPointers[ip].function # 0
    /\ strings[instructionPointers[ip].function].name \in OpNew

\* findTrace()
FindTrace(nodes, index) == IF index \in DOMAIN nodes THEN nodes[index] ELSE NoNode

\* Line t. A node of operator new is replaced by the one it was called from,
\* for which that was already done.
ReadNode(nodes, line) ==
    Append(nodes, IF IsOpNew(line.ip) THEN FindTrace(nodes, line.parent)
                  ELSE [ip |-> line.ip, parent |-> line.parent])

traces == FoldLeft(ReadNode, <<>>, LinesOf(out, "t"))

\* The addresses that are found on the way from a trace to the root, leaf first.
\* A way that takes more steps than there are traces goes round in a circle. That
\* a print-out ends at main or a thread's entry is left out.
Rebuilt(nodes, index) ==
    LET ips == instructionPointers
        way[n \in 0 .. Len(nodes)] ==
            IF n = 0 THEN index ELSE FindTrace(nodes, way[n - 1]).parent
        steps == {n \in 0 .. Len(nodes) : FindTrace(nodes, way[n]).ip # 0}
    IN  [n \in 1 .. Cardinality(steps) |-> ips[FindTrace(nodes, way[n - 1]).ip].ip]

-----------------------------------------------------------------------------
\* The module whose code is at an address.
ModuleIn(modules, address) ==
    LET at == {m \in Range(modules) : m.start <= address /\ address < m.stop}
    IN  IF at = {} THEN NoModule ELSE CHOOSE m \in at : TRUE

\* The functions in each module, as it is loaded, that a debugger would name.
FunctionsOf ==
    [module \in UNION {Range(modules) : modules \in Layouts} |->
        [ip \in module.start .. (module.stop - 1) |-> NamesAt(module.name, ip - module.start)]]

\* The functions at the address before a return address, when it was recorded.
FunctionsAtIp(ip) ==
    LET module == ModuleIn(seen[ip + 1], ip)
    IN  IF module = NoModule THEN <<Unknown>> ELSE FunctionsOf[module][ip]

\* The frames of a backtrace that the analysis has reason to show: the addresses
\* of the calls, without operator new if it could be recognized.
Shown(backtrace) ==
    SelectSeq([n \in DOMAIN backtrace |-> backtrace[n] - 1],
        LAMBDA ip : Head(FunctionsAtIp(ip)) \notin OpNew)

\* "The evaluation process can then reverse-map the index to the parent ip to
\* rebuild the backtrace from the bottom-up" (tracetree.h): for every + line
\* of the data file the analysis finds the callers that were on the stack, from
\* the one that allocated up to as many as fit into a Trace.
BacktracesRebuilt ==
    LET allocated == LinesOf(out, "+")
        nodes == traces
    IN  \A n \in DOMAIN allocated :
            LET callers == Callers(recorded[n].ips)
                rebuilt == Rebuilt(nodes, infos[allocated[n].info + 1].trace)
            IN  \E k \in LeastFound(recorded[n], unwinder) .. Len(callers) :
                    rebuilt = Shown(First(callers, k))

\* Every i line names the module that was loaded where the call was made when
\* the backtrace was recorded, and the functions a debugger would name, inlined
\* ones too: the module list is written before the first trace that needs it, ids
\* match the s lines, and names do not depend on what was resolved before.
\* Not the names within scopes that were declared elsewhere.
FramesNamed ==
    LET ips   == instructionPointers
        known == strings
    IN  \A n \in DOMAIN ips :
        LET line    == ips[n]
            module  == ModuleIn(seen[line.ip + 1], line.ip)
            name(id) == IF id = 0 THEN Unknown ELSE known[id].name
            wanted  == FunctionsAtIp(line.ip)
            written == [i \in 1 .. (1 + Len(line.inlined)) |->
                            name((<<line.function>> \o line.inlined)[i])]
            dies    == FunctionsAt(module.name, line.ip - module.start)
        IN  /\ name(line.module) = module.name
            /\ module.name = Unknown => written = <<Unknown>>
            /\ module.name # Unknown =>
                /\ Len(written) = IF Binaries[module.name].hasSources THEN Len(wanted) ELSE 1
                /\ \A i \in DOMAIN written :
                    written[i] = wanted[i] \/ IsRespecified(module.name, dies[i])

\* Until the output fails, the analysis has the backtraces and the names the
\* recorder saw, although four counters of lines have to stay in step for it.
TracesRebuilt == failures = 0 => BacktracesRebuilt /\ FramesNamed

\* The + lines that are live for a reader of the raw stream: by address, the
\* last of the lines + and - that were read so far, if it is a +.
LastLine(p) ==
    SelectLastInSubSeq(raw, 1, pos, LAMBDA l : l.mode \in {"+", "-"} /\ l.ptr = p)

\* PointerMap is a map: it has exactly the addresses that are live, each with
\* the info of its allocation, however they share pages.
MapOfStream ==
    \A p \in Ptrs :
        LET last == LastLine(p)
            live == last # 0 /\ raw[last].mode = "+"
        IN  /\ HasPointer(ptrToIndex, p) <=> live
            /\ live => allocationInfos[PointerAt(ptrToIndex, p) + 1]
                        = [size |-> raw[last].size, trace |-> raw[last].trace]

\* What TraceData assumes of the data file, even if parts of the raw stream are
\* missing: no info twice, each followed by its first +, and no info released
\* more often than allocated.
FileForTraceData ==
    LET count(n, line) == Cardinality({k \in 1 .. n : out[k] = line})
        known(n) == Cardinality({k \in 1 .. n : out[k].mode = "a"})
    IN  \A n \in DOMAIN out :
            /\ out[n].mode = "a" =>
                /\ \A k \in 1 .. (n - 1) : out[k] # out[n]
                /\ n < Len(out) /\ out[n + 1] = EventLine("+", known(n) - 1)
            /\ out[n].mode \in {"+", "-"} => out[n].info < known(n)
            /\ out[n].mode = "-" =>
                count(n, EventLine("-", out[n].info)) <= count(n, EventLine("+", out[n].info))

\* The two vectors of a page stay in step and sorted, and empty pages go.
PagesInStep ==
    \A page \in Range(ptrToIndex) :
        /\ Len(page.smallPtrParts) = Len(page.allocationIndices)
        /\ page.smallPtrParts # <<>>
        /\ \A m, n \in DOMAIN page.smallPtrParts :
            m < n => page.smallPtrParts[m] < page.smallPtrParts[n]

\* The summary printed at the end counts as temporary what is released by the
\* line after the one that allocated it, and agrees with the data file.
StatsAgree ==
    /\ c_stats.temporary = Cardinality({n \in 1 .. pos :
            /\ raw[n].mode = "-"
            /\ \E m \in 1 .. (n - 1) : /\ raw[m].mode = "+" /\ raw[m].ptr = raw[n].ptr
                                       /\ \A k \in (m + 1) .. (n - 1) : raw[k].mode \notin {"+", "-"}})
    /\ c_stats.leaked = Cardinality({n \in DOMAIN out : out[n].mode = "+"})
                      - Cardinality({n \in DOMAIN out : out[n].mode = "-"})

\* The interpreter follows the raw stream, whatever lines are missing in it:
\* its map, the pages below it and the statistics it prints.
EventsFollowed == MapOfStream /\ PagesInStep /\ StatsAgree
=============================================================================
