---------------------------- MODULE Interpreter ----------------------------
(***************************************************************************)
(* heaptrack_interpret: one action for each kind of line of the raw        *)
(* stream. It numbers strings and instruction pointers as it writes them,  *)
(* resolves an instruction pointer when it first meets it, and turns       *)
(* addresses into allocation infos.                                        *)
(*                                                                         *)
(* Of a frame only the function is kept. Lines v, x and those that are     *)
(* passed on as they are have no part in this, and the output does not     *)
(* fail.                                                                   *)
(***************************************************************************)
EXTENDS RawStream, PointerMap, Symbolizer

VARIABLES
    pos,                \* lines of the raw stream that were read
    m_moduleFragments,
    m_internedData,     \* strings by id
    m_encounteredIps,   \* instruction pointers by id
    m_dieNameCache,     \* of the modules in use
    ptrToIndex,
    allocationInfos,    \* size and trace, by index + 1
    lastPtr,
    c_stats,
    out                 \* the data file

ids         == <<m_internedData, m_encounteredIps>>
allocations == <<ptrToIndex, allocationInfos, lastPtr, c_stats>>
reader      == <<pos, m_moduleFragments, m_dieNameCache, ids, allocations, out>>

ReaderInit ==
    /\ pos = 0 /\ m_dieNameCache = << >>
    /\ m_moduleFragments = <<>> /\ m_internedData = <<>> /\ m_encounteredIps = <<>>
    /\ ptrToIndex = <<>> /\ allocationInfos = <<>> /\ lastPtr = 0
    /\ c_stats = [allocations |-> 0, leaked |-> 0, temporary |-> 0]
    /\ out = <<>>

Line == raw[pos + 1]

GetLine(mode) == pos < Len(raw) /\ Line.mode = mode /\ pos' = pos + 1

-----------------------------------------------------------------------------
(* Strings, modules and instruction pointers                               *)

\* intern(): a new string gets the next id and an s line.
Intern(strings, name) ==
    IF name = Unknown \/ Position(name, strings) # 0 THEN strings ELSE Append(strings, name)

\* The strings after these names, one after the other.
Interned(strings, names) ==
    LET known[n \in 0 .. Len(names)] ==
            IF n = 0 THEN strings ELSE Intern(known[n - 1], names[n])
    IN  known[Len(names)]

StringId(strings, name) == IF name = Unknown THEN 0 ELSE Position(name, strings)

\* The s lines that take the strings so far to these.
StringLines(strings) ==
    [n \in 1 .. (Len(strings) - Len(m_internedData)) |-> StringLine(strings[Len(m_internedData) + n])]

\* The list of modules replaces the last one, and what was found out about them.
ReadModules ==
    LET names   == [m \in DOMAIN Line.modules |-> Line.modules[m].name]
        strings == Interned(m_internedData, names)
    IN
    /\ GetLine("m")
    /\ m_moduleFragments' = Line.modules /\ m_dieNameCache' = << >>
    /\ m_internedData' = strings
    /\ out' = out \o StringLines(strings)
    /\ UNCHANGED <<m_encounteredIps, allocations>>

NoModule == [name |-> Unknown, start |-> 0, stop |-> 0]

\* A mutation of Resolve: the end of the module is not looked at.
ResolveBefore(ip) ==
    LET below == {m \in Range(m_moduleFragments) : m.start <= ip}
    IN  IF below = {} THEN NoModule
        ELSE CHOOSE m \in below : \A n \in below : n.start <= m.start

\* resolve(): the first module, by address, that does not end before ip, if ip
\* is in it.
Resolve(ip) ==
    LET above == {m \in Range(m_moduleFragments) : m.stop >= ip}
        first == CHOOSE m \in above : \A n \in above : m.start <= n.start
    IN  IF above # {} /\ first.start <= ip THEN first ELSE NoModule

\* Without a module nothing is resolved.
Resolved(ip) ==
    LET module == Resolve(ip)
    IN  IF module = NoModule THEN [names |-> <<Unknown>>, cache |-> m_dieNameCache]
        ELSE ResolveAddress(module.name, ip - module.start, m_dieNameCache)

\* addIp(): an instruction pointer that was not met gets an i line, after the
\* strings it needs; inlined functions are listed if source files are known.
AddIp(ip) ==
    \E module \in {Resolve(ip)}, resolved \in {Resolved(ip)} :
    \E strings \in {Interned(m_internedData, resolved.names)} :
        LET functions == [i \in DOMAIN resolved.names |-> StringId(strings, resolved.names[i])]
            listed    == module # NoModule /\ Binaries[module.name].hasSources
        IN  /\ m_encounteredIps' = Append(m_encounteredIps, ip)
            /\ m_internedData' = strings
            /\ m_dieNameCache' = resolved.cache
            /\ out' = out \o StringLines(strings)
                        \o <<IpLine(ip, StringId(strings, module.name), Head(functions),
                                    IF listed THEN Tail(functions) ELSE <<>>)>>
                        \o <<NodeLine(Len(m_encounteredIps'), Line.parent)>>

\* Line t, whose instruction pointer is new
ReadTrace ==
    /\ GetLine("t")
    /\ Line.ip \notin {0} \cup Range(m_encounteredIps)
    /\ AddIp(Line.ip)
    /\ UNCHANGED <<m_moduleFragments, allocations>>

\* or known, or null, which has number 0.
ReadKnownTrace ==
    /\ GetLine("t")
    /\ Line.ip \in {0} \cup Range(m_encounteredIps)
    /\ out' = Append(out, NodeLine(Position(Line.ip, m_encounteredIps), Line.parent))
    /\ UNCHANGED <<m_moduleFragments, m_dieNameCache, ids, allocations>>

-----------------------------------------------------------------------------
(* Allocations                                                             *)

\* A mutation of InfoOf: the index, which is new each time, is compared as well.
InfoOfIndex(size, trace) == 0

\* AllocationInfoSet: the position of an info, 0 if there is none.
InfoOf(size, trace) == Position([size |-> size, trace |-> trace], allocationInfos)

\* Line +.
ReadAllocation ==
    LET size  == Line.size
        trace == Line.trace
        isNew == InfoOf(size, trace) = 0
        index == IF isNew THEN Len(allocationInfos) ELSE InfoOf(size, trace) - 1
    IN  /\ GetLine("+")
        /\ allocationInfos' = IF isNew THEN Append(allocationInfos, [size |-> size, trace |-> trace])
                              ELSE allocationInfos
        /\ ptrToIndex' = AddPointer(ptrToIndex, Line.ptr, index)
        /\ lastPtr' = Line.ptr
        /\ c_stats' = [c_stats EXCEPT !.allocations = @ + 1, !.leaked = @ + 1]
        /\ out' = out \o (IF isNew THEN <<InfoLine(size, trace)>> ELSE <<>>) \o <<EventLine("+", index)>>
        /\ UNCHANGED <<m_moduleFragments, m_dieNameCache, ids>>

\* A mutation of LastPtrAfterFree: the last address is kept.
LastPtrKept == lastPtr

LastPtrAfterFree == 0

\* Line -, of an address that is known
ReadFree ==
    LET temporary == IF lastPtr = Line.ptr THEN 1 ELSE 0 IN
    /\ GetLine("-")
    /\ HasPointer(ptrToIndex, Line.ptr)
    /\ lastPtr' = LastPtrAfterFree
    /\ ptrToIndex' = TakePointer(ptrToIndex, Line.ptr)
    /\ c_stats' = [c_stats EXCEPT !.leaked = @ - 1, !.temporary = @ + temporary]
    /\ out' = Append(out, EventLine("-", PointerAt(ptrToIndex, Line.ptr)))
    /\ UNCHANGED <<m_moduleFragments, m_dieNameCache, ids, allocationInfos>>

\* or is not.
SkipFree ==
    /\ GetLine("-")
    /\ ~ HasPointer(ptrToIndex, Line.ptr)
    /\ lastPtr' = LastPtrAfterFree
    /\ UNCHANGED <<m_moduleFragments, m_dieNameCache, ids, ptrToIndex, allocationInfos, c_stats, out>>

ReaderNext ==
    \/ ReadModules \/ ReadTrace \/ ReadKnownTrace
    \/ ReadAllocation \/ ReadFree \/ SkipFree
=============================================================================
