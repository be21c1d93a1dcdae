---------------------------- MODULE TraceWriter ----------------------------
(***************************************************************************)
(* What the recorder writes while it holds its lock: handleMalloc with the *)
(* backtrace taken before, updateModuleCache and the TraceTree,            *)
(* handleFree, and the LineWriter underneath, whose buffer is flushed when *)
(* a line does not fit.                                                    *)
(*                                                                         *)
(* One step is what one write depends on: the module list, one frame of    *)
(* the backtrace, the + line. The output can fail (a full disk, for        *)
(* instance) and recover: write(2) fails, or it writes less than it was    *)
(* given, which flush does not look at. A buffer takes whole lines, and a  *)
(* short write is cut between two of them.                                 *)
(***************************************************************************)
EXTENDS RawStream, Unwind

CONSTANTS
    Sizes,          \* sizes of allocations
    Ptrs,           \* addresses of allocations
    Layouts,        \* lists of loaded modules, in the order dl_iterate_phdr has them
    BufferLines,    \* lines that fit into the LineWriter's buffer
    MaxFailures,    \* bound on the failures of the output
    MaxEvents       \* bound on the calls of the application

\* What the recorder tells of a loaded module.
Module == [name : Seq(STRING), start : Nat, stop : Nat]

ASSUME TraceWriterAssumption ==
    /\ Layouts \subseteq Seq(Module)
    /\ Sizes \subseteq Nat /\ Ptrs \subseteq Nat \ {0}
    /\ BufferLines \in Nat \ {0}
    /\ MaxFailures \in Nat /\ MaxEvents \in Nat

VARIABLES
    unwinder,           \* how this build unwinds the stack
    layout,             \* the modules that are loaded
    s_moduleCacheDirty,
    edges,              \* TraceTree: ip and parent of each edge, by its index
    pc,                 \* where handleMalloc is
    request,            \* the allocation it handles
    frames,             \* ips of the backtrace it still has to walk, root last
    parent,             \* index of the edge it has reached
    buffer,             \* lines in the LineWriter's buffer
    failures,           \* failures of the output so far
    events,             \* calls so far
    recorded,           \* history: the stacks of the + lines
    seen                \* history: the layout when an ip was first walked

tree    == <<edges, request, frames, parent>>
output  == <<buffer, raw, failures>>
history == <<recorded, seen>>
writer  == <<unwinder, layout, s_moduleCacheDirty, tree, pc, output, events, history>>

NoRequest == [stack |-> 0, size |-> 0, ptr |-> 0]

WriterInit ==
    /\ unwinder \in Unwinders
    /\ layout \in Layouts /\ s_moduleCacheDirty = TRUE
    /\ edges = <<>> /\ frames = <<>> /\ parent = 0
    /\ request = NoRequest
    /\ pc = "idle" /\ events = 0
    /\ buffer = <<>> /\ raw = <<>> /\ failures = 0
    /\ recorded = <<>> /\ seen = <<>>

-----------------------------------------------------------------------------
(* LineWriter                                                              *)

Fits == Len(buffer) < BufferLines

\* The buffer reaches the output: all of it, or less if the write is short.
Flushed ==
    \/ raw' = raw \o buffer /\ UNCHANGED failures
    \/ /\ failures < MaxFailures /\ failures' = failures + 1
       /\ \E n \in 0 .. (Len(buffer) - 1) : raw' = raw \o SubSeq(buffer, 1, n)

\* write() or writeHexLine() returns true.
Written(line) ==
    \/ Fits /\ buffer' = Append(buffer, line) /\ UNCHANGED <<raw, failures>>
    \/ ~ Fits /\ buffer' = <<line>> /\ Flushed

\* It returns false, because flush() failed. The buffer is kept.
Failed ==
    /\ ~ Fits
    /\ failures < MaxFailures /\ failures' = failures + 1
    /\ UNCHANGED <<buffer, raw>>

-----------------------------------------------------------------------------
(* handleMalloc                                                            *)

\* The loop over the trace skips null pointers.
Frames(backtrace) == NotNull(backtrace)

HandleMalloc ==
    /\ pc = "idle" /\ events < MaxEvents
    /\ events' = events + 1
    /\ \E stack \in Stacks, s \in Sizes, p \in Ptrs :
        /\ request' = [stack |-> stack, size |-> s, ptr |-> p]
        /\ frames' = Frames(Fill(stack, unwinder))
    /\ pc' = IF s_moduleCacheDirty THEN "modules" ELSE "index"
    /\ UNCHANGED <<unwinder, layout, s_moduleCacheDirty, edges, parent, output, history>>

\* updateModuleCache(): the flag is set again when the list cannot be written.
UpdateModuleCache ==
    /\ pc = "modules"
    /\ \/ Written(ModulesLine(layout)) /\ s_moduleCacheDirty' = FALSE
       \/ Failed /\ UNCHANGED s_moduleCacheDirty
    /\ pc' = "index"
    /\ UNCHANGED <<unwinder, layout, tree, events, history>>

\* A mutation of Edge: the parent is not looked at.
EdgeOfIp(ip, above) == SelectInSeq(edges, LAMBDA e : e.ip = ip)

\* The index of the child of an edge for an ip, 0 if there is none.
Edge(ip, above) == Position([ip |-> ip, parent |-> above], edges)

\* TraceTree::index: the edge is known,
Descend ==
    /\ pc = "index" /\ frames # <<>>
    /\ Edge(Last(frames), parent) # 0
    /\ parent' = Edge(Last(frames), parent)
    /\ frames' = Front(frames)
    /\ UNCHANGED <<unwinder, layout, s_moduleCacheDirty, edges, request, pc, output, events,
                   history>>

\* The callback of handleMalloc decrements the return address.
LineOfIp(ip, above) == TraceLine(ip - 1, above)

\* or it is inserted and the callback writes a t line; if that fails, index
\* returns 0 and the edge stays.
Insert ==
    LET ip == Last(frames) IN
    /\ pc = "index" /\ frames # <<>>
    /\ Edge(ip, parent) = 0
    /\ edges' = Append(edges, [ip |-> ip, parent |-> parent])
    /\ \/ Written(LineOfIp(ip, parent)) /\ parent' = Len(edges) + 1 /\ frames' = Front(frames)
       \/ Failed /\ parent' = 0 /\ frames' = <<>>
    /\ seen' = [i \in DOMAIN seen \cup {ip} |-> IF i \in DOMAIN seen THEN seen[i] ELSE layout]
    /\ UNCHANGED <<unwinder, layout, s_moduleCacheDirty, request, pc, events, recorded>>

\* The + line.
WriteAllocation ==
    /\ pc = "index" /\ frames = <<>>
    /\ \/ Written(AllocationLine(request.size, parent, request.ptr))
          /\ recorded' = Append(recorded, request.stack)
       \/ Failed /\ UNCHANGED recorded
    /\ pc' = "idle" /\ request' = NoRequest /\ parent' = 0
    /\ UNCHANGED <<unwinder, layout, s_moduleCacheDirty, edges, frames, events, seen>>

-----------------------------------------------------------------------------
\* handleFree.
HandleFree ==
    /\ pc = "idle" /\ events < MaxEvents
    /\ events' = events + 1
    /\ \E p \in Ptrs : Written(FreeLine(p)) \/ Failed
    /\ UNCHANGED <<unwinder, layout, s_moduleCacheDirty, tree, pc, history>>

\* A library is loaded or unloaded and the recorder is told.
ChangeModules ==
    /\ pc = "idle" /\ events < MaxEvents
    /\ events' = events + 1
    /\ layout' \in Layouts \ {layout}
    /\ s_moduleCacheDirty' = TRUE
    /\ UNCHANGED <<unwinder, tree, pc, output, history>>

\* The flush of shutdown().
Shutdown ==
    /\ pc = "idle"
    /\ pc' = "closed"
    /\ buffer' = <<>>
    /\ Flushed
    /\ UNCHANGED <<unwinder, layout, s_moduleCacheDirty, tree, events, history>>

WriterNext ==
    \/ HandleMalloc \/ UpdateModuleCache \/ Descend \/ Insert \/ WriteAllocation
    \/ HandleFree \/ ChangeModules \/ Shutdown
=============================================================================
