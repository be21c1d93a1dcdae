----------------------------- MODULE RawStream -----------------------------
(***************************************************************************)
(* The lines of the two data files: the raw stream that the recorder       *)
(* writes and heaptrack_interpret reads, and the data file it writes for   *)
(* the analysis. A line is what it says, not how it is spelled. The pieces *)
(* of a module list are one line.                                          *)
(***************************************************************************)
EXTENDS Integers, SequencesExt

VARIABLE raw    \* the lines written to the file or the pipe

\* Of the raw stream.
ModulesLine(modules) == [mode |-> "m", modules |-> modules]
TraceLine(ip, parent) == [mode |-> "t", ip |-> ip, parent |-> parent]
AllocationLine(size, trace, ptr) == [mode |-> "+", size |-> size, trace |-> trace, ptr |-> ptr]
FreeLine(ptr) == [mode |-> "-", ptr |-> ptr]

\* Of the data file.
StringLine(name) == [mode |-> "s", name |-> name]
IpLine(ip, module, function, inlined) ==
    [mode |-> "i", ip |-> ip, module |-> module, function |-> function, inlined |-> inlined]
NodeLine(ip, parent) == [mode |-> "t", ip |-> ip, parent |-> parent]
InfoLine(size, trace) == [mode |-> "a", size |-> size, trace |-> trace]
EventLine(mode, info) == [mode |-> mode, info |-> info]

LinesOf(lines, mode) == SelectSeq(lines, LAMBDA l : l.mode = mode)

\* The position of an element in a sequence, 0 if it is not there.
Position(e, s) == SelectInSeq(s, LAMBDA x : x = e)
=============================================================================
