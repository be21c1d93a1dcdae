------------------------------- MODULE Unwind -------------------------------
(***************************************************************************)
(* Trace, track/trace.h: the backtrace that is taken when the program      *)
(* allocates, by one of the ways to unwind the stack that heaptrack can be *)
(* built with.                                                             *)
(*                                                                         *)
(* A stack has the return addresses, leaf first, of which some may be      *)
(* null, the addresses of the frame records that hold them, and the end of *)
(* the memory they should lie in, 0 if that is not known.                  *)
(***************************************************************************)
EXTENDS Integers, SequencesExt, Subsequences

CONSTANTS
    Stacks,     \* [ips, frames, top]
    Unwinders,  \* those of the builds considered
    MaxSize     \* Trace::MAX_SIZE

ASSUME UnwindAssumption ==
    /\ \A s \in Stacks : s.ips \in Seq(Nat) /\ s.frames \in Seq(Nat) /\ Len(s.ips) = Len(s.frames)
    /\ Unwinders \subseteq {"libunwind", "unwind tables", "macOS x86_64", "macOS arm64"}
    /\ MaxSize \in Nat \ {0}

\* Frames of heaptrack itself: heaptrack_malloc and the hook that called it.
Skip == 2

\* A frame record is two words, aligned to its size.
FrameSize == 2

First(s, n) == SubSeq(s, 1, IF n < Len(s) THEN n ELSE Len(s))

NotNull(ips) == Only(ips, {i \in DOMAIN ips : ips[i] # 0})

-----------------------------------------------------------------------------
(* Trace::unwind                                                           *)

IsValidFrame(stack, i) ==
    stack.frames[i] + FrameSize <= stack.top /\ stack.frames[i] % FrameSize = 0

\* Each record leads to one further up the stack.
IsWalked(stack, i) ==
    /\ IsValidFrame(stack, i) /\ stack.ips[i] # 0
    /\ i > 1 => stack.frames[i] > stack.frames[i - 1]

FramePointerWalk(stack) ==
    LET broken == SelectInSeq([i \in DOMAIN stack.ips |-> IsWalked(stack, i)], LAMBDA b : ~ b)
    IN  First(IF broken = 0 THEN stack.ips ELSE SubSeq(stack.ips, 1, broken - 1), MaxSize)

\* The callback for unwind tables leaves the last place unused.
UnwindStack(stack, unwinder) ==
    CASE unwinder = "libunwind"     -> First(stack.ips, MaxSize)
      [] unwinder = "unwind tables" -> First(NotNull(stack.ips), MaxSize - 1)
      [] unwinder = "macOS x86_64"  -> First(NotNull(stack.ips), MaxSize)
      [] unwinder = "macOS arm64"   -> FramePointerWalk(stack)

-----------------------------------------------------------------------------
(* Trace::fill                                                             *)

\* Bogus frames at the end are filtered.
WithoutNullsAtEnd(data) ==
    LET last == SelectLastInSeq(data, LAMBDA ip : ip # 0) IN SubSeq(data, 1, last)

\* A mutation of Fill: what is skipped is not taken off the size, so that frames
\* beyond the unwound ones are read.
FillPastEnd(stack, unwinder) ==
    LET data == WithoutNullsAtEnd(UnwindStack(stack, unwinder))
    IN  SubSeq(data \o data, Skip + 1, Len(data) + Skip)

\* The backtrace from begin() to end().
Fill(stack, unwinder) ==
    LET data == WithoutNullsAtEnd(UnwindStack(stack, unwinder))
    IN  SubSeq(data, Skip + 1, Len(data))

-----------------------------------------------------------------------------
\* The callers of heaptrack among some return addresses.
Callers(ips) == NotNull(SubSeq(ips, Skip + 1, Len(ips)))

\* How many callers a build finds at least: those in the places that all have; but
\* the walk on macOS arm64 may end anywhere if a frame is broken.
LeastFound(stack, unwinder) ==
    IF unwinder = "macOS arm64" /\ \E i \in DOMAIN stack.ips : ~ IsWalked(stack, i)
    THEN 0 ELSE Len(Callers(First(stack.ips, MaxSize - 1)))
=============================================================================
