---------------------------- MODULE AllocStream ----------------------------
(***************************************************************************)
(* The allocator hooks together with the allocator they wrap and with the  *)
(* order in which the recorder writes their + and - lines.                 *)
(*                                                                         *)
(* The allocator may hand an address out again as soon as it was released, *)
(* to any thread, while the recorder serialises the lines by its lock. The *)
(* reader of the stream only knows addresses, so what a line means depends *)
(* on the order: a second + of an address replaces the first one, a - of   *)
(* an unknown address is ignored. This module follows the set of addresses *)
(* that are live for the reader of the stream.                             *)
(*                                                                         *)
(* reallocLocked tells the hooks of heaptrack_preload.cpp and              *)
(* heaptrack_interpose.cpp (heaptrack_realloc_locked runs the allocator's  *)
(* realloc under the recorder's lock) from those of heaptrack_inject.cpp   *)
(* (realloc first, heaptrack_realloc afterwards). zeroFrees is whether the *)
(* application calls realloc(p, 0) and the allocator then releases p and   *)
(* returns null, as glibc does. Both are settled before the program runs.  *)
(* Recording is never paused here.                                         *)
(***************************************************************************)
EXTENDS Integers

CONSTANTS
    Threads,        \* the application's threads
    Addrs,          \* the addresses the allocator deals in
    Nil,            \* the null pointer
    Setups          \* combinations of reallocLocked and zeroFrees

ASSUME AllocStreamAssumption ==
    /\ Nil \notin Addrs
    /\ Setups \subseteq BOOLEAN \X BOOLEAN

VARIABLES
    reallocLocked,  \* realloc is called under the recorder's lock
    zeroFrees,      \* realloc(p, 0) releases p and returns null
    allocated,  \* addresses the allocator has handed out
    held,       \* addresses the application may pass to free or realloc
    before,     \* allocated addresses that were handed out before tracking began
    live,       \* addresses that are live for the reader of the stream
    replaced,   \* addresses that got a + while they were live
    busy,       \* the recorder's lock is held across a call of the allocator
    pc,         \* where each thread is in its hook
    ptrIn,      \* the pointer a thread releases
    ptrOut      \* the pointer a thread got

heap   == <<allocated, held, before>>
stream == <<live, replaced>>
setup  == <<reallocLocked, zeroFrees>>
vars   == <<setup, heap, stream, busy, pc, ptrIn, ptrOut>>

Init ==
    /\ \E s \in Setups : reallocLocked = s[1] /\ zeroFrees = s[2]
    /\ allocated \in SUBSET Addrs /\ held = allocated /\ before = allocated
    /\ live = {} /\ replaced = {}
    /\ busy = FALSE
    /\ pc = [t \in Threads |-> "idle"]
    /\ ptrIn = [t \in Threads |-> Nil]
    /\ ptrOut = [t \in Threads |-> Nil]

-----------------------------------------------------------------------------
(* The allocator and the recorder                                          *)

\* The addresses the allocator can return. It can also fail.
Fresh == Addrs \ allocated

Step(t, l) == pc' = [pc EXCEPT ![t] = l]

\* handleFree(a) followed by handleMalloc(b); Nil stands for a line not written.
WriteLines(a, b) ==
    /\ live' = (live \ {a}) \cup ({b} \ {Nil})
    /\ replaced' = replaced \cup ({b} \cap (live \ {a}))

-----------------------------------------------------------------------------
(* malloc, calloc, posix_memalign, aligned_alloc, valloc, zone functions   *)

\* The allocator is called first,
Malloc(t) ==
    /\ pc[t] = "idle"
    /\ \E a \in Fresh \cup {Nil} :
        /\ allocated' = allocated \cup ({a} \ {Nil})
        /\ ptrOut' = [ptrOut EXCEPT ![t] = a]
    /\ Step(t, "malloc")
    /\ UNCHANGED <<held, before, stream, busy, ptrIn>>

\* then heaptrack_malloc; the application gets the pointer afterwards.
RecordMalloc(t) ==
    /\ pc[t] = "malloc"
    /\ ~ busy
    /\ WriteLines(Nil, ptrOut[t])
    /\ held' = held \cup ({ptrOut[t]} \ {Nil})
    /\ ptrOut' = [ptrOut EXCEPT ![t] = Nil]
    /\ Step(t, "idle")
    /\ UNCHANGED <<allocated, before, busy, ptrIn>>

-----------------------------------------------------------------------------
(* free, cfree, mi_free, GC_free_profiler_hook, zone and typed functions   *)

\* "call handler before handing over the real free implementation to ensure the
\* ptr is not reused in-between": heaptrack_free first,
RecordFree(t) ==
    /\ pc[t] = "idle"
    /\ ~ busy
    /\ \E a \in held :
        /\ WriteLines(a, Nil)
        /\ held' = held \ {a}
        /\ ptrIn' = [ptrIn EXCEPT ![t] = a]
    /\ Step(t, "free")
    /\ UNCHANGED <<allocated, before, busy, ptrOut>>

\* then the allocator.
Free(t) ==
    /\ pc[t] = "free"
    /\ allocated' = allocated \ {ptrIn[t]}
    /\ before' = before \ {ptrIn[t]}
    /\ ptrIn' = [ptrIn EXCEPT ![t] = Nil]
    /\ Step(t, "idle")
    /\ UNCHANGED <<held, stream, busy, ptrOut>>

\* A mutation of FreeHook: the allocator is called first.
FreeHookReversed(t) ==
    \/ /\ pc[t] = "idle"
       /\ \E a \in held :
           /\ allocated' = allocated \ {a}
           /\ held' = held \ {a}
           /\ before' = before \ {a}
           /\ ptrIn' = [ptrIn EXCEPT ![t] = a]
       /\ Step(t, "free")
       /\ UNCHANGED <<stream, busy, ptrOut>>
    \/ /\ pc[t] = "free"
       /\ ~ busy
       /\ WriteLines(ptrIn[t], Nil)
       /\ ptrIn' = [ptrIn EXCEPT ![t] = Nil]
       /\ Step(t, "idle")
       /\ UNCHANGED <<heap, busy, ptrOut>>

FreeHook(t) == RecordFree(t) \/ Free(t)

-----------------------------------------------------------------------------
(* realloc, mi_realloc, GC_realloc, malloc_zone_realloc                    *)

\* What the allocator can return for realloc(a): the same address or another.
\* A realloc that fails changes nothing and is not recorded.
ReallocResults(a) == Fresh \cup ({a} \ {Nil})

\* The allocator releases a and returns b.
CallRealloc(t) ==
    /\ \E a \in held \cup {Nil} : \E b \in ReallocResults(a) :
        /\ allocated' = (allocated \ {a}) \cup {b}
        /\ held' = held \ {a}
        /\ before' = before \ {a}
        /\ ptrIn' = [ptrIn EXCEPT ![t] = a]
        /\ ptrOut' = [ptrOut EXCEPT ![t] = b]
    /\ Step(t, "realloc")
    /\ UNCHANGED stream

\* A mutation of Realloc: heaptrack_realloc_locked calls back before it locks.
ReallocUnlocked(t) ==
    /\ pc[t] = "idle"
    /\ CallRealloc(t)
    /\ UNCHANGED busy

\* heaptrack_realloc_locked takes the lock and calls the allocator.
ReallocUnderLock(t) ==
    /\ reallocLocked
    /\ ~ busy
    /\ busy' = TRUE
    /\ CallRealloc(t)

\* The realloc hook of heaptrack_inject.cpp calls the allocator first.
ReallocBeforeLock(t) ==
    /\ ~ reallocLocked
    /\ CallRealloc(t)
    /\ UNCHANGED busy

Realloc(t) == pc[t] = "idle" /\ (ReallocUnderLock(t) \/ ReallocBeforeLock(t))

\* A mutation of RecordRealloc: the - line is left out.
RecordReallocNoFree(t) ==
    /\ pc[t] = "realloc"
    /\ reallocLocked \/ ~ busy
    /\ busy' = FALSE
    /\ WriteLines(Nil, ptrOut[t])
    /\ held' = held \cup ({ptrOut[t]} \ {Nil})
    /\ ptrIn' = [ptrIn EXCEPT ![t] = Nil]
    /\ ptrOut' = [ptrOut EXCEPT ![t] = Nil]
    /\ Step(t, "idle")
    /\ UNCHANGED <<allocated, before>>

\* handleFree and handleMalloc in one operation, which releases the lock.
RecordRealloc(t) ==
    /\ pc[t] = "realloc"
    /\ reallocLocked \/ ~ busy
    /\ busy' = FALSE
    /\ WriteLines(ptrIn[t], ptrOut[t])
    /\ held' = held \cup ({ptrOut[t]} \ {Nil})
    /\ ptrIn' = [ptrIn EXCEPT ![t] = Nil]
    /\ ptrOut' = [ptrOut EXCEPT ![t] = Nil]
    /\ Step(t, "idle")
    /\ UNCHANGED <<allocated, before>>

\* realloc(a, 0): the result is null and nothing is recorded.
ReallocZero(t) ==
    /\ zeroFrees
    /\ pc[t] = "idle"
    /\ reallocLocked => ~ busy
    /\ \E a \in held :
        /\ allocated' = allocated \ {a}
        /\ held' = held \ {a}
        /\ before' = before \ {a}
    /\ UNCHANGED <<stream, busy, pc, ptrIn, ptrOut>>

-----------------------------------------------------------------------------
Hook(t) ==
    \/ Malloc(t) \/ RecordMalloc(t)
    \/ FreeHook(t)
    \/ Realloc(t) \/ RecordRealloc(t) \/ ReallocZero(t)

Next == (\E t \in Threads : Hook(t)) /\ UNCHANGED setup

Spec == Init /\ [][Next]_vars

-----------------------------------------------------------------------------
TypeOK ==
    /\ reallocLocked \in BOOLEAN /\ zeroFrees \in BOOLEAN
    /\ allocated \subseteq Addrs /\ held \subseteq Addrs /\ before \subseteq Addrs
    /\ live \subseteq Addrs /\ replaced \subseteq Addrs
    /\ busy \in BOOLEAN
    /\ pc \in [Threads -> {"idle", "malloc", "free", "realloc"}]
    /\ ptrIn \in [Threads -> Addrs \cup {Nil}]
    /\ ptrOut \in [Threads -> Addrs \cup {Nil}]

Quiet == \A t \in Threads : pc[t] = "idle"

\* The output "stays consistent" (heaptrack_preload.cpp): no address gets a +
\* line while it is live, so no allocation is lost in the reader's map.
OutputConsistent == replaced = {}

\* When no hook is in progress, the stream describes the heap: exactly the
\* memory handed out since tracking began and not released is live.
OutputFaithful == Quiet => live = allocated \ before

-----------------------------------------------------------------------------
(* What holds, and when.                                                   *)

\* With the locked realloc, and without realloc(p, 0), the output is consistent
NothingReplaced == reallocLocked /\ ~ zeroFrees => OutputConsistent

\* and describes the heap.
StreamMatchesHeap == reallocLocked /\ ~ zeroFrees => OutputFaithful

\* While no realloc is between the allocator and the recorder, what is live in
\* the stream is allocated: a leak report never names memory that was released.
LiveIsAllocated == reallocLocked /\ ~ zeroFrees /\ ~ busy => live \subseteq allocated

\* The stream of the hooks whose realloc runs under the lock can be relied on:
\* it loses no allocation, names no released memory and describes the heap.
StreamIsFaithful == NothingReplaced /\ StreamMatchesHeap /\ LiveIsAllocated

\* Whichever way realloc is hooked, the stream has no leak that is not one: all
\* it has live was handed out since tracking began and not released.
OnlyLeaksReported == ~ zeroFrees /\ Quiet => live \subseteq allocated \ before

\* Even with realloc(p, 0), no memory handed out since tracking began is missing
\* from the stream: every leak is reported.
LeaksReported == reallocLocked /\ Quiet => allocated \ before \subseteq live
=============================================================================
