----------------------------- MODULE HeapTrack -----------------------------
(***************************************************************************)
(* The recorder that lives inside the traced process, libheaptrack.cpp:    *)
(* the global lock taken by spinning on try_lock, the per-thread           *)
(* RecursionGuard, the LockedData object behind s_data with its timer      *)
(* thread, heaptrack_init / heaptrack_stop, the atexit handler, pausing,   *)
(* module-list invalidation and the pthread_atfork handlers.               *)
(*                                                                         *)
(* s_data is only read or written while the lock is held (child_fork is    *)
(* the exception), so the body of an operation is one step between the     *)
(* step that takes the lock and the step that releases it, unless a        *)
(* variable read outside the lock (s_atexit, s_forceCleanup,               *)
(* stopTimerThread) is read or written in the middle of it.                *)
(*                                                                         *)
(* The build modelled has assertions compiled out (NDEBUG).               *)
(***************************************************************************)
EXTENDS Integers

CONSTANTS
    Threads,    \* the application's threads
    Controllers,\* the threads that call heaptrack_init and heaptrack_stop
    MaxData,    \* bound: how many LockedData objects one process creates
    AllowFork   \* whether the application calls fork()

ASSUME HeapTrackAssumption ==
    /\ Controllers \subseteq Threads
    /\ MaxData \in Nat
    /\ AllowFork \in BOOLEAN
    /\ "none" \notin Threads
    /\ \A t \in Threads : t \notin Int   \* timer threads are known by a number

Gens == 1 .. MaxData    \* LockedData objects, numbered in creation order
Null == 0               \* the null value of s_data

\* Who holds the lock: an application thread, the timer thread of a LockedData
\* object, nobody, or (in a forked child) a thread that was not copied by fork.
Free   == 0
Orphan == -1

RecordOps == {"malloc", "free", "realloc"}
Ops       == RecordOps \cup {"invalidate", "init", "stop", "none"}

VARIABLES
    lock,               \* HeapTrack::lock()
    s_data,             \* HeapTrack::s_data
    s_forceCleanup,
    s_atexit,
    s_paused,
    s_moduleCacheDirty,
    once,               \* the std::once_flag of initialize()
    gen,                \* LockedData objects created so far
    alive,              \* LockedData objects not yet deleted
    canWrite,           \* LockedData objects whose LineWriter has an open fd
    stopTimerThread,    \* LockedData objects whose stopTimerThread is set
    timer,              \* program counter of each object's timer thread
    headed,             \* streams whose header lines were written
    writers,            \* processes that wrote records to each stream
    listed,             \* streams whose module list matches the loaded modules
    hooks,              \* initBeforeCallback calls minus stopCallback calls
    pc, op,             \* program counter and current operation of each thread
    guard, wasLocked,   \* RecursionGuard::s_isActive, RecursionGuard::wasLocked
    exiter,             \* the thread that called exit(), or "none"
    process             \* "parent", "child" (after a fork) or "gone"

flags   == <<s_forceCleanup, s_atexit, s_paused>>
session == <<s_data, once, gen, alive, canWrite, stopTimerThread, headed, hooks>>
stream  == <<writers, listed, s_moduleCacheDirty>>
thread  == <<pc, op, guard, wasLocked>>
proc    == <<exiter, process>>
vars    == <<lock, flags, session, stream, timer, thread, proc>>

\* The program counters at which a thread holds the lock.
Holding == {"locked", "header", "shutdown", "closed", "join", "joined"}
PCs     == Holding \cup {"idle", "spin", "loaded", "atexit", "exit", "unborn"}
Timers  == {"none", "loop", "spin", "locked", "done"}

Init ==
    /\ lock = Free /\ s_data = Null
    /\ s_forceCleanup = FALSE /\ s_atexit = FALSE /\ s_paused = FALSE
    /\ s_moduleCacheDirty = TRUE
    /\ once = FALSE /\ gen = 0 /\ hooks = 0
    /\ alive = {} /\ canWrite = {} /\ stopTimerThread = {}
    /\ headed = {} /\ listed = {}
    /\ timer = [g \in Gens |-> "none"]
    /\ writers = [g \in Gens |-> {}]
    /\ pc = [t \in Threads |-> "idle"]
    /\ op = [t \in Threads |-> "none"]
    /\ guard = [t \in Threads |-> FALSE]
    /\ wasLocked = [t \in Threads |-> FALSE]
    /\ exiter = "none" /\ process = "parent"

-----------------------------------------------------------------------------
(* RecursionGuard and HeapTrack::op                                        *)

\* The constructor of RecursionGuard, on the way into HeapTrack::op.
Enter(t, o) ==
    /\ op' = [op EXCEPT ![t] = o]
    /\ pc' = [pc EXCEPT ![t] = "spin"]
    /\ wasLocked' = [wasLocked EXCEPT ![t] = guard[t]]
    /\ guard' = [guard EXCEPT ![t] = TRUE]

\* The destructor of RecursionGuard; control goes back to the application, or
\* to exit() for the heaptrack_stop() of the atexit handler.
Leave(t) ==
    /\ pc' = [pc EXCEPT ![t] = IF exiter = t THEN "exit" ELSE "idle"]
    /\ guard' = [guard EXCEPT ![t] = wasLocked[t]]
    /\ wasLocked' = [wasLocked EXCEPT ![t] = FALSE]
    /\ op' = [op EXCEPT ![t] = "none"]

Goto(t, l) ==
    /\ pc' = [pc EXCEPT ![t] = l]
    /\ UNCHANGED <<op, guard, wasLocked>>

\* ~HeapTrack() and the return of HeapTrack::op.
Unlock(t) == lock' = Free /\ Leave(t)

TryLock(t) ==
    /\ pc[t] = "spin"
    /\ lock = Free
    /\ lock' = t
    /\ Goto(t, "locked")
    /\ UNCHANGED <<flags, session, stream, timer, proc>>

\* Mutation of GiveUp: no stop check, the thread keeps spinning.
GiveUpNever(t) == pc[t] = "spin" /\ lock # Free /\ UNCHANGED vars

\* The stop check of HeapTrack::op: s_forceCleanup. The operation is skipped.
GiveUp(t) ==
    /\ pc[t] = "spin"
    /\ lock # Free
    /\ s_forceCleanup
    /\ Leave(t)
    /\ UNCHANGED <<lock, flags, session, stream, timer, proc>>

-----------------------------------------------------------------------------
(* heaptrack_malloc, heaptrack_free, heaptrack_realloc(_locked)            *)

\* Mutation of Record: RecursionGuard is not looked at.
RecordUnguarded(t, o) ==
    /\ ~ s_paused
    /\ pc[t] \in Holding \cup {"idle", "spin"}
    /\ Enter(t, o)
    /\ UNCHANGED <<lock, flags, session, stream, timer, proc>>

\* The allocator hooks are reached from the application, and also from inside
\* an operation: there it is RecursionGuard that has to turn them away.
Record(t, o) ==
    /\ ~ s_paused
    /\ ~ guard[t]
    /\ pc[t] \in Holding \cup {"idle", "spin"}
    /\ Enter(t, o)
    /\ UNCHANGED <<lock, flags, session, stream, timer, proc>>

WritesTo(g) == writers' = [writers EXCEPT ![g] = @ \cup {process}]

\* Mutation of UpdateModuleCache: a failed write leaves the flag cleared.
UpdateModuleCacheOnce ==
    /\ s_moduleCacheDirty' = FALSE
    /\ listed' \in {listed, IF s_moduleCacheDirty THEN listed \cup {s_data} ELSE listed}

\* updateModuleCache(): the module list is written when the flag is set, and
\* the flag is set again when that fails.
UpdateModuleCache ==
    IF s_moduleCacheDirty
    THEN \/ s_moduleCacheDirty' = FALSE /\ listed' = listed \cup {s_data}
         \/ UNCHANGED <<s_moduleCacheDirty, listed>>
    ELSE UNCHANGED <<s_moduleCacheDirty, listed>>

\* handleMalloc, handleFree, or both for a realloc.
HandleRecord(t) ==
    /\ pc[t] = "locked"
    /\ op[t] \in RecordOps
    /\ IF s_data # Null /\ s_data \in canWrite
       THEN /\ WritesTo(s_data)
            /\ IF op[t] = "free"
               THEN UNCHANGED <<s_moduleCacheDirty, listed>>
               ELSE UpdateModuleCache
       ELSE UNCHANGED stream
    /\ Unlock(t)
    /\ UNCHANGED <<flags, session, timer, proc>>

Pause(t) ==
    /\ pc[t] = "idle"
    /\ s_paused' = TRUE
    /\ UNCHANGED <<lock, s_forceCleanup, s_atexit, session, stream, timer, thread, proc>>

Resume(t) ==
    /\ pc[t] = "idle"
    /\ s_paused' = FALSE
    /\ UNCHANGED <<lock, s_forceCleanup, s_atexit, session, stream, timer, thread, proc>>

-----------------------------------------------------------------------------
(* dlopen / dlclose: the library changes the loaded modules first and then *)
(* calls heaptrack_invalidate_module_cache.                                *)

ChangeModules(t) ==
    /\ pc[t] = "idle"
    /\ listed' = {}
    /\ Goto(t, "loaded")
    /\ UNCHANGED <<lock, flags, session, writers, s_moduleCacheDirty, timer, proc>>

Invalidate(t) ==
    /\ pc[t] = "loaded"
    /\ Enter(t, "invalidate")
    /\ UNCHANGED <<lock, flags, session, stream, timer, proc>>

InvalidateModuleCache(t) ==
    /\ pc[t] = "locked"
    /\ op[t] = "invalidate"
    /\ s_moduleCacheDirty' = (s_data # Null \/ s_moduleCacheDirty)
    /\ Unlock(t)
    /\ UNCHANGED <<flags, session, writers, listed, timer, proc>>

-----------------------------------------------------------------------------
(* heaptrack_init and HeapTrack::initialize                                *)

InitEnter(t) ==
    /\ t \in Controllers
    /\ pc[t] = "idle"
    /\ s_forceCleanup' = FALSE
    /\ Enter(t, "init")
    /\ UNCHANGED <<lock, s_atexit, s_paused, session, stream, timer, proc>>

\* Another call initialised heaptrack already.
InitAlready(t) ==
    /\ pc[t] = "locked"
    /\ op[t] = "init"
    /\ s_data # Null
    /\ Unlock(t)
    /\ UNCHANGED <<flags, session, stream, timer, proc>>

\* createFile() fails: initBeforeCallback is undone by stopCallback.
InitFails(t) ==
    /\ pc[t] = "locked"
    /\ op[t] = "init"
    /\ s_data = Null
    /\ once' = TRUE
    /\ Unlock(t)
    /\ UNCHANGED <<flags, s_data, gen, alive, canWrite, stopTimerThread, headed,
                   hooks, stream, timer, proc>>

\* initBeforeCallback, the once-only part, createFile and new LockedData, whose
\* constructor starts the timer thread (unless the signals cannot be blocked).
InitOpens(t) ==
    LET g == gen + 1 IN
    /\ pc[t] = "locked"
    /\ op[t] = "init"
    /\ s_data = Null
    /\ gen < MaxData
    /\ once' = TRUE
    /\ hooks' = hooks + 1
    /\ gen' = g
    /\ s_data' = g
    /\ alive' = alive \cup {g}
    /\ canWrite' = canWrite \cup {g}
    /\ s_moduleCacheDirty' = TRUE
    /\ \E l \in {"loop", "none"} : timer' = [timer EXCEPT ![g] = l]
    /\ Goto(t, "header")
    /\ UNCHANGED <<lock, flags, stopTimerThread, headed, writers, listed, proc>>

\* writeVersion ... writeSuppressions and initAfterCallback.
InitHeader(t) ==
    /\ pc[t] = "header"
    /\ headed' = headed \cup {s_data}
    /\ WritesTo(s_data)
    /\ Unlock(t)
    /\ UNCHANGED <<flags, s_data, once, gen, alive, canWrite, stopTimerThread,
                   hooks, listed, s_moduleCacheDirty, timer, proc>>

-----------------------------------------------------------------------------
(* heaptrack_stop, HeapTrack::shutdown and ~LockedData                     *)

StopEnter(t) ==
    /\ t \in Controllers
    /\ pc[t] = "idle"
    /\ Enter(t, "stop")
    /\ UNCHANGED <<lock, flags, session, stream, timer, proc>>

StopMark(t) ==
    /\ pc[t] = "locked"
    /\ op[t] = "stop"
    /\ s_forceCleanup' = (~ s_atexit \/ s_forceCleanup)
    /\ Goto(t, "shutdown")
    /\ UNCHANGED <<lock, s_atexit, s_paused, session, stream, timer, proc>>

ShutdownNothing(t) ==
    /\ pc[t] = "shutdown"
    /\ s_data = Null
    /\ Unlock(t)
    /\ UNCHANGED <<flags, session, stream, timer, proc>>

\* writeTimestamp, writeRSS, flush and close.
ShutdownClose(t) ==
    /\ pc[t] = "shutdown"
    /\ s_data # Null
    /\ IF s_data \in canWrite THEN WritesTo(s_data) ELSE UNCHANGED writers
    /\ canWrite' = canWrite \ {s_data}
    /\ Goto(t, "closed")
    /\ UNCHANGED <<lock, flags, s_data, once, gen, alive, stopTimerThread, headed,
                   hooks, listed, s_moduleCacheDirty, timer, proc>>

\* Mutation of ShutdownLeak: s_forceCleanup is not considered.
ShutdownLeakAtExit(t) ==
    /\ pc[t] = "closed"
    /\ s_atexit
    /\ Unlock(t)
    /\ UNCHANGED <<flags, session, stream, timer, proc>>

\* The data is leaked on exit ...
ShutdownLeak(t) ==
    /\ pc[t] = "closed"
    /\ s_atexit /\ ~ s_forceCleanup
    /\ Unlock(t)
    /\ UNCHANGED <<flags, session, stream, timer, proc>>

\* ... and deleted otherwise: the destructor sets stopTimerThread,
ShutdownDelete(t) ==
    /\ pc[t] = "closed"
    /\ ~ s_atexit \/ s_forceCleanup
    /\ stopTimerThread' = stopTimerThread \cup {s_data}
    /\ Goto(t, "join")
    /\ UNCHANGED <<lock, flags, s_data, once, gen, alive, canWrite, headed, hooks,
                   stream, timer, proc>>

\* Mutation of JoinTimer: the timer thread is detached instead of joined.
DetachTimer(t) ==
    /\ pc[t] = "join"
    /\ Goto(t, "joined")
    /\ UNCHANGED <<lock, flags, session, stream, timer, proc>>

\* joins the timer thread if there is one (while holding the lock), closes the
\* output,
JoinTimer(t) ==
    /\ pc[t] = "join"
    /\ timer[s_data] \in {"done", "none"}
    /\ timer' = [timer EXCEPT ![s_data] = "none"]
    /\ canWrite' = canWrite \ {s_data}
    /\ Goto(t, "joined")
    /\ UNCHANGED <<lock, flags, s_data, once, gen, alive, stopTimerThread, headed,
                   hooks, stream, proc>>

\* Mutation of FreeData: stopCallback is skipped whenever s_atexit is set.
FreeDataAtExit(t) ==
    /\ pc[t] = "joined"
    /\ hooks' = IF s_atexit THEN hooks ELSE hooks - 1
    /\ alive' = alive \ {s_data}
    /\ s_data' = Null
    /\ Unlock(t)
    /\ UNCHANGED <<flags, once, gen, canWrite, stopTimerThread, headed, stream,
                   timer, proc>>

\* and calls stopCallback under a condition it evaluates afresh.
FreeData(t) ==
    /\ pc[t] = "joined"
    /\ hooks' = IF ~ s_atexit \/ s_forceCleanup THEN hooks - 1 ELSE hooks
    /\ alive' = alive \ {s_data}
    /\ s_data' = Null
    /\ Unlock(t)
    /\ UNCHANGED <<flags, once, gen, canWrite, stopTimerThread, headed, stream,
                   timer, proc>>

-----------------------------------------------------------------------------
(* The timer thread of LockedData object g                                 *)

TimerLoop(g) ==
    /\ timer[g] = "loop"
    /\ timer' = [timer EXCEPT ![g] = IF g \in stopTimerThread THEN "done" ELSE "spin"]
    /\ UNCHANGED <<lock, flags, session, stream, thread, proc>>

\* Mutation of TimerTryLock: the timer thread writes without the lock.
TimerNoLock(g) ==
    /\ timer[g] = "spin"
    /\ lock' = g
    /\ timer' = [timer EXCEPT ![g] = "locked"]
    /\ UNCHANGED <<flags, session, stream, thread, proc>>

TimerTryLock(g) ==
    /\ timer[g] = "spin"
    /\ lock = Free
    /\ lock' = g
    /\ timer' = [timer EXCEPT ![g] = "locked"]
    /\ UNCHANGED <<flags, session, stream, thread, proc>>

\* Mutation of TimerGiveUp: the timer thread waits for the lock regardless.
TimerWaits(g) == timer[g] = "spin" /\ lock # Free /\ UNCHANGED vars

TimerGiveUp(g) ==
    /\ timer[g] = "spin"
    /\ lock # Free
    /\ g \in stopTimerThread
    /\ timer' = [timer EXCEPT ![g] = "done"]
    /\ UNCHANGED <<lock, flags, session, stream, thread, proc>>

\* writeTimestamp and writeRSS, into the stream of s_data.
TimerWrite(g) ==
    /\ timer[g] = "locked"
    /\ IF s_data # Null /\ s_data \in canWrite
       THEN WritesTo(s_data)
       ELSE UNCHANGED writers
    /\ lock' = Free
    /\ timer' = [timer EXCEPT ![g] = "loop"]
    /\ UNCHANGED <<flags, session, listed, s_moduleCacheDirty, thread, proc>>

-----------------------------------------------------------------------------
(* exit() and the atexit handler                                           *)

\* exit() runs the handler, if initialize() registered it; the handler returns
\* at once after a heaptrack_stop().
Exit(t) ==
    /\ pc[t] = "idle"
    /\ exiter = "none"
    /\ exiter' = t
    /\ Goto(t, IF once /\ ~ s_forceCleanup THEN "atexit" ELSE "exit")
    /\ UNCHANGED <<lock, flags, session, stream, timer, process>>

AtExit(t) ==
    /\ pc[t] = "atexit"
    /\ s_atexit' = TRUE
    /\ Enter(t, "stop")
    /\ UNCHANGED <<lock, s_forceCleanup, s_paused, session, stream, timer, proc>>

ProcessExit(t) ==
    /\ pc[t] = "exit"
    /\ process' = "gone"
    /\ UNCHANGED <<lock, flags, session, stream, timer, thread, exiter>>

-----------------------------------------------------------------------------
(* fork(): the model follows the parent (ForkParent) or the child          *)
(* (ForkChild). The child has only the thread that forked; the lock is     *)
(* copied in the state it was in.                                          *)

ForkParent(t) ==
    /\ AllowFork
    /\ pc[t] = "idle"
    /\ guard' = [guard EXCEPT ![t] = FALSE]
    /\ UNCHANGED <<lock, flags, session, stream, timer, pc, op, wasLocked, proc>>

\* Mutation of ForkChild: child_fork keeps s_data.
ForkChildShared(t) ==
    /\ AllowFork
    /\ process = "parent"
    /\ pc[t] = "idle"
    /\ process' = "child"
    /\ exiter' = "none"
    /\ lock' = IF lock = Free THEN Free ELSE Orphan
    /\ timer' = [g \in Gens |-> "none"]
    /\ pc' = [u \in Threads |-> IF u = t THEN "idle" ELSE "unborn"]
    /\ guard' = [u \in Threads |-> u = t]
    /\ UNCHANGED <<flags, session, stream, op, wasLocked>>

ForkChild(t) ==
    /\ AllowFork
    /\ process = "parent"
    /\ pc[t] = "idle"
    /\ process' = "child"
    /\ exiter' = "none"
    /\ s_data' = Null
    /\ lock' = IF lock = Free THEN Free ELSE Orphan
    /\ timer' = [g \in Gens |-> "none"]
    /\ pc' = [u \in Threads |-> IF u = t THEN "idle" ELSE "unborn"]
    /\ guard' = [u \in Threads |-> u = t]
    /\ UNCHANGED <<flags, once, gen, alive, canWrite, stopTimerThread, headed,
                   hooks, stream, op, wasLocked>>

\* A thread the child starts itself.
StartThread(t) ==
    /\ pc[t] = "unborn"
    /\ Goto(t, "idle")
    /\ UNCHANGED <<lock, flags, session, stream, timer, proc>>

-----------------------------------------------------------------------------
\* What a thread does once it is inside an operation: it does not stop there.
Operation(t) ==
    \/ TryLock(t) \/ GiveUp(t)
    \/ HandleRecord(t)
    \/ Invalidate(t) \/ InvalidateModuleCache(t)
    \/ InitAlready(t) \/ InitFails(t) \/ InitOpens(t) \/ InitHeader(t)
    \/ StopMark(t) \/ ShutdownNothing(t) \/ ShutdownClose(t) \/ ShutdownLeak(t)
    \/ ShutdownDelete(t) \/ JoinTimer(t) \/ FreeData(t)
    \/ AtExit(t) \/ ProcessExit(t)

\* What the application may call.
Call(t) ==
    \/ \E o \in RecordOps : Record(t, o)
    \/ Pause(t) \/ Resume(t) \/ ChangeModules(t)
    \/ InitEnter(t) \/ StopEnter(t) \/ Exit(t)
    \/ ForkParent(t) \/ ForkChild(t) \/ StartThread(t)

Timer(g) == TimerLoop(g) \/ TimerTryLock(g) \/ TimerGiveUp(g) \/ TimerWrite(g)

Gone == process = "gone" /\ UNCHANGED vars

Next ==
    \/ /\ process # "gone"
       /\ \/ \E t \in Threads : Operation(t) \/ Call(t)
          \/ \E g \in Gens : Timer(g)
    \/ Gone

Spec == Init /\ [][Next]_vars

\* The scheduler runs every thread that can take a step: a thread inside an
\* operation and the timer thread. Nothing is assumed of the application, and
\* nothing of who wins the race for the lock.
Fairness ==
    /\ \A t \in Threads : WF_vars(process # "gone" /\ Operation(t))
    /\ \A g \in Gens : WF_vars(process # "gone" /\ Timer(g))

FairSpec == Spec /\ Fairness
-----------------------------------------------------------------------------
TypeOK ==
    /\ lock \in Threads \cup Gens \cup {Free, Orphan}
    /\ s_data \in Gens \cup {Null}
    /\ s_forceCleanup \in BOOLEAN /\ s_atexit \in BOOLEAN /\ s_paused \in BOOLEAN
    /\ s_moduleCacheDirty \in BOOLEAN
    /\ once \in BOOLEAN
    /\ gen \in 0 .. MaxData
    /\ hooks \in Int
    /\ alive \subseteq Gens /\ canWrite \subseteq Gens
    /\ stopTimerThread \subseteq Gens
    /\ headed \subseteq Gens /\ listed \subseteq Gens
    /\ timer \in [Gens -> Timers]
    /\ writers \in [Gens -> SUBSET {"parent", "child"}]
    /\ pc \in [Threads -> PCs]
    /\ op \in [Threads -> Ops]
    /\ guard \in [Threads -> BOOLEAN]
    /\ wasLocked \in [Threads -> BOOLEAN]
    /\ exiter \in Threads \cup {"none"}
    /\ process \in {"parent", "child", "gone"}

\* A thread never waits for the lock it holds itself: RecursionGuard keeps the
\* allocations that heaptrack makes inside an operation out of HeapTrack::op.
NoSelfDeadlock == \A t \in Threads : pc[t] = "spin" => lock # t

\* The timer thread reads stopTimerThread of the LockedData object it was
\* started by without holding the lock: the object outlives the thread, and so
\* does s_data, through which it writes. What s_data points to is not freed.
NoUseAfterFree ==
    /\ s_data # Null => s_data \in alive
    /\ \A g \in Gens : timer[g] \in {"loop", "spin", "locked"} =>
                          g \in alive /\ s_data = g

\* The version line and the rest of the header come first in a stream, although
\* the timer thread is started before they are written.
RecordsFollowHeader == \A g \in Gens : writers[g] # {} => g \in headed

\* "prevent two processes writing to the same file": no stream is written by a
\* process and by its forked child, whatever either of them calls.
OneProcessPerFile == \A g \in Gens : ~ {"parent", "child"} \subseteq writers[g]

\* initBeforeCallback and stopCallback are balanced: outside the lock, the
\* allocator functions are hooked exactly while there is a session.
HooksBalanced == hooks = IF s_data = Null THEN 0 ELSE 1

\* The comment at s_forceCleanup: when it is set "we always fully unload and
\* cleanup behind ourselves", also when exit() is called in the meantime. It
\* takes a single controller: a heaptrack_init that clears the flag before a
\* concurrent heaptrack_stop sets it opens a session with the flag set, and
\* operations that find the lock taken are then skipped.
ForcedCleanupDone == s_forceCleanup => s_data = Null

\* Outside the lock a session is there completely or torn down completely,
\* whichever of heaptrack_stop and exit() ended it: its hooks go along with its
\* data, and a forced cleanup leaves neither.
SessionsTornDown ==
    process = "parent" /\ lock = Free => HooksBalanced /\ ForcedCleanupDone

\* Outside the lock, and unless a module change is just being reported, the
\* module list of the stream is up to date or will be rewritten before the next
\* allocation. A failed attempt to write it is not forgotten. Like
\* ForcedCleanupDone it takes a single controller.
ModuleListCurrent ==
    /\ process = "parent"
    /\ lock = Free
    /\ s_data \in canWrite
    /\ ~ s_moduleCacheDirty
    /\ \A t \in Threads : pc[t] # "loaded" /\ (pc[t] = "spin" => op[t] # "invalidate")
    => s_data \in listed

\* Whoever takes the lock gives it back: heaptrack_stop, which joins the timer
\* thread while it holds the lock the timer thread wants, included. (A forked
\* child may inherit a lock whose owner it does not have.)
LockReleased ==
    \A t \in Threads : lock = t ~> (lock # t \/ process # "parent")

\* Once heaptrack_stop has set s_forceCleanup, a thread that waits for the lock
\* gets away, unless a heaptrack_init resets the flag.
StopReleasesWaiters ==
    \A t \in Threads :
        (pc[t] = "spin" /\ s_forceCleanup)
            ~> (pc[t] # "spin" \/ ~ s_forceCleanup \/ process # "parent")
=============================================================================
