-------------------------- MODULE HeapTrackProofs --------------------------
(***************************************************************************)
(* Theorems about HeapTrack, for any set of threads, any number of         *)
(* LockedData objects, with and without fork. They follow from one         *)
(* inductive invariant, IInv: who holds the lock is determined by the      *)
(* program counters, a running timer thread belongs to s_data, and the     *)
(* stream behind s_data has its header unless the thread that holds the    *)
(* lock is just writing it. The last part is about a single controller:    *)
(* SessionInv adds how s_forceCleanup, s_atexit and the operations of the  *)
(* threads fit together, for the parent process.                           *)
(***************************************************************************)
EXTENDS HeapTrack, TLAPS

\* The lock is held by the thread whose program counter says so.
LockInv ==
    /\ \A t \in Threads : pc[t] \in Holding <=> lock = t
    /\ \A g \in Gens : timer[g] = "locked" <=> lock = g

\* RecursionGuard is active inside every operation.
GuardInv == \A t \in Threads : pc[t] \in Holding \cup {"spin"} => guard[t]

\* s_data is the object the timer thread belongs to, and it is not freed; the
\* steps of shutdown that use it have it.
DataInv ==
    /\ s_data # Null => s_data \in alive /\ s_data <= gen
    /\ \A g \in Gens : timer[g] # "none" => g = s_data
    /\ \A t \in Threads :
        /\ pc[t] \in {"header", "closed", "join", "joined"} => s_data # Null
        /\ pc[t] = "joined" => timer[s_data] = "none"

\* Nothing was written to streams that do not exist yet, and nothing before the
\* header; the header of s_data is missing only while it is being written.
HeaderInv ==
    /\ \A g \in Gens : writers[g] # {} => g \in headed
    /\ \A g \in headed : g <= gen
    /\ s_data # Null => s_data \in headed \/ \E t \in Threads : pc[t] = "header"

\* The parent writes only as the parent; the child writes only streams it
\* opened itself.
ProcessInv ==
    /\ process = "parent" => \A g \in Gens : "child" \notin writers[g]
    /\ process = "child" /\ s_data # Null => "parent" \notin writers[s_data]
    /\ \A g \in Gens : ~ ("parent" \in writers[g] /\ "child" \in writers[g])

IInv == TypeOK /\ LockInv /\ GuardInv /\ DataInv /\ HeaderInv /\ ProcessInv
USE HeapTrackAssumption

\* A write adds the current process to the writers of the stream of s_data.
LEMMA WritesToStream ==
    ASSUME TypeOK, process # "gone", s_data # Null, WritesTo(s_data)
    PROVE  /\ writers' \in [Gens -> SUBSET {"parent", "child"}]
           /\ \A g \in Gens : g # s_data => writers'[g] = writers[g]
           /\ writers'[s_data] = writers[s_data] \cup {process}
BY DEF TypeOK, WritesTo, Gens, Null

\* TypeOK is preserved; the shutdown steps add s_data to sets of LockedData
\* objects, so it takes DataInv.
LEMMA TypeOKStep == ASSUME TypeOK, DataInv, [Next]_vars PROVE TypeOK'
<1> USE DEF TypeOK, DataInv, Gens, Null, Free, Orphan, Holding, PCs, Timers, Ops, RecordOps,
            flags, session, stream, thread, proc
<1>1. ASSUME NEW t \in Threads, process # "gone", TryLock(t) PROVE TypeOK'
  BY <1>1 DEF TryLock, Goto
<1>2. ASSUME NEW t \in Threads, process # "gone", GiveUp(t) PROVE TypeOK'
  BY <1>2 DEF GiveUp, Leave
<1>3. ASSUME NEW t \in Threads, NEW o \in RecordOps, process # "gone", Record(t, o) PROVE TypeOK'
  BY <1>3 DEF Record, Enter
<1>4. ASSUME NEW t \in Threads, process # "gone", HandleRecord(t) PROVE TypeOK'
  <2>1. CASE s_data # Null /\ s_data \in canWrite
    <3>1. WritesTo(s_data)
      BY <1>4, <2>1 DEF HandleRecord
    <3>2. /\ writers' \in [Gens -> SUBSET {"parent", "child"}]
          /\ \A h \in Gens : h # s_data => writers'[h] = writers[h]
          /\ writers'[s_data] = writers[s_data] \cup {process}
      BY <1>4, <2>1, <3>1, WritesToStream
    <3>3. s_moduleCacheDirty' \in BOOLEAN /\ listed' \subseteq Gens
      BY <1>4, <2>1 DEF HandleRecord, UpdateModuleCache
    <3> QED
      BY <1>4, <2>1, <3>2, <3>3 DEF HandleRecord, Unlock, Leave
  <2>2. CASE ~ (s_data # Null /\ s_data \in canWrite)
    BY ZenonT(60), <1>4, <2>2 DEF HandleRecord, Unlock, Leave
  <2> QED
    BY <2>1, <2>2
<1>5. ASSUME NEW t \in Threads, process # "gone", Pause(t) PROVE TypeOK'
  BY <1>5 DEF Pause
<1>6. ASSUME NEW t \in Threads, process # "gone", Resume(t) PROVE TypeOK'
  BY ZenonT(60), <1>6 DEF Resume
<1>7. ASSUME NEW t \in Threads, process # "gone", ChangeModules(t) PROVE TypeOK'
  BY <1>7 DEF ChangeModules, Goto
<1>8. ASSUME NEW t \in Threads, process # "gone", Invalidate(t) PROVE TypeOK'
  BY <1>8 DEF Invalidate, Enter
<1>9. ASSUME NEW t \in Threads, process # "gone", InvalidateModuleCache(t) PROVE TypeOK'
  BY <1>9 DEF InvalidateModuleCache, Unlock, Leave
<1>10. ASSUME NEW t \in Threads, process # "gone", InitEnter(t) PROVE TypeOK'
  BY ZenonT(60), <1>10 DEF InitEnter, Enter
<1>11. ASSUME NEW t \in Threads, process # "gone", InitAlready(t) PROVE TypeOK'
  BY <1>11 DEF InitAlready, Unlock, Leave
<1>12. ASSUME NEW t \in Threads, process # "gone", InitFails(t) PROVE TypeOK'
  BY <1>12 DEF InitFails, Unlock, Leave
<1>13. ASSUME NEW t \in Threads, process # "gone", InitOpens(t) PROVE TypeOK'
  BY <1>13 DEF InitOpens, Goto
<1>14. ASSUME NEW t \in Threads, process # "gone", InitHeader(t) PROVE TypeOK'
  BY <1>14 DEF InitHeader, Unlock, Leave, WritesTo
<1>15. ASSUME NEW t \in Threads, process # "gone", StopEnter(t) PROVE TypeOK'
  BY <1>15 DEF StopEnter, Enter
<1>16. ASSUME NEW t \in Threads, process # "gone", StopMark(t) PROVE TypeOK'
  BY <1>16 DEF StopMark, Goto
<1>17. ASSUME NEW t \in Threads, process # "gone", ShutdownNothing(t) PROVE TypeOK'
  BY <1>17 DEF ShutdownNothing, Unlock, Leave
<1>18. ASSUME NEW t \in Threads, process # "gone", ShutdownClose(t) PROVE TypeOK'
  BY <1>18 DEF ShutdownClose, Goto, WritesTo
<1>19. ASSUME NEW t \in Threads, process # "gone", ShutdownLeak(t) PROVE TypeOK'
  BY <1>19 DEF ShutdownLeak, Unlock, Leave
<1>20. ASSUME NEW t \in Threads, process # "gone", ShutdownDelete(t) PROVE TypeOK'
  BY <1>20 DEF ShutdownDelete, Goto
<1>21. ASSUME NEW t \in Threads, process # "gone", JoinTimer(t) PROVE TypeOK'
  BY <1>21 DEF JoinTimer, Goto
<1>22. ASSUME NEW t \in Threads, process # "gone", FreeData(t) PROVE TypeOK'
  BY <1>22 DEF FreeData, Unlock, Leave
<1>23. ASSUME NEW t \in Threads, process # "gone", Exit(t) PROVE TypeOK'
  BY <1>23 DEF Exit, Goto
<1>24. ASSUME NEW t \in Threads, process # "gone", AtExit(t) PROVE TypeOK'
  BY <1>24 DEF AtExit, Enter
<1>25. ASSUME NEW t \in Threads, process # "gone", ProcessExit(t) PROVE TypeOK'
  BY <1>25 DEF ProcessExit
<1>26. ASSUME NEW t \in Threads, process # "gone", ForkParent(t) PROVE TypeOK'
  BY <1>26 DEF ForkParent
<1>27. ASSUME NEW t \in Threads, process # "gone", ForkChild(t) PROVE TypeOK'
  BY <1>27 DEF ForkChild
<1>28. ASSUME NEW t \in Threads, process # "gone", StartThread(t) PROVE TypeOK'
  BY <1>28 DEF StartThread, Goto
<1>29. ASSUME NEW g \in Gens, process # "gone", TimerLoop(g) PROVE TypeOK'
  BY <1>29 DEF TimerLoop
<1>30. ASSUME NEW g \in Gens, process # "gone", TimerTryLock(g) PROVE TypeOK'
  BY <1>30 DEF TimerTryLock
<1>31. ASSUME NEW g \in Gens, process # "gone", TimerGiveUp(g) PROVE TypeOK'
  BY <1>31 DEF TimerGiveUp
<1>32. ASSUME NEW g \in Gens, process # "gone", TimerWrite(g) PROVE TypeOK'
  <2>1. CASE s_data # Null /\ s_data \in canWrite
    <3>1. WritesTo(s_data)
      BY <1>32, <2>1 DEF TimerWrite
    <3>2. /\ writers' \in [Gens -> SUBSET {"parent", "child"}]
          /\ \A h \in Gens : h # s_data => writers'[h] = writers[h]
          /\ writers'[s_data] = writers[s_data] \cup {process}
      BY <1>32, <2>1, <3>1, WritesToStream
    <3> QED
      BY <1>32, <2>1, <3>2 DEF TimerWrite
  <2>2. CASE ~ (s_data # Null /\ s_data \in canWrite)
    BY <1>32, <2>2 DEF TimerWrite
  <2> QED
    BY <2>1, <2>2
<1>33. CASE UNCHANGED vars
  BY <1>33 DEF vars
<1> HIDE DEF TypeOK, DataInv
<1> QED
  BY <1>1, <1>2, <1>3, <1>4, <1>5, <1>6, <1>7, <1>8, <1>9, <1>10, <1>11,
     <1>12, <1>13, <1>14, <1>15, <1>16, <1>17, <1>18, <1>19, <1>20, <1>21, <1>22,
     <1>23, <1>24, <1>25, <1>26, <1>27, <1>28, <1>29, <1>30, <1>31, <1>32, <1>33
     DEF Next, Operation, Call, Timer, Gone

\* The lock agrees with the program counters after every step; it takes GuardInv
\* to see that no thread enters an operation from inside one.
LEMMA LockInvStep == ASSUME TypeOK, LockInv, GuardInv, [Next]_vars PROVE LockInv'
<1> USE DEF TypeOK, LockInv, GuardInv, Gens, Free, Orphan, Holding,
            flags, session, stream, thread, proc
<1>1. ASSUME NEW t \in Threads, process # "gone", TryLock(t) PROVE LockInv'
  BY <1>1 DEF TryLock, Goto
<1>2. ASSUME NEW t \in Threads, process # "gone", GiveUp(t) PROVE LockInv'
  BY <1>2 DEF GiveUp, Leave
<1>3. ASSUME NEW t \in Threads, NEW o \in RecordOps, process # "gone", Record(t, o) PROVE LockInv'
  BY <1>3 DEF Record, Enter
<1>4. ASSUME NEW t \in Threads, process # "gone", HandleRecord(t) PROVE LockInv'
  BY <1>4 DEF HandleRecord, Unlock, Leave, WritesTo, UpdateModuleCache
<1>5. ASSUME NEW t \in Threads, process # "gone", Pause(t) PROVE LockInv'
  BY <1>5 DEF Pause
<1>6. ASSUME NEW t \in Threads, process # "gone", Resume(t) PROVE LockInv'
  BY <1>6 DEF Resume
<1>7. ASSUME NEW t \in Threads, process # "gone", ChangeModules(t) PROVE LockInv'
  BY <1>7 DEF ChangeModules, Goto
<1>8. ASSUME NEW t \in Threads, process # "gone", Invalidate(t) PROVE LockInv'
  BY <1>8 DEF Invalidate, Enter
<1>9. ASSUME NEW t \in Threads, process # "gone", InvalidateModuleCache(t) PROVE LockInv'
  BY <1>9 DEF InvalidateModuleCache, Unlock, Leave
<1>10. ASSUME NEW t \in Threads, process # "gone", InitEnter(t) PROVE LockInv'
  BY <1>10 DEF InitEnter, Enter
<1>11. ASSUME NEW t \in Threads, process # "gone", InitAlready(t) PROVE LockInv'
  BY <1>11 DEF InitAlready, Unlock, Leave
<1>12. ASSUME NEW t \in Threads, process # "gone", InitFails(t) PROVE LockInv'
  BY <1>12 DEF InitFails, Unlock, Leave
<1>13. ASSUME NEW t \in Threads, process # "gone", InitOpens(t) PROVE LockInv'
  BY <1>13 DEF InitOpens, Goto
<1>14. ASSUME NEW t \in Threads, process # "gone", InitHeader(t) PROVE LockInv'
  BY <1>14 DEF InitHeader, Unlock, Leave, WritesTo
<1>15. ASSUME NEW t \in Threads, process # "gone", StopEnter(t) PROVE LockInv'
  BY <1>15 DEF StopEnter, Enter
<1>16. ASSUME NEW t \in Threads, process # "gone", StopMark(t) PROVE LockInv'
  BY <1>16 DEF StopMark, Goto
<1>17. ASSUME NEW t \in Threads, process # "gone", ShutdownNothing(t) PROVE LockInv'
  BY <1>17 DEF ShutdownNothing, Unlock, Leave
<1>18. ASSUME NEW t \in Threads, process # "gone", ShutdownClose(t) PROVE LockInv'
  BY <1>18 DEF ShutdownClose, Goto, WritesTo
<1>19. ASSUME NEW t \in Threads, process # "gone", ShutdownLeak(t) PROVE LockInv'
  BY <1>19 DEF ShutdownLeak, Unlock, Leave
<1>20. ASSUME NEW t \in Threads, process # "gone", ShutdownDelete(t) PROVE LockInv'
  BY <1>20 DEF ShutdownDelete, Goto
<1>21. ASSUME NEW t \in Threads, process # "gone", JoinTimer(t) PROVE LockInv'
  BY <1>21 DEF JoinTimer, Goto
<1>22. ASSUME NEW t \in Threads, process # "gone", FreeData(t) PROVE LockInv'
  BY <1>22 DEF FreeData, Unlock, Leave
<1>23. ASSUME NEW t \in Threads, process # "gone", Exit(t) PROVE LockInv'
  BY <1>23 DEF Exit, Goto
<1>24. ASSUME NEW t \in Threads, process # "gone", AtExit(t) PROVE LockInv'
  BY <1>24 DEF AtExit, Enter
<1>25. ASSUME NEW t \in Threads, process # "gone", ProcessExit(t) PROVE LockInv'
  BY <1>25 DEF ProcessExit
<1>26. ASSUME NEW t \in Threads, process # "gone", ForkParent(t) PROVE LockInv'
  BY <1>26 DEF ForkParent
<1>27. ASSUME NEW t \in Threads, process # "gone", ForkChild(t) PROVE LockInv'
  BY <1>27 DEF ForkChild
<1>28. ASSUME NEW t \in Threads, process # "gone", StartThread(t) PROVE LockInv'
  BY <1>28 DEF StartThread, Goto
<1>29. ASSUME NEW g \in Gens, process # "gone", TimerLoop(g) PROVE LockInv'
  BY <1>29 DEF TimerLoop
<1>30. ASSUME NEW g \in Gens, process # "gone", TimerTryLock(g) PROVE LockInv'
  BY <1>30 DEF TimerTryLock
<1>31. ASSUME NEW g \in Gens, process # "gone", TimerGiveUp(g) PROVE LockInv'
  BY <1>31 DEF TimerGiveUp
<1>32. ASSUME NEW g \in Gens, process # "gone", TimerWrite(g) PROVE LockInv'
  BY <1>32 DEF TimerWrite, WritesTo
<1>33. CASE UNCHANGED vars
  BY <1>33 DEF vars
<1> HIDE DEF TypeOK, LockInv, GuardInv
<1> QED
  BY <1>1, <1>2, <1>3, <1>4, <1>5, <1>6, <1>7, <1>8, <1>9, <1>10, <1>11,
     <1>12, <1>13, <1>14, <1>15, <1>16, <1>17, <1>18, <1>19, <1>20, <1>21, <1>22,
     <1>23, <1>24, <1>25, <1>26, <1>27, <1>28, <1>29, <1>30, <1>31, <1>32, <1>33
     DEF Next, Operation, Call, Timer, Gone

\* RecursionGuard is active in every operation after every step.
LEMMA GuardInvStep == ASSUME TypeOK, GuardInv, [Next]_vars PROVE GuardInv'
<1> USE DEF TypeOK, GuardInv, Holding,
            flags, session, stream, thread, proc
<1>1. ASSUME NEW t \in Threads, process # "gone", TryLock(t) PROVE GuardInv'
  BY <1>1 DEF TryLock, Goto
<1>2. ASSUME NEW t \in Threads, process # "gone", GiveUp(t) PROVE GuardInv'
  BY <1>2 DEF GiveUp, Leave
<1>3. ASSUME NEW t \in Threads, NEW o \in RecordOps, process # "gone", Record(t, o) PROVE GuardInv'
  BY <1>3 DEF Record, Enter
<1>4. ASSUME NEW t \in Threads, process # "gone", HandleRecord(t) PROVE GuardInv'
  BY <1>4 DEF HandleRecord, Unlock, Leave, WritesTo, UpdateModuleCache
<1>5. ASSUME NEW t \in Threads, process # "gone", Pause(t) PROVE GuardInv'
  BY <1>5 DEF Pause
<1>6. ASSUME NEW t \in Threads, process # "gone", Resume(t) PROVE GuardInv'
  BY <1>6 DEF Resume
<1>7. ASSUME NEW t \in Threads, process # "gone", ChangeModules(t) PROVE GuardInv'
  BY <1>7 DEF ChangeModules, Goto
<1>8. ASSUME NEW t \in Threads, process # "gone", Invalidate(t) PROVE GuardInv'
  BY <1>8 DEF Invalidate, Enter
<1>9. ASSUME NEW t \in Threads, process # "gone", InvalidateModuleCache(t) PROVE GuardInv'
  BY <1>9 DEF InvalidateModuleCache, Unlock, Leave
<1>10. ASSUME NEW t \in Threads, process # "gone", InitEnter(t) PROVE GuardInv'
  BY <1>10 DEF InitEnter, Enter
<1>11. ASSUME NEW t \in Threads, process # "gone", InitAlready(t) PROVE GuardInv'
  BY <1>11 DEF InitAlready, Unlock, Leave
<1>12. ASSUME NEW t \in Threads, process # "gone", InitFails(t) PROVE GuardInv'
  BY <1>12 DEF InitFails, Unlock, Leave
<1>13. ASSUME NEW t \in Threads, process # "gone", InitOpens(t) PROVE GuardInv'
  BY <1>13 DEF InitOpens, Goto
<1>14. ASSUME NEW t \in Threads, process # "gone", InitHeader(t) PROVE GuardInv'
  BY <1>14 DEF InitHeader, Unlock, Leave, WritesTo
<1>15. ASSUME NEW t \in Threads, process # "gone", StopEnter(t) PROVE GuardInv'
  BY <1>15 DEF StopEnter, Enter
<1>16. ASSUME NEW t \in Threads, process # "gone", StopMark(t) PROVE GuardInv'
  BY <1>16 DEF StopMark, Goto
<1>17. ASSUME NEW t \in Threads, process # "gone", ShutdownNothing(t) PROVE GuardInv'
  BY <1>17 DEF ShutdownNothing, Unlock, Leave
<1>18. ASSUME NEW t \in Threads, process # "gone", ShutdownClose(t) PROVE GuardInv'
  BY <1>18 DEF ShutdownClose, Goto, WritesTo
<1>19. ASSUME NEW t \in Threads, process # "gone", ShutdownLeak(t) PROVE GuardInv'
  BY <1>19 DEF ShutdownLeak, Unlock, Leave
<1>20. ASSUME NEW t \in Threads, process # "gone", ShutdownDelete(t) PROVE GuardInv'
  BY <1>20 DEF ShutdownDelete, Goto
<1>21. ASSUME NEW t \in Threads, process # "gone", JoinTimer(t) PROVE GuardInv'
  BY <1>21 DEF JoinTimer, Goto
<1>22. ASSUME NEW t \in Threads, process # "gone", FreeData(t) PROVE GuardInv'
  BY <1>22 DEF FreeData, Unlock, Leave
<1>23. ASSUME NEW t \in Threads, process # "gone", Exit(t) PROVE GuardInv'
  BY <1>23 DEF Exit, Goto
<1>24. ASSUME NEW t \in Threads, process # "gone", AtExit(t) PROVE GuardInv'
  BY <1>24 DEF AtExit, Enter
<1>25. ASSUME NEW t \in Threads, process # "gone", ProcessExit(t) PROVE GuardInv'
  BY <1>25 DEF ProcessExit
<1>26. ASSUME NEW t \in Threads, process # "gone", ForkParent(t) PROVE GuardInv'
  BY <1>26 DEF ForkParent
<1>27. ASSUME NEW t \in Threads, process # "gone", ForkChild(t) PROVE GuardInv'
  BY <1>27 DEF ForkChild
<1>28. ASSUME NEW t \in Threads, process # "gone", StartThread(t) PROVE GuardInv'
  BY <1>28 DEF StartThread, Goto
<1>29. ASSUME NEW g \in Gens, process # "gone", TimerLoop(g) PROVE GuardInv'
  BY <1>29 DEF TimerLoop
<1>30. ASSUME NEW g \in Gens, process # "gone", TimerTryLock(g) PROVE GuardInv'
  BY <1>30 DEF TimerTryLock
<1>31. ASSUME NEW g \in Gens, process # "gone", TimerGiveUp(g) PROVE GuardInv'
  BY <1>31 DEF TimerGiveUp
<1>32. ASSUME NEW g \in Gens, process # "gone", TimerWrite(g) PROVE GuardInv'
  BY <1>32 DEF TimerWrite, WritesTo
<1>33. CASE UNCHANGED vars
  BY <1>33 DEF vars
<1> HIDE DEF TypeOK, GuardInv
<1> QED
  BY <1>1, <1>2, <1>3, <1>4, <1>5, <1>6, <1>7, <1>8, <1>9, <1>10, <1>11,
     <1>12, <1>13, <1>14, <1>15, <1>16, <1>17, <1>18, <1>19, <1>20, <1>21, <1>22,
     <1>23, <1>24, <1>25, <1>26, <1>27, <1>28, <1>29, <1>30, <1>31, <1>32, <1>33
     DEF Next, Operation, Call, Timer, Gone

\* s_data stays valid while a timer thread or a shutdown uses it: initialize()
\* only runs without s_data, and ~LockedData joins before the memory goes.
LEMMA DataInvStep == ASSUME TypeOK, LockInv, DataInv, [Next]_vars PROVE DataInv'
<1> USE DEF TypeOK, LockInv, DataInv, Gens, Free, Orphan, Null, Holding,
            flags, session, stream, thread, proc
<1>1. ASSUME NEW t \in Threads, process # "gone", TryLock(t) PROVE DataInv'
  BY <1>1 DEF TryLock, Goto
<1>2. ASSUME NEW t \in Threads, process # "gone", GiveUp(t) PROVE DataInv'
  BY <1>2 DEF GiveUp, Leave
<1>3. ASSUME NEW t \in Threads, NEW o \in RecordOps, process # "gone", Record(t, o) PROVE DataInv'
  BY <1>3 DEF Record, Enter
<1>4. ASSUME NEW t \in Threads, process # "gone", HandleRecord(t) PROVE DataInv'
  BY <1>4 DEF HandleRecord, Unlock, Leave, WritesTo, UpdateModuleCache
<1>5. ASSUME NEW t \in Threads, process # "gone", Pause(t) PROVE DataInv'
  BY <1>5 DEF Pause
<1>6. ASSUME NEW t \in Threads, process # "gone", Resume(t) PROVE DataInv'
  BY <1>6 DEF Resume
<1>7. ASSUME NEW t \in Threads, process # "gone", ChangeModules(t) PROVE DataInv'
  BY <1>7 DEF ChangeModules, Goto
<1>8. ASSUME NEW t \in Threads, process # "gone", Invalidate(t) PROVE DataInv'
  BY <1>8 DEF Invalidate, Enter
<1>9. ASSUME NEW t \in Threads, process # "gone", InvalidateModuleCache(t) PROVE DataInv'
  BY <1>9 DEF InvalidateModuleCache, Unlock, Leave
<1>10. ASSUME NEW t \in Threads, process # "gone", InitEnter(t) PROVE DataInv'
  BY <1>10 DEF InitEnter, Enter
<1>11. ASSUME NEW t \in Threads, process # "gone", InitAlready(t) PROVE DataInv'
  BY <1>11 DEF InitAlready, Unlock, Leave
<1>12. ASSUME NEW t \in Threads, process # "gone", InitFails(t) PROVE DataInv'
  BY <1>12 DEF InitFails, Unlock, Leave
<1>13. ASSUME NEW t \in Threads, process # "gone", InitOpens(t) PROVE DataInv'
  BY <1>13 DEF InitOpens, Goto
<1>14. ASSUME NEW t \in Threads, process # "gone", InitHeader(t) PROVE DataInv'
  BY <1>14 DEF InitHeader, Unlock, Leave, WritesTo
<1>15. ASSUME NEW t \in Threads, process # "gone", StopEnter(t) PROVE DataInv'
  BY <1>15 DEF StopEnter, Enter
<1>16. ASSUME NEW t \in Threads, process # "gone", StopMark(t) PROVE DataInv'
  BY <1>16 DEF StopMark, Goto
<1>17. ASSUME NEW t \in Threads, process # "gone", ShutdownNothing(t) PROVE DataInv'
  BY <1>17 DEF ShutdownNothing, Unlock, Leave
<1>18. ASSUME NEW t \in Threads, process # "gone", ShutdownClose(t) PROVE DataInv'
  BY <1>18 DEF ShutdownClose, Goto, WritesTo
<1>19. ASSUME NEW t \in Threads, process # "gone", ShutdownLeak(t) PROVE DataInv'
  BY <1>19 DEF ShutdownLeak, Unlock, Leave
<1>20. ASSUME NEW t \in Threads, process # "gone", ShutdownDelete(t) PROVE DataInv'
  BY <1>20 DEF ShutdownDelete, Goto
<1>21. ASSUME NEW t \in Threads, process # "gone", JoinTimer(t) PROVE DataInv'
  BY <1>21 DEF JoinTimer, Goto
<1>22. ASSUME NEW t \in Threads, process # "gone", FreeData(t) PROVE DataInv'
  BY <1>22 DEF FreeData, Unlock, Leave
<1>23. ASSUME NEW t \in Threads, process # "gone", Exit(t) PROVE DataInv'
  BY <1>23 DEF Exit, Goto
<1>24. ASSUME NEW t \in Threads, process # "gone", AtExit(t) PROVE DataInv'
  BY <1>24 DEF AtExit, Enter
<1>25. ASSUME NEW t \in Threads, process # "gone", ProcessExit(t) PROVE DataInv'
  BY <1>25 DEF ProcessExit
<1>26. ASSUME NEW t \in Threads, process # "gone", ForkParent(t) PROVE DataInv'
  BY <1>26 DEF ForkParent
<1>27. ASSUME NEW t \in Threads, process # "gone", ForkChild(t) PROVE DataInv'
  BY <1>27 DEF ForkChild
<1>28. ASSUME NEW t \in Threads, process # "gone", StartThread(t) PROVE DataInv'
  BY <1>28 DEF StartThread, Goto
<1>29. ASSUME NEW g \in Gens, process # "gone", TimerLoop(g) PROVE DataInv'
  BY <1>29 DEF TimerLoop
<1>30. ASSUME NEW g \in Gens, process # "gone", TimerTryLock(g) PROVE DataInv'
  BY <1>30 DEF TimerTryLock
<1>31. ASSUME NEW g \in Gens, process # "gone", TimerGiveUp(g) PROVE DataInv'
  BY <1>31 DEF TimerGiveUp
<1>32. ASSUME NEW g \in Gens, process # "gone", TimerWrite(g) PROVE DataInv'
  BY <1>32 DEF TimerWrite, WritesTo
<1>33. CASE UNCHANGED vars
  BY <1>33 DEF vars
<1> HIDE DEF TypeOK, LockInv, DataInv
<1> QED
  BY <1>1, <1>2, <1>3, <1>4, <1>5, <1>6, <1>7, <1>8, <1>9, <1>10, <1>11,
     <1>12, <1>13, <1>14, <1>15, <1>16, <1>17, <1>18, <1>19, <1>20, <1>21, <1>22,
     <1>23, <1>24, <1>25, <1>26, <1>27, <1>28, <1>29, <1>30, <1>31, <1>32, <1>33
     DEF Next, Operation, Call, Timer, Gone

\* Nothing precedes the header in a stream: a thread or timer thread that holds
\* the lock excludes one that is still writing the header.
LEMMA HeaderInvStep ==
    ASSUME TypeOK, LockInv, GuardInv, DataInv, HeaderInv, [Next]_vars
    PROVE  HeaderInv'
<1> USE DEF TypeOK, LockInv, GuardInv, DataInv, HeaderInv, Gens, Free, Orphan, Null, Holding,
            flags, session, stream, thread, proc
<1>1. ASSUME NEW t \in Threads, process # "gone", TryLock(t) PROVE HeaderInv'
  BY <1>1 DEF TryLock, Goto
<1>2. ASSUME NEW t \in Threads, process # "gone", GiveUp(t) PROVE HeaderInv'
  BY <1>2 DEF GiveUp, Leave
<1>3. ASSUME NEW t \in Threads, NEW o \in RecordOps, process # "gone", Record(t, o) PROVE HeaderInv'
  BY <1>3 DEF Record, Enter
<1>4. ASSUME NEW t \in Threads, process # "gone", HandleRecord(t) PROVE HeaderInv'
  BY <1>4 DEF HandleRecord, Unlock, Leave, WritesTo, UpdateModuleCache
<1>5. ASSUME NEW t \in Threads, process # "gone", Pause(t) PROVE HeaderInv'
  BY <1>5 DEF Pause
<1>6. ASSUME NEW t \in Threads, process # "gone", Resume(t) PROVE HeaderInv'
  BY <1>6 DEF Resume
<1>7. ASSUME NEW t \in Threads, process # "gone", ChangeModules(t) PROVE HeaderInv'
  BY <1>7 DEF ChangeModules, Goto
<1>8. ASSUME NEW t \in Threads, process # "gone", Invalidate(t) PROVE HeaderInv'
  BY <1>8 DEF Invalidate, Enter
<1>9. ASSUME NEW t \in Threads, process # "gone", InvalidateModuleCache(t) PROVE HeaderInv'
  BY <1>9 DEF InvalidateModuleCache, Unlock, Leave
<1>10. ASSUME NEW t \in Threads, process # "gone", InitEnter(t) PROVE HeaderInv'
  BY <1>10 DEF InitEnter, Enter
<1>11. ASSUME NEW t \in Threads, process # "gone", InitAlready(t) PROVE HeaderInv'
  BY <1>11 DEF InitAlready, Unlock, Leave
<1>12. ASSUME NEW t \in Threads, process # "gone", InitFails(t) PROVE HeaderInv'
  BY <1>12 DEF InitFails, Unlock, Leave
<1>13. ASSUME NEW t \in Threads, process # "gone", InitOpens(t) PROVE HeaderInv'
  BY <1>13 DEF InitOpens, Goto
<1>14. ASSUME NEW t \in Threads, process # "gone", InitHeader(t) PROVE HeaderInv'
  BY <1>14 DEF InitHeader, Unlock, Leave, WritesTo
<1>15. ASSUME NEW t \in Threads, process # "gone", StopEnter(t) PROVE HeaderInv'
  BY <1>15 DEF StopEnter, Enter
<1>16. ASSUME NEW t \in Threads, process # "gone", StopMark(t) PROVE HeaderInv'
  BY <1>16 DEF StopMark, Goto
<1>17. ASSUME NEW t \in Threads, process # "gone", ShutdownNothing(t) PROVE HeaderInv'
  BY <1>17 DEF ShutdownNothing, Unlock, Leave
<1>18. ASSUME NEW t \in Threads, process # "gone", ShutdownClose(t) PROVE HeaderInv'
  BY <1>18 DEF ShutdownClose, Goto, WritesTo
<1>19. ASSUME NEW t \in Threads, process # "gone", ShutdownLeak(t) PROVE HeaderInv'
  BY <1>19 DEF ShutdownLeak, Unlock, Leave
<1>20. ASSUME NEW t \in Threads, process # "gone", ShutdownDelete(t) PROVE HeaderInv'
  BY <1>20 DEF ShutdownDelete, Goto
<1>21. ASSUME NEW t \in Threads, process # "gone", JoinTimer(t) PROVE HeaderInv'
  BY <1>21 DEF JoinTimer, Goto
<1>22. ASSUME NEW t \in Threads, process # "gone", FreeData(t) PROVE HeaderInv'
  BY <1>22 DEF FreeData, Unlock, Leave
<1>23. ASSUME NEW t \in Threads, process # "gone", Exit(t) PROVE HeaderInv'
  BY <1>23 DEF Exit, Goto
<1>24. ASSUME NEW t \in Threads, process # "gone", AtExit(t) PROVE HeaderInv'
  BY <1>24 DEF AtExit, Enter
<1>25. ASSUME NEW t \in Threads, process # "gone", ProcessExit(t) PROVE HeaderInv'
  BY <1>25 DEF ProcessExit
<1>26. ASSUME NEW t \in Threads, process # "gone", ForkParent(t) PROVE HeaderInv'
  BY <1>26 DEF ForkParent
<1>27. ASSUME NEW t \in Threads, process # "gone", ForkChild(t) PROVE HeaderInv'
  BY <1>27 DEF ForkChild
<1>28. ASSUME NEW t \in Threads, process # "gone", StartThread(t) PROVE HeaderInv'
  BY <1>28 DEF StartThread, Goto
<1>29. ASSUME NEW g \in Gens, process # "gone", TimerLoop(g) PROVE HeaderInv'
  BY <1>29 DEF TimerLoop
<1>30. ASSUME NEW g \in Gens, process # "gone", TimerTryLock(g) PROVE HeaderInv'
  BY <1>30 DEF TimerTryLock
<1>31. ASSUME NEW g \in Gens, process # "gone", TimerGiveUp(g) PROVE HeaderInv'
  BY <1>31 DEF TimerGiveUp
<1>32. ASSUME NEW g \in Gens, process # "gone", TimerWrite(g) PROVE HeaderInv'
  BY <1>32 DEF TimerWrite, WritesTo
<1>33. CASE UNCHANGED vars
  BY <1>33 DEF vars
<1> HIDE DEF TypeOK, LockInv, GuardInv, DataInv, HeaderInv
<1> QED
  BY <1>1, <1>2, <1>3, <1>4, <1>5, <1>6, <1>7, <1>8, <1>9, <1>10, <1>11,
     <1>12, <1>13, <1>14, <1>15, <1>16, <1>17, <1>18, <1>19, <1>20, <1>21, <1>22,
     <1>23, <1>24, <1>25, <1>26, <1>27, <1>28, <1>29, <1>30, <1>31, <1>32, <1>33
     DEF Next, Operation, Call, Timer, Gone

\* A forked child does not write to the streams of its parent.
LEMMA ProcessInvStep == ASSUME TypeOK, DataInv, HeaderInv, ProcessInv, [Next]_vars PROVE ProcessInv'
<1> USE DEF TypeOK, DataInv, HeaderInv, ProcessInv, Gens, Null,
            flags, session, stream, thread, proc
<1>1. ASSUME NEW t \in Threads, process # "gone", TryLock(t) PROVE ProcessInv'
  BY <1>1 DEF TryLock, Goto
<1>2. ASSUME NEW t \in Threads, process # "gone", GiveUp(t) PROVE ProcessInv'
  BY <1>2 DEF GiveUp, Leave
<1>3. ASSUME NEW t \in Threads, NEW o \in RecordOps, process # "gone", Record(t, o) PROVE ProcessInv'
  BY <1>3 DEF Record, Enter
<1>4. ASSUME NEW t \in Threads, process # "gone", HandleRecord(t) PROVE ProcessInv'
  <2>1. CASE s_data # Null /\ s_data \in canWrite
    <3>1. WritesTo(s_data)
      BY <1>4, <2>1 DEF HandleRecord
    <3>2. /\ writers' \in [Gens -> SUBSET {"parent", "child"}]
          /\ \A h \in Gens : h # s_data => writers'[h] = writers[h]
          /\ writers'[s_data] = writers[s_data] \cup {process}
      BY <1>4, <2>1, <3>1, WritesToStream
    <3> QED
      BY <1>4, <2>1, <3>2 DEF HandleRecord, Unlock, Leave
  <2>2. CASE ~ (s_data # Null /\ s_data \in canWrite)
    BY <1>4, <2>2 DEF HandleRecord, Unlock, Leave
  <2> QED
    BY <2>1, <2>2
<1>5. ASSUME NEW t \in Threads, process # "gone", Pause(t) PROVE ProcessInv'
  BY <1>5 DEF Pause
<1>6. ASSUME NEW t \in Threads, process # "gone", Resume(t) PROVE ProcessInv'
  BY <1>6 DEF Resume
<1>7. ASSUME NEW t \in Threads, process # "gone", ChangeModules(t) PROVE ProcessInv'
  BY <1>7 DEF ChangeModules, Goto
<1>8. ASSUME NEW t \in Threads, process # "gone", Invalidate(t) PROVE ProcessInv'
  BY <1>8 DEF Invalidate, Enter
<1>9. ASSUME NEW t \in Threads, process # "gone", InvalidateModuleCache(t) PROVE ProcessInv'
  BY <1>9 DEF InvalidateModuleCache, Unlock, Leave
<1>10. ASSUME NEW t \in Threads, process # "gone", InitEnter(t) PROVE ProcessInv'
  BY <1>10 DEF InitEnter, Enter
<1>11. ASSUME NEW t \in Threads, process # "gone", InitAlready(t) PROVE ProcessInv'
  BY <1>11 DEF InitAlready, Unlock, Leave
<1>12. ASSUME NEW t \in Threads, process # "gone", InitFails(t) PROVE ProcessInv'
  BY <1>12 DEF InitFails, Unlock, Leave
<1>13. ASSUME NEW t \in Threads, process # "gone", InitOpens(t) PROVE ProcessInv'
  BY <1>13 DEF InitOpens, Goto
<1>14. ASSUME NEW t \in Threads, process # "gone", InitHeader(t) PROVE ProcessInv'
  BY <1>14 DEF InitHeader, Unlock, Leave, WritesTo
<1>15. ASSUME NEW t \in Threads, process # "gone", StopEnter(t) PROVE ProcessInv'
  BY <1>15 DEF StopEnter, Enter
<1>16. ASSUME NEW t \in Threads, process # "gone", StopMark(t) PROVE ProcessInv'
  BY <1>16 DEF StopMark, Goto
<1>17. ASSUME NEW t \in Threads, process # "gone", ShutdownNothing(t) PROVE ProcessInv'
  BY <1>17 DEF ShutdownNothing, Unlock, Leave
<1>18. ASSUME NEW t \in Threads, process # "gone", ShutdownClose(t) PROVE ProcessInv'
  BY <1>18 DEF ShutdownClose, Goto, WritesTo
<1>19. ASSUME NEW t \in Threads, process # "gone", ShutdownLeak(t) PROVE ProcessInv'
  BY <1>19 DEF ShutdownLeak, Unlock, Leave
<1>20. ASSUME NEW t \in Threads, process # "gone", ShutdownDelete(t) PROVE ProcessInv'
  BY <1>20 DEF ShutdownDelete, Goto
<1>21. ASSUME NEW t \in Threads, process # "gone", JoinTimer(t) PROVE ProcessInv'
  BY <1>21 DEF JoinTimer, Goto
<1>22. ASSUME NEW t \in Threads, process # "gone", FreeData(t) PROVE ProcessInv'
  BY <1>22 DEF FreeData, Unlock, Leave
<1>23. ASSUME NEW t \in Threads, process # "gone", Exit(t) PROVE ProcessInv'
  BY <1>23 DEF Exit, Goto
<1>24. ASSUME NEW t \in Threads, process # "gone", AtExit(t) PROVE ProcessInv'
  BY <1>24 DEF AtExit, Enter
<1>25. ASSUME NEW t \in Threads, process # "gone", ProcessExit(t) PROVE ProcessInv'
  BY <1>25 DEF ProcessExit
<1>26. ASSUME NEW t \in Threads, process # "gone", ForkParent(t) PROVE ProcessInv'
  BY <1>26 DEF ForkParent
<1>27. ASSUME NEW t \in Threads, process # "gone", ForkChild(t) PROVE ProcessInv'
  BY <1>27 DEF ForkChild
<1>28. ASSUME NEW t \in Threads, process # "gone", StartThread(t) PROVE ProcessInv'
  BY <1>28 DEF StartThread, Goto
<1>29. ASSUME NEW g \in Gens, process # "gone", TimerLoop(g) PROVE ProcessInv'
  BY <1>29 DEF TimerLoop
<1>30. ASSUME NEW g \in Gens, process # "gone", TimerTryLock(g) PROVE ProcessInv'
  BY <1>30 DEF TimerTryLock
<1>31. ASSUME NEW g \in Gens, process # "gone", TimerGiveUp(g) PROVE ProcessInv'
  BY <1>31 DEF TimerGiveUp
<1>32. ASSUME NEW g \in Gens, process # "gone", TimerWrite(g) PROVE ProcessInv'
  <2>1. CASE s_data # Null /\ s_data \in canWrite
    <3>1. WritesTo(s_data)
      BY <1>32, <2>1 DEF TimerWrite
    <3>2. /\ writers' \in [Gens -> SUBSET {"parent", "child"}]
          /\ \A h \in Gens : h # s_data => writers'[h] = writers[h]
          /\ writers'[s_data] = writers[s_data] \cup {process}
      BY <1>32, <2>1, <3>1, WritesToStream
    <3>3. process' = process /\ s_data' = s_data
      BY <1>32 DEF TimerWrite
    <3>4. CASE process = "parent"
      BY <2>1, <3>2, <3>3, <3>4
    <3>5. CASE process = "child"
      BY <2>1, <3>2, <3>3, <3>5
    <3> QED
      BY <1>32, <3>4, <3>5
  <2>2. CASE ~ (s_data # Null /\ s_data \in canWrite)
    BY <1>32, <2>2 DEF TimerWrite
  <2> QED
    BY <2>1, <2>2
<1>33. CASE UNCHANGED vars
  BY <1>33 DEF vars
<1> HIDE DEF TypeOK, DataInv, HeaderInv, ProcessInv
<1> QED
  BY <1>1, <1>2, <1>3, <1>4, <1>5, <1>6, <1>7, <1>8, <1>9, <1>10, <1>11,
     <1>12, <1>13, <1>14, <1>15, <1>16, <1>17, <1>18, <1>19, <1>20, <1>21, <1>22,
     <1>23, <1>24, <1>25, <1>26, <1>27, <1>28, <1>29, <1>30, <1>31, <1>32, <1>33
     DEF Next, Operation, Call, Timer, Gone

-----------------------------------------------------------------------------
LEMMA InitIInv == Init => IInv
<1> SUFFICES ASSUME Init PROVE IInv
  OBVIOUS
<1>1. timer \in [Gens -> Timers] /\ writers \in [Gens -> SUBSET {"parent", "child"}]
  BY DEF Init, Timers
<1>2. gen \in 0 .. MaxData /\ lock = Free /\ s_data = Null
  BY HeapTrackAssumption DEF Init
<1>3. TypeOK
  <2>1. /\ s_forceCleanup \in BOOLEAN /\ s_atexit \in BOOLEAN /\ s_paused \in BOOLEAN
        /\ s_moduleCacheDirty \in BOOLEAN /\ once \in BOOLEAN
    BY DEF Init
  <2>2. /\ guard \in [Threads -> BOOLEAN] /\ wasLocked \in [Threads -> BOOLEAN]
    BY DEF Init
  <2>3. pc \in [Threads -> PCs] /\ op \in [Threads -> Ops]
    BY DEF Init, PCs, Ops
  <2>4. /\ hooks \in Int /\ exiter \in Threads \cup {"none"}
        /\ process \in {"parent", "child", "gone"}
        /\ alive \subseteq Gens /\ canWrite \subseteq Gens
        /\ stopTimerThread \subseteq Gens /\ headed \subseteq Gens /\ listed \subseteq Gens
    BY DEF Init
  <2> QED
    BY <1>1, <1>2, <2>1, <2>2, <2>3, <2>4 DEF TypeOK
<1>4. LockInv /\ GuardInv /\ DataInv /\ HeaderInv /\ ProcessInv
  BY DEF Init, LockInv, GuardInv, DataInv, HeaderInv, ProcessInv, Gens, Null, Free, Holding
<1> QED
  BY <1>3, <1>4 DEF IInv

\* IInv holds in every reachable state of HeapTrack.
THEOREM Invariance == Spec => []IInv
<1>1. ASSUME IInv, [Next]_vars PROVE IInv'
  <2>1. TypeOK /\ LockInv /\ GuardInv /\ DataInv /\ HeaderInv /\ ProcessInv
    BY <1>1 DEF IInv
  <2>2. TypeOK' /\ LockInv' /\ GuardInv'
    BY <1>1, <2>1, TypeOKStep, LockInvStep, GuardInvStep
  <2>3. DataInv' /\ HeaderInv' /\ ProcessInv'
    BY <1>1, <2>1, DataInvStep, HeaderInvStep, ProcessInvStep
  <2> QED
    BY <2>2, <2>3 DEF IInv
<1> QED
  BY InitIInv, <1>1, PTL DEF Spec

\* The variables of the recorder keep their types: in particular at most MaxData
\* LockedData objects exist and s_data is one of them or null.
THEOREM TypeCorrect == Spec => []TypeOK
<1>1. IInv => TypeOK
  BY DEF IInv
<1> QED
  BY Invariance, <1>1, PTL

\* heaptrack's own allocations never make a thread wait for its own lock.
THEOREM SelfDeadlockFree == Spec => []NoSelfDeadlock
<1>1. IInv => NoSelfDeadlock
  BY DEF IInv, LockInv, NoSelfDeadlock, Holding
<1> QED
  BY Invariance, <1>1, PTL

\* Neither an operation nor the timer thread uses a LockedData object that
\* heaptrack_stop deleted, whatever calls race with it.
THEOREM MemorySafe == Spec => []NoUseAfterFree
<1>1. IInv => NoUseAfterFree
  BY DEF IInv, TypeOK, DataInv, NoUseAfterFree, Gens, Null
<1> QED
  BY Invariance, <1>1, PTL

\* No record gets into a stream before the header, although the timer thread
\* starts before the header is written.
THEOREM HeaderFirst == Spec => []RecordsFollowHeader
<1>1. IInv => RecordsFollowHeader
  BY DEF IInv, HeaderInv, RecordsFollowHeader
<1> QED
  BY Invariance, <1>1, PTL

\* A process and its forked child never write to the same stream.
THEOREM ForkSafe == Spec => []OneProcessPerFile
<1>1. IInv => OneProcessPerFile
  BY DEF IInv, ProcessInv, OneProcessPerFile
<1> QED
  BY Invariance, <1>1, PTL

-----------------------------------------------------------------------------
(* A single controller                                                     *)

\* The steps of heaptrack_stop and HeapTrack::shutdown inside the lock.
Stopping == {"shutdown", "closed", "join", "joined"}

\* Only one thread calls heaptrack_init and heaptrack_stop.
SingleController == \A c, d \in Controllers : c = d

\* heaptrack_init is called by the controller and leaves s_forceCleanup reset;
\* heaptrack_stop is called by the controller or by the atexit handler.
OpInv ==
    \A t \in Threads :
        /\ op[t] = "init" => t \in Controllers /\ ~ s_forceCleanup
        /\ op[t] = "stop" => t \in Controllers \/ s_atexit
        /\ op[t] \in {"init", "stop"} => pc[t] \in Holding \cup {"spin"}
        /\ pc[t] = "header" => op[t] = "init"
        /\ pc[t] \in Stopping => op[t] = "stop"

\* A session that is still there under s_forceCleanup is just being stopped by
\* the controller, and ~LockedData runs under s_forceCleanup only: neither
\* s_atexit, set by exit() in the meantime, nor a heaptrack_init can take back
\* the condition under which it calls stopCallback.
CleanupInv ==
    /\ s_forceCleanup /\ s_data # Null => \E c \in Controllers : pc[c] \in Stopping
    /\ \A t \in Threads :
        /\ pc[t] \in Stopping => s_forceCleanup \/ s_atexit
        /\ pc[t] \in {"join", "joined"} => s_forceCleanup
    /\ HooksBalanced

\* A change of the loaded modules that was not reported to heaptrack yet.
Unreported ==
    \E t \in Threads :
        \/ pc[t] = "loaded"
        \/ op[t] = "invalidate" /\ pc[t] \in {"spin", "locked"}

\* A stale module list is known to be stale, or s_forceCleanup, which lets
\* heaptrack_invalidate_module_cache give up, ends the session.
ListInv ==
    s_data # Null /\ ~ s_forceCleanup /\ ~ s_moduleCacheDirty /\ ~ Unreported
        => s_data \in listed

SessionInv == process = "parent" => OpInv /\ CleanupInv /\ ListInv

\* s_forceCleanup is set inside heaptrack_stop only while s_atexit is not set, so
\* by the controller, which is not in heaptrack_init then.
LEMMA OpInvStep ==
    ASSUME SingleController, TypeOK, LockInv, GuardInv, OpInv,
           process = "parent", [Next]_vars
    PROVE  process' = "parent" => OpInv'
<1> USE DEF TypeOK, LockInv, GuardInv, OpInv, SingleController, Stopping, Holding, RecordOps, Ops, Free,
            flags, session, stream, thread, proc
<1>1. ASSUME NEW t \in Threads, TryLock(t) PROVE OpInv'
  BY <1>1 DEF TryLock, Goto
<1>2. ASSUME NEW t \in Threads, GiveUp(t) PROVE OpInv'
  BY <1>2 DEF GiveUp, Leave
<1>3. ASSUME NEW t \in Threads, NEW o \in RecordOps, Record(t, o) PROVE OpInv'
  BY <1>3 DEF Record, Enter
<1>4. ASSUME NEW t \in Threads, HandleRecord(t) PROVE OpInv'
  BY <1>4 DEF HandleRecord, Unlock, Leave, WritesTo, UpdateModuleCache
<1>5. ASSUME NEW t \in Threads, Pause(t) PROVE OpInv'
  BY <1>5 DEF Pause
<1>6. ASSUME NEW t \in Threads, Resume(t) PROVE OpInv'
  BY <1>6 DEF Resume
<1>7. ASSUME NEW t \in Threads, ChangeModules(t) PROVE OpInv'
  BY <1>7 DEF ChangeModules, Goto
<1>8. ASSUME NEW t \in Threads, Invalidate(t) PROVE OpInv'
  BY <1>8 DEF Invalidate, Enter
<1>9. ASSUME NEW t \in Threads, InvalidateModuleCache(t) PROVE OpInv'
  BY <1>9 DEF InvalidateModuleCache, Unlock, Leave
<1>10. ASSUME NEW t \in Threads, InitEnter(t) PROVE OpInv'
  BY <1>10 DEF InitEnter, Enter
<1>11. ASSUME NEW t \in Threads, InitAlready(t) PROVE OpInv'
  BY <1>11 DEF InitAlready, Unlock, Leave
<1>12. ASSUME NEW t \in Threads, InitFails(t) PROVE OpInv'
  BY <1>12 DEF InitFails, Unlock, Leave
<1>13. ASSUME NEW t \in Threads, InitOpens(t) PROVE OpInv'
  BY <1>13 DEF InitOpens, Goto
<1>14. ASSUME NEW t \in Threads, InitHeader(t) PROVE OpInv'
  BY <1>14 DEF InitHeader, Unlock, Leave, WritesTo
<1>15. ASSUME NEW t \in Threads, StopEnter(t) PROVE OpInv'
  BY <1>15 DEF StopEnter, Enter
<1>16. ASSUME NEW t \in Threads, StopMark(t) PROVE OpInv'
  BY <1>16 DEF StopMark, Goto
<1>17. ASSUME NEW t \in Threads, ShutdownNothing(t) PROVE OpInv'
  BY <1>17 DEF ShutdownNothing, Unlock, Leave
<1>18. ASSUME NEW t \in Threads, ShutdownClose(t) PROVE OpInv'
  BY <1>18 DEF ShutdownClose, Goto, WritesTo
<1>19. ASSUME NEW t \in Threads, ShutdownLeak(t) PROVE OpInv'
  BY <1>19 DEF ShutdownLeak, Unlock, Leave
<1>20. ASSUME NEW t \in Threads, ShutdownDelete(t) PROVE OpInv'
  BY <1>20 DEF ShutdownDelete, Goto
<1>21. ASSUME NEW t \in Threads, JoinTimer(t) PROVE OpInv'
  BY <1>21 DEF JoinTimer, Goto
<1>22. ASSUME NEW t \in Threads, FreeData(t) PROVE OpInv'
  BY <1>22 DEF FreeData, Unlock, Leave
<1>23. ASSUME NEW t \in Threads, Exit(t) PROVE OpInv'
  BY <1>23 DEF Exit, Goto
<1>24. ASSUME NEW t \in Threads, AtExit(t) PROVE OpInv'
  BY <1>24 DEF AtExit, Enter
<1>25. ASSUME NEW t \in Threads, ProcessExit(t) PROVE process' # "parent"
  BY <1>25 DEF ProcessExit
<1>26. ASSUME NEW t \in Threads, ForkParent(t) PROVE OpInv'
  BY <1>26 DEF ForkParent
<1>27. ASSUME NEW t \in Threads, ForkChild(t) PROVE process' # "parent"
  BY <1>27 DEF ForkChild
<1>28. ASSUME NEW t \in Threads, StartThread(t) PROVE OpInv'
  BY <1>28 DEF StartThread, Goto
<1>29. ASSUME NEW g \in Gens, TimerLoop(g) PROVE OpInv'
  BY <1>29 DEF TimerLoop
<1>30. ASSUME NEW g \in Gens, TimerTryLock(g) PROVE OpInv'
  BY <1>30 DEF TimerTryLock
<1>31. ASSUME NEW g \in Gens, TimerGiveUp(g) PROVE OpInv'
  BY <1>31 DEF TimerGiveUp
<1>32. ASSUME NEW g \in Gens, TimerWrite(g) PROVE OpInv'
  BY <1>32 DEF TimerWrite, WritesTo
<1>33. CASE UNCHANGED vars
  BY <1>33 DEF vars
<1> HIDE DEF TypeOK, LockInv, GuardInv, OpInv
<1> QED
  BY <1>1, <1>2, <1>3, <1>4, <1>5, <1>6, <1>7, <1>8, <1>9, <1>10, <1>11,
     <1>12, <1>13, <1>14, <1>15, <1>16, <1>17, <1>18, <1>19, <1>20, <1>21, <1>22,
     <1>23, <1>24, <1>25, <1>26, <1>27, <1>28, <1>29, <1>30, <1>31, <1>32, <1>33
     DEF Next, Operation, Call, Timer, Gone

\* Every heaptrack_stop that deletes the session is one of the controller that
\* has set s_forceCleanup; the atexit handler leaves the session alone unless the
\* controller has torn it down already.
LEMMA CleanupInvStep ==
    ASSUME SingleController, TypeOK, LockInv, GuardInv, DataInv, OpInv, CleanupInv,
           process = "parent", [Next]_vars
    PROVE  process' = "parent" => CleanupInv'
<1> USE DEF TypeOK, LockInv, GuardInv, DataInv, OpInv, CleanupInv, HooksBalanced, SingleController,
            Stopping, Holding, RecordOps, Gens, Free, Null, flags, session, stream, thread, proc
<1>1. ASSUME NEW t \in Threads, TryLock(t) PROVE CleanupInv'
  BY <1>1 DEF TryLock, Goto
<1>2. ASSUME NEW t \in Threads, GiveUp(t) PROVE CleanupInv'
  BY <1>2 DEF GiveUp, Leave
<1>3. ASSUME NEW t \in Threads, NEW o \in RecordOps, Record(t, o) PROVE CleanupInv'
  BY <1>3 DEF Record, Enter
<1>4. ASSUME NEW t \in Threads, HandleRecord(t) PROVE CleanupInv'
  BY <1>4 DEF HandleRecord, Unlock, Leave, WritesTo, UpdateModuleCache
<1>5. ASSUME NEW t \in Threads, Pause(t) PROVE CleanupInv'
  BY <1>5 DEF Pause
<1>6. ASSUME NEW t \in Threads, Resume(t) PROVE CleanupInv'
  BY <1>6 DEF Resume
<1>7. ASSUME NEW t \in Threads, ChangeModules(t) PROVE CleanupInv'
  BY <1>7 DEF ChangeModules, Goto
<1>8. ASSUME NEW t \in Threads, Invalidate(t) PROVE CleanupInv'
  BY <1>8 DEF Invalidate, Enter
<1>9. ASSUME NEW t \in Threads, InvalidateModuleCache(t) PROVE CleanupInv'
  BY <1>9 DEF InvalidateModuleCache, Unlock, Leave
<1>10. ASSUME NEW t \in Threads, InitEnter(t) PROVE CleanupInv'
  BY <1>10 DEF InitEnter, Enter
<1>11. ASSUME NEW t \in Threads, InitAlready(t) PROVE CleanupInv'
  BY <1>11 DEF InitAlready, Unlock, Leave
<1>12. ASSUME NEW t \in Threads, InitFails(t) PROVE CleanupInv'
  BY <1>12 DEF InitFails, Unlock, Leave
<1>13. ASSUME NEW t \in Threads, InitOpens(t) PROVE CleanupInv'
  BY <1>13 DEF InitOpens, Goto
<1>14. ASSUME NEW t \in Threads, InitHeader(t) PROVE CleanupInv'
  BY <1>14 DEF InitHeader, Unlock, Leave, WritesTo
<1>15. ASSUME NEW t \in Threads, StopEnter(t) PROVE CleanupInv'
  BY <1>15 DEF StopEnter, Enter
<1>16. ASSUME NEW t \in Threads, StopMark(t) PROVE CleanupInv'
  BY <1>16 DEF StopMark, Goto
<1>17. ASSUME NEW t \in Threads, ShutdownNothing(t) PROVE CleanupInv'
  BY <1>17 DEF ShutdownNothing, Unlock, Leave
<1>18. ASSUME NEW t \in Threads, ShutdownClose(t) PROVE CleanupInv'
  BY <1>18 DEF ShutdownClose, Goto, WritesTo
<1>19. ASSUME NEW t \in Threads, ShutdownLeak(t) PROVE CleanupInv'
  BY <1>19 DEF ShutdownLeak, Unlock, Leave
<1>20. ASSUME NEW t \in Threads, ShutdownDelete(t) PROVE CleanupInv'
  BY <1>20 DEF ShutdownDelete, Goto
<1>21. ASSUME NEW t \in Threads, JoinTimer(t) PROVE CleanupInv'
  BY <1>21 DEF JoinTimer, Goto
<1>22. ASSUME NEW t \in Threads, FreeData(t) PROVE CleanupInv'
  BY <1>22 DEF FreeData, Unlock, Leave
<1>23. ASSUME NEW t \in Threads, Exit(t) PROVE CleanupInv'
  BY <1>23 DEF Exit, Goto
<1>24. ASSUME NEW t \in Threads, AtExit(t) PROVE CleanupInv'
  BY <1>24 DEF AtExit, Enter
<1>25. ASSUME NEW t \in Threads, ProcessExit(t) PROVE process' # "parent"
  BY <1>25 DEF ProcessExit
<1>26. ASSUME NEW t \in Threads, ForkParent(t) PROVE CleanupInv'
  BY <1>26 DEF ForkParent
<1>27. ASSUME NEW t \in Threads, ForkChild(t) PROVE process' # "parent"
  BY <1>27 DEF ForkChild
<1>28. ASSUME NEW t \in Threads, StartThread(t) PROVE CleanupInv'
  BY <1>28 DEF StartThread, Goto
<1>29. ASSUME NEW g \in Gens, TimerLoop(g) PROVE CleanupInv'
  BY <1>29 DEF TimerLoop
<1>30. ASSUME NEW g \in Gens, TimerTryLock(g) PROVE CleanupInv'
  BY <1>30 DEF TimerTryLock
<1>31. ASSUME NEW g \in Gens, TimerGiveUp(g) PROVE CleanupInv'
  BY <1>31 DEF TimerGiveUp
<1>32. ASSUME NEW g \in Gens, TimerWrite(g) PROVE CleanupInv'
  BY <1>32 DEF TimerWrite, WritesTo
<1>33. CASE UNCHANGED vars
  BY <1>33 DEF vars
<1> HIDE DEF TypeOK, LockInv, GuardInv, DataInv, OpInv, CleanupInv
<1> QED
  BY <1>1, <1>2, <1>3, <1>4, <1>5, <1>6, <1>7, <1>8, <1>9, <1>10, <1>11,
     <1>12, <1>13, <1>14, <1>15, <1>16, <1>17, <1>18, <1>19, <1>20, <1>21, <1>22,
     <1>23, <1>24, <1>25, <1>26, <1>27, <1>28, <1>29, <1>30, <1>31, <1>32, <1>33
     DEF Next, Operation, Call, Timer, Gone

\* A module list that is out of date is marked dirty, or its session ends.
LEMMA ListInvStep ==
    ASSUME SingleController, TypeOK, LockInv, GuardInv, DataInv, OpInv, CleanupInv, ListInv,
           process = "parent", [Next]_vars
    PROVE  process' = "parent" => ListInv'
<1> USE DEF TypeOK, LockInv, GuardInv, DataInv, OpInv, CleanupInv, ListInv, Unreported, SingleController,
            Stopping, Holding, RecordOps, Gens, Free, Null, flags, session, stream, thread, proc
<1>1. ASSUME NEW t \in Threads, TryLock(t) PROVE ListInv'
  BY <1>1 DEF TryLock, Goto
<1>2. ASSUME NEW t \in Threads, GiveUp(t) PROVE ListInv'
  BY <1>2 DEF GiveUp, Leave
<1>3. ASSUME NEW t \in Threads, NEW o \in RecordOps, Record(t, o) PROVE ListInv'
  BY <1>3 DEF Record, Enter
<1>4. ASSUME NEW t \in Threads, HandleRecord(t) PROVE ListInv'
  BY <1>4 DEF HandleRecord, Unlock, Leave, WritesTo, UpdateModuleCache
<1>5. ASSUME NEW t \in Threads, Pause(t) PROVE ListInv'
  BY <1>5 DEF Pause
<1>6. ASSUME NEW t \in Threads, Resume(t) PROVE ListInv'
  BY <1>6 DEF Resume
<1>7. ASSUME NEW t \in Threads, ChangeModules(t) PROVE ListInv'
  BY <1>7 DEF ChangeModules, Goto
<1>8. ASSUME NEW t \in Threads, Invalidate(t) PROVE ListInv'
  BY <1>8 DEF Invalidate, Enter
<1>9. ASSUME NEW t \in Threads, InvalidateModuleCache(t) PROVE ListInv'
  BY <1>9 DEF InvalidateModuleCache, Unlock, Leave
<1>10. ASSUME NEW t \in Threads, InitEnter(t) PROVE ListInv'
  BY <1>10 DEF InitEnter, Enter
<1>11. ASSUME NEW t \in Threads, InitAlready(t) PROVE ListInv'
  BY <1>11 DEF InitAlready, Unlock, Leave
<1>12. ASSUME NEW t \in Threads, InitFails(t) PROVE ListInv'
  BY <1>12 DEF InitFails, Unlock, Leave
<1>13. ASSUME NEW t \in Threads, InitOpens(t) PROVE ListInv'
  BY <1>13 DEF InitOpens, Goto
<1>14. ASSUME NEW t \in Threads, InitHeader(t) PROVE ListInv'
  BY <1>14 DEF InitHeader, Unlock, Leave, WritesTo
<1>15. ASSUME NEW t \in Threads, StopEnter(t) PROVE ListInv'
  BY <1>15 DEF StopEnter, Enter
<1>16. ASSUME NEW t \in Threads, StopMark(t) PROVE ListInv'
  BY <1>16 DEF StopMark, Goto
<1>17. ASSUME NEW t \in Threads, ShutdownNothing(t) PROVE ListInv'
  BY <1>17 DEF ShutdownNothing, Unlock, Leave
<1>18. ASSUME NEW t \in Threads, ShutdownClose(t) PROVE ListInv'
  BY <1>18 DEF ShutdownClose, Goto, WritesTo
<1>19. ASSUME NEW t \in Threads, ShutdownLeak(t) PROVE ListInv'
  BY <1>19 DEF ShutdownLeak, Unlock, Leave
<1>20. ASSUME NEW t \in Threads, ShutdownDelete(t) PROVE ListInv'
  BY <1>20 DEF ShutdownDelete, Goto
<1>21. ASSUME NEW t \in Threads, JoinTimer(t) PROVE ListInv'
  BY <1>21 DEF JoinTimer, Goto
<1>22. ASSUME NEW t \in Threads, FreeData(t) PROVE ListInv'
  BY <1>22 DEF FreeData, Unlock, Leave
<1>23. ASSUME NEW t \in Threads, Exit(t) PROVE ListInv'
  BY <1>23 DEF Exit, Goto
<1>24. ASSUME NEW t \in Threads, AtExit(t) PROVE ListInv'
  BY <1>24 DEF AtExit, Enter
<1>25. ASSUME NEW t \in Threads, ProcessExit(t) PROVE process' # "parent"
  BY <1>25 DEF ProcessExit
<1>26. ASSUME NEW t \in Threads, ForkParent(t) PROVE ListInv'
  BY <1>26 DEF ForkParent
<1>27. ASSUME NEW t \in Threads, ForkChild(t) PROVE process' # "parent"
  BY <1>27 DEF ForkChild
<1>28. ASSUME NEW t \in Threads, StartThread(t) PROVE ListInv'
  BY <1>28 DEF StartThread, Goto
<1>29. ASSUME NEW g \in Gens, TimerLoop(g) PROVE ListInv'
  BY <1>29 DEF TimerLoop
<1>30. ASSUME NEW g \in Gens, TimerTryLock(g) PROVE ListInv'
  BY <1>30 DEF TimerTryLock
<1>31. ASSUME NEW g \in Gens, TimerGiveUp(g) PROVE ListInv'
  BY <1>31 DEF TimerGiveUp
<1>32. ASSUME NEW g \in Gens, TimerWrite(g) PROVE ListInv'
  BY <1>32 DEF TimerWrite, WritesTo
<1>33. CASE UNCHANGED vars
  BY <1>33 DEF vars
<1> HIDE DEF TypeOK, LockInv, GuardInv, DataInv, OpInv, CleanupInv, ListInv
<1> QED
  BY <1>1, <1>2, <1>3, <1>4, <1>5, <1>6, <1>7, <1>8, <1>9, <1>10, <1>11,
     <1>12, <1>13, <1>14, <1>15, <1>16, <1>17, <1>18, <1>19, <1>20, <1>21, <1>22,
     <1>23, <1>24, <1>25, <1>26, <1>27, <1>28, <1>29, <1>30, <1>31, <1>32, <1>33
     DEF Next, Operation, Call, Timer, Gone

\* No process becomes the parent.
LEMMA StaysParent == ASSUME [Next]_vars, process' = "parent" PROVE process = "parent"
BY DEF Next, vars, proc, Operation, Call, Timer, Gone, TryLock, GiveUp, Record, HandleRecord,
       Pause, Resume, ChangeModules, Invalidate, InvalidateModuleCache, InitEnter, InitAlready,
       InitFails, InitOpens, InitHeader, StopEnter, StopMark, ShutdownNothing, ShutdownClose,
       ShutdownLeak, ShutdownDelete, JoinTimer, FreeData, Exit, AtExit, ProcessExit, ForkParent,
       ForkChild, StartThread, TimerLoop, TimerTryLock, TimerGiveUp, TimerWrite

\* The three parts hold in every reachable state of the parent.
LEMMA SessionInvariance == ASSUME SingleController PROVE Spec => []SessionInv
<1>1. Init => SessionInv
  BY DEF Init, SessionInv, OpInv, CleanupInv, ListInv, HooksBalanced, Stopping
<1>2. ASSUME IInv, SessionInv, [Next]_vars PROVE SessionInv'
  <2> SUFFICES ASSUME process' = "parent" PROVE OpInv' /\ CleanupInv' /\ ListInv'
    BY DEF SessionInv
  <2>1. process = "parent"
    BY <1>2, StaysParent
  <2>2. OpInv /\ CleanupInv /\ ListInv
    BY <1>2, <2>1 DEF SessionInv
  <2>3. OpInv'
    BY <1>2, <2>1, <2>2, OpInvStep DEF IInv
  <2>4. CleanupInv'
    BY <1>2, <2>1, <2>2, CleanupInvStep DEF IInv
  <2>5. ListInv'
    BY <1>2, <2>1, <2>2, ListInvStep DEF IInv
  <2> QED
    BY <2>3, <2>4, <2>5
<1> QED
  BY Invariance, <1>1, <1>2, PTL DEF Spec

\* Outside the lock a session is complete or gone: whichever of heaptrack_stop
\* and exit() comes first, the hooks go with the data, and a forced cleanup
\* leaves neither. A second controller could break it (see ForcedCleanupDone).
THEOREM SessionsEnd == ASSUME SingleController PROVE Spec => []SessionsTornDown
<1>1. IInv /\ SessionInv => SessionsTornDown
  BY DEF IInv, LockInv, SessionInv, CleanupInv, SessionsTornDown, ForcedCleanupDone, Stopping,
         Holding, Free
<1> QED
  BY Invariance, SessionInvariance, <1>1, PTL

\* Unless a module change is just being reported, the module list of an open
\* stream is up to date or marked to be written again, whatever writes failed and
\* whichever heaptrack_invalidate_module_cache gave up waiting for the lock.
THEOREM ListNeverStale == ASSUME SingleController PROVE Spec => []ModuleListCurrent
<1>1. IInv /\ SessionInv => ModuleListCurrent
  BY DEF IInv, LockInv, TypeOK, SessionInv, CleanupInv, ListInv, Unreported, ModuleListCurrent,
         Stopping, Holding, Free, Gens, Null
<1> QED
  BY Invariance, SessionInvariance, <1>1, PTL
=============================================================================
