------------------------- MODULE AllocStreamProofs -------------------------
(***************************************************************************)
(* Theorems about AllocStream, for any sets of threads and addresses. They *)
(* follow from one inductive invariant: every allocated address is either  *)
(* in the application's hands or in transit in exactly one hook, and, when *)
(* realloc runs under the recorder's lock, the addresses live in the       *)
(* stream are those in the application's hands that tracking saw, but for  *)
(* the one that a realloc in progress releases.                            *)
(***************************************************************************)
EXTENDS AllocStream, TLAPS

\* The address that only thread t's hook knows about.
Transit(t) == IF pc[t] = "free" THEN ptrIn[t] ELSE ptrOut[t]

\* Who owns what: the application, or one hook.
OwnerInv ==
    /\ held \subseteq allocated
    /\ \A t \in Threads : Transit(t) \in (allocated \ held) \cup {Nil}
    /\ \A a \in allocated \ held : \E t \in Threads : Transit(t) = a
    /\ \A t, u \in Threads : t # u /\ Transit(t) # Nil => Transit(t) # Transit(u)
    /\ \A t \in Threads : /\ pc[t] \in {"idle", "free"} => ptrOut[t] = Nil
                          /\ pc[t] = "realloc" => ptrOut[t] # Nil

\* Addresses of unknown origin are allocated, and no hook is about to hand
\* one out.
BeforeInv ==
    /\ before \subseteq allocated
    /\ \A t \in Threads : pc[t] # "free" => Transit(t) \notin before

\* The lock is held by the one thread that is inside realloc.
BusyInv ==
    /\ busy => \E t \in Threads : pc[t] = "realloc"
    /\ \A t, u \in Threads : pc[t] = "realloc" /\ pc[u] = "realloc" => t = u
    /\ \A t \in Threads : pc[t] = "realloc" => busy

\* What is in the application's hands is live, and nothing was live twice
\* unless realloc(p, 0) left lines behind.
LiveInv ==
    /\ ~ busy => held \ before \subseteq live
    /\ \A t \in Threads : pc[t] = "realloc" => held \ before \subseteq live \ {ptrIn[t]}

\* Nothing else is live.
OnlyLiveInv ==
    /\ ~ busy => live \subseteq held \ before
    /\ \A t \in Threads : pc[t] = "realloc" => live \ {ptrIn[t]} \subseteq held \ before
    /\ replaced = {}

\* However realloc is hooked, a live address is in the application's hands or
\* one that a realloc in progress still has to write the - line for.
PendingInv ==
    \A a \in live : \/ a \in held \ before
                    \/ \E t \in Threads : pc[t] = "realloc" /\ ptrIn[t] = a

IInv ==
    /\ TypeOK /\ OwnerInv /\ BeforeInv
    /\ reallocLocked => BusyInv /\ LiveInv
    /\ reallocLocked /\ ~ zeroFrees => OnlyLiveInv
    /\ ~ zeroFrees => PendingInv
USE AllocStreamAssumption

\* Each part of IInv holds initially.
LEMMA InitIInv == ASSUME Init PROVE IInv
<1> USE DEF Init, Transit
<1>1. TypeOK
  BY DEF TypeOK
<1>2. OwnerInv /\ BeforeInv
  BY DEF OwnerInv, BeforeInv
<1>3. BusyInv
  BY DEF BusyInv
<1>4. LiveInv /\ OnlyLiveInv
  BY DEF LiveInv, OnlyLiveInv
<1>5. PendingInv
  BY DEF PendingInv
<1> QED
  BY <1>1, <1>2, <1>3, <1>4, <1>5 DEF IInv

\* The variables keep their types.
LEMMA TypeOKStep == ASSUME TypeOK, [Next]_vars PROVE TypeOK'
<1> USE DEF TypeOK, heap, stream, Step
<1>0. reallocLocked' \in BOOLEAN /\ zeroFrees' \in BOOLEAN
  BY DEF Next, vars, setup
<1>1. ASSUME NEW t \in Threads, Malloc(t) PROVE TypeOK'
  BY <1>0, <1>1 DEF Malloc, Fresh
<1>2. ASSUME NEW t \in Threads, RecordMalloc(t) PROVE TypeOK'
  BY <1>0, <1>2 DEF RecordMalloc, WriteLines
<1>3. ASSUME NEW t \in Threads, RecordFree(t) PROVE TypeOK'
  BY <1>0, <1>3 DEF RecordFree, WriteLines
<1>4. ASSUME NEW t \in Threads, Free(t) PROVE TypeOK'
  BY <1>0, <1>4 DEF Free
<1>5. ASSUME NEW t \in Threads, Realloc(t) PROVE TypeOK'
  <2>1. CallRealloc(t) /\ busy' \in BOOLEAN
    BY <1>0, <1>5 DEF Realloc, ReallocUnderLock, ReallocBeforeLock
  <2> QED
    BY <1>0, <2>1 DEF CallRealloc, ReallocResults, Fresh
<1>6. ASSUME NEW t \in Threads, RecordRealloc(t) PROVE TypeOK'
  BY <1>0, <1>6 DEF RecordRealloc, WriteLines
<1>7. ASSUME NEW t \in Threads, ReallocZero(t) PROVE TypeOK'
  BY <1>0, <1>7 DEF ReallocZero
<1>8. CASE UNCHANGED vars
  BY <1>0, <1>8 DEF vars
<1> QED
  BY <1>1, <1>2, <1>3, <1>4, <1>5, <1>6, <1>7, <1>8 DEF Next, Hook, FreeHook

\* Every allocated address keeps exactly one owner.
LEMMA OwnerStep == ASSUME TypeOK, OwnerInv, [Next]_vars PROVE OwnerInv'
<1> USE DEF TypeOK, OwnerInv, Transit, heap, stream, Step
<1>1. ASSUME NEW t \in Threads, Malloc(t) PROVE OwnerInv'
  BY <1>1 DEF Malloc, Fresh
<1>2. ASSUME NEW t \in Threads, RecordMalloc(t) PROVE OwnerInv'
  BY <1>2 DEF RecordMalloc, WriteLines
<1>3. ASSUME NEW t \in Threads, RecordFree(t) PROVE OwnerInv'
  BY <1>3 DEF RecordFree, WriteLines
<1>4. ASSUME NEW t \in Threads, Free(t) PROVE OwnerInv'
  BY <1>4 DEF Free
<1>5. ASSUME NEW t \in Threads, Realloc(t) PROVE OwnerInv'
  BY <1>5 DEF Realloc, ReallocUnderLock, ReallocBeforeLock, CallRealloc, ReallocResults, Fresh
<1>6. ASSUME NEW t \in Threads, RecordRealloc(t) PROVE OwnerInv'
  BY <1>6 DEF RecordRealloc, WriteLines
<1>7. ASSUME NEW t \in Threads, ReallocZero(t) PROVE OwnerInv'
  BY <1>7 DEF ReallocZero
<1>8. CASE UNCHANGED vars
  BY <1>8 DEF vars
<1> QED
  BY <1>1, <1>2, <1>3, <1>4, <1>5, <1>6, <1>7, <1>8 DEF Next, Hook, FreeHook

\* Addresses of unknown origin stay apart from those a hook hands out.
LEMMA BeforeStep == ASSUME TypeOK, OwnerInv, BeforeInv, [Next]_vars PROVE BeforeInv'
<1> USE DEF TypeOK, OwnerInv, BeforeInv, Transit, heap, stream, Step
<1>1. ASSUME NEW t \in Threads, Malloc(t) PROVE BeforeInv'
  BY <1>1 DEF Malloc, Fresh
<1>2. ASSUME NEW t \in Threads, RecordMalloc(t) PROVE BeforeInv'
  BY <1>2 DEF RecordMalloc, WriteLines
<1>3. ASSUME NEW t \in Threads, RecordFree(t) PROVE BeforeInv'
  BY <1>3 DEF RecordFree, WriteLines
<1>4. ASSUME NEW t \in Threads, Free(t) PROVE BeforeInv'
  BY <1>4 DEF Free
<1>5. ASSUME NEW t \in Threads, Realloc(t) PROVE BeforeInv'
  BY <1>5 DEF Realloc, ReallocUnderLock, ReallocBeforeLock, CallRealloc, ReallocResults, Fresh
<1>6. ASSUME NEW t \in Threads, RecordRealloc(t) PROVE BeforeInv'
  BY <1>6 DEF RecordRealloc, WriteLines
<1>7. ASSUME NEW t \in Threads, ReallocZero(t) PROVE BeforeInv'
  BY <1>7 DEF ReallocZero
<1>8. CASE UNCHANGED vars
  BY <1>8 DEF vars
<1> QED
  BY <1>1, <1>2, <1>3, <1>4, <1>5, <1>6, <1>7, <1>8 DEF Next, Hook, FreeHook

\* The lock stays with the thread inside realloc.
LEMMA BusyStep == ASSUME reallocLocked, TypeOK, BusyInv, [Next]_vars PROVE BusyInv'
<1> USE DEF TypeOK, BusyInv, heap, stream, Step
<1>1. ASSUME NEW t \in Threads, Malloc(t) PROVE BusyInv'
  BY <1>1 DEF Malloc, Fresh
<1>2. ASSUME NEW t \in Threads, RecordMalloc(t) PROVE BusyInv'
  BY <1>2 DEF RecordMalloc, WriteLines
<1>3. ASSUME NEW t \in Threads, RecordFree(t) PROVE BusyInv'
  BY <1>3 DEF RecordFree, WriteLines
<1>4. ASSUME NEW t \in Threads, Free(t) PROVE BusyInv'
  BY <1>4 DEF Free
<1>5. ASSUME NEW t \in Threads, Realloc(t) PROVE BusyInv'
  BY <1>5 DEF Realloc, ReallocUnderLock, ReallocBeforeLock, CallRealloc, ReallocResults, Fresh
<1>6. ASSUME NEW t \in Threads, RecordRealloc(t) PROVE BusyInv'
  BY <1>6 DEF RecordRealloc, WriteLines
<1>7. ASSUME NEW t \in Threads, ReallocZero(t) PROVE BusyInv'
  BY <1>7 DEF ReallocZero
<1>8. CASE UNCHANGED vars
  BY <1>8 DEF vars
<1> QED
  BY <1>1, <1>2, <1>3, <1>4, <1>5, <1>6, <1>7, <1>8 DEF Next, Hook, FreeHook

\* What the application holds stays live.
LEMMA LiveStep == ASSUME reallocLocked, TypeOK, OwnerInv, BeforeInv, BusyInv, LiveInv, [Next]_vars PROVE LiveInv'
<1> USE DEF TypeOK, OwnerInv, BeforeInv, BusyInv, LiveInv, Transit, heap, stream, Step
<1>1. ASSUME NEW t \in Threads, Malloc(t) PROVE LiveInv'
  BY <1>1 DEF Malloc, Fresh
<1>2. ASSUME NEW t \in Threads, RecordMalloc(t) PROVE LiveInv'
  BY <1>2 DEF RecordMalloc, WriteLines
<1>3. ASSUME NEW t \in Threads, RecordFree(t) PROVE LiveInv'
  BY <1>3 DEF RecordFree, WriteLines
<1>4. ASSUME NEW t \in Threads, Free(t) PROVE LiveInv'
  BY <1>4 DEF Free
<1>5. ASSUME NEW t \in Threads, Realloc(t) PROVE LiveInv'
  BY <1>5 DEF Realloc, ReallocUnderLock, ReallocBeforeLock, CallRealloc, ReallocResults, Fresh
<1>6. ASSUME NEW t \in Threads, RecordRealloc(t) PROVE LiveInv'
  BY <1>6 DEF RecordRealloc, WriteLines
<1>7. ASSUME NEW t \in Threads, ReallocZero(t) PROVE LiveInv'
  BY <1>7 DEF ReallocZero
<1>8. CASE UNCHANGED vars
  BY <1>8 DEF vars
<1> QED
  BY <1>1, <1>2, <1>3, <1>4, <1>5, <1>6, <1>7, <1>8 DEF Next, Hook, FreeHook

\* Without realloc(p, 0) nothing else becomes live, and no + line is a second one.
LEMMA OnlyLiveStep == ASSUME reallocLocked, ~ zeroFrees, TypeOK, OwnerInv, BeforeInv, BusyInv, OnlyLiveInv, [Next]_vars PROVE OnlyLiveInv'
<1> USE DEF TypeOK, OwnerInv, BeforeInv, BusyInv, OnlyLiveInv, Transit, heap, stream, Step
<1>1. ASSUME NEW t \in Threads, Malloc(t) PROVE OnlyLiveInv'
  BY <1>1 DEF Malloc, Fresh
<1>2. ASSUME NEW t \in Threads, RecordMalloc(t) PROVE OnlyLiveInv'
  BY <1>2 DEF RecordMalloc, WriteLines
<1>3. ASSUME NEW t \in Threads, RecordFree(t) PROVE OnlyLiveInv'
  BY <1>3 DEF RecordFree, WriteLines
<1>4. ASSUME NEW t \in Threads, Free(t) PROVE OnlyLiveInv'
  BY <1>4 DEF Free
<1>5. ASSUME NEW t \in Threads, Realloc(t) PROVE OnlyLiveInv'
  <2>1. ~ busy /\ \A u \in Threads : pc[u] # "realloc"
    BY <1>5 DEF Realloc, ReallocUnderLock, ReallocBeforeLock
  <2>2. live' = live /\ replaced' = replaced /\ busy' /\ pc' = [pc EXCEPT ![t] = "realloc"]
    BY <1>5 DEF Realloc, ReallocUnderLock, ReallocBeforeLock, CallRealloc
  <2>3. PICK a \in held \cup {Nil} :
          /\ held' = held \ {a}
          /\ before' = before \ {a}
          /\ ptrIn' = [ptrIn EXCEPT ![t] = a]
    BY <1>5 DEF Realloc, ReallocUnderLock, ReallocBeforeLock, CallRealloc
  <2>4. ptrIn'[t] = a /\ live \ {a} \subseteq held' \ before'
    BY <2>1, <2>3
  <2> QED
    BY <2>1, <2>2, <2>4
<1>6. ASSUME NEW t \in Threads, RecordRealloc(t) PROVE OnlyLiveInv'
  BY <1>6 DEF RecordRealloc, WriteLines
<1>7. ASSUME NEW t \in Threads, ReallocZero(t) PROVE OnlyLiveInv'
  BY <1>7 DEF ReallocZero
<1>8. CASE UNCHANGED vars
  BY <1>8 DEF vars
<1> QED
  BY <1>1, <1>2, <1>3, <1>4, <1>5, <1>6, <1>7, <1>8 DEF Next, Hook, FreeHook

\* A live address that leaves the application's hands has a hook to account for it.
LEMMA PendingStep == ASSUME ~ zeroFrees, TypeOK, OwnerInv, BeforeInv, PendingInv, [Next]_vars PROVE PendingInv'
<1> USE DEF TypeOK, OwnerInv, BeforeInv, PendingInv, Transit, heap, stream, Step
<1>1. ASSUME NEW t \in Threads, Malloc(t) PROVE PendingInv'
  BY <1>1 DEF Malloc, Fresh
<1>2. ASSUME NEW t \in Threads, RecordMalloc(t) PROVE PendingInv'
  BY <1>2 DEF RecordMalloc, WriteLines
<1>3. ASSUME NEW t \in Threads, RecordFree(t) PROVE PendingInv'
  BY <1>3 DEF RecordFree, WriteLines
<1>4. ASSUME NEW t \in Threads, Free(t) PROVE PendingInv'
  BY <1>4 DEF Free
<1>5. ASSUME NEW t \in Threads, Realloc(t) PROVE PendingInv'
  BY <1>5 DEF Realloc, ReallocUnderLock, ReallocBeforeLock, CallRealloc, ReallocResults, Fresh
<1>6. ASSUME NEW t \in Threads, RecordRealloc(t) PROVE PendingInv'
  BY <1>6 DEF RecordRealloc, WriteLines
<1>7. ASSUME NEW t \in Threads, ReallocZero(t) PROVE PendingInv'
  BY <1>7 DEF ReallocZero
<1>8. CASE UNCHANGED vars
  BY <1>8 DEF vars
<1> QED
  BY <1>1, <1>2, <1>3, <1>4, <1>5, <1>6, <1>7, <1>8 DEF Next, Hook, FreeHook

\* IInv holds in every reachable state.
THEOREM Invariance == Spec => []IInv
<1>1. ASSUME IInv, [Next]_vars PROVE IInv'
  <2>1. TypeOK' /\ OwnerInv' /\ BeforeInv'
    BY <1>1, TypeOKStep, OwnerStep, BeforeStep DEF IInv
  <2>2. reallocLocked' = reallocLocked /\ zeroFrees' = zeroFrees
    BY <1>1 DEF Next, setup, vars
  <2>3. reallocLocked => BusyInv' /\ LiveInv'
    BY <1>1, BusyStep, LiveStep DEF IInv
  <2>4. reallocLocked /\ ~ zeroFrees => OnlyLiveInv'
    BY <1>1, OnlyLiveStep DEF IInv
  <2>5. ~ zeroFrees => PendingInv'
    BY <1>1, PendingStep DEF IInv
  <2> QED
    BY <2>1, <2>2, <2>3, <2>4, <2>5 DEF IInv
<1> QED
  BY InitIInv, <1>1, PTL DEF Spec

\* The hooks keep the stream free of null pointers and of unknown states,
\* whichever way realloc is hooked.
THEOREM TypeCorrect == Spec => []TypeOK
<1>1. IInv => TypeOK
  BY DEF IInv
<1> QED
  BY Invariance, <1>1, PTL

\* No allocation is lost in the reader's map: with the locked realloc no address
\* gets a + line while it is live, for any number of threads.
THEOREM Consistent == Spec => []NothingReplaced
<1>1. IInv => NothingReplaced
  BY DEF IInv, OnlyLiveInv, NothingReplaced, OutputConsistent
<1> QED
  BY Invariance, <1>1, PTL

\* The stream never describes memory that was released.
THEOREM NoFalseLeaks == Spec => []LiveIsAllocated
<1>1. IInv => LiveIsAllocated
  BY DEF IInv, OnlyLiveInv, OwnerInv, LiveIsAllocated
<1> QED
  BY Invariance, <1>1, PTL

\* Between hooks the stream and the heap agree.
THEOREM Faithful == Spec => []StreamMatchesHeap
<1>1. IInv => StreamMatchesHeap
  BY DEF IInv, TypeOK, OwnerInv, BusyInv, LiveInv, OnlyLiveInv, Transit, StreamMatchesHeap,
         OutputFaithful, Quiet
<1> QED
  BY Invariance, <1>1, PTL

\* What the locked realloc promises, in one.
THEOREM StreamFaithful == Spec => []StreamIsFaithful
<1>1. NothingReplaced /\ StreamMatchesHeap /\ LiveIsAllocated => StreamIsFaithful
  BY DEF StreamIsFaithful
<1> QED
  BY Consistent, Faithful, NoFalseLeaks, <1>1, PTL

\* Even with realloc(p, 0), every leak is in the stream.
THEOREM AllLeaksReported == Spec => []LeaksReported
<1>1. IInv => LeaksReported
  BY DEF IInv, TypeOK, OwnerInv, BusyInv, LiveInv, Transit, LeaksReported, Quiet
<1> QED
  BY Invariance, <1>1, PTL

\* The unlocked realloc of heaptrack_inject.cpp can lose an allocation, but it
\* does not invent a leak.
THEOREM NoInventedLeaks == Spec => []OnlyLeaksReported
<1>1. IInv => OnlyLeaksReported
  BY DEF IInv, OwnerInv, PendingInv, OnlyLeaksReported, Quiet
<1> QED
  BY Invariance, <1>1, PTL
=============================================================================
