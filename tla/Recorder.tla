------------------------------ MODULE Recorder ------------------------------
(***************************************************************************)
(* What the libraries that intercept calls see of libheaptrack.cpp: the    *)
(* lock an operation holds, whether there is a LockedData object, and the  *)
(* flag that lets waiting threads give up. HeapTrack.tla has the details.  *)
(***************************************************************************)
CONSTANT Threads        \* the application's threads

ASSUME ThreadsAssumption == "free" \notin Threads

VARIABLES
    lock,               \* the thread that holds HeapTrack::lock(), or "free"
    s_data,             \* whether there is a LockedData object
    s_forceCleanup,
    pc                  \* where each thread is in a call of heaptrack

recorder == <<lock, s_data, s_forceCleanup>>

RecorderInit ==
    /\ lock = "free" /\ s_data = FALSE /\ s_forceCleanup = FALSE
    /\ pc = [t \in Threads |-> "idle"]

At(t, place) == pc[t] = place
Goto(t, place) == pc' = [pc EXCEPT ![t] = place]

TakeLock(t) == lock = "free" /\ lock' = t
ReleaseLock == lock' = "free"

\* An operation that waits returns when heaptrack is being stopped.
GiveUp(t, places) ==
    /\ pc[t] \in places /\ lock # "free" /\ s_forceCleanup
    /\ Goto(t, "idle") /\ UNCHANGED recorder
=============================================================================
