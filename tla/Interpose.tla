------------------------------ MODULE Interpose ------------------------------
(***************************************************************************)
(* heaptrack_interpose.cpp: on macOS dyld itself leads the allocation      *)
(* functions of all images to replacements, which record only while a flag *)
(* is set. What they do with the allocator is in AllocStream; here every   *)
(* record finds the list of images as MachModuleCache leaves it.           *)
(***************************************************************************)
EXTENDS MachModuleCache

VARIABLES
    isInitialized,
    constructed         \* the constructor of the library has run

interposeVars == <<machVars, isInitialized, constructed>>

InterposeInit == MachInit /\ isInitialized = FALSE /\ constructed = FALSE

\* initialize, the constructor: heaptrack_init registers the callbacks, which are
\* called for the images that are there. Without a file nothing else happens.
Construct ==
    /\ ~ constructed /\ constructed' = TRUE
    /\ AddLoaded /\ s_moduleCacheDirty' = TRUE
    /\ s_data' \in BOOLEAN /\ isInitialized' = s_data'
    /\ UNCHANGED <<lock, s_forceCleanup, pc, loaded, m_mutex, listed, changing>>

\* A replacement of malloc, free and so on asks shouldTrack.
Replacement(t) ==
    /\ At(t, "idle") /\ isInitialized /\ Goto(t, "record")
    /\ UNCHANGED <<recorder, interposeVars>>

\* shutdownTracking, at exit: only once.
ShutdownTracking(t) ==
    /\ At(t, "idle") /\ isInitialized /\ isInitialized' = FALSE /\ Goto(t, "stop")
    /\ UNCHANGED <<recorder, machVars, constructed>>

\* heaptrack_stop, which calls trackingStopped as it deletes its data.
StopTracking(t) ==
    /\ At(t, "stop") /\ TakeLock(t) /\ s_forceCleanup' = TRUE /\ Goto(t, "shutdown")
    /\ UNCHANGED <<s_data, interposeVars>>

TrackingStopped(t) ==
    /\ At(t, "shutdown") /\ ReleaseLock /\ s_data' = FALSE /\ isInitialized' = FALSE
    /\ Goto(t, "idle") /\ UNCHANGED <<s_forceCleanup, machVars, constructed>>

NothingRecorded(t) == GiveUp(t, {"record"}) /\ UNCHANGED interposeVars

InterposeNext ==
    \/ Construct
    \/ /\ constructed
       /\ \/ MachNext /\ UNCHANGED <<isInitialized, constructed>>
          \/ \E t \in Threads :
              \/ Replacement(t) \/ ShutdownTracking(t) \/ StopTracking(t) \/ TrackingStopped(t)
              \/ NothingRecorded(t)
=============================================================================
