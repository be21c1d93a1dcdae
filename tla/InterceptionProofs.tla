-------------------------- MODULE InterceptionProofs --------------------------
(***************************************************************************)
(* Proofs about the libraries that stand between the program and its       *)
(* allocator, for any number of threads, modules, images and entries.      *)
(*                                                                         *)
(* The injected library: a module has all the hooks that the size in the   *)
(* cache makes visible, or none (HooksInv), whatever is opened, closed and *)
(* replaced on disk meanwhile. While heaptrack records none may be left    *)
(* without; that needs a single controller, because two can start and stop *)
(* across each other (CompleteInv, the theorem HooksInPlace).              *)
(*                                                                         *)
(* The interposed one: the table follows dyld up to the callback under way *)
(* (TableInv), and a list that is neither dirty nor being written is the   *)
(* table (ListInv). Between the two stands only a thread that has changed  *)
(* the table and not yet set the flag.                                     *)
(*                                                                         *)
(* The preloaded one: the first call of a wrapper is a script. It gets     *)
(* calloc from the pool and then from dlsym, takes the lock, looks all     *)
(* functions up in order and makes the file (FirstCall). dlsym allocates   *)
(* in between, so that the script may be held up by one call of a wrapper  *)
(* at a time. That this call has its original follows from the order: what *)
(* dlsym needs when it fails is looked up before the first function that   *)
(* may be missing.                                                         *)
(***************************************************************************)
EXTENDS Interception, FunctionTheorems, SequenceTheorems, WellFoundedInduction, TLAPS

-----------------------------------------------------------------------------
(* The hooks of the injected library.                                      *)

\* The size in the cache decides which hooks a module gets.
Cached(m) == {s \in Symbols(image[m]) : IndexOf(s) < symtabCache[m]} \cap HookNames

Complete(m) == m \in Skipped \/ (m \in DOMAIN symtabCache /\ hooked[m] = Cached(m))

ModuleTypes ==
    /\ DOMAIN pc = Threads /\ s_data \in BOOLEAN
    /\ readable \subseteq Plugins /\ DOMAIN disk = Plugins /\ \A m \in Plugins : disk[m] \in Versions
    /\ \A m \in DOMAIN image : image[m] \in 1 .. Len(Names)
    /\ \A m \in DOMAIN symtabCache : symtabCache[m] \in Nat
    /\ DOMAIN hooked = DOMAIN image
    /\ Program \in DOMAIN image /\ image[Program] = Len(Names)
    /\ Program \in DOMAIN symtabCache => symtabCache[Program] = Len(Names)

\* A module has all the hooks the cache knows of, or none.
HooksInv ==
    \A m \in DOMAIN image :
        hooked[m] = {} \/ (m \notin Skipped /\ m \in DOMAIN symtabCache /\ hooked[m] = Cached(m))

\* The lock is held while the file is made and while heaptrack is stopped, by a controller.
HolderInv ==
    /\ lock # "free" => lock \in Threads /\ pc[lock] \in {"create_file", "shutdown"}
    /\ \A t \in Threads : pc[t] \in {"create_file", "shutdown"} => lock = t
    /\ \A t \in Threads : pc[t] \in {"init", "create_file", "shutdown"} => t \in Controllers
    /\ \A t \in Threads : pc[t] = "create_file" => ~ s_data

InjectInv ==
    /\ ModuleTypes /\ HooksInv
    /\ library = "inject" => HolderInv
    /\ library # "inject" => \A m \in DOMAIN image : hooked[m] = {}

\* Between the loader and heaptrack.
Opening == \E t \in Threads : pc[t] = "overwrite"

\* With one controller nobody gives up while heaptrack is started, so that every
\* module is complete while it records, or is about to be.
CompleteInv ==
    /\ \A t \in Threads : pc[t] \in {"init", "create_file"} => ~ s_forceCleanup
    /\ \/ s_data /\ \A t \in Threads : pc[t] # "shutdown"
       \/ \E t \in Threads : pc[t] = "create_file"
       => Opening \/ \A m \in DOMAIN image : Complete(m)

OneController == \A c, d \in Controllers : c = d

\* The place of a name in the table.
LEMMA NamesIndexed ==
    /\ Len(Names) = 5 /\ DOMAIN Names = 1 .. 5
    /\ \A i \in 1 .. 5 : IndexOf(Names[i]) = i - 1
<1>1. Len(Names) = 5 /\ DOMAIN Names = 1 .. 5
  BY DEF Names
<1>2. \A i, j \in 1 .. 5 : Names[i] = Names[j] => i = j
  BY DEF Names
<1>3. ASSUME NEW i \in 1 .. 5 PROVE IndexOf(Names[i]) = i - 1
  <2>1. (CHOOSE j \in DOMAIN Names : Names[j] = Names[i]) = i
    BY <1>1, <1>2
  <2> QED
    BY <2>1 DEF IndexOf
<1> QED
  BY <1>1, <1>3

\* A cache that knows enough symbols knows all hooks.
LEMMA EnoughCached ==
    ASSUME ModuleTypes, NEW m \in DOMAIN image, m \in DOMAIN symtabCache,
           symtabCache[m] >= image[m]
    PROVE  Cached(m) = Symbols(image[m]) \cap HookNames
<1>1. image[m] \in 1 .. 5 /\ symtabCache[m] \in Nat
  BY NamesIndexed DEF ModuleTypes
<1>2. \A i \in 1 .. image[m] : IndexOf(Names[i]) < symtabCache[m]
  BY <1>1, NamesIndexed
<1>3. \A s \in Symbols(image[m]) : IndexOf(s) < symtabCache[m]
  BY <1>2 DEF Symbols
<1> QED
  BY <1>3 DEF Cached

\* A pass over the modules: the hooks are there, or away, according to the cache.
LEMMA PassOverModules ==
    ASSUME ModuleTypes, HooksInv, NEW restore \in BOOLEAN, IteratePhdrs(restore),
           image' = image, disk' = disk, readable' = readable, DOMAIN pc' = Threads, s_data' \in BOOLEAN
    PROVE  /\ ModuleTypes' /\ HooksInv'
           /\ restore => \A m \in DOMAIN image : hooked'[m] = {}
           /\ ~ restore => \A m \in DOMAIN image : Complete(m)'
<1>1. \A m \in DOMAIN image \ Skipped :
        m \in DOMAIN symtabCache' /\ symtabCache'[m] = CachedSymtabSize(m)
  BY DEF IteratePhdrs, CachedSymtabSize
<1>2. \A m \in DOMAIN symtabCache : m \in DOMAIN symtabCache' /\ symtabCache'[m] = symtabCache[m]
  BY DEF IteratePhdrs
<1>3. \A m \in DOMAIN image \ Skipped : Found(m) = Cached(m)'
  BY <1>1 DEF Found, Cached
<1>4. \A m \in DOMAIN image : m \in DOMAIN symtabCache => Cached(m)' = Cached(m)
  BY <1>2 DEF Cached
<1>5. DOMAIN hooked' = DOMAIN image
  BY DEF IteratePhdrs
<1>6. \A m \in DOMAIN image :
        IF m \in Skipped THEN hooked'[m] = {}
        ELSE hooked'[m] = IF restore THEN {} ELSE Cached(m)'
  <2> TAKE m \in DOMAIN image
  <2>1. CASE m \in Skipped
    BY <2>1 DEF IteratePhdrs, HooksInv
  <2>2. CASE m \notin Skipped
    <3>1. hooked[m] = {} \/ hooked[m] = Cached(m)'
      BY <1>4, <2>2 DEF HooksInv
    <3>2. hooked'[m] = Redirected(m, restore)
      BY <2>2 DEF IteratePhdrs
    <3> QED
      BY <1>3, <2>2, <3>1, <3>2 DEF Redirected
  <2> QED
    BY <2>1, <2>2
<1>7. \A m \in DOMAIN symtabCache' : symtabCache'[m] \in Nat
  <2>1. \A m \in DOMAIN image : SymtabSize(m) \in Nat
    BY NamesIndexed DEF SymtabSize, ModuleTypes, Versions
  <2> QED
    BY <2>1 DEF IteratePhdrs, ModuleTypes
<1>8. Program \in DOMAIN symtabCache' => symtabCache'[Program] = Len(Names)
  BY DEF IteratePhdrs, ModuleTypes, SymtabSize
<1>9. ModuleTypes'
  BY <1>5, <1>7, <1>8 DEF ModuleTypes
<1> QED
  BY <1>1, <1>5, <1>6, <1>9 DEF HooksInv, Complete

\* The program's own dlopen leads to the hook once its hooks are complete.
LEMMA DlopenHooked ==
    ASSUME ModuleTypes, Complete(Program)
    PROVE  "dlopen" \in hooked[Program]
<1>1. Names[4] = "dlopen" /\ IndexOf(Names[4]) = 3 /\ Len(Names) = 5
  BY NamesIndexed DEF Names
<1>2. "dlopen" \in Symbols(image[Program])
  BY <1>1 DEF Symbols, ModuleTypes
<1>3. Program \notin Skipped /\ "dlopen" \in HookNames
  BY DEF Program, Skipped, HookNames
<1>4. hooked[Program] = Cached(Program) /\ symtabCache[Program] = 5
  BY <1>1, <1>3 DEF Complete, ModuleTypes
<1> QED
  BY <1>1, <1>2, <1>3, <1>4 DEF Cached

\* The program opens a module: it is loaded without hooks.
LEMMA OpenEffect ==
    ASSUME ModuleTypes, HooksInv, NEW t \in Threads, NEW p \in Plugins, Open(t, p)
    PROVE  /\ ModuleTypes' /\ HooksInv'
           /\ \A m \in DOMAIN image : m \in DOMAIN image' /\ hooked'[m] = hooked[m]
                                      /\ image'[m] = image[m]
           /\ symtabCache' = symtabCache /\ UNCHANGED recorder
           /\ pc' = [pc EXCEPT ![t] = IF "dlopen" \in hooked[Program] THEN "overwrite" ELSE "idle"]
           /\ pc[t] = "idle"
<1>1. /\ symtabCache' = symtabCache /\ UNCHANGED recorder /\ disk' = disk /\ readable' = readable
      /\ pc' = [pc EXCEPT ![t] = IF "dlopen" \in hooked[Program] THEN "overwrite" ELSE "idle"]
      /\ pc[t] = "idle"
  BY DEF Open, Goto, At, AfterOpen
<1>2. CASE p \in DOMAIN image
  <2>1. image' = image /\ hooked' = hooked
    BY <1>2 DEF Open
  <2> QED
    BY <1>1, <2>1 DEF ModuleTypes, HooksInv, Cached, recorder
<1>3. CASE p \notin DOMAIN image
  <2>1. /\ image' = [n \in DOMAIN image \cup {p} |-> IF n = p THEN disk[p] ELSE image[n]]
        /\ hooked' = [n \in DOMAIN image' |-> IF n = p THEN {} ELSE hooked[n]]
    BY <1>3 DEF Open
  <2>2. /\ DOMAIN image' = DOMAIN image \cup {p} /\ DOMAIN hooked' = DOMAIN image'
        /\ image'[p] = disk[p] /\ hooked'[p] = {}
        /\ \A m \in DOMAIN image : image'[m] = image[m] /\ hooked'[m] = hooked[m]
    BY <1>3, <2>1
  <2>3. disk[p] \in 1 .. Len(Names) /\ p # Program
    BY NamesIndexed, <1>3 DEF ModuleTypes, Versions
  <2>4. \A m \in DOMAIN image : Cached(m)' = Cached(m)
    BY <1>1, <2>2 DEF Cached
  <2>5. HooksInv'
    BY <1>1, <2>2, <2>4 DEF HooksInv
  <2>6. ModuleTypes'
    BY <1>1, <2>2, <2>3 DEF ModuleTypes, recorder
  <2> QED
    BY <1>1, <2>2, <2>5, <2>6
<1> QED
  BY <1>2, <1>3

\* The program closes a module, which may stay.
LEMMA CloseEffect ==
    ASSUME ModuleTypes, HooksInv, NEW t \in Threads, NEW p \in Plugins, Close(t, p)
    PROVE  /\ ModuleTypes' /\ HooksInv'
           /\ \A m \in DOMAIN image' : m \in DOMAIN image /\ hooked'[m] = hooked[m]
                                       /\ image'[m] = image[m]
           /\ symtabCache' = symtabCache /\ UNCHANGED recorder
           /\ pc' = [pc EXCEPT ![t] = IF "dlclose" \in hooked[Program] THEN "invalidate" ELSE "idle"]
           /\ pc[t] = "idle"
<1>1. /\ symtabCache' = symtabCache /\ UNCHANGED recorder /\ disk' = disk /\ readable' = readable
      /\ pc' = [pc EXCEPT ![t] = IF "dlclose" \in hooked[Program] THEN "invalidate" ELSE "idle"]
      /\ pc[t] = "idle"
  BY DEF Close, Goto, At
<1>2. CASE UNCHANGED <<image, hooked>>
  BY <1>1, <1>2 DEF ModuleTypes, HooksInv, Cached, recorder
<1>3. CASE ~ UNCHANGED <<image, hooked>>
  <2>1. /\ image' = [n \in DOMAIN image \ {p} |-> image[n]]
        /\ hooked' = [n \in DOMAIN image' |-> hooked[n]]
    BY <1>3 DEF Close
  <2>2. /\ DOMAIN image' = DOMAIN image \ {p} /\ DOMAIN hooked' = DOMAIN image'
        /\ \A m \in DOMAIN image' : image'[m] = image[m] /\ hooked'[m] = hooked[m]
    BY <2>1
  <2>3. p # Program
    BY InjectAssumption DEF Program
  <2>4. \A m \in DOMAIN image' : Cached(m)' = Cached(m)
    BY <1>1, <2>2 DEF Cached
  <2>5. HooksInv'
    BY <1>1, <2>2, <2>4 DEF HooksInv
  <2>6. ModuleTypes'
    BY <1>1, <2>2, <2>3 DEF ModuleTypes, recorder
  <2> QED
    BY <1>1, <2>2, <2>5, <2>6
<1> QED
  BY <1>2, <1>3

\* Every step of the injected library and the program keeps types and hooks.
LEMMA HooksStep == ASSUME ModuleTypes, HooksInv, InjectNext PROVE ModuleTypes' /\ HooksInv'
<1> DEFINE Same == UNCHANGED injectVars /\ DOMAIN pc' = Threads /\ s_data' \in BOOLEAN
<1>1. ASSUME Same PROVE ModuleTypes' /\ HooksInv'
  BY <1>1 DEF ModuleTypes, HooksInv, Cached, injectVars, modules, injected
<1>2. ASSUME NEW t \in Threads, CallInit(t) PROVE ModuleTypes' /\ HooksInv'
  BY <1>2 DEF ModuleTypes, HooksInv, Cached, CallInit, Goto, modules, injected
<1>3. ASSUME NEW t \in Threads, Initialize(t) PROVE ModuleTypes' /\ HooksInv'
  <2>1. UNCHANGED <<image, disk, readable>> /\ DOMAIN pc' = Threads /\ s_data' = s_data
    BY <1>3 DEF Initialize, Goto, modules, ModuleTypes
  <2>2. CASE s_data
    BY <1>3, <2>1, <2>2 DEF Initialize, injected, ModuleTypes, HooksInv, Cached
  <2>3. CASE ~ s_data
    BY <1>3, <2>1, <2>3, PassOverModules DEF Initialize, OverwriteSymbols, ModuleTypes
  <2> QED
    BY <2>2, <2>3
<1>4. ASSUME NEW t \in Threads, CreateFile(t) PROVE ModuleTypes' /\ HooksInv'
  <2>1. UNCHANGED <<image, disk, readable>> /\ DOMAIN pc' = Threads /\ s_data' \in BOOLEAN
    BY <1>4 DEF CreateFile, Goto, modules, ModuleTypes
  <2>2. CASE UNCHANGED injected
    BY <2>1, <2>2 DEF injected, ModuleTypes, HooksInv, Cached
  <2>3. CASE RestoreSymbols
    BY <2>1, <2>3, PassOverModules DEF RestoreSymbols
  <2> QED
    BY <1>4, <2>2, <2>3 DEF CreateFile
<1>5. ASSUME NEW t \in Threads, Stop(t) PROVE ModuleTypes' /\ HooksInv'
  BY <1>1, <1>5 DEF Stop, Goto, ModuleTypes
<1>6. ASSUME NEW t \in Threads, Shutdown(t) PROVE ModuleTypes' /\ HooksInv'
  <2>1. UNCHANGED <<image, disk, readable>> /\ DOMAIN pc' = Threads /\ s_data' \in BOOLEAN
    BY <1>6 DEF Shutdown, Goto, modules, ModuleTypes
  <2>2. CASE UNCHANGED injected
    BY <2>1, <2>2 DEF injected, ModuleTypes, HooksInv, Cached
  <2>3. CASE RestoreSymbols
    BY <2>1, <2>3, PassOverModules DEF RestoreSymbols
  <2> QED
    BY <1>6, <2>2, <2>3 DEF Shutdown
<1>7. ASSUME NEW t \in Threads, InvalidateModuleCache(t) PROVE ModuleTypes' /\ HooksInv'
  <2>1. UNCHANGED <<image, disk, readable>> /\ DOMAIN pc' = Threads /\ s_data' \in BOOLEAN
    BY <1>7 DEF InvalidateModuleCache, Goto, modules, ModuleTypes, recorder
  <2>2. CASE UNCHANGED injected
    BY <2>1, <2>2 DEF injected, ModuleTypes, HooksInv, Cached
  <2>3. CASE OverwriteSymbols
    BY <2>1, <2>3, PassOverModules DEF OverwriteSymbols
  <2> QED
    BY <1>7, <2>2, <2>3 DEF InvalidateModuleCache
<1>8. ASSUME NEW t \in Threads, StopsWaiting(t) PROVE ModuleTypes' /\ HooksInv'
  BY <1>1, <1>8 DEF StopsWaiting, GiveUp, Goto, ModuleTypes, recorder
<1>9. ASSUME NEW t \in Threads, NEW p \in Plugins, Open(t, p) \/ Close(t, p)
      PROVE  ModuleTypes' /\ HooksInv'
  BY <1>9, OpenEffect, CloseEffect
<1>10. ASSUME NEW p \in Plugins, FilesChange(p) PROVE ModuleTypes' /\ HooksInv'
  <2>1. UNCHANGED <<recorder, pc, image, hooked, symtabCache>>
    BY <1>10 DEF FilesChange, injected
  <2>2. readable' \subseteq Plugins /\ DOMAIN disk' = Plugins /\ \A m \in Plugins : disk'[m] \in Versions
    BY <1>10 DEF FilesChange, ModuleTypes, Versions
  <2> QED
    BY <2>1, <2>2 DEF ModuleTypes, HooksInv, Cached, recorder
<1> HIDE DEF Same
<1> QED
  BY <1>2, <1>3, <1>4, <1>5, <1>6, <1>7, <1>8, <1>9, <1>10 DEF InjectNext

\* Every step of the injected library keeps the lock with its holder.
LEMMA HolderStep == ASSUME ModuleTypes, HolderInv, InjectNext PROVE HolderInv'
<1> USE ThreadsAssumption DEF HolderInv, ModuleTypes
<1>1. ASSUME NEW t \in Controllers, CallInit(t) PROVE HolderInv'
  BY <1>1, InjectAssumption DEF CallInit, Goto, At
<1>2. ASSUME NEW t \in Threads, Initialize(t) PROVE HolderInv'
  BY <1>2 DEF Initialize, Goto, At, TakeLock
<1>3. ASSUME NEW t \in Threads, CreateFile(t) PROVE HolderInv'
  BY <1>3 DEF CreateFile, Goto, At, ReleaseLock
<1>4. ASSUME NEW t \in Controllers, Stop(t) PROVE HolderInv'
  BY <1>4, InjectAssumption DEF Stop, Goto, At, TakeLock
<1>5. ASSUME NEW t \in Threads, Shutdown(t) PROVE HolderInv'
  BY <1>5 DEF Shutdown, Goto, At, ReleaseLock
<1>6. ASSUME NEW t \in Threads, InvalidateModuleCache(t) \/ StopsWaiting(t) PROVE HolderInv'
  BY <1>6 DEF InvalidateModuleCache, StopsWaiting, GiveUp, Goto, At, recorder
<1>7. ASSUME NEW t \in Threads, NEW p \in Plugins, Open(t, p) \/ Close(t, p) PROVE HolderInv'
  BY <1>7 DEF Open, Close, AfterOpen, Goto, At, recorder
<1>8. ASSUME NEW p \in Plugins, FilesChange(p) PROVE HolderInv'
  BY <1>8 DEF FilesChange, recorder
<1> QED
  BY <1>1, <1>2, <1>3, <1>4, <1>5, <1>6, <1>7, <1>8, InjectAssumption DEF InjectNext

\* The other libraries leave the modules as they are.
LEMMA OtherLibraryStep ==
    ASSUME ModuleTypes, PreloadNext \/ InterposeNext
    PROVE  DOMAIN pc' = Threads /\ s_data' \in BOOLEAN
<1>1. CASE PreloadNext
  BY <1>1 DEF ModuleTypes, PreloadNext, UsePool, DlsymCallocs, DlsymFrees, Resolve, HeaptrackInit,
     CreatePreloadFile, CallOriginal, Calls, Releases, LoadAllocator, recorder
<1>2. CASE InterposeNext
  <2>1. CASE Construct
    BY <2>1 DEF ModuleTypes, Construct
  <2>2. CASE MachNext
    BY <2>2 DEF ModuleTypes, MachNext, DyldAdds, DyldRemoves, ChangeTable, MarkDirty, Record,
       ForEach,
       WriteMachModule, ForEachReturns, ListDone, Goto, recorder
  <2>3. ASSUME NEW t \in Threads,
               \/ Replacement(t) \/ ShutdownTracking(t) \/ StopTracking(t) \/ TrackingStopped(t)
               \/ NothingRecorded(t)
        PROVE  DOMAIN pc' = Threads /\ s_data' \in BOOLEAN
    BY <2>3 DEF ModuleTypes, Replacement, ShutdownTracking, StopTracking, TrackingStopped,
       NothingRecorded,
       GiveUp, Goto, recorder
  <2> QED
    BY <1>2, <2>1, <2>2, <2>3 DEF InterposeNext
<1> QED
  BY <1>1, <1>2

\* Every step of every library.
LEMMA InjectStep == ASSUME InjectInv, [Next]_vars PROVE InjectInv'
<1>1. CASE library = "inject" /\ InjectNext
  <2>1. library' = library
    BY DEF Next, vars
  <2>2. ModuleTypes' /\ HooksInv' /\ HolderInv'
    BY <1>1, HooksStep, HolderStep DEF InjectInv
  <2> QED
    BY <1>1, <2>1, <2>2 DEF InjectInv
<1>2. CASE library # "inject" /\ UNCHANGED <<library, injectVars>> /\ (PreloadNext \/ InterposeNext)
  <2>1. DOMAIN pc' = Threads /\ s_data' \in BOOLEAN
    BY <1>2, OtherLibraryStep DEF InjectInv
  <2>2. UNCHANGED <<image, disk, readable, hooked, symtabCache>>
    BY <1>2 DEF injectVars, modules, injected
  <2>3. ModuleTypes' /\ HooksInv'
    BY <2>1, <2>2 DEF InjectInv, ModuleTypes, HooksInv, Cached
  <2> QED
    BY <1>2, <2>2, <2>3 DEF InjectInv
<1>3. CASE UNCHANGED vars
  BY <1>3 DEF InjectInv, ModuleTypes, HooksInv, HolderInv, Cached, vars, recorder, injectVars,
     modules, injected
<1> QED
  BY <1>1, <1>2, <1>3 DEF Next

\* What is complete stays complete, as long as its module, its hooks and the cache do.
LEMMA StaysComplete ==
    ASSUME NEW m, Complete(m), image'[m] = image[m], hooked'[m] = hooked[m], symtabCache' = symtabCache
    PROVE  Complete(m)'
BY DEF Complete, Cached

\* A thread that neither starts nor stops heaptrack, and after which modules are complete
\* or are about to be.
LEMMA BystanderStep ==
    ASSUME CompleteInv, UNCHANGED recorder,
           \A u \in Threads : /\ pc'[u] \in {"init", "create_file"} => pc'[u] = pc[u]
                              /\ pc[u] = "shutdown" => pc'[u] = pc[u],
           Opening \/ (\A m \in DOMAIN image : Complete(m)) =>
                Opening' \/ \A m \in DOMAIN image' : Complete(m)'
    PROVE  CompleteInv'
<1>1. \A u \in Threads : pc'[u] \in {"init", "create_file"} => ~ s_forceCleanup'
  BY DEF CompleteInv, recorder
<1>2. \/ s_data' /\ \A u \in Threads : pc'[u] # "shutdown"
      \/ \E u \in Threads : pc'[u] = "create_file"
      => Opening \/ (\A m \in DOMAIN image : Complete(m))
  BY DEF CompleteInv, recorder
<1> QED
  BY <1>1, <1>2 DEF CompleteInv

\* With one controller, every step keeps the modules complete.
LEMMA CompleteStep ==
    ASSUME OneController, InjectInv, library = "inject", CompleteInv, InjectNext
    PROVE  CompleteInv'
<1> USE ThreadsAssumption, InjectAssumption DEF ModuleTypes, HolderInv
<1>1. ModuleTypes /\ HooksInv /\ HolderInv
  BY DEF InjectInv
<1>2. ASSUME NEW t \in Controllers, CallInit(t) PROVE CompleteInv'
  <2>1. \A m : Complete(m)' = Complete(m)
    BY <1>2 DEF CallInit, modules, injected, Complete, Cached
  <2> QED
    BY <1>1, <1>2, <2>1 DEF CallInit, CompleteInv, Opening, Goto, At, modules
<1>3. ASSUME NEW t \in Threads, Initialize(t) PROVE CompleteInv'
  <2>1. CASE s_data
    <3>1. \A m : Complete(m)' = Complete(m)
      BY <1>3, <2>1 DEF Initialize, modules, injected, Complete, Cached
    <3> QED
      BY <1>1, <1>3, <2>1, <3>1 DEF Initialize, CompleteInv, Opening, Goto, At, modules
  <2>2. CASE ~ s_data
    <3>1. IteratePhdrs(FALSE) /\ image' = image /\ disk' = disk /\ readable' = readable
          /\ pc' = [pc EXCEPT ![t] = "create_file"] /\ s_data' = s_data /\ pc[t] = "init"
          /\ s_forceCleanup' = s_forceCleanup
      BY <1>3, <2>2 DEF Initialize, OverwriteSymbols, modules, Goto, At
    <3>2. \A m \in DOMAIN image : Complete(m)'
      BY <1>1, <3>1, PassOverModules
    <3> QED
      BY <1>1, <3>1, <3>2 DEF CompleteInv
  <2> QED
    BY <2>1, <2>2
<1>4. ASSUME NEW t \in Threads, CreateFile(t) PROVE CompleteInv'
  <2>1. /\ pc[t] = "create_file" /\ pc' = [pc EXCEPT ![t] = "idle"] /\ image' = image
        /\ s_forceCleanup' = s_forceCleanup /\ lock = t /\ ~ s_data
    BY <1>1, <1>4 DEF CreateFile, Goto, At, modules
  <2>2. \A u \in Threads : pc'[u] # "create_file"
    BY <1>1, <2>1
  <2>3. CASE s_data' = TRUE /\ UNCHANGED injected
    <3>1. \A m : Complete(m)' = Complete(m)
      BY <2>1, <2>3 DEF injected, Complete, Cached
    <3> QED
      BY <1>1, <2>1, <2>2, <3>1 DEF CompleteInv, Opening
  <2>4. CASE s_data' = s_data
    BY <1>1, <2>1, <2>2, <2>4 DEF CompleteInv
  <2> QED
    BY <1>4, <2>3, <2>4 DEF CreateFile
<1>5. ASSUME NEW t \in Controllers, Stop(t) PROVE CompleteInv'
  <2>1. pc' = [pc EXCEPT ![t] = "shutdown"] /\ lock = "free"
    BY <1>5 DEF Stop, Goto, TakeLock
  <2>2. \A u \in Threads : pc'[u] \notin {"init", "create_file"}
    BY <1>1, <2>1 DEF OneController
  <2> QED
    BY <1>1, <2>1, <2>2 DEF CompleteInv
<1>6. ASSUME NEW t \in Threads, Shutdown(t) PROVE CompleteInv'
  BY <1>1, <1>6 DEF Shutdown, CompleteInv, Goto, At
<1>7. ASSUME NEW t \in Threads, InvalidateModuleCache(t) PROVE CompleteInv'
  <2>1. pc' = [pc EXCEPT ![t] = "idle"] /\ image' = image /\ UNCHANGED recorder
        /\ disk' = disk /\ readable' = readable
    BY <1>7 DEF InvalidateModuleCache, Goto, modules
  <2>2. CASE At(t, "overwrite")
    <3>1. IteratePhdrs(FALSE)
      BY <1>7, <2>2 DEF InvalidateModuleCache, OverwriteSymbols
    <3>2. \A m \in DOMAIN image : Complete(m)'
      BY <1>1, <2>1, <3>1, PassOverModules DEF recorder
    <3> QED
      BY <1>1, <2>1, <3>2 DEF CompleteInv, recorder
  <2>3. CASE ~ At(t, "overwrite")
    <3>1. UNCHANGED injected
      BY <1>7, <2>3 DEF InvalidateModuleCache
    <3>2. (\A m \in DOMAIN image : Complete(m)) => \A m \in DOMAIN image' : Complete(m)'
      BY <2>1, <3>1 DEF injected, Complete, Cached
    <3>3. Opening => Opening'
      BY <1>1, <2>1, <2>3 DEF Opening, At
    <3>4. \A u \in Threads : /\ pc'[u] \in {"init", "create_file"} => pc'[u] = pc[u]
                            /\ pc[u] = "shutdown" => pc'[u] = pc[u]
      BY <1>1, <1>7, <2>1 DEF InvalidateModuleCache
    <3> QED
      BY <2>1, <3>2, <3>3, <3>4, BystanderStep
  <2> QED
    BY <2>2, <2>3
<1>8. ASSUME NEW t \in Threads, StopsWaiting(t) PROVE CompleteInv'
  <2>1. pc' = [pc EXCEPT ![t] = "idle"] /\ UNCHANGED <<recorder, injectVars>> /\ lock # "free" /\ s_forceCleanup
    BY <1>8 DEF StopsWaiting, GiveUp, Goto
  <2>2. pc[lock] = "shutdown" /\ lock \in Threads /\ pc[t] # "shutdown"
    BY <1>1, <1>8, <2>1 DEF CompleteInv, StopsWaiting, GiveUp
  <2>3. pc'[lock] = "shutdown" /\ \A u \in Threads : pc'[u] # "create_file"
    BY <1>1, <2>1, <2>2
  <2> QED
    BY <1>1, <2>1, <2>2, <2>3 DEF CompleteInv, recorder
<1>9. ASSUME NEW t \in Threads, NEW p \in Plugins, Open(t, p) PROVE CompleteInv'
  <2>1. /\ \A m \in DOMAIN image : m \in DOMAIN image' /\ hooked'[m] = hooked[m] /\ image'[m] = image[m]
        /\ symtabCache' = symtabCache /\ UNCHANGED recorder /\ pc[t] = "idle"
        /\ pc' = [pc EXCEPT ![t] = IF "dlopen" \in hooked[Program] THEN "overwrite" ELSE "idle"]
    BY <1>1, <1>9, OpenEffect
  <2>2. Opening \/ Complete(Program) => Opening'
    <3>1. Complete(Program) => "dlopen" \in hooked[Program]
      BY <1>1, DlopenHooked
    <3> QED
      BY <1>1, <2>1, <3>1 DEF Opening
  <2>3. Opening \/ (\A m \in DOMAIN image : Complete(m)) => Opening'
    BY <1>1, <2>2
  <2>4. \A u \in Threads : /\ pc'[u] \in {"init", "create_file"} => pc'[u] = pc[u]
                          /\ pc[u] = "shutdown" => pc'[u] = pc[u]
    BY <1>1, <2>1
  <2> QED
    BY <2>1, <2>3, <2>4, BystanderStep
<1>10. ASSUME NEW t \in Threads, NEW p \in Plugins, Close(t, p) PROVE CompleteInv'
  <2>1. /\ \A m \in DOMAIN image' : m \in DOMAIN image /\ hooked'[m] = hooked[m] /\ image'[m] = image[m]
        /\ symtabCache' = symtabCache /\ UNCHANGED recorder /\ pc[t] = "idle"
        /\ pc' = [pc EXCEPT ![t] = IF "dlclose" \in hooked[Program] THEN "invalidate" ELSE "idle"]
    BY <1>1, <1>10, CloseEffect
  <2>2. (\A m \in DOMAIN image : Complete(m)) => \A m \in DOMAIN image' : Complete(m)'
    BY <2>1, StaysComplete
  <2>3. Opening => Opening'
    BY <1>1, <2>1 DEF Opening
  <2>4. \A u \in Threads : /\ pc'[u] \in {"init", "create_file"} => pc'[u] = pc[u]
                          /\ pc[u] = "shutdown" => pc'[u] = pc[u]
    BY <1>1, <2>1
  <2> QED
    BY <2>1, <2>2, <2>3, <2>4, BystanderStep
<1>11. ASSUME NEW p \in Plugins, FilesChange(p) PROVE CompleteInv'
  <2>1. UNCHANGED <<recorder, pc, image, injected>>
    BY <1>11 DEF FilesChange
  <2>2. \A m : Complete(m)' = Complete(m)
    BY <2>1 DEF injected, Complete, Cached
  <2> QED
    BY <2>1, <2>2 DEF CompleteInv, Opening, recorder
<1> QED
  BY <1>2, <1>3, <1>4, <1>5, <1>6, <1>7, <1>8, <1>9, <1>10, <1>11 DEF InjectNext

\* At the start nothing is hooked.
LEMMA InitInject == Init => InjectInv /\ CompleteInv
<1> SUFFICES ASSUME Init PROVE InjectInv /\ CompleteInv
  OBVIOUS
<1>1. /\ image = [m \in Skipped \cup {Program} |-> IF m = Program THEN Len(Names) ELSE 2]
      /\ disk \in [Plugins -> Versions] /\ readable \in SUBSET Plugins
      /\ hooked = [m \in DOMAIN image |-> {}] /\ DOMAIN symtabCache = {}
      /\ pc = [t \in Threads |-> "idle"] /\ s_data = FALSE /\ lock = "free"
  BY DEF Init, InjectInit, RecorderInit
<1>2. Program \notin Skipped
  BY DEF Program, Skipped
<1>3. ModuleTypes
  <2>1. /\ Program \in DOMAIN image /\ image[Program] = Len(Names) /\ Len(Names) = 5
        /\ \A m \in DOMAIN image : image[m] \in 1 .. 5
    BY <1>1, <1>2, NamesIndexed
  <2> QED
    BY <1>1, <2>1 DEF ModuleTypes
<1> QED
  BY <1>1, <1>3 DEF InjectInv, HooksInv, HolderInv, CompleteInv

-----------------------------------------------------------------------------
(* Theorems about the injected library.                                    *)

\* InjectInv holds in every reachable state of Interception.
THEOREM HooksInvariance == Spec => []InjectInv
<1> QED
  BY InitInject, InjectStep, PTL DEF Spec

\* As the recorder goes away it leaves no module hooked, whatever the files of the
\* modules have become, for any number of threads that start and stop it.
THEOREM StopPutsBack == Spec => StopRestores
<1>1. ASSUME InjectInv, [Next]_vars
      PROVE  [s_data /\ ~ s_data' => \A m \in DOMAIN image' : hooked'[m] = {}]_<<s_data, injectVars>>
  <2> SUFFICES ASSUME s_data, ~ s_data' PROVE \A m \in DOMAIN image' : hooked'[m] = {}
    OBVIOUS
  <2>1. CASE library # "inject"
    <3>1. UNCHANGED injectVars
      BY <1>1, <2>1 DEF Next, vars
    <3> QED
      BY <1>1, <2>1, <3>1 DEF InjectInv, injectVars, modules, injected
  <2>2. CASE library = "inject" /\ InjectNext
    <3>1. PICK t \in Threads : Shutdown(t)
      BY <2>2 DEF InjectNext, CallInit, Stop, Initialize, CreateFile, InvalidateModuleCache,
         StopsWaiting,
         GiveUp, Open, Close, FilesChange, recorder
    <3>2. RestoreSymbols /\ UNCHANGED modules /\ DOMAIN pc' = Threads
      BY <1>1, <3>1 DEF Shutdown, Goto, InjectInv, ModuleTypes
    <3>3. ModuleTypes /\ HooksInv /\ IteratePhdrs(TRUE) /\ s_data' \in BOOLEAN
          /\ image' = image /\ disk' = disk /\ readable' = readable
      BY <1>1, <3>1, <3>2 DEF InjectInv, RestoreSymbols, modules, Shutdown
    <3> QED
      BY <3>2, <3>3, PassOverModules
  <2> QED
    BY <1>1, <2>1, <2>2 DEF Next, vars, recorder
<1> QED
  BY HooksInvariance, <1>1, PTL DEF Spec, StopRestores

\* While one controller starts and stops heaptrack, any number of threads opens and
\* closes modules: each one that is loaded while heaptrack records has its hooks.
THEOREM HooksInPlace == ASSUME OneController PROVE Spec => []InjectedHooksInPlace
<1>1. Init => (library = "inject" => CompleteInv)
  BY InitInject
<1>2. ASSUME InjectInv, library = "inject" => CompleteInv, [Next]_vars
      PROVE  (library = "inject" => CompleteInv)'
  <2> SUFFICES ASSUME library' = "inject" PROVE CompleteInv'
    OBVIOUS
  <2>1. library = "inject"
    BY <1>2 DEF Next, vars
  <2>2. CASE InjectNext
    BY <1>2, <2>1, <2>2, CompleteStep
  <2>3. CASE UNCHANGED vars
    BY <1>2, <2>1, <2>3 DEF CompleteInv, Opening, Complete, Cached, vars, recorder, injectVars,
       modules, injected
  <2> QED
    BY <1>2, <2>1, <2>2, <2>3 DEF Next
<1>3. ASSUME InjectInv, library = "inject" => CompleteInv PROVE InjectedHooksInPlace
  <2> SUFFICES ASSUME library = "inject", s_data, lock = "free", \A t \in Threads : ~ At(t, "overwrite"),
                      NEW m \in DOMAIN image
               PROVE  /\ hooked[m] \subseteq Hookable(m)
                      /\ m \in Skipped \/ (m \in DOMAIN symtabCache
                              /\ (symtabCache[m] >= image[m] => hooked[m] = Hookable(m)))
    BY DEF InjectedHooksInPlace, HookedWhileRecording
  <2>1. Complete(m)
    BY <1>3, ThreadsAssumption DEF CompleteInv, Opening, At, InjectInv, HolderInv
  <2>2. ModuleTypes /\ HooksInv
    BY <1>3 DEF InjectInv
  <2>3. CASE m \in Skipped
    BY <2>2, <2>3 DEF HooksInv
  <2>4. CASE m \notin Skipped
    BY <2>1, <2>2, <2>4, EnoughCached DEF Complete, Hookable, Cached
  <2> QED
    BY <2>3, <2>4
<1> QED
  BY HooksInvariance, <1>1, <1>2, <1>3, PTL DEF Spec

-----------------------------------------------------------------------------
(* The list of images.                                                     *)

Places == {"idle", "add_image", "remove_image", "mark_dirty", "record", "write_modules", "for_each",
           "listed", "list_failed", "stop", "shutdown"}

\* In a callback of dyld; on the way from the dirty flag to a complete list.
Changes == {"add_image", "remove_image", "mark_dirty"}
Lists == {"write_modules", "for_each", "list_failed"}

Entries == [header : Headers \cup {"none"}, module : Contents \cup {"none"}, active : BOOLEAN]

InUse == Active(m_entries)

\* The images that dyld has loaded and a callback has not added yet.
Adding == {h \in Headers : \E t \in Threads : pc[t] = "add_image" /\ changing[t] = h}

MachTypes ==
    /\ pc \in [Threads -> Places] /\ changing \in [Threads -> Headers \cup {"none"}]
    /\ m_entries \in [Slots -> Entries] /\ DOMAIN loaded \subseteq Headers
    /\ \A h \in DOMAIN loaded : loaded[h] \in Contents

\* A header is in the hands of one callback.
CallbackInv ==
    /\ \A t \in Threads : pc[t] \in Changes <=> changing[t] # "none"
    /\ \A t \in Threads : pc[t] \in {"add_image", "remove_image"} => changing[t] \in DOMAIN loaded
    /\ \A t, u \in Threads : changing[t] = changing[u] /\ changing[t] # "none" => t = u

\* The table has each image that is loaded, except those ignored and those to come.
TableInv ==
    /\ \A i \in InUse :
        /\ m_entries[i].header \in DOMAIN loaded \ (ignored \cup Adding)
        /\ m_entries[i].module = loaded[m_entries[i].header]
    /\ \A h \in DOMAIN loaded \ (ignored \cup Adding) : \E i \in InUse : m_entries[i].header = h

\* Who lists holds the lock; who writes the lines, the mutex too.
ListerInv ==
    /\ \A t \in Threads : pc[t] \in Lists \cup {"listed", "shutdown"} => lock = t
    /\ \A t \in Threads : pc[t] = "for_each" => m_mutex = t

Listing == \E t \in Threads : pc[t] \in Lists \cup {"mark_dirty"}

Images == {Image(m_entries[i].header, m_entries[i].module) : i \in InUse}

\* A list under way has only images of the table; a clean one has all.
ListInv ==
    /\ (\E t \in Threads : pc[t] = "for_each") => listed \subseteq Images
    /\ s_moduleCacheDirty \/ Listing \/ listed = Images

MachInv == MachTypes /\ CallbackInv /\ TableInv /\ ListerInv /\ ListInv

BeforeConstruction ==
    /\ MachTypes /\ pc = [t \in Threads |-> "idle"] /\ changing = [t \in Threads |-> "none"]
    /\ InUse = {} /\ m_entries = [i \in Slots |-> NoEntry] /\ ignored = {} /\ s_data = FALSE

InterposeInv ==
    IF library = "interpose" THEN IF constructed THEN MachInv ELSE BeforeConstruction
    ELSE s_moduleCacheDirty = TRUE

\* A set of slots that is not empty has a first one.
LEMMA FirstSlot ==
    ASSUME NEW slots, slots \subseteq Slots, slots # {}
    PROVE  FirstOf(slots) \in slots
<1>1. slots \subseteq Nat
  BY CapacityAssumption DEF Slots
<1> DEFINE less == {ss \in Nat \X Nat : ss[1] < ss[2]}
<1>2. IsWellFoundedOn(less, Nat)
  BY NatLessThanWellFounded DEF OpToRel
<1>3. \A j, k \in Nat : j < k => <<j, k>> \in less
  OBVIOUS
<1> HIDE DEF less
<1>4. PICK i \in slots : \A j \in slots : <<j, i>> \notin less
  BY <1>1, <1>2, WFMin
<1>5. ASSUME NEW j \in slots PROVE i <= j
  <2>1. i \in Nat /\ j \in Nat
    BY <1>1
  <2>2. ~ (j < i)
    BY <1>3, <1>4, <2>1
  <2> QED
    BY <2>1, <2>2
<1> QED
  BY <1>5 DEF FirstOf

\* The table when an image is added or removed, and the flag is still to be set: the
\* rest of the invariant is what concerns threads.
LEMMA AddEffect ==
    ASSUME MachInv, NEW t \in Threads, At(t, "add_image"), AddImage(changing[t])
    PROVE  \/ m_entries' = m_entries /\ ignored' = ignored \cup {changing[t]}
           \/ /\ m_mutex = "free" /\ ignored' = ignored \ {changing[t]}
              /\ \E i \in Slots \ InUse : m_entries' = [m_entries EXCEPT ![i] =
                     [header |-> changing[t], module |-> loaded[changing[t]], active |-> TRUE]]
<1> DEFINE h == changing[t]
           slots == Available(m_entries, h)
           entry == [header |-> h, module |-> loaded[h], active |-> TRUE]
<1>1. /\ loaded[h] = Malformed \/ m_mutex = "free"
      /\ IF loaded[h] = Malformed \/ slots = {}
         THEN ignored' = ignored \cup {h} /\ UNCHANGED m_entries
         ELSE m_entries' = [m_entries EXCEPT ![FirstOf(slots)] = entry] /\ ignored' = ignored \ {h}
  BY DEF AddImage
<1>2. slots = Slots \ InUse
  <2>1. h \in Adding
    BY DEF Adding, MachInv, CallbackInv, MachTypes, At
  <2>2. \A i \in InUse : m_entries[i].header # h
    BY <2>1 DEF MachInv, TableInv
  <2> QED
    BY <2>2 DEF Available, InUse, Active
<1>3. CASE loaded[h] = Malformed \/ slots = {}
  BY <1>1, <1>3
<1>4. CASE ~ (loaded[h] = Malformed \/ slots = {})
  <2>1. FirstOf(slots) \in slots
    <3>1. slots \subseteq Slots /\ slots # {}
      BY <1>2, <1>4
    <3> HIDE DEF slots
    <3> QED
      BY <3>1, FirstSlot
  <2> QED
    BY <1>1, <1>2, <1>4, <2>1
<1> QED
  BY <1>3, <1>4

\* A thread goes from one place to another, and leaves the others.
LEMMA GoesTo ==
    ASSUME MachTypes, NEW t \in Threads, NEW place \in Places, Goto(t, place)
    PROVE  /\ pc' \in [Threads -> Places] /\ pc'[t] = place
           /\ \A u \in Threads \ {t} : pc'[u] = pc[u]
BY DEF MachTypes, Goto

\* The table changes while the flag is still to be set.
LEMMA ChangeTableStep ==
    ASSUME MachInv, NEW t \in Threads, ChangeTable(t)
    PROVE  MachInv'
<1> DEFINE h == changing[t]
<1>1. /\ UNCHANGED <<recorder, s_moduleCacheDirty, listed, changing, m_mutex>> /\ Goto(t, "mark_dirty")
      /\ pc[t] \in {"add_image", "remove_image"}
  BY DEF ChangeTable, AddImage, RemoveImage, At
<1>2. /\ pc' \in [Threads -> Places] /\ pc'[t] = "mark_dirty"
      /\ \A u \in Threads \ {t} : pc'[u] = pc[u]
  BY <1>1, GoesTo DEF MachInv, Places
<1>3. h \in DOMAIN loaded /\ h # "none" /\ h \in Headers /\ \A u \in Threads \ {t} : changing[u] # h
  BY <1>1, CapacityAssumption DEF MachInv, CallbackInv, MachTypes, Changes
<1>4. ListerInv'
  BY <1>1, <1>2 DEF MachInv, ListerInv, recorder, Lists
<1>5. Listing'
  BY <1>2 DEF Listing
<1>6. (\E u \in Threads : pc'[u] = "for_each") => m_mutex # "free" /\ \E u \in Threads : pc[u] = "for_each"
  BY <1>1, <1>2, ThreadsAssumption DEF MachInv, ListerInv
<1>7. Adding' = (IF pc[t] = "add_image" THEN Adding \ {h} ELSE Adding)
  BY <1>1, <1>2, <1>3 DEF Adding
<1>8. CASE At(t, "add_image") /\ AddImage(h) /\ UNCHANGED loaded
  <2>1. h \in Adding /\ pc[t] = "add_image"
    BY <1>3, <1>8 DEF Adding, At
  <2>2. CallbackInv'
    BY <1>1, <1>2, <1>8 DEF MachInv, CallbackInv, Changes, At
  <2>3. CASE m_entries' = m_entries /\ ignored' = ignored \cup {h}
    <3>1. InUse' = InUse /\ Images' = Images
      BY <2>3 DEF InUse, Active, Images
    <3>2. TableInv'
      BY <1>7, <1>8, <2>1, <2>3, <3>1 DEF MachInv, TableInv
    <3>3. ListInv'
      BY <1>1, <1>5, <1>6, <3>1 DEF MachInv, ListInv
    <3>4. MachTypes'
      BY <1>1, <1>2, <1>8, <2>3 DEF MachInv, MachTypes
    <3> QED
      BY <1>4, <2>2, <3>2, <3>3, <3>4 DEF MachInv
  <2>4. ASSUME m_mutex = "free", ignored' = ignored \ {h}, NEW i \in Slots \ InUse,
               m_entries' = [m_entries EXCEPT ![i] =
                    [header |-> h, module |-> loaded[h], active |-> TRUE]]
        PROVE  MachInv'
    <3> DEFINE entry == [header |-> h, module |-> loaded[h], active |-> TRUE]
    <3>1. entry \in Entries /\ entry.header = h /\ entry.module = loaded[h] /\ entry.active
      BY <1>3 DEF Entries, MachInv, MachTypes
    <3>2. m_entries' = [m_entries EXCEPT ![i] = entry]
      BY <2>4
    <3> HIDE DEF entry
    <3>3. /\ m_entries' \in [Slots -> Entries] /\ m_entries'[i] = entry
          /\ \A j \in Slots \ {i} : m_entries'[j] = m_entries[j]
      BY <3>1, <3>2 DEF MachInv, MachTypes
    <3>4. InUse' = InUse \cup {i} /\ InUse \subseteq Slots
      BY <2>4, <3>1, <3>3 DEF InUse, Active
    <3>5. \A j \in InUse : m_entries'[j] = m_entries[j] /\ m_entries[j].header # h
      BY <2>1, <2>4, <3>3, <3>4 DEF MachInv, TableInv
    <3>6. TableInv'
      <4>1. loaded' = loaded /\ Adding' = Adding \ {h} /\ ignored' = ignored \ {h}
        BY <1>7, <1>8, <2>1, <2>4
      <4>2. \A j \in InUse' :
                /\ m_entries'[j].header \in DOMAIN loaded' \ (ignored' \cup Adding')
                /\ m_entries'[j].module = loaded'[m_entries'[j].header]
        BY <1>3, <3>1, <3>3, <3>4, <3>5, <4>1 DEF MachInv, TableInv
      <4>3. \A g \in DOMAIN loaded' \ (ignored' \cup Adding') : \E j \in InUse' : m_entries'[j].header = g
        BY <3>1, <3>3, <3>4, <3>5, <4>1 DEF MachInv, TableInv
      <4> QED
        BY <4>2, <4>3 DEF TableInv
    <3>7. ListInv'
      BY <1>1, <1>5, <1>6, <2>4 DEF ListInv
    <3>8. MachTypes'
      BY <1>1, <1>2, <1>8, <3>3 DEF MachInv, MachTypes
    <3> QED
      BY <1>4, <2>2, <3>6, <3>7, <3>8 DEF MachInv
  <2> QED
    BY <1>8, <2>3, <2>4, AddEffect
<1>9. CASE At(t, "remove_image") /\ RemoveImage(h) /\ loaded' = [g \in DOMAIN loaded \ {h} |-> loaded[g]]
  <2>1. /\ m_mutex = "free" /\ ignored' = ignored
        /\ m_entries' = [i \in Slots |->
                IF m_entries[i].active /\ m_entries[i].header = h
                THEN [m_entries[i] EXCEPT !.active = FALSE] ELSE m_entries[i]]
    BY <1>9 DEF RemoveImage
  <2>2. DOMAIN loaded' = DOMAIN loaded \ {h} /\ \A g \in DOMAIN loaded' : loaded'[g] = loaded[g]
    BY <1>9
  <2>3. CallbackInv'
    BY <1>1, <1>2, <1>3, <2>2 DEF MachInv, CallbackInv, Changes
  <2>4. m_entries' \in [Slots -> Entries]
    BY ZenonT(60), <2>1 DEF MachInv, MachTypes, Entries
  <2>5. InUse' = {i \in InUse : m_entries[i].header # h} /\ \A i \in InUse' : m_entries'[i] = m_entries[i]
    BY <2>1 DEF InUse, Active, MachInv, MachTypes, Entries
  <2>6. pc[t] # "add_image"
    BY <1>9 DEF At
  <2>7. TableInv'
    <3>1. \A j \in InUse' :
              /\ m_entries'[j].header \in DOMAIN loaded' \ (ignored' \cup Adding')
              /\ m_entries'[j].module = loaded'[m_entries'[j].header]
      BY <1>7, <2>1, <2>2, <2>5, <2>6 DEF MachInv, TableInv
    <3>2. \A g \in DOMAIN loaded' \ (ignored' \cup Adding') : \E j \in InUse' : m_entries'[j].header = g
      <4> TAKE g \in DOMAIN loaded' \ (ignored' \cup Adding')
      <4>1. g \in DOMAIN loaded \ (ignored \cup Adding) /\ g # h
        BY <1>7, <2>1, <2>2, <2>6
      <4>2. PICK j \in InUse : m_entries[j].header = g
        BY <4>1 DEF MachInv, TableInv
      <4> QED
        BY <2>5, <4>1, <4>2
    <3> QED
      BY <3>1, <3>2 DEF TableInv
  <2>8. ListInv'
    BY <1>1, <1>5, <1>6, <2>1 DEF ListInv
  <2>9. MachTypes'
    BY <1>1, <1>2, <2>2, <2>4 DEF MachInv, MachTypes
  <2> QED
    BY <1>4, <2>3, <2>7, <2>8, <2>9 DEF MachInv
<1> QED
  BY <1>8, <1>9 DEF ChangeTable

\* A step that leaves the table and the images alone, and adds nothing.
LEMMA SameTable ==
    ASSUME TableInv, UNCHANGED <<loaded, m_entries, ignored>>, Adding' = Adding
    PROVE  TableInv' /\ InUse' = InUse /\ Images' = Images
BY DEF TableInv, InUse, Active, Images

\* A thread that is in no callback moves to a place outside of callbacks.
LEMMA OutsideCallbacks ==
    ASSUME MachInv, NEW t \in Threads, NEW place \in Places \ Changes, Goto(t, place),
           pc[t] \notin Changes, UNCHANGED <<loaded, m_entries, ignored, changing>>
    PROVE  MachTypes' /\ CallbackInv' /\ TableInv' /\ InUse' = InUse /\ Images' = Images
<1>1. /\ pc' \in [Threads -> Places] /\ pc'[t] = place
      /\ \A u \in Threads \ {t} : pc'[u] = pc[u]
  BY GoesTo DEF MachInv
<1>2. Adding' = Adding
  BY <1>1 DEF Adding, Changes
<1>3. TableInv' /\ InUse' = InUse /\ Images' = Images
  BY <1>2, SameTable DEF MachInv
<1>4. MachTypes'
  BY <1>1 DEF MachInv, MachTypes
<1>5. CallbackInv'
  BY <1>1 DEF MachInv, CallbackInv, Changes
<1> QED
  BY <1>3, <1>4, <1>5

\* The callbacks begin and end.
LEMMA CallbackStep ==
    ASSUME MachInv, NEW t \in Threads,
           MarkDirty(t) \/ \E h \in Headers : DyldAdds(t, h) \/ DyldRemoves(t, h)
    PROVE  MachInv'
<1>1. ASSUME NEW h \in Headers, DyldAdds(t, h) PROVE MachInv'
  <2>1. PICK content \in Contents :
            loaded' = [g \in DOMAIN loaded \cup {h} |-> IF g = h THEN content ELSE loaded[g]]
    BY <1>1 DEF DyldAdds
  <2>2. /\ h \notin DOMAIN loaded /\ \A u \in Threads : changing[u] # h
        /\ changing' = [changing EXCEPT ![t] = h] /\ Goto(t, "add_image") /\ pc[t] = "idle"
        /\ UNCHANGED <<recorder, m_entries, m_mutex, s_moduleCacheDirty, listed, ignored>>
    BY <1>1 DEF DyldAdds, At, table
  <2>3. /\ pc' \in [Threads -> Places] /\ pc'[t] = "add_image"
        /\ \A u \in Threads \ {t} : pc'[u] = pc[u]
    BY <2>2, GoesTo DEF MachInv, Places
  <2>4. /\ changing'[t] = h /\ \A u \in Threads \ {t} : changing'[u] = changing[u]
        /\ changing' \in [Threads -> Headers \cup {"none"}]
    BY <2>2 DEF MachInv, MachTypes
  <2>5. /\ DOMAIN loaded' = DOMAIN loaded \cup {h} /\ loaded'[h] \in Contents
        /\ \A g \in DOMAIN loaded : loaded'[g] = loaded[g]
    BY <2>1, <2>2
  <2>6. MachTypes'
    BY <2>2, <2>3, <2>4, <2>5 DEF MachInv, MachTypes
  <2>7. CallbackInv'
    BY <2>2, <2>3, <2>4, <2>5, CapacityAssumption DEF MachInv, CallbackInv, Changes
  <2>8. Adding' = Adding \cup {h}
    BY <2>2, <2>3, <2>4 DEF Adding
  <2>9. InUse' = InUse /\ Images' = Images
    BY <2>2 DEF InUse, Active, Images
  <2>10. TableInv'
    BY <2>2, <2>5, <2>8, <2>9 DEF MachInv, TableInv
  <2>11. ListerInv'
    BY <2>2, <2>3 DEF MachInv, ListerInv, Lists, recorder
  <2>12. ListInv'
    BY <2>2, <2>3, <2>9 DEF MachInv, ListInv, Listing, Lists
  <2> QED
    BY <2>6, <2>7, <2>10, <2>11, <2>12 DEF MachInv
<1>2. ASSUME NEW h \in Headers, DyldRemoves(t, h) PROVE MachInv'
  <2>1. /\ h \in DOMAIN loaded /\ \A u \in Threads : changing[u] # h
        /\ changing' = [changing EXCEPT ![t] = h] /\ Goto(t, "remove_image") /\ pc[t] = "idle"
        /\ UNCHANGED <<recorder, loaded, m_entries, m_mutex, s_moduleCacheDirty, listed, ignored>>
    BY <1>2 DEF DyldRemoves, At, table
  <2>2. /\ pc' \in [Threads -> Places] /\ pc'[t] = "remove_image"
        /\ \A u \in Threads \ {t} : pc'[u] = pc[u]
    BY <2>1, GoesTo DEF MachInv, Places
  <2>3. /\ changing'[t] = h /\ \A u \in Threads \ {t} : changing'[u] = changing[u]
        /\ changing' \in [Threads -> Headers \cup {"none"}]
    BY <2>1 DEF MachInv, MachTypes
  <2>4. Adding' = Adding
    BY <2>1, <2>2, <2>3 DEF Adding
  <2>5. TableInv' /\ InUse' = InUse /\ Images' = Images
    BY <2>1, <2>4, SameTable DEF MachInv
  <2>6. MachTypes'
    BY <2>1, <2>2, <2>3 DEF MachInv, MachTypes
  <2>7. CallbackInv'
    BY <2>1, <2>2, <2>3, CapacityAssumption DEF MachInv, CallbackInv, Changes
  <2>8. ListerInv'
    BY <2>1, <2>2 DEF MachInv, ListerInv, Lists, recorder
  <2>9. ListInv'
    BY <2>1, <2>2, <2>5 DEF MachInv, ListInv, Listing, Lists
  <2> QED
    BY <2>5, <2>6, <2>7, <2>8, <2>9 DEF MachInv
<1>3. CASE MarkDirty(t)
  <2>1. /\ s_moduleCacheDirty' = TRUE /\ pc[t] = "mark_dirty" /\ Goto(t, "idle")
        /\ changing' = [changing EXCEPT ![t] = "none"]
        /\ UNCHANGED <<recorder, loaded, m_entries, m_mutex, listed, ignored>>
    BY <1>3 DEF MarkDirty, At, table
  <2>2. /\ pc' \in [Threads -> Places] /\ pc'[t] = "idle"
        /\ \A u \in Threads \ {t} : pc'[u] = pc[u]
    BY <2>1, GoesTo DEF MachInv, Places
  <2>3. /\ changing'[t] = "none" /\ \A u \in Threads \ {t} : changing'[u] = changing[u]
        /\ changing' \in [Threads -> Headers \cup {"none"}]
    BY <2>1 DEF MachInv, MachTypes
  <2>4. Adding' = Adding
    BY <2>1, <2>2, <2>3 DEF Adding
  <2>5. TableInv' /\ InUse' = InUse /\ Images' = Images
    BY <2>1, <2>4, SameTable DEF MachInv
  <2>6. MachTypes'
    BY <2>1, <2>2, <2>3 DEF MachInv, MachTypes
  <2>7. CallbackInv'
    BY <2>1, <2>2, <2>3 DEF MachInv, CallbackInv, Changes
  <2>8. ListerInv'
    BY <2>1, <2>2 DEF MachInv, ListerInv, Lists, recorder
  <2>9. ListInv'
    BY <2>1, <2>2, <2>5 DEF MachInv, ListInv
  <2> QED
    BY <2>5, <2>6, <2>7, <2>8, <2>9 DEF MachInv
<1> QED
  BY <1>1, <1>2, <1>3

\* The list is written.
LEMMA ListStep ==
    ASSUME MachInv, NEW t \in Threads,
           Record(t) \/ ForEach(t) \/ WriteMachModule(t) \/ ForEachReturns(t) \/ ListDone(t)
    PROVE  MachInv'
<1> USE DEF Lists, Changes
<1>1. UNCHANGED <<loaded, m_entries, ignored, changing>>
  BY DEF Record, ForEach, WriteMachModule, ForEachReturns, ListDone, table
<1>2. ASSUME NEW place \in Places \ Changes, Goto(t, place), pc[t] \notin Changes
      PROVE  /\ MachTypes' /\ CallbackInv' /\ TableInv' /\ InUse' = InUse /\ Images' = Images
             /\ pc'[t] = place /\ \A u \in Threads \ {t} : pc'[u] = pc[u]
  BY <1>1, <1>2, OutsideCallbacks, GoesTo DEF MachInv
<1>3. {"idle", "write_modules", "for_each", "listed", "list_failed"} \subseteq Places \ Changes
  BY DEF Places
<1>4. CASE Record(t)
  <2>1. CASE s_data /\ s_moduleCacheDirty
    <3>1. /\ lock = "free" /\ lock' = t /\ Goto(t, "write_modules") /\ pc[t] = "record"
          /\ m_mutex' = m_mutex /\ listed' = listed
      BY <1>4, <2>1 DEF Record, At, table
    <3>2. /\ MachTypes' /\ CallbackInv' /\ TableInv' /\ Images' = Images
          /\ pc'[t] = "write_modules" /\ \A u \in Threads \ {t} : pc'[u] = pc[u]
      BY <1>2, <1>3, <3>1
    <3>3. ListerInv'
      BY <3>1, <3>2, ThreadsAssumption DEF MachInv, ListerInv
    <3>4. ListInv'
      BY <3>1, <3>2 DEF MachInv, ListInv, Listing
    <3> QED
      BY <3>2, <3>3, <3>4 DEF MachInv
  <2>2. CASE ~ (s_data /\ s_moduleCacheDirty)
    <3>1. /\ Goto(t, "idle") /\ pc[t] = "record"
          /\ UNCHANGED <<lock, s_moduleCacheDirty, m_mutex, listed>>
      BY <1>4, <2>2 DEF Record, At, table
    <3>2. /\ MachTypes' /\ CallbackInv' /\ TableInv' /\ Images' = Images
          /\ pc'[t] = "idle" /\ \A u \in Threads \ {t} : pc'[u] = pc[u]
      BY <1>2, <1>3, <3>1
    <3>3. ListerInv'
      BY <3>1, <3>2 DEF MachInv, ListerInv
    <3>4. ListInv'
      BY <3>1, <3>2 DEF MachInv, ListInv, Listing
    <3> QED
      BY <3>2, <3>3, <3>4 DEF MachInv
  <2> QED
    BY <2>1, <2>2
<1>5. CASE ForEach(t)
  <2>1. /\ pc[t] = "write_modules" /\ m_mutex = "free" /\ m_mutex' = t /\ listed' = {}
        /\ Goto(t, "for_each") /\ lock' = lock /\ s_moduleCacheDirty' = s_moduleCacheDirty
    BY <1>5 DEF ForEach, At, recorder
  <2>2. /\ MachTypes' /\ CallbackInv' /\ TableInv' /\ Images' = Images
        /\ pc'[t] = "for_each" /\ \A u \in Threads \ {t} : pc'[u] = pc[u]
    BY <1>2, <1>3, <2>1
  <2>3. ListerInv'
    BY <2>1, <2>2, ThreadsAssumption DEF MachInv, ListerInv
  <2>4. ListInv'
    BY <2>1, <2>2 DEF MachInv, ListInv, Listing
  <2> QED
    BY <2>2, <2>3, <2>4 DEF MachInv
<1>6. CASE WriteMachModule(t)
  <2>1. PICK i \in InUse : listed' = listed \cup {Image(m_entries[i].header, m_entries[i].module)}
    BY <1>6 DEF WriteMachModule, InUse
  <2>2. pc[t] = "for_each" /\ pc' = pc /\ UNCHANGED <<lock, m_mutex, s_moduleCacheDirty>>
    BY <1>6 DEF WriteMachModule, At, table, recorder
  <2>3. TableInv' /\ Images' = Images
    BY <1>1, <2>2, SameTable DEF MachInv, Adding
  <2>4. MachTypes' /\ CallbackInv' /\ ListerInv'
    BY <1>1, <2>2 DEF MachInv, MachTypes, CallbackInv, ListerInv
  <2>5. listed' \subseteq Images
    BY <2>1, <2>2 DEF MachInv, ListInv, Images
  <2>6. ListInv'
    BY <2>2, <2>3, <2>5 DEF ListInv, Listing
  <2> QED
    BY <2>3, <2>4, <2>6 DEF MachInv
<1>7. CASE ForEachReturns(t)
  <2>1. /\ pc[t] = "for_each" /\ m_mutex' = "free" /\ listed' = listed /\ lock' = lock
        /\ s_moduleCacheDirty' = s_moduleCacheDirty
    BY <1>7 DEF ForEachReturns, At, recorder
  <2>2. PICK place \in {"listed", "list_failed"} :
            /\ Goto(t, place)
            /\ place = "listed" =>
                \A i \in InUse : Image(m_entries[i].header, m_entries[i].module) \in listed
    BY <1>7 DEF ForEachReturns, InUse
  <2>3. /\ MachTypes' /\ CallbackInv' /\ TableInv' /\ Images' = Images
        /\ pc'[t] = place /\ \A u \in Threads \ {t} : pc'[u] = pc[u]
    BY <1>2, <1>3, <2>1, <2>2
  <2>4. ListerInv'
    BY <2>1, <2>2, <2>3 DEF MachInv, ListerInv
  <2>5. place = "listed" => listed = Images
    BY <2>1, <2>2 DEF MachInv, ListInv, Images
  <2>6. ListInv'
    BY <2>1, <2>2, <2>3, <2>4, <2>5 DEF MachInv, ListInv, ListerInv, Listing
  <2> QED
    BY <2>3, <2>4, <2>6 DEF MachInv
<1>8. CASE ListDone(t)
  <2>1. /\ pc[t] \in {"listed", "list_failed"} /\ Goto(t, "idle") /\ lock' = "free"
        /\ s_moduleCacheDirty' = (s_moduleCacheDirty \/ pc[t] = "list_failed")
        /\ listed' = listed /\ m_mutex' = m_mutex
    BY <1>8 DEF ListDone, At, table, ReleaseLock
  <2>2. /\ MachTypes' /\ CallbackInv' /\ TableInv' /\ Images' = Images
        /\ pc'[t] = "idle" /\ \A u \in Threads \ {t} : pc'[u] = pc[u]
    BY <1>2, <1>3, <2>1
  <2>3. ListerInv'
    BY <2>1, <2>2 DEF MachInv, ListerInv
  <2>4. ListInv'
    BY <2>1, <2>2 DEF MachInv, ListInv, Listing
  <2> QED
    BY <2>2, <2>3, <2>4 DEF MachInv
<1> QED
  BY <1>4, <1>5, <1>6, <1>7, <1>8

\* The replacements and the end of tracking leave the table and its list alone.
LEMMA TrackStep ==
    ASSUME MachInv, NEW t \in Threads,
           \/ Replacement(t) \/ ShutdownTracking(t) \/ StopTracking(t) \/ TrackingStopped(t)
           \/ NothingRecorded(t)
    PROVE  MachInv'
<1>1. UNCHANGED <<loaded, m_entries, ignored, changing, m_mutex, s_moduleCacheDirty, listed>>
  BY DEF Replacement, ShutdownTracking, StopTracking, TrackingStopped, NothingRecorded,
     interposeVars,
     machVars, table
<1>2. PICK place \in {"record", "stop", "shutdown", "idle"} :
        /\ Goto(t, place) /\ pc[t] \in {"idle", "stop", "shutdown", "record"}
        /\ \/ lock' = lock /\ place # "shutdown" /\ pc[t] # "shutdown"
           \/ lock' = "free" /\ pc[t] = "shutdown" /\ place = "idle"
           \/ lock = "free" /\ lock' = t /\ place = "shutdown"
  <2>1. CASE Replacement(t)
    BY <2>1 DEF Replacement, At, recorder
  <2>2. CASE ShutdownTracking(t)
    BY <2>2 DEF ShutdownTracking, At, recorder
  <2>3. CASE StopTracking(t)
    BY <2>3 DEF StopTracking, At, TakeLock
  <2>4. CASE TrackingStopped(t)
    BY <2>4 DEF TrackingStopped, At, ReleaseLock
  <2>5. CASE NothingRecorded(t)
    BY <2>5 DEF NothingRecorded, GiveUp, recorder
  <2> QED
    BY <2>1, <2>2, <2>3, <2>4, <2>5
<1>3. /\ MachTypes' /\ CallbackInv' /\ TableInv' /\ Images' = Images
      /\ pc'[t] = place /\ \A u \in Threads \ {t} : pc'[u] = pc[u]
  <2>1. place \in Places \ Changes /\ pc[t] \notin Changes
    BY <1>2 DEF Places, Changes
  <2> QED
    BY <1>1, <1>2, <2>1, OutsideCallbacks, GoesTo DEF MachInv
<1>4. ListerInv'
  BY <1>1, <1>2, <1>3, ThreadsAssumption DEF MachInv, ListerInv, Lists
<1>5. ListInv'
  BY <1>1, <1>2, <1>3 DEF MachInv, ListInv, Listing, Lists
<1> QED
  BY <1>3, <1>4, <1>5 DEF MachInv

\* The images that are there at the start fill the table.
LEMMA ConstructStep == ASSUME BeforeConstruction, Construct PROVE MachInv'
<1> DEFINE wellFormed == {h \in DOMAIN loaded : loaded[h] # Malformed}
<1>1. PICK n \in 0 .. Capacity : \E order \in [1 .. n -> wellFormed] :
        /\ IsInjective(order) /\ (n = Capacity \/ Range(order) = wellFormed)
        /\ m_entries' = [i \in Slots |->
               IF i <= n THEN [header |-> order[i], module |-> loaded[order[i]], active |-> TRUE]
               ELSE m_entries[i]]
        /\ ignored' = DOMAIN loaded \ Range(order)
  BY DEF Construct, AddLoaded
<1>2. PICK order \in [1 .. n -> wellFormed] :
        /\ IsInjective(order)
        /\ m_entries' = [i \in Slots |->
               IF i <= n THEN [header |-> order[i], module |-> loaded[order[i]], active |-> TRUE]
               ELSE m_entries[i]]
        /\ ignored' = DOMAIN loaded \ Range(order)
  BY <1>1
<1>3. /\ s_moduleCacheDirty' = TRUE /\ loaded' = loaded /\ changing' = changing /\ pc' = pc
  BY DEF Construct
<1>4. /\ \A t \in Threads : pc'[t] = "idle" /\ changing'[t] = "none"
      /\ DOMAIN loaded \subseteq Headers /\ \A h \in DOMAIN loaded : loaded[h] \in Contents
  BY <1>3 DEF BeforeConstruction, MachTypes
<1>5. Adding' = {}
  BY <1>4 DEF Adding
<1>6. \A i \in 1 .. n : i \in Slots /\ order[i] \in DOMAIN loaded
  BY <1>1, <1>2, CapacityAssumption DEF Slots
<1>7. \A i \in Slots : m_entries[i].active = FALSE /\ m_entries[i] \in Entries
  BY DEF BeforeConstruction, NoEntry, Entries
<1>8. \A i \in Slots : i <= n <=> i \in 1 .. n
  <2>1. n \in Nat /\ Slots \subseteq Nat \ {0}
    BY <1>1, CapacityAssumption DEF Slots
  <2> QED
    BY <2>1
<1>9. \A i \in 1 .. n :
        m_entries'[i] = [header |-> order[i], module |-> loaded[order[i]], active |-> TRUE]
  BY <1>2, <1>6, <1>8
<1>10. \A i \in Slots \ (1 .. n) : m_entries'[i] = m_entries[i]
  BY <1>2, <1>8
<1>11. ASSUME NEW i \in 1 .. n
       PROVE  /\ m_entries'[i].header = order[i] /\ m_entries'[i].module = loaded[order[i]]
              /\ m_entries'[i].active = TRUE /\ m_entries'[i] \in Entries
  <2> DEFINE h == order[i]  content == loaded[order[i]]
  <2>1. m_entries'[i] = [header |-> h, module |-> content, active |-> TRUE]
    BY <1>9
  <2>2. h \in Headers /\ content \in Contents
    BY <1>4, <1>6
  <2>3. h = order[i] /\ content = loaded[order[i]]
    OBVIOUS
  <2> HIDE DEF h, content
  <2>4. /\ m_entries'[i].header = h /\ m_entries'[i].module = content /\ m_entries'[i].active = TRUE
    BY <2>1
  <2>5. m_entries'[i] \in Entries
    BY <2>1, <2>2 DEF Entries
  <2> QED
    BY <2>3, <2>4, <2>5
<1>12. m_entries' \in [Slots -> Entries]
  <2>1. \A i \in Slots : m_entries'[i] \in Entries
    BY <1>7, <1>10, <1>11
  <2>2. m_entries' = [i \in Slots |-> m_entries'[i]]
    BY <1>2
  <2> QED
    BY <2>1, <2>2
<1>13. InUse' = 1 .. n
  BY <1>6, <1>7, <1>10, <1>11 DEF InUse, Active
<1>14. Range(order) = {order[i] : i \in 1 .. n}
  BY <1>2 DEF Range
<1>15. MachTypes'
  BY <1>3, <1>12 DEF BeforeConstruction, MachTypes
<1>16. CallbackInv'
  BY <1>4 DEF CallbackInv, Changes
<1>17. TableInv'
  <2>1. \A i \in InUse' :
          m_entries'[i].header = order[i] /\ m_entries'[i].module = loaded'[order[i]]
    BY <1>3, <1>11, <1>13
  <2>2. \A i \in InUse' : order[i] \in DOMAIN loaded' \ (ignored' \cup Adding')
    BY <1>2, <1>3, <1>5, <1>6, <1>14, <1>13
  <2>3. \A h \in DOMAIN loaded' \ (ignored' \cup Adding') : \E i \in InUse' : m_entries'[i].header = h
    BY <1>2, <1>3, <1>14, <1>13, <2>1
  <2> QED
    BY <2>1, <2>2, <2>3 DEF TableInv
<1>18. ListerInv'
  BY <1>4 DEF ListerInv, Lists
<1>19. ListInv'
  BY <1>3, <1>4 DEF ListInv
<1> QED
  BY <1>15, <1>16, <1>17, <1>18, <1>19 DEF MachInv

\* Every step of every library keeps InterposeInv.
LEMMA InterposeStep == ASSUME InterposeInv, [Next]_vars PROVE InterposeInv'
<1>1. library' = library
  BY DEF Next, vars
<1>2. CASE library # "interpose"
  <2>1. UNCHANGED interposeVars
    BY <1>2 DEF Next, vars
  <2> QED
    BY <1>1, <1>2, <2>1 DEF InterposeInv, interposeVars, machVars
<1>3. CASE library = "interpose" /\ InterposeNext
  <2>1. CASE Construct
    <3>1. ~ constructed /\ constructed' = TRUE
      BY <2>1 DEF Construct
    <3> QED
      BY <1>1, <1>3, <2>1, <3>1, ConstructStep DEF InterposeInv
  <2>2. CASE constructed /\ constructed' = constructed /\ MachNext
    <3>1. MachInv
      BY <1>3, <2>2 DEF InterposeInv
    <3>2. MachInv'
      BY <2>2, <3>1, CallbackStep, ListStep, ChangeTableStep DEF MachNext
    <3> QED
      BY <1>1, <1>3, <2>2, <3>2 DEF InterposeInv
  <2>3. ASSUME constructed, NEW t \in Threads,
               \/ Replacement(t) \/ ShutdownTracking(t) \/ StopTracking(t) \/ TrackingStopped(t)
               \/ NothingRecorded(t)
        PROVE  InterposeInv'
    <3>1. MachInv
      BY <1>3, <2>3 DEF InterposeInv
    <3>2. MachInv'
      BY <2>3, <3>1, TrackStep
    <3>3. constructed' = constructed
      BY <2>3 DEF Replacement, ShutdownTracking, StopTracking, TrackingStopped, NothingRecorded,
         interposeVars
    <3> QED
      BY <1>1, <1>3, <2>3, <3>2, <3>3 DEF InterposeInv
  <2> QED
    BY <1>3, <2>1, <2>2, <2>3 DEF InterposeNext
<1>4. CASE library = "interpose" /\ UNCHANGED vars
  <2>1. UNCHANGED <<lock, s_data, pc, loaded, m_entries, m_mutex, s_moduleCacheDirty,
                    listed, changing, ignored, constructed>>
    BY <1>4 DEF vars, recorder, interposeVars, machVars, table
  <2>2. InUse' = InUse /\ Images' = Images /\ Adding' = Adding
    BY <2>1 DEF InUse, Active, Images, Adding
  <2>3. BeforeConstruction => BeforeConstruction'
    BY <2>1, <2>2 DEF BeforeConstruction, MachTypes
  <2>4. MachInv => MachInv'
    BY <2>1, <2>2 DEF MachInv, MachTypes, CallbackInv, TableInv, ListerInv, ListInv, Listing
  <2> QED
    BY <1>1, <1>4, <2>1, <2>3, <2>4 DEF InterposeInv
<1> QED
  BY <1>2, <1>3, <1>4 DEF Next

\* At the start the table is empty, and the list to be written.
LEMMA InitInterpose == Init => InterposeInv
<1> SUFFICES ASSUME Init PROVE InterposeInv
  OBVIOUS
<1>1. /\ s_moduleCacheDirty = TRUE /\ m_entries = [i \in Slots |-> NoEntry] /\ ignored = {}
      /\ changing = [t \in Threads |-> "none"] /\ constructed = FALSE
      /\ pc = [t \in Threads |-> "idle"] /\ s_data = FALSE
  BY DEF Init, InterposeInit, MachInit, RecorderInit
<1>2. DOMAIN loaded \subseteq Headers /\ \A h \in DOMAIN loaded : loaded[h] \in Contents
  BY DEF Init, InterposeInit, MachInit
<1>3. NoEntry \in Entries /\ NoEntry.active = FALSE
  BY DEF NoEntry, Entries
<1>4. MachTypes
  BY <1>1, <1>2, <1>3 DEF MachTypes, Places
<1>5. InUse = {}
  BY <1>1, <1>3 DEF InUse, Active
<1> QED
  BY <1>1, <1>4, <1>5 DEF InterposeInv, BeforeConstruction

\* InterposeInv holds in every reachable state of Interception.
THEOREM ImagesInvariance == Spec => []InterposeInv
<1> QED
  BY InitInterpose, InterposeStep, PTL DEF Spec

\* A clean list is that of the loaded images, for any number of threads, images and
\* entries of the table, whatever came and went while it was written.
THEOREM ListIsCurrent == Spec => []ModulesListed
<1>1. ASSUME InterposeInv PROVE ModulesListed
  <2> SUFFICES ASSUME s_data, ~ s_moduleCacheDirty, lock = "free", \A t \in Threads : changing[t] = "none"
               PROVE  listed = {Image(h, loaded[h]) : h \in DOMAIN loaded \ ignored}
    BY DEF ModulesListed
  <2>1. MachInv
    BY <1>1 DEF InterposeInv, BeforeConstruction
  <2>2. \A t \in Threads : pc[t] \notin Lists \cup Changes
    BY <2>1, ThreadsAssumption DEF MachInv, ListerInv, CallbackInv
  <2>3. listed = Images /\ Adding = {}
    BY <2>1, <2>2 DEF MachInv, ListInv, Listing, Adding, Changes
  <2>4. \A i \in InUse : m_entries[i].header \in DOMAIN loaded \ ignored
            /\ m_entries[i].module = loaded[m_entries[i].header]
    BY <2>1 DEF MachInv, TableInv
  <2>5. \A h \in DOMAIN loaded \ ignored : \E i \in InUse : m_entries[i].header = h
    BY <2>1, <2>3 DEF MachInv, TableInv
  <2> QED
    BY <2>3, <2>4, <2>5 DEF Images, Image
<1> QED
  BY ImagesInvariance, <1>1, PTL

-----------------------------------------------------------------------------
(* The functions that the preloaded library calls.                         *)

There == Required \cup found

\* What the first call of a wrapper still does once it has the lock, and what is left
\* of it after k functions are looked up.
Lookups(name) ==
    [i \in 1 .. 20 |-> IF i <= 18 THEN Do("resolve", InitOrder[i])
                       ELSE IF i = 19 THEN Do("create_file", "none") ELSE Do("call", name)]

Script(k, name) == SubSeq(Lookups(name), k + 1, 20)

Untouched == message = {} /\ lock = "free" /\ s_data = FALSE

\* Nobody has called anything.
NotCalled ==
    /\ Untouched /\ pool = 0 /\ asked = {} /\ original = [n \in Hooks |-> "null"]
    /\ \A t \in Threads : todo[t] = <<>>

\* The first call, of name by u, before it looks calloc up, while it does and afterwards.
BeforeCalloc(u, name) ==
    /\ Untouched /\ pool = 0 /\ asked = {}
    /\ todo[u] = <<Do("use_pool", "calloc"), Do("resolve", "calloc"), Do("heaptrack_init", "none"),
                   Do("call", name)>>

LooksCallocUp(u, name) ==
    /\ Untouched /\ original["calloc"] = "pool"
    /\ \/ /\ (asked = {} /\ pool = 0) \/ (asked = {u} /\ pool = 1)
          /\ todo[u] = <<Do("resolve", "calloc"), Do("heaptrack_init", "none"), Do("call", name)>>
       \/ /\ asked = {u} /\ pool = 0
          /\ todo[u] = <<Do("call", "calloc"), Do("resolve", "calloc"), Do("heaptrack_init", "none"),
                         Do("call", name)>>

HasCalloc(u, name) ==
    /\ Untouched /\ original["calloc"] = "real"
    /\ todo[u] = <<Do("heaptrack_init", "none"), Do("call", name)>>

\* Under the lock the functions get their originals in the order of the script, and
\* dlsym itself calls only what has one.
LooksUp(u, name) ==
    /\ lock = u /\ original["calloc"] = "real"
    /\ \E k \in 0 .. 18 :
        /\ \A i \in 1 .. k : InitOrder[i] \in There => original[InitOrder[i]] = "real"
        /\ message # {} => k >= 6
        /\ \/ todo[u] = Script(k, name)
           \/ \E n \in Hooks : original[n] = "real" /\ todo[u] = <<Do("call", n)>> \o Script(k, name)

FirstCall ==
    \E u \in Threads, name \in There :
        /\ \A t \in Threads \ {u} : todo[t] = <<>>
        /\ \/ BeforeCalloc(u, name) \/ LooksCallocUp(u, name) \/ HasCalloc(u, name) \/ LooksUp(u, name)

\* Afterwards whatever is called is there.
CallsReal ==
    /\ \A n \in There : original[n] = "real"
    /\ \A t \in Threads : todo[t] = <<>> \/ \E name \in There : todo[t] = <<Do("call", name)>>

PreloadTypes ==
    /\ found \subseteq Hooks /\ DOMAIN original = Hooks /\ DOMAIN todo = Threads
    /\ outcome = "running" /\ held = {}

\* While the optional functions are those of the start.
PreloadInv ==
    IF library # "preload" THEN outcome = "running" /\ held = {} /\ \A t \in Threads : todo[t] = <<>>
    ELSE Late \cap found = {} =>
            PreloadTypes /\ IF started THEN CallsReal ELSE NotCalled \/ FirstCall

\* Hooks and what is known of the order in which they are looked up.
LEMMA OrderFacts ==
    /\ DOMAIN InitOrder = 1 .. 18 /\ Hooks = {InitOrder[i] : i \in 1 .. 18}
    /\ InitOrder[3] = "malloc" /\ InitOrder[4] = "free" /\ InitOrder[5] = "calloc"
    /\ \A i \in 1 .. 5 : InitOrder[i] \in Required
    /\ Required \subseteq Hooks
<1>1. DOMAIN InitOrder = 1 .. 18
  BY DEF InitOrder
<1>2. /\ InitOrder[1] = "dlopen" /\ InitOrder[2] = "dlclose" /\ InitOrder[3] = "malloc"
      /\ InitOrder[4] = "free" /\ InitOrder[5] = "calloc" /\ InitOrder[7] = "realloc"
  BY DEF InitOrder
<1>3. Hooks = {InitOrder[i] : i \in 1 .. 18}
  BY <1>1 DEF Hooks
<1>4. \A i \in 1 .. 5 : InitOrder[i] \in Required
  <2>1. \A i \in 1 .. 5 : i = 1 \/ i = 2 \/ i = 3 \/ i = 4 \/ i = 5
    OBVIOUS
  <2> QED
    BY <1>2, <2>1 DEF Required
<1>5. Required \subseteq Hooks
  <2>1. 1 \in 1 .. 18 /\ 2 \in 1 .. 18 /\ 3 \in 1 .. 18 /\ 4 \in 1 .. 18 /\ 5 \in 1 .. 18 /\ 7 \in 1 .. 18
    OBVIOUS
  <2> QED
    BY <1>2, <1>3, <2>1 DEF Required
<1> QED
  BY <1>1, <1>2, <1>3, <1>4, <1>5

\* A call put before what is left to do comes first and leaves that.
LEMMA FirstToDo ==
    ASSUME NEW S, NEW todos \in Seq(S), NEW e
    PROVE  /\ <<e>> \o todos # <<>> /\ Head(<<e>> \o todos) = e
           /\ Tail(<<e>> \o todos) = todos
<1> DEFINE both == <<e>> \o todos
           T == {e} \cup S
<1>1. /\ Len(<<e>>) = 1 /\ <<e>>[1] = e /\ <<e>> \in Seq(T) /\ todos \in Seq(T)
  BY SeqMonotonic
<1> HIDE DEF T
<1>2. /\ both \in Seq(T) /\ Len(both) = 1 + Len(todos) /\ Len(todos) \in Nat
      /\ \A i \in 1 .. Len(both) : both[i] = IF i <= 1 THEN e ELSE todos[i - 1]
  BY <1>1, ConcatProperties, LenProperties
<1> HIDE DEF both
<1>3. both # <<>> /\ Head(both) = e
  BY <1>2
<1>4. /\ Tail(both) \in Seq(T) /\ Len(Tail(both)) = Len(todos)
      /\ \A i \in 1 .. Len(todos) : Tail(both)[i] = both[i + 1]
  BY <1>2, <1>3, HeadTailProperties
<1>5. \A i \in 1 .. Len(todos) : both[i + 1] = todos[i]
  BY <1>2
<1>6. Tail(both) = todos
  BY <1>1, <1>4, <1>5, SeqEqual
<1> QED
  BY <1>3, <1>6 DEF both

\* The lookups are a sequence.
LEMMA LookupsType ==
    ASSUME NEW name
    PROVE  /\ \E S : Lookups(name) \in Seq(S)
           /\ Len(Lookups(name)) = 20
           /\ \A i \in 1 .. 18 : Lookups(name)[i] = Do("resolve", InitOrder[i])
           /\ Lookups(name)[19] = Do("create_file", "none") /\ Lookups(name)[20] = Do("call", name)
<1> DEFINE f == Lookups(name)
           S == {f[i] : i \in 1 .. 20}
<1>1. /\ \A i \in 1 .. 18 : f[i] = Do("resolve", InitOrder[i])
      /\ f[19] = Do("create_file", "none") /\ f[20] = Do("call", name)
      /\ f = [i \in 1 .. 20 |-> f[i]]
  BY DEF Lookups
<1> HIDE DEF f
<1>2. f \in Seq(S) /\ Len(f) = 20
  BY <1>1
<1> QED
  BY <1>1, <1>2 DEF f

\* The next step of the script, and what remains.
LEMMA ScriptSteps ==
    ASSUME NEW k \in 0 .. 18, NEW name
    PROVE  /\ \E S : Script(k, name) \in Seq(S)
           /\ Script(k, name) # <<>>
           /\ k < 18 => Head(Script(k, name)) = Do("resolve", InitOrder[k + 1])
                        /\ Tail(Script(k, name)) = Script(k + 1, name)
           /\ k = 18 => Head(Script(k, name)) = Do("create_file", "none")
                        /\ Tail(Script(k, name)) = <<Do("call", name)>>
<1> DEFINE f == Lookups(name)
           a == Do("create_file", "none")
           b == Do("call", name)
<1>1. PICK S : f \in Seq(S)
  BY LookupsType
<1>2. /\ Len(f) = 20 /\ f[19] = a /\ f[20] = b
      /\ \A i \in 1 .. 18 : f[i] = Do("resolve", InitOrder[i])
      /\ \A j \in 0 .. 19 : Script(j, name) = SubSeq(f, j + 1, 20)
  BY LookupsType DEF Script
<1> HIDE DEF f, a, b
<1>3. \A i \in 1 .. 20 : f[i] \in S
  BY <1>1, <1>2, ElementOfSeq
<1>4. \A j \in 0 .. 19 : /\ Script(j, name) \in Seq(S) /\ Len(Script(j, name)) = 20 - j
                         /\ \A i \in 1 .. 20 - j : Script(j, name)[i] = f[j + i]
  <2> TAKE j \in 0 .. 19
  <2>1. j + 1 \in Int /\ 20 \in Int /\ \A i \in j + 1 .. 20 : i \in 1 .. 20
    OBVIOUS
  <2>2. /\ SubSeq(f, j + 1, 20) \in Seq(S)
        /\ Len(SubSeq(f, j + 1, 20)) = IF j + 1 <= 20 THEN 20 - (j + 1) + 1 ELSE 0
        /\ \A i \in 1 .. 20 - (j + 1) + 1 : SubSeq(f, j + 1, 20)[i] = f[j + 1 + i - 1]
    BY <1>3, <2>1, SubSeqProperties
  <2>3. 20 - (j + 1) + 1 = 20 - j /\ j + 1 <= 20 /\ \A i \in Nat : j + 1 + i - 1 = j + i
    OBVIOUS
  <2>4. Script(j, name) = SubSeq(f, j + 1, 20)
    BY <1>2
  <2>5. Script(j, name) \in Seq(S) /\ Len(Script(j, name)) = 20 - j
    BY <2>2, <2>3, <2>4
  <2>6. ASSUME NEW i \in 1 .. 20 - j PROVE Script(j, name)[i] = f[j + i]
    <3>1. SubSeq(f, j + 1, 20)[i] = f[j + 1 + i - 1] /\ i \in Nat
      BY <2>2, <2>3
    <3> QED
      BY <2>3, <2>4, <3>1
  <2> QED
    BY <2>5, <2>6
<1>5. Script(k, name) # <<>> /\ Script(k, name) \in Seq(S)
  <2>1. k \in 0 .. 19 /\ 20 - k # 0
    OBVIOUS
  <2>2. Script(k, name) \in Seq(S) /\ Len(Script(k, name)) # 0
    BY <1>4, <2>1
  <2> QED
    BY <2>2, EmptySeq
<1>6. Head(Script(k, name)) = f[k + 1] /\ Tail(Script(k, name)) = SubSeq(f, k + 2, 20)
  <2>1. k + 1 \in 1 .. Len(f) /\ 20 \in k + 1 .. Len(f) /\ (k + 1) + 1 = k + 2
    BY <1>2
  <2>2. /\ Head(SubSeq(f, k + 1, 20)) = f[k + 1]
        /\ Tail(SubSeq(f, k + 1, 20)) = SubSeq(f, (k + 1) + 1, 20)
    BY <1>1, <2>1, HeadTailOfSubSeq
  <2>3. Script(k, name) = SubSeq(f, k + 1, 20)
    BY DEF Script, f
  <2> QED
    BY <2>1, <2>2, <2>3
<1>7. Tail(Script(k, name)) = Script(k + 1, name)
  <2>1. k + 1 \in 0 .. 19 /\ (k + 1) + 1 = k + 2
    OBVIOUS
  <2> QED
    BY <1>2, <1>6, <2>1
<1>8. Script(19, name) = <<b>>
  <2>1. Script(19, name) \in Seq(S) /\ Len(Script(19, name)) = 1 /\ Script(19, name)[1] = b
    BY <1>2, <1>4
  <2>2. Len(<<b>>) = 1 /\ <<b>>[1] = b /\ b \in S /\ <<b>> \in Seq(S)
    BY <1>2, <1>3
  <2> QED
    BY <2>1, <2>2, SeqEqual
<1>9. k < 18 => f[k + 1] = Do("resolve", InitOrder[k + 1])
  <2>1. k < 18 => k + 1 \in 1 .. 18
    OBVIOUS
  <2> QED
    BY <1>2, <2>1
<1>10. k = 18 => f[k + 1] = a /\ Script(k + 1, name) = <<b>>
  BY <1>2, <1>8
<1>11. \E T : Script(k, name) \in Seq(T)
  BY <1>5
<1> QED
  BY <1>5, <1>6, <1>7, <1>9, <1>10, <1>11 DEF a, b

\* Before the end the next function is looked up, and then the file is made.
LEMMA ScriptGoesOn ==
    ASSUME NEW k \in 0 .. 17, NEW name
    PROVE  /\ Script(k, name) # <<>> /\ Head(Script(k, name)) = Do("resolve", InitOrder[k + 1])
           /\ Tail(Script(k, name)) = Script(k + 1, name)
<1>1. k \in 0 .. 18 /\ k < 18
  OBVIOUS
<1> QED
  BY <1>1, ScriptSteps

\* The end of the script.
LEMMA ScriptEnds ==
    ASSUME NEW name
    PROVE  /\ Script(18, name) # <<>> /\ Head(Script(18, name)) = Do("create_file", "none")
           /\ Tail(Script(18, name)) = <<Do("call", name)>>
<1>1. 18 \in 0 .. 18 /\ 18 = 18
  OBVIOUS
<1> QED
  BY <1>1, ScriptSteps

\* The callback of heaptrack_init adds the whole script.
LEMMA WholeScript ==
    ASSUME NEW name
    PROVE  [i \in DOMAIN InitOrder |-> Do("resolve", InitOrder[i])]
               \o <<Do("create_file", "none")>> \o <<Do("call", name)>> = Script(0, name)
<1> DEFINE lookups == [i \in DOMAIN InitOrder |-> Do("resolve", InitOrder[i])]
           a == Do("create_file", "none")
           b == Do("call", name)
           f == Lookups(name)
<1>1. /\ Len(f) = 20 /\ f[19] = a /\ f[20] = b
      /\ \A i \in 1 .. 18 : f[i] = Do("resolve", InitOrder[i])
  BY LookupsType
<1>2. PICK S : f \in Seq(S)
  BY LookupsType
<1>3. DOMAIN lookups = 1 .. 18 /\ lookups = [i \in 1 .. 18 |-> lookups[i]]
      /\ \A i \in 1 .. 18 : lookups[i] = f[i]
  BY <1>1, OrderFacts
<1>4. Script(0, name) = f
  <2>1. SubSeq(f, 1, 20) = f
    BY <1>1, <1>2, SubSeqFull
  <2> QED
    BY <2>1 DEF Script
<1> HIDE DEF lookups, a, b, f
<1>5. \A i \in 1 .. 20 : f[i] \in S
  BY <1>1, <1>2, ElementOfSeq
<1>6. lookups \in Seq(S) /\ Len(lookups) = 18
  BY <1>3, <1>5
<1> DEFINE A == <<a>>  B == <<b>>
<1>7. A \in Seq(S) /\ B \in Seq(S) /\ Len(A) = 1 /\ Len(B) = 1 /\ A[1] = a /\ B[1] = b
  <2>1. a \in S /\ b \in S
    BY <1>1, <1>5
  <2> QED
    BY <2>1
<1> DEFINE most == lookups \o A
<1> HIDE DEF A, B
<1>8. /\ most \in Seq(S) /\ Len(most) = Len(lookups) + Len(A)
      /\ \A i \in 1 .. Len(lookups) + Len(A) :
            most[i] = IF i <= Len(lookups) THEN lookups[i] ELSE A[i - Len(lookups)]
  BY <1>6, <1>7, ConcatProperties
<1> HIDE DEF most
<1>9. Len(most) = 19 /\ \A i \in 1 .. 19 : most[i] = f[i]
  <2>1. Len(most) = 19 /\ \A i \in 1 .. 19 : most[i] = IF i <= 18 THEN lookups[i] ELSE A[i - 18]
    BY <1>6, <1>7, <1>8
  <2>2. \A i \in 1 .. 18 : most[i] = lookups[i]
    BY <2>1
  <2>3. most[19] = A[1]
    BY <2>1
  <2>4. \A i \in 1 .. 19 : i \in 1 .. 18 \/ i = 19
    OBVIOUS
  <2> QED
    BY <1>1, <1>3, <1>7, <2>1, <2>2, <2>3, <2>4
<1> DEFINE all == most \o B
<1>10. /\ all \in Seq(S) /\ Len(all) = Len(most) + Len(B)
       /\ \A i \in 1 .. Len(most) + Len(B) :
             all[i] = IF i <= Len(most) THEN most[i] ELSE B[i - Len(most)]
  <2>1. most \in Seq(S) /\ B \in Seq(S)
    BY <1>7, <1>8
  <2> HIDE DEF all
  <2>2. all = most \o B
    BY DEF all
  <2> QED
    BY <2>1, <2>2, ConcatProperties
<1> HIDE DEF all
<1>11. Len(all) = 20 /\ \A i \in 1 .. 20 : all[i] = f[i]
  <2>1. Len(all) = 20 /\ \A i \in 1 .. 20 : all[i] = IF i <= 19 THEN most[i] ELSE B[i - 19]
    BY <1>7, <1>9, <1>10
  <2>2. \A i \in 1 .. 19 : all[i] = most[i]
    BY <2>1
  <2>3. all[20] = B[1]
    BY <2>1
  <2>4. \A i \in 1 .. 20 : i \in 1 .. 19 \/ i = 20
    OBVIOUS
  <2> QED
    BY <1>1, <1>7, <1>9, <2>1, <2>2, <2>3, <2>4
<1>12. all = f
  BY <1>1, <1>2, <1>10, <1>11, SeqEqual
<1> QED
  BY <1>4, <1>12 DEF all, most, A, B, lookups, a, b

\* Four elements, from one and three or three and one.
LEMMA FourTogether ==
    ASSUME NEW a, NEW b, NEW c, NEW d
    PROVE  <<a>> \o <<b, c, d>> = <<a, b, c, d>> /\ <<a, b, c>> \o <<d>> = <<a, b, c, d>>
<1> DEFINE S == {a, b, c, d}
           one == <<a>>  three == <<b, c, d>>  four == <<a, b, c, d>>
           front == <<a, b, c>>  last == <<d>>
<1>1. one \in Seq(S) /\ three \in Seq(S) /\ four \in Seq(S) /\ front \in Seq(S) /\ last \in Seq(S)
  OBVIOUS
<1>2. /\ Len(one) = 1 /\ Len(three) = 3 /\ Len(four) = 4 /\ Len(front) = 3 /\ Len(last) = 1
      /\ one[1] = a /\ three[1] = b /\ three[2] = c /\ three[3] = d /\ last[1] = d
      /\ front[1] = a /\ front[2] = b /\ front[3] = c
      /\ four[1] = a /\ four[2] = b /\ four[3] = c /\ four[4] = d
  OBVIOUS
<1> HIDE DEF S, one, three, four, front, last
<1>3. \A i \in 1 .. 4 : i = 1 \/ i = 2 \/ i = 3 \/ i = 4
  OBVIOUS
<1>4. one \o three = four
  <2>1. /\ one \o three \in Seq(S) /\ Len(one \o three) = Len(one) + Len(three)
        /\ \A i \in 1 .. Len(one) + Len(three) :
              (one \o three)[i] = IF i <= Len(one) THEN one[i] ELSE three[i - Len(one)]
    BY <1>1, ConcatProperties
  <2> DEFINE both == one \o three
  <2> HIDE DEF both
  <2>2. /\ both \in Seq(S) /\ Len(both) = 4
        /\ \A i \in 1 .. 4 : both[i] = IF i <= 1 THEN one[i] ELSE three[i - 1]
    BY <1>2, <2>1 DEF both
  <2>3. both[1] = a /\ both[2] = b /\ both[3] = c /\ both[4] = d
    BY <1>2, <2>2
  <2>4. \A i \in 1 .. 4 : both[i] = four[i]
    BY <1>2, <1>3, <2>3
  <2>5. both = four
    BY ZenonT(60), <1>1, <1>2, <2>2, <2>4, SeqEqual
  <2> QED
    BY <2>5 DEF both
<1>5. front \o last = four
  <2>1. /\ front \o last \in Seq(S) /\ Len(front \o last) = Len(front) + Len(last)
        /\ \A i \in 1 .. Len(front) + Len(last) :
              (front \o last)[i] = IF i <= Len(front) THEN front[i] ELSE last[i - Len(front)]
    BY <1>1, ConcatProperties
  <2> DEFINE both == front \o last
  <2> HIDE DEF both
  <2>2. /\ both \in Seq(S) /\ Len(both) = 4
        /\ \A i \in 1 .. 4 : both[i] = IF i <= 3 THEN front[i] ELSE last[i - 3]
    BY <1>2, <2>1 DEF both
  <2>3. both[1] = a /\ both[2] = b /\ both[3] = c /\ both[4] = d
    BY <1>2, <2>2
  <2>4. \A i \in 1 .. 4 : both[i] = four[i]
    BY <1>2, <1>3, <2>3
  <2>5. both = four
    BY ZenonT(60), <1>1, <1>2, <2>2, <2>4, SeqEqual
  <2> QED
    BY <2>5 DEF both
<1> QED
  BY <1>4, <1>5 DEF one, three, four, front, last

\* A wrapper whose original is known only calls it; without one it sets up first.
LEMMA WhatIsCalled ==
    ASSUME NEW name
    PROVE  /\ original[name] # "null" => CallSteps(name) = <<Do("call", name)>>
           /\ original[name] = "null" =>
                CallSteps(name) = <<Do("use_pool", "calloc"), Do("resolve", "calloc"),
                                    Do("heaptrack_init", "none"), Do("call", name)>>
<1>1. <<>> \o <<Do("call", name)>> = <<Do("call", name)>>
  BY ConcatEmptySeq
<1>2. InitSteps \o <<Do("call", name)>> = <<Do("use_pool", "calloc"), Do("resolve", "calloc"),
                                            Do("heaptrack_init", "none"), Do("call", name)>>
  BY FourTogether DEF InitSteps
<1> QED
  BY <1>1, <1>2 DEF CallSteps

\* The operations of a thread that is in a wrapper.
InWrapper(u) ==
    \/ UsePool(u) \/ DlsymCallocs(u) \/ DlsymFrees(u) \/ Resolve(u)
    \/ HeaptrackInit(u) \/ CreatePreloadFile(u) \/ CallOriginal(u)

\* Nobody else does anything before the first call is through.
LEMMA OnlyTheFirst ==
    ASSUME PreloadTypes, ~ started, NEW u \in Threads, todo[u] # <<>>,
           \A t \in Threads \ {u} : todo[t] = <<>>, PreloadNext
    PROVE  /\ InWrapper(u)
           /\ found' = found /\ held' = IF Busy(u, "call") THEN held' ELSE held
           /\ DOMAIN todo' = Threads
           /\ \A t \in Threads \ {u} : todo'[t] = <<>>
<1>1. PICK t \in Threads :
        \/ InWrapper(t) \/ (\E name \in Called : Calls(t, name)) \/ Releases(t) \/ LoadAllocator(t)
  BY DEF PreloadNext, InWrapper
<1>2. ~ Releases(t) /\ ~ LoadAllocator(t) /\ \A name \in Called : ~ Calls(t, name)
  BY DEF Releases, LoadAllocator, Calls, PreloadTypes
<1>3. InWrapper(t)
  BY <1>1, <1>2
<1>4. todo[t] # <<>> /\ found' = found /\ \E steps : Steps(t, steps)
  BY <1>3 DEF InWrapper, UsePool, DlsymCallocs, DlsymFrees, Resolve, HeaptrackInit,
     CreatePreloadFile,
     CallOriginal, Busy
<1>5. t = u
  BY <1>4
<1>6. held' = IF Busy(u, "call") THEN held' ELSE held
  BY <1>3, <1>5 DEF InWrapper, UsePool, DlsymCallocs, DlsymFrees, Resolve, HeaptrackInit,
     CreatePreloadFile,
     CallOriginal
<1> QED
  BY <1>3, <1>4, <1>5, <1>6 DEF Steps, PreloadTypes

\* At first there is only the pool.
LEMMA BeforeCallocStep ==
    ASSUME PreloadTypes, NEW u \in Threads, NEW name \in There, BeforeCalloc(u, name), InWrapper(u)
    PROVE  LooksCallocUp(u, name)' /\ UNCHANGED <<outcome, started>> /\ DOMAIN original' = Hooks
<1>1. Head(todo[u]).do = "use_pool" /\ todo[u] # <<>>
  BY DEF BeforeCalloc, Do
<1>2. Tail(todo[u]) = <<Do("resolve", "calloc"), Do("heaptrack_init", "none"), Do("call", name)>>
  BY DEF BeforeCalloc
<1>3. UsePool(u)
  BY <1>1 DEF InWrapper, DlsymCallocs, DlsymFrees, Resolve, HeaptrackInit, CreatePreloadFile,
     CallOriginal, Busy
<1>4. "calloc" \in Hooks
  BY OrderFacts DEF Required
<1>5. /\ original' = [original EXCEPT !["calloc"] = "pool"] /\ todo' = [todo EXCEPT ![u] = Tail(todo[u])]
      /\ UNCHANGED <<lock, s_data, message, pool, asked, outcome, started>>
  BY <1>3 DEF UsePool, Steps, recorder
<1>6. original'["calloc"] = "pool" /\ DOMAIN original' = Hooks /\ todo'[u] = Tail(todo[u])
  BY <1>4, <1>5 DEF PreloadTypes
<1> QED
  BY <1>2, <1>5, <1>6 DEF BeforeCalloc, LooksCallocUp, Untouched

\* dlsym may call calloc, which the pool serves, before it gives the real one.
LEMMA LooksCallocUpStep ==
    ASSUME PoolSize >= 2, PreloadTypes, NEW u \in Threads, NEW name \in There, LooksCallocUp(u, name),
           InWrapper(u)
    PROVE  /\ LooksCallocUp(u, name)' \/ HasCalloc(u, name)'
           /\ UNCHANGED <<outcome, started>> /\ DOMAIN original' = Hooks
           /\ Busy(u, "call") => held' = held
<1> DEFINE rest == <<Do("heaptrack_init", "none"), Do("call", name)>>
           looks == <<Do("resolve", "calloc"), Do("heaptrack_init", "none"), Do("call", name)>>
           calls == <<Do("call", "calloc"), Do("resolve", "calloc"), Do("heaptrack_init", "none"),
                      Do("call", name)>>
<1>1. "calloc" \in Required /\ "calloc" \in Hooks
  BY OrderFacts DEF Required
<1>2. /\ looks # <<>> /\ Head(looks) = Do("resolve", "calloc") /\ Tail(looks) = rest
      /\ calls # <<>> /\ Head(calls) = Do("call", "calloc") /\ Tail(calls) = looks
      /\ <<Do("call", "calloc")>> \o looks = calls /\ looks # <<>>
  <2>1. \A a, b, c : <<a, b>> # <<>> /\ <<a, b, c>> # <<>>
            /\ Head(<<a, b, c>>) = a /\ Tail(<<a, b, c>>) = <<b, c>>
    OBVIOUS
  <2>2. \A a, b, c, d : <<a, b, c, d>> # <<>>
            /\ Head(<<a, b, c, d>>) = a /\ Tail(<<a, b, c, d>>) = <<b, c, d>>
    OBVIOUS
  <2>3. looks # <<>> /\ Head(looks) = Do("resolve", "calloc") /\ Tail(looks) = rest
    BY <2>1
  <2>4. calls # <<>> /\ Head(calls) = Do("call", "calloc") /\ Tail(calls) = looks
    BY <2>2
  <2>5. <<Do("call", "calloc")>> \o looks = calls
    BY FourTogether
  <2> QED
    BY <2>3, <2>4, <2>5
<1> HIDE DEF rest, looks, calls
<1>3. /\ Untouched /\ original["calloc"] = "pool"
      /\ \/ ((asked = {} /\ pool = 0) \/ (asked = {u} /\ pool = 1)) /\ todo[u] = looks
         \/ asked = {u} /\ pool = 0 /\ todo[u] = calls
  BY DEF LooksCallocUp, looks, calls
<1>4. CASE todo[u] = looks
  <2>1. Head(todo[u]).do = "resolve" /\ NameOf(u) = "calloc" /\ ~ Busy(u, "call") /\ calls # looks
    BY <1>2, <1>4 DEF Do, NameOf, Busy
  <2>2. DlsymCallocs(u) \/ DlsymFrees(u) \/ Resolve(u)
    BY <2>1 DEF InWrapper, UsePool, HeaptrackInit, CreatePreloadFile, CallOriginal, Busy
  <2>3. CASE DlsymCallocs(u)
    <3>1. /\ asked' = {u} /\ pool' = 0
          /\ todo' = [todo EXCEPT ![u] = CallSteps("calloc") \o todo[u]]
          /\ UNCHANGED <<lock, s_data, original, message, outcome, started>>
      BY <1>3, <1>4, <2>1, <2>3 DEF DlsymCallocs, Steps, recorder
    <3>2. CallSteps("calloc") = <<Do("call", "calloc")>>
      BY <1>3, WhatIsCalled
    <3>3. todo'[u] = calls
      BY <1>2, <1>4, <3>1, <3>2 DEF PreloadTypes
    <3> QED
      BY <1>3, <2>1, <3>1, <3>3 DEF LooksCallocUp, Untouched, calls, PreloadTypes
  <2>4. CASE Resolve(u)
    <3>1. /\ asked' = asked \ {u} /\ original' = [original EXCEPT !["calloc"] = "real"]
          /\ todo' = [todo EXCEPT ![u] = Tail(todo[u])]
          /\ UNCHANGED <<lock, s_data, message, outcome, started>>
      BY <1>1, <2>1, <2>4 DEF Resolve, Steps, recorder
    <3>2. todo'[u] = rest /\ original'["calloc"] = "real" /\ DOMAIN original' = Hooks
      BY <1>1, <1>2, <1>4, <3>1 DEF PreloadTypes
    <3> QED
      BY <1>3, <2>1, <3>1, <3>2 DEF HasCalloc, Untouched, rest
  <2> QED
    BY <1>3, <2>2, <2>3, <2>4 DEF DlsymFrees, Untouched
<1>5. CASE todo[u] = calls /\ asked = {u} /\ pool = 0
  <2>1. Head(todo[u]).do = "call" /\ NameOf(u) = "calloc"
    BY <1>2, <1>5 DEF Do, NameOf
  <2>2. CallOriginal(u)
    BY <2>1 DEF InWrapper, UsePool, DlsymCallocs, DlsymFrees, Resolve, HeaptrackInit,
       CreatePreloadFile, Busy
  <2>3. /\ todo' = [todo EXCEPT ![u] = Tail(todo[u])] /\ pool' = 1
        /\ held' = IF Tail(todo[u]) = <<>> THEN held \cup {u} ELSE held
        /\ outcome' = IF 1 >= PoolSize THEN "pool_exhausted" ELSE outcome
        /\ UNCHANGED <<lock, s_data, original, message, asked, started>>
    BY <1>3, <1>5, <2>1, <2>2 DEF CallOriginal, FromPool, Steps, recorder
  <2>4. todo'[u] = looks /\ held' = held /\ outcome' = outcome
    <3>1. Tail(todo[u]) = looks /\ ~ (1 >= PoolSize)
      BY <1>2, <1>5, PreloadAssumption
    <3> QED
      BY <1>2, <2>3, <3>1 DEF PreloadTypes
  <2> QED
    BY <1>3, <1>5, <2>3, <2>4 DEF LooksCallocUp, Untouched, looks, PreloadTypes
<1> QED
  BY <1>3, <1>4, <1>5

\* With calloc at hand, heaptrack_init takes the lock and begins the script.
LEMMA HasCallocStep ==
    ASSUME PreloadTypes, NEW u \in Threads, NEW name \in There, HasCalloc(u, name), InWrapper(u)
    PROVE  LooksUp(u, name)' /\ UNCHANGED <<outcome, started>> /\ DOMAIN original' = Hooks
           /\ ~ Busy(u, "call")
<1> DEFINE rest == <<Do("heaptrack_init", "none"), Do("call", name)>>
<1>1. rest # <<>> /\ Head(rest) = Do("heaptrack_init", "none") /\ Tail(rest) = <<Do("call", name)>>
  OBVIOUS
<1> HIDE DEF rest
<1>2. todo[u] = rest /\ Untouched /\ original["calloc"] = "real"
  BY DEF HasCalloc, rest
<1>3. Head(todo[u]).do = "heaptrack_init" /\ ~ Busy(u, "call")
  BY <1>1, <1>2 DEF Do, Busy
<1>4. HeaptrackInit(u)
  BY <1>3 DEF InWrapper, UsePool, DlsymCallocs, DlsymFrees, Resolve, CallOriginal,
     CreatePreloadFile, Busy
<1>5. /\ lock' = u /\ UNCHANGED <<original, message, outcome, started>>
      /\ todo' = [todo EXCEPT ![u] =
            [i \in DOMAIN InitOrder |-> Do("resolve", InitOrder[i])] \o <<Do("create_file", "none")>>
                \o Tail(todo[u])]
  BY <1>2, <1>4 DEF HeaptrackInit, TakeLock, Steps, Untouched
<1>6. todo'[u] = Script(0, name)
  BY <1>1, <1>2, <1>5, WholeScript DEF PreloadTypes
<1>7. LooksUp(u, name)'
  <2>1. 0 \in 0 .. 18 /\ \A i \in 1 .. 0 : FALSE
    OBVIOUS
  <2>2. message' = {}
    BY <1>2, <1>5 DEF Untouched
  <2> QED
    BY <1>2, <1>5, <1>6, <2>1, <2>2 DEF LooksUp, Script, Lookups
<1> QED
  BY <1>3, <1>5, <1>7 DEF PreloadTypes

\* What is looked up and what dlsym may call meanwhile, after k functions.
LookedUp(k) ==
    /\ original["calloc"] = "real"
    /\ \A i \in 1 .. k : InitOrder[i] \in There => original[InitOrder[i]] = "real"
    /\ message # {} => k >= 6

\* While dlsym calls the allocator it finds the real functions.
LEMMA DlsymCallsReal ==
    ASSUME PreloadTypes, NEW u \in Threads, NEW k \in 0 .. 17, LookedUp(k),
           NEW S, NEW todos \in Seq(S), NEW n \in Hooks, original[n] = "real",
           todo' = [todo EXCEPT ![u] = CallSteps(n) \o todos]
    PROVE  todo'[u] = <<Do("call", n)>> \o todos
<1>1. CallSteps(n) = <<Do("call", n)>>
  BY WhatIsCalled
<1> QED
  BY <1>1 DEF PreloadTypes

\* The functions are looked up one after the other.
LEMMA LookupStep ==
    ASSUME PreloadTypes, NEW u \in Threads, NEW name \in There, NEW k \in 0 .. 17, LookedUp(k),
           lock = u, todo[u] = Script(k, name), InWrapper(u)
    PROVE  /\ LooksUp(u, name)' /\ DOMAIN original' = Hooks
           /\ UNCHANGED <<outcome, started>> /\ ~ Busy(u, "call")
<1>1. PICK S : Script(k, name) \in Seq(S)
  BY ScriptSteps
<1>2. /\ Head(Script(k, name)) = Do("resolve", InitOrder[k + 1]) /\ Script(k, name) # <<>>
      /\ Tail(Script(k, name)) = Script(k + 1, name)
  BY ScriptGoesOn
<1>3. Head(todo[u]).do = "resolve" /\ NameOf(u) = InitOrder[k + 1] /\ ~ Busy(u, "call")
  BY <1>2 DEF Do, NameOf, Busy
<1>4. DlsymCallocs(u) \/ DlsymFrees(u) \/ Resolve(u)
  BY <1>3 DEF InWrapper, UsePool, HeaptrackInit, CreatePreloadFile, CallOriginal, Busy
<1>5. /\ lock' = lock /\ found' = found /\ UNCHANGED <<outcome, started>>
  BY <1>4 DEF DlsymCallocs, DlsymFrees, Resolve, recorder
<1>6. There' = There
  BY <1>5 DEF There
<1>7. k \in 0 .. 18 /\ k + 1 \in 0 .. 18 /\ k + 1 \in 1 .. 18
  OBVIOUS
<1>8. "calloc" \in Hooks /\ "free" \in Hooks /\ "malloc" \in Hooks
  BY OrderFacts DEF Required
<1>9. CASE DlsymCallocs(u)
  <2>1. original' = original /\ message' = message
        /\ todo' = [todo EXCEPT ![u] = CallSteps("calloc") \o Script(k, name)]
    BY <1>9 DEF DlsymCallocs, Steps
  <2>2. todo'[u] = <<Do("call", "calloc")>> \o Script(k, name)
    BY <1>1, <1>8, <2>1, DlsymCallsReal DEF LookedUp
  <2> QED
    BY <1>3, <1>5, <1>6, <1>7, <1>8, <2>1, <2>2 DEF LooksUp, LookedUp, PreloadTypes
<1>10. CASE DlsymFrees(u)
  <2>1. original' = original /\ message' = message \ {u} /\ u \in message
        /\ todo' = [todo EXCEPT ![u] = CallSteps("free") \o Script(k, name)]
    BY <1>10 DEF DlsymFrees, Steps
  <2>2. original["free"] = "real"
    <3>1. 4 \in 1 .. k
      BY <2>1 DEF LookedUp
    <3>2. InitOrder[4] = "free" /\ InitOrder[4] \in There
      BY OrderFacts DEF There
    <3> QED
      BY <3>1, <3>2 DEF LookedUp
  <2>3. todo'[u] = <<Do("call", "free")>> \o Script(k, name)
    BY <1>1, <1>8, <2>1, <2>2, DlsymCallsReal
  <2>4. message' # {} => k >= 6
    BY <2>1 DEF LookedUp
  <2> QED
    BY <1>3, <1>5, <1>6, <1>7, <1>8, <2>1, <2>2, <2>3, <2>4 DEF LooksUp, LookedUp, PreloadTypes
<1>11. CASE Resolve(u) /\ InitOrder[k + 1] \in There
  <2>1. /\ original' = [original EXCEPT ![InitOrder[k + 1]] = "real"] /\ message' = message
        /\ todo' = [todo EXCEPT ![u] = Script(k + 1, name)]
    BY <1>2, <1>3, <1>11 DEF Resolve, Steps, There
  <2>2. todo'[u] = Script(k + 1, name) /\ DOMAIN original' = Hooks
    BY <2>1 DEF PreloadTypes
  <2>3. \A n \in Hooks : original'[n] = IF n = InitOrder[k + 1] THEN "real" ELSE original[n]
    BY <2>1 DEF PreloadTypes
  <2>4. original'["calloc"] = "real" /\ (message' # {} => k + 1 >= 6)
    BY <1>8, <2>1, <2>3 DEF LookedUp
  <2>5. \A i \in 1 .. k + 1 : InitOrder[i] \in There => original'[InitOrder[i]] = "real"
    <3>1. \A i \in 1 .. k + 1 : InitOrder[i] \in Hooks /\ (i \in 1 .. k \/ i = k + 1)
      BY OrderFacts
    <3> QED
      BY <2>3, <3>1 DEF LookedUp
  <2>6. LooksUp(u, name)'
    <3>1. lock' = u /\ original'["calloc"] = "real"
      BY <1>5, <2>4
    <3>2. \A i \in 1 .. k + 1 : InitOrder[i] \in There' => original'[InitOrder[i]] = "real"
      BY <1>6, <2>5
    <3> QED
      BY <1>7, <2>2, <2>4, <3>1, <3>2 DEF LooksUp
  <2> QED
    BY <1>3, <1>5, <2>2, <2>6
<1>12. CASE Resolve(u) /\ InitOrder[k + 1] \notin There
  <2>1. original' = original /\ message' = message \cup {u}
        /\ todo' = [todo EXCEPT ![u] = CallSteps("malloc") \o Script(k + 1, name)]
    BY <1>2, <1>3, <1>12 DEF Resolve, Steps, There
  <2>2. k >= 5
    <3>1. ~ (k + 1 \in 1 .. 5)
      BY <1>12, OrderFacts DEF There
    <3> QED
      BY <3>1
  <2>3. original["malloc"] = "real"
    <3>1. 3 \in 1 .. k
      BY <2>2
    <3>2. InitOrder[3] = "malloc" /\ InitOrder[3] \in There
      BY OrderFacts DEF There
    <3> QED
      BY <3>1, <3>2 DEF LookedUp
  <2>4. PICK T : Script(k + 1, name) \in Seq(T)
    BY <1>7, ScriptSteps
  <2>5. todo'[u] = <<Do("call", "malloc")>> \o Script(k + 1, name)
    BY <1>8, <2>1, <2>3, <2>4, DlsymCallsReal
  <2>6. \A i \in 1 .. k + 1 : InitOrder[i] \in There => original'[InitOrder[i]] = "real"
    <3>1. \A i \in 1 .. k + 1 : i \in 1 .. k \/ i = k + 1
      OBVIOUS
    <3> QED
      BY <1>12, <2>1, <3>1 DEF LookedUp
  <2>7. LooksUp(u, name)'
    <3>1. lock' = u /\ original'["calloc"] = "real" /\ original'["malloc"] = "real"
      BY <1>5, <2>1, <2>3 DEF LookedUp
    <3>2. \A i \in 1 .. k + 1 : InitOrder[i] \in There' => original'[InitOrder[i]] = "real"
      BY <1>6, <2>6
    <3>3. k + 1 >= 6
      BY <2>2
    <3> QED
      BY <1>7, <1>8, <2>5, <3>1, <3>2, <3>3 DEF LooksUp
  <2> QED
    BY <1>3, <1>5, <2>1, <2>7 DEF PreloadTypes
<1> QED
  BY <1>4, <1>9, <1>10, <1>11, <1>12

\* Under the lock the script goes on, up to the file.
LEMMA LooksUpStep ==
    ASSUME PreloadTypes, NEW u \in Threads, NEW name \in There, LooksUp(u, name), InWrapper(u)
    PROVE  /\ UNCHANGED outcome /\ DOMAIN original' = Hooks /\ (Busy(u, "call") => held' = held)
           /\ \/ LooksUp(u, name)' /\ started' = started
              \/ /\ started' = TRUE /\ todo'[u] = <<Do("call", name)>>
                 /\ \A n \in There : original'[n] = "real"
<1>1. PICK k \in 0 .. 18 :
        /\ LookedUp(k) /\ lock = u
        /\ \/ todo[u] = Script(k, name)
           \/ \E n \in Hooks : original[n] = "real" /\ todo[u] = <<Do("call", n)>> \o Script(k, name)
  BY DEF LooksUp, LookedUp
<1>2. CASE todo[u] = Script(k, name) /\ k < 18
  <2>1. k \in 0 .. 17
    BY <1>2
  <2> QED
    BY <1>1, <1>2, <2>1, LookupStep
<1>3. CASE todo[u] = Script(k, name) /\ k = 18
  <2>1. /\ Head(todo[u]) = Do("create_file", "none") /\ Tail(todo[u]) = <<Do("call", name)>>
        /\ todo[u] # <<>>
    BY <1>3, ScriptEnds
  <2>2. Head(todo[u]).do = "create_file" /\ ~ Busy(u, "call")
    BY <2>1 DEF Do, Busy
  <2>3. CreatePreloadFile(u)
    BY <2>2 DEF InWrapper, UsePool, DlsymCallocs, DlsymFrees, Resolve, HeaptrackInit,
       CallOriginal, Busy
  <2>4. /\ original' = original /\ outcome' = outcome /\ started' = TRUE
        /\ todo' = [todo EXCEPT ![u] = Tail(todo[u])]
    BY <2>3 DEF CreatePreloadFile, Steps
  <2>5. \A n \in There : original'[n] = "real"
    <3>1. There \subseteq Hooks
      BY OrderFacts DEF There, PreloadTypes
    <3>2. \A i \in 1 .. 18 : InitOrder[i] \in There => original'[InitOrder[i]] = "real"
      BY <1>1, <1>3, <2>4 DEF LookedUp
    <3> QED
      BY <3>1, <3>2, OrderFacts
  <2> QED
    BY <2>1, <2>2, <2>4, <2>5 DEF PreloadTypes
<1>4. ASSUME NEW n \in Hooks, original[n] = "real", todo[u] = <<Do("call", n)>> \o Script(k, name)
      PROVE  /\ LooksUp(u, name)' /\ UNCHANGED <<outcome, started, held>> /\ DOMAIN original' = Hooks
  <2>1. PICK S : Script(k, name) \in Seq(S)
    BY ScriptSteps
  <2>2. todo[u] # <<>> /\ Head(todo[u]) = Do("call", n) /\ Tail(todo[u]) = Script(k, name)
    BY <1>4, <2>1, FirstToDo
  <2>3. Head(todo[u]).do = "call" /\ NameOf(u) = n
    BY <2>2 DEF Do, NameOf
  <2>4. CallOriginal(u)
    BY <2>3 DEF InWrapper, UsePool, DlsymCallocs, DlsymFrees, Resolve, HeaptrackInit,
       CreatePreloadFile, Busy
  <2>5. /\ UNCHANGED <<held, outcome, lock, original, found, message, started>>
        /\ todo' = [todo EXCEPT ![u] = Script(k, name)]
    BY <1>4, <2>2, <2>3, <2>4 DEF CallOriginal, Steps, recorder
  <2>6. todo'[u] = Script(k, name)
    BY <2>5 DEF PreloadTypes
  <2> QED
    BY <1>1, <2>5, <2>6 DEF LooksUp, LookedUp, There, PreloadTypes
<1>5. CASE \E n \in Hooks : original[n] = "real" /\ todo[u] = <<Do("call", n)>> \o Script(k, name)
  BY <1>4, <1>5
<1>6. k < 18 \/ k = 18
  OBVIOUS
<1> QED
  BY <1>1, <1>2, <1>3, <1>5, <1>6

\* The first call, up to where all functions are there.
LEMMA FirstCallStep ==
    ASSUME PoolSize >= 2, PreloadTypes, ~ started, FirstCall, PreloadNext
    PROVE  PreloadTypes' /\ IF started' THEN CallsReal' ELSE FirstCall'
<1>1. PICK u \in Threads, name \in There :
        /\ \A t \in Threads \ {u} : todo[t] = <<>>
        /\ BeforeCalloc(u, name) \/ LooksCallocUp(u, name) \/ HasCalloc(u, name) \/ LooksUp(u, name)
  BY DEF FirstCall
<1>2. todo[u] # <<>>
  <2>1. CASE BeforeCalloc(u, name)
    BY <2>1 DEF BeforeCalloc
  <2>2. CASE LooksCallocUp(u, name)
    BY SMTT(40), <2>2 DEF LooksCallocUp
  <2>3. CASE HasCalloc(u, name)
    BY <2>3 DEF HasCalloc
  <2>4. CASE LooksUp(u, name)
    <3>1. PICK k \in 0 .. 18 :
            todo[u] = Script(k, name) \/ \E n \in Hooks : todo[u] = <<Do("call", n)>> \o Script(k, name)
      BY <2>4 DEF LooksUp
    <3>2. PICK S : Script(k, name) \in Seq(S)
      BY ScriptSteps
    <3>3. Script(k, name) # <<>> /\ \A n \in Hooks : <<Do("call", n)>> \o Script(k, name) # <<>>
      BY <3>2, ScriptSteps, FirstToDo
    <3> QED
      BY <3>1, <3>3
  <2> QED
    BY <1>1, <2>1, <2>2, <2>3, <2>4
<1>3. /\ InWrapper(u) /\ found' = found /\ DOMAIN todo' = Threads
      /\ held' = IF Busy(u, "call") THEN held' ELSE held
      /\ \A t \in Threads \ {u} : todo'[t] = <<>>
  BY <1>1, <1>2, OnlyTheFirst
<1>4. There' = There
  BY <1>3 DEF There
<1>5. /\ outcome' = outcome /\ DOMAIN original' = Hooks /\ (Busy(u, "call") => held' = held)
      /\ \/ /\ started' = started
            /\ BeforeCalloc(u, name)' \/ LooksCallocUp(u, name)' \/ HasCalloc(u, name)' \/ LooksUp(u, name)'
         \/ /\ started' = TRUE /\ todo'[u] = <<Do("call", name)>>
            /\ \A n \in There : original'[n] = "real"
  <2>1. CASE BeforeCalloc(u, name)
    <3>1. ~ Busy(u, "call")
      BY <2>1 DEF BeforeCalloc, Busy, Do
    <3> QED
      BY <1>3, <2>1, <3>1, BeforeCallocStep
  <2>2. CASE LooksCallocUp(u, name)
    BY <1>3, <2>2, LooksCallocUpStep
  <2>3. CASE HasCalloc(u, name)
    BY <1>3, <2>3, HasCallocStep
  <2>4. CASE LooksUp(u, name)
    BY <1>3, <2>4, LooksUpStep
  <2> QED
    BY <1>1, <2>1, <2>2, <2>3, <2>4
<1>6. PreloadTypes'
  BY <1>3, <1>5 DEF PreloadTypes
<1>7. CASE started' = started
  <2>1. BeforeCalloc(u, name)' \/ LooksCallocUp(u, name)' \/ HasCalloc(u, name)' \/ LooksUp(u, name)'
    BY <1>5, <1>7
  <2> QED
    BY <1>3, <1>4, <1>6, <1>7, <2>1 DEF FirstCall
<1>8. CASE started' = TRUE /\ todo'[u] = <<Do("call", name)>> /\ \A n \in There : original'[n] = "real"
  BY <1>3, <1>4, <1>6, <1>8 DEF CallsReal
<1> QED
  BY <1>5, <1>7, <1>8

\* The application makes the first call.
LEMMA NotCalledStep ==
    ASSUME PreloadTypes, ~ started, NotCalled, PreloadNext
    PROVE  PreloadTypes' /\ ~ started' /\ FirstCall'
<1>1. PICK t \in Threads :
        \/ InWrapper(t) \/ (\E name \in Called : Calls(t, name)) \/ Releases(t) \/ LoadAllocator(t)
  BY DEF PreloadNext, InWrapper
<1>2. ~ InWrapper(t) /\ ~ Releases(t) /\ ~ LoadAllocator(t)
  BY DEF NotCalled, PreloadTypes, InWrapper, UsePool, DlsymCallocs, DlsymFrees, Resolve,
     HeaptrackInit,
     CreatePreloadFile, CallOriginal, Busy, Releases, LoadAllocator
<1>3. PICK name \in There : Calls(t, name)
  BY <1>1, <1>2 DEF Calls, There
<1>4. original[name] = "null"
  <2>1. There \subseteq Hooks
    BY OrderFacts DEF There, PreloadTypes
  <2> QED
    BY <2>1 DEF NotCalled
<1>5. /\ todo' = [todo EXCEPT ![t] = CallSteps(name)]
      /\ UNCHANGED <<lock, s_data, original, found, message, pool, asked, started, held, outcome>>
  BY <1>3 DEF Calls, Steps, recorder
<1>6. CallSteps(name) = <<Do("use_pool", "calloc"), Do("resolve", "calloc"),
                          Do("heaptrack_init", "none"),
                          Do("call", name)>>
  BY <1>4, WhatIsCalled
<1>7. PreloadTypes' /\ There' = There
  BY <1>5 DEF PreloadTypes, There
<1>8. BeforeCalloc(t, name)'
  BY <1>5, <1>6 DEF BeforeCalloc, NotCalled, Untouched, PreloadTypes
<1>9. \A u \in Threads \ {t} : todo'[u] = <<>>
  BY <1>5 DEF NotCalled, PreloadTypes
<1> QED
  BY <1>5, <1>7, <1>8, <1>9 DEF FirstCall

\* Once the functions are there they are called.
LEMMA CallsRealStep ==
    ASSUME PreloadTypes, started, CallsReal, PreloadNext
    PROVE  started' /\ (Late \cap found' = {} => PreloadTypes' /\ CallsReal')
<1>1. PICK t \in Threads :
        \/ InWrapper(t) \/ (\E name \in Called : Calls(t, name)) \/ Releases(t) \/ LoadAllocator(t)
  BY DEF PreloadNext, InWrapper
<1>2. CASE InWrapper(t)
  <2>1. todo[t] # <<>>
    BY <1>2 DEF InWrapper, UsePool, DlsymCallocs, DlsymFrees, Resolve, HeaptrackInit,
       CreatePreloadFile,
       CallOriginal, Busy
  <2>2. PICK name \in There : todo[t] = <<Do("call", name)>>
    BY <2>1 DEF CallsReal
  <2>3. Head(todo[t]).do = "call" /\ NameOf(t) = name /\ Tail(todo[t]) = <<>>
    BY <2>2 DEF Do, NameOf
  <2>4. CallOriginal(t)
    BY <1>2, <2>3 DEF InWrapper, UsePool, DlsymCallocs, DlsymFrees, Resolve, HeaptrackInit,
       CreatePreloadFile, Busy
  <2>5. original[name] = "real"
    BY DEF CallsReal
  <2>6. /\ UNCHANGED <<held, outcome, original, found, started>>
        /\ todo' = [todo EXCEPT ![t] = <<>>]
    BY <2>3, <2>4, <2>5 DEF CallOriginal, Steps
  <2> QED
    BY <2>6 DEF CallsReal, PreloadTypes, There
<1>3. ASSUME NEW name \in Called, Calls(t, name) PROVE started' /\ PreloadTypes' /\ CallsReal'
  <2>1. /\ name \in There /\ UNCHANGED <<held, outcome, original, found, started>>
        /\ todo' = [todo EXCEPT ![t] = CallSteps(name)]
    BY <1>3 DEF Calls, Steps, There
  <2>2. original[name] = "real"
    BY <2>1 DEF CallsReal
  <2>3. CallSteps(name) = <<Do("call", name)>>
    BY <2>2, WhatIsCalled
  <2> QED
    BY <2>1, <2>3 DEF CallsReal, PreloadTypes, There
<1>4. ~ Releases(t)
  BY DEF Releases, PreloadTypes
<1>5. CASE LoadAllocator(t)
  BY <1>5 DEF LoadAllocator
<1> QED
  BY <1>1, <1>2, <1>3, <1>4, <1>5

\* Every step of every library keeps PreloadInv, with a pool that serves one call.
LEMMA PreloadStep == ASSUME PoolSize >= 2, PreloadInv, [Next]_vars PROVE PreloadInv'
<1>1. library' = library
  BY DEF Next, vars
<1>2. CASE UNCHANGED preloadVars /\ library # "preload"
  BY <1>1, <1>2 DEF PreloadInv, preloadVars
<1>3. CASE library = "preload" /\ PreloadNext
  <2> SUFFICES ASSUME Late \cap found' = {}
               PROVE  PreloadTypes' /\ IF started' THEN CallsReal' ELSE NotCalled' \/ FirstCall'
    BY <1>1, <1>3 DEF PreloadInv
  <2>1. found \subseteq found'
    BY <1>3 DEF PreloadNext, UsePool, DlsymCallocs, DlsymFrees, Resolve, HeaptrackInit,
       CreatePreloadFile,
       CallOriginal, Calls, Releases, LoadAllocator
  <2>2. PreloadTypes /\ IF started THEN CallsReal ELSE NotCalled \/ FirstCall
    BY <1>3, <2>1 DEF PreloadInv
  <2> QED
    BY <1>3, <2>2, FirstCallStep, NotCalledStep, CallsRealStep
<1>4. CASE library = "preload" /\ UNCHANGED vars
  <2>1. UNCHANGED <<lock, s_data, original, found, todo, message, pool, asked, started, held, outcome>>
    BY <1>4 DEF vars, recorder, preloadVars
  <2>2. There' = There /\ (Untouched => Untouched')
    BY <2>1 DEF There, Untouched
  <2>3. FirstCall => FirstCall'
    BY ZenonT(60), <2>1, <2>2 DEF FirstCall, BeforeCalloc, LooksCallocUp, HasCalloc, LooksUp
  <2>4. (PreloadTypes => PreloadTypes') /\ (NotCalled => NotCalled') /\ (CallsReal => CallsReal')
    BY <2>1, <2>2 DEF PreloadTypes, NotCalled, CallsReal
  <2> QED
    BY <1>1, <1>4, <2>1, <2>3, <2>4 DEF PreloadInv
<1>5. UNCHANGED vars => UNCHANGED preloadVars
  BY DEF vars
<1> QED
  BY <1>2, <1>3, <1>4, <1>5 DEF Next

\* At the start nothing has been called.
LEMMA InitPreload == Init => PreloadInv
<1> SUFFICES ASSUME Init PROVE PreloadInv
  OBVIOUS
<1>1. /\ original = [n \in Hooks |-> "null"] /\ todo = [t \in Threads |-> <<>>] /\ message = {}
      /\ pool = 0 /\ asked = {} /\ ~ started /\ held = {} /\ outcome = "running"
      /\ lock = "free" /\ s_data = FALSE
  BY DEF Init, PreloadInit, RecorderInit
<1>2. found \subseteq Hooks
  <2>1. {"posix_memalign", "valloc", "aligned_alloc"} \subseteq Hooks
    <3>1. InitOrder[8] = "posix_memalign" /\ InitOrder[9] = "valloc" /\ InitOrder[10] = "aligned_alloc"
      BY DEF InitOrder
    <3>2. 8 \in 1 .. 18 /\ 9 \in 1 .. 18 /\ 10 \in 1 .. 18
      OBVIOUS
    <3> QED
      BY <3>1, <3>2, OrderFacts
  <2> QED
    BY <2>1 DEF Init, PreloadInit
<1> QED
  BY <1>1, <1>2 DEF PreloadInv, PreloadTypes, NotCalled, Untouched

\* PreloadInv holds in every reachable state of Interception.
THEOREM PreloadInvariance == ASSUME PoolSize >= 2 PROVE Spec => []PreloadInv
<1>1. Init => PreloadInv
  BY InitPreload
<1>2. PreloadInv /\ [Next]_vars => PreloadInv'
  BY PreloadStep
<1> QED
  BY <1>1, <1>2, PTL DEF Spec

\* Whatever dlsym allocates, the wrappers call functions that were found, the pool lasts
\* and stays with dlsym and nobody waits for a lock of his own, for any number of threads
\* and any functions that come along later, with a pool that serves a call.
THEOREM LookupSucceeds == ASSUME PoolSize >= 2 PROVE Spec => []CallsResolved
<1>1. ASSUME PreloadInv PROVE CallsResolved
  <2> SUFFICES ASSUME Late \cap found = {}, NEW t \in Threads, Busy(t, "heaptrack_init"), lock = t,
                      library = "preload", PreloadTypes, NotCalled \/ FirstCall \/ CallsReal
               PROVE  FALSE
    BY <1>1 DEF PreloadInv, PreloadTypes, CallsResolved, Busy
  <2>1. CASE NotCalled
    BY <2>1 DEF NotCalled, Busy
  <2>2. CASE CallsReal
    <3>1. PICK name \in There : todo[t] = <<Do("call", name)>>
      BY <2>2 DEF CallsReal, Busy
    <3> QED
      BY <3>1 DEF Busy, Do
  <2>3. CASE FirstCall
    <3>1. PICK u \in Threads, name \in There :
            /\ \A v \in Threads \ {u} : todo[v] = <<>>
            /\ BeforeCalloc(u, name) \/ LooksCallocUp(u, name) \/ HasCalloc(u, name) \/ LooksUp(u, name)
      BY <2>3 DEF FirstCall
    <3>2. t = u /\ ~ Untouched
      BY <3>1, ThreadsAssumption DEF Busy, Untouched
    <3>3. LooksUp(u, name)
      BY <3>1, <3>2 DEF BeforeCalloc, LooksCallocUp, HasCalloc
    <3>4. PICK k \in 0 .. 18 :
            todo[u] = Script(k, name) \/ \E n \in Hooks : todo[u] = <<Do("call", n)>> \o Script(k, name)
      BY <3>3 DEF LooksUp
    <3>5. Head(Script(k, name)).do # "heaptrack_init"
      <4>1. \A n : Do("resolve", n).do # "heaptrack_init" /\ Do("create_file", n).do # "heaptrack_init"
        BY DEF Do
      <4>2. CASE k = 18
        BY <4>1, <4>2, ScriptEnds
      <4>3. CASE k \in 0 .. 17
        <5>1. Head(Script(k, name)) = Do("resolve", InitOrder[k + 1])
          BY <4>3, ScriptGoesOn
        <5> QED
          BY <4>1, <5>1
      <4> QED
        BY <4>2, <4>3
    <3>6. ASSUME NEW n PROVE Head(<<Do("call", n)>> \o Script(k, name)).do = "call"
      <4>1. PICK S : Script(k, name) \in Seq(S)
        BY ScriptSteps
      <4> QED
        BY <4>1, FirstToDo DEF Do
    <3> QED
      BY <3>2, <3>4, <3>5, <3>6 DEF Busy
  <2> QED
    BY <2>1, <2>2, <2>3
<1> QED
  BY PreloadInvariance, <1>1, PTL
=============================================================================
