------------------------------- MODULE Inject -------------------------------
(***************************************************************************)
(* heaptrack_inject.cpp: the library that a debugger loads into a process, *)
(* or LD_PRELOAD, and that replaces addresses in the relocation tables of  *)
(* the loaded modules by those of its hooks, and puts them back.           *)
(*                                                                         *)
(* A module is known by its path. Its version says how many symbols its    *)
(* symbol table has, the first ones of Names: the code takes that number   *)
(* from the file at the path, once per path. The three relocation tables   *)
(* count as one. dl_iterate_phdr locks the list of modules, so one pass    *)
(* over them is one step. What the hooks of the allocator do is in         *)
(* AllocStream; only the program itself calls dlopen and dlclose here.     *)
(***************************************************************************)
EXTENDS Recorder, Integers, Sequences

CONSTANTS
    Controllers,    \* the threads in which heaptrack is started and stopped
    Plugins,        \* modules that are loaded and unloaded
    MaxInits        \* bound: calls of heaptrack_init

ASSUME InjectAssumption ==
    /\ Controllers \subseteq Threads /\ MaxInits \in Nat
    /\ Plugins \cap {"libheaptrack_inject.so", "ld-linux", "linux-vdso.so", "/proc/self/exe"} = {}

VARIABLES
    image,          \* loaded modules and their version
    disk,           \* the version in the file of each plugin
    readable,       \* the plugins whose path can be opened now
    hooked,         \* symbols of each loaded module that lead to a hook
    symtabCache,    \* the cache of cachedSymtabSize
    inits           \* calls of heaptrack_init so far

injected == <<hooked, symtabCache>>
modules == <<image, disk, readable>>
injectVars == <<modules, injected, inits>>

\* Names in the order in which symbol tables have them.
Names == <<"malloc", "free", "exp", "dlopen", "dlclose">>
IndexOf(name) == (CHOOSE i \in DOMAIN Names : Names[i] = name) - 1
Symbols(version) == {Names[i] : i \in 1..version}
Versions == {1, 2}

\* apply: the names for which there is a hook.
HookNames == {"malloc", "free", "realloc", "calloc", "cfree", "posix_memalign", "dlopen",
    "dlclose", "mi_malloc", "mi_free", "mi_realloc", "mi_calloc", "GC_malloc",
    "GC_free_profiler_hook", "GC_realloc", "GC_posix_memalign"}

\* The library itself, the dynamic linker and the kernel's page are left alone.
Skipped == {"libheaptrack_inject.so", "ld-linux", "linux-vdso.so"}
Program == "/proc/self/exe"

InjectInit ==
    /\ image = [m \in Skipped \cup {Program} |-> IF m = Program THEN Len(Names) ELSE 2]
    /\ disk \in [Plugins -> Versions] /\ readable \in SUBSET Plugins
    /\ hooked = [m \in DOMAIN image |-> {}]
    /\ symtabCache = <<>> /\ inits = 0

-----------------------------------------------------------------------------
(* One pass over the modules. *)

\* symtabSize, 0 if the file cannot be read.
SymtabSize(m) ==
    IF m = Program THEN image[m] ELSE IF m \in readable THEN disk[m] ELSE 0

\* Mutation of CachedSymtabSize: the size is looked up every time.
SymtabSizeNow(m) == SymtabSize(m)

\* cachedSymtabSize
CachedSymtabSize(m) == IF m \in DOMAIN symtabCache THEN symtabCache[m] ELSE SymtabSize(m)

\* The names try_overwrite_elftable hands to apply, and those that have a hook.
Found(m) == {s \in Symbols(image[m]) : IndexOf(s) < CachedSymtabSize(m)} \cap HookNames

\* hook: what is found leads to the hook, or to the original function again.
Redirected(m, restore) ==
    IF restore THEN hooked[m] \ Found(m) ELSE hooked[m] \cup Found(m)

\* iterate_phdrs for every module, the pass of overwrite_symbols or restore_symbols.
IteratePhdrs(restore) ==
    /\ hooked' = [m \in DOMAIN image |->
           IF m \in Skipped THEN hooked[m] ELSE Redirected(m, restore)]
    /\ symtabCache' = [m \in DOMAIN symtabCache \cup (DOMAIN image \ Skipped) |->
           IF m \in DOMAIN symtabCache THEN symtabCache[m] ELSE SymtabSize(m)]

OverwriteSymbols == IteratePhdrs(FALSE)
RestoreSymbols == IteratePhdrs(TRUE)

-----------------------------------------------------------------------------
(* heaptrack_inject, called by the debugger, or the constructor that runs  *)
(* with DUMP_HEAPTRACK_OUTPUT set: heaptrack_init with its callbacks.      *)

CallInit(t) ==
    /\ At(t, "idle") /\ inits < MaxInits /\ inits' = inits + 1
    /\ s_forceCleanup' = FALSE /\ Goto(t, "init")
    /\ UNCHANGED <<lock, s_data, modules, injected>>

\* initialize: nothing to do, or the symbols first.
Initialize(t) ==
    /\ At(t, "init")
    /\ IF s_data THEN lock = "free" /\ Goto(t, "idle") /\ UNCHANGED <<lock, injected>>
       ELSE TakeLock(t) /\ OverwriteSymbols /\ Goto(t, "create_file")
    /\ UNCHANGED <<s_data, s_forceCleanup, modules, inits>>

\* Then the file; without one everything is put back.
CreateFile(t) ==
    /\ At(t, "create_file") /\ ReleaseLock /\ Goto(t, "idle")
    /\ \/ s_data' = TRUE /\ UNCHANGED injected
       \/ RestoreSymbols /\ UNCHANGED s_data
    /\ UNCHANGED <<s_forceCleanup, modules, inits>>

-----------------------------------------------------------------------------
(* heaptrack_stop                                                          *)

Stop(t) ==
    /\ At(t, "idle") /\ TakeLock(t) /\ s_forceCleanup' = TRUE /\ Goto(t, "shutdown")
    /\ UNCHANGED <<s_data, injectVars>>

\* ~LockedData calls stopCallback, then s_data is reset.
Shutdown(t) ==
    /\ At(t, "shutdown") /\ ReleaseLock /\ Goto(t, "idle") /\ s_data' = FALSE
    /\ IF s_data THEN RestoreSymbols ELSE UNCHANGED injected
    /\ UNCHANGED <<s_forceCleanup, modules, inits>>

-----------------------------------------------------------------------------
(* The program opens and closes modules, through the hooks if it has them. *)

\* Mutation of AfterOpen: modules are only counted anew.
AfterOpenInvalidate == "invalidate"
AfterOpen == "overwrite"

\* dlopen: the module is loaded first, unhooked.
Open(t, m) ==
    /\ At(t, "idle")
    /\ IF m \in DOMAIN image THEN UNCHANGED <<image, hooked>>
       ELSE /\ image' = [n \in DOMAIN image \cup {m} |-> IF n = m THEN disk[m] ELSE image[n]]
            /\ hooked' = [n \in DOMAIN image' |-> IF n = m THEN {} ELSE hooked[n]]
    /\ Goto(t, IF "dlopen" \in hooked[Program] THEN AfterOpen ELSE "idle")
    /\ UNCHANGED <<recorder, disk, readable, symtabCache, inits>>

\* dlclose: it may be the last handle of the module.
Close(t, m) ==
    /\ At(t, "idle") /\ m \in DOMAIN image
    /\ \/ UNCHANGED <<image, hooked>>
       \/ /\ image' = [n \in DOMAIN image \ {m} |-> image[n]]
          /\ hooked' = [n \in DOMAIN image' |-> hooked[n]]
    /\ Goto(t, IF "dlclose" \in hooked[Program] THEN "invalidate" ELSE "idle")
    /\ UNCHANGED <<recorder, disk, readable, symtabCache, inits>>

\* heaptrack_invalidate_module_cache, with overwrite_symbols as its callback or
\* with none.
InvalidateModuleCache(t) ==
    /\ pc[t] \in {"overwrite", "invalidate"} /\ lock = "free" /\ Goto(t, "idle")
    /\ IF At(t, "overwrite") THEN OverwriteSymbols ELSE UNCHANGED injected
    /\ UNCHANGED <<recorder, modules, inits>>

StopsWaiting(t) == GiveUp(t, {"init", "overwrite", "invalidate"}) /\ UNCHANGED injectVars

\* Outside of the process: a plugin is built anew, its path stops or starts to
\* lead to it.
FilesChange(m) ==
    /\ \/ m \notin DOMAIN image /\ disk' = [disk EXCEPT ![m] = 3 - @] /\ UNCHANGED readable
       \/ readable' = (readable \ {m}) \cup ({m} \ readable) /\ UNCHANGED disk
    /\ UNCHANGED <<recorder, pc, image, injected, inits>>

InjectNext ==
    \/ \E t \in Threads :
        \/ t \in Controllers /\ (CallInit(t) \/ Stop(t))
        \/ Initialize(t) \/ CreateFile(t) \/ Shutdown(t)
        \/ InvalidateModuleCache(t) \/ StopsWaiting(t)
        \/ \E m \in Plugins : Open(t, m) \/ Close(t, m)
    \/ \E m \in Plugins : FilesChange(m)

-----------------------------------------------------------------------------
(* Properties. *)

\* What can be hooked of a module.
Hookable(m) == IF m \in Skipped THEN {} ELSE Symbols(image[m]) \cap HookNames

\* While heaptrack records and nobody is on the way from the loader to it, every
\* module whose symbols are known has all its hooks, whichever threads loaded
\* modules while heaptrack was started, stopped and started again; and no module
\* has others.
HookedWhileRecording ==
    s_data /\ lock = "free" /\ (\A t \in Threads : ~ At(t, "overwrite")) =>
        \A m \in DOMAIN image :
            /\ hooked[m] \subseteq Hookable(m)
            /\ m \in Skipped \/ (m \in DOMAIN symtabCache
                                 /\ (symtabCache[m] >= image[m] => hooked[m] = Hookable(m)))

\* "we always fully unload and cleanup behind ourselves": at the moment the
\* recorder is gone no module leads to a hook any more, even when files have
\* changed or cannot be read any longer.
StopRestores ==
    [][s_data /\ ~ s_data' => \A m \in DOMAIN image' : hooked'[m] = {}]_<<s_data, injectVars>>
=============================================================================
