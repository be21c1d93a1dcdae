------------------------------- MODULE Preload -------------------------------
(***************************************************************************)
(* How heaptrack_preload.cpp finds the functions it wraps: the first call  *)
(* of a wrapper looks all of them up with dlsym, which itself allocates,   *)
(* through the wrappers. Meanwhile calloc takes memory from a small pool.  *)
(* What the wrappers do once they are set up is in AllocStream.            *)
(*                                                                         *)
(* dlsym may call calloc once whenever it is called, and it keeps the      *)
(* message of a failure in memory from malloc until its next call.         *)
(***************************************************************************)
EXTENDS Recorder, Integers, Sequences, SequencesExt

CONSTANTS
    Late,           \* optional functions that a library brings along later
    Called,         \* functions that the application calls
    PoolSize        \* MAX_SIZE, in calls of calloc

ASSUME PreloadAssumption == PoolSize \in Nat

VARIABLES
    original,       \* what each hook calls: "null", "pool" or "real"
    found,          \* optional functions that dlsym finds now
    todo,           \* what each thread still has to do in a wrapper
    message,        \* whether dlsym keeps a message for a thread
    pool,           \* calls of calloc that the pool has served
    asked,          \* threads whose dlsym has called calloc already
    started,        \* heaptrack_init has been through
    held,           \* threads whose application code has memory of the pool
    outcome         \* "running", or what ended the process

preloadVars == <<original, found, todo, message, pool, asked, started, held, outcome>>

\* Mutation of InitOrder: an optional function comes before malloc.
InitOrderOptionalFirst == <<"dlopen", "dlclose", "cfree", "malloc", "free", "calloc", "realloc",
    "posix_memalign", "valloc", "aligned_alloc", "mi_malloc", "mi_calloc", "mi_realloc",
    "mi_free", "GC_malloc", "GC_realloc", "GC_free_profiler_hook", "GC_posix_memalign">>

\* The order in which the callback of init() looks the functions up.
InitOrder == <<"dlopen", "dlclose", "malloc", "free", "calloc", "cfree", "realloc",
    "posix_memalign", "valloc", "aligned_alloc", "mi_malloc", "mi_calloc", "mi_realloc",
    "mi_free", "GC_malloc", "GC_realloc", "GC_free_profiler_hook", "GC_posix_memalign">>

Hooks == {InitOrder[i] : i \in DOMAIN InitOrder}
Required == {"malloc", "free", "calloc", "realloc", "dlopen", "dlclose"}

Do(what, name) == [do |-> what, name |-> name]

\* hooks::init
InitSteps ==
    <<Do("use_pool", "calloc"), Do("resolve", "calloc"), Do("heaptrack_init", "none")>>

PreloadInit ==
    /\ original = [n \in Hooks |-> "null"]
    /\ found \in {Hooks \ (Required \cup Late), {"posix_memalign", "valloc", "aligned_alloc"} \ Late}
    /\ todo = [t \in Threads |-> <<>>] /\ message = {}
    /\ pool = 0 /\ asked = {} /\ started = FALSE /\ held = {}
    /\ outcome = "running"

-----------------------------------------------------------------------------
(* A step of a thread: the first thing it has to do, in which it may call  *)
(* a wrapper. *)

Busy(t, what) == todo[t] # <<>> /\ Head(todo[t]).do = what
NameOf(t) == Head(todo[t]).name
Steps(t, steps) == todo' = [todo EXCEPT ![t] = steps]

\* dummy_calloc, DummyPool::alloc: at the end of the pool the process aborts.
FromPool ==
    /\ pool' = pool + 1
    /\ outcome' = IF pool' >= PoolSize THEN "pool_exhausted" ELSE outcome

\* A wrapper: without an original it sets everything up first, and then calls
\* whatever is there.
CallSteps(name) ==
    (IF original[name] = "null" THEN InitSteps ELSE <<>>) \o <<Do("call", name)>>

UsePool(t) ==
    /\ Busy(t, "use_pool") /\ Steps(t, Tail(todo[t]))
    /\ original' = [original EXCEPT !["calloc"] = "pool"]
    /\ UNCHANGED <<recorder, found, message, pool, asked, started, held, outcome>>

\* dlsym allocates before it answers.
DlsymCallocs(t) ==
    /\ Busy(t, "resolve") /\ t \notin asked /\ asked' = asked \cup {t}
    /\ Steps(t, CallSteps("calloc") \o todo[t])
    /\ UNCHANGED <<recorder, original, found, message, pool, started, held, outcome>>

\* dlsym first drops its last message.
DlsymFrees(t) ==
    /\ Busy(t, "resolve") /\ t \in message /\ message' = message \ {t}
    /\ Steps(t, CallSteps("free") \o todo[t])
    /\ UNCHANGED <<recorder, original, found, pool, asked, started, held, outcome>>

\* hook::init: an optional function that is missing leaves the hook as it is.
Resolve(t) ==
    /\ Busy(t, "resolve") /\ t \notin message /\ asked' = asked \ {t}
    /\ IF NameOf(t) \in Required \cup found
       THEN /\ original' = [original EXCEPT ![NameOf(t)] = "real"]
            /\ Steps(t, Tail(todo[t])) /\ UNCHANGED message
       ELSE /\ message' = message \cup {t}
            /\ Steps(t, CallSteps("malloc") \o Tail(todo[t])) /\ UNCHANGED original
    /\ UNCHANGED <<recorder, found, pool, started, held, outcome>>

\* heaptrack_init: the callback looks everything up unless there is data already.
HeaptrackInit(t) ==
    /\ Busy(t, "heaptrack_init")
    /\ IF s_data THEN lock = "free" /\ UNCHANGED lock /\ Steps(t, Tail(todo[t]))
       ELSE TakeLock(t) /\ Steps(t, [i \in DOMAIN InitOrder |-> Do("resolve", InitOrder[i])]
                                    \o <<Do("create_file", "none")>> \o Tail(todo[t]))
    /\ UNCHANGED <<s_data, s_forceCleanup, original, found, message, pool, asked, started,
                   held, outcome>>

CreatePreloadFile(t) ==
    /\ Busy(t, "create_file") /\ ReleaseLock /\ Steps(t, Tail(todo[t]))
    /\ s_data' \in BOOLEAN /\ started' = TRUE
    /\ UNCHANGED <<s_forceCleanup, original, found, message, pool, asked, held, outcome>>

\* The wrapper calls its original; memory of the pool may go to the application,
\* when the call is the last thing to do.
CallOriginal(t) ==
    LET name == NameOf(t) IN
    /\ Busy(t, "call") /\ Steps(t, Tail(todo[t]))
    /\ IF original[name] = "null" THEN outcome' = "null_call" /\ UNCHANGED <<pool, held>>
       ELSE IF original[name] = "pool"
       THEN FromPool /\ held' = IF Tail(todo[t]) = <<>> THEN held \cup {t} ELSE held
       ELSE UNCHANGED <<pool, held, outcome>>
    /\ UNCHANGED <<recorder, original, found, message, asked, started>>

-----------------------------------------------------------------------------
(* The application. Until the first call is through it has one thread.     *)

Calls(t, name) ==
    /\ todo[t] = <<>> /\ name \in Required \cup found
    /\ started \/ \A u \in Threads : todo[u] = <<>>
    /\ Steps(t, CallSteps(name))
    /\ UNCHANGED <<recorder, original, found, message, pool, asked, started, held, outcome>>

\* free or realloc of memory of the pool, which the C library does not know;
\* only free asks isDummyAllocation.
Releases(t) ==
    /\ todo[t] = <<>> /\ t \in held /\ held' = held \ {t}
    /\ outcome' \in {outcome, "foreign_pointer"}
    /\ UNCHANGED <<recorder, original, found, todo, message, pool, asked, started>>

\* dlopen of a library that defines optional functions.
LoadAllocator(t) ==
    /\ todo[t] = <<>> /\ started /\ ~ Late \subseteq found /\ found' = found \cup Late
    /\ UNCHANGED <<recorder, original, todo, message, pool, asked, started, held, outcome>>

PreloadNext ==
    /\ outcome = "running" /\ UNCHANGED pc
    /\ \E t \in Threads :
        \/ UsePool(t) \/ DlsymCallocs(t) \/ DlsymFrees(t) \/ Resolve(t)
        \/ HeaptrackInit(t) \/ CreatePreloadFile(t) \/ CallOriginal(t)
        \/ (\E name \in Called : Calls(t, name)) \/ Releases(t) \/ LoadAllocator(t)

-----------------------------------------------------------------------------
(* Properties. *)

\* However dlsym allocates while it looks the functions up, nobody waits for a
\* lock of his own, the pool lasts, its memory never gets to the application,
\* and nobody calls a function that was not found - as long as all the optional
\* functions that are called were there when the process started.
CallsResolved ==
    Late \cap found = {} =>
        /\ outcome = "running" /\ held = {}
        /\ \A t \in Threads : ~ (Busy(t, "heaptrack_init") /\ lock = t)
=============================================================================
