---------------------------- MODULE Interception ----------------------------
(***************************************************************************)
(* The three libraries that get the calls of a program to the recorder. A  *)
(* process has one of them: heaptrack_preload with LD_PRELOAD,             *)
(* heaptrack_inject with a debugger or --use-inject, heaptrack_interpose   *)
(* on macOS.                                                               *)
(***************************************************************************)
EXTENDS Inject, Preload, Interpose

VARIABLE library

vars == <<library, recorder, pc, injectVars, preloadVars, interposeVars>>

Init ==
    /\ library \in {"preload", "inject", "interpose"}
    /\ RecorderInit
    /\ InjectInit /\ (library # "inject" => disk = [m \in Plugins |-> 1] /\ readable = {})
    /\ PreloadInit /\ (library # "preload" => "cfree" \notin found)
    /\ InterposeInit /\ (library # "interpose" => loaded = <<>>)

Next ==
    /\ UNCHANGED library
    /\ \/ library = "inject" /\ InjectNext /\ UNCHANGED <<preloadVars, interposeVars>>
       \/ library = "preload" /\ PreloadNext /\ UNCHANGED <<injectVars, interposeVars>>
       \/ library = "interpose" /\ InterposeNext /\ UNCHANGED <<injectVars, preloadVars>>

Spec == Init /\ [][Next]_vars

-----------------------------------------------------------------------------
\* While the injected library records, every module whose symbols are known has
\* all its hooks, whichever threads opened modules while heaptrack was started
\* and stopped.
InjectedHooksInPlace == library = "inject" => HookedWhileRecording
=============================================================================
