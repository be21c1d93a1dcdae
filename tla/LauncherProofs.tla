--------------------------- MODULE LauncherProofs ---------------------------
(***************************************************************************)
(* Theorems about Launcher, for any command lines and any numbers of       *)
(* records, signals and faults.                                            *)
(*                                                                         *)
(* The inductive invariant follows the script: which trap is installed and *)
(* which processes exist is known at each command (ScriptInv, WorkerInv,   *)
(* AppInv). Signals, faults and the death of a worker may change what a    *)
(* process is, never which commands have run. FlowInv counts the records   *)
(* that are in a pipe, and a process that has ended has emptied its pipe;  *)
(* StatusInv then says what a status of 0 stands for, CleanInv what a trap *)
(* that has run has left.                                                  *)
(***************************************************************************)
EXTENDS Launcher, TLAPS

\* The commands, in the order of the script: before the first trap (SetUp is next),
\* those that run the application, and those that wait for the background processes.
Before == {"arguments", "checks", "mktemp", "trap_runtime"}
Application == {"start", "application_pid", "ready_loop", "ready_check", "wait_application",
                "foreground", "inject", "injecting"}
Ending == {"debug_ready", "wait_interpreter", "wait_compressor", "sum"}
Places == Before \cup SetUp \cup Application \cup Ending \cup {"exit", "done", "killed"}

BeforeCompressor == Before \cup {"mkfifo", "ready_file", "chown", "interpreted", "compressor"}
BeforeInterpreter == BeforeCompressor \cup {"compressor_pid", "interpreter"}
AllStarted == {"trap_cleanup"} \cup Application \cup Ending
InterpreterStarted == {"interpreter_pid"} \cup AllStarted
CompressorStarted == {"compressor_pid", "interpreter"} \cup InterpreterStarted

Paths == {"dir", "data", "ready", "interpreted"}
Apps == {"none", "plain", "started", "opening", "recording", "ended", "crashed"}
States == {"none", "opening", "opening_output", "running", "ended", "failed"}
Shells == [trap : {"none", "runtime", "cleanup"}, background_pids : SUBSET Workers,
           application_pid : BOOLEAN, ready_attempts : Nat, EXIT_CODE : {0, 1},
           background_exit_code : {0, 1}]
Signals == [pending : BOOLEAN, sent : Nat, handledAt : Places \cup {"never"}]
Fifos == {"written", "data", "interpreted", "file"}

TypeOK ==
    /\ cmd \in CommandLine /\ pc \in Places /\ sh \in Shells
    /\ sig \in Signals /\ fs \subseteq Paths /\ app \in Apps /\ worker \in [Workers -> States]
    /\ reported \in BOOLEAN /\ faults \in Nat /\ flow \in [Fifos -> Nat]

Attached == cmd.mode = "attach"
Handled == sig.handledAt # "never"

\* Which trap is installed, and which commands a command line leads to.
ScriptInv ==
    /\ pc \in Before => sh.trap = "none" /\ ~ Handled
    /\ pc \in {"done", "killed"} => ~ sig.pending
    /\ pc \in SetUp => sh.trap = "runtime" /\ sig.handledAt \in SetUp \cup {"never"}
    /\ pc \in Application \cup Ending => sh.trap = "cleanup" \/ (sh.trap = "none" /\ Handled)
    /\ cmd.raw => pc \notin {"interpreted", "interpreter", "interpreter_pid"}
    /\ pc \in {"application_pid", "ready_loop", "ready_check", "wait_application"} =>
        Darwin /\ cmd.mode = "run"
    /\ pc \in {"ready_loop", "ready_check", "wait_application"} => sh.application_pid
    /\ sh.application_pid => cmd.mode = "run"
    /\ pc \in {"inject", "injecting"} => Attached
    /\ pc \in {"start", "foreground"} => ~ Attached
    /\ Darwin /\ Attached => pc \in {"arguments", "exit", "done", "killed"} /\ sh.trap = "none"
    /\ pc \in AllStarted => sh.background_pids = IF cmd.raw THEN {"compressor"} ELSE Workers

\* A worker is started once, and which of them there are.
WorkerInv ==
    /\ pc \in BeforeCompressor => worker["compressor"] = "none"
    /\ pc \in BeforeInterpreter \/ cmd.raw => worker["interpreter"] = "none"
    /\ pc \in CompressorStarted => worker["compressor"] # "none"
    /\ pc \in InterpreterStarted => cmd.raw \/ worker["interpreter"] # "none"
    /\ worker["compressor"] # "opening_output"
    /\ worker["compressor"] \in {"running", "ended"} =>
        cmd.raw \/ worker["interpreter"] \in {"running", "ended", "failed"}
    /\ worker["compressor"] = "ended" => ~ Alive("interpreter")
    /\ pc \in {"wait_compressor", "sum"} => ~ Alive("interpreter")
    /\ pc = "sum" => ~ Alive("compressor")
    /\ pc \in {"exit", "done"} => ~ Alive("interpreter") /\ ~ Alive("compressor")

\* The application is started once, and not by the launcher that attaches.
AppInv ==
    /\ ~ Attached /\ pc \in Before \cup SetUp \cup {"start"} => app = "none"
    /\ ~ Attached /\ pc \in Application \ {"start"} => app # "none"
    /\ ~ Attached /\ pc \in Ending => app \in {"ended", "crashed"}
    /\ ~ Attached /\ pc \in {"exit", "done"} => ~ AppAlive
    /\ Attached /\ sh.trap # "cleanup" /\ ~ Handled => app \in {"plain", "ended", "crashed"}
    /\ Attached => app \in {"plain", "opening", "recording", "ended", "crashed"}
    /\ Attached /\ app = "opening" => pc = "injecting"

\* No record is lost between the processes, and a reader that ended has read all.
FlowInv ==
    /\ flow["written"] = flow["data"] + flow["interpreted"] + flow["file"]
    /\ worker[Reader] \in {"none", "opening"} => flow["written"] = 0
    /\ worker[Reader] \in {"opening_output", "running", "ended"} => flow["written"] > 0
    /\ worker[Reader] = "ended" => flow["data"] = 0
    /\ app = "recording" => flow["written"] > 0
    /\ cmd.raw \/ worker["compressor"] = "ended" => flow["interpreted"] = 0

\* A status of 0 so far.
StatusInv ==
    /\ pc \in Ending \cup {"exit", "done"} /\ ~ Attached /\ sh.EXIT_CODE = 0 => app = "ended"
    /\ pc \in {"wait_compressor", "sum"} /\ sh.background_exit_code = 0 =>
        cmd.raw \/ worker["interpreter"] = "ended"
    /\ pc = "sum" /\ sh.background_exit_code = 0 => worker["compressor"] = "ended"
    /\ pc \in {"exit", "done"} /\ sh.EXIT_CODE = 0 =>
        worker["compressor"] = "ended" /\ (cmd.raw \/ worker["interpreter"] = "ended")

\* What is left once the second trap has run, or the script has exited.
CleanInv ==
    /\ pc \in {"arguments", "checks", "mktemp"} => fs = {}
    /\ pc = "exit" /\ sh.trap = "none" /\ ~ Handled => fs = {}
    /\ Handled /\ sig.handledAt \notin SetUp =>
        fs = {} /\ (\A w \in Workers : ~ Alive(w)) /\ (Attached => app # "recording")
    /\ NothingLeftBehind
    /\ pc \in Before => "ready" \notin fs /\ ~ reported
    /\ reported => Darwin /\ ("ready" \in fs \/ fs = {})

IInv == TypeOK /\ ScriptInv /\ WorkerInv /\ AppInv /\ FlowInv /\ StatusInv /\ CleanInv

-----------------------------------------------------------------------------
(* What the parts of an action do.                                         *)

\* Where a command goes on after a trap, which may interrupt it or not.
LEMMA AfterTrapCases ==
    ASSUME AfterTrap
    PROVE  /\ pc = "wait_application" =>
                /\ pc' = "debug_ready"
                /\ sh' = [sh EXCEPT !.trap = TrapAfter, !.EXIT_CODE = 1, !.application_pid = FALSE]
           /\ pc \in {"wait_interpreter", "wait_compressor"} =>
                /\ pc' = IF pc = "wait_interpreter" THEN "wait_compressor" ELSE "sum"
                /\ sh' = [sh EXCEPT !.trap = TrapAfter, !.background_exit_code = 1]
           /\ pc \notin {"wait_application", "wait_interpreter", "wait_compressor"} =>
                pc' = pc /\ sh' = [sh EXCEPT !.trap = TrapAfter]
BY DEF AfterTrap

\* What cleanup_runtime leaves.
LEMMA Killed ==
    ASSUME TypeOK, CleanupRuntime
    PROVE  /\ fs' = {}
           /\ \A w \in Workers :
                /\ worker'[w] = worker[w] \/ (worker'[w] = "failed" /\ Alive(w) /\ w \in sh.background_pids)
                /\ w \in sh.background_pids => ~ Alive(w)'
BY DEF CleanupRuntime, Alive

\* What a trap does to the application.
LEMMA Trapped ==
    ASSUME ScriptInv, RunTrap
    PROVE  /\ CleanupRuntime
           /\ \/ app' = app
              \/ app' = "crashed" /\ sh.application_pid /\ AppAlive
              \/ app' = "plain" /\ sh.trap = "cleanup" /\ cmd.mode = "attach" /\ app = "recording"
           /\ sh.trap = "cleanup" /\ cmd.mode = "attach" => app' # "recording"
<1>1. ~ (sh.application_pid /\ cmd.mode = "attach")
  BY DEF ScriptInv
<1>2. CASE sh.application_pid /\ AppAlive
  BY <1>1, <1>2 DEF RunTrap
<1>3. CASE sh.trap = "cleanup" /\ cmd.mode = "attach" /\ app = "recording"
  BY <1>1, <1>3 DEF RunTrap
<1>4. CASE /\ ~ (sh.application_pid /\ AppAlive)
           /\ ~ (sh.trap = "cleanup" /\ cmd.mode = "attach" /\ app = "recording")
  BY <1>4 DEF RunTrap
<1> QED  BY <1>2, <1>3, <1>4

\* Before the second trap a command that fails leaves the script with exit 1.
LEMMA Failed ==
    ASSUME TypeOK, Fail
    PROVE  pc' = "exit" /\ sh'.EXIT_CODE # 0
<1>1. pc' = "exit" /\ sh'.EXIT_CODE = 1  BY DEF Fail
<1> QED  BY <1>1

\* EXIT_CODE takes the status of the application.
LEMMA StatusTaken ==
    ASSUME TypeOK, NEW failed \in BOOLEAN, TakeStatus(failed)
    PROVE  pc' = "debug_ready" /\ (sh'.EXIT_CODE = 0 => ~ failed)
<1>1. pc' = "debug_ready"
  BY DEF TakeStatus
<1>2. sh'.EXIT_CODE = IF failed THEN 1 ELSE 0
  BY DEF TakeStatus
<1>3. sh'.EXIT_CODE = 0 => ~ failed
  BY <1>2
<1> QED  BY <1>1, <1>3

\* Where the script goes on after a trap.
LEMMA HandleEffect ==
    ASSUME TypeOK, HandleSignal
    PROVE  /\ RunTrap /\ cmd' = cmd /\ reported' = reported /\ flow' = flow /\ faults' = faults
           /\ sh.trap # "none" /\ sh'.trap = TrapAfter
           /\ sh'.background_pids = sh.background_pids
           /\ sh'.application_pid => sh.application_pid
           /\ sig.pending /\ pc \notin {"foreground", "injecting"}
           /\ ~ sig'.pending
           /\ sig'.handledAt = IF sig.handledAt = "never" THEN pc ELSE sig.handledAt
           /\ \/ /\ pc \notin {"wait_application", "wait_interpreter", "wait_compressor"}
                 /\ pc' = pc /\ sh'.application_pid = sh.application_pid
                 /\ sh'.EXIT_CODE = sh.EXIT_CODE
                 /\ sh'.background_exit_code = sh.background_exit_code
              \/ /\ pc = "wait_application" /\ pc' = "debug_ready" /\ sh'.EXIT_CODE # 0
              \/ /\ pc = "wait_interpreter" /\ pc' = "wait_compressor"
                 /\ sh'.EXIT_CODE = sh.EXIT_CODE /\ sh'.background_exit_code # 0
              \/ /\ pc = "wait_compressor" /\ pc' = "sum"
                 /\ sh'.EXIT_CODE = sh.EXIT_CODE /\ sh'.background_exit_code # 0
<1>1. sig'.pending = FALSE /\ sig'.handledAt = IF sig.handledAt = "never" THEN pc ELSE sig.handledAt
  BY DEF HandleSignal
<1>2. CASE pc = "wait_application"
  <2>1. sh'.EXIT_CODE = 1  BY <1>2, AfterTrapCases DEF HandleSignal, TypeOK, Shells
  <2>2. sh'.EXIT_CODE # 0  BY <2>1
  <2> QED
    BY <1>1, <1>2, <2>2, AfterTrapCases DEF HandleSignal, TypeOK, Shells
<1>3. CASE pc \in {"wait_interpreter", "wait_compressor"}
  <2>1. sh'.background_exit_code = 1  BY <1>3, AfterTrapCases DEF HandleSignal, TypeOK, Shells
  <2>2. sh'.background_exit_code # 0  BY <2>1
  <2> QED
    BY <1>1, <1>3, <2>2, AfterTrapCases DEF HandleSignal, TypeOK, Shells
<1>4. CASE pc \notin {"wait_application", "wait_interpreter", "wait_compressor"}
  BY <1>1, <1>4, AfterTrapCases DEF HandleSignal, TypeOK, Shells
<1> QED  BY <1>2, <1>3, <1>4

-----------------------------------------------------------------------------
(* The steps.                                                              *)

\* Every step keeps the types.
LEMMA TypeStep ==
    ASSUME TypeOK, WorkerInv, [Next]_vars
    PROVE  TypeOK'
<1>1. CASE ParseArguments
  BY <1>1 DEF TypeOK, processes, ParseArguments, Continue, Fail, Places, Before, Shells
<1>2. CASE CheckInstallation
  BY <1>2 DEF TypeOK, processes, CheckInstallation, Continue, Fail, Places, Before, Shells
<1>3. CASE MakeRuntimeDir
  BY <1>3 DEF TypeOK, processes, MakeRuntimeDir, Continue, Fail, Places, Before, Shells, Paths
<1>4. CASE TrapRuntime
  BY <1>4 DEF TypeOK, processes, TrapRuntime, InstallTrap, Places, SetUp, Shells
<1>5. CASE MakeDataFifo
  BY <1>5
  DEF TypeOK, processes, MakeDataFifo, Create, Continue, Fail, Places, SetUp, Shells, Paths
<1>6. CASE MakeReadyFile
  BY <1>6
  DEF TypeOK, processes, MakeReadyFile, Create, Continue, Fail, Places, SetUp, Shells, Paths
<1>7. CASE GiveToUser
  BY <1>7 DEF TypeOK, processes, GiveToUser, Continue, Fail, Places, SetUp, Shells
<1>8. CASE MakeInterpretedFifo
  BY <1>8
  DEF TypeOK, processes, MakeInterpretedFifo, Create, Continue, Fail, Places, SetUp, Shells,
      Paths
<1>9. CASE StartCompressor
  BY <1>9 DEF TypeOK, StartCompressor, StartWorker, Continue, Places, SetUp, States, Workers
<1>10. CASE NoteCompressor
  BY <1>10 DEF TypeOK, processes, NoteCompressor, NotePids, Places, SetUp, Shells, Workers
<1>11. CASE StartInterpreter
  BY <1>11 DEF TypeOK, StartInterpreter, StartWorker, Continue, Places, SetUp, States, Workers
<1>12. CASE NoteInterpreter
  BY <1>12 DEF TypeOK, processes, NoteInterpreter, NotePids, Places, SetUp, Shells, Workers
<1>13. CASE TrapCleanup
  BY <1>13 DEF TypeOK, processes, TrapCleanup, InstallTrap, Places, Application, Shells
<1>14. CASE StartApplication
  BY <1>14 DEF TypeOK, StartApplication, Continue, Places, Application, Apps
<1>15. CASE ForegroundEnds
  BY <1>15 DEF TypeOK, script, processes, ForegroundEnds, TakeStatus, Places, Ending, Shells
<1>16. CASE NoteApplication
  BY <1>16 DEF TypeOK, script, processes, NoteApplication, At, Places, Application, Shells
<1>17. CASE PollReady
  <2>1. sh.ready_attempts + 1 \in Nat  BY DEF TypeOK, Shells
  <2>2. sh' \in Shells  BY <1>17, <2>1 DEF TypeOK, PollReady, Continue, Shells
  <2> QED  BY <1>17, <2>2 DEF TypeOK, PollReady, Continue, Places, Application, processes
<1>18. CASE CheckReady
  <2>1. worker' \in [Workers -> States]  BY <1>18 DEF TypeOK, CheckReady, CleanupRuntime, States
  <2>2. app' \in Apps /\ fs' \subseteq Paths
    BY <1>18
    DEF TypeOK, CheckReady, CleanupRuntime, Apps
  <2>3. sh' \in Shells /\ pc' \in Places
    BY <1>18 DEF TypeOK, CheckReady, TakeStatus, Continue, Shells, Places, Ending, Application
  <2> QED  BY <1>18, <2>1, <2>2, <2>3 DEF TypeOK, CheckReady
<1>19. CASE WaitApplication
  BY <1>19
  DEF TypeOK, script, processes, WaitApplication, At, TakeStatus, Places, Ending, Shells
<1>20. CASE Inject
  BY <1>20
  DEF TypeOK, script, processes, Inject, At, Continue, TakeStatus, Places, Application,
      Ending, Shells, Apps
<1>21. CASE InjectionEnds
  BY <1>21 DEF TypeOK, script, processes, InjectionEnds, TakeStatus, Places, Ending, Shells
<1>22. CASE CheckDebugReady
  BY <1>22 DEF TypeOK, CheckDebugReady, CleanupRuntime, Places, Ending, Shells, States
<1>23. CASE WaitInterpreter
  BY <1>23 DEF TypeOK, processes, WaitInterpreter, WaitWorker, Places, Ending, Shells
<1>24. CASE WaitCompressor
  BY <1>24 DEF TypeOK, processes, WaitCompressor, WaitWorker, Places, Ending, Shells
<1>25. CASE SumUp
  BY <1>25 DEF TypeOK, script, processes, SumUp, At, Status, Places, Shells
<1>26. CASE Exit
  BY <1>26 DEF TypeOK, Exit, Continue, RunTrap, CleanupRuntime, Places, States, Apps
<1>27. CASE HandleSignal
  <2>1. worker' \in [Workers -> States]
    BY <1>27 DEF TypeOK, HandleSignal, RunTrap, CleanupRuntime, States
  <2>2. app' \in Apps /\ fs' \subseteq Paths
    BY <1>27 DEF TypeOK, HandleSignal, RunTrap, CleanupRuntime, Apps
  <2>3. TrapAfter \in {"none", "runtime", "cleanup"}  BY DEF TypeOK, Shells, TrapAfter
  <2>4. sh' \in Shells /\ pc' \in Places
    BY <1>27, <2>3, AfterTrapCases DEF TypeOK, HandleSignal, Shells, Places, Ending
  <2>5. sig' \in Signals  BY <1>27 DEF TypeOK, HandleSignal, Signals
  <2> QED  BY <1>27, <2>1, <2>2, <2>4, <2>5 DEF TypeOK, HandleSignal
<1>28. CASE DieOfSignal
  BY <1>28 DEF TypeOK, script, processes, DieOfSignal, Continue, Places, Signals
<1>29. CASE Load
  BY <1>29 DEF TypeOK, script, Load, Apps
<1>30. CASE OpenData
  BY <1>30 DEF TypeOK, script, processes, OpenData, States, Apps, Fifos
<1>31. CASE OpenInterpreted
  BY <1>31 DEF TypeOK, script, OpenInterpreted, States
<1>32. CASE ReportReady
  BY <1>32 DEF TypeOK, script, ReportReady
<1>33. CASE Write
  BY <1>33 DEF TypeOK, script, Write, Apps
<1>34. CASE ApplicationEnds
  BY <1>34 DEF TypeOK, script, ApplicationEnds, Apps
<1>35. CASE Signal
  <2>1. sig.sent + 1 \in Nat  BY DEF TypeOK, Signals
  <2>2. sig' \in Signals  BY <1>35, <2>1 DEF TypeOK, Signal, Signals
  <2> QED  BY <1>35, <2>2 DEF TypeOK, Signal, processes
<1>36. ASSUME NEW w \in Workers, Work(w) PROVE TypeOK'
  <2>1. worker' \in [Workers -> States]  BY <1>36 DEF TypeOK, Work, States
  <2>2. flow' \in [Fifos -> Nat]
    <3>1. Source(w) \in Fifos /\ Sink(w) \in Fifos /\ Source(w) # Sink(w)
      <4>1. cmd.raw => w = "compressor"  BY <1>36 DEF Work, WorkerInv, Workers
      <4> QED  BY <4>1 DEF Source, Sink, Fifos, Reader, Workers
    <3>2. flow[Source(w)] - 1 \in Nat /\ flow[Sink(w)] + 1 \in Nat
      BY <1>36, <3>1 DEF TypeOK, Work
    <3> QED  BY <1>36, <3>1, <3>2 DEF TypeOK, Work
  <2> QED  BY <1>36, <2>1, <2>2 DEF TypeOK, script, Work
<1>37. ASSUME NEW w \in Workers, WorkerEnds(w) PROVE TypeOK'
  BY <1>37 DEF TypeOK, script, WorkerEnds, States
<1>38. ASSUME NEW w \in Workers, WorkerFails(w) PROVE TypeOK'
  <2>1. faults' \in Nat  BY <1>38 DEF TypeOK, WorkerFails
  <2>2. worker' \in [Workers -> States]  BY <1>38 DEF TypeOK, WorkerFails, States
  <2> QED  BY <1>38, <2>1, <2>2 DEF TypeOK, script, WorkerFails
<1>39. CASE UNCHANGED vars
  BY <1>39 DEF TypeOK, script, processes, vars
<1> QED
  BY <1>1, <1>2, <1>3, <1>4, <1>5, <1>6, <1>7, <1>8, <1>9, <1>10, <1>11, <1>12, <1>13, <1>14,
     <1>15, <1>16, <1>17, <1>18, <1>19, <1>20, <1>21, <1>22, <1>23, <1>24, <1>25, <1>26,
     <1>27, <1>28, <1>29, <1>30, <1>31, <1>32, <1>33, <1>34, <1>35, <1>36, <1>37, <1>38, <1>39
  DEF Next, Script

\* Every step keeps the traps and the commands together.
LEMMA ScriptStep ==
    ASSUME IInv, [Next]_vars
    PROVE  ScriptInv'
<1>1. CASE ParseArguments
  <2>1. /\ cmd' = cmd /\ sig' = sig /\ sh'.trap = sh.trap
        /\ sh'.application_pid = sh.application_pid /\ pc = "arguments" /\ ~ sig.pending
    BY <1>1 DEF ParseArguments, At, Continue, Fail, IInv, TypeOK, Shells
  <2>2. (Darwin /\ Attached => pc' = "exit") /\ pc' \in {"exit", "checks"}
    BY <1>1 DEF ParseArguments, Continue, Fail, Attached
  <2> QED
    BY <2>1, <2>2
    DEF IInv, ScriptInv, Attached, Handled, Darwin, AllStarted, Before, SetUp, Application,
        Ending
<1>2. CASE CheckInstallation
  BY <1>2
  DEF IInv, TypeOK, Shells, SetUp, Application, Ending, Places, ScriptInv, AllStarted,
      Handled, Attached, Darwin, CheckInstallation, At, Continue, Fail
<1>3. CASE MakeRuntimeDir
  BY <1>3
  DEF IInv, TypeOK, Shells, SetUp, Application, Ending, Places, ScriptInv, AllStarted,
      Handled, Attached, Darwin, MakeRuntimeDir, At, Continue, Fail
<1>4. CASE TrapRuntime
  BY <1>4
  DEF IInv, Before, Application, Ending, ScriptInv, AllStarted, Handled, Attached, Darwin,
      TrapRuntime, InstallTrap, At
<1>5. CASE MakeDataFifo
  BY <1>5
  DEF IInv, TypeOK, Shells, Before, Application, Ending, Places, ScriptInv, AllStarted,
      Attached, Darwin, MakeDataFifo, Create, At, Continue, Fail
<1>6. CASE MakeReadyFile
  BY <1>6
  DEF IInv, TypeOK, Shells, Before, Application, Ending, Places, ScriptInv, AllStarted,
      Attached, Darwin, MakeReadyFile, Create, At, Continue, Fail
<1>7. CASE GiveToUser
  BY <1>7
  DEF IInv, TypeOK, Shells, Before, Application, Ending, Places, ScriptInv, AllStarted,
      Attached, Darwin, GiveToUser, At, Continue, Fail
<1>8. CASE MakeInterpretedFifo
  BY <1>8
  DEF IInv, TypeOK, Shells, Before, Application, Ending, Places, ScriptInv, AllStarted,
      Attached, Darwin, MakeInterpretedFifo, Create, At, Continue, Fail
<1>9. CASE StartCompressor
  BY <1>9
  DEF IInv, Before, SetUp, Application, Ending, ScriptInv, AllStarted, Attached, Darwin,
      StartCompressor, StartWorker, At, Continue
<1>10. CASE NoteCompressor
  BY <1>10
  DEF IInv, Before, SetUp, Application, Ending, ScriptInv, AllStarted, Attached, Darwin,
      NoteCompressor, NotePids, At
<1>11. CASE StartInterpreter
  BY <1>11
  DEF IInv, Before, SetUp, Application, Ending, ScriptInv, AllStarted, Attached, Darwin,
      StartInterpreter, StartWorker, At, Continue
<1>12. CASE NoteInterpreter
  BY <1>12
  DEF IInv, Before, SetUp, Application, Ending, ScriptInv, Attached, Darwin, Workers,
      NoteInterpreter, NotePids, At
<1>13. CASE TrapCleanup
  BY <1>13
  DEF IInv, Before, SetUp, ScriptInv, AllStarted, Attached, Darwin, TrapCleanup, InstallTrap,
      At
<1>14. CASE StartApplication
  BY <1>14
  DEF IInv, Before, SetUp, Application, ScriptInv, AllStarted, Handled, Attached, Darwin,
      StartApplication, At, Continue
<1>15. CASE ForegroundEnds
  BY <1>15
  DEF IInv, Before, SetUp, Application, ScriptInv, AllStarted, Handled, Attached,
      ForegroundEnds, TakeStatus
<1>16. CASE NoteApplication
  BY <1>16
  DEF IInv, Before, SetUp, Application, ScriptInv, AllStarted, Handled, Attached, Darwin,
      NoteApplication, At
<1>17. CASE PollReady
  BY ZenonT(60), <1>17
  DEF IInv, TypeOK, script, processes, Shells, Signals, Before, SetUp, Application, Ending,
      Places, ScriptInv, AllStarted, Handled, Attached, Darwin, Workers, PollReady, At,
      Continue, MayPoll
<1>18. CASE CheckReady
  <2>1. pc = "ready_check" /\ cmd' = cmd /\ sig' = sig
    BY <1>18 DEF CheckReady, At
  <2>2. /\ sh'.trap = sh.trap /\ sh'.background_pids = sh.background_pids
        /\ \/ pc' = "wait_application" /\ sh'.application_pid = sh.application_pid
           \/ pc' = "debug_ready" /\ sh'.application_pid = FALSE
    BY <1>18 DEF CheckReady, Continue, TakeStatus, IInv, TypeOK, Shells
  <2> QED
    BY <2>1, <2>2 DEF IInv, ScriptInv, AllStarted, Handled, Attached, Darwin, Before, SetUp,
       Application, Ending
<1>19. CASE WaitApplication
  BY <1>19
  DEF IInv, Before, SetUp, Application, ScriptInv, AllStarted, Handled, Attached,
      WaitApplication, At, TakeStatus
<1>20. CASE Inject
  BY ZenonT(60), <1>20
  DEF IInv, TypeOK, script, processes, Shells, Signals, Before, SetUp, Application, Ending,
      Places, ScriptInv, AllStarted, Handled, Attached, Darwin, Workers, Inject, At, Continue,
      TakeStatus
<1>21. CASE InjectionEnds
  BY <1>21
  DEF IInv, Before, SetUp, Application, ScriptInv, AllStarted, Handled, Darwin, InjectionEnds,
      TakeStatus
<1>22. CASE CheckDebugReady
  <2>1. /\ pc = "debug_ready" /\ pc' = "wait_interpreter" /\ cmd' = cmd /\ sig' = sig
    BY <1>22 DEF CheckDebugReady, At
  <2>2. /\ sh'.trap = sh.trap /\ sh'.background_pids = sh.background_pids
        /\ sh'.application_pid = sh.application_pid
    BY <1>22 DEF CheckDebugReady, IInv, TypeOK, Shells
  <2> QED
    BY <2>1, <2>2
    DEF IInv, ScriptInv, Attached, Handled, Darwin, AllStarted, Before, SetUp, Ending
<1>23. CASE WaitInterpreter
  BY <1>23
  DEF IInv, Before, SetUp, Ending, ScriptInv, AllStarted, Handled, Attached, Darwin,
      WaitInterpreter, WaitWorker, At
<1>24. CASE WaitCompressor
  BY <1>24
  DEF IInv, Before, SetUp, Ending, ScriptInv, AllStarted, Handled, Attached, Darwin,
      WaitCompressor, WaitWorker, At
<1>25. CASE SumUp
  BY <1>25
  DEF IInv, Before, SetUp, Application, Ending, ScriptInv, AllStarted, Attached, Darwin, SumUp
<1>26. CASE Exit
  BY <1>26
  DEF IInv, Before, SetUp, Application, Ending, ScriptInv, AllStarted, Attached, Darwin, Exit,
      At, Continue
<1>27. CASE HandleSignal
  BY <1>27, HandleEffect
  DEF IInv, ScriptInv, TrapAfter, AllStarted, Attached, Handled, Darwin, Before, SetUp,
      Application, Ending
<1>28. CASE DieOfSignal
  BY <1>28
  DEF IInv, Before, SetUp, Application, Ending, ScriptInv, AllStarted, DieOfSignal, Continue
<1>29. CASE Load
  BY <1>29 DEF script, ScriptInv, Darwin, Attached, Handled, IInv, Load
<1>30. CASE OpenData
  BY <1>30 DEF script, ScriptInv, Darwin, Attached, Handled, IInv, OpenData
<1>31. CASE OpenInterpreted
  BY <1>31 DEF script, ScriptInv, Darwin, Attached, Handled, IInv, OpenInterpreted
<1>32. CASE ReportReady
  BY <1>32 DEF script, ScriptInv, Darwin, Attached, Handled, IInv, ReportReady
<1>33. CASE Write
  BY <1>33 DEF script, ScriptInv, Darwin, Attached, Handled, IInv, Write
<1>34. CASE ApplicationEnds
  BY <1>34 DEF script, ScriptInv, Darwin, Attached, Handled, IInv, ApplicationEnds
<1>35. CASE Signal
  BY <1>35 DEF IInv, ScriptInv, Signal, Attached, Handled, Darwin
<1>36. ASSUME NEW w \in Workers, Work(w) PROVE ScriptInv'
  BY <1>36 DEF script, ScriptInv, Darwin, Attached, Handled, IInv, Work
<1>37. ASSUME NEW w \in Workers, WorkerEnds(w) PROVE ScriptInv'
  BY <1>37 DEF script, ScriptInv, Darwin, Attached, Handled, IInv, WorkerEnds
<1>38. ASSUME NEW w \in Workers, WorkerFails(w) PROVE ScriptInv'
  BY <1>38 DEF script, ScriptInv, Darwin, Attached, Handled, IInv, WorkerFails
<1>39. CASE UNCHANGED vars
  BY <1>39 DEF script, ScriptInv, Darwin, Attached, Handled, IInv, vars
<1> QED
  BY <1>1, <1>2, <1>3, <1>4, <1>5, <1>6, <1>7, <1>8, <1>9, <1>10, <1>11, <1>12, <1>13, <1>14,
     <1>15, <1>16, <1>17, <1>18, <1>19, <1>20, <1>21, <1>22, <1>23, <1>24, <1>25, <1>26,
     <1>27, <1>28, <1>29, <1>30, <1>31, <1>32, <1>33, <1>34, <1>35, <1>36, <1>37, <1>38, <1>39
  DEF Next, Script

\* Every step keeps what is known of the background processes.
LEMMA WorkerStep ==
    ASSUME IInv, [Next]_vars
    PROVE  WorkerInv'
<1>1. CASE ParseArguments
  BY <1>1
  DEF IInv, processes, Before, Application, Ending, WorkerInv, AllStarted, InterpreterStarted,
      CompressorStarted, BeforeCompressor, BeforeInterpreter, Alive, ParseArguments, At,
      Continue, Fail
<1>2. CASE CheckInstallation
  BY <1>2
  DEF IInv, processes, Before, Application, Ending, WorkerInv, AllStarted, InterpreterStarted,
      CompressorStarted, BeforeCompressor, BeforeInterpreter, Alive, CheckInstallation, At,
      Continue, Fail
<1>3. CASE MakeRuntimeDir
  BY <1>3
  DEF IInv, processes, Before, Application, Ending, WorkerInv, AllStarted, InterpreterStarted,
      CompressorStarted, BeforeCompressor, BeforeInterpreter, Alive, MakeRuntimeDir, At,
      Continue, Fail
<1>4. CASE TrapRuntime
  BY <1>4
  DEF IInv, processes, Before, Application, Ending, WorkerInv, AllStarted, InterpreterStarted,
      CompressorStarted, BeforeCompressor, BeforeInterpreter, TrapRuntime, InstallTrap, At
<1>5. CASE MakeDataFifo
  BY <1>5
  DEF IInv, processes, Application, Ending, WorkerInv, AllStarted, InterpreterStarted,
      CompressorStarted, BeforeCompressor, BeforeInterpreter, Alive, MakeDataFifo, Create, At,
      Continue, Fail
<1>6. CASE MakeReadyFile
  BY <1>6
  DEF IInv, processes, Application, Ending, WorkerInv, AllStarted, InterpreterStarted,
      CompressorStarted, BeforeCompressor, BeforeInterpreter, Alive, MakeReadyFile, Create,
      At, Continue, Fail
<1>7. CASE GiveToUser
  BY <1>7
  DEF IInv, processes, Application, Ending, WorkerInv, AllStarted, InterpreterStarted,
      CompressorStarted, BeforeCompressor, BeforeInterpreter, Alive, GiveToUser, At, Continue,
      Fail
<1>8. CASE MakeInterpretedFifo
  BY <1>8
  DEF IInv, processes, Application, Ending, WorkerInv, AllStarted, InterpreterStarted,
      CompressorStarted, BeforeCompressor, BeforeInterpreter, Alive, MakeInterpretedFifo,
      Create, At, Continue, Fail
<1>9. CASE StartCompressor
  BY <1>9
  DEF IInv, TypeOK, Before, Application, Ending, WorkerInv, AllStarted, InterpreterStarted,
      BeforeCompressor, BeforeInterpreter, Workers, StartCompressor, StartWorker, At, Continue
<1>10. CASE NoteCompressor
  BY <1>10
  DEF IInv, WorkerInv, NoteCompressor, NotePids, At, Alive, BeforeCompressor,
      BeforeInterpreter, Before, AllStarted, InterpreterStarted, CompressorStarted,
      Application, Ending, processes
<1>11. CASE StartInterpreter
  BY <1>11
  DEF IInv, TypeOK, Before, ScriptInv, WorkerInv, CompressorStarted, BeforeCompressor,
      BeforeInterpreter, Workers, StartInterpreter, StartWorker, At, Continue
<1>12. CASE NoteInterpreter
  BY <1>12
  DEF IInv, WorkerInv, NoteInterpreter, NotePids, At, Alive, BeforeCompressor,
      BeforeInterpreter, Before, InterpreterStarted, CompressorStarted, processes
<1>13. CASE TrapCleanup
  BY <1>13
  DEF IInv, processes, Before, WorkerInv, AllStarted, InterpreterStarted, CompressorStarted,
      BeforeCompressor, BeforeInterpreter, Alive, TrapCleanup, InstallTrap, At
<1>14. CASE StartApplication
  BY <1>14
  DEF IInv, Before, Application, WorkerInv, AllStarted, InterpreterStarted, CompressorStarted,
      BeforeCompressor, BeforeInterpreter, Alive, StartApplication, At, Continue
<1>15. CASE ForegroundEnds
  BY <1>15
  DEF IInv, processes, Before, Application, WorkerInv, AllStarted, InterpreterStarted,
      CompressorStarted, BeforeCompressor, BeforeInterpreter, Alive, ForegroundEnds,
      TakeStatus
<1>16. CASE NoteApplication
  BY <1>16
  DEF IInv, processes, Before, Application, WorkerInv, AllStarted, InterpreterStarted,
      CompressorStarted, BeforeCompressor, BeforeInterpreter, Alive, NoteApplication, At
<1>17. CASE PollReady
  BY <1>17
  DEF IInv, processes, Before, Application, WorkerInv, AllStarted, InterpreterStarted,
      CompressorStarted, BeforeCompressor, BeforeInterpreter, Alive, PollReady, At, Continue
<1>18. CASE CheckReady
  <2>1. TypeOK /\ ScriptInv  BY DEF IInv
  <2>2. CASE UNCHANGED worker
    BY <1>18, <2>2
    DEF CheckReady, TakeStatus, Continue, At, IInv, WorkerInv, Alive, Before, Application,
        AllStarted, InterpreterStarted, CompressorStarted, BeforeCompressor, BeforeInterpreter
  <2>3. CASE CleanupRuntime
    BY <1>18, <2>1, <2>3, Killed
    DEF CheckReady, TakeStatus, Continue, At, IInv, WorkerInv, Alive, Workers, Before,
        Application, AllStarted, InterpreterStarted, CompressorStarted, BeforeCompressor,
        BeforeInterpreter
  <2> QED
    BY <1>18, <2>2, <2>3 DEF CheckReady
<1>19. CASE WaitApplication
  BY <1>19
  DEF IInv, processes, Before, Application, WorkerInv, AllStarted, InterpreterStarted,
      CompressorStarted, BeforeCompressor, BeforeInterpreter, Alive, WaitApplication, At,
      TakeStatus
<1>20. CASE Inject
  BY ZenonT(60), <1>20
  DEF IInv, TypeOK, script, processes, Shells, Signals, Before, SetUp, Application, Ending,
      Places, ScriptInv, WorkerInv, AllStarted, InterpreterStarted, CompressorStarted,
      BeforeCompressor, BeforeInterpreter, Alive, Workers, Reader, States, Inject, At,
      Continue, TakeStatus
<1>21. CASE InjectionEnds
  BY <1>21
  DEF IInv, processes, Before, Application, WorkerInv, AllStarted, InterpreterStarted,
      CompressorStarted, BeforeCompressor, BeforeInterpreter, Alive, InjectionEnds, TakeStatus
<1>22. CASE CheckDebugReady
  <2>1. TypeOK /\ ScriptInv  BY DEF IInv
  <2>2. CASE UNCHANGED worker
    BY <1>22, <2>2
    DEF CheckDebugReady, At, IInv, WorkerInv, Alive, Before, Ending, AllStarted,
        InterpreterStarted, CompressorStarted, BeforeCompressor, BeforeInterpreter
  <2>3. CASE CleanupRuntime
    BY <1>22, <2>1, <2>3, Killed
    DEF CheckDebugReady, At, IInv, WorkerInv, Alive, Workers, Before, Ending, AllStarted,
        InterpreterStarted, CompressorStarted, BeforeCompressor, BeforeInterpreter
  <2> QED
    BY <1>22, <2>2, <2>3 DEF CheckDebugReady
<1>23. CASE WaitInterpreter
  BY <1>23
  DEF IInv, processes, Before, Ending, ScriptInv, WorkerInv, AllStarted, InterpreterStarted,
      CompressorStarted, BeforeCompressor, BeforeInterpreter, Alive, Workers, WaitInterpreter,
      WaitWorker, At
<1>24. CASE WaitCompressor
  BY <1>24
  DEF IInv, processes, Before, Ending, ScriptInv, WorkerInv, AllStarted, InterpreterStarted,
      CompressorStarted, BeforeCompressor, BeforeInterpreter, Alive, Workers, WaitCompressor,
      WaitWorker, At
<1>25. CASE SumUp
  BY <1>25
  DEF IInv, processes, Before, Ending, WorkerInv, AllStarted, InterpreterStarted,
      CompressorStarted, BeforeCompressor, BeforeInterpreter, Alive, SumUp, At
<1>26. CASE Exit
  <2>1. TypeOK /\ ScriptInv  BY DEF IInv
  <2>2. CASE sh.trap = "none"
    BY <1>26, <2>2
    DEF Exit, At, Continue, IInv, WorkerInv, Alive, Before, Application, Ending, AllStarted,
        InterpreterStarted, CompressorStarted, BeforeCompressor, BeforeInterpreter
  <2>3. CASE sh.trap # "none"
    <3>1. CleanupRuntime  BY <1>26, <2>1, <2>3, Trapped DEF Exit
    <3>2. app' = "recording" => app = "recording"  BY <1>26, <2>1, <2>3, Trapped DEF Exit
    <3> QED
      BY <1>26, <2>1, <3>1, <3>2, Killed
      DEF Exit, At, Continue, IInv, WorkerInv, Alive, Workers, Before, Application, Ending,
          AllStarted, InterpreterStarted, CompressorStarted, BeforeCompressor,
          BeforeInterpreter
  <2> QED
    BY <2>2, <2>3
<1>27. CASE HandleSignal
  <2>1. TypeOK /\ ScriptInv  BY DEF IInv
  <2>2. CleanupRuntime  BY <1>27, <2>1, HandleEffect, Trapped
  <2> QED
    BY <1>27, <2>1, <2>2, HandleEffect, Killed
    DEF IInv, ScriptInv, WorkerInv, Alive, Workers, Before, Application, Ending, AllStarted,
        InterpreterStarted, CompressorStarted, BeforeCompressor, BeforeInterpreter
<1>28. CASE DieOfSignal
  BY <1>28
  DEF IInv, processes, Before, Application, Ending, WorkerInv, AllStarted, InterpreterStarted,
      CompressorStarted, BeforeCompressor, BeforeInterpreter, Alive, DieOfSignal, Continue
<1>29. CASE Load
  BY <1>29 DEF IInv, script, WorkerInv, Alive, Load
<1>30. CASE OpenData
  BY <1>30 DEF IInv, script, WorkerInv, Alive, Reader, OpenData
<1>31. CASE OpenInterpreted
  BY <1>31 DEF IInv, script, WorkerInv, Alive, Workers, OpenInterpreted
<1>32. CASE ReportReady
  BY <1>32 DEF IInv, script, WorkerInv, Alive, ReportReady
<1>33. CASE Write
  BY <1>33 DEF IInv, script, WorkerInv, Alive, Write
<1>34. CASE ApplicationEnds
  BY <1>34 DEF IInv, script, WorkerInv, Alive, ApplicationEnds
<1>35. CASE Signal
  BY <1>35 DEF IInv, processes, WorkerInv, Alive, Signal
<1>36. ASSUME NEW w \in Workers, Work(w) PROVE WorkerInv'
  BY <1>36 DEF IInv, TypeOK, script, WorkerInv, Alive, Workers, Work
<1>37. ASSUME NEW w \in Workers, WorkerEnds(w) PROVE WorkerInv'
  BY <1>37 DEF IInv, script, WorkerInv, Alive, Reader, WorkerEnds
<1>38. ASSUME NEW w \in Workers, WorkerFails(w) PROVE WorkerInv'
  BY <1>38 DEF IInv, script, WorkerInv, Alive, WorkerFails
<1>39. CASE UNCHANGED vars
  BY <1>39 DEF IInv, script, processes, WorkerInv, Alive, vars
<1> QED
  BY <1>1, <1>2, <1>3, <1>4, <1>5, <1>6, <1>7, <1>8, <1>9, <1>10, <1>11, <1>12, <1>13, <1>14,
     <1>15, <1>16, <1>17, <1>18, <1>19, <1>20, <1>21, <1>22, <1>23, <1>24, <1>25, <1>26,
     <1>27, <1>28, <1>29, <1>30, <1>31, <1>32, <1>33, <1>34, <1>35, <1>36, <1>37, <1>38, <1>39
  DEF Next, Script

\* Every step keeps what is known of the application.
LEMMA AppStep ==
    ASSUME IInv, [Next]_vars
    PROVE  AppInv'
<1>1. CASE ParseArguments
  BY <1>1
  DEF IInv, processes, Before, Application, Ending, ScriptInv, AppInv, Attached, AppAlive,
      ParseArguments, At, Continue, Fail
<1>2. CASE CheckInstallation
  BY <1>2
  DEF IInv, processes, Before, Application, Ending, ScriptInv, AppInv, Attached, AppAlive,
      CheckInstallation, At, Continue, Fail
<1>3. CASE MakeRuntimeDir
  BY <1>3
  DEF IInv, processes, Before, Application, Ending, ScriptInv, AppInv, Attached, AppAlive,
      MakeRuntimeDir, At, Continue, Fail
<1>4. CASE TrapRuntime
  BY <1>4
  DEF IInv, processes, Before, Application, Ending, ScriptInv, AppInv, Attached, TrapRuntime,
      InstallTrap, At
<1>5. CASE MakeDataFifo
  BY <1>5
  DEF IInv, processes, SetUp, Application, Ending, ScriptInv, AppInv, Handled, Attached,
      AppAlive, MakeDataFifo, Create, At, Continue, Fail
<1>6. CASE MakeReadyFile
  BY <1>6
  DEF IInv, processes, SetUp, Application, Ending, ScriptInv, AppInv, Handled, Attached,
      AppAlive, MakeReadyFile, Create, At, Continue, Fail
<1>7. CASE GiveToUser
  BY <1>7
  DEF IInv, processes, SetUp, Application, Ending, ScriptInv, AppInv, Handled, Attached,
      GiveToUser, At, Continue
<1>8. CASE MakeInterpretedFifo
  BY <1>8
  DEF IInv, processes, SetUp, Application, Ending, ScriptInv, AppInv, Handled, Attached,
      AppAlive, MakeInterpretedFifo, Create, At, Continue, Fail
<1>9. CASE StartCompressor
  BY <1>9
  DEF IInv, SetUp, Application, Ending, AppInv, Handled, Attached, StartCompressor,
      StartWorker, At, Continue
<1>10. CASE NoteCompressor
  BY <1>10
  DEF IInv, processes, SetUp, Application, Ending, AppInv, Handled, Attached, NoteCompressor,
      NotePids, At
<1>11. CASE StartInterpreter
  BY <1>11
  DEF IInv, SetUp, Application, Ending, AppInv, Handled, Attached, StartInterpreter,
      StartWorker, At, Continue
<1>12. CASE NoteInterpreter
  BY <1>12
  DEF IInv, processes, SetUp, Application, Ending, AppInv, Handled, Attached, NoteInterpreter,
      NotePids, At
<1>13. CASE TrapCleanup
  BY <1>13 DEF IInv, processes, SetUp, Ending, AppInv, Attached, TrapCleanup, InstallTrap, At
<1>14. CASE StartApplication
  BY <1>14
  DEF IInv, Before, SetUp, Ending, ScriptInv, AppInv, Attached, StartApplication, At, Continue
<1>15. CASE ForegroundEnds
  BY <1>15
  DEF IInv, TypeOK, processes, Before, SetUp, Places, AppInv, AppAlive, Apps, ForegroundEnds,
      TakeStatus
<1>16. CASE NoteApplication
  BY <1>16
  DEF IInv, processes, Before, SetUp, Application, Ending, AppInv, Handled, Attached,
      NoteApplication, At
<1>17. CASE PollReady
  BY <1>17
  DEF IInv, processes, Before, SetUp, Application, Ending, ScriptInv, AppInv, Attached,
      PollReady, At, Continue
<1>18. CASE CheckReady
  BY <1>18
  DEF IInv, TypeOK, Before, SetUp, Ending, Places, AppInv, Handled, Attached, AppAlive, Apps,
      CheckReady, At, Continue, TakeStatus
<1>19. CASE WaitApplication
  BY <1>19
  DEF IInv, TypeOK, processes, Before, SetUp, Places, AppInv, AppAlive, Apps, WaitApplication,
      At, TakeStatus
<1>20. CASE Inject
  BY ZenonT(60), <1>20
  DEF IInv, TypeOK, script, processes, Shells, Signals, Before, SetUp, Application, Ending,
      Places, ScriptInv, AppInv, Handled, Attached, AppAlive, Apps, CommandLine, Darwin,
      Inject, At, Continue, TakeStatus
<1>21. CASE InjectionEnds
  BY <1>21 DEF IInv, processes, ScriptInv, AppInv, Handled, Attached, InjectionEnds, TakeStatus
<1>22. CASE CheckDebugReady
  BY <1>22 DEF IInv, Before, SetUp, Ending, AppInv, Handled, Attached, CheckDebugReady, At
<1>23. CASE WaitInterpreter
  BY <1>23
  DEF IInv, processes, Before, SetUp, Ending, AppInv, Handled, Attached, WaitInterpreter,
      WaitWorker, At
<1>24. CASE WaitCompressor
  BY <1>24
  DEF IInv, processes, Before, SetUp, Ending, AppInv, Handled, Attached, WaitCompressor,
      WaitWorker, At
<1>25. CASE SumUp
  BY <1>25
  DEF IInv, processes, Before, SetUp, Ending, AppInv, Handled, Attached, AppAlive, SumUp, At
<1>26. CASE Exit
  BY <1>26
  DEF IInv, Before, SetUp, Application, Ending, AppInv, Handled, Attached, AppAlive, Exit, At,
      Continue, RunTrap
<1>27. CASE HandleSignal
  BY <1>27, AfterTrapCases
  DEF IInv, TypeOK, Before, SetUp, Ending, Places, ScriptInv, AppInv, Handled, Attached,
      AppAlive, Apps, HandleSignal, RunTrap
<1>28. CASE DieOfSignal
  BY <1>28
  DEF IInv, processes, Before, SetUp, Application, Ending, AppInv, Handled, Attached,
      DieOfSignal, Continue
<1>29. CASE Load
  BY <1>29 DEF IInv, script, AppInv, Attached, AppAlive, Load
<1>30. CASE OpenData
  BY <1>30 DEF IInv, script, AppInv, Handled, Attached, AppAlive, OpenData
<1>31. CASE OpenInterpreted
  BY <1>31 DEF script, AppInv, Attached, Handled, AppAlive, IInv, OpenInterpreted
<1>32. CASE ReportReady
  BY <1>32 DEF IInv, script, AppInv, Handled, Attached, AppAlive, ReportReady
<1>33. CASE Write
  BY <1>33 DEF script, AppInv, Attached, Handled, AppAlive, IInv, Write
<1>34. CASE ApplicationEnds
  BY <1>34 DEF IInv, script, AppInv, Attached, AppAlive, ApplicationEnds
<1>35. CASE Signal
  BY <1>35 DEF IInv, AppInv, Signal, Attached, Handled, AppAlive, processes
<1>36. ASSUME NEW w \in Workers, Work(w) PROVE AppInv'
  BY <1>36 DEF script, AppInv, Attached, Handled, AppAlive, IInv, Work
<1>37. ASSUME NEW w \in Workers, WorkerEnds(w) PROVE AppInv'
  BY <1>37 DEF script, AppInv, Attached, Handled, AppAlive, IInv, WorkerEnds
<1>38. ASSUME NEW w \in Workers, WorkerFails(w) PROVE AppInv'
  BY <1>38 DEF script, AppInv, Attached, Handled, AppAlive, IInv, WorkerFails
<1>39. CASE UNCHANGED vars
  BY <1>39 DEF IInv, AppInv, Attached, Handled, AppAlive, vars, script, processes
<1> QED
  BY <1>1, <1>2, <1>3, <1>4, <1>5, <1>6, <1>7, <1>8, <1>9, <1>10, <1>11, <1>12, <1>13, <1>14,
     <1>15, <1>16, <1>17, <1>18, <1>19, <1>20, <1>21, <1>22, <1>23, <1>24, <1>25, <1>26,
     <1>27, <1>28, <1>29, <1>30, <1>31, <1>32, <1>33, <1>34, <1>35, <1>36, <1>37, <1>38, <1>39
  DEF Next, Script

\* Every step keeps the count of the records in the pipes.
LEMMA FlowStep ==
    ASSUME IInv, [Next]_vars
    PROVE  FlowInv'
<1>1. CASE ParseArguments
  BY <1>1 DEF IInv, processes, FlowInv, Reader, ParseArguments
<1>2. CASE CheckInstallation
  BY <1>2 DEF IInv, processes, FlowInv, Reader, CheckInstallation
<1>3. CASE MakeRuntimeDir
  BY <1>3 DEF IInv, processes, FlowInv, Reader, MakeRuntimeDir
<1>4. CASE TrapRuntime
  BY <1>4 DEF IInv, processes, FlowInv, Reader, TrapRuntime, InstallTrap
<1>5. CASE MakeDataFifo
  BY <1>5 DEF IInv, processes, FlowInv, Reader, MakeDataFifo, Create
<1>6. CASE MakeReadyFile
  BY <1>6 DEF IInv, processes, FlowInv, Reader, MakeReadyFile, Create
<1>7. CASE GiveToUser
  BY ZenonT(60), <1>7
  DEF IInv, TypeOK, script, processes, Shells, Signals, Before, SetUp, Application, Ending,
      Places, WorkerInv, FlowInv, BeforeCompressor, BeforeInterpreter, Workers, Reader, Alive,
      States, Fifos, GiveToUser, At, Continue, Fail
<1>8. CASE MakeInterpretedFifo
  BY <1>8 DEF IInv, processes, FlowInv, Reader, MakeInterpretedFifo, Create
<1>9. CASE StartCompressor
  BY <1>9
  DEF IInv, WorkerInv, FlowInv, BeforeCompressor, Reader, StartCompressor, StartWorker, At
<1>10. CASE NoteCompressor
  BY <1>10 DEF IInv, processes, FlowInv, Reader, NoteCompressor, NotePids
<1>11. CASE StartInterpreter
  BY <1>11
  DEF IInv, WorkerInv, FlowInv, BeforeInterpreter, Reader, StartInterpreter, StartWorker, At
<1>12. CASE NoteInterpreter
  BY <1>12 DEF IInv, processes, FlowInv, Reader, NoteInterpreter, NotePids
<1>13. CASE TrapCleanup
  BY <1>13 DEF IInv, processes, FlowInv, Reader, TrapCleanup, InstallTrap
<1>14. CASE StartApplication
  BY <1>14 DEF IInv, FlowInv, Reader, StartApplication
<1>15. CASE ForegroundEnds
  BY <1>15 DEF IInv, processes, FlowInv, Reader, ForegroundEnds
<1>16. CASE NoteApplication
  BY <1>16 DEF IInv, processes, FlowInv, Reader, NoteApplication
<1>17. CASE PollReady
  BY <1>17 DEF IInv, processes, FlowInv, Reader, PollReady
<1>18. CASE CheckReady
  <2>1. TypeOK /\ ScriptInv  BY DEF IInv
  <2>2. CASE UNCHANGED worker
    BY <1>18, <2>2 DEF CheckReady, TakeStatus, IInv, FlowInv, Reader
  <2>3. CASE CleanupRuntime
    BY <1>18, <2>1, <2>3, Killed DEF CheckReady, TakeStatus, IInv, FlowInv, Reader, Workers
  <2> QED
    BY <1>18, <2>2, <2>3 DEF CheckReady
<1>19. CASE WaitApplication
  BY <1>19 DEF IInv, processes, FlowInv, Reader, WaitApplication
<1>20. CASE Inject
  BY ZenonT(60), <1>20
  DEF IInv, TypeOK, script, processes, Shells, Signals, Before, SetUp, Application, Ending,
      Places, WorkerInv, FlowInv, BeforeCompressor, BeforeInterpreter, Workers, Reader, Alive,
      States, Fifos, Inject, At, Continue, TakeStatus
<1>21. CASE InjectionEnds
  BY <1>21 DEF IInv, processes, FlowInv, Reader, InjectionEnds
<1>22. CASE CheckDebugReady
  <2>1. TypeOK /\ ScriptInv  BY DEF IInv
  <2>2. CASE UNCHANGED worker
    BY <1>22, <2>2 DEF CheckDebugReady, IInv, FlowInv, Reader
  <2>3. CASE CleanupRuntime
    BY <1>22, <2>1, <2>3, Killed DEF CheckDebugReady, IInv, FlowInv, Reader, Workers
  <2> QED
    BY <1>22, <2>2, <2>3 DEF CheckDebugReady
<1>23. CASE WaitInterpreter
  BY <1>23 DEF IInv, processes, FlowInv, Reader, WaitInterpreter, WaitWorker
<1>24. CASE WaitCompressor
  BY <1>24 DEF IInv, processes, FlowInv, Reader, WaitCompressor, WaitWorker
<1>25. CASE SumUp
  BY <1>25 DEF IInv, processes, FlowInv, Reader, SumUp
<1>26. CASE Exit
  <2>1. TypeOK /\ ScriptInv  BY DEF IInv
  <2>2. CASE sh.trap = "none"
    BY <1>26, <2>2 DEF Exit, IInv, FlowInv, Reader
  <2>3. CASE sh.trap # "none"
    <3>1. CleanupRuntime  BY <1>26, <2>1, <2>3, Trapped DEF Exit
    <3>2. app' = "recording" => app = "recording"  BY <1>26, <2>1, <2>3, Trapped DEF Exit
    <3> QED
      BY <1>26, <2>1, <3>1, <3>2, Killed DEF Exit, IInv, FlowInv, Reader, Workers
  <2> QED
    BY <2>2, <2>3
<1>27. CASE HandleSignal
  BY <1>27, AfterTrapCases
  DEF IInv, FlowInv, Workers, Reader, HandleSignal, RunTrap, CleanupRuntime
<1>28. CASE DieOfSignal
  BY <1>28 DEF IInv, processes, FlowInv, Reader, DieOfSignal
<1>29. CASE Load
  BY <1>29 DEF IInv, script, FlowInv, Reader, Load
<1>30. CASE OpenData
  <2>1. cmd' = cmd /\ Reader' = Reader /\ Reader \in Workers
    BY <1>30
    DEF OpenData, script, Reader, Workers
  <2>2. \A x \in Fifos : flow[x] = 0
    <3>1. flow["written"] = 0 /\ flow["written"] = flow["data"] + flow["interpreted"] + flow["file"]
      BY <1>30, <2>1 DEF OpenData, IInv, FlowInv
    <3>2. flow["data"] \in Nat /\ flow["interpreted"] \in Nat /\ flow["file"] \in Nat
      BY DEF IInv, TypeOK, Fifos
    <3>3. flow["data"] = 0 /\ flow["interpreted"] = 0 /\ flow["file"] = 0
      BY <3>1, <3>2
    <3> QED
      BY <3>1, <3>3 DEF Fifos
  <2>3. /\ flow'["written"] = 1 /\ flow'["data"] = 1 /\ flow'["interpreted"] = 0 /\ flow'["file"] = 0
    BY <1>30, <2>2 DEF OpenData, IInv, TypeOK, Fifos
  <2>4. worker'[Reader] \in {"running", "opening_output"}
    BY <1>30, <2>1 DEF OpenData, IInv, TypeOK
  <2> QED
    <3>1. worker'[Reader'] \in {"running", "opening_output"}  BY <2>1, <2>4
    <3>2. flow'["written"] > 0  BY <2>3
    <3>3. flow'["written"] = flow'["data"] + flow'["interpreted"] + flow'["file"]  BY <2>3
    <3> QED  BY <2>3, <3>1, <3>2, <3>3 DEF FlowInv
<1>31. CASE OpenInterpreted
  BY <1>31 DEF IInv, script, WorkerInv, FlowInv, Workers, Reader, OpenInterpreted
<1>32. CASE ReportReady
  BY <1>32 DEF IInv, script, FlowInv, Reader, ReportReady
<1>33. CASE Write
  <2>1. cmd' = cmd /\ Reader' = Reader /\ worker' = worker  BY <1>33 DEF Write, script, Reader
  <2>2. CASE UNCHANGED flow
    BY <1>33, <2>1, <2>2 DEF Write, IInv, FlowInv
  <2>3. CASE Alive(Reader) /\ flow' = [flow EXCEPT !["written"] = @ + 1, !["data"] = @ + 1]
    <3>1. /\ flow'["written"] = flow["written"] + 1 /\ flow'["data"] = flow["data"] + 1
          /\ flow'["interpreted"] = flow["interpreted"] /\ flow'["file"] = flow["file"]
      BY <2>3 DEF IInv, TypeOK, Fifos
    <3>2. worker[Reader] \in {"running", "opening_output"}
      <4>1. app = "recording"  BY <1>33 DEF Write
      <4>2. flow["written"] > 0  BY <4>1 DEF IInv, FlowInv
      <4>3. worker[Reader] # "opening"
        <5>1. flow["written"] # 0  BY <4>2
        <5> QED  BY <5>1 DEF IInv, FlowInv
      <4> QED  BY <2>3, <4>3 DEF Alive
    <3>3. \A x \in Fifos : flow[x] \in Nat
      BY DEF IInv, TypeOK
    <3>4. cmd.raw \/ worker["compressor"] = "ended" => flow["interpreted"] = 0
      BY DEF IInv, FlowInv
    <3>5. flow["written"] = flow["data"] + flow["interpreted"] + flow["file"]
      BY DEF IInv, FlowInv
    <3>6. flow'["written"] > 0 /\ flow'["written"] = flow'["data"] + flow'["interpreted"] + flow'["file"]
      BY <3>1, <3>3, <3>5 DEF Fifos
    <3> QED
      BY <2>1, <3>1, <3>2, <3>4, <3>6 DEF FlowInv
  <2> QED
    BY <1>33, <2>2, <2>3 DEF Write
<1>34. CASE ApplicationEnds
  BY <1>34 DEF IInv, script, FlowInv, Reader, ApplicationEnds
<1>35. CASE Signal
  BY <1>35 DEF IInv, processes, FlowInv, Reader, Signal
<1>36. ASSUME NEW w \in Workers, Work(w) PROVE FlowInv'
  <2>1. cmd' = cmd /\ Reader' = Reader  BY <1>36 DEF Work, script, Reader
  <2>2. Source(w) \in Fifos /\ Sink(w) \in Fifos  BY DEF Source, Sink, Fifos
  <2>3. CASE UNCHANGED flow
    BY <1>36, <2>1, <2>3 DEF Work, IInv, TypeOK, FlowInv, Reader, Workers
  <2>4. CASE UNCHANGED worker /\ flow' = [flow EXCEPT ![Source(w)] = @ - 1, ![Sink(w)] = @ + 1]
    <3>1. \A x \in Fifos : flow[x] \in Nat
      BY DEF IInv, TypeOK
    <3>2. worker[w] = "running" /\ flow[Source(w)] > 0 /\ app' = app /\ worker' = worker
      BY <1>36, <2>4 DEF Work
    <3>3. cmd.raw => w = "compressor"
      BY <3>2 DEF IInv, WorkerInv, Workers
    <3>4. w = "interpreter" => worker["compressor"] # "ended"
      BY <1>36, <2>4, <3>2 DEF Alive, IInv, WorkerInv
    <3>5. worker[Reader] = "ended" => w # Reader
      BY <3>2
    <3>6. CASE w = Reader
      <4>1. Source(w) = "data" /\ Sink(w) = IF w = "compressor" THEN "file" ELSE "interpreted"
        BY <3>6 DEF Source, Sink
      <4>2. flow' = [flow EXCEPT !["data"] = @ - 1, ![Sink(w)] = @ + 1] /\ Sink(w) \in {"file", "interpreted"}
        BY <2>4, <4>1
      <4>3. /\ flow'["data"] = flow["data"] - 1 /\ flow'["written"] = flow["written"]
            /\ flow'["file"] = IF w = "compressor" THEN flow["file"] + 1 ELSE flow["file"]
            /\ flow'["interpreted"] = IF w = "compressor" THEN flow["interpreted"] ELSE flow["interpreted"] + 1
        BY <4>1, <4>2 DEF IInv, TypeOK, Fifos
      <4>4. /\ flow["written"] = flow["data"] + flow["interpreted"] + flow["file"]
            /\ app = "recording" => flow["written"] > 0
            /\ cmd.raw \/ worker["compressor"] = "ended" => flow["interpreted"] = 0
        BY DEF IInv, FlowInv
      <4>5. flow'["written"] = flow'["data"] + flow'["interpreted"] + flow'["file"]
        BY <3>1, <4>3, <4>4 DEF Fifos
      <4>6. worker[Reader] = "running" /\ flow["written"] > 0
        BY <3>2, <3>6 DEF IInv, FlowInv
      <4>7. cmd.raw \/ worker["compressor"] = "ended" => w = "compressor"
        BY <3>3, <3>4 DEF Workers
      <4>8. cmd.raw \/ worker["compressor"] = "ended" => flow'["interpreted"] = 0
        BY <4>3, <4>4, <4>7
      <4> QED
        BY <2>1, <3>2, <4>3, <4>5, <4>6, <4>8 DEF FlowInv
    <3>7. CASE w # Reader
      <4>1. w = "compressor" /\ ~ cmd.raw /\ Source(w) = "interpreted" /\ Sink(w) = "file"
        BY <3>3, <3>7 DEF Source, Sink, Reader, Workers
      <4>2. flow' = [flow EXCEPT !["interpreted"] = @ - 1, !["file"] = @ + 1]
        BY <2>4, <4>1
      <4>3. /\ flow'["data"] = flow["data"] /\ flow'["written"] = flow["written"]
            /\ flow'["file"] = flow["file"] + 1
            /\ flow'["interpreted"] = flow["interpreted"] - 1
        BY <4>2 DEF IInv, TypeOK, Fifos
      <4>4. flow["written"] = flow["data"] + flow["interpreted"] + flow["file"]
        BY DEF IInv, FlowInv
      <4>5. flow'["written"] = flow'["data"] + flow'["interpreted"] + flow'["file"]
        BY <3>1, <4>3, <4>4 DEF Fifos
      <4> QED
        BY <2>1, <3>2, <4>1, <4>3, <4>5 DEF IInv, FlowInv
    <3> QED
      BY <3>6, <3>7
  <2> QED
    BY <1>36, <2>3, <2>4 DEF Work
<1>37. ASSUME NEW w \in Workers, WorkerEnds(w) PROVE FlowInv'
  BY <1>37 DEF IInv, script, FlowInv, Reader, WorkerEnds, Source
<1>38. ASSUME NEW w \in Workers, WorkerFails(w) PROVE FlowInv'
  BY <1>38 DEF IInv, script, FlowInv, Reader, WorkerFails
<1>39. CASE UNCHANGED vars
  BY <1>39 DEF IInv, script, processes, FlowInv, Reader, vars
<1> QED
  BY <1>1, <1>2, <1>3, <1>4, <1>5, <1>6, <1>7, <1>8, <1>9, <1>10, <1>11, <1>12, <1>13, <1>14,
     <1>15, <1>16, <1>17, <1>18, <1>19, <1>20, <1>21, <1>22, <1>23, <1>24, <1>25, <1>26,
     <1>27, <1>28, <1>29, <1>30, <1>31, <1>32, <1>33, <1>34, <1>35, <1>36, <1>37, <1>38, <1>39
  DEF Next, Script

\* Every step keeps the meaning of a status of 0.
LEMMA StatusStep ==
    ASSUME IInv, [Next]_vars
    PROVE  StatusInv'
<1>1. CASE ParseArguments
  <2>1. TypeOK  BY DEF IInv
  <2>2. Fail \/ pc' \in {"checks"}
    BY <1>1 DEF ParseArguments, Continue
  <2> QED
    BY <2>1, <2>2, Failed DEF StatusInv, Ending
<1>2. CASE CheckInstallation
  <2>1. TypeOK  BY DEF IInv
  <2>2. Fail \/ pc' \in {"mktemp"}
    BY <1>2 DEF CheckInstallation, Continue
  <2> QED
    BY <2>1, <2>2, Failed DEF StatusInv, Ending
<1>3. CASE MakeRuntimeDir
  <2>1. TypeOK  BY DEF IInv
  <2>2. Fail \/ pc' \in {"trap_runtime"}
    BY <1>3 DEF MakeRuntimeDir, Continue
  <2> QED
    BY <2>1, <2>2, Failed DEF StatusInv, Ending
<1>4. CASE TrapRuntime
  BY <1>4 DEF Ending, StatusInv, TrapRuntime, InstallTrap
<1>5. CASE MakeDataFifo
  <2>1. TypeOK  BY DEF IInv
  <2>2. Fail \/ pc' \in {"ready_file", "chown"}
    BY <1>5 DEF MakeDataFifo, Create, Continue
  <2> QED
    BY <2>1, <2>2, Failed DEF StatusInv, Ending
<1>6. CASE MakeReadyFile
  <2>1. TypeOK  BY DEF IInv
  <2>2. Fail \/ pc' \in {"chown"}
    BY <1>6 DEF MakeReadyFile, Create, Continue
  <2> QED
    BY <2>1, <2>2, Failed DEF StatusInv, Ending
<1>7. CASE GiveToUser
  <2>1. TypeOK  BY DEF IInv
  <2>2. Fail \/ pc' \in {"compressor", "interpreted"}
    BY <1>7 DEF GiveToUser, Continue
  <2> QED
    BY <2>1, <2>2, Failed DEF StatusInv, Ending
<1>8. CASE MakeInterpretedFifo
  <2>1. TypeOK  BY DEF IInv
  <2>2. Fail \/ pc' \in {"compressor"}
    BY <1>8 DEF MakeInterpretedFifo, Create, Continue
  <2> QED
    BY <2>1, <2>2, Failed DEF StatusInv, Ending
<1>9. CASE StartCompressor
  BY <1>9 DEF Ending, StatusInv, StartCompressor, StartWorker, Continue
<1>10. CASE NoteCompressor
  BY <1>10 DEF Ending, StatusInv, NoteCompressor, NotePids
<1>11. CASE StartInterpreter
  BY <1>11 DEF Ending, StatusInv, StartInterpreter, StartWorker, Continue
<1>12. CASE NoteInterpreter
  BY <1>12 DEF Ending, StatusInv, NoteInterpreter, NotePids
<1>13. CASE TrapCleanup
  BY <1>13 DEF Ending, StatusInv, TrapCleanup, InstallTrap
<1>14. CASE StartApplication
  BY <1>14 DEF Ending, StatusInv, StartApplication, Continue
<1>15. CASE ForegroundEnds
  <2>1. TypeOK  BY DEF IInv
  <2>2. TakeStatus(app = "crashed") /\ app' = app /\ cmd' = cmd
    BY <1>15 DEF ForegroundEnds, processes
  <2>3. ~ Attached => app \in {"ended", "crashed"}
    BY <1>15 DEF ForegroundEnds, IInv, TypeOK, AppInv, Application, AppAlive, Apps
  <2>4. pc' = "debug_ready" /\ (sh'.EXIT_CODE = 0 => app # "crashed")
    BY <2>1, <2>2, StatusTaken
  <2> QED
    BY <2>2, <2>3, <2>4 DEF StatusInv, Attached
<1>16. CASE NoteApplication
  BY <1>16 DEF Ending, StatusInv, NoteApplication
<1>17. CASE PollReady
  BY <1>17 DEF Ending, StatusInv, PollReady, At, Continue
<1>18. CASE CheckReady
  <2>1. TypeOK  BY DEF IInv
  <2>2. pc' = "wait_application" \/ TakeStatus(TRUE)
    BY <1>18 DEF CheckReady, Continue
  <2>3. pc' = "wait_application" \/ (pc' = "debug_ready" /\ sh'.EXIT_CODE # 0)
    BY <2>1, <2>2, StatusTaken
  <2> QED
    BY <2>3 DEF StatusInv, Ending
<1>19. CASE WaitApplication
  <2>1. TypeOK  BY DEF IInv
  <2>2. TakeStatus(app = "crashed") /\ app' = app /\ cmd' = cmd
    BY <1>19 DEF WaitApplication, processes
  <2>3. ~ Attached => app \in {"ended", "crashed"}
    BY <1>19 DEF WaitApplication, At, IInv, TypeOK, AppInv, Application, AppAlive, Apps
  <2>4. pc' = "debug_ready" /\ (sh'.EXIT_CODE = 0 => app # "crashed")
    BY <2>1, <2>2, StatusTaken
  <2> QED
    BY <2>2, <2>3, <2>4 DEF StatusInv, Attached
<1>20. CASE Inject
  BY ZenonT(60), <1>20
  DEF IInv, TypeOK, script, processes, Shells, Signals, Before, SetUp, Application, Ending,
      Places, WorkerInv, StatusInv, AppInv, ScriptInv, Attached, AllStarted,
      InterpreterStarted, CompressorStarted, AppAlive, Apps, Alive, Workers, States,
      BeforeCompressor, Inject, At, Continue, TakeStatus
<1>21. CASE InjectionEnds
  BY <1>21 DEF IInv, StatusInv, ScriptInv, Attached, InjectionEnds, TakeStatus
<1>22. CASE CheckDebugReady
  <2>1. TypeOK  BY DEF IInv
  <2>2. /\ pc = "debug_ready" /\ pc' = "wait_interpreter" /\ cmd' = cmd /\ app' = app
    BY <1>22, <2>1 DEF CheckDebugReady, At
  <2>4. sh'.EXIT_CODE \in {sh.EXIT_CODE, 1}
    BY <1>22, <2>1 DEF CheckDebugReady, TypeOK, Shells
  <2>3. sh'.EXIT_CODE = 0 => sh.EXIT_CODE = 0
    BY <2>4
  <2> QED
    BY <2>2, <2>3 DEF IInv, StatusInv, Ending, Attached
<1>23. CASE WaitInterpreter
  <2>1. /\ pc = "wait_interpreter" /\ pc' = "wait_compressor" /\ app' = app
        /\ cmd' = cmd /\ worker' = worker
        /\ "interpreter" \in sh.background_pids => ~ Alive("interpreter")
        /\ sh'.EXIT_CODE = sh.EXIT_CODE
    BY <1>23 DEF WaitInterpreter, WaitWorker, At, processes
  <2>4. ASSUME "interpreter" \in sh.background_pids, worker["interpreter"] = "failed"
        PROVE  sh'.background_exit_code # 0
    <3>1. sh'.background_exit_code = 1
      BY <1>23, <2>4 DEF WaitInterpreter, WaitWorker
    <3> QED  BY <3>1
  <2>2. /\ ~ cmd.raw => "interpreter" \in sh.background_pids
        /\ ~ cmd.raw => worker["interpreter"] # "none"
    BY <2>1 DEF IInv, ScriptInv, WorkerInv, InterpreterStarted, AllStarted, Ending, Workers
  <2>3. worker["interpreter"] \in States
    BY DEF IInv, TypeOK, Workers
  <2> QED
    BY <2>1, <2>2, <2>3, <2>4 DEF IInv, StatusInv, Attached, Ending, Alive, States
<1>24. CASE WaitCompressor
  <2>1. /\ pc = "wait_compressor" /\ pc' = "sum" /\ app' = app /\ cmd' = cmd /\ worker' = worker
        /\ "compressor" \in sh.background_pids => ~ Alive("compressor")
        /\ sh'.EXIT_CODE = sh.EXIT_CODE
    BY <1>24 DEF WaitCompressor, WaitWorker, At, processes
  <2>4. ASSUME "compressor" \in sh.background_pids, worker["compressor"] = "failed"
        PROVE  sh'.background_exit_code # 0
    <3>1. sh'.background_exit_code = 1
      BY <1>24, <2>4 DEF WaitCompressor, WaitWorker
    <3> QED  BY <3>1
  <2>5. sh'.background_exit_code = 0 => sh.background_exit_code = 0
    <3>1. sh'.background_exit_code \in {sh.background_exit_code, 1}
      BY <1>24 DEF WaitCompressor, WaitWorker
    <3> QED  BY <3>1
  <2>2. "compressor" \in sh.background_pids /\ worker["compressor"] # "none"
    BY <2>1
    DEF IInv, ScriptInv, WorkerInv, CompressorStarted, InterpreterStarted, AllStarted, Ending,
        Workers
  <2>3. worker["compressor"] \in States
    BY DEF IInv, TypeOK, Workers
  <2> QED
    BY <2>1, <2>2, <2>3, <2>4, <2>5 DEF IInv, StatusInv, Attached, Ending, Alive, States
<1>25. CASE SumUp
  BY <1>25 DEF IInv, processes, Ending, StatusInv, Attached, SumUp, At, Status
<1>26. CASE Exit
  <2>1. TypeOK /\ ScriptInv  BY DEF IInv
  <2>2. pc = "exit" /\ pc' = "done" /\ sh' = sh /\ cmd' = cmd
    BY <1>26 DEF Exit, At, Continue
  <2>3. CASE sh.trap = "none"
    BY <1>26, <2>2, <2>3 DEF Exit, IInv, StatusInv, Attached
  <2>4. CASE sh.trap # "none"
    <3>1. RunTrap  BY <1>26, <2>4 DEF Exit
    <3> QED
      BY <2>1, <2>2, <3>1, Trapped, Killed
      DEF IInv, StatusInv, Attached, Alive, AppAlive, Workers
  <2> QED
    BY <2>3, <2>4
<1>27. CASE HandleSignal
  <2>1. TypeOK /\ ScriptInv  BY DEF IInv
  <2>2. CleanupRuntime  BY <1>27, <2>1, HandleEffect, Trapped
  <2> QED
    BY <1>27, <2>1, <2>2, HandleEffect, Trapped, Killed
    DEF IInv, StatusInv, Attached, Ending, Alive, AppAlive, Workers
<1>28. CASE DieOfSignal
  BY <1>28 DEF Ending, StatusInv, DieOfSignal, Continue
<1>29. CASE Load
  BY <1>29 DEF IInv, script, StatusInv, Attached, Load
<1>30. CASE OpenData
  BY <1>30 DEF IInv, script, StatusInv, Attached, OpenData
<1>31. CASE OpenInterpreted
  BY <1>31 DEF IInv, script, StatusInv, Attached, OpenInterpreted
<1>32. CASE ReportReady
  BY <1>32 DEF IInv, script, StatusInv, Attached, ReportReady
<1>33. CASE Write
  BY <1>33 DEF IInv, script, StatusInv, Attached, Write
<1>34. CASE ApplicationEnds
  BY <1>34 DEF IInv, script, StatusInv, Attached, AppAlive, ApplicationEnds
<1>35. CASE Signal
  BY <1>35 DEF IInv, processes, StatusInv, Attached, Signal
<1>36. ASSUME NEW w \in Workers, Work(w) PROVE StatusInv'
  BY <1>36 DEF IInv, script, WorkerInv, StatusInv, Attached, Work
<1>37. ASSUME NEW w \in Workers, WorkerEnds(w) PROVE StatusInv'
  BY <1>37 DEF IInv, script, StatusInv, Attached, WorkerEnds
<1>38. ASSUME NEW w \in Workers, WorkerFails(w) PROVE StatusInv'
  BY <1>38 DEF IInv, script, StatusInv, Attached, WorkerFails
<1>39. CASE UNCHANGED vars
  BY <1>39 DEF IInv, script, processes, StatusInv, Attached, vars
<1> QED
  BY <1>1, <1>2, <1>3, <1>4, <1>5, <1>6, <1>7, <1>8, <1>9, <1>10, <1>11, <1>12, <1>13, <1>14,
     <1>15, <1>16, <1>17, <1>18, <1>19, <1>20, <1>21, <1>22, <1>23, <1>24, <1>25, <1>26,
     <1>27, <1>28, <1>29, <1>30, <1>31, <1>32, <1>33, <1>34, <1>35, <1>36, <1>37, <1>38, <1>39
  DEF Next, Script

\* Every step keeps the rule of what is left behind.
LEMMA CleanStep ==
    ASSUME IInv, [Next]_vars
    PROVE  CleanInv'
<1>1. CASE ParseArguments
  BY <1>1
  DEF IInv, processes, Before, CleanInv, NothingLeftBehind, Attached, Alive, Handled,
      ParseArguments, At, Continue, Fail
<1>2. CASE CheckInstallation
  BY <1>2
  DEF IInv, processes, Before, CleanInv, NothingLeftBehind, Attached, Alive, Handled,
      CheckInstallation, At, Continue, Fail
<1>3. CASE MakeRuntimeDir
  <2>1. /\ pc = "mktemp" /\ cmd' = cmd /\ sig' = sig
        /\ app' = app /\ worker' = worker /\ reported' = reported
        /\ \/ fs' = {"dir"} /\ pc' = "trap_runtime"
           \/ fs' = fs /\ pc' = "exit"
        /\ sh'.trap = sh.trap
    BY <1>3 DEF MakeRuntimeDir, At, Continue, Fail, processes, IInv, TypeOK, Shells
  <2>2. ~ Handled /\ sh.trap = "none" /\ fs = {} /\ ~ reported
    BY <2>1 DEF IInv, ScriptInv, CleanInv, Before
  <2> QED
    BY <2>1, <2>2 DEF CleanInv, NothingLeftBehind, Handled
<1>4. CASE TrapRuntime
  BY <1>4
  DEF IInv, processes, Before, CleanInv, NothingLeftBehind, Attached, Alive, Handled,
      TrapRuntime, InstallTrap, At
<1>5. CASE MakeDataFifo
  BY <1>5
  DEF IInv, TypeOK, processes, Shells, Before, Places, ScriptInv, CleanInv, NothingLeftBehind,
      Attached, Alive, Handled, Darwin, MakeDataFifo, Create, At, Continue, Fail
<1>6. CASE MakeReadyFile
  BY <1>6
  DEF IInv, TypeOK, processes, Shells, Before, Places, ScriptInv, CleanInv, NothingLeftBehind,
      Attached, Alive, Handled, Darwin, MakeReadyFile, Create, At, Continue, Fail
<1>7. CASE GiveToUser
  BY <1>7
  DEF IInv, TypeOK, processes, Shells, Before, Places, ScriptInv, CleanInv, NothingLeftBehind,
      Attached, Alive, Handled, Darwin, GiveToUser, At, Continue, Fail
<1>8. CASE MakeInterpretedFifo
  BY <1>8
  DEF IInv, TypeOK, processes, Shells, Before, Places, ScriptInv, CleanInv, NothingLeftBehind,
      Attached, Alive, Handled, Darwin, MakeInterpretedFifo, Create, At, Continue, Fail
<1>9. CASE StartCompressor
  BY <1>9
  DEF IInv, Before, CleanInv, NothingLeftBehind, Attached, Alive, Handled, Darwin,
      StartCompressor, StartWorker, Continue
<1>10. CASE NoteCompressor
  BY <1>10
  DEF IInv, processes, Before, CleanInv, NothingLeftBehind, Attached, Alive, Handled, Darwin,
      NoteCompressor, NotePids
<1>11. CASE StartInterpreter
  BY <1>11
  DEF IInv, Before, CleanInv, NothingLeftBehind, Attached, Alive, Handled, Darwin,
      StartInterpreter, StartWorker, Continue
<1>12. CASE NoteInterpreter
  BY <1>12
  DEF IInv, processes, Before, CleanInv, NothingLeftBehind, Attached, Alive, Handled, Darwin,
      NoteInterpreter, NotePids
<1>13. CASE TrapCleanup
  BY <1>13
  DEF IInv, processes, Before, CleanInv, NothingLeftBehind, Attached, Alive, Handled, Darwin,
      TrapCleanup, InstallTrap
<1>14. CASE StartApplication
  BY <1>14
  DEF IInv, Before, CleanInv, NothingLeftBehind, Alive, Handled, Darwin, StartApplication,
      Continue
<1>15. CASE ForegroundEnds
  BY <1>15
  DEF IInv, processes, Before, CleanInv, NothingLeftBehind, AppAlive, Alive, Handled, Darwin,
      ForegroundEnds, TakeStatus
<1>16. CASE NoteApplication
  BY <1>16
  DEF IInv, processes, Before, CleanInv, NothingLeftBehind, Attached, Alive, Handled, Darwin,
      NoteApplication
<1>17. CASE PollReady
  BY <1>17
  DEF IInv, processes, Before, CleanInv, NothingLeftBehind, Attached, Alive, Handled, Darwin,
      PollReady, At, Continue
<1>18. CASE CheckReady
  <2>1. TypeOK  BY DEF IInv
  <2>2. /\ pc = "ready_check" /\ pc' \in {"wait_application", "debug_ready"} /\ cmd' = cmd /\ sig' = sig
        /\ reported' = reported /\ app' \in {app, "crashed"}
    BY <1>18 DEF CheckReady, At, Continue, TakeStatus
  <2>3. fs' = {} \/ fs' = fs
    BY <1>18 DEF CheckReady, CleanupRuntime
  <2>4. \A w \in Workers : Alive(w)' => Alive(w)
    BY <1>18, <2>1, Killed DEF CheckReady, Alive
  <2> QED
    BY <2>2, <2>3, <2>4 DEF CleanInv, IInv, NothingLeftBehind, Attached, Handled, Darwin, Before
<1>19. CASE WaitApplication
  BY <1>19
  DEF IInv, processes, Before, CleanInv, NothingLeftBehind, AppAlive, Alive, Handled, Darwin,
      WaitApplication, TakeStatus
<1>20. CASE Inject
  BY ZenonT(60), <1>20
  DEF IInv, TypeOK, script, processes, Shells, Signals, Before, SetUp, Application, Ending,
      Places, WorkerInv, AppInv, ScriptInv, CleanInv, NothingLeftBehind, Attached, AllStarted,
      InterpreterStarted, CompressorStarted, AppAlive, Apps, Alive, Workers, States,
      BeforeCompressor, Handled, CommandLine, Darwin, Paths, Inject, At, Continue, TakeStatus
<1>21. CASE InjectionEnds
  BY <1>21
  DEF IInv, processes, Before, CleanInv, NothingLeftBehind, Attached, Alive, Handled, Darwin,
      InjectionEnds, TakeStatus
<1>22. CASE CheckDebugReady
  <2>1. TypeOK  BY DEF IInv
  <2>2. /\ pc = "debug_ready" /\ pc' = "wait_interpreter" /\ cmd' = cmd
        /\ sig' = sig /\ app' = app /\ reported' = reported
    BY <1>22 DEF CheckDebugReady, At
  <2>3. fs' = {} \/ fs' = fs
    BY <1>22 DEF CheckDebugReady, CleanupRuntime
  <2>4. \A w \in Workers : Alive(w)' => Alive(w)
    BY <1>22, <2>1, Killed DEF CheckDebugReady, Alive
  <2> QED
    BY <2>2, <2>3, <2>4 DEF CleanInv, IInv, NothingLeftBehind, Attached, Handled, Darwin, Before
<1>23. CASE WaitInterpreter
  BY <1>23
  DEF IInv, processes, Before, CleanInv, NothingLeftBehind, Attached, Alive, Handled, Darwin,
      WaitInterpreter, WaitWorker
<1>24. CASE WaitCompressor
  BY <1>24
  DEF IInv, processes, Before, CleanInv, NothingLeftBehind, Attached, Alive, Handled, Darwin,
      WaitCompressor, WaitWorker
<1>25. CASE SumUp
  BY <1>25
  DEF IInv, CleanInv, NothingLeftBehind, SumUp, At, ScriptInv, Attached, Handled, Alive,
      Darwin, Before, Ending, processes
<1>26. CASE Exit
  <2>1. TypeOK /\ ScriptInv  BY DEF IInv
  <2>2. pc = "exit" /\ pc' = "done" /\ sh' = sh /\ cmd' = cmd /\ sig' = sig /\ reported' = reported
    BY <1>26 DEF Exit, At, Continue
  <2>3. \A w \in Workers : ~ Alive(w)
    BY <2>2 DEF IInv, WorkerInv, Workers
  <2>4. ~ Attached => ~ AppAlive
    BY <2>2 DEF IInv, AppInv
  <2>5. CASE sh.trap = "none"
    <3>1. fs' = fs /\ app' = app /\ worker' = worker  BY <1>26, <2>5 DEF Exit
    <3>2. sig.handledAt \notin SetUp => fs = {} /\ app # "recording"
      BY <2>2, <2>4, <2>5 DEF IInv, CleanInv, AppInv, AppAlive
    <3> QED
      BY <2>2, <2>3, <2>4, <3>1, <3>2
      DEF IInv, CleanInv, NothingLeftBehind, Attached, AppAlive, Alive, Before, Darwin
  <2>6. CASE sh.trap # "none"
    <3>1. RunTrap /\ CleanupRuntime  BY <1>26, <2>1, <2>6, Trapped DEF Exit
    <3>2. fs' = {} /\ \A w \in Workers : ~ Alive(w)'
      BY <2>1, <2>3, <3>1, Killed DEF Alive
    <3>3. ~ Attached => app' = app
      BY <2>1, <2>4, <3>1, Trapped DEF Attached
    <3>4. Attached /\ sig.handledAt \notin SetUp => app' # "recording"
      <4>1. Attached /\ sig.handledAt \notin SetUp /\ sh.trap # "cleanup" => app # "recording"
        BY DEF IInv, CleanInv, AppInv
      <4> QED  BY <2>1, <3>1, <4>1, Trapped DEF Attached
    <3> QED
      BY <2>2, <2>4, <3>2, <3>3, <3>4
      DEF IInv, CleanInv, NothingLeftBehind, Attached, AppAlive, Before, Darwin
  <2> QED  BY <2>5, <2>6
<1>27. CASE HandleSignal
  <2>1. TypeOK /\ ScriptInv /\ RunTrap  BY <1>27, HandleEffect DEF IInv
  <2>2. CleanupRuntime  BY <2>1, Trapped
  <2>3. fs' = {} /\ reported' = reported /\ cmd' = cmd
    BY <1>27, <2>1, <2>2, HandleEffect, Killed
  <2>4. pc \notin Before /\ pc' \notin Before /\ pc' # "done"
    BY <1>27, <2>1, HandleEffect DEF ScriptInv, Before
  <2>5. ASSUME Handled', sig'.handledAt \notin SetUp
        PROVE  (\A w \in Workers : ~ Alive(w)') /\ (Attached' => app' # "recording")
    <3>1. CASE Handled
      <4>1. sig.handledAt \notin SetUp  BY <1>27, <2>1, <2>5, <3>1, HandleEffect DEF Handled
      <4>2. (\A w \in Workers : ~ Alive(w)) /\ (Attached => app # "recording")
        BY <3>1, <4>1 DEF IInv, CleanInv
      <4> QED
        BY <2>1, <2>2, <2>3, <4>2, Killed, Trapped DEF Alive, Attached
    <3>2. CASE ~ Handled
      <4>1. pc \notin SetUp /\ sh.trap # "none"
        BY <1>27, <2>1, <2>5, <3>2, HandleEffect
        DEF Handled
      <4>2. pc \in Application \cup Ending \cup {"exit"}
        BY <1>27, <2>1, <2>4, <4>1, HandleEffect DEF TypeOK, ScriptInv, Places
      <4>3. CASE pc \in Application \cup Ending
        <5>1. sh.trap = "cleanup" /\ sh.background_pids = IF cmd.raw THEN {"compressor"} ELSE Workers
          BY <2>1, <4>1, <4>3 DEF ScriptInv, AllStarted
        <5>2. cmd.raw => worker["interpreter"] = "none"
          BY DEF IInv, WorkerInv
        <5> QED
          BY <2>1, <2>2, <2>3, <5>1, <5>2, Killed, Trapped DEF Alive, Attached, Workers
      <4>4. CASE pc = "exit"
        <5>1. \A w \in Workers : ~ Alive(w)
          BY <4>4 DEF IInv, WorkerInv, Workers
        <5>2. Attached /\ sh.trap # "cleanup" => app # "recording"
          BY <3>2 DEF IInv, AppInv
        <5> QED
          BY <2>1, <2>2, <2>3, <5>1, <5>2, Killed, Trapped DEF Alive, Attached
      <4> QED  BY <4>2, <4>3, <4>4
    <3> QED  BY <3>1, <3>2
  <2>6. ~ (pc' = "exit" /\ sh'.trap = "none" /\ ~ Handled')
    BY <1>27, <2>1, HandleEffect DEF Handled
  <2> QED
    BY <2>3, <2>4, <2>5, <2>6 DEF IInv, CleanInv, NothingLeftBehind, Darwin
<1>28. CASE DieOfSignal
  BY <1>28
  DEF IInv, CleanInv, NothingLeftBehind, DieOfSignal, Continue, Attached, Handled, Alive,
      Darwin, Before, processes
<1>29. CASE Load
  BY <1>29 DEF IInv, script, CleanInv, NothingLeftBehind, AppAlive, Alive, Handled, Darwin, Load
<1>30. CASE OpenData
  <2>1. /\ cmd' = cmd /\ pc' = pc /\ sh' = sh /\ sig' = sig
        /\ fs' = fs /\ reported' = reported /\ app' = "recording"
    BY <1>30 DEF OpenData, script
  <2>2. Reader \in Workers /\ Alive(Reader)
    BY <1>30 DEF OpenData, Reader, Workers, Alive
  <2>3. pc # "done"
    BY <2>2 DEF IInv, WorkerInv, Reader
  <2>4. Handled => sig.handledAt \in SetUp
    BY <2>2 DEF IInv, CleanInv
  <2> QED
    BY <2>1, <2>3, <2>4 DEF CleanInv, IInv, NothingLeftBehind, Handled, Darwin
<1>31. CASE OpenInterpreted
  BY <1>31
  DEF IInv, script, CleanInv, NothingLeftBehind, Alive, Workers, Handled, Darwin,
      OpenInterpreted
<1>32. CASE ReportReady
  BY <1>32 DEF IInv, script, CleanInv, NothingLeftBehind, Handled, Darwin, ReportReady
<1>33. CASE Write
  BY <1>33
  DEF IInv, script, CleanInv, NothingLeftBehind, Attached, Handled, Alive, Darwin, Write
<1>34. CASE ApplicationEnds
  BY <1>34
  DEF IInv, script, CleanInv, NothingLeftBehind, ApplicationEnds, Handled, Alive, Darwin
<1>35. CASE Signal
  BY <1>35
  DEF IInv, CleanInv, NothingLeftBehind, Signal, Attached, Handled, Alive, Darwin, processes
<1>36. ASSUME NEW w \in Workers, Work(w) PROVE CleanInv'
  BY <1>36 DEF IInv, script, CleanInv, NothingLeftBehind, Handled, Alive, Darwin, Work
<1>37. ASSUME NEW w \in Workers, WorkerEnds(w) PROVE CleanInv'
  BY <1>37 DEF IInv, script, CleanInv, NothingLeftBehind, WorkerEnds, Handled, Alive, Darwin
<1>38. ASSUME NEW w \in Workers, WorkerFails(w) PROVE CleanInv'
  BY <1>38 DEF IInv, script, CleanInv, NothingLeftBehind, Handled, Alive, Darwin, WorkerFails
<1>39. CASE UNCHANGED vars
  BY <1>39
  DEF IInv, CleanInv, NothingLeftBehind, Attached, Handled, Alive, AppAlive, Darwin, vars,
      script, processes
<1> QED
  BY <1>1, <1>2, <1>3, <1>4, <1>5, <1>6, <1>7, <1>8, <1>9, <1>10, <1>11, <1>12, <1>13, <1>14,
     <1>15, <1>16, <1>17, <1>18, <1>19, <1>20, <1>21, <1>22, <1>23, <1>24, <1>25, <1>26,
     <1>27, <1>28, <1>29, <1>30, <1>31, <1>32, <1>33, <1>34, <1>35, <1>36, <1>37, <1>38, <1>39
  DEF Next, Script

-----------------------------------------------------------------------------
(* The invariant.                                                          *)

\* At the start nothing has been started.
LEMMA InitInv == Init => IInv
<1> SUFFICES ASSUME Init PROVE IInv
  OBVIOUS
<1>1. cmd \in CommandLine
  BY CommandsAssumption DEF Init
<1>2. TypeOK
  BY <1>1 DEF Init, TypeOK, Places, Before, Shells, Signals, Apps, States, Fifos
<1>3. ScriptInv
  BY DEF Init, ScriptInv, Handled, SetUp, Application, Ending, AllStarted
<1>4. WorkerInv
  BY DEF Init, WorkerInv, Workers, Application, Ending, AllStarted, InterpreterStarted,
         CompressorStarted
<1>5. AppInv
  BY DEF Init, AppInv, Attached, Application, Ending
<1>6. FlowInv
  BY DEF Init, FlowInv, Reader, Workers
<1>7. StatusInv
  BY DEF Init, StatusInv, Ending
<1>8. CleanInv
  BY DEF Init, CleanInv, NothingLeftBehind, Handled
<1> QED
  BY <1>2, <1>3, <1>4, <1>5, <1>6, <1>7, <1>8 DEF IInv

\* The inductive invariant holds for any command line and any numbers of records,
\* signals and faults.
THEOREM Invariance == Spec => []IInv
<1>1. Init => IInv
  BY InitInv
<1>2. IInv /\ [Next]_vars => IInv'
  <2> SUFFICES ASSUME IInv, [Next]_vars PROVE IInv'
    OBVIOUS
  <2>1. TypeOK /\ WorkerInv
    BY DEF IInv
  <2> QED
    BY <2>1, TypeStep, ScriptStep, WorkerStep, AppStep, FlowStep, StatusStep, CleanStep DEF IInv
<1> QED
  BY <1>1, <1>2, PTL DEF Spec

-----------------------------------------------------------------------------
(* The properties.                                                         *)

\* A status of 0 says that all the application has recorded is in a complete file,
\* whatever was killed, failed or was interrupted.
THEOREM StatusCanBeTrusted == Spec => []ExitZeroIsComplete
<1>1. IInv => ExitZeroIsComplete
  <2> SUFFICES ASSUME IInv, pc = "done", sh.EXIT_CODE = 0 PROVE ExitZeroIsComplete
    BY DEF ExitZeroIsComplete
  <2>1. /\ worker["compressor"] = "ended" /\ (cmd.raw \/ worker["interpreter"] = "ended")
        /\ cmd.mode # "attach" => app = "ended"
    BY DEF IInv, StatusInv, Attached
  <2>2. worker[Reader] = "ended"
    BY <2>1 DEF Reader
  <2>3. flow["written"] > 0 /\ flow["data"] = 0 /\ flow["interpreted"] = 0
    BY <2>1, <2>2 DEF IInv, FlowInv
  <2>4. flow["file"] = flow["written"]
    <3>1. flow["written"] = flow["data"] + flow["interpreted"] + flow["file"]
      BY DEF IInv, FlowInv
    <3>2. flow["file"] \in Nat
      BY DEF IInv, TypeOK, Fifos
    <3> QED
      BY <2>3, <3>1, <3>2
  <2> QED
    BY <2>1, <2>3, <2>4 DEF ExitZeroIsComplete
<1> QED
  BY Invariance, <1>1, PTL

\* Unless a signal came between the two traps, a launcher that is done leaves no
\* file, no background process and no recorder without a reader behind.
THEOREM CleansUp == Spec => []NothingLeftBehind
<1>1. IInv => NothingLeftBehind
  BY DEF IInv, CleanInv
<1> QED
  BY Invariance, <1>1, PTL

\* Without a signal the runtime directory is never taken away from an application
\* that records and has reported: neither by the timeout of the ready file nor by
\* the check of a debugged application.
THEOREM ReportIsSeen == Spec => ReportedIsNotGivenUp
<1> DEFINE Kept == reported /\ app = "recording" /\ fs # {} /\ fs' = {} => sig'.handledAt # "never"
<1>1. IInv /\ [Next]_vars => [Kept]_vars
  <2> SUFFICES ASSUME IInv, Next, reported, app = "recording", fs # {}, fs' = {}
               PROVE  sig'.handledAt # "never"
    OBVIOUS
  <2>1. Darwin /\ IsReady
    BY DEF IInv, CleanInv, IsReady
  <2>2. ~ CheckReady
    BY <2>1 DEF CheckReady, HasReported, Continue
  <2>3. ~ CheckDebugReady
    BY <2>1 DEF CheckDebugReady
  <2>4. ~ Exit
    <3>1. pc = "exit" => Attached
      BY DEF IInv, AppInv, AppAlive
    <3>2. pc = "exit" => sh.trap = "none"
      BY <2>1, <3>1 DEF IInv, ScriptInv
    <3> QED
      BY <3>2 DEF Exit, At
  <2>5. CASE HandleSignal
    <3>1. TypeOK
      BY DEF IInv
    <3>2. sig'.handledAt = IF sig.handledAt = "never" THEN pc ELSE sig.handledAt
      BY <2>5, <3>1, HandleEffect
    <3> QED
      BY <3>1, <3>2 DEF TypeOK, Places, Before, SetUp, Application, Ending
  <2>6. ~ MakeRuntimeDir
    BY DEF MakeRuntimeDir
  <2>7. ~ MakeDataFifo /\ ~ MakeReadyFile /\ ~ MakeInterpretedFifo
    BY DEF MakeDataFifo, MakeReadyFile, MakeInterpretedFifo, Create
  <2>8. ~ TrapRuntime /\ ~ TrapCleanup /\ ~ NoteCompressor /\ ~ NoteInterpreter
    BY DEF TrapRuntime, TrapCleanup, InstallTrap, NoteCompressor, NoteInterpreter, NotePids
  <2>9. ~ StartCompressor /\ ~ StartInterpreter /\ ~ WaitInterpreter /\ ~ WaitCompressor
    BY DEF StartCompressor, StartInterpreter, StartWorker, WaitInterpreter, WaitCompressor,
           WaitWorker
  <2>10. ~ ParseArguments /\ ~ CheckInstallation /\ ~ GiveToUser /\ ~ StartApplication
    BY DEF ParseArguments, CheckInstallation, GiveToUser, StartApplication
  <2>11. ~ ForegroundEnds /\ ~ NoteApplication /\ ~ PollReady /\ ~ WaitApplication
    BY DEF ForegroundEnds, NoteApplication, PollReady, WaitApplication
  <2>12. ~ Inject /\ ~ InjectionEnds /\ ~ SumUp /\ ~ DieOfSignal /\ ~ Signal
    BY DEF Inject, InjectionEnds, SumUp, DieOfSignal, Signal
  <2>13. ~ Load /\ ~ OpenData /\ ~ OpenInterpreted /\ ~ ReportReady /\ ~ Write /\ ~ ApplicationEnds
    BY DEF Load, OpenData, OpenInterpreted, ReportReady, Write, ApplicationEnds, script
  <2>14. ASSUME NEW w \in Workers PROVE ~ Work(w) /\ ~ WorkerEnds(w) /\ ~ WorkerFails(w)
    BY DEF Work, WorkerEnds, WorkerFails, script
  <2> QED
    BY <2>2, <2>3, <2>4, <2>5, <2>6, <2>7, <2>8, <2>9, <2>10, <2>11, <2>12, <2>13, <2>14
    DEF Next, Script
<1> QED
  BY Invariance, <1>1, PTL DEF ReportedIsNotGivenUp, Spec
=============================================================================
