------------------------------ MODULE Launcher ------------------------------
(***************************************************************************)
(* The launcher, track/heaptrack.sh.cmake: a shell script that creates a   *)
(* private FIFO, starts the interpreter and the compressor behind it, runs *)
(* the application (or debugs it, or attaches to it) with the recorder     *)
(* writing into the FIFO, waits and cleans up.  INT and TERM arrive at any *)
(* time; the shell runs the installed trap between two commands, or in the *)
(* middle of a "wait", and then goes on where it was.                      *)
(*                                                                         *)
(* A record stands for a buffer the recorder flushes; the first one is     *)
(* written when the FIFO is opened.  A killed process (SIGTERM) is dead.   *)
(***************************************************************************)
EXTENDS Naturals, FiniteSets

CONSTANTS
    Commands,       \* the command lines, of CommandLine
    MaxAttempts,    \* polls of the ready file before the launcher gives up
    MaxRecords,     \* bound: records one application writes
    MaxSignals,     \* bound: signals sent to the launcher
    MaxFaults       \* bound: background processes that fail on their own

Workers == {"interpreter", "compressor"}

\* loads: the dynamic loader takes the recorder into the application (it does
\* not for a static or a protected executable); gdb: gdb is installed.
CommandLine ==
    [platform : {"Linux", "Darwin"}, mode : {"run", "debug", "attach"},
     raw : BOOLEAN, loads : BOOLEAN, gdb : BOOLEAN]

ASSUME CommandsAssumption == Commands \subseteq CommandLine
ASSUME BoundsAssumption == {MaxAttempts, MaxRecords, MaxSignals, MaxFaults} \subseteq Nat

VARIABLES
    cmd,        \* the command line
    pc,         \* the next command of the script
    sh,         \* the variables of the shell and the installed trap
    sig,        \* signals: one is pending, how many were sent, and the command
                \* before which the first trap ran
    fs,         \* the paths in the runtime directory; "dir" is itself
    app,        \* the application
    worker,     \* the background processes
    reported,   \* the ready file has a byte
    flow,       \* records: written, in the two FIFOs, in the output file
    faults      \* background processes that failed

script == <<cmd, pc, sh, sig, fs>>
processes == <<app, worker, reported, flow, faults>>
vars == <<script, processes>>

Linux == cmd.platform = "Linux"
Darwin == cmd.platform = "Darwin"
\* The process that reads the FIFO the recorder writes to.
Reader == IF cmd.raw THEN "compressor" ELSE "interpreter"

Alive(w) == worker[w] \in {"opening", "opening_output", "running"}
AppAlive == app \in {"started", "opening", "recording", "plain"}
\* [ -s "$ready_file" ]
IsReady == "ready" \in fs /\ reported

\* The commands between the first trap and the second one.
SetUp == {"mkfifo", "ready_file", "chown", "interpreted", "compressor", "compressor_pid",
          "interpreter", "interpreter_pid", "trap_cleanup"}

Init ==
    /\ cmd \in Commands /\ pc = "arguments"
    /\ sh = [trap |-> "none", background_pids |-> {}, application_pid |-> FALSE,
             ready_attempts |-> 0, EXIT_CODE |-> 0, background_exit_code |-> 0]
    /\ sig = [pending |-> FALSE, sent |-> 0, handledAt |-> "never"]
    /\ fs = {}
    /\ app = IF cmd.mode = "attach" THEN "plain" ELSE "none"
    /\ worker = [w \in Workers |-> "none"]
    /\ reported = FALSE /\ faults = 0
    /\ flow = [x \in {"written", "data", "interpreted", "file"} |-> 0]

-----------------------------------------------------------------------------
(* The commands of the script. *)

\* A command runs when no trap has to run first.
At(command) == pc = command /\ ~ sig.pending

Continue(next) == pc' = next /\ UNCHANGED sh
\* exit 1
Fail == pc' = "exit" /\ sh' = [sh EXCEPT !.EXIT_CODE = 1]

\* Options that the platform or a missing debugger rules out end the script
\* before anything exists.
ParseArguments ==
    /\ At("arguments")
    /\ IF (Darwin /\ cmd.mode = "attach") \/ (cmd.mode # "run" /\ ~ cmd.gdb)
       THEN Fail ELSE Continue("checks")
    /\ UNCHANGED <<cmd, sig, fs, processes>>

\* The environment checker and the libraries to preload or inject are there.
CheckInstallation ==
    /\ At("checks")
    /\ Fail \/ Continue("mktemp")
    /\ UNCHANGED <<cmd, sig, fs, processes>>

MakeRuntimeDir ==
    /\ At("mktemp")
    /\ \/ fs' = {"dir"} /\ Continue("trap_runtime")
       \/ Fail /\ UNCHANGED fs
    /\ UNCHANGED <<cmd, sig, processes>>

InstallTrap(command, trap, next) ==
    /\ At(command) /\ pc' = next
    /\ sh' = [sh EXCEPT !.trap = trap]
    /\ UNCHANGED <<cmd, sig, fs, processes>>

TrapRuntime == InstallTrap("trap_runtime", "runtime", "mkfifo")

\* Creating a path fails on its own or because a trap removed the directory.
Create(command, path, next) ==
    /\ At(command)
    /\ \/ "dir" \in fs /\ fs' = fs \cup {path} /\ Continue(next)
       \/ Fail /\ UNCHANGED fs
    /\ UNCHANGED <<cmd, sig, processes>>

MakeDataFifo == Create("mkfifo", "data", IF Darwin THEN "ready_file" ELSE "chown")
MakeReadyFile == Create("ready_file", "ready", "chown")

\* The user of an attached process gets the FIFO; that process may be gone.
GiveToUser ==
    /\ At("chown")
    /\ \/ /\ cmd.mode = "attach" => {"dir", "data"} \subseteq fs
          /\ Continue(IF cmd.raw THEN "compressor" ELSE "interpreted")
       \/ cmd.mode = "attach" /\ Fail
    /\ UNCHANGED <<cmd, sig, fs, processes>>

MakeInterpretedFifo == Create("interpreted", "interpreted", "compressor")

\* worker < path &: the child waits in the redirection for a writer, or fails
\* because the path is gone.
StartWorker(w, path, next) ==
    /\ At(w) /\ Continue(next)
    /\ worker' = [worker EXCEPT ![w] = IF path \in fs THEN "opening" ELSE "failed"]
    /\ UNCHANGED <<cmd, sig, fs, app, reported, flow, faults>>

StartCompressor ==
    StartWorker("compressor", IF cmd.raw THEN "data" ELSE "interpreted", "compressor_pid")
StartInterpreter == StartWorker("interpreter", "data", "interpreter_pid")

\* background_pids=...; a trap may run before it.
NotePids(command, pids, next) ==
    /\ At(command) /\ pc' = next
    /\ sh' = [sh EXCEPT !.background_pids = pids]
    /\ UNCHANGED <<cmd, sig, fs, processes>>

NoteCompressor ==
    NotePids("compressor_pid", {"compressor"}, IF cmd.raw THEN "trap_cleanup" ELSE "interpreter")

\* Mutation of NoteInterpreter: background_pids="$interpreter_pid".
NoteInterpreterAlone == NotePids("interpreter_pid", {"interpreter"}, "trap_cleanup")

NoteInterpreter == NotePids("interpreter_pid", {"interpreter", "compressor"}, "trap_cleanup")

TrapCleanup ==
    InstallTrap("trap_cleanup", "cleanup", IF cmd.mode = "attach" THEN "inject" ELSE "start")

\* client "$@", in the foreground, under the debugger or (macOS) in the background.
StartApplication ==
    /\ At("start") /\ app' = "started"
    /\ Continue(IF Darwin /\ cmd.mode = "run" THEN "application_pid" ELSE "foreground")
    /\ UNCHANGED <<cmd, sig, fs, worker, reported, flow, faults>>

\* EXIT_CODE=$?
TakeStatus(failed) ==
    /\ sh' = [sh EXCEPT !.EXIT_CODE = IF failed THEN 1 ELSE 0, !.application_pid = FALSE]
    /\ pc' = "debug_ready"

\* No trap is run before a command in the foreground has ended.
ForegroundEnds ==
    /\ pc = "foreground" /\ ~ AppAlive
    /\ TakeStatus(app = "crashed")
    /\ UNCHANGED <<cmd, sig, fs, processes>>

NoteApplication ==
    /\ At("application_pid") /\ pc' = "ready_loop"
    /\ sh' = [sh EXCEPT !.application_pid = TRUE]
    /\ UNCHANGED <<cmd, sig, fs, processes>>

MayPoll == sh.ready_attempts < MaxAttempts

\* while [ ! -s ready ] && kill -0 application && [ attempts -lt 50 ]
PollReady ==
    /\ At("ready_loop")
    /\ IF ~ IsReady /\ AppAlive /\ MayPoll
       THEN sh' = [sh EXCEPT !.ready_attempts = @ + 1] /\ UNCHANGED pc
       ELSE Continue("ready_check")
    /\ UNCHANGED <<cmd, sig, fs, processes>>

\* cleanup_runtime: nothing it kills could look at a path again before it has
\* removed them all.
CleanupRuntime ==
    /\ worker' = [w \in Workers |->
           IF w \in sh.background_pids /\ Alive(w) THEN "failed" ELSE worker[w]]
    /\ fs' = {}

\* Mutations of HasReported: the number of attempts decides; nothing does.
HasReportedInTime == sh.ready_attempts < MaxAttempts
HasReportedAlways == TRUE
\* The file is looked at once more after the loop.
HasReported == IsReady

CheckReady ==
    /\ At("ready_check")
    /\ IF HasReported
       THEN Continue("wait_application") /\ UNCHANGED <<fs, app, worker>>
       ELSE /\ app' = IF AppAlive THEN "crashed" ELSE app
            /\ CleanupRuntime /\ TakeStatus(TRUE)
    /\ UNCHANGED <<cmd, sig, reported, flow, faults>>

WaitApplication ==
    /\ At("wait_application") /\ ~ AppAlive
    /\ TakeStatus(app = "crashed")
    /\ UNCHANGED <<cmd, sig, fs, processes>>

\* gdb ... heaptrack_inject(pipe): the process opens the FIFO, or the debugger
\* fails, which its exit status may not tell.
Inject ==
    /\ At("inject")
    /\ \/ app = "plain" /\ cmd.loads /\ "data" \in fs /\ app' = "opening" /\ Continue("injecting")
       \/ (\E failed \in BOOLEAN : TakeStatus(failed)) /\ UNCHANGED app
    /\ UNCHANGED <<cmd, sig, fs, worker, reported, flow, faults>>

InjectionEnds ==
    /\ pc = "injecting" /\ app # "opening"
    /\ TakeStatus(app \in {"ended", "crashed"})
    /\ UNCHANGED <<cmd, sig, fs, processes>>

\* Only a debugged application on macOS has not been checked yet.
CheckDebugReady ==
    /\ At("debug_ready") /\ pc' = "wait_interpreter"
    /\ IF Darwin /\ cmd.mode = "debug" /\ ~ IsReady
       THEN CleanupRuntime /\ sh' = [sh EXCEPT !.EXIT_CODE = 1]
       ELSE UNCHANGED <<fs, worker, sh>>
    /\ UNCHANGED <<cmd, sig, app, reported, flow, faults>>

\* wait "$background_pid"
WaitWorker(command, w, next) ==
    /\ At(command) /\ pc' = next
    /\ w \in sh.background_pids => ~ Alive(w)
    /\ sh' = IF w \in sh.background_pids /\ worker[w] = "failed"
             THEN [sh EXCEPT !.background_exit_code = 1] ELSE sh
    /\ UNCHANGED <<cmd, sig, fs, processes>>

WaitInterpreter == WaitWorker("wait_interpreter", "interpreter", "wait_compressor")
WaitCompressor == WaitWorker("wait_compressor", "compressor", "sum")

\* Mutation of Status: only the application's counts.
StatusOfApplication == sh.EXIT_CODE
Status == IF sh.EXIT_CODE = 0 THEN sh.background_exit_code ELSE sh.EXIT_CODE

SumUp ==
    /\ At("sum") /\ pc' = "exit"
    /\ sh' = [sh EXCEPT !.background_pids = {}, !.EXIT_CODE = Status]
    /\ UNCHANGED <<cmd, sig, fs, processes>>

-----------------------------------------------------------------------------
(* Traps. *)

\* What the installed trap does.  cleanup() stops the recorder in a process it
\* had attached to; both traps kill what was noted.
RunTrap ==
    /\ CleanupRuntime
    /\ app' = CASE sh.application_pid /\ AppAlive -> "crashed"
                [] sh.trap = "cleanup" /\ cmd.mode = "attach" /\ app = "recording" -> "plain"
                [] OTHER -> app

\* cleanup() resets the traps first.
TrapAfter == IF sh.trap = "cleanup" THEN "none" ELSE sh.trap

\* A trap interrupts wait, which then fails; otherwise the script goes on.
AfterTrap ==
    CASE pc = "wait_application" ->
           /\ pc' = "debug_ready"
           /\ sh' = [sh EXCEPT !.trap = TrapAfter, !.EXIT_CODE = 1, !.application_pid = FALSE]
      [] pc \in {"wait_interpreter", "wait_compressor"} ->
           /\ pc' = IF pc = "wait_interpreter" THEN "wait_compressor" ELSE "sum"
           /\ sh' = [sh EXCEPT !.trap = TrapAfter, !.background_exit_code = 1]
      [] OTHER -> UNCHANGED pc /\ sh' = [sh EXCEPT !.trap = TrapAfter]

HandleSignal ==
    /\ sig.pending /\ pc \notin {"foreground", "injecting"} /\ sh.trap # "none"
    /\ RunTrap /\ AfterTrap
    /\ sig' = [sig EXCEPT !.pending = FALSE,
                          !.handledAt = IF @ = "never" THEN pc ELSE @]
    /\ UNCHANGED <<cmd, reported, flow, faults>>

\* Without a trap the signal ends the shell.
DieOfSignal ==
    /\ sig.pending /\ pc \notin {"foreground", "injecting"} /\ sh.trap = "none"
    /\ sig' = [sig EXCEPT !.pending = FALSE] /\ Continue("killed")
    /\ UNCHANGED <<cmd, fs, processes>>

\* The EXIT trap.
Exit ==
    /\ At("exit") /\ Continue("done")
    /\ IF sh.trap = "none" THEN UNCHANGED <<fs, app, worker>> ELSE RunTrap
    /\ UNCHANGED <<cmd, sig, reported, flow, faults>>

-----------------------------------------------------------------------------
(* The other processes. *)

\* The recorder is loaded and heaptrack_init opens the FIFO, or the program
\* runs without it.
Load ==
    /\ app = "started"
    /\ app' = IF cmd.loads /\ "data" \in fs THEN "opening" ELSE "plain"
    /\ UNCHANGED <<script, worker, reported, flow, faults>>

\* Opening a FIFO waits for the other end: application and reader.
OpenData ==
    /\ app = "opening" /\ worker[Reader] = "opening"
    /\ app' = "recording"
    /\ worker' = [worker EXCEPT ![Reader] = IF cmd.raw THEN "running" ELSE "opening_output"]
    /\ flow' = [flow EXCEPT !["written"] = 1, !["data"] = 1]
    /\ UNCHANGED <<script, reported, faults>>

\* ... interpreter and compressor.
OpenInterpreted ==
    /\ worker = [interpreter |-> "opening_output", compressor |-> "opening"]
    /\ worker' = [w \in Workers |-> "running"]
    /\ UNCHANGED <<script, app, reported, flow, faults>>

\* reportReady, after heaptrack_init, on macOS
ReportReady ==
    /\ Darwin /\ app = "recording" /\ "ready" \in fs /\ ~ reported
    /\ reported' = TRUE
    /\ UNCHANGED <<script, app, worker, flow, faults>>

\* The recorder flushes a buffer; without a reader SIGPIPE ends the process.
Write ==
    /\ app = "recording" /\ flow["written"] < MaxRecords
    /\ IF Alive(Reader)
       THEN flow' = [flow EXCEPT !["written"] = @ + 1, !["data"] = @ + 1] /\ UNCHANGED app
       ELSE app' = "crashed" /\ UNCHANGED flow
    /\ UNCHANGED <<script, worker, reported, faults>>

\* The application ends, with any status, at any time.
ApplicationEnds ==
    /\ AppAlive /\ app' \in {"ended", "crashed"}
    /\ UNCHANGED <<script, worker, reported, flow, faults>>

Source(w) == IF w = Reader THEN "data" ELSE "interpreted"
Sink(w) == IF w = "compressor" THEN "file" ELSE "interpreted"

\* One record on; the interpreter gets SIGPIPE when the compressor is gone.
Work(w) ==
    /\ worker[w] = "running" /\ flow[Source(w)] > 0
    /\ IF w = "interpreter" /\ ~ Alive("compressor")
       THEN worker' = [worker EXCEPT ![w] = "failed"] /\ UNCHANGED flow
       ELSE flow' = [flow EXCEPT ![Source(w)] = @ - 1, ![Sink(w)] = @ + 1] /\ UNCHANGED worker
    /\ UNCHANGED <<script, app, reported, faults>>

\* The end of the file: nobody holds the writing end of the FIFO any more.
WorkerEnds(w) ==
    /\ worker[w] = "running" /\ flow[Source(w)] = 0
    /\ IF w = Reader THEN app # "recording" ELSE ~ Alive("interpreter")
    /\ worker' = [worker EXCEPT ![w] = "ended"]
    /\ UNCHANGED <<script, app, reported, flow, faults>>

\* A crash, or a disk that is full.
WorkerFails(w) ==
    /\ worker[w] = "running" /\ faults < MaxFaults
    /\ worker' = [worker EXCEPT ![w] = "failed"] /\ faults' = faults + 1
    /\ UNCHANGED <<script, app, reported, flow>>

\* ^C or kill.  Background processes ignore INT; an application in the
\* foreground that dies of it is ApplicationEnds.
Signal ==
    /\ sig.sent < MaxSignals /\ ~ sig.pending /\ pc \notin {"done", "killed"}
    /\ sig' = [sig EXCEPT !.pending = TRUE, !.sent = @ + 1]
    /\ UNCHANGED <<cmd, pc, sh, fs, processes>>

-----------------------------------------------------------------------------

Script ==
    \/ ParseArguments \/ CheckInstallation \/ MakeRuntimeDir \/ TrapRuntime
    \/ MakeDataFifo \/ MakeReadyFile \/ GiveToUser \/ MakeInterpretedFifo
    \/ StartCompressor \/ NoteCompressor \/ StartInterpreter \/ NoteInterpreter
    \/ TrapCleanup \/ StartApplication \/ ForegroundEnds
    \/ NoteApplication \/ PollReady \/ CheckReady \/ WaitApplication
    \/ Inject \/ InjectionEnds \/ CheckDebugReady
    \/ WaitInterpreter \/ WaitCompressor \/ SumUp \/ Exit \/ HandleSignal \/ DieOfSignal

Next ==
    \/ Script \/ Load \/ OpenData \/ OpenInterpreted \/ ReportReady
    \/ Write \/ ApplicationEnds \/ Signal
    \/ \E w \in Workers : Work(w) \/ WorkerEnds(w) \/ WorkerFails(w)

\* The system runs the shell and the processes that have something to do.
\* Nothing says that the application writes or ends, or that anybody sends a
\* signal.
Spec ==
    /\ Init /\ [][Next]_vars
    /\ WF_vars(Script)
    /\ WF_vars(Load) /\ WF_vars(OpenData) /\ WF_vars(OpenInterpreted) /\ WF_vars(ReportReady)
    /\ \A w \in Workers : WF_vars(Work(w) \/ WorkerEnds(w))

-----------------------------------------------------------------------------
(* Properties. *)

\* The status of the script can be trusted: it is 0 only if the recorder was
\* there and every record it wrote is in a complete file, whatever was killed,
\* failed or was interrupted on the way.
ExitZeroIsComplete ==
    pc = "done" /\ sh.EXIT_CODE = 0 =>
        /\ flow["written"] > 0 /\ flow["file"] = flow["written"]
        /\ worker["compressor"] = "ended"
        /\ cmd.mode # "attach" => app = "ended"

\* A launcher that exits leaves nothing behind: no file in the runtime
\* directory, no background process, no application it had in the background,
\* and no attached process that records into a FIFO nobody reads.  A signal
\* between the two traps is the exception: the first trap does not exit.
NothingLeftBehind ==
    pc = "done" /\ sig.handledAt \notin SetUp =>
        /\ fs = {}
        /\ \A w \in Workers : ~ Alive(w)
        /\ cmd.mode = "run" => ~ AppAlive
        /\ app # "recording"

\* The timeout of the ready file, which the loop and the check after it read at
\* two moments, never hits an application that has reported: without a signal
\* the launcher does not take away the runtime directory from a recorder.
ReportedIsNotGivenUp ==
    [][reported /\ app = "recording" /\ fs # {} /\ fs' = {} => sig'.handledAt # "never"]_vars

\* The script ends once the application has ended, if the recorder had opened
\* the FIFO, and on macOS also without that: an application that does not load
\* the recorder is not even waited for.
LauncherEnds ==
    (/\ sig.handledAt \notin SetUp
     /\ \/ app \in {"ended", "crashed"} /\ (flow["written"] > 0 \/ Darwin)
        \/ pc = "ready_loop" /\ ~ cmd.loads)
    ~> pc \in {"done", "killed"}
=============================================================================
