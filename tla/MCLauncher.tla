----------------------------- MODULE MCLauncher -----------------------------
(* Instance of Launcher: every way to start it, on both platforms. *)
EXTENDS Launcher

AllCommands == CommandLine
=============================================================================
