------------------------------ MODULE MCConsole ------------------------------
(***************************************************************************)
(* The line editor and the shell's parser for TLC: a behaviour is one of   *)
(* the console, or one in which the shell gets a line.                     *)
(***************************************************************************)
EXTENDS Console, Shell

MCVars == <<vars, cmdline>>
MCInit == Init /\ ShellInit
MCNext == \/ Next /\ cmdline = <<>> /\ UNCHANGED cmdline
          \/ ShellNext /\ keys = 0 /\ UNCHANGED vars
MCSpec == MCInit /\ [][MCNext]_MCVars /\ Fairness
=============================================================================
