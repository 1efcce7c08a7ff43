------------------------------- MODULE MCLogger -------------------------------
(* Two threads that log twice each; exit may be called anywhere, on the worker *)
(* as well, and once more while it runs; main may open a log file, and may     *)
(* fork before it serves.                                                      *)
EXTENDS Logger

\* A signal may catch a thread anywhere in push() or SetLogFile().
Anywhere == CallPhases

\* With and without --foreground.
Either == BOOLEAN
=============================================================================
