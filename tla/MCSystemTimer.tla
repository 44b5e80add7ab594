----------------------------- MODULE MCSystemTimer -----------------------------
(* Model checking of SystemTimer.  An alarm sent to the process goes to any   *)
(* thread that does not block it (MCAnyThread); Linux prefers the main thread *)
(* and falls back on another when main has not yet taken the previous one.    *)
EXTENDS SystemTimer

MCAnyThread == Threads
===============================================================================
