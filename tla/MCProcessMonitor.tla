-------------------------- MODULE MCProcessMonitor --------------------------
(* ProcessMonitor for TLC.                                                 *)
EXTENDS ProcessMonitor

(* Callers that name their process, with handlers that look things up or   *)
(* not and engine calls that fail or not.                                  *)
Named == {{}, {"lookups"}, {"failures"}, {"lookups", "failures"}}

(* Callers that use the default argument, everything else well-behaved.    *)
Defaulted == {{"defaultIds"}}
=============================================================================
