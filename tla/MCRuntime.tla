------------------------------ MODULE MCRuntime -----------------------------
(***************************************************************************)
(* The three modules of main(), any of which may be absent or fail, and    *)
(* three of the four handled signals.                                      *)
(***************************************************************************)
EXTENDS Runtime

MCCreators == <<"cpu", "memory", "gpu">>
MCHandlers == <<"INT", "TERM", "USR1">>
=============================================================================
