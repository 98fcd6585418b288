-------------------------- MODULE MCLoggingRuntime --------------------------
(***************************************************************************)
(* Instances of LoggingRuntime for TLC.                                    *)
(***************************************************************************)
EXTENDS LoggingRuntime
=============================================================================
