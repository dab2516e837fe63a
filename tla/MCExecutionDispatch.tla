------------------------ MODULE MCExecutionDispatch ------------------------
(***************************************************************************)
(* ExecutionDispatch for TLC, with one way a plausible bug could change    *)
(* each part a property rests on.                                          *)
(***************************************************************************)
EXTENDS ExecutionDispatch, TLC

=============================================================================
