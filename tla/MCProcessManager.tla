------------------------- MODULE MCProcessManager -------------------------
(***************************************************************************)
(* Instances of ProcessManager for TLC: the surroundings of each run.      *)
(***************************************************************************)
EXTENDS ProcessManager

Disciplined == {}
AnyEvent == PossibleEvents
BackgroundExecute == {"background_execute"}
=============================================================================
