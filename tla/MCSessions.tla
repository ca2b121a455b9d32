----------------------------- MODULE MCSessions -----------------------------
(***************************************************************************)
(* ProcessSessions in surroundings without the rare events.                *)
(***************************************************************************)
EXTENDS MCProcessManager, ProcessSessions
=============================================================================
