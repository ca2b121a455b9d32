------------------------------- MODULE Inputs -------------------------------
(***************************************************************************)
(* Functions without state are checked one input at a time: each initial   *)
(* state is an input, a record with the kind of function it is for, and it *)
(* never changes.                                                          *)
(***************************************************************************)
VARIABLE input

SameInput == UNCHANGED input
=============================================================================
