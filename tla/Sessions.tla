------------------------------ MODULE Sessions ------------------------------
(***************************************************************************)
(* What the process manager promises its programs: each terminal is a      *)
(* session, a stack of programs.  Only the topmost program of the session  *)
(* being served runs.  It may put a program on top of itself (execute) or  *)
(* leave (halt), which lets the one below go on.  The sessions are served  *)
(* in turn, and each begins with a shell of its own that never leaves.     *)
(* There is no parent link, no saved stack pointer and no page directory.  *)
(***************************************************************************)
EXTENDS Integers, SequencesExt

CONSTANTS NumTerminals, NumProcesses

Terminals == 0 .. NumTerminals - 1
Pids == 0 .. NumProcesses - 1

VARIABLES
  session,   \* per terminal: its programs, the shell first, the youngest last
  served,    \* the terminal being served
  running    \* the program that has the processor

vars == <<session, served, running>>

Live == UNION {ToSet(session[t]) : t \in Terminals}

Init ==
  /\ session = [t \in Terminals |-> IF t = 0 THEN <<0>> ELSE <<>>]
  /\ served = 0
  /\ running = 0

Begin(p) ==
  /\ running' = p /\ UNCHANGED served
  /\ p \notin Live /\ running = Last(session[served])
  /\ session' = [session EXCEPT ![served] = Append(@, p)]

Leave ==
  /\ Len(session[served]) > 1
  /\ session' = [session EXCEPT ![served] = Front(@)]
  /\ running' = Last(session'[served])
  /\ UNCHANGED served

Serve ==
  /\ served' = (served + 1) % NumTerminals
  /\ session[served'] # <<>>
  /\ running' = Last(session[served'])
  /\ UNCHANGED session

ServeNew(p) ==
  /\ running' = p /\ served' = (served + 1) % NumTerminals
  /\ p \notin Live /\ session[served'] = <<>>
  /\ session' = [session EXCEPT ![served'] = <<p>>]

Next ==
  \/ \E p \in Pids : Begin(p) \/ ServeNew(p)
  \/ Leave
  \/ Serve

Spec == Init /\ [][Next]_vars
=============================================================================
