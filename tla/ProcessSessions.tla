-------------------------- MODULE ProcessSessions ---------------------------
(***************************************************************************)
(* ProcessManager implements Sessions.  The session of a terminal is the   *)
(* chain of parent_pid links from its youngest process down to its base    *)
(* shell; while system_halt returns to a parent, that parent already       *)
(* counts as running.                                                      *)
(***************************************************************************)
EXTENDS ProcessManager, Sequences

\* Process p on top of its ancestors, the base shell at the bottom.
ChainOf(p, pcbs) ==
  LET prolonged[n \in 0 .. NumProcesses] ==
        IF n = 0 THEN <<p>>
        ELSE LET chain == prolonged[n - 1]
                 up == pcbs[chain[1]].parent
             IN IF up \in Pids THEN <<up>> \o chain ELSE chain
  IN prolonged[NumProcesses]

\* Empty before the terminal is booted.
Chain(t) == IF Booted(t) THEN ChainOf(terminal_array[t].pid, pcb) ELSE <<>>

Session == [t \in Terminals |-> Chain(t)]
Running == IF cpu.at = "halt" THEN cpu.parent ELSE cpu.stack

S == INSTANCE Sessions WITH
       session <- Session, served <- curr_terminal, running <- Running

(***************************************************************************)
(* Refinement: every step of the scheduler, execute and halt is one of the *)
(* sessions, or leaves them alone.                                         *)
(***************************************************************************)
ImplementsSessions == S!Spec
=============================================================================
