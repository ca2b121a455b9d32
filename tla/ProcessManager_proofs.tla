----------------------- MODULE ProcessManager_proofs -----------------------
(***************************************************************************)
(* Proofs about ProcessManager, and about Paging, which extends it, for    *)
(* every number of terminals and of processes.                             *)
(***************************************************************************)
EXTENDS Paging, ProcessSessions, FiniteSetTheorems, TLAPS

USE TerminalsAssumption, ProcessesAssumption, BaseShellAssumption,
    EnvironmentAssumption

(***************************************************************************)
(* The round robin: the successor of a terminal.                           *)
(***************************************************************************)
LEMMA NextTerminalValue ==
  ASSUME curr_terminal \in Terminals
  PROVE  NextTerminal = IF curr_terminal + 1 = NumTerminals THEN 0
                                                           ELSE curr_terminal + 1
BY DEF Terminals, NextTerminal

LEMMA NextTerminalType ==
  ASSUME curr_terminal \in Terminals
  PROVE  NextTerminal \in Terminals
BY NextTerminalValue DEF Terminals

(***************************************************************************)
(* Forgetting a stack and resuming a saved context keep the types.         *)
(***************************************************************************)
PcbRecords == [parent : Pids \cup {NoPid, BASE_SHELL}, ctx : Contexts]

LEMMA ForgetStackType ==
  ASSUME NEW p, NEW pcbs \in [Pids -> PcbRecords]
  PROVE  /\ ForgetStack(p, pcbs) \in [Pids -> PcbRecords]
         /\ \A q \in Pids : ForgetStack(p, pcbs)[q].parent = pcbs[q].parent
         /\ \A q \in Pids : ForgetStack(p, pcbs)[q].ctx
                              = IF pcbs[q].ctx.stack = p THEN LostContext
                                                         ELSE pcbs[q].ctx
BY DEF ForgetStack, PcbRecords, Contexts

TerminalRecords ==
  [pid : Pids \cup {NoPid}, flag : {0, 1}, tss : Pids \cup {NoPid}]

LEMMA HandOverType ==
  ASSUME NEW terms \in [Terminals -> TerminalRecords],
         NEW s \in Terminals, NEW t \in Terminals, NEW p \in Pids
  PROVE  /\ HandOver(terms, s, t, p) \in [Terminals -> TerminalRecords]
         /\ HandOver(terms, s, t, p)[s].pid = p
         /\ HandOver(terms, s, t, p)[t].tss = p
         /\ \A u \in Terminals : HandOver(terms, s, t, p)[u].flag = terms[u].flag
         /\ \A u \in Terminals \ {s} : HandOver(terms, s, t, p)[u].pid = terms[u].pid
         /\ \A u \in Terminals \ {t} : HandOver(terms, s, t, p)[u].tss = terms[u].tss
<1>. DEFINE first == [terms EXCEPT ![s].pid = p]
            both == [first EXCEPT ![t].tss = p]
<1>1. /\ first \in [Terminals -> TerminalRecords]
      /\ first[s].pid = p
      /\ \A u \in Terminals : first[u].flag = terms[u].flag /\ first[u].tss = terms[u].tss
      /\ \A u \in Terminals \ {s} : first[u].pid = terms[u].pid
  BY DEF TerminalRecords
<1>2. HandOver(terms, s, t, p) = both
  BY Zenon DEF HandOver
<1>. HIDE DEF first
<1>3. /\ both \in [Terminals -> TerminalRecords]
      /\ both[t].tss = p
      /\ \A u \in Terminals : both[u].flag = first[u].flag /\ both[u].pid = first[u].pid
      /\ \A u \in Terminals \ {t} : both[u].tss = first[u].tss
  BY <1>1 DEF TerminalRecords
<1>. HIDE DEF both
<1>. QED  BY <1>1, <1>2, <1>3

LEMMA UserThreadType ==
  \A p \in Pids : UserThread(p) \in Contexts /\ ExecuteFrame(p) \in Contexts
BY DEF UserThread, ExecuteFrame, Contexts, Continuations

LEMMA ResumeType ==
  ASSUME NEW ctx \in Contexts, NEW pcbs \in [Pids -> PcbRecords], Resume(ctx, pcbs)
  PROVE  /\ cpu' \in Contexts
         /\ cpu'.at = "lost" <=> ctx.at = "lost"
         /\ pcb' \in [Pids -> PcbRecords]
         /\ \A q \in Pids : pcb'[q].parent = pcbs[q].parent
<1>1. /\ cpu' \in Contexts
      /\ cpu'.at = "lost" <=> ctx.at = "lost"
  BY DEF Resume, Contexts, Continuations, LostContext, UserThread
<1>2. /\ pcb' \in [Pids -> PcbRecords]
      /\ \A q \in Pids : pcb'[q].parent = pcbs[q].parent
  <2>1. CASE ctx.at = "halt"
    BY <2>1 DEF Resume
  <2>2. CASE ctx.at # "halt"
    BY <2>2, ForgetStackType DEF Resume
  <2>. QED  BY <2>1, <2>2
<1>. QED  BY <1>1, <1>2

-----------------------------------------------------------------------------
(***************************************************************************)
(* The safety invariant, for every Environment.                            *)
(***************************************************************************)
LEMMA InitSafety == Init => SafetyInv
<1>. SUFFICES ASSUME Init PROVE SafetyInv
  OBVIOUS
<1>1. 0 \in Pids /\ 0 \in Terminals
  BY DEF Pids, Terminals
<1>2. TypeOK
  <2>1. UserThread(0) \in Contexts /\ LostContext \in Contexts
    BY <1>1 DEF Contexts, Continuations, UserThread
  <2>2. pcb \in [Pids -> [parent : Pids \cup {NoPid, BASE_SHELL}, ctx : Contexts]]
    BY <1>1, <2>1 DEF Init
  <2>3. terminal_array \in [Terminals ->
          [pid : Pids \cup {NoPid}, flag : {0, 1}, tss : Pids \cup {NoPid}]]
    BY <1>1 DEF Init
  <2>. QED  BY <1>1, <2>1, <2>2, <2>3 DEF Init, TypeOK, VideoPages
<1>3. ChainsAreSound
  BY <1>1 DEF Init, ChainsAreSound, Booted, Youngest, IsParent, NoPid, Pids
<1>4. ScheduledTerminalBooted /\ BaseShellFlagConsumed
  BY <1>1 DEF Init, ScheduledTerminalBooted, BaseShellFlagConsumed, Booted
<1>. QED  BY <1>2, <1>3, <1>4 DEF SafetyInv

(***************************************************************************)
(* What a live process and a booted terminal are, read off the invariant.  *)
(***************************************************************************)
LEMMA CurrentIsLive ==
  ASSUME SafetyInv, cpu.at # "lost"
  PROVE  /\ terminal_array[curr_terminal].pid \in cur_processes
         /\ terminal_array[curr_terminal].pid \in Pids
BY DEF SafetyInv, TypeOK, ChainsAreSound, ScheduledTerminalBooted

(***************************************************************************)
(* system_execute started with interrupts off keeps types and chains: as a *)
(* base shell of a terminal that has none, or as the child of a booted     *)
(* terminal's youngest process.                                            *)
(***************************************************************************)
LEMMA StartBaseShellSafety ==
  ASSUME TypeOK, ChainsAreSound,
         NEW new \in Pids, NEW t \in Terminals, ~Booted(t),
         cpu.at # "lost",
         NEW pcbs \in [Pids -> PcbRecords],
         \A q \in Pids : pcbs[q].parent = pcb[q].parent,
         StartProcess(new, t, TRUE, pcbs, [terminal_array EXCEPT ![t].flag = 1]),
         curr_terminal' = t, UNCHANGED <<screen_terminal, vid_map>>
  PROVE  SafetyInv'
<1>. DEFINE flagged == [terminal_array EXCEPT ![t].flag = 1]
            terms == HandOver(flagged, t, t, new)
            pcbs1 == [pcbs EXCEPT ![new].parent = BASE_SHELL]
<1>1. /\ new \in Pids \ cur_processes
      /\ cur_processes' = cur_processes \cup {new}
      /\ pcb' = ForgetStack(new, pcbs1)
      /\ terminal_array' = terms
      /\ base_shell' = FALSE
      /\ page' = new
      /\ tss' = new
      /\ cpu' = UserThread(new)
  BY Zenon DEF StartProcess, FreePids
<1>2. pcbs1 \in [Pids -> PcbRecords]
  BY DEF PcbRecords
<1>3. /\ pcb' \in [Pids -> PcbRecords]
      /\ pcb'[new].parent = BASE_SHELL
      /\ \A q \in Pids \ {new} : pcb'[q].parent = pcb[q].parent
  <2>1. \A q \in Pids : pcbs1[q].parent = IF q = new THEN BASE_SHELL ELSE pcb[q].parent
    BY DEF PcbRecords
  <2>. HIDE DEF pcbs1
  <2>. QED  BY <1>1, <1>2, <2>1, ForgetStackType
<1>4. /\ \A s \in Terminals \ {t} : /\ terminal_array'[s].pid = terminal_array[s].pid
                                   /\ terminal_array'[s].flag = terminal_array[s].flag
      /\ terminal_array'[t].pid = new /\ terminal_array'[t].flag = 1
      /\ terminal_array' \in [Terminals -> TerminalRecords]
  <2>1. /\ flagged \in [Terminals -> TerminalRecords]
        /\ flagged[t].flag = 1
        /\ \A s \in Terminals \ {t} : flagged[s] = terminal_array[s]
    BY DEF TypeOK, TerminalRecords
  <2>. HIDE DEF flagged
  <2>. QED  BY <1>1, <2>1, HandOverType
<1>. HIDE DEF flagged, terms, pcbs1
<1>5. TypeOK'
  <2>1. cpu' \in Contexts
    BY <1>1, UserThreadType
  <2>2. vid_map' \in [page : VideoPages, present : BOOLEAN] /\ screen_terminal' \in Terminals
    BY DEF TypeOK
  <2>3. pcb' \in [Pids -> [parent : Pids \cup {NoPid, BASE_SHELL}, ctx : Contexts]]
    BY <1>3 DEF PcbRecords
  <2>4. cur_processes' \subseteq Pids
    BY <1>1 DEF TypeOK
  <2>. QED  BY <1>1, <1>4, <2>1, <2>2, <2>3, <2>4 DEF TypeOK, TerminalRecords
<1>6. ChainsAreSound'
  <2>1. new # NoPid /\ new # BASE_SHELL
    BY DEF Pids, NoPid
  <2>2. cur_processes \subseteq Pids /\ new \notin cur_processes
    BY <1>1 DEF TypeOK
  <2>3. \A s \in Terminals : terminal_array[s].pid # new
    BY <2>1, <2>2 DEF ChainsAreSound
  <2>4. \A s \in Terminals : /\ Booted(s)' => terminal_array'[s].pid \in cur_processes'
                             /\ ~Booted(s)' => terminal_array'[s].pid = NoPid
    BY <1>1, <1>4 DEF Booted, ChainsAreSound
  <2>5. \A p \in cur_processes' : pcb'[p].parent \in cur_processes' \cup {BASE_SHELL}
    BY <1>1, <1>3, <2>2 DEF ChainsAreSound
  <2>6. \A p \in cur_processes : /\ IsParent(p)' <=> IsParent(p)
                                 /\ Youngest(p)' <=> Youngest(p)
    <3>1. \A p \in cur_processes : IsParent(p)' <=> IsParent(p)
      BY <1>1, <1>3, <2>2 DEF IsParent, Pids, TypeOK
    <3>2. terminal_array[t].pid = NoPid
      BY DEF ChainsAreSound
    <3>3. \A p \in cur_processes : Youngest(p)' <=> Youngest(p)
      <4>1. \A p \in cur_processes : p # new /\ p # NoPid
        BY <2>2 DEF Pids, NoPid
      <4>. QED  BY <1>4, <3>2, <4>1 DEF Youngest
    <3>. QED  BY <3>1, <3>3
  <2>7. Youngest(new)' /\ ~IsParent(new)'
    <3>1. Youngest(new)'
      BY <1>4 DEF Youngest
    <3>2. \A q \in cur_processes' : pcb'[q].parent # new
      BY <1>1, <1>3, <2>1, <2>2 DEF ChainsAreSound
    <3>. QED  BY <3>1, <3>2 DEF IsParent
  <2>8. \A p \in cur_processes' : Youngest(p)' <=> ~IsParent(p)'
    BY <1>1, <2>6, <2>7 DEF ChainsAreSound
  <2>9. \A r, s \in Terminals :
          terminal_array'[r].pid = terminal_array'[s].pid /\ terminal_array'[r].pid # NoPid
          => r = s
    BY <1>4, <2>3 DEF ChainsAreSound
  <2>10. \A p, q \in cur_processes' :
          pcb'[p].parent = pcb'[q].parent /\ pcb'[p].parent # BASE_SHELL => p = q
    BY <1>1, <1>3, <2>2 DEF ChainsAreSound
  <2>. QED  BY <2>4, <2>5, <2>8, <2>9, <2>10, Zenon DEF ChainsAreSound, Booted
<1>7. ScheduledTerminalBooted' /\ BaseShellFlagConsumed'
  BY <1>1, <1>4 DEF ScheduledTerminalBooted, BaseShellFlagConsumed, Booted
<1>. QED  BY <1>5, <1>6, <1>7 DEF SafetyInv

\* Two live processes of different roles: used for every change of the chains.
LEMMA LivePids ==
  ASSUME TypeOK, NEW p \in cur_processes
  PROVE  p \in Pids /\ p # NoPid /\ p # BASE_SHELL
BY DEF TypeOK, Pids, NoPid

LEMMA ExecuteSafety ==
  ASSUME SafetyInv, Execute
  PROVE  SafetyInv'
<1>. DEFINE t == screen_terminal
<1>1. /\ TypeOK /\ ChainsAreSound
      /\ cpu.at = "user" /\ base_shell = FALSE
      /\ t \in Terminals /\ curr_terminal \in Terminals
      /\ Booted(t)
  BY DEF SafetyInv, Execute, BaseShellFlagConsumed, TypeOK, AllBooted
<1>2. PICK y \in Pids : /\ y = terminal_array[t].pid
                       /\ y \in cur_processes
                       /\ y # BASE_SHELL
  BY <1>1, LivePids DEF ChainsAreSound
<1>3. PICK new \in Pids : StartProcess(new, curr_terminal, FALSE, pcb, terminal_array)
  BY <1>1 DEF Execute
<1>. DEFINE saved == [pcb EXCEPT ![y].ctx = ExecuteFrame(cpu.stack)]
            linked == [saved EXCEPT ![new].parent = y]
<1>4. /\ new \notin cur_processes
      /\ cur_processes' = cur_processes \cup {new}
      /\ pcb' = ForgetStack(new, linked)
      /\ terminal_array' = HandOver(terminal_array, t, curr_terminal, new)
      /\ base_shell' = FALSE
      /\ page' = new
      /\ tss' = new
      /\ cpu' = UserThread(new)
  BY <1>2, <1>3, Zenon DEF StartProcess, FreePids
<1>5. /\ pcb' \in [Pids -> PcbRecords]
      /\ pcb'[new].parent = y
      /\ \A q \in Pids \ {new} : pcb'[q].parent = pcb[q].parent
  <2>1. cpu.stack \in Pids
    BY <1>1 DEF TypeOK, Contexts, Continuations, LostContext
  <2>2. /\ saved \in [Pids -> PcbRecords]
        /\ \A q \in Pids : saved[q].parent = pcb[q].parent
    BY <1>1, <1>2, <2>1, UserThreadType DEF TypeOK, PcbRecords
  <2>. HIDE DEF saved
  <2>3. /\ linked \in [Pids -> PcbRecords]
        /\ linked[new].parent = y
        /\ \A q \in Pids \ {new} : linked[q].parent = pcb[q].parent
    BY <1>2, <2>2 DEF PcbRecords
  <2>. HIDE DEF linked
  <2>. QED  BY <1>4, <2>3, ForgetStackType
<1>6. /\ terminal_array' \in [Terminals -> TerminalRecords]
      /\ terminal_array'[t].pid = new
      /\ \A s \in Terminals : terminal_array'[s].flag = terminal_array[s].flag
      /\ \A s \in Terminals \ {t} : terminal_array'[s].pid = terminal_array[s].pid
  BY <1>1, <1>4, HandOverType DEF TypeOK, TerminalRecords
<1>. HIDE DEF saved, linked
<1>7. TypeOK'
  <2>1. cpu' \in Contexts
    BY <1>4, UserThreadType
  <2>2. pcb' \in [Pids -> [parent : Pids \cup {NoPid, BASE_SHELL}, ctx : Contexts]]
    BY <1>5 DEF PcbRecords
  <2>3. /\ vid_map' \in [page : VideoPages, present : BOOLEAN]
        /\ screen_terminal' \in Terminals /\ curr_terminal' \in Terminals
    BY <1>1 DEF TypeOK, Execute
  <2>. QED  BY <1>1, <1>4, <1>6, <2>1, <2>2, <2>3 DEF TypeOK, TerminalRecords
<1>8. ChainsAreSound'
  <2>1. new # NoPid /\ new # BASE_SHELL
    BY DEF Pids, NoPid
  <2>2. \A s \in Terminals : terminal_array[s].pid # new
    BY <1>1, <1>4, <2>1 DEF ChainsAreSound
  <2>3. \A s \in Terminals : /\ Booted(s)' => terminal_array'[s].pid \in cur_processes'
                             /\ ~Booted(s)' => terminal_array'[s].pid = NoPid
    BY <1>1, <1>4, <1>6 DEF Booted, ChainsAreSound
  <2>4. \A p \in cur_processes' : pcb'[p].parent \in cur_processes' \cup {BASE_SHELL}
    BY <1>1, <1>2, <1>4, <1>5, LivePids DEF ChainsAreSound
  <2>5. IsParent(y)' /\ ~Youngest(y)'
    <3>1. IsParent(y)'
      BY <1>4, <1>5 DEF IsParent
    <3>2. \A s \in Terminals \ {t} : terminal_array[s].pid # y
      BY <1>1, <1>2, LivePids DEF ChainsAreSound
    <3>. QED  BY <1>2, <1>4, <1>6, <3>1, <3>2 DEF Youngest
  <2>6. Youngest(new)' /\ ~IsParent(new)'
    <3>1. Youngest(new)'
      BY <1>1, <1>6 DEF Youngest
    <3>2. \A q \in cur_processes' : pcb'[q].parent # new
      BY <1>1, <1>2, <1>4, <1>5, <2>1, LivePids DEF ChainsAreSound
    <3>. QED  BY <3>1, <3>2 DEF IsParent
  <2>7. \A p \in cur_processes \ {y} : /\ IsParent(p)' <=> IsParent(p)
                                       /\ Youngest(p)' <=> Youngest(p)
    <3>1. \A p \in cur_processes \ {y} : IsParent(p)' <=> IsParent(p)
      BY <1>1, <1>4, <1>5, LivePids DEF IsParent
    <3>2. \A p \in cur_processes \ {y} : Youngest(p)' <=> Youngest(p)
      BY <1>1, <1>2, <1>4, <1>6 DEF Youngest
    <3>. QED  BY <3>1, <3>2
  <2>8. \A p \in cur_processes' : Youngest(p)' <=> ~IsParent(p)'
    BY <1>1, <1>4, <2>5, <2>6, <2>7 DEF ChainsAreSound
  <2>9. \A r, s \in Terminals :
          terminal_array'[r].pid = terminal_array'[s].pid /\ terminal_array'[r].pid # NoPid
          => r = s
    BY <1>1, <1>6, <2>2 DEF ChainsAreSound
  <2>10. \A p, q \in cur_processes' :
          pcb'[p].parent = pcb'[q].parent /\ pcb'[p].parent # BASE_SHELL => p = q
    <3>1. \A p \in cur_processes : pcb[p].parent # y
      BY <1>1, <1>2 DEF ChainsAreSound, Youngest, IsParent
    <3>. QED  BY <1>1, <1>4, <1>5, <3>1, LivePids DEF ChainsAreSound
  <2>. QED  BY <2>3, <2>4, <2>8, <2>9, <2>10, Zenon DEF ChainsAreSound, Booted
<1>9. ScheduledTerminalBooted' /\ BaseShellFlagConsumed'
  BY <1>1, <1>4, <1>6 DEF ScheduledTerminalBooted, BaseShellFlagConsumed, Booted, SafetyInv,
                          Execute
<1>. QED  BY <1>7, <1>8, <1>9 DEF SafetyInv

LEMMA HaltTeardownSafety ==
  ASSUME SafetyInv, HaltTeardown
  PROVE  SafetyInv'
<1>. DEFINE t == curr_terminal
<1>1. /\ TypeOK /\ ChainsAreSound
      /\ t \in Terminals /\ Booted(t)
      /\ cpu.at = "user" /\ cpu.stack \in Pids
      /\ base_shell = FALSE
  BY DEF SafetyInv, HaltTeardown, HaltingBaseShell, Release, ScheduledTerminalBooted, BaseShellFlagConsumed, TypeOK,
         Contexts, Continuations, LostContext
<1>2. PICK y \in Pids : y = terminal_array[t].pid /\ y \in cur_processes
  BY <1>1, LivePids DEF ChainsAreSound
<1>3. PICK parent \in Pids : /\ parent = pcb[y].parent
                            /\ parent \in cur_processes
                            /\ parent # y
  <2>1. pcb[y].parent # BASE_SHELL
    BY <1>1, <1>2 DEF HaltTeardown, HaltingBaseShell, Release
  <2>2. pcb[y].parent \in cur_processes
    BY <1>1, <1>2, <2>1 DEF ChainsAreSound
  <2>. QED  BY <1>1, <1>2, <2>2, LivePids DEF ChainsAreSound, Youngest, IsParent
<1>4. /\ cur_processes' = cur_processes \ {y}
      /\ terminal_array' = HandOver(terminal_array, t, t, parent)
      /\ page' = parent /\ tss' = parent
      /\ cpu' = [stack |-> cpu.stack, at |-> "halt", parent |-> parent]
      /\ UNCHANGED <<pcb, curr_terminal, screen_terminal, base_shell, vid_map>>
  BY <1>2, <1>3 DEF HaltTeardown, HaltingBaseShell, Release
<1>5. /\ terminal_array' \in [Terminals -> TerminalRecords]
      /\ terminal_array'[t].pid = parent
      /\ \A s \in Terminals : terminal_array'[s].flag = terminal_array[s].flag
      /\ \A s \in Terminals \ {t} : terminal_array'[s].pid = terminal_array[s].pid
  <2>1. terminal_array \in [Terminals -> TerminalRecords]
    BY <1>1 DEF TypeOK, TerminalRecords
  <2>. QED  BY <1>1, <1>4, <2>1, HandOverType
<1>6. TypeOK'
  <2>1. cpu' \in Contexts
    BY <1>1, <1>3, <1>4 DEF Contexts, Continuations
  <2>. QED  BY <1>1, <1>3, <1>4, <1>5, <2>1 DEF TypeOK, TerminalRecords
<1>7. ChainsAreSound'
  <2>1. ~Youngest(parent) /\ IsParent(parent)
    BY <1>1, <1>2, <1>3 DEF ChainsAreSound, IsParent
  <2>2. \A q \in cur_processes \ {y} : pcb[q].parent # parent /\ pcb[q].parent # y
    <3>1. Youngest(y) /\ ~IsParent(y)
      BY <1>1, <1>2 DEF ChainsAreSound, Youngest
    <3>. QED  BY <1>1, <1>2, <1>3, <3>1, LivePids DEF ChainsAreSound, IsParent
  <2>3. \A s \in Terminals : /\ Booted(s)' => terminal_array'[s].pid \in cur_processes'
                             /\ ~Booted(s)' => terminal_array'[s].pid = NoPid
    <3>1. \A s \in Terminals : Booted(s)' <=> Booted(s)
      BY <1>5 DEF Booted
    <3>2. \A s \in Terminals \ {t} : terminal_array[s].pid # y
      BY <1>1, <1>2, LivePids DEF ChainsAreSound
    <3>3. \A s \in Terminals \ {t} : /\ Booted(s) => terminal_array[s].pid \in cur_processes
                                     /\ ~Booted(s) => terminal_array[s].pid = NoPid
      BY <1>1 DEF ChainsAreSound
    <3>4. parent \in cur_processes'
      BY <1>3, <1>4
    <3>5. ASSUME NEW s \in Terminals, s # t
          PROVE  /\ Booted(s)' => terminal_array'[s].pid \in cur_processes'
                 /\ ~Booted(s)' => terminal_array'[s].pid = NoPid
      BY <1>4, <1>5, <3>1, <3>2, <3>3, <3>5
    <3>6. ASSUME NEW s \in Terminals, s = t
          PROVE  Booted(s)' /\ terminal_array'[s].pid \in cur_processes'
      BY <1>1, <1>5, <3>1, <3>4, <3>6
    <3>. QED  BY <3>5, <3>6
  <2>4. \A p \in cur_processes' : pcb'[p].parent \in cur_processes' \cup {BASE_SHELL}
    BY <1>1, <1>4, <2>2 DEF ChainsAreSound
  <2>5. Youngest(parent)' /\ ~IsParent(parent)'
    BY <1>1, <1>4, <1>5, <2>2 DEF Youngest, IsParent
  <2>6. \A p \in cur_processes \ {y, parent} : /\ IsParent(p)' <=> IsParent(p)
                                               /\ Youngest(p)' <=> Youngest(p)
    <3>1. \A p \in cur_processes \ {y, parent} : IsParent(p)' <=> IsParent(p)
      BY <1>2, <1>3, <1>4 DEF IsParent
    <3>2. \A p \in cur_processes \ {y, parent} : Youngest(p)' <=> Youngest(p)
      BY <1>1, <1>2, <1>4, <1>5 DEF Youngest
    <3>. QED  BY <3>1, <3>2
  <2>7. \A p \in cur_processes' : Youngest(p)' <=> ~IsParent(p)'
    BY <1>1, <1>4, <2>5, <2>6 DEF ChainsAreSound
  <2>8. \A r, s \in Terminals :
          terminal_array'[r].pid = terminal_array'[s].pid /\ terminal_array'[r].pid # NoPid
          => r = s
    BY <1>1, <1>5, <2>1 DEF ChainsAreSound, Youngest
  <2>9. \A p, q \in cur_processes' :
          pcb'[p].parent = pcb'[q].parent /\ pcb'[p].parent # BASE_SHELL => p = q
    BY <1>1, <1>4 DEF ChainsAreSound
  <2>. QED  BY <2>3, <2>4, <2>7, <2>8, <2>9, Zenon DEF ChainsAreSound, Booted
<1>8. ScheduledTerminalBooted' /\ BaseShellFlagConsumed'
  BY <1>1, <1>4, <1>5 DEF ScheduledTerminalBooted, BaseShellFlagConsumed, Booted
<1>. QED  BY <1>6, <1>7, <1>8 DEF SafetyInv

(***************************************************************************)
(* The remaining steps leave parent_pid links and cur_processes alone.     *)
(***************************************************************************)
LEMMA SameChains ==
  ASSUME TypeOK, ChainsAreSound,
         cur_processes' = cur_processes,
         \A p \in Pids : pcb'[p].parent = pcb[p].parent,
         \A t \in Terminals : /\ terminal_array'[t].pid = terminal_array[t].pid
                              /\ terminal_array'[t].flag = terminal_array[t].flag,
         cpu.at # "lost"
  PROVE  ChainsAreSound'
<1>1. cur_processes \subseteq Pids
  BY DEF TypeOK
<1>2. \A p \in cur_processes : /\ Youngest(p)' <=> Youngest(p)
                               /\ IsParent(p)' <=> IsParent(p)
  BY <1>1 DEF Youngest, IsParent
<1>3. \A t \in Terminals : Booted(t)' <=> Booted(t)
  BY DEF Booted
<1>4. \A t \in Terminals : /\ Booted(t)' => terminal_array'[t].pid \in cur_processes'
                           /\ ~Booted(t)' => terminal_array'[t].pid = NoPid
  BY <1>3 DEF ChainsAreSound
<1>5. \A p \in cur_processes' : Youngest(p)' <=> ~IsParent(p)'
  BY <1>2 DEF ChainsAreSound
<1>6. /\ \A p \in cur_processes' : pcb'[p].parent \in cur_processes' \cup {BASE_SHELL}
      /\ \A p, q \in cur_processes' :
           pcb'[p].parent = pcb'[q].parent /\ pcb'[p].parent # BASE_SHELL => p = q
  BY <1>1 DEF ChainsAreSound
<1>7. \A r, s \in Terminals :
        terminal_array'[r].pid = terminal_array'[s].pid /\ terminal_array'[r].pid # NoPid
        => r = s
  BY DEF ChainsAreSound
<1>. QED  BY <1>4, <1>5, <1>6, <1>7, Zenon DEF ChainsAreSound

\* The scheduler's save keeps the types and the links.
LEMMA SavedPcbsType ==
  ASSUME SafetyInv, InterruptsOn
  PROVE  /\ SavedPcbs \in [Pids -> PcbRecords]
         /\ \A p \in Pids : SavedPcbs[p].parent = pcb[p].parent
         /\ SavedPcbs[terminal_array[curr_terminal].pid].ctx = cpu
         /\ \A p \in Pids : p # terminal_array[curr_terminal].pid => SavedPcbs[p] = pcb[p]
<1>1. cpu \in Contexts /\ pcb \in [Pids -> PcbRecords] /\ cpu.at # "lost"
  BY DEF SafetyInv, TypeOK, PcbRecords, InterruptsOn
<1>. QED  BY <1>1, CurrentIsLive DEF SavedPcbs, PcbRecords

LEMMA HaltReturnSafety ==
  ASSUME SafetyInv, HaltReturn
  PROVE  SafetyInv'
<1>1. /\ cpu \in Contexts /\ cpu.at = "halt" /\ cpu.parent \in Pids
      /\ pcb \in [Pids -> PcbRecords]
      /\ TypeOK /\ ChainsAreSound
  BY DEF SafetyInv, TypeOK, HaltReturn, Contexts, Continuations, LostContext, PcbRecords
<1>2. pcb[cpu.parent].ctx \in Contexts
  BY <1>1 DEF PcbRecords
<1>3. /\ cpu' \in Contexts /\ pcb' \in [Pids -> PcbRecords]
      /\ \A q \in Pids : pcb'[q].parent = pcb[q].parent
  BY <1>1, <1>2, ResumeType DEF HaltReturn
<1>4. TypeOK'
  BY <1>1, <1>3 DEF TypeOK, HaltReturn, PcbRecords
<1>5. ChainsAreSound'
  BY <1>1, <1>3, SameChains DEF HaltReturn
<1>6. ScheduledTerminalBooted' /\ BaseShellFlagConsumed'
  BY <1>1 DEF SafetyInv, HaltReturn, ScheduledTerminalBooted, BaseShellFlagConsumed, Booted
<1>. QED  BY <1>4, <1>5, <1>6 DEF SafetyInv

LEMMA TickResumesSafety ==
  ASSUME SafetyInv, TickResumes
  PROVE  SafetyInv'
<1>. DEFINE n == NextTerminal
            y == terminal_array[NextTerminal].pid
<1>1. /\ TypeOK /\ ChainsAreSound /\ cpu.at # "lost" /\ InterruptsOn
      /\ n \in Terminals /\ Booted(n) /\ curr_terminal' = n
  BY NextTerminalType DEF SafetyInv, TypeOK, TickResumes, Interrupted, InterruptsOn
<1>2. y \in cur_processes /\ y \in Pids
  BY <1>1, LivePids DEF ChainsAreSound
<1>3. SavedPcbs[y].ctx \in Contexts
  BY <1>1, <1>2, SavedPcbsType DEF PcbRecords
<1>4. /\ cpu' \in Contexts /\ pcb' \in [Pids -> PcbRecords]
      /\ \A q \in Pids : pcb'[q].parent = pcb[q].parent
  <2>1. Resume(SavedPcbs[y].ctx, SavedPcbs)
    BY DEF TickResumes
  <2>2. /\ cpu' \in Contexts /\ pcb' \in [Pids -> PcbRecords]
        /\ \A q \in Pids : pcb'[q].parent = SavedPcbs[q].parent
    BY <1>1, <1>3, <2>1, SavedPcbsType, ResumeType
  <2>. QED  BY <1>1, <2>2, SavedPcbsType
<1>5. TypeOK'
  <2>1. vid_map' \in [page : VideoPages, present : BOOLEAN]
    <3>1. VideoPageOf(n, screen_terminal) \in VideoPages
      BY <1>1 DEF VideoPageOf, VideoPages
    <3>. QED  BY <1>1, <3>1 DEF TickResumes, TypeOK
  <2>2. /\ page' \in Pids
        /\ tss' \in Pids \cup {NoPid}
        /\ UNCHANGED <<cur_processes, terminal_array, screen_terminal, base_shell>>
    BY <1>1, <1>2 DEF TickResumes, TypeOK
  <2>. QED  BY <1>1, <1>4, <2>1, <2>2 DEF TypeOK, PcbRecords
<1>6. ChainsAreSound'
  BY <1>1, <1>4, SameChains DEF TickResumes
<1>7. ScheduledTerminalBooted' /\ BaseShellFlagConsumed'
  BY <1>1 DEF SafetyInv, TickResumes, ScheduledTerminalBooted, BaseShellFlagConsumed, Booted
<1>. QED  BY <1>5, <1>6, <1>7 DEF SafetyInv

LEMMA TickBootsSafety ==
  ASSUME SafetyInv, TickBoots
  PROVE  SafetyInv'
<1>1. /\ TypeOK /\ ChainsAreSound /\ cpu.at # "lost" /\ InterruptsOn
      /\ NextTerminal \in Terminals /\ ~Booted(NextTerminal)
      /\ curr_terminal' = NextTerminal /\ UNCHANGED <<screen_terminal, vid_map>>
  BY NextTerminalType DEF SafetyInv, TypeOK, TickBoots, Interrupted, InterruptsOn
<1>2. PICK new \in Pids : StartProcess(new, NextTerminal, TRUE, SavedPcbs,
                             [terminal_array EXCEPT ![NextTerminal].flag = 1])
  BY DEF TickBoots
<1>. QED  BY <1>1, <1>2, SavedPcbsType, StartBaseShellSafety

LEMMA TickCannotBootSafety ==
  ASSUME SafetyInv, TickCannotBoot
  PROVE  SafetyInv'
<1>. DEFINE n == NextTerminal
<1>1. /\ TypeOK /\ ChainsAreSound /\ cpu.at # "lost" /\ InterruptsOn
      /\ n \in Terminals /\ ~Booted(n) /\ curr_terminal' = n
      /\ cpu' = LostContext /\ pcb' = SavedPcbs
      /\ terminal_array' = [terminal_array EXCEPT ![n].flag = 1]
      /\ UNCHANGED <<cur_processes, screen_terminal, page>>
  BY NextTerminalType DEF SafetyInv, TypeOK, TickCannotBoot, Interrupted, InterruptsOn
<1>2. /\ terminal_array' \in [Terminals -> TerminalRecords]
      /\ terminal_array'[n].flag = 1
      /\ \A s \in Terminals : terminal_array'[s].pid = terminal_array[s].pid
      /\ \A s \in Terminals \ {n} : terminal_array'[s].flag = terminal_array[s].flag
  BY <1>1 DEF TypeOK, TerminalRecords
<1>3. TypeOK'
  <2>1. vid_map' \in [page : VideoPages, present : BOOLEAN]
    <3>1. VideoPageOf(n, screen_terminal) \in VideoPages
      BY <1>1 DEF VideoPageOf, VideoPages
    <3>. QED  BY <1>1, <3>1 DEF TickCannotBoot, TypeOK
  <2>2. /\ tss' \in Pids \cup {NoPid}
        /\ base_shell' \in BOOLEAN
    BY <1>1 DEF TickCannotBoot, TypeOK
  <2>3. pcb' \in [Pids -> [parent : Pids \cup {NoPid, BASE_SHELL}, ctx : Contexts]]
    BY <1>1, SavedPcbsType DEF PcbRecords
  <2>. QED  BY <1>1, <1>2, <2>1, <2>2, <2>3 DEF TypeOK, TerminalRecords, Contexts
<1>4. ChainsAreSound'
  <2>1. cpu'.at = "lost"
    BY <1>1 DEF LostContext
  <2>2. cur_processes \subseteq Pids
    BY <1>1 DEF TypeOK
  <2>3. \A p \in Pids : pcb'[p].parent = pcb[p].parent
    BY <1>1, SavedPcbsType
  <2>4. \A t \in Terminals : ~Booted(t)' => terminal_array'[t].pid = NoPid
    BY <1>1, <1>2 DEF Booted, ChainsAreSound
  <2>5. \A p \in cur_processes : /\ Youngest(p)' <=> Youngest(p)
                                 /\ IsParent(p)' <=> IsParent(p)
    BY <1>1, <1>2, <2>2, <2>3 DEF Youngest, IsParent
  <2>6. \A p \in cur_processes' : Youngest(p)' <=> ~IsParent(p)'
    BY <1>1, <2>5 DEF ChainsAreSound
  <2>7. /\ \A p \in cur_processes' : pcb'[p].parent \in cur_processes' \cup {BASE_SHELL}
        /\ \A p, q \in cur_processes' :
             pcb'[p].parent = pcb'[q].parent /\ pcb'[p].parent # BASE_SHELL => p = q
    BY <1>1, <2>2, <2>3 DEF ChainsAreSound
  <2>8. \A r, s \in Terminals :
          terminal_array'[r].pid = terminal_array'[s].pid /\ terminal_array'[r].pid # NoPid
          => r = s
    BY <1>1, <1>2 DEF ChainsAreSound
  <2>. QED  BY <2>1, <2>4, <2>6, <2>7, <2>8, Zenon DEF ChainsAreSound
<1>5. ScheduledTerminalBooted' /\ BaseShellFlagConsumed'
  BY <1>1, <1>2 DEF ScheduledTerminalBooted, BaseShellFlagConsumed, Booted, LostContext
<1>. QED  BY <1>3, <1>4, <1>5 DEF SafetyInv

LEMMA DisplaySafety ==
  ASSUME SafetyInv, Vidmap \/ \E t \in Terminals : SwitchScreen(t)
  PROVE  SafetyInv'
<1>1. /\ TypeOK /\ ChainsAreSound
      /\ vid_map' \in [page : VideoPages, present : BOOLEAN]
      /\ screen_terminal' \in Terminals
      /\ UNCHANGED <<cur_processes, pcb, terminal_array, curr_terminal, base_shell, page,
                     tss, cpu>>
      /\ cpu.at # "lost"
  <2>1. CASE Vidmap
    BY <2>1 DEF SafetyInv, TypeOK, Vidmap, VideoPages
  <2>2. ASSUME NEW t \in Terminals, SwitchScreen(t)
        PROVE  <1>1!:
    BY <2>2 DEF SafetyInv, TypeOK, SwitchScreen, VideoPages, InterruptsOn
  <2>. QED  BY <2>1, <2>2
<1>2. TypeOK'
  BY <1>1 DEF TypeOK
<1>3. ChainsAreSound'
  BY <1>1, SameChains
<1>4. ScheduledTerminalBooted' /\ BaseShellFlagConsumed'
  BY <1>1 DEF SafetyInv, ScheduledTerminalBooted, BaseShellFlagConsumed, Booted
<1>. QED  BY <1>2, <1>3, <1>4 DEF SafetyInv

LEMMA StutterSafety ==
  ASSUME SafetyInv, UNCHANGED vars
  PROVE  SafetyInv'
BY Zenon DEF vars, SafetyInv, TypeOK, ChainsAreSound, ScheduledTerminalBooted,
   BaseShellFlagConsumed, Booted, Youngest, IsParent

LEMMA NextSafety == SafetyInv /\ [Next]_vars => SafetyInv'
<1>. SUFFICES ASSUME SafetyInv, [Next]_vars PROVE SafetyInv'
  OBVIOUS
<1>1. CASE Execute
  BY <1>1, ExecuteSafety
<1>2. CASE ExecuteFails \/ HaltRestartsShell \/ UNCHANGED vars
  BY <1>2, StutterSafety DEF ExecuteFails, HaltRestartsShell
<1>3. CASE HaltTeardown
  BY <1>3, HaltTeardownSafety
<1>4. CASE HaltReturn
  BY <1>4, HaltReturnSafety
<1>5. CASE TickResumes
  BY <1>5, TickResumesSafety
<1>6. CASE TickBoots
  BY <1>6, TickBootsSafety
<1>7. CASE TickCannotBoot
  BY <1>7, TickCannotBootSafety
<1>8. CASE Vidmap \/ \E t \in Terminals : SwitchScreen(t)
  BY <1>8, DisplaySafety
<1>. QED
  BY <1>1, <1>2, <1>3, <1>4, <1>5, <1>6, <1>7, <1>8 DEF Next, SystemCall, Tick

LEMMA SafetyInvariance == Spec => []SafetyInv
BY InitSafety, NextSafety, PTL DEF Spec

(***************************************************************************)
(* Whatever the surroundings do, the state stays well typed: in particular *)
(* no halted process ever leaves a pid outside 0 .. NumProcesses - 1 in    *)
(* the page directory.                                                     *)
(***************************************************************************)
THEOREM TypeCorrect == Spec => []TypeOK
<1>1. SafetyInv => TypeOK
  BY DEF SafetyInv
<1>. QED  BY <1>1, SafetyInvariance, PTL

(***************************************************************************)
(* Whatever the surroundings do, even a program in the background that     *)
(* calls execute or a tick inside system_halt, parent_pid links of live    *)
(* processes form one chain per terminal and no pid leaks.                 *)
(***************************************************************************)
THEOREM ChainsSound == Spec => []ChainsAreSound
<1>1. SafetyInv => ChainsAreSound
  BY DEF SafetyInv
<1>. QED  BY <1>1, SafetyInvariance, PTL

-----------------------------------------------------------------------------
(***************************************************************************)
(* The disciplined surroundings: no event of PossibleEvents happens.       *)
(***************************************************************************)
LEMMA InitDisciplined == Init => DisciplinedInv
<1>. SUFFICES ASSUME Init PROVE DisciplinedInv
  OBVIOUS
<1>1. SafetyInv
  BY InitSafety
<1>2. 0 \in Pids /\ 0 \in Terminals
  BY DEF Pids, Terminals
<1>3. KernelKnowsWhoRuns
  BY <1>2 DEF Init, KernelKnowsWhoRuns, UserThread
<1>4. SuspendedTerminalsResumable /\ TssOfYoungest
  BY <1>2 DEF Init, SuspendedTerminalsResumable, TssOfYoungest, Booted
<1>5. WaitingParentsIntact
  BY <1>2 DEF Init, WaitingParentsIntact, IsParent, UserThread
<1>6. BootOrder
  BY <1>2 DEF Init, BootOrder, Booted, Terminals
<1>7. CpuIsRunning
  BY DEF Init, CpuIsRunning, UserThread
<1>. QED  BY <1>1, <1>3, <1>4, <1>5, <1>6, <1>7 DEF DisciplinedInv

\* In the disciplined surroundings every terminal that waits for its base
\* shell finds a free pid.
LEMMA BootFindsPid ==
  ASSUME DisciplinedInv, ~Booted(NextTerminal)
  PROVE  /\ NextTerminal = curr_terminal + 1
         /\ NextTerminal \in Pids \ cur_processes
         /\ \A p \in FreePids : NextTerminal <= p
<1>1. /\ curr_terminal \in Terminals /\ NextTerminal \in Terminals
      /\ Booted(curr_terminal)
      /\ ~AllBooted
  BY NextTerminalType DEF DisciplinedInv, SafetyInv, TypeOK, AllBooted,
                          ScheduledTerminalBooted
<1>2. /\ cur_processes = 0 .. curr_terminal
      /\ \A t \in Terminals : Booted(t) <=> t <= curr_terminal
  BY <1>1 DEF DisciplinedInv, BootOrder
<1>3. NextTerminal = curr_terminal + 1
  BY <1>1, <1>2, NextTerminalValue DEF Terminals
<1>. QED  BY <1>1, <1>2, <1>3 DEF Terminals, Pids, FreePids

(***************************************************************************)
(* The facts of the disciplined invariant that the steps use: t ranges     *)
(* over the booted terminals, y over their youngest processes.             *)
(***************************************************************************)
LEMMA DisciplinedFacts ==
  ASSUME DisciplinedInv
  PROVE  /\ SafetyInv /\ TypeOK /\ ChainsAreSound
         /\ curr_terminal \in Terminals /\ screen_terminal \in Terminals
         /\ Booted(curr_terminal)
         /\ base_shell = FALSE
         /\ cpu.at \in {"user", "halt"}
         /\ pcb \in [Pids -> PcbRecords]
         /\ terminal_array \in [Terminals -> TerminalRecords]
         /\ \A t \in Terminals : Booted(t) => /\ terminal_array[t].pid \in cur_processes
                                             /\ terminal_array[t].pid \in Pids
                                             /\ terminal_array[t].tss = terminal_array[t].pid
<1>1. /\ TypeOK /\ ChainsAreSound /\ cpu.at # "lost" /\ Booted(curr_terminal)
      /\ base_shell = FALSE
  BY DEF DisciplinedInv, SafetyInv, KernelKnowsWhoRuns, ScheduledTerminalBooted,
         BaseShellFlagConsumed
<1>2. cpu.at \in {"user", "halt"}
  <2>1. cpu.at \in {"user", "halt", "execute"}
    BY <1>1 DEF TypeOK, Contexts, Continuations, LostContext
  <2>. QED  BY <2>1 DEF DisciplinedInv, CpuIsRunning
<1>3. \A t \in Terminals : Booted(t) => /\ terminal_array[t].pid \in cur_processes
                                      /\ terminal_array[t].pid \in Pids
                                      /\ terminal_array[t].tss = terminal_array[t].pid
  BY <1>1, LivePids DEF DisciplinedInv, ChainsAreSound, TssOfYoungest
<1>. QED  BY <1>1, <1>2, <1>3 DEF TypeOK, DisciplinedInv, PcbRecords, TerminalRecords

\* The thread in user mode is the youngest process of the scheduled terminal.
LEMMA UserThreadIsYoungest ==
  ASSUME DisciplinedInv, cpu.at = "user"
  PROVE  cpu = UserThread(terminal_array[curr_terminal].pid)
BY DEF DisciplinedInv, KernelKnowsWhoRuns

LEMMA FrameOwners ==
  \A p : /\ UserThread(p).stack = p /\ UserThread(p).at = "user"
        /\ ExecuteFrame(p).stack = p /\ ExecuteFrame(p).at = "execute"
BY DEF UserThread, ExecuteFrame

LEMMA ExecuteDisciplined ==
  ASSUME Environment = {}, DisciplinedInv, Execute
  PROVE  DisciplinedInv'
<1>. DEFINE t == curr_terminal
<1>1. /\ screen_terminal = t /\ t \in Terminals /\ AllBooted
      /\ cpu.at = "user" /\ base_shell = FALSE
      /\ TypeOK /\ ChainsAreSound /\ pcb \in [Pids -> PcbRecords]
      /\ terminal_array \in [Terminals -> TerminalRecords]
      /\ UNCHANGED <<curr_terminal, screen_terminal>>
  BY DisciplinedFacts DEF Execute
<1>2. PICK y \in Pids : y = terminal_array[t].pid /\ y \in cur_processes /\ y # BASE_SHELL
  BY <1>1, DisciplinedFacts, LivePids
<1>3. PICK new \in Pids : StartProcess(new, t, FALSE, pcb, terminal_array)
  BY <1>1 DEF Execute
<1>. DEFINE saved == [pcb EXCEPT ![y].ctx = ExecuteFrame(cpu.stack)]
            linked == [saved EXCEPT ![new].parent = y]
<1>4. /\ new \notin cur_processes
      /\ cur_processes' = cur_processes \cup {new}
      /\ pcb' = ForgetStack(new, linked)
      /\ terminal_array' = HandOver(terminal_array, t, t, new)
      /\ page' = new /\ tss' = new
      /\ cpu' = UserThread(new)
  BY <1>1, <1>2, <1>3, Zenon DEF StartProcess, FreePids
<1>5. cpu.stack = y
  BY <1>1, <1>2, UserThreadIsYoungest, FrameOwners
<1>6. /\ pcb'[y].ctx = ExecuteFrame(y)
      /\ \A q \in Pids \ {y} : pcb[q].ctx.stack # new => pcb'[q].ctx = pcb[q].ctx
      /\ pcb'[new].parent = y
      /\ \A q \in Pids \ {new} : pcb'[q].parent = pcb[q].parent
  <2>1. /\ saved \in [Pids -> PcbRecords]
        /\ saved[y].ctx = ExecuteFrame(y)
        /\ \A q \in Pids \ {y} : saved[q] = pcb[q]
        /\ \A q \in Pids : saved[q].parent = pcb[q].parent
    BY <1>1, <1>2, <1>5, UserThreadType DEF PcbRecords
  <2>. HIDE DEF saved
  <2>2. /\ linked \in [Pids -> PcbRecords]
        /\ linked[new].parent = y
        /\ \A q \in Pids \ {new} : linked[q].parent = pcb[q].parent
        /\ \A q \in Pids : linked[q].ctx = saved[q].ctx
    BY <1>2, <2>1 DEF PcbRecords
  <2>. HIDE DEF linked
  <2>3. linked[y].ctx.stack # new
    BY <1>2, <1>4, <2>1, <2>2, FrameOwners
  <2>. QED  BY <1>4, <2>1, <2>2, <2>3, ForgetStackType
<1>7. /\ terminal_array'[t].pid = new /\ terminal_array'[t].tss = new
      /\ \A s \in Terminals : terminal_array'[s].flag = terminal_array[s].flag
      /\ \A s \in Terminals \ {t} : /\ terminal_array'[s].pid = terminal_array[s].pid
                                   /\ terminal_array'[s].tss = terminal_array[s].tss
  BY <1>1, <1>4, HandOverType
<1>. HIDE DEF saved, linked
<1>8. SafetyInv'
  BY ExecuteSafety, DisciplinedFacts
<1>9. KernelKnowsWhoRuns'
  BY <1>1, <1>4, <1>7, FrameOwners DEF KernelKnowsWhoRuns
<1>10. SuspendedTerminalsResumable'
  <2>. SUFFICES ASSUME NEW s \in Terminals \ {t}
                PROVE  /\ pcb'[terminal_array[s].pid].ctx = UserThread(terminal_array[s].pid)
                       /\ terminal_array[s].tss = terminal_array[s].pid
    BY <1>1, <1>7 DEF SuspendedTerminalsResumable
  <2>1. /\ terminal_array[s].pid \in cur_processes /\ terminal_array[s].pid \in Pids
        /\ terminal_array[s].pid # y
    BY <1>1, <1>2, DisciplinedFacts, LivePids DEF AllBooted, ChainsAreSound
  <2>2. /\ pcb[terminal_array[s].pid].ctx = UserThread(terminal_array[s].pid)
        /\ terminal_array[s].tss = terminal_array[s].pid
    BY <1>1 DEF DisciplinedInv, SuspendedTerminalsResumable, AllBooted
  <2>. QED  BY <1>4, <1>6, <2>1, <2>2, FrameOwners
<1>11. WaitingParentsIntact'
  <2>. SUFFICES ASSUME NEW p \in cur_processes', IsParent(p)'
                PROVE  pcb'[p].ctx = ExecuteFrame(p)
    BY <1>4, FrameOwners DEF WaitingParentsIntact
  <2>1. PICK q \in cur_processes' : pcb'[q].parent = p
    BY DEF IsParent
  <2>2. CASE q = new
    BY <1>6, <2>1, <2>2
  <2>3. CASE q # new
    <3>1. q \in cur_processes /\ q \in Pids /\ pcb[q].parent = p
      BY <1>1, <1>4, <1>6, <2>1, <2>3, LivePids
    <3>2. p \in cur_processes /\ p \in Pids /\ IsParent(p)
      BY <1>1, <1>4, <3>1, LivePids DEF ChainsAreSound, IsParent, Pids
    <3>3. p # y
      BY <1>1, <1>2, <3>2 DEF ChainsAreSound, Youngest
    <3>4. pcb[p].ctx = ExecuteFrame(p)
      BY <3>2 DEF DisciplinedInv, WaitingParentsIntact
    <3>. QED  BY <1>4, <1>6, <3>2, <3>3, <3>4, FrameOwners
  <2>. QED  BY <2>2, <2>3
<1>12. BootOrder'
  BY <1>1, <1>7 DEF BootOrder, AllBooted, Booted
<1>13. TssOfYoungest' /\ CpuIsRunning'
  <2>1. TssOfYoungest'
    BY <1>1, <1>7, DisciplinedFacts DEF TssOfYoungest, AllBooted, Booted
  <2>. QED  BY <1>4, <2>1, FrameOwners DEF CpuIsRunning
<1>. QED
  BY <1>8, <1>9, <1>10, <1>11, <1>12, <1>13 DEF DisciplinedInv

LEMMA HaltTeardownDisciplined ==
  ASSUME DisciplinedInv, HaltTeardown
  PROVE  DisciplinedInv'
<1>. DEFINE t == curr_terminal
<1>1. /\ t \in Terminals /\ Booted(t)
      /\ TypeOK /\ ChainsAreSound
      /\ terminal_array \in [Terminals -> TerminalRecords]
  BY DisciplinedFacts
<1>2. PICK y \in Pids : y = terminal_array[t].pid /\ y \in cur_processes
  BY <1>1, DisciplinedFacts
<1>3. pcb[y].parent # BASE_SHELL /\ pcb[y].parent \in cur_processes
  BY <1>1, <1>2 DEF HaltTeardown, HaltingBaseShell, Release, ChainsAreSound
<1>4. PICK parent \in Pids : /\ parent = pcb[y].parent
                            /\ parent \in cur_processes /\ IsParent(parent)
  BY <1>1, <1>2, <1>3, LivePids DEF IsParent
<1>5. /\ cur_processes' = cur_processes \ {y}
      /\ terminal_array' = HandOver(terminal_array, t, t, parent)
      /\ page' = parent /\ tss' = parent
      /\ cpu'.at = "halt" /\ cpu'.parent = parent
      /\ UNCHANGED <<pcb, curr_terminal>>
  BY <1>2, <1>4 DEF HaltTeardown, HaltingBaseShell, Release
<1>6. /\ terminal_array'[t].pid = parent /\ terminal_array'[t].tss = parent
      /\ \A s \in Terminals : terminal_array'[s].flag = terminal_array[s].flag
      /\ \A s \in Terminals \ {t} : /\ terminal_array'[s].pid = terminal_array[s].pid
                                   /\ terminal_array'[s].tss = terminal_array[s].tss
  BY <1>1, <1>5, HandOverType
<1>7. SafetyInv'
  BY HaltTeardownSafety, DisciplinedFacts
<1>8. KernelKnowsWhoRuns'
  BY <1>5, <1>6 DEF KernelKnowsWhoRuns
<1>9. SuspendedTerminalsResumable'
  BY <1>5, <1>6 DEF DisciplinedInv, SuspendedTerminalsResumable, Booted
<1>10. WaitingParentsIntact'
  <2>. SUFFICES ASSUME NEW p \in cur_processes', IsParent(p)' \/ p = parent
                PROVE  pcb[p].ctx = ExecuteFrame(p)
    BY <1>5 DEF WaitingParentsIntact
  <2>1. IsParent(p)
    BY <1>4, <1>5 DEF IsParent
  <2>. QED  BY <1>5, <2>1 DEF DisciplinedInv, WaitingParentsIntact
<1>11. BootOrder'
  <2>1. AllBooted
    BY <1>2, <1>3 DEF DisciplinedInv, BootOrder
  <2>. QED  BY <1>6, <2>1 DEF BootOrder, AllBooted, Booted
<1>12. TssOfYoungest' /\ CpuIsRunning'
  BY <1>5, <1>6, DisciplinedFacts DEF TssOfYoungest, CpuIsRunning, Booted
<1>. QED
  BY <1>7, <1>8, <1>9, <1>10, <1>11, <1>12 DEF DisciplinedInv

LEMMA HaltReturnDisciplined ==
  ASSUME DisciplinedInv, HaltReturn
  PROVE  DisciplinedInv'
<1>. DEFINE t == curr_terminal
<1>1. /\ t \in Terminals /\ Booted(t)
      /\ TypeOK /\ ChainsAreSound /\ pcb \in [Pids -> PcbRecords]
      /\ UNCHANGED <<cur_processes, terminal_array, curr_terminal, page, tss>>
  BY DisciplinedFacts DEF HaltReturn
<1>2. PICK y \in Pids : y = terminal_array[t].pid /\ y \in cur_processes
  BY <1>1, DisciplinedFacts
<1>3. cpu.at = "halt" /\ cpu.parent = y
  BY <1>2 DEF HaltReturn, DisciplinedInv, KernelKnowsWhoRuns
<1>4. pcb[y].ctx = ExecuteFrame(y)
  BY <1>2, <1>3 DEF DisciplinedInv, WaitingParentsIntact
<1>5. cpu' = UserThread(y) /\ pcb' = ForgetStack(y, pcb)
  BY <1>3, <1>4, FrameOwners DEF HaltReturn, Resume
<1>6. /\ \A q \in Pids : pcb'[q].parent = pcb[q].parent
      /\ \A q \in Pids : pcb[q].ctx.stack # y => pcb'[q].ctx = pcb[q].ctx
  BY <1>1, <1>5, ForgetStackType
<1>7. SafetyInv'
  BY HaltReturnSafety, DisciplinedFacts
<1>8. KernelKnowsWhoRuns'
  BY <1>1, <1>2, <1>5, FrameOwners DEF KernelKnowsWhoRuns, DisciplinedInv
<1>9. SuspendedTerminalsResumable'
  <2>. SUFFICES ASSUME NEW s \in Terminals \ {t}, Booted(s)
                PROVE  /\ pcb'[terminal_array[s].pid].ctx = UserThread(terminal_array[s].pid)
                       /\ terminal_array[s].tss = terminal_array[s].pid
    BY <1>1 DEF SuspendedTerminalsResumable, Booted
  <2>1. terminal_array[s].pid \in Pids /\ terminal_array[s].pid # y
    BY <1>1, <1>2, DisciplinedFacts, LivePids DEF ChainsAreSound
  <2>2. /\ pcb[terminal_array[s].pid].ctx = UserThread(terminal_array[s].pid)
        /\ terminal_array[s].tss = terminal_array[s].pid
    BY DEF DisciplinedInv, SuspendedTerminalsResumable
  <2>. QED  BY <1>6, <2>1, <2>2, FrameOwners
<1>10. WaitingParentsIntact'
  <2>. SUFFICES ASSUME NEW p \in cur_processes, IsParent(p)'
                PROVE  pcb'[p].ctx = ExecuteFrame(p)
    BY <1>1, <1>5, FrameOwners DEF WaitingParentsIntact
  <2>1. IsParent(p) /\ p \in Pids
    BY <1>1, <1>6, LivePids DEF IsParent
  <2>2. p # y
    BY <1>1, <1>2, <2>1 DEF ChainsAreSound, Youngest
  <2>3. pcb[p].ctx = ExecuteFrame(p)
    BY <2>1 DEF DisciplinedInv, WaitingParentsIntact
  <2>. QED  BY <1>6, <2>1, <2>2, <2>3, FrameOwners
<1>11. BootOrder'
  BY <1>1, <1>6, LivePids DEF DisciplinedInv, BootOrder, AllBooted, Booted
<1>12. TssOfYoungest' /\ CpuIsRunning'
  BY <1>1, <1>5, FrameOwners DEF DisciplinedInv, TssOfYoungest, CpuIsRunning, Booted
<1>. QED
  BY <1>7, <1>8, <1>9, <1>10, <1>11, <1>12 DEF DisciplinedInv

LEMMA TickResumesDisciplined ==
  ASSUME Environment = {}, DisciplinedInv, TickResumes
  PROVE  DisciplinedInv'
<1>. DEFINE t == curr_terminal
            n == NextTerminal
<1>1. /\ t \in Terminals /\ Booted(t) /\ n \in Terminals /\ Booted(n)
      /\ TypeOK /\ ChainsAreSound /\ SafetyInv /\ InterruptsOn
      /\ cpu.at = "user"
      /\ curr_terminal' = n
      /\ UNCHANGED <<cur_processes, terminal_array>>
  BY DisciplinedFacts, NextTerminalType DEF TickResumes, Interrupted, InterruptsOn
<1>2. PICK y \in Pids : y = terminal_array[t].pid /\ y \in cur_processes
  BY <1>1, DisciplinedFacts
<1>3. PICK z \in Pids : z = terminal_array[n].pid /\ z \in cur_processes
  BY <1>1, DisciplinedFacts
<1>4. terminal_array[n].tss = z
  BY <1>1, <1>3, DisciplinedFacts
<1>5. /\ SavedPcbs \in [Pids -> PcbRecords]
      /\ \A p \in Pids : SavedPcbs[p].parent = pcb[p].parent
      /\ SavedPcbs[y].ctx = UserThread(y)
      /\ \A p \in Pids \ {y} : SavedPcbs[p] = pcb[p]
  BY <1>1, <1>2, SavedPcbsType, UserThreadIsYoungest
<1>6. SavedPcbs[z].ctx = UserThread(z)
  <2>1. CASE n = t
    BY <1>2, <1>3, <1>5, <2>1
  <2>2. CASE n # t
    <3>1. z # y
      BY <1>1, <1>2, <1>3, <2>2, LivePids DEF ChainsAreSound
    <3>2. pcb[z].ctx = UserThread(z)
      BY <1>1, <1>3, <2>2 DEF DisciplinedInv, SuspendedTerminalsResumable
    <3>. QED  BY <1>3, <1>5, <3>1, <3>2
  <2>. QED  BY <2>1, <2>2
<1>7. /\ cpu' = UserThread(z) /\ pcb' = ForgetStack(z, SavedPcbs)
      /\ page' = z /\ tss' = z
  BY <1>3, <1>4, <1>6, FrameOwners DEF TickResumes, Resume
<1>8. /\ \A q \in Pids : pcb'[q].parent = pcb[q].parent
      /\ \A q \in Pids : SavedPcbs[q].ctx.stack # z => pcb'[q].ctx = SavedPcbs[q].ctx
  BY <1>5, <1>7, ForgetStackType
<1>9. SafetyInv'
  BY TickResumesSafety, DisciplinedFacts
<1>10. KernelKnowsWhoRuns'
  BY <1>1, <1>3, <1>7, FrameOwners DEF KernelKnowsWhoRuns
<1>11. SuspendedTerminalsResumable'
  <2>. SUFFICES ASSUME NEW s \in Terminals \ {n}, Booted(s)
                PROVE  /\ pcb'[terminal_array[s].pid].ctx = UserThread(terminal_array[s].pid)
                       /\ terminal_array[s].tss = terminal_array[s].pid
    BY <1>1 DEF SuspendedTerminalsResumable, Booted
  <2>1. /\ terminal_array[s].pid \in Pids /\ terminal_array[s].pid # z
        /\ terminal_array[s].tss = terminal_array[s].pid
    BY <1>1, <1>3, DisciplinedFacts, LivePids DEF ChainsAreSound
  <2>2. CASE s = t
    BY <1>2, <1>5, <1>8, <2>1, <2>2, FrameOwners
  <2>3. CASE s # t
    <3>1. terminal_array[s].pid # y
      BY <1>1, <1>2, <2>3, LivePids DEF ChainsAreSound
    <3>2. pcb[terminal_array[s].pid].ctx = UserThread(terminal_array[s].pid)
      BY <2>3 DEF DisciplinedInv, SuspendedTerminalsResumable
    <3>. QED  BY <1>5, <1>8, <2>1, <3>1, <3>2, FrameOwners
  <2>. QED  BY <2>2, <2>3
<1>12. WaitingParentsIntact'
  <2>. SUFFICES ASSUME NEW p \in cur_processes, IsParent(p)'
                PROVE  pcb'[p].ctx = ExecuteFrame(p)
    BY <1>1, <1>7, FrameOwners DEF WaitingParentsIntact
  <2>1. IsParent(p) /\ p \in Pids
    BY <1>1, <1>8, LivePids DEF IsParent
  <2>2. p # y /\ p # z
    BY <1>1, <1>2, <1>3, <2>1 DEF ChainsAreSound, Youngest
  <2>3. pcb[p].ctx = ExecuteFrame(p)
    BY <2>1 DEF DisciplinedInv, WaitingParentsIntact
  <2>. QED  BY <1>5, <1>8, <2>1, <2>2, <2>3, FrameOwners
<1>13. BootOrder'
  <2>1. AllBooted
    <3>1. CASE n = t + 1 /\ ~AllBooted
      BY <1>1, <3>1 DEF DisciplinedInv, BootOrder, Terminals
    <3>2. CASE n = 0 /\ t + 1 = NumTerminals
      BY <1>1, <3>2 DEF DisciplinedInv, BootOrder, Terminals, AllBooted
    <3>. QED  BY <1>1, <3>1, <3>2, NextTerminalValue
  <2>. QED  BY <1>1, <2>1 DEF BootOrder, AllBooted, Booted
<1>14. TssOfYoungest' /\ CpuIsRunning'
  BY <1>1, <1>7, FrameOwners DEF DisciplinedInv, TssOfYoungest, CpuIsRunning, Booted
<1>. QED
  BY <1>9, <1>10, <1>11, <1>12, <1>13, <1>14 DEF DisciplinedInv

LEMMA TickBootsDisciplined ==
  ASSUME Environment = {}, DisciplinedInv, TickBoots
  PROVE  DisciplinedInv'
<1>. DEFINE t == curr_terminal
<1>1. /\ t \in Terminals /\ Booted(t) /\ ~AllBooted
      /\ TypeOK /\ ChainsAreSound /\ SafetyInv /\ InterruptsOn
      /\ cpu.at = "user"
      /\ pcb \in [Pids -> PcbRecords]
      /\ terminal_array \in [Terminals -> TerminalRecords]
      /\ cur_processes = 0 .. t
      /\ \A s \in Terminals : Booted(s) <=> s <= t
      /\ \A p \in cur_processes : pcb[p].parent = BASE_SHELL
  <2>1. ~AllBooted
    BY DisciplinedFacts, NextTerminalType DEF TickBoots, AllBooted
  <2>. QED
    BY <2>1, DisciplinedFacts DEF TickBoots, Interrupted, InterruptsOn, DisciplinedInv, BootOrder
<1>2. PICK y \in Pids : y = terminal_array[t].pid /\ y \in cur_processes
  BY <1>1, DisciplinedFacts
<1>3. PICK n \in Terminals : /\ n = NextTerminal /\ ~Booted(n)
                            /\ n = t + 1
                            /\ n \in Pids \ cur_processes
                            /\ \A p \in FreePids : n <= p
  BY <1>1, BootFindsPid, NextTerminalType DEF TickBoots
<1>4. PICK new \in Pids : StartProcess(new, n, TRUE, SavedPcbs,
                             [terminal_array EXCEPT ![n].flag = 1])
  BY <1>3 DEF TickBoots
<1>. DEFINE flagged == [terminal_array EXCEPT ![n].flag = 1]
            linked == [SavedPcbs EXCEPT ![new].parent = BASE_SHELL]
<1>5. /\ new \in FreePids /\ \A p \in FreePids : new <= p
      /\ cur_processes' = cur_processes \cup {new}
      /\ pcb' = ForgetStack(new, linked)
      /\ terminal_array' = HandOver(flagged, n, n, new)
      /\ page' = new /\ tss' = new
      /\ cpu' = UserThread(new)
  BY <1>4, Zenon DEF StartProcess
<1>6. new = n
  BY <1>3, <1>5 DEF FreePids, Pids
<1>7. /\ curr_terminal' = n
  BY <1>3 DEF TickBoots, Interrupted
<1>8. /\ SavedPcbs \in [Pids -> PcbRecords]
      /\ SavedPcbs[y].ctx = UserThread(y)
      /\ \A p \in Pids : SavedPcbs[p].parent = pcb[p].parent
      /\ \A p \in Pids \ {y} : SavedPcbs[p] = pcb[p]
  BY <1>1, <1>2, SavedPcbsType, UserThreadIsYoungest
<1>9. /\ \A q \in Pids : SavedPcbs[q].ctx.stack # new => pcb'[q].ctx = SavedPcbs[q].ctx
      /\ pcb'[new].parent = BASE_SHELL
      /\ \A q \in Pids \ {new} : pcb'[q].parent = pcb[q].parent
  <2>1. /\ linked \in [Pids -> PcbRecords]
        /\ linked[new].parent = BASE_SHELL
        /\ \A q \in Pids \ {new} : linked[q].parent = pcb[q].parent
        /\ \A q \in Pids : linked[q].ctx = SavedPcbs[q].ctx
    BY <1>8 DEF PcbRecords
  <2>. HIDE DEF linked
  <2>. QED  BY <1>5, <2>1, ForgetStackType
<1>10. /\ terminal_array'[n].pid = new /\ terminal_array'[n].tss = new
       /\ terminal_array'[n].flag = 1
       /\ \A s \in Terminals \ {n} : /\ terminal_array'[s].pid = terminal_array[s].pid
                                    /\ terminal_array'[s].tss = terminal_array[s].tss
                                    /\ terminal_array'[s].flag = terminal_array[s].flag
  <2>1. /\ flagged \in [Terminals -> TerminalRecords]
        /\ flagged[n].flag = 1
        /\ \A s \in Terminals \ {n} : flagged[s] = terminal_array[s]
    BY <1>1 DEF TerminalRecords
  <2>. HIDE DEF flagged
  <2>. QED  BY <1>5, <2>1, HandOverType
<1>. HIDE DEF flagged, linked
<1>11. SafetyInv'
  BY TickBootsSafety, DisciplinedFacts
<1>12. KernelKnowsWhoRuns'
  BY <1>5, <1>7, <1>10, FrameOwners DEF KernelKnowsWhoRuns
<1>13. SuspendedTerminalsResumable'
  <2>. SUFFICES ASSUME NEW s \in Terminals \ {n}, Booted(s)
                PROVE  /\ pcb'[terminal_array[s].pid].ctx = UserThread(terminal_array[s].pid)
                       /\ terminal_array[s].tss = terminal_array[s].pid
    BY <1>7, <1>10 DEF SuspendedTerminalsResumable, Booted
  <2>1. /\ terminal_array[s].pid \in Pids /\ terminal_array[s].pid # new
        /\ terminal_array[s].tss = terminal_array[s].pid
    BY <1>5, DisciplinedFacts DEF FreePids
  <2>2. CASE s = t
    BY <1>2, <1>8, <1>9, <2>1, <2>2, FrameOwners
  <2>3. CASE s # t
    <3>1. terminal_array[s].pid # y
      BY <1>1, <1>2, <2>3, LivePids DEF ChainsAreSound
    <3>2. pcb[terminal_array[s].pid].ctx = UserThread(terminal_array[s].pid)
      BY <2>3 DEF DisciplinedInv, SuspendedTerminalsResumable
    <3>. QED  BY <1>8, <1>9, <2>1, <3>1, <3>2, FrameOwners
  <2>. QED  BY <2>2, <2>3
<1>14. \A p \in cur_processes' : pcb'[p].parent = BASE_SHELL
  BY <1>1, <1>5, <1>9, LivePids
<1>15. WaitingParentsIntact'
  <2>1. \A p \in cur_processes' : ~IsParent(p)'
    BY <1>1, <1>5, <1>14, LivePids DEF IsParent, Pids
  <2>. QED  BY <1>5, <2>1, FrameOwners DEF WaitingParentsIntact
<1>16. BootOrder'
  <2>1. cur_processes' = 0 .. n
    BY <1>1, <1>3, <1>5, <1>6 DEF Terminals
  <2>2. \A s \in Terminals : Booted(s)' <=> s <= n
    BY <1>1, <1>3, <1>10 DEF Booted, Terminals
  <2>. QED  BY <1>7, <1>14, <2>1, <2>2 DEF BootOrder, Booted
<1>17. TssOfYoungest' /\ CpuIsRunning'
  <2>1. TssOfYoungest'
    BY <1>10, DisciplinedFacts DEF TssOfYoungest, Booted
  <2>. QED  BY <1>5, <2>1, FrameOwners DEF CpuIsRunning
<1>. QED
  BY <1>11, <1>12, <1>13, <1>15, <1>16, <1>17 DEF DisciplinedInv

\* With an empty Environment the boot of a terminal never runs out of pids.
LEMMA NoFailedBoot ==
  ASSUME DisciplinedInv
  PROVE  ~TickCannotBoot
BY BootFindsPid DEF TickCannotBoot, FreePids

LEMMA UnchangedDisciplined ==
  ASSUME DisciplinedInv, SafetyInv',
         UNCHANGED <<cur_processes, pcb, terminal_array, curr_terminal, page, tss, cpu>>
  PROVE  DisciplinedInv'
BY Zenon DEF DisciplinedInv, KernelKnowsWhoRuns, SuspendedTerminalsResumable,
   WaitingParentsIntact, BootOrder, TssOfYoungest, CpuIsRunning, AllBooted, Booted, IsParent

LEMMA NextDisciplined == Environment = {} /\ DisciplinedInv /\ [Next]_vars => DisciplinedInv'
<1>. SUFFICES ASSUME Environment = {}, DisciplinedInv, [Next]_vars PROVE DisciplinedInv'
  OBVIOUS
<1>0. SafetyInv'
  BY NextSafety, DisciplinedFacts
<1>1. CASE Execute
  BY <1>1, ExecuteDisciplined
<1>2. CASE ExecuteFails \/ HaltRestartsShell \/ UNCHANGED vars
  BY <1>0, <1>2, UnchangedDisciplined DEF ExecuteFails, HaltRestartsShell, vars
<1>3. CASE HaltTeardown
  BY <1>3, HaltTeardownDisciplined
<1>4. CASE HaltReturn
  BY <1>4, HaltReturnDisciplined
<1>5. CASE TickResumes
  BY <1>5, TickResumesDisciplined
<1>6. CASE TickBoots
  BY <1>6, TickBootsDisciplined
<1>7. CASE TickCannotBoot
  BY <1>7, NoFailedBoot
<1>8. CASE Vidmap \/ \E t \in Terminals : SwitchScreen(t)
  BY <1>0, <1>8, UnchangedDisciplined DEF Vidmap, SwitchScreen
<1>. QED
  BY <1>1, <1>2, <1>3, <1>4, <1>5, <1>6, <1>7, <1>8 DEF Next, SystemCall, Tick

LEMMA DisciplinedInvariance == ASSUME Environment = {} PROVE Spec => []DisciplinedInv
<1>1. DisciplinedInv /\ [Next]_vars => DisciplinedInv'
  BY NextDisciplined
<1>. QED  BY <1>1, InitDisciplined, PTL DEF Spec

(***************************************************************************)
(* When nobody executes before the terminals are up or in the background,  *)
(* and no tick hits the tail of halt, the thread on the processor is the   *)
(* one the kernel believes it to be: page directory, tss.esp0 and          *)
(* terminal_array agree with the stack in use.                             *)
(***************************************************************************)
THEOREM KernelAgreesWithCpu == ASSUME Environment = {} PROVE Spec => []KernelKnowsWhoRuns
<1>1. DisciplinedInv => KernelKnowsWhoRuns
  BY DEF DisciplinedInv
<1>. QED  BY <1>1, DisciplinedInvariance, PTL

(***************************************************************************)
(* Under the same assumption every terminal the scheduler may turn to is   *)
(* suspended on its own process's kernel stack.                            *)
(***************************************************************************)
THEOREM TerminalsResumable ==
  ASSUME Environment = {} PROVE Spec => []SuspendedTerminalsResumable
<1>1. DisciplinedInv => SuspendedTerminalsResumable
  BY DEF DisciplinedInv
<1>. QED  BY <1>1, DisciplinedInvariance, PTL

(***************************************************************************)
(* Under the same assumption what a process saved in system_execute stays  *)
(* in its PCB until system_halt of its child loads it.                     *)
(***************************************************************************)
THEOREM ParentsIntact == ASSUME Environment = {} PROVE Spec => []WaitingParentsIntact
<1>1. DisciplinedInv => WaitingParentsIntact
  BY DEF DisciplinedInv
<1>. QED  BY <1>1, DisciplinedInvariance, PTL

\* Whoever runs in user mode is nobody's live parent.
OnlyYoungestRun == \A p \in Pids : cpu = UserThread(p) => ~IsParent(p)

(***************************************************************************)
(* Under the same assumption nothing but the halt of its child gets a      *)
(* process out of system_execute: whoever the processor turns to is a      *)
(* youngest process, and that is nobody's live parent.                     *)
(***************************************************************************)
THEOREM ReturnsAfterChild ==
  ASSUME Environment = {} PROVE Spec => ExecuteReturnsAfterChild
<1>1. DisciplinedInv => OnlyYoungestRun
  <2>. SUFFICES ASSUME DisciplinedInv, NEW p \in Pids, cpu = UserThread(p)
                PROVE  ~IsParent(p)
    BY DEF OnlyYoungestRun
  <2>1. p = terminal_array[curr_terminal].pid
    BY DEF DisciplinedInv, KernelKnowsWhoRuns, UserThread
  <2>2. curr_terminal \in Terminals /\ p \in cur_processes
    BY <2>1 DEF DisciplinedInv, SafetyInv, TypeOK, ChainsAreSound, ScheduledTerminalBooted,
       CpuIsRunning
  <2>. QED  BY <2>1, <2>2 DEF DisciplinedInv, SafetyInv, ChainsAreSound, Youngest
<1>2. OnlyYoungestRun' =>
        [\A p \in Pids :
           pcb[p].ctx = ExecuteFrame(p) /\ cpu # cpu' /\ cpu' = UserThread(p)
             => ~IsParent(p)']_vars
  BY DEF OnlyYoungestRun, UserThread
<1>. QED  BY <1>1, <1>2, DisciplinedInvariance, PTL DEF ExecuteReturnsAfterChild

-----------------------------------------------------------------------------
(***************************************************************************)
(* The chain of parent_pid links.  Chain computes it from the youngest     *)
(* process downwards; IsChainOf says what it is.  That the two agree is an *)
(* argument about the least number of links at which they would not.       *)
(***************************************************************************)
Below == {p \in Nat \X Nat : p[1] < p[2]}

\* A set of numbers that is not empty has a least one.
LEMMA LeastNumber ==
  ASSUME NEW T, T \subseteq Nat, T # {}
  PROVE  \E m \in T : \A k \in T : m <= k
<1>1. IsWellFoundedOn(Below, Nat)
  BY NatLessThanWellFounded DEF OpToRel, Below
<1>2. ASSUME NEW x \in Nat, NEW y \in Nat, x < y PROVE <<x, y>> \in Below
  BY <1>2 DEF Below
<1>3. PICK m \in T : \A k \in T : ~ (<<k, m>> \in Below)
  BY <1>1, WFMin
<1>4. ASSUME NEW k \in T PROVE m <= k
  <2>1. k \in Nat /\ m \in Nat
    OBVIOUS
  <2>2. k < m => <<k, m>> \in Below
    BY <1>2, <2>1
  <2>. QED  BY <2>1, <2>2, <1>3
<1>. QED  BY <1>4

\* c is the chain of p: no pid twice, each the child of the one before.
IsChainOf(c, p, pcbs) ==
  /\ c \in Seq(Pids) /\ Len(c) # 0
  /\ c[Len(c)] = p
  /\ pcbs[c[1]].parent = BASE_SHELL
  /\ \A i \in 2 .. Len(c) : pcbs[c[i]].parent = c[i - 1]
  /\ \A i, j \in 1 .. Len(c) : c[i] = c[j] => i = j

LEMMA ChainLength ==
  ASSUME NEW c, NEW p, NEW pcbs, IsChainOf(c, p, pcbs)
  PROVE  Len(c) \in Nat /\ Len(c) <= NumProcesses
<1>1. Len(c) \in Nat /\ c \in [1 .. Len(c) -> Pids]
  BY DEF IsChainOf
<1>2. c \in Injection(1 .. Len(c), Pids)
  BY <1>1 DEF IsChainOf, Injection, IsInjective
<1>3. IsFiniteSet(Pids) /\ Cardinality(Pids) = NumProcesses
  <2>1. NumProcesses \in Nat /\ NumProcesses > 0
    OBVIOUS
  <2>2. IsFiniteSet(0 .. NumProcesses - 1) /\ Cardinality(0 .. NumProcesses - 1) = NumProcesses
    BY <2>1, FS_Interval
  <2>. QED  BY <2>2 DEF Pids
<1>4. Cardinality(1 .. Len(c)) = Len(c)
  BY <1>1, FS_Interval
<1>5. Cardinality(1 .. Len(c)) <= Cardinality(Pids)
  BY <1>2, <1>3, FS_Injection
<1>. QED  BY <1>1, <1>3, <1>4, <1>5

\* The youngest n + 1 of a chain.
Top(c, n) ==
  LET m == IF n < Len(c) THEN n + 1 ELSE Len(c)
  IN [i \in 1 .. m |-> c[Len(c) - m + i]]

LEMMA Prolong ==
  ASSUME NEW e \in Pids, NEW m \in Nat, NEW s \in [1 .. m -> Pids]
  PROVE  <<e>> \o s = [i \in 1 .. m + 1 |-> IF i = 1 THEN e ELSE s[i - 1]]
<1>1. s \in Seq(Pids) /\ Len(s) = m /\ <<e>> \in Seq(Pids) /\ Len(<<e>>) = 1 /\ <<e>>[1] = e
  OBVIOUS
<1>. QED  BY <1>1

LEMMA TopProlonged ==
  ASSUME NEW c, NEW p, NEW pcbs, IsChainOf(c, p, pcbs), NEW n \in Nat \ {0}
  PROVE  Top(c, n) = LET chain == Top(c, n - 1)
                         up == pcbs[chain[1]].parent
                     IN IF up \in Pids THEN <<up>> \o chain ELSE chain
<1>. DEFINE chain == Top(c, n - 1)
           up == pcbs[chain[1]].parent
           l == Len(c)
<1>1. /\ l \in Nat /\ l # 0 /\ c \in [1 .. l -> Pids] /\ BASE_SHELL \notin Pids
      /\ pcbs[c[1]].parent = BASE_SHELL
      /\ \A i \in 2 .. l : pcbs[c[i]].parent = c[i - 1]
  BY DEF IsChainOf, Pids
<1>. HIDE DEF l
<1>2. CASE n < l
  <2>1. chain = [i \in 1 .. n |-> c[l - n + i]]
    <3>1. (IF n - 1 < l THEN n - 1 + 1 ELSE l) = n
      BY <1>1, <1>2
    <3>2. chain = LET m == n IN [i \in 1 .. m |-> c[l - m + i]]
      BY <3>1, Zenon DEF Top, l
    <3>. QED  BY <3>2
  <2>2. chain \in [1 .. n -> Pids] /\ chain[1] = c[l - n + 1]
    BY <1>1, <1>2, <2>1
  <2>3. up = c[l - n] /\ up \in Pids
    <3>1. l - n + 1 \in 2 .. l /\ l - n + 1 - 1 = l - n /\ l - n \in 1 .. l
      BY <1>1, <1>2
    <3>. QED  BY <1>1, <2>2, <3>1
  <2>. HIDE DEF chain, up
  <2>4. <<up>> \o chain = [i \in 1 .. n + 1 |-> IF i = 1 THEN up ELSE chain[i - 1]]
    BY <2>2, <2>3, Prolong
  <2>5. Top(c, n) = [i \in 1 .. n + 1 |-> c[l - (n + 1) + i]]
    BY <1>1, <1>2 DEF Top, l
  <2>6. \A i \in 1 .. n + 1 : (IF i = 1 THEN up ELSE chain[i - 1]) = c[l - (n + 1) + i]
    <3>. SUFFICES ASSUME NEW i \in 1 .. n + 1
                  PROVE  (IF i = 1 THEN up ELSE chain[i - 1]) = c[l - (n + 1) + i]
      OBVIOUS
    <3>1. CASE i = 1
      <4>1. l - (n + 1) + i = l - n
        BY <1>1, <3>1
      <4>. QED  BY <2>3, <3>1, <4>1
    <3>2. CASE i # 1
      <4>1. i - 1 \in 1 .. n /\ l - n + (i - 1) = l - (n + 1) + i
        BY <1>1, <3>2
      <4>2. chain[i - 1] = c[l - n + (i - 1)]
        BY <2>1, <4>1
      <4>. QED  BY <3>2, <4>1, <4>2
    <3>. QED  BY <3>1, <3>2
  <2>7. Top(c, n) = <<up>> \o chain
    BY <2>4, <2>5, <2>6
  <2>. QED  BY <2>3, <2>7 DEF chain, up
<1>3. CASE ~(n < l)
  <2>1. chain = [i \in 1 .. l |-> c[i]] /\ Top(c, n) = [i \in 1 .. l |-> c[i]]
    <3>1. (IF n - 1 < l THEN n - 1 + 1 ELSE l) = l /\ (IF n < l THEN n + 1 ELSE l) = l
      BY <1>1, <1>3
    <3>2. \A i \in 1 .. l : l - l + i = i
      BY <1>1
    <3>. QED  BY <3>1, <3>2 DEF Top, l
  <2>2. chain[1] = c[1]
    BY <1>1, <2>1
  <2>3. up \notin Pids
    BY <1>1, <2>2
  <2>. QED  BY <2>1, <2>3
<1>. QED  BY <1>2, <1>3

LEMMA ChainFound ==
  ASSUME NEW c, NEW p, NEW pcbs, IsChainOf(c, p, pcbs)
  PROVE  ChainOf(p, pcbs) = c
<1>. DEFINE N == NumProcesses
            l == Len(c)
            Up(chain) == IF pcbs[chain[1]].parent \in Pids
                           THEN <<pcbs[chain[1]].parent>> \o chain ELSE chain
            Is(f) == f = [n \in 0 .. N |-> IF n = 0 THEN <<p>> ELSE Up(f[n - 1])]
            prolonged == CHOOSE f : Is(f)
            g == [n \in 0 .. N |-> Top(c, n)]
<1>1. ChainOf(p, pcbs) = prolonged[N]
  BY DEF ChainOf
<1>2. /\ N \in Nat /\ l \in Nat /\ l # 0 /\ l <= N
      /\ c \in [1 .. l -> Pids] /\ c[l] = p
  <2>1. Len(c) \in Nat /\ Len(c) <= NumProcesses
    BY ChainLength
  <2>2. c \in Seq(Pids) /\ Len(c) # 0 /\ c[Len(c)] = p
    BY DEF IsChainOf
  <2>. QED  BY <2>1, <2>2
<1>. HIDE DEF l
<1>3. Top(c, 0) = <<p>>
  <2>1. \A i \in 1 .. 1 : l - 1 + i = l
    BY <1>2
  <2>2. Top(c, 0) = [i \in 1 .. 1 |-> c[l - 1 + i]]
    BY <1>2 DEF Top, l
  <2>. QED  BY <1>2, <2>1, <2>2
<1>4. \A n \in Nat \ {0} : Top(c, n) = Up(Top(c, n - 1))
  BY TopProlonged
<1>5. Top(c, N) = c
  <2>1. (IF N < l THEN N + 1 ELSE l) = l /\ \A i \in 1 .. l : l - l + i = i
    BY <1>2
  <2>2. Top(c, N) = LET m == l IN [i \in 1 .. m |-> c[l - m + i]]
    BY <2>1, Zenon DEF Top, l
  <2>. QED  BY <1>2, <2>1, <2>2
<1>. HIDE DEF N, Up
<1>6. Is(g)
  <2>1. \A n \in 0 .. N : g[n] = IF n = 0 THEN <<p>> ELSE Up(g[n - 1])
    <3>. SUFFICES ASSUME NEW n \in 0 .. N PROVE g[n] = IF n = 0 THEN <<p>> ELSE Up(g[n - 1])
      OBVIOUS
    <3>1. CASE n = 0
      BY <1>2, <1>3, <3>1
    <3>2. CASE n # 0
      <4>1. n \in Nat \ {0} /\ n - 1 \in 0 .. N
        BY <1>2, <3>2
      <4>. QED  BY <1>4, <3>2, <4>1
    <3>. QED  BY <3>1, <3>2
  <2>2. g = [n \in 0 .. N |-> IF n = 0 THEN <<p>> ELSE Up(g[n - 1])]
    BY <2>1
  <2>. QED  BY <2>2
<1>7. Is(prolonged)
  <2>. HIDE DEF Is, g
  <2>. QED  BY <1>6, Zenon
<1>. HIDE DEF prolonged
<1>8. /\ prolonged[0] = <<p>>
      /\ \A n \in 1 .. N : prolonged[n] = Up(prolonged[n - 1])
  BY <1>2, <1>7
<1>. HIDE DEF Is, g
<1>. DEFINE T == {n \in 0 .. N : prolonged[n] # Top(c, n)}
<1>9. T = {}
  <2>. SUFFICES ASSUME T # {} PROVE FALSE
    OBVIOUS
  <2>0. T \subseteq Nat
    BY <1>2
  <2>1. PICK m \in T : \A k \in T : m <= k
    <3>. HIDE DEF T
    <3>. QED  BY <2>0, LeastNumber
  <2>2. m # 0
    BY <1>3, <1>8
  <2>3. m \in 1 .. N /\ m - 1 \in 0 .. N /\ m - 1 \notin T /\ m \in Nat \ {0}
    BY <1>2, <2>1, <2>2
  <2>4. prolonged[m - 1] = Top(c, m - 1)
    BY <2>3
  <2>5. prolonged[m] = Top(c, m)
    BY <1>4, <1>8, <2>3, <2>4
  <2>. QED  BY <2>5
<1>10. prolonged[N] = Top(c, N)
  BY <1>2, <1>9
<1>. QED  BY <1>1, <1>5, <1>10

-----------------------------------------------------------------------------
(***************************************************************************)
(* ProcessManager implements Sessions.  Every booted terminal has a chain  *)
(* of live processes, and it is the one that Chain computes.               *)
(***************************************************************************)
SessionOf(t, c) ==
  /\ IsChainOf(c, terminal_array[t].pid, pcb)
  /\ \A i \in 1 .. Len(c) : c[i] \in cur_processes
SessionsInv == \A t \in Terminals : Booted(t) => \E c : SessionOf(t, c)

LEMMA SessionFound ==
  ASSUME NEW t, NEW c
  PROVE  /\ Booted(t) /\ SessionOf(t, c) => Chain(t) = c
         /\ (Booted(t) /\ SessionOf(t, c) => Chain(t) = c)'
<1>1. ASSUME Booted(t), SessionOf(t, c) PROVE Chain(t) = c
  <2>1. PICK p, pcbs : p = terminal_array[t].pid /\ pcbs = pcb
    OBVIOUS
  <2>2. IsChainOf(c, p, pcbs)
    BY <1>1, <2>1 DEF SessionOf
  <2>3. ChainOf(p, pcbs) = c
    BY <2>2, ChainFound
  <2>. QED  BY <1>1, <2>1, <2>3 DEF Chain
<1>2. ASSUME Booted(t)', SessionOf(t, c)' PROVE Chain(t)' = c
  <2>1. PICK p, pcbs : p = terminal_array'[t].pid /\ pcbs = pcb'
    OBVIOUS
  <2>2. IsChainOf(c, p, pcbs)
    BY <1>2, <2>1 DEF SessionOf
  <2>3. ChainOf(p, pcbs) = c
    BY <2>2, ChainFound
  <2>. QED  BY <1>2, <2>1, <2>3 DEF Chain
<1>. QED  BY <1>1, <1>2

\* The chain of a terminal that no step of another one touches.
LEMMA SessionKept ==
  ASSUME NEW t \in Terminals, NEW c, SessionOf(t, c),
         terminal_array'[t].pid = terminal_array[t].pid,
         \A q \in cur_processes : pcb'[q].parent = pcb[q].parent,
         \A i \in 1 .. Len(c) : c[i] \in cur_processes'
  PROVE  SessionOf(t, c)'
<1>1. PICK p, a, b : p = terminal_array[t].pid /\ a = pcb /\ b = pcb'
  OBVIOUS
<1>2. IsChainOf(c, p, a) /\ \A i \in 1 .. Len(c) : b[c[i]].parent = a[c[i]].parent
  BY <1>1 DEF SessionOf
<1>3. IsChainOf(c, p, b)
  <2>1. Len(c) \in Nat /\ Len(c) # 0
    BY <1>2, ChainLength DEF IsChainOf
  <2>2. 1 \in 1 .. Len(c) /\ \A i \in 2 .. Len(c) : i \in 1 .. Len(c)
    BY <2>1
  <2>. QED  BY <1>2, <2>2 DEF IsChainOf
<1>. QED  BY <1>1, <1>3 DEF SessionOf

\* In the disciplined surroundings the running program is the youngest of the
\* terminal being scheduled, the last of its chain.
LEMMA RunningIsYoungest ==
  /\ DisciplinedInv => Running = terminal_array[curr_terminal].pid
  /\ (DisciplinedInv => Running = terminal_array[curr_terminal].pid)'
BY DEF DisciplinedInv, KernelKnowsWhoRuns, CpuIsRunning, Running, UserThread

LEMMA LastOfSession ==
  ASSUME NEW t \in Terminals, NEW c
  PROVE  /\ Booted(t) /\ SessionOf(t, c) =>
              Session[t] = c /\ c # <<>> /\ S!Last(Session[t]) = terminal_array[t].pid
         /\ (Booted(t) /\ SessionOf(t, c) =>
              Session[t] = c /\ c # <<>> /\ S!Last(Session[t]) = terminal_array[t].pid)'
<1>1. /\ Booted(t) /\ SessionOf(t, c) => Session[t] = c
      /\ (Booted(t) /\ SessionOf(t, c) => Session[t] = c)'
  BY SessionFound DEF Session
<1>2. /\ SessionOf(t, c) => c # <<>> /\ c[Len(c)] = terminal_array[t].pid
      /\ (SessionOf(t, c) => c # <<>> /\ c[Len(c)] = terminal_array[t].pid)'
  BY DEF SessionOf, IsChainOf
<1>. QED  BY <1>1, <1>2 DEF S!Last

\* Steps that leave every chain alone.
LEMMA SessionsKept ==
  ASSUME DisciplinedInv, SessionsInv,
         UNCHANGED <<cur_processes, terminal_array>>,
         \A q \in Pids : pcb'[q].parent = pcb[q].parent
  PROVE  SessionsInv' /\ Session' = Session
<1>1. cur_processes \subseteq Pids /\ \A s \in Terminals : Booted(s)' <=> Booted(s)
  BY DisciplinedFacts DEF TypeOK, Booted
<1>2. ASSUME NEW s \in Terminals, Booted(s)
      PROVE  \E c : SessionOf(s, c)' /\ Chain(s) = c /\ Chain(s)' = c
  <2>1. PICK c : SessionOf(s, c)
    BY <1>2 DEF SessionsInv
  <2>2. \A i \in 1 .. Len(c) : c[i] \in cur_processes'
    BY <2>1 DEF SessionOf
  <2>3. SessionOf(s, c)'
    BY <1>1, <2>1, <2>2, SessionKept
  <2>. QED  BY <1>1, <1>2, <2>1, <2>3, SessionFound
<1>3. \A s \in Terminals : Chain(s)' = Chain(s)
  <2>1. \A s \in Terminals : ~Booted(s) => Chain(s)' = Chain(s)
    BY <1>1 DEF Chain
  <2>. QED  BY <1>2, <2>1
<1>. QED  BY <1>1, <1>2, <1>3 DEF SessionsInv, Session

\* A program on top of a chain, and the chain without its youngest.
LEMMA ChainGrows ==
  ASSUME NEW c, NEW p, NEW a, NEW b, IsChainOf(c, p, a),
         NEW new \in Pids, \A i \in 1 .. Len(c) : c[i] # new,
         \A i \in 1 .. Len(c) : b[c[i]].parent = a[c[i]].parent,
         b[new].parent = p
  PROVE  IsChainOf(Append(c, new), new, b)
<1>. DEFINE d == Append(c, new)
            l == Len(c)
<1>1. /\ c \in Seq(Pids) /\ l \in Nat /\ l # 0 /\ c[l] = p
      /\ a[c[1]].parent = BASE_SHELL
      /\ \A i \in 2 .. l : a[c[i]].parent = c[i - 1]
      /\ \A i, j \in 1 .. l : c[i] = c[j] => i = j
  BY ChainLength DEF IsChainOf
<1>2. /\ d \in Seq(Pids) /\ Len(d) = l + 1 /\ d[l + 1] = new
      /\ \A i \in 1 .. l : d[i] = c[i]
  BY <1>1
<1>. HIDE DEF d, l
<1>3. /\ \A i \in 1 .. l : c[i] # new
      /\ \A i \in 1 .. l : b[c[i]].parent = a[c[i]].parent
  BY DEF l
<1>4. 1 \in 1 .. l /\ l \in 1 .. l /\ l + 1 - 1 = l
  BY <1>1
<1>5. b[d[1]].parent = BASE_SHELL
  BY <1>1, <1>2, <1>3, <1>4
<1>6. ASSUME NEW i \in 2 .. l + 1 PROVE b[d[i]].parent = d[i - 1]
  <2>1. CASE i = l + 1
    BY <1>1, <1>2, <1>4, <2>1
  <2>2. CASE i # l + 1
    <3>1. i \in 2 .. l /\ i \in 1 .. l /\ i - 1 \in 1 .. l
      BY <1>1, <2>2
    <3>. QED  BY <1>1, <1>2, <1>3, <3>1
  <2>. QED  BY <2>1, <2>2
<1>7. ASSUME NEW i \in 1 .. l + 1, NEW j \in 1 .. l + 1, d[i] = d[j] PROVE i = j
  <2>1. (i = l + 1 \/ i \in 1 .. l) /\ (j = l + 1 \/ j \in 1 .. l)
    BY <1>1
  <2>. QED  BY <1>1, <1>2, <1>3, <1>7, <2>1
<1>8. Len(d) # 0 /\ d[Len(d)] = new
  BY <1>1, <1>2
<1>9. IsChainOf(d, new, b)
  BY <1>2, <1>5, <1>6, <1>7, <1>8 DEF IsChainOf
<1>. QED  BY <1>9 DEF d

LEMMA ChainShrinks ==
  ASSUME NEW c, NEW p, NEW a, IsChainOf(c, p, a), a[p].parent # BASE_SHELL
  PROVE  /\ Len(c) > 1
         /\ IsChainOf(S!Front(c), a[p].parent, a)
         /\ Len(S!Front(c)) = Len(c) - 1
         /\ \A i \in 1 .. Len(c) - 1 : S!Front(c)[i] = c[i]
<1>. DEFINE d == S!Front(c)
            l == Len(c)
<1>1. /\ c \in Seq(Pids) /\ l \in Nat /\ l # 0 /\ c[l] = p
      /\ a[c[1]].parent = BASE_SHELL
      /\ \A i \in 2 .. l : a[c[i]].parent = c[i - 1]
      /\ \A i, j \in 1 .. l : c[i] = c[j] => i = j
  BY ChainLength DEF IsChainOf
<1>2. l > 1
  <2>1. l # 1
    BY <1>1
  <2>. QED  BY <1>1, <2>1
<1>3. /\ d \in Seq(Pids) /\ Len(d) = l - 1
      /\ \A i \in 1 .. l - 1 : d[i] = c[i]
  BY <1>1, <1>2 DEF S!Front
<1>. HIDE DEF d, l
<1>4. /\ l - 1 \in 1 .. l - 1 /\ 1 \in 1 .. l - 1 /\ l \in 2 .. l /\ l - 1 # 0
      /\ \A i \in 1 .. l - 1 : i \in 1 .. l
      /\ \A i \in 2 .. l - 1 : i \in 2 .. l /\ i \in 1 .. l - 1 /\ i - 1 \in 1 .. l - 1
  BY <1>1, <1>2
<1>5. d[l - 1] = a[p].parent
  BY <1>1, <1>3, <1>4
<1>6. a[d[1]].parent = BASE_SHELL
  BY <1>1, <1>3, <1>4
<1>7. \A i \in 2 .. l - 1 : a[d[i]].parent = d[i - 1]
  BY <1>1, <1>3, <1>4
<1>8. \A i, j \in 1 .. l - 1 : d[i] = d[j] => i = j
  BY <1>1, <1>3, <1>4
<1>9. IsChainOf(d, a[p].parent, a)
  BY <1>3, <1>4, <1>5, <1>6, <1>7, <1>8 DEF IsChainOf
<1>. QED  BY <1>2, <1>3, <1>9 DEF d, l

\* The chain of a fresh base shell.
LEMMA ChainOfShell ==
  ASSUME NEW p \in Pids, NEW a, a[p].parent = BASE_SHELL
  PROVE  IsChainOf(<<p>>, p, a)
<1>. DEFINE d == <<p>>
<1>1. d \in Seq(Pids) /\ Len(d) = 1 /\ d[1] = p
  OBVIOUS
<1>. HIDE DEF d
<1>2. IsChainOf(d, p, a)
  BY <1>1 DEF IsChainOf
<1>. QED  BY <1>2 DEF d

\* The programs of all sessions are live processes.
LEMMA SessionsLive ==
  ASSUME DisciplinedInv, SessionsInv PROVE S!Live \subseteq cur_processes
<1>. SUFFICES ASSUME NEW t \in Terminals, NEW i \in DOMAIN Session[t]
              PROVE  Session[t][i] \in cur_processes
  BY DEF S!Live, S!ToSet, S!Terminals, Terminals
<1>1. CASE Booted(t)
  <2>1. PICK c : SessionOf(t, c)
    BY <1>1 DEF SessionsInv
  <2>2. Session[t] = c
    BY <1>1, <2>1, LastOfSession
  <2>3. DOMAIN c = 1 .. Len(c)
    BY <2>1 DEF SessionOf, IsChainOf
  <2>. QED  BY <2>1, <2>2, <2>3 DEF SessionOf
<1>2. CASE ~Booted(t)
  BY <1>2 DEF Session, Chain
<1>. QED  BY <1>1, <1>2

(***************************************************************************)
(* The steps: execute is Begin, the taking down in halt is Leave, a tick   *)
(* is Serve or ServeNew.                                                   *)
(***************************************************************************)
LEMMA ExecuteBegins ==
  ASSUME Environment = {}, DisciplinedInv, SessionsInv, Execute
  PROVE  SessionsInv' /\ \E p \in Pids : S!Begin(p)
<1>. DEFINE t == curr_terminal
<1>1. /\ screen_terminal = t /\ t \in Terminals /\ Booted(t)
      /\ base_shell = FALSE
      /\ TypeOK /\ ChainsAreSound /\ pcb \in [Pids -> PcbRecords]
      /\ terminal_array \in [Terminals -> TerminalRecords]
      /\ UNCHANGED <<curr_terminal, screen_terminal>>
  BY DisciplinedFacts DEF Execute
<1>2. PICK y \in Pids : y = terminal_array[t].pid /\ y \in cur_processes /\ y # BASE_SHELL
  BY <1>1, DisciplinedFacts, LivePids
<1>3. PICK new \in Pids : StartProcess(new, t, FALSE, pcb, terminal_array)
  BY <1>1 DEF Execute
<1>. DEFINE saved == [pcb EXCEPT ![y].ctx = ExecuteFrame(cpu.stack)]
            linked == [saved EXCEPT ![new].parent = y]
<1>4. /\ new \notin cur_processes
      /\ cur_processes' = cur_processes \cup {new}
      /\ pcb' = ForgetStack(new, linked)
      /\ terminal_array' = HandOver(terminal_array, t, t, new)
      /\ cpu' = UserThread(new)
  BY <1>1, <1>2, <1>3, Zenon DEF StartProcess, FreePids
<1>5. /\ pcb'[new].parent = y
      /\ \A q \in Pids \ {new} : pcb'[q].parent = pcb[q].parent
  <2>0. cpu.stack = y
    BY <1>1, <1>2, UserThreadIsYoungest, FrameOwners DEF Execute
  <2>1. /\ saved \in [Pids -> PcbRecords]
        /\ \A q \in Pids : saved[q].parent = pcb[q].parent
    BY <1>1, <1>2, <2>0, UserThreadType DEF PcbRecords
  <2>. HIDE DEF saved
  <2>2. /\ linked \in [Pids -> PcbRecords]
        /\ linked[new].parent = y
        /\ \A q \in Pids \ {new} : linked[q].parent = pcb[q].parent
    BY <1>2, <2>1 DEF PcbRecords
  <2>. HIDE DEF linked
  <2>. QED  BY <1>4, <2>2, ForgetStackType
<1>6. /\ terminal_array'[t].pid = new
      /\ \A s \in Terminals : terminal_array'[s].flag = terminal_array[s].flag
      /\ \A s \in Terminals \ {t} : terminal_array'[s].pid = terminal_array[s].pid
  BY <1>1, <1>4, HandOverType
<1>. HIDE DEF saved, linked
<1>7. cur_processes \subseteq Pids /\ \A q \in cur_processes : pcb'[q].parent = pcb[q].parent
  BY <1>1, <1>4, <1>5, LivePids
<1>8. \A s \in Terminals : Booted(s)' <=> Booted(s)
  BY <1>6 DEF Booted
<1>9. ASSUME NEW s \in Terminals \ {t}
      PROVE  Session'[s] = Session[s] /\ (Booted(s)' => \E c : SessionOf(s, c)')
  <2>1. CASE Booted(s)
    <3>1. PICK c : SessionOf(s, c)
      BY <2>1 DEF SessionsInv
    <3>2. \A i \in 1 .. Len(c) : c[i] \in cur_processes'
      BY <1>4, <3>1 DEF SessionOf
    <3>3. SessionOf(s, c)'
      BY <1>6, <1>7, <3>1, <3>2, SessionKept
    <3>. QED  BY <1>8, <2>1, <3>1, <3>3, LastOfSession
  <2>2. CASE ~Booted(s)
    BY <1>8, <2>2 DEF Session, Chain
  <2>. QED  BY <2>1, <2>2
<1>10. PICK c : SessionOf(t, c)
  BY <1>1 DEF SessionsInv
<1>11. SessionOf(t, Append(c, new))'
  <2>1. PICK a, b : a = pcb /\ b = pcb'
    OBVIOUS
  <2>2. IsChainOf(c, y, a) /\ \A i \in 1 .. Len(c) : c[i] \in cur_processes
    BY <1>2, <1>10, <2>1 DEF SessionOf
  <2>3. /\ \A i \in 1 .. Len(c) : c[i] # new
        /\ \A i \in 1 .. Len(c) : b[c[i]].parent = a[c[i]].parent
        /\ b[new].parent = y
    BY <1>4, <1>5, <1>7, <2>1, <2>2
  <2>4. IsChainOf(Append(c, new), new, b)
    BY <2>2, <2>3, ChainGrows
  <2>5. \A i \in 1 .. Len(Append(c, new)) : Append(c, new)[i] \in cur_processes'
    <3>1. c \in Seq(Pids) /\ Len(c) \in Nat
      BY <2>2, ChainLength DEF IsChainOf
    <3>. QED  BY <1>4, <2>2, <3>1
  <2>. QED  BY <1>1, <1>6, <2>1, <2>4, <2>5 DEF SessionOf
<1>12. /\ Session[t] = c /\ Session'[t] = Append(c, new)
       /\ S!Last(Session[t]) = y
  BY <1>1, <1>2, <1>8, <1>10, <1>11, LastOfSession
<1>13. Session' = [Session EXCEPT ![t] = Append(@, new)]
  <2>1. \A s \in Terminals : Session'[s] = IF s = t THEN Append(Session[t], new) ELSE Session[s]
    BY <1>9, <1>12
  <2>2. Session' = [s \in Terminals |-> Session'[s]] /\ Session = [s \in Terminals |-> Session[s]]
    BY DEF Session
  <2>. QED  BY <1>1, <2>1, <2>2
<1>14. SessionsInv'
  BY <1>1, <1>9, <1>11 DEF SessionsInv
<1>15. Running = y /\ Running' = new
  BY <1>2, <1>4, RunningIsYoungest DEF Running, UserThread
<1>16. new \notin S!Live
  BY <1>4, SessionsLive
<1>. QED  BY <1>1, <1>12, <1>13, <1>14, <1>15, <1>16 DEF S!Begin

LEMMA HaltLeaves ==
  ASSUME DisciplinedInv, SessionsInv, HaltTeardown
  PROVE  SessionsInv' /\ S!Leave
<1>. DEFINE t == curr_terminal
<1>1. /\ t \in Terminals /\ Booted(t)
      /\ TypeOK /\ ChainsAreSound
      /\ terminal_array \in [Terminals -> TerminalRecords]
  BY DisciplinedFacts
<1>2. PICK y \in Pids : y = terminal_array[t].pid /\ y \in cur_processes
  BY <1>1, DisciplinedFacts
<1>3. pcb[y].parent # BASE_SHELL /\ pcb[y].parent \in cur_processes
  BY <1>1, <1>2 DEF HaltTeardown, HaltingBaseShell, Release, ChainsAreSound
<1>4. PICK parent \in Pids : parent = pcb[y].parent
  BY <1>1, <1>2, <1>3, LivePids
<1>5. /\ cur_processes' = cur_processes \ {y}
      /\ terminal_array' = HandOver(terminal_array, t, t, parent)
      /\ cpu'.at = "halt" /\ cpu'.parent = parent
      /\ UNCHANGED <<pcb, curr_terminal>>
  BY <1>2, <1>4 DEF HaltTeardown, HaltingBaseShell, Release
<1>6. /\ terminal_array'[t].pid = parent
      /\ \A s \in Terminals : terminal_array'[s].flag = terminal_array[s].flag
      /\ \A s \in Terminals \ {t} : terminal_array'[s].pid = terminal_array[s].pid
  BY <1>1, <1>5, HandOverType
<1>7. \A s \in Terminals : Booted(s)' <=> Booted(s)
  BY <1>6 DEF Booted
<1>8. ~IsParent(y)
  BY <1>1, <1>2 DEF ChainsAreSound, Youngest
<1>9. ASSUME NEW s \in Terminals \ {t}
      PROVE  Session'[s] = Session[s] /\ (Booted(s)' => \E c : SessionOf(s, c)')
  <2>1. CASE Booted(s)
    <3>1. PICK c : SessionOf(s, c)
      BY <2>1 DEF SessionsInv
    <3>2. PICK l \in Nat : l = Len(c) /\ l # 0
      BY <3>1, ChainLength DEF SessionOf, IsChainOf
    <3>3. /\ c[l] = terminal_array[s].pid
          /\ \A i \in 1 .. l : c[i] \in cur_processes
          /\ \A i \in 2 .. l : pcb[c[i]].parent = c[i - 1]
      BY <3>1, <3>2 DEF SessionOf, IsChainOf
    <3>4. c[l] # y
      BY <1>1, <1>2, <3>3, LivePids DEF ChainsAreSound
    <3>5. ASSUME NEW i \in 1 .. l, i # l PROVE c[i] # y
      <4>1. i + 1 \in 2 .. l /\ i + 1 \in 1 .. l /\ i + 1 - 1 = i
        BY <3>2, <3>5
      <4>2. c[i + 1] \in cur_processes /\ pcb[c[i + 1]].parent = c[i]
        BY <3>3, <4>1
      <4>. QED  BY <1>8, <4>2 DEF IsParent
    <3>6. \A i \in 1 .. Len(c) : c[i] \in cur_processes'
      BY <1>5, <3>2, <3>3, <3>4, <3>5
    <3>7. SessionOf(s, c)'
      BY <1>5, <1>6, <3>1, <3>6, SessionKept
    <3>. QED  BY <1>7, <2>1, <3>1, <3>7, LastOfSession
  <2>2. CASE ~Booted(s)
    BY <1>7, <2>2 DEF Session, Chain
  <2>. QED  BY <2>1, <2>2
<1>10. PICK c : SessionOf(t, c)
  BY <1>1 DEF SessionsInv
<1>11. Len(c) > 1 /\ SessionOf(t, S!Front(c))'
  <2>1. PICK a : a = pcb /\ a = pcb'
    BY <1>5
  <2>2. IsChainOf(c, y, a) /\ a[y].parent = parent /\ a[y].parent # BASE_SHELL
    BY <1>2, <1>3, <1>4, <1>10, <2>1 DEF SessionOf
  <2>3. /\ Len(c) > 1
        /\ IsChainOf(S!Front(c), parent, a)
        /\ Len(S!Front(c)) = Len(c) - 1
        /\ \A i \in 1 .. Len(c) - 1 : S!Front(c)[i] = c[i]
    BY <2>2, ChainShrinks
  <2>4. PICK l \in Nat : l = Len(c)
    BY <2>2, ChainLength
  <2>5. \A i \in 1 .. l - 1 : S!Front(c)[i] = c[i] /\ c[i] \in cur_processes /\ c[i] # y
    <3>1. \A i \in 1 .. l - 1 : i \in 1 .. l /\ l \in 1 .. l /\ i # l
      BY <2>4
    <3>2. c[l] = y /\ \A i, j \in 1 .. l : c[i] = c[j] => i = j
      BY <2>2, <2>4 DEF IsChainOf
    <3>3. \A i \in 1 .. l : c[i] \in cur_processes
      BY <1>10, <2>4 DEF SessionOf
    <3>. QED  BY <2>3, <2>4, <3>1, <3>2, <3>3
  <2>6. \A i \in 1 .. Len(S!Front(c)) : S!Front(c)[i] \in cur_processes'
    BY <1>5, <2>3, <2>4, <2>5
  <2>. QED  BY <1>5, <1>6, <2>1, <2>3, <2>6 DEF SessionOf
<1>12. /\ Session[t] = c /\ Session'[t] = S!Front(c)
       /\ S!Last(Session'[t]) = parent
  BY <1>1, <1>5, <1>6, <1>7, <1>10, <1>11, LastOfSession
<1>13. Session' = [Session EXCEPT ![t] = S!Front(@)]
  <2>1. \A s \in Terminals : Session'[s] = IF s = t THEN S!Front(Session[t]) ELSE Session[s]
    BY <1>9, <1>12
  <2>2. Session' = [s \in Terminals |-> Session'[s]] /\ Session = [s \in Terminals |-> Session[s]]
    BY DEF Session
  <2>. QED  BY <1>1, <2>1, <2>2
<1>14. SessionsInv'
  BY <1>1, <1>5, <1>9, <1>11 DEF SessionsInv
<1>15. Running' = parent
  BY <1>5 DEF Running
<1>. QED  BY <1>5, <1>11, <1>12, <1>13, <1>14, <1>15 DEF S!Leave

LEMMA TickServes ==
  ASSUME DisciplinedInv, DisciplinedInv', SessionsInv, TickResumes
  PROVE  SessionsInv' /\ S!Serve
<1>1. /\ curr_terminal \in Terminals /\ NextTerminal \in Terminals
      /\ Booted(curr_terminal) /\ Booted(NextTerminal)
      /\ SafetyInv /\ InterruptsOn /\ pcb \in [Pids -> PcbRecords]
      /\ curr_terminal' = NextTerminal
      /\ UNCHANGED <<cur_processes, terminal_array>>
  BY DisciplinedFacts, NextTerminalType DEF TickResumes, Interrupted, InterruptsOn
<1>2. /\ SavedPcbs \in [Pids -> PcbRecords]
      /\ \A p \in Pids : SavedPcbs[p].parent = pcb[p].parent
  BY <1>1, SavedPcbsType
<1>3. PICK z \in Pids : z = terminal_array[NextTerminal].pid
  BY <1>1, DisciplinedFacts
<1>4. \A q \in Pids : pcb'[q].parent = pcb[q].parent
  <2>1. PICK ctx, saved : /\ ctx = SavedPcbs[z].ctx /\ saved = SavedPcbs
                          /\ pcb' = IF ctx.at = "halt" THEN saved ELSE ForgetStack(ctx.stack, saved)
    BY <1>3, Zenon DEF TickResumes, Resume
  <2>2. saved \in [Pids -> PcbRecords] /\ \A p \in Pids : saved[p].parent = pcb[p].parent
    BY <1>2, <2>1
  <2>3. CASE ctx.at = "halt"
    BY <2>1, <2>2, <2>3
  <2>4. CASE ctx.at # "halt"
    <3>1. pcb' = ForgetStack(ctx.stack, saved)
      BY <2>1, <2>4
    <3>. QED  BY <2>2, <3>1, ForgetStackType
  <2>. QED  BY <2>3, <2>4
<1>5. SessionsInv' /\ Session' = Session
  BY <1>1, <1>4, SessionsKept
<1>6. PICK n \in Terminals : n = NextTerminal /\ n = curr_terminal' /\ Booted(n)
  BY <1>1
<1>7. PICK c : SessionOf(n, c)
  BY <1>6 DEF SessionsInv
<1>8. Session[n] # <<>> /\ S!Last(Session[n]) = terminal_array[n].pid
  BY <1>6, <1>7, LastOfSession
<1>9. Running' = terminal_array[n].pid
  BY <1>1, <1>6, RunningIsYoungest
<1>. QED  BY <1>1, <1>5, <1>6, <1>8, <1>9 DEF S!Serve, NextTerminal

LEMMA TickServesNew ==
  ASSUME DisciplinedInv, DisciplinedInv', SessionsInv, TickBoots
  PROVE  SessionsInv' /\ \E p \in Pids : S!ServeNew(p)
<1>1. /\ curr_terminal \in Terminals
      /\ SafetyInv /\ TypeOK /\ InterruptsOn /\ pcb \in [Pids -> PcbRecords]
      /\ terminal_array \in [Terminals -> TerminalRecords]
      /\ curr_terminal' = NextTerminal
  BY DisciplinedFacts DEF TickBoots, Interrupted, InterruptsOn
<1>2. PICK n \in Terminals : n = NextTerminal /\ ~Booted(n) /\ n = curr_terminal'
  BY <1>1, NextTerminalType DEF TickBoots
<1>3. PICK new \in Pids : StartProcess(new, n, TRUE, SavedPcbs,
                             [terminal_array EXCEPT ![n].flag = 1])
  BY <1>2 DEF TickBoots
<1>. DEFINE flagged == [terminal_array EXCEPT ![n].flag = 1]
            linked == [SavedPcbs EXCEPT ![new].parent = BASE_SHELL]
<1>4. /\ new \notin cur_processes
      /\ cur_processes' = cur_processes \cup {new}
      /\ pcb' = ForgetStack(new, linked)
      /\ terminal_array' = HandOver(flagged, n, n, new)
      /\ cpu' = UserThread(new)
  BY <1>3, Zenon DEF StartProcess, FreePids
<1>5. /\ SavedPcbs \in [Pids -> PcbRecords]
      /\ \A p \in Pids : SavedPcbs[p].parent = pcb[p].parent
  BY <1>1, SavedPcbsType
<1>6. /\ pcb'[new].parent = BASE_SHELL
      /\ \A q \in Pids \ {new} : pcb'[q].parent = pcb[q].parent
  <2>1. /\ linked \in [Pids -> PcbRecords]
        /\ linked[new].parent = BASE_SHELL
        /\ \A q \in Pids \ {new} : linked[q].parent = pcb[q].parent
    BY <1>5 DEF PcbRecords
  <2>. HIDE DEF linked
  <2>. QED  BY <1>4, <2>1, ForgetStackType
<1>7. /\ terminal_array'[n].pid = new /\ terminal_array'[n].flag = 1
      /\ \A s \in Terminals \ {n} : /\ terminal_array'[s].pid = terminal_array[s].pid
                                   /\ terminal_array'[s].flag = terminal_array[s].flag
  <2>1. /\ flagged \in [Terminals -> TerminalRecords]
        /\ flagged[n].flag = 1
        /\ \A s \in Terminals \ {n} : flagged[s] = terminal_array[s]
    BY <1>1 DEF TerminalRecords
  <2>. HIDE DEF flagged
  <2>. QED  BY <1>4, <2>1, HandOverType
<1>. HIDE DEF flagged, linked
<1>8. \A q \in cur_processes : pcb'[q].parent = pcb[q].parent
  BY <1>1, <1>4, <1>6, LivePids
<1>9. Booted(n)' /\ \A s \in Terminals \ {n} : Booted(s)' <=> Booted(s)
  BY <1>7 DEF Booted
<1>10. ASSUME NEW s \in Terminals \ {n}
       PROVE  Session'[s] = Session[s] /\ (Booted(s)' => \E c : SessionOf(s, c)')
  <2>1. CASE Booted(s)
    <3>1. PICK c : SessionOf(s, c)
      BY <2>1 DEF SessionsInv
    <3>2. \A i \in 1 .. Len(c) : c[i] \in cur_processes'
      BY <1>4, <3>1 DEF SessionOf
    <3>3. SessionOf(s, c)'
      BY <1>7, <1>8, <3>1, <3>2, SessionKept
    <3>. QED  BY <1>9, <2>1, <3>1, <3>3, LastOfSession
  <2>2. CASE ~Booted(s)
    BY <1>9, <2>2 DEF Session, Chain
  <2>. QED  BY <2>1, <2>2
<1>11. SessionOf(n, <<new>>)'
  <2>1. PICK b : b = pcb'
    OBVIOUS
  <2>2. IsChainOf(<<new>>, new, b)
    BY <1>6, <2>1, ChainOfShell
  <2>3. \A i \in 1 .. Len(<<new>>) : <<new>>[i] \in cur_processes'
    BY <1>4
  <2>. QED  BY <1>7, <2>1, <2>2, <2>3 DEF SessionOf
<1>12. Session[n] = <<>> /\ Session'[n] = <<new>>
  <2>1. Session[n] = <<>>
    BY <1>2 DEF Session, Chain
  <2>. QED  BY <1>9, <1>11, <2>1, LastOfSession
<1>13. Session' = [Session EXCEPT ![n] = <<new>>]
  <2>1. \A s \in Terminals : Session'[s] = IF s = n THEN <<new>> ELSE Session[s]
    BY <1>10, <1>12
  <2>2. Session' = [s \in Terminals |-> Session'[s]] /\ Session = [s \in Terminals |-> Session[s]]
    BY DEF Session
  <2>. QED  BY <2>1, <2>2
<1>14. SessionsInv'
  BY <1>10, <1>11 DEF SessionsInv
<1>15. Running' = new
  BY <1>4 DEF Running, UserThread
<1>16. new \notin S!Live
  BY <1>4, SessionsLive
<1>. QED  BY <1>1, <1>2, <1>12, <1>13, <1>14, <1>15, <1>16 DEF S!ServeNew, NextTerminal

LEMMA HaltReturnKeeps ==
  ASSUME DisciplinedInv, DisciplinedInv', SessionsInv, HaltReturn
  PROVE  SessionsInv' /\ UNCHANGED S!vars
<1>1. /\ curr_terminal \in Terminals
      /\ pcb \in [Pids -> PcbRecords]
      /\ UNCHANGED <<cur_processes, terminal_array, curr_terminal>>
  BY DisciplinedFacts DEF HaltReturn
<1>2. \A q \in Pids : pcb'[q].parent = pcb[q].parent
  <2>1. PICK ctx : pcb' = IF ctx.at = "halt" THEN pcb ELSE ForgetStack(ctx.stack, pcb)
    BY Zenon DEF HaltReturn, Resume
  <2>2. CASE ctx.at = "halt"
    BY <2>1, <2>2
  <2>3. CASE ctx.at # "halt"
    <3>1. pcb' = ForgetStack(ctx.stack, pcb)
      BY <2>1, <2>3
    <3>. QED  BY <1>1, <3>1, ForgetStackType
  <2>. QED  BY <2>2, <2>3
<1>3. SessionsInv' /\ Session' = Session
  BY <1>1, <1>2, SessionsKept
<1>4. Running' = Running
  BY <1>1, RunningIsYoungest
<1>. QED  BY <1>1, <1>3, <1>4 DEF S!vars

LEMMA DisplayKeepsSessions ==
  ASSUME DisciplinedInv, SessionsInv,
         UNCHANGED <<cur_processes, pcb, terminal_array, curr_terminal, cpu>>
  PROVE  SessionsInv' /\ UNCHANGED S!vars
<1>1. SessionsInv' /\ Session' = Session
  BY SessionsKept
<1>. QED  BY <1>1 DEF S!vars, Running

LEMMA InitSessions == Init => SessionsInv /\ S!Init
<1>. SUFFICES ASSUME Init PROVE SessionsInv /\ S!Init
  OBVIOUS
<1>1. 0 \in Pids /\ 0 \in Terminals /\ NoPid # BASE_SHELL
  BY DEF Pids, Terminals, NoPid
<1>2. /\ terminal_array[0].pid = 0 /\ Booted(0)
      /\ \A t \in Terminals \ {0} : ~Booted(t)
      /\ pcb[0].parent = BASE_SHELL /\ 0 \in cur_processes
      /\ curr_terminal = 0 /\ Running = 0
  BY <1>1 DEF Init, Booted, Running, UserThread
<1>3. SessionOf(0, <<0>>)
  <2>1. PICK a : a = pcb
    OBVIOUS
  <2>2. IsChainOf(<<0>>, 0, a)
    BY <1>1, <1>2, <2>1, ChainOfShell
  <2>. QED  BY <1>2, <2>1, <2>2 DEF SessionOf
<1>4. Session = [t \in S!Terminals |-> IF t = 0 THEN <<0>> ELSE <<>>]
  <2>1. Session[0] = <<0>>
    BY <1>1, <1>2, <1>3, LastOfSession
  <2>2. \A t \in Terminals \ {0} : Session[t] = <<>>
    BY <1>2 DEF Session, Chain
  <2>3. Session = [t \in Terminals |-> Session[t]] /\ S!Terminals = Terminals
    BY DEF Session, S!Terminals, Terminals
  <2>. QED  BY <2>1, <2>2, <2>3
<1>. QED  BY <1>2, <1>3, <1>4 DEF SessionsInv, S!Init

LEMMA NextSessions ==
  ASSUME Environment = {}
  PROVE  DisciplinedInv /\ DisciplinedInv' /\ SessionsInv /\ [Next]_vars
           => SessionsInv' /\ [S!Next]_(S!vars)
<1>. SUFFICES ASSUME DisciplinedInv, DisciplinedInv', SessionsInv, [Next]_vars
              PROVE  SessionsInv' /\ [S!Next]_(S!vars)
  OBVIOUS
<1>0. S!Pids = Pids
  BY DEF S!Pids, Pids
<1>1. CASE Execute
  BY <1>0, <1>1, ExecuteBegins DEF S!Next
<1>2. CASE ExecuteFails \/ HaltRestartsShell \/ UNCHANGED vars
  BY <1>2, DisplayKeepsSessions DEF ExecuteFails, HaltRestartsShell, vars
<1>3. CASE HaltTeardown
  BY <1>3, HaltLeaves DEF S!Next
<1>4. CASE HaltReturn
  BY <1>4, HaltReturnKeeps
<1>5. CASE TickResumes
  BY <1>5, TickServes DEF S!Next
<1>6. CASE TickBoots
  BY <1>0, <1>6, TickServesNew DEF S!Next
<1>7. CASE TickCannotBoot
  BY <1>7, NoFailedBoot
<1>8. CASE Vidmap \/ \E t \in Terminals : SwitchScreen(t)
  BY <1>8, DisplayKeepsSessions DEF Vidmap, SwitchScreen
<1>. QED
  BY <1>1, <1>2, <1>3, <1>4, <1>5, <1>6, <1>7, <1>8 DEF Next, SystemCall, Tick

(***************************************************************************)
(* Under the same assumption the parent links, saved stack pointers and    *)
(* terminal slots of the kernel amount to one stack of programs per        *)
(* terminal: execute pushes, halt pops, a tick turns to the top of the     *)
(* next stack, and nothing else changes what runs.                         *)
(***************************************************************************)
THEOREM SessionsImplemented == ASSUME Environment = {} PROVE Spec => ImplementsSessions
<1>1. Init => SessionsInv /\ S!Init
  BY InitSessions
<1>2. DisciplinedInv /\ DisciplinedInv' /\ SessionsInv /\ [Next]_vars
        => SessionsInv' /\ [S!Next]_(S!vars)
  BY NextSessions
<1>. QED  BY <1>1, <1>2, DisciplinedInvariance, PTL DEF Spec, ImplementsSessions, S!Spec

-----------------------------------------------------------------------------
(***************************************************************************)
(* Paging, also for every number of terminals and of processes: it only    *)
(* adds to the process manager, the cached translations are never stale,   *)
(* and programs are apart.  The invariant is that the directory is a       *)
(* function of two things the process manager knows, the process mapped    *)
(* and whether anybody called vidmap (DirectoryFollows).                   *)
(***************************************************************************)
Directory(p, mapped) ==
  [i \in Indices |->
     CASE i = USER_ADDR_INDEX -> ProgramEntry(p)
       [] i = VidmapIndex -> IF mapped THEN VidmapEntry ELSE Absent
       [] OTHER -> init_page[i]]

DirectoryFollows == page_directory = Directory(page, vid_map.present)

VideoPageSet == vid_map.present => vid_map.page # UnsetPage

TlbFollows == tlb \subseteq UNION {Walk(v) : v \in {ProgramPage, VidmapPage}}

PagingInv == DirectoryFollows /\ VideoPageSet /\ TlbFollows

-----------------------------------------------------------------------------
(***************************************************************************)
(* Paging only adds to the process manager: what was proved of Spec holds. *)
(***************************************************************************)
LEMMA PagedSteps == [PagingNext]_allVars => [Next]_vars
BY DEF PagingNext, PagedCall, PagedTick, PagedVidmap, PagedSwitch, PagedOther, Fetch,
   Next, SystemCall, Tick, allVars, vars

(***************************************************************************)
(* Every behaviour with paging is one of the process manager: execute,     *)
(* halt, the scheduler and switch_screen behave as proved there.           *)
(***************************************************************************)
THEOREM PagingImplementsProcessManager == PagingSpec => Spec
<1>1. PagingInit => Init
  BY DEF PagingInit
<1>. QED  BY <1>1, PagedSteps, PTL DEF PagingSpec, Spec

-----------------------------------------------------------------------------
(***************************************************************************)
(* The directory after each kind of write.                                 *)
(***************************************************************************)
LEMMA DirectoryWrites ==
  ASSUME NEW p, NEW q, NEW mapped \in BOOLEAN
  PROVE  /\ q \in Pids => process_page(Directory(p, mapped), q) = Directory(q, mapped)
         /\ q \notin Pids => process_page(Directory(p, mapped), q) = Directory(p, mapped)
         /\ process_page(init_page, 0) = Directory(0, FALSE)
         /\ system_vidmap(Directory(p, mapped)) = Directory(p, TRUE)
<1>. DEFINE before == Directory(p, mapped)
<1>1. /\ before = [i \in Indices |-> before[i]]
      /\ before[USER_ADDR_INDEX] = ProgramEntry(p)
      /\ before[VidmapIndex] = IF mapped THEN VidmapEntry ELSE Absent
      /\ \A i \in Indices \ {USER_ADDR_INDEX, VidmapIndex} : before[i] = init_page[i]
  BY DEF Directory, Indices, USER_ADDR_INDEX, VidmapIndex
<1>2. USER_ADDR_INDEX \in Indices /\ VidmapIndex \in Indices /\ USER_ADDR_INDEX # VidmapIndex
  BY DEF Indices, USER_ADDR_INDEX, VidmapIndex
<1>. HIDE DEF before
<1>3. ASSUME q \in Pids PROVE process_page(before, q) = Directory(q, mapped)
  <2>1. process_page(before, q) = [before EXCEPT ![USER_ADDR_INDEX] = ProgramEntry(q)]
    BY <1>3 DEF process_page
  <2>. QED  BY <1>1, <1>2, <2>1 DEF Directory
<1>4. q \notin Pids => process_page(before, q) = before
  BY DEF process_page
<1>5. process_page(init_page, 0) = Directory(0, FALSE)
  <2>1. process_page(init_page, 0) = [init_page EXCEPT ![USER_ADDR_INDEX] = ProgramEntry(0)]
    BY DEF process_page, Pids
  <2>2. init_page = [i \in Indices |-> init_page[i]] /\ init_page[VidmapIndex] = Absent
    BY <1>2 DEF init_page, VidmapIndex, USER_ADDR_INDEX
  <2>. QED  BY <1>2, <2>1, <2>2 DEF Directory
<1>6. system_vidmap(before) = Directory(p, TRUE)
  <2>1. system_vidmap(before) = [before EXCEPT ![VidmapIndex] = VidmapEntry]
    BY DEF system_vidmap
  <2>. QED  BY <1>1, <1>2, <2>1 DEF Directory
<1>. QED  BY <1>3, <1>4, <1>5, <1>6 DEF before

LEMMA FlushForgets == \A cached : flushTLB(cached) = {}
BY DEF flushTLB, cr4

LEMMA VidMapKept ==
  ASSUME TypeOK, Tick
  PROVE  /\ vid_map'.present = vid_map.present
         /\ vid_map' = vid_map \/ vid_map'.page # UnsetPage
<1>1. vid_map \in [page : VideoPages, present : BOOLEAN] /\ curr_terminal \in Terminals
  BY DEF TypeOK
<1>2. NextTerminal \in Terminals
  BY <1>1, NextTerminalType
<1>3. VideoPageOf(NextTerminal, screen_terminal) # UnsetPage
  BY <1>2 DEF VideoPageOf, ScreenPage, BackupPage, UnsetPage, Terminals
<1>4. CASE vid_map' = [vid_map EXCEPT !.page = VideoPageOf(NextTerminal, screen_terminal)]
  BY <1>1, <1>3, <1>4
<1>5. CASE UNCHANGED vid_map
  BY <1>5
<1>. QED  BY <1>4, <1>5 DEF Tick, TickResumes, TickBoots, TickCannotBoot

LEMMA TickMaps ==
  ASSUME SafetyInv, Tick
  PROVE  \/ page' \in Pids /\ terminal_array'[curr_terminal'].pid = page'
         \/ page' = page /\ terminal_array'[curr_terminal'].pid \notin Pids
<1>1. /\ curr_terminal \in Terminals
      /\ terminal_array \in [Terminals -> TerminalRecords]
      /\ \A t \in Terminals : ~Booted(t) => terminal_array[t].pid = NoPid
  BY DEF SafetyInv, TypeOK, ChainsAreSound, TerminalRecords
<1>2. NextTerminal \in Terminals
  BY <1>1, NextTerminalType
<1>3. CASE TickResumes
  <2>1. page' \in Pids
    BY <1>3, NextSafety DEF SafetyInv, TypeOK, Next, Tick
  <2>. QED  BY <1>3, <2>1 DEF TickResumes, Interrupted
<1>4. CASE TickBoots
  <2>. DEFINE terms == [terminal_array EXCEPT ![NextTerminal].flag = 1]
  <2>1. terms \in [Terminals -> TerminalRecords]
    BY <1>1, <1>2 DEF TerminalRecords
  <2>2. PICK new \in Pids : StartProcess(new, NextTerminal, TRUE, SavedPcbs, terms)
    BY <1>4 DEF TickBoots
  <2>. HIDE DEF terms
  <2>3. page' = new /\ terminal_array' = HandOver(terms, NextTerminal, NextTerminal, new)
    BY <2>2 DEF StartProcess
  <2>4. terminal_array'[NextTerminal].pid = new
    BY <1>2, <2>1, <2>3, HandOverType
  <2>. QED  BY <1>4, <2>3, <2>4 DEF TickBoots, Interrupted
<1>5. CASE TickCannotBoot
  <2>1. terminal_array'[NextTerminal].pid = NoPid
    BY <1>1, <1>2, <1>5 DEF TickCannotBoot, TerminalRecords
  <2>. QED  BY <1>5, <2>1 DEF TickCannotBoot, Interrupted, NoPid, Pids
<1>. QED  BY <1>3, <1>4, <1>5 DEF Tick

-----------------------------------------------------------------------------
(***************************************************************************)
(* The invariant.                                                          *)
(***************************************************************************)
LEMMA PagingInitial == PagingInit => PagingInv
<1>. SUFFICES ASSUME PagingInit PROVE PagingInv
  OBVIOUS
<1>1. page = 0 /\ vid_map = [page |-> UnsetPage, present |-> FALSE]
  BY DEF PagingInit, Init
<1>2. DirectoryFollows
  BY <1>1, DirectoryWrites DEF PagingInit, DirectoryFollows
<1>. QED  BY <1>1, <1>2 DEF PagingInit, PagingInv, VideoPageSet, TlbFollows

\* A reload makes the directory follow, and leaves nothing that could be stale.
LEMMA ReloadStep ==
  ASSUME PagingInv, vid_map.present \in BOOLEAN, NEW p, Reload(p),
         p \in Pids => page' = p, p \notin Pids => page' = page,
         vid_map'.present = vid_map.present,
         vid_map' = vid_map \/ vid_map'.page # UnsetPage
  PROVE  PagingInv'
<1>1. page_directory = Directory(page, vid_map.present) /\ VideoPageSet
  BY DEF PagingInv, DirectoryFollows
<1>2. page_directory' = process_page(Directory(page, vid_map.present), p)
  BY <1>1 DEF Reload
<1>3. DirectoryFollows'
  <2>1. CASE p \in Pids
    <3>1. page_directory' = Directory(p, vid_map.present)
      BY <1>2, <2>1, DirectoryWrites
    <3>. QED  BY <2>1, <3>1 DEF DirectoryFollows
  <2>2. CASE p \notin Pids
    <3>1. page_directory' = Directory(page, vid_map.present)
      BY <1>2, <2>2, DirectoryWrites
    <3>. QED  BY <2>2, <3>1 DEF DirectoryFollows
  <2>. QED  BY <2>1, <2>2
<1>4. tlb' = {}
  BY FlushForgets DEF Reload
<1>. QED  BY <1>1, <1>3, <1>4 DEF PagingInv, VideoPageSet, TlbFollows

LEMMA WalkKept ==
  ASSUME UNCHANGED <<page_directory, vid_map>>
  PROVE  \A v : Walk(v)' = Walk(v)
BY Zenon DEF Walk, vid_map_table, page_table

LEMMA PagingInductive ==
  SafetyInv /\ PagingInv /\ [PagingNext]_allVars => PagingInv'
<1>. SUFFICES ASSUME SafetyInv, PagingInv, [PagingNext]_allVars PROVE PagingInv'
  OBVIOUS
<1>1. /\ TypeOK
      /\ vid_map \in [page : VideoPages, present : BOOLEAN]
  BY DEF SafetyInv, TypeOK
<1>2. TypeOK'
  BY PagedSteps, NextSafety DEF SafetyInv
<1>3. CASE PagedCall
  <2>1. UNCHANGED vid_map
    BY <1>3 DEF PagedCall, Execute, HaltTeardown
  <2>2. page' \in Pids
    BY <1>2 DEF TypeOK
  <2>. QED  BY <1>1, <1>3, <2>1, <2>2, ReloadStep DEF PagedCall
<1>4. CASE PagedTick
  <2>1. Tick /\ Reload(terminal_array'[curr_terminal'].pid)
    BY <1>4 DEF PagedTick
  <2>. QED  BY <1>1, <2>1, TickMaps, VidMapKept, ReloadStep
<1>5. CASE PagedVidmap
  <2>1. vid_map' = [page |-> ScreenPage, present |-> TRUE] /\ page' = page
    BY <1>5 DEF PagedVidmap, Vidmap
  <2>2. page_directory' = Directory(page, TRUE)
    BY <1>1, <1>5, DirectoryWrites DEF PagedVidmap, PagingInv, DirectoryFollows
  <2>3. tlb' = {}
    BY <1>5, FlushForgets DEF PagedVidmap
  <2>. QED
    BY <2>1, <2>2, <2>3 DEF PagingInv, DirectoryFollows, VideoPageSet, TlbFollows, ScreenPage,
       UnsetPage
<1>6. CASE \E t \in Terminals : PagedSwitch(t)
  <2>1. /\ vid_map' = [vid_map EXCEPT !.page = BackupPage(screen_terminal)]
        /\ page' = page /\ page_directory' = page_directory
    BY <1>6 DEF PagedSwitch, SwitchScreen
  <2>2. vid_map'.present = vid_map.present /\ vid_map'.page # UnsetPage
    BY <1>1, <2>1 DEF TypeOK, BackupPage, UnsetPage, Terminals
  <2>3. tlb' = {}
    BY <1>6, FlushForgets DEF PagedSwitch
  <2>. QED
    BY <2>1, <2>2, <2>3 DEF PagingInv, DirectoryFollows, VideoPageSet, TlbFollows
<1>7. CASE PagedOther \/ UNCHANGED allVars
  <2>1. UNCHANGED <<page, vid_map, page_directory, tlb>>
    BY <1>7 DEF PagedOther, ExecuteFails, HaltRestartsShell, HaltReturn, allVars, vars, pagingVars
  <2>2. TlbFollows'
    BY <2>1, WalkKept DEF PagingInv, TlbFollows
  <2>. QED  BY <2>1, <2>2 DEF PagingInv, DirectoryFollows, VideoPageSet
<1>8. CASE \E v \in VirtualPages : Fetch(v)
  <2>1. PICK v \in {ProgramPage, VidmapPage} : Fetch(v)
    BY <1>8 DEF Fetch
  <2>2. UNCHANGED <<page, vid_map, page_directory>> /\ tlb' = tlb \cup Walk(v)
    BY <2>1 DEF Fetch, vars
  <2>3. \A w : Walk(w)' = Walk(w)
    BY <2>2, WalkKept
  <2>4. TlbFollows'
    BY <2>1, <2>2, <2>3 DEF PagingInv, TlbFollows
  <2>. QED  BY <2>2, <2>4 DEF PagingInv, DirectoryFollows, VideoPageSet
<1>. QED  BY <1>3, <1>4, <1>5, <1>6, <1>7, <1>8 DEF PagingNext

LEMMA PagingInvariance == PagingSpec => [](SafetyInv /\ PagingInv)
<1>1. PagingInit => Init
  BY DEF PagingInit
<1>2. SafetyInv /\ [PagingNext]_allVars => SafetyInv'
  BY PagedSteps, NextSafety
<1>. QED  BY <1>1, <1>2, InitSafety, PagingInitial, PagingInductive, PTL DEF PagingSpec

-----------------------------------------------------------------------------
(***************************************************************************)
(* What the tables say of each page.                                       *)
(***************************************************************************)
LEMMA WalkNamesPage == \A v : \A c \in Walk(v) : c.page = v
BY DEF Walk, Translation

(***************************************************************************)
(* Whatever the surroundings do, no translation the processor keeps        *)
(* outlives the entry it was made of.                                      *)
(***************************************************************************)
THEOREM TranslationsFresh == PagingSpec => []NoStaleTranslation
<1>1. PagingInv => NoStaleTranslation
  BY WalkNamesPage DEF PagingInv, TlbFollows, NoStaleTranslation
<1>. QED  BY <1>1, PagingInvariance, PTL
(***************************************************************************)
(* The translations there are when the directory follows.                  *)
(***************************************************************************)
LEMMA DirectoryEntries ==
  ASSUME PagingInv
  PROVE  /\ page_directory[0] = TableEntry /\ page_directory[1] = KernelEntry
         /\ page_directory[USER_ADDR_INDEX] = ProgramEntry(page)
         /\ page_directory[VidmapIndex] = IF vid_map.present THEN VidmapEntry ELSE Absent
<1>1. page_directory = Directory(page, vid_map.present)
  BY DEF PagingInv, DirectoryFollows
<1>2. /\ {0, 1, USER_ADDR_INDEX, VidmapIndex} = Indices
      /\ 0 # USER_ADDR_INDEX /\ 0 # VidmapIndex /\ 1 # USER_ADDR_INDEX /\ 1 # VidmapIndex
      /\ VidmapIndex # USER_ADDR_INDEX
  BY DEF Indices, USER_ADDR_INDEX, VidmapIndex
<1>. QED  BY <1>1, <1>2 DEF Directory, init_page

LEMMA ProgramWalk ==
  ASSUME PagingInv
  PROVE  Walk(ProgramPage) = {Translation(ProgramPage, ProgramFrame(page), TRUE, TRUE)}
<1>1. page_directory[ProgramPage[1]] = ProgramEntry(page)
  BY DirectoryEntries DEF ProgramPage
<1>. QED  BY <1>1 DEF Walk, ProgramEntry, ProgramFrame

LEMMA KernelWalk ==
  ASSUME PagingInv
  PROVE  Walk(KernelPage) = {Translation(KernelPage, KernelFrame, FALSE, FALSE)}
<1>1. page_directory[KernelPage[1]] = KernelEntry
  BY DirectoryEntries DEF KernelPage
<1>. QED  BY <1>1 DEF Walk, KernelEntry, KernelFrame

LEMMA LowWalk ==
  ASSUME PagingInv, NEW v, v[1] = 0, NEW c \in Walk(v)
  PROVE  ~c.user
<1>1. page_directory[v[1]] = TableEntry
  BY DirectoryEntries
<1>2. /\ page_directory[v[1]].present /\ page_directory[v[1]].size = "table"
      /\ ~page_directory[v[1]].user
  BY <1>1 DEF TableEntry
<1>3. c = Translation(v, VideoFrame(page_table(v[2]).number - VIDEO),
                      page_directory[v[1]].user /\ page_table(v[2]).user, FALSE)
  <2>1. page_directory[v[1]].size # "4MB"
    BY <1>2
  <2>. QED  BY Zenon, <1>2, <2>1 DEF Walk
<1>. QED  BY Zenon, <1>2, <1>3 DEF Translation

LEMMA VidmapWalk ==
  ASSUME TypeOK, PagingInv, NEW c \in Walk(VidmapPage)
  PROVE  c.frame \in {VideoFrame(n) : n \in 0 .. NumTerminals}
<1>1. page_directory[VidmapPage[1]] = IF vid_map.present THEN VidmapEntry ELSE Absent
  BY DirectoryEntries DEF VidmapPage
<1>2. vid_map.present
  <2>1. ~vid_map.present => ~page_directory[VidmapPage[1]].present
    BY <1>1 DEF Absent
  <2>2. ~page_directory[VidmapPage[1]].present => Walk(VidmapPage) = {}
    BY DEF Walk
  <2>. QED  BY <2>1, <2>2
<1>3. vid_map.page \in 0 .. NumTerminals
  BY <1>2 DEF TypeOK, PagingInv, VideoPageSet, VideoPages, ScreenPage, BackupPage, Terminals
<1>4. vid_map_table(VidmapPage[2]).number = VIDEO + vid_map.page
  BY <1>2 DEF vid_map_table, VidmapPage, PagingInv, VideoPageSet
<1>5. VidmapPage[1] # 0
  BY DEF VidmapPage, VidmapIndex, USER_ADDR_INDEX
<1>6. c.frame = VideoFrame(vid_map_table(VidmapPage[2]).number - VIDEO)
  BY <1>1, <1>2, <1>5 DEF Walk, VidmapEntry, Translation
<1>7. vid_map_table(VidmapPage[2]).number - VIDEO = vid_map.page
  BY <1>3, <1>4 DEF VIDEO
<1>8. c.frame = VideoFrame(vid_map.page)
  BY <1>6, <1>7
<1>. QED  BY <1>3, <1>8

LEMMA ReachIsWalk ==
  ASSUME PagingInv, NEW v
  PROVE  Reach(v) = Walk(v)
BY WalkNamesPage DEF PagingInv, TlbFollows, Reach

(***************************************************************************)
(* In the disciplined surroundings a program reaches its own memory and    *)
(* video pages and nothing else, at every moment it runs: execute, halt    *)
(* and the scheduler map the process whose stack they then use.            *)
(***************************************************************************)
THEOREM ProgramsIsolated == ASSUME Environment = {} PROVE PagingSpec => []ProgramsApart
<1>1. DisciplinedInv /\ PagingInv => ProgramsApart
  <2>. SUFFICES ASSUME DisciplinedInv, PagingInv, cpu.at = "user" PROVE ProgramsApart
    BY DEF ProgramsApart
  <2>1. TypeOK
    BY DEF DisciplinedInv, SafetyInv
  <2>2. page = cpu.stack
    BY DEF DisciplinedInv, KernelKnowsWhoRuns, UserThread
  <2>3. {c.frame : c \in Reach(ProgramPage)} = {ProgramFrame(cpu.stack)}
    <3>1. Reach(ProgramPage) = {Translation(ProgramPage, ProgramFrame(cpu.stack), TRUE, TRUE)}
      BY <2>2, ReachIsWalk, ProgramWalk
    <3>. QED  BY <3>1 DEF Translation
  <2>4. ASSUME NEW v \in VirtualPages, NEW c \in Reach(v), c.user
        PROVE  \/ v = ProgramPage
               \/ v = VidmapPage /\ c.frame \in {VideoFrame(n) : n \in 0 .. NumTerminals}
    <3>1. c \in Walk(v)
      BY <2>4, ReachIsWalk
    <3>2. v # KernelPage
      BY <2>4, <3>1, KernelWalk DEF Translation
    <3>3. v[1] # 0
      BY <2>4, <3>1, LowWalk
    <3>4. CASE v = VidmapPage
      BY <2>1, <3>1, <3>4, VidmapWalk
    <3>. QED  BY <3>2, <3>3, <3>4 DEF VirtualPages, NullPage, VideoPage
  <2>5. \E c \in Reach(KernelPage) : c.frame = KernelFrame /\ ~c.user
    <3>1. Reach(KernelPage) = {Translation(KernelPage, KernelFrame, FALSE, FALSE)}
      BY ReachIsWalk, KernelWalk
    <3>. QED  BY <3>1 DEF Translation
  <2>. QED  BY <2>3, <2>4, <2>5 DEF ProgramsApart
<1>2. PagingSpec => []PagingInv
  BY PagingInvariance, PTL
<1>. QED  BY <1>1, <1>2, PagingImplementsProcessManager, DisciplinedInvariance, PTL
=============================================================================
