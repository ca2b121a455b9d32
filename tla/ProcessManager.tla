--------------------------- MODULE ProcessManager ---------------------------
(***************************************************************************)
(* Processes, kernel stacks and the scheduler: system_execute, system_halt *)
(* and system_vidmap (syscalls.c), scheduler and pit_handler (pit.c) and   *)
(* switch_screen (keyboard.c).                                             *)
(*                                                                         *)
(* The three terminals are served round robin by the PIT interrupt.  Each  *)
(* terminal holds a chain of processes: the youngest one runs, the others  *)
(* wait inside system_execute for their child.  The kernel finds "the      *)
(* current process" only through terminal_array[curr_terminal].pid, and    *)
(* it stores the stack pointer of whatever it suspends in the PCB found    *)
(* that way, so the model keeps apart                                      *)
(*   - cpu, the thread that really has the processor: whose kernel stack   *)
(*     and registers are loaded, and where in the code it is;              *)
(*   - what the kernel believes: terminal_array, the PCBs, the page        *)
(*     directory and tss.esp0.                                             *)
(*                                                                         *)
(* A saved esp/ebp pair is abstracted to the continuation it stands for: a *)
(* record naming the process whose kernel stack it points into and where   *)
(* that process goes on when the pair is loaded.  The frame behind a saved *)
(* pair dies when its stack is entered again from user mode; the pair is   *)
(* then LostContext, and a processor that loads it is out of control.      *)
(***************************************************************************)
EXTENDS Integers

CONSTANTS
  NumTerminals,   \* MAX_TERMINALS, 3 in terminal.h
  NumProcesses,   \* NUM_PROCESSES, 6 in syscalls.h
  BASE_SHELL,     \* 24 in syscalls.h: the parent_pid of a base shell
  Environment     \* which of PossibleEvents the surroundings may produce

(***************************************************************************)
(* Events the code does not exclude but that a user at the keyboard makes  *)
(* rare.  The disciplined runs assume them away, the others allow them.    *)
(*   execute_before_boot   a program executes another one before the first *)
(*                         ticks have started every base shell             *)
(*   background_execute    a process whose terminal is not on the screen   *)
(*                         calls execute                                   *)
(*   tick_in_halt          the PIT interrupts system_halt between its      *)
(*                         sti() and the loads of the parent's esp and ebp *)
(***************************************************************************)
PossibleEvents == {"execute_before_boot", "background_execute", "tick_in_halt"}

ASSUME TerminalsAssumption == NumTerminals \in Nat \ {0}
ASSUME ProcessesAssumption ==
  /\ NumProcesses \in Nat
  /\ NumProcesses >= NumTerminals   \* every terminal gets its base shell
ASSUME BaseShellAssumption == BASE_SHELL \in Int /\ BASE_SHELL >= NumProcesses
ASSUME EnvironmentAssumption == Environment \subseteq PossibleEvents

Terminals == 0 .. NumTerminals - 1
Pids == 0 .. NumProcesses - 1
NoPid == -1        \* terminal_array[t].pid before the first shell of t

(***************************************************************************)
(* Where a thread goes on: in user mode (or in a system call that runs     *)
(* with interrupts enabled, which a tick treats alike), by returning from  *)
(* system_execute, or in system_halt between sti() and the jump to         *)
(* execute_return.  parent is halt's local variable parent_pid.            *)
(***************************************************************************)
Continuations ==
  [stack : Pids, at : {"user", "execute"}, parent : {NoPid}]
    \cup [stack : Pids, at : {"halt"}, parent : Pids]
LostContext == [stack |-> NoPid, at |-> "lost", parent |-> NoPid]
Contexts == Continuations \cup {LostContext}

UserThread(p) == [stack |-> p, at |-> "user", parent |-> NoPid]
ExecuteFrame(p) == [stack |-> p, at |-> "execute", parent |-> NoPid]

VARIABLES
  cur_processes,    \* the pids whose cur_processes[] entry is 1
  pcb,              \* per pid: parent (parent_pid), ctx (esp and ebp)
  terminal_array,   \* per terminal: pid, flag, tss (owner of base_tss_esp0)
  curr_terminal,    \* the terminal being scheduled
  screen_terminal,  \* the terminal being displayed
  base_shell,       \* the next execute starts a base shell
  page,             \* the process mapped at 128 MB (process_page)
  tss,              \* the process whose kernel stack tss.esp0 names
  vid_map,          \* vid_map[0]: page (base_addr) and present
  cpu               \* the continuation the processor is executing

vars == <<cur_processes, pcb, terminal_array, curr_terminal, screen_terminal,
          base_shell, page, tss, vid_map, cpu>>

(***************************************************************************)
(* Video pages are counted from VIDEO_ADDR: page 0 is the screen and page  *)
(* t + 1 the backup page of terminal t.                                    *)
(***************************************************************************)
ScreenPage == 0
BackupPage(t) == t + 1
UnsetPage == -1    \* base_addr as init_page leaves it: not a video page
VideoPages == {UnsetPage, ScreenPage} \cup {BackupPage(t) : t \in Terminals}

InterruptsOn == cpu.at \in {"user", "halt"}

Booted(t) == terminal_array[t].flag = 1
AllBooted == \A t \in Terminals : Booted(t)

FreePids == Pids \ cur_processes

(***************************************************************************)
(* Once the kernel stack of p is used afresh, no saved esp into it is good.*)
(***************************************************************************)
ForgetStack(p, pcbs) ==
  [q \in Pids |-> IF pcbs[q].ctx.stack = p
                    THEN [pcbs[q] EXCEPT !.ctx = LostContext]
                    ELSE pcbs[q]]

(***************************************************************************)
(* Loading a saved esp and ebp, then leave and ret.  A thread in user mode *)
(* or one that returns from execute ends up in user mode with an empty     *)
(* kernel stack; a thread in system_halt goes on there, its frames intact. *)
(***************************************************************************)
Resume(ctx, pcbs) ==
  /\ cpu' = IF ctx.at = "execute" THEN UserThread(ctx.stack) ELSE ctx
  /\ pcb' = IF ctx.at = "halt" THEN pcbs ELSE ForgetStack(ctx.stack, pcbs)

\* Mutants of HandOver: no update_tss; the terminal on the screen gets p.
HandOver_NoUpdateTss(terms, owner, curr, p) == [terms EXCEPT ![owner].pid = p]
HandOver_ToScreen(terms, owner, curr, p) ==
  [terms EXCEPT ![screen_terminal].pid = p, ![curr].tss = p]

(***************************************************************************)
(* Process p becomes the youngest one of terminal owner, and update_tss    *)
(* records its kernel stack for the scheduled terminal curr.               *)
(***************************************************************************)
HandOver(terms, owner, curr, p) ==
  [terms EXCEPT ![owner].pid = p, ![curr].tss = p]

(***************************************************************************)
(* system_execute once the file is known to be a program and new is the    *)
(* first free pid, run with curr_terminal = curr; pcbs and terms are the   *)
(* PCBs and terminals on entry.  A base shell belongs to curr.  Any other  *)
(* program belongs to the terminal on the screen: the caller's esp and ebp *)
(* go into the PCB of that terminal's youngest process.                    *)
(***************************************************************************)
StartProcess(new, curr, isBaseShell, pcbs, terms) ==
  LET owner == IF isBaseShell THEN curr ELSE screen_terminal
      parent == IF isBaseShell THEN BASE_SHELL ELSE terms[screen_terminal].pid
      saved == IF isBaseShell THEN pcbs
               ELSE [pcbs EXCEPT ![parent].ctx = ExecuteFrame(cpu.stack)]
  IN /\ new \in FreePids
     /\ \A p \in FreePids : new <= p
     /\ cur_processes' = cur_processes \cup {new}
     /\ pcb' = ForgetStack(new, [saved EXCEPT ![new].parent = parent])
     /\ terminal_array' = HandOver(terms, owner, curr, new)
     /\ base_shell' = FALSE
     /\ page' = new
     /\ tss' = new
     /\ cpu' = UserThread(new)

-----------------------------------------------------------------------------
(***************************************************************************)
(* The state entry() reaches when its execute("shell") enters user mode.   *)
(***************************************************************************)
Init ==
  /\ cur_processes = {0}
  /\ pcb = [p \in Pids |-> [parent |-> IF p = 0 THEN BASE_SHELL ELSE NoPid,
                            ctx |-> LostContext]]
  /\ terminal_array = [t \in Terminals |->
       IF t = 0 THEN [pid |-> 0, flag |-> 1, tss |-> 0]
                ELSE [pid |-> NoPid, flag |-> 0, tss |-> NoPid]]
  /\ curr_terminal = 0
  /\ screen_terminal = 0
  /\ base_shell = FALSE
  /\ page = 0
  /\ tss = 0
  /\ vid_map = [page |-> UnsetPage, present |-> FALSE]
  /\ cpu = UserThread(0)

(***************************************************************************)
(* system_execute by the running program.                                  *)
(***************************************************************************)
Execute ==
  /\ cpu.at = "user"
  /\ \/ AllBooted
     \/ "execute_before_boot" \in Environment /\ Booted(screen_terminal)
  /\ \/ curr_terminal = screen_terminal
     \/ "background_execute" \in Environment
  /\ \E new \in Pids : StartProcess(new, curr_terminal, base_shell, pcb, terminal_array)
  /\ UNCHANGED <<curr_terminal, screen_terminal, vid_map>>

(***************************************************************************)
(* system_execute returns -1: no such program, or every pid in use.        *)
(***************************************************************************)
ExecuteFails ==
  /\ cpu.at = "user"
  /\ UNCHANGED vars

\* Mutant of HaltingBaseShell: base shells are taken down like any other.
HaltingBaseShell_Never == FALSE

HaltingBaseShell ==
  /\ pcb[terminal_array[curr_terminal].pid].parent = BASE_SHELL
  /\ Booted(curr_terminal)

\* Mutant of Release: the entry of cur_processes stays in use.
Release_Forgotten(p) == cur_processes' = cur_processes

Release(p) == cur_processes' = cur_processes \ {p}

(***************************************************************************)
(* system_halt by the process the kernel takes for the current one.  A     *)
(* base shell is entered again at its first instruction; every other       *)
(* process is taken down, with interrupts off up to the sti().             *)
(***************************************************************************)
HaltRestartsShell ==
  /\ cpu.at = "user"
  /\ HaltingBaseShell
  /\ UNCHANGED vars

HaltTeardown ==
  LET halting == terminal_array[curr_terminal].pid
      parent == pcb[halting].parent
  IN /\ cpu.at = "user"
     /\ ~HaltingBaseShell
     /\ Release(halting)
     /\ terminal_array' = HandOver(terminal_array, curr_terminal, curr_terminal, parent)
     /\ page' = parent
     /\ tss' = parent
     /\ cpu' = [stack |-> cpu.stack, at |-> "halt", parent |-> parent]
     /\ UNCHANGED <<pcb, curr_terminal, screen_terminal, base_shell, vid_map>>

(***************************************************************************)
(* The end of system_halt: load parent_pcb->esp and ebp, jump to           *)
(* execute_return.                                                         *)
(***************************************************************************)
HaltReturn ==
  /\ cpu.at = "halt"
  /\ Resume(pcb[cpu.parent].ctx, pcb)
  /\ UNCHANGED <<cur_processes, terminal_array, curr_terminal, screen_terminal,
                 base_shell, page, tss, vid_map>>

-----------------------------------------------------------------------------
(***************************************************************************)
(* pit_handler and scheduler.  All three variants save the interrupted     *)
(* thread in the PCB of curr_terminal's youngest process and move on to    *)
(* the next terminal.                                                      *)
(***************************************************************************)
\* Mutant of NextTerminal: off by one, the last terminal is never reached.
NextTerminal_SkipsLast == (curr_terminal + 1) % (NumTerminals - 1)

NextTerminal == (curr_terminal + 1) % NumTerminals

\* Mutant of SavedPcbs: saves for the terminal on the screen.
SavedPcbs_OfScreen == [pcb EXCEPT ![terminal_array[screen_terminal].pid].ctx = cpu]

SavedPcbs == [pcb EXCEPT ![terminal_array[curr_terminal].pid].ctx = cpu]

Interrupted ==
  /\ InterruptsOn
  /\ cpu.at = "halt" => "tick_in_halt" \in Environment
  /\ curr_terminal' = NextTerminal

\* Mutant of VideoPageOf: one backup page too far.
VideoPageOf_OffByOne(t, screen) == IF t = screen THEN ScreenPage ELSE BackupPage(t + 1)

VideoPageOf(t, screen) == IF t = screen THEN ScreenPage ELSE BackupPage(t)

\* The next terminal has a shell: resume its youngest process.
TickResumes ==
  LET terminal == terminal_array[NextTerminal]
  IN /\ Interrupted
     /\ Booted(NextTerminal)
     /\ vid_map' = [vid_map EXCEPT !.page = VideoPageOf(NextTerminal, screen_terminal)]
     /\ page' = terminal.pid
     /\ tss' = terminal.tss
     /\ Resume(SavedPcbs[terminal.pid].ctx, SavedPcbs)
     /\ UNCHANGED <<cur_processes, terminal_array, screen_terminal, base_shell>>

\* It has none: start it, from within the interrupt.
TickBoots ==
  /\ Interrupted
  /\ ~Booted(NextTerminal)
  /\ \E new \in Pids :
       StartProcess(new, NextTerminal, TRUE, SavedPcbs,
                    [terminal_array EXCEPT ![NextTerminal].flag = 1])
  /\ UNCHANGED <<screen_terminal, vid_map>>

\* It has none and every pid is taken: execute returns to the scheduler,
\* which resumes the process of pid -1, that is, loads esp from memory
\* beyond the PCBs.
TickCannotBoot ==
  /\ Interrupted
  /\ ~Booted(NextTerminal)
  /\ FreePids = {}
  /\ terminal_array' = [terminal_array EXCEPT ![NextTerminal].flag = 1]
  /\ base_shell' = TRUE
  /\ vid_map' = [vid_map EXCEPT !.page = VideoPageOf(NextTerminal, screen_terminal)]
  /\ tss' = terminal_array[NextTerminal].tss
  /\ cpu' = LostContext
  /\ pcb' = SavedPcbs
  /\ UNCHANGED <<cur_processes, screen_terminal, page>>

Tick == TickResumes \/ TickBoots \/ TickCannotBoot

-----------------------------------------------------------------------------
(***************************************************************************)
(* switch_screen, from the keyboard interrupt of ALT-F1 .. ALT-F3.         *)
(***************************************************************************)
SwitchScreen(new_terminal) ==
  /\ InterruptsOn
  /\ vid_map' = [vid_map EXCEPT !.page = BackupPage(screen_terminal)]
  /\ screen_terminal' = new_terminal
  /\ UNCHANGED <<cur_processes, pcb, terminal_array, curr_terminal, base_shell,
                 page, tss, cpu>>

(***************************************************************************)
(* system_vidmap with a valid pointer (any other returns -1).              *)
(***************************************************************************)
Vidmap ==
  /\ cpu.at = "user"
  /\ vid_map' = [page |-> ScreenPage, present |-> TRUE]
  /\ UNCHANGED <<cur_processes, pcb, terminal_array, curr_terminal, screen_terminal,
                 base_shell, page, tss, cpu>>

SystemCall == Execute \/ ExecuteFails \/ HaltRestartsShell \/ HaltTeardown \/ Vidmap

Next ==
  \/ SystemCall
  \/ HaltReturn
  \/ Tick
  \/ \E t \in Terminals : SwitchScreen(t)

(***************************************************************************)
(* The PIT fires every 10 ms for ever and the PIC holds the request until  *)
(* the processor takes it: strong fairness, since interrupts are off in    *)
(* between.  The last instructions of halt are executed once the processor *)
(* has reached them.  Nothing obliges a program to make system calls or    *)
(* the user to press keys.                                                 *)
(***************************************************************************)
Fairness == SF_vars(Tick) /\ WF_vars(HaltReturn)

Spec == Init /\ [][Next]_vars
FairSpec == Spec /\ Fairness

-----------------------------------------------------------------------------
(***************************************************************************)
(* Properties.                                                             *)
(***************************************************************************)

\* The type invariant.
TypeOK ==
  /\ cur_processes \subseteq Pids
  /\ pcb \in [Pids -> [parent : Pids \cup {NoPid, BASE_SHELL}, ctx : Contexts]]
  /\ terminal_array \in [Terminals ->
       [pid : Pids \cup {NoPid}, flag : {0, 1}, tss : Pids \cup {NoPid}]]
  /\ curr_terminal \in Terminals
  /\ screen_terminal \in Terminals
  /\ base_shell \in BOOLEAN
  /\ page \in Pids
  /\ tss \in Pids \cup {NoPid}
  /\ vid_map \in [page : VideoPages, present : BOOLEAN]
  /\ cpu \in Contexts

Youngest(p) == \E t \in Terminals : terminal_array[t].pid = p
IsParent(p) == \E q \in cur_processes : pcb[q].parent = p

(***************************************************************************)
(* The parent_pid links of the live processes form one chain per terminal: *)
(* every live process is either the youngest process of exactly one        *)
(* terminal or the parent of exactly one live process, never both, and no  *)
(* link leads to a dead pid.  So no pid leaks, and halting one process     *)
(* never takes away another one's parent (the allocation of pids in        *)
(* system_execute and their release in system_halt).                       *)
(***************************************************************************)
ChainsAreSound ==
  /\ \A t \in Terminals :
       /\ Booted(t) /\ cpu.at # "lost" => terminal_array[t].pid \in cur_processes
       /\ ~Booted(t) => terminal_array[t].pid = NoPid
  /\ \A p \in cur_processes : pcb[p].parent \in cur_processes \cup {BASE_SHELL}
  /\ \A p \in cur_processes : Youngest(p) <=> ~IsParent(p)
  /\ \A s, t \in Terminals :
       /\ terminal_array[s].pid = terminal_array[t].pid
       /\ terminal_array[s].pid # NoPid
       => s = t
  /\ \A p, q \in cur_processes :
       pcb[p].parent = pcb[q].parent /\ pcb[p].parent # BASE_SHELL => p = q

(***************************************************************************)
(* The thread on the processor is the process the kernel takes it for: in  *)
(* user mode its stack, its mapped program and the stack its next trap     *)
(* will use all belong to the youngest process of curr_terminal; in the    *)
(* tail of system_halt they already belong to the parent.                  *)
(***************************************************************************)
KernelKnowsWhoRuns ==
  LET current == terminal_array[curr_terminal].pid
  IN /\ cpu.at = "user" => cpu = UserThread(current)
     /\ cpu.at = "halt" => cpu.parent = current
     /\ cpu.at # "lost"
     /\ page = current
     /\ tss = current

(***************************************************************************)
(* Every terminal the scheduler may turn to can be resumed: the esp and    *)
(* ebp in the PCB of its youngest process lead into that process's own     *)
(* kernel stack, and base_tss_esp0 is the top of the same stack.           *)
(***************************************************************************)
SuspendedTerminalsResumable ==
  \A t \in Terminals \ {curr_terminal} :
    LET p == terminal_array[t].pid
    IN Booted(t) => pcb[p].ctx = UserThread(p) /\ terminal_array[t].tss = p

(***************************************************************************)
(* A process that waits in system_execute keeps the esp and ebp it saved   *)
(* there, whatever its descendants and the other terminals do: this is     *)
(* what system_halt loads when the child is done.                          *)
(***************************************************************************)
WaitingParentsIntact ==
  \A p \in cur_processes :
    IsParent(p) \/ (cpu.at = "halt" /\ cpu.parent = p) => pcb[p].ctx = ExecuteFrame(p)

(***************************************************************************)
(* A thread suspended in system_execute goes on only when the child it     *)
(* waits for is no longer live ("jumps to execute return" is the only way  *)
(* out of system_execute): it is never resumed by the scheduler.           *)
(***************************************************************************)
ExecuteReturnsAfterChild ==
  [][\A p \in Pids :
       pcb[p].ctx = ExecuteFrame(p) /\ cpu # cpu' /\ cpu' = UserThread(p)
         => ~IsParent(p)']_vars

(***************************************************************************)
(* Round robin: every terminal is scheduled again and again, each time     *)
(* with a live process running in user mode.                               *)
(***************************************************************************)
EveryTerminalServed ==
  \A t \in Terminals : []<>(curr_terminal = t /\ cpu.at = "user")

(***************************************************************************)
(* Inductive strengthenings.  SafetyInv holds whatever the surroundings    *)
(* do: besides the types and the chains, the scheduled terminal has its    *)
(* shell, and base_shell is only left set when a base shell found no pid.  *)
(***************************************************************************)
ScheduledTerminalBooted == Booted(curr_terminal)
BaseShellFlagConsumed == cpu.at # "lost" => base_shell = FALSE
SafetyInv ==
  TypeOK /\ ChainsAreSound /\ ScheduledTerminalBooted /\ BaseShellFlagConsumed

(***************************************************************************)
(* DisciplinedInv holds when Environment is empty.  Until every terminal   *)
(* has been served once, the live processes are the base shells 0 .. curr, *)
(* so the next terminal always finds a free pid for its own.               *)
(***************************************************************************)
BootOrder ==
  ~AllBooted =>
    /\ cur_processes = 0 .. curr_terminal
    /\ \A t \in Terminals : Booted(t) <=> t <= curr_terminal
    /\ \A p \in cur_processes : pcb[p].parent = BASE_SHELL
CpuIsRunning == cpu.at \in {"user", "halt"}
TssOfYoungest ==
  \A t \in Terminals : Booted(t) => terminal_array[t].tss = terminal_array[t].pid
DisciplinedInv ==
  /\ SafetyInv
  /\ KernelKnowsWhoRuns
  /\ SuspendedTerminalsResumable
  /\ WaitingParentsIntact
  /\ BootOrder
  /\ TssOfYoungest
  /\ CpuIsRunning

(***************************************************************************)
(* "going to stack of new terminal" (pit.c:101): a tick leaves the         *)
(* processor with a thread of the terminal it switched to.                 *)
(***************************************************************************)
TickGoesToNewTerminal ==
  [][Tick => cpu'.stack = terminal_array'[curr_terminal'].pid]_vars
=============================================================================
