----------------------------- MODULE Interrupts -----------------------------
(***************************************************************************)
(* The two interrupt controllers (i8259.c), the descriptor table (idt.c),  *)
(* the linkage (interrupt_link.S), the order in which entry (kernel.c)     *)
(* sets things up, and the handlers as far as they mask, acknowledge, open *)
(* and leave interrupts.                                                   *)
(*                                                                         *)
(* Each terminal has a stack of frames: the handlers that are active on    *)
(* the kernel stack of the process it runs, the last one on top.  Below    *)
(* them is the program, or a system call, which comes and goes with        *)
(* interrupts on and off.  A tick leaves the stack of one terminal in the  *)
(* middle of the scheduler and goes on in the middle of the scheduler on   *)
(* the stack of the next.                                                  *)
(***************************************************************************)
EXTENDS Integers, Sequences, FiniteSets

CONSTANTS
  NumTerminals,   \* MAX_TERMINALS, 3 in terminal.h
  MaxDepth        \* bound: devices wait while a stack holds this many frames

ASSUME TerminalsAssumption == NumTerminals \in Nat \ {0}
ASSUME DepthAssumption == MaxDepth \in Nat \ {0}

Terminals == 0 .. NumTerminals - 1

PIT_IRQ == 0
KEYBOARD_IRQ == 1
SLAVE_PIC_IRQ == 2
RTC_IRQ == 8
START_SLAVE_PIC == 8
MAX_IRQS == 15
IRQs == 0 .. MAX_IRQS
Devices == {PIT_IRQ, KEYBOARD_IRQ, RTC_IRQ}

VARIABLES
  stage,          \* how many of BootSteps are done
  pic,            \* imr, irr, isr and vector bases of both controllers
  line,           \* devices that wait for a register to be read
  eflags_if,      \* the processor takes interrupts
  curr_terminal,
  booted,         \* the terminals whose base shell has been started
  frames          \* per terminal: the active handlers, the last on top

vars == <<stage, pic, line, eflags_if, curr_terminal, booted, frames>>

\* The stack that runs, and where its top frame is.
Stack == frames[curr_terminal]
Top == Stack[Len(Stack)]
At(handler, place) == Stack # <<>> /\ Top.handler = handler /\ Top.at = place

-----------------------------------------------------------------------------
(***************************************************************************)
(* The controllers: i8259_init, enable_irq and send_eoi; and which request *)
(* they pass on.  A request is held from its edge until it is taken.  The  *)
(* second controller is connected to line 2 of the first.                  *)
(***************************************************************************)
i8259_init(p) ==
  [imr |-> IRQs \ {SLAVE_PIC_IRQ}, irr |-> {}, isr |-> {}, master |-> 32, slave |-> 40]

enable_irq(p, irq) == IF irq > MAX_IRQS THEN p ELSE [p EXCEPT !.imr = @ \ {irq}]

\* Mutant of send_eoi: only to the controller the request came from.
send_eoi_One(p, irq) == IF irq > MAX_IRQS THEN p ELSE [p EXCEPT !.isr = @ \ {irq}]

send_eoi(p, irq) ==
  IF irq > MAX_IRQS
    THEN p
    ELSE [p EXCEPT !.isr = @ \ (IF irq < START_SLAVE_PIC THEN {irq} ELSE {irq, SLAVE_PIC_IRQ})]

OnMaster(irq) == irq < START_SLAVE_PIC

\* What the processor would take now: unmasked, and nothing of the same or
\* of higher priority is in service.
Deliverable ==
  {i \in pic.irr \ pic.imr :
     LET masterLine == IF OnMaster(i) THEN i ELSE SLAVE_PIC_IRQ
     IN /\ masterLine \notin pic.imr
        /\ \A j \in pic.isr : OnMaster(j) => j > masterLine
        /\ \A j \in pic.isr : ~OnMaster(j) /\ ~OnMaster(i) => j > i}

\* The numbers of the devices in use are in the order of their priority.
First(requests) == CHOOSE i \in requests : \A j \in requests : i <= j

Acknowledged(p, i) ==
  [p EXCEPT !.irr = @ \ {i},
            !.isr = @ \cup (IF OnMaster(i) THEN {i} ELSE {i, SLAVE_PIC_IRQ})]

Vector(i) == IF OnMaster(i) THEN pic.master + i ELSE pic.slave + (i - START_SLAVE_PIC)

-----------------------------------------------------------------------------
(***************************************************************************)
(* build_idt: an exception and the system call go through trap gates,      *)
(* which leave interrupts on, the three devices through interrupt gates;   *)
(* programs may use the gate of the system call only.                      *)
(***************************************************************************)
PIT == 32
KEYBOARD == 33
RTC == 40
GENERAL_PROTECTION == 13
SYSTEM_CALL_VECTOR == 128
NUM_EXCEPTIONS == 20
SKIP == 15

\* Mutant of InterruptGates: the clock keeps the trap gate of the loop.
InterruptGates_NoClock == {PIT, KEYBOARD}

InterruptGates == {PIT, KEYBOARD, RTC}

HandlerOf(vector) ==
  CASE vector = PIT -> "pit"
    [] vector = KEYBOARD -> "keyboard"
    [] vector = RTC -> "rtc"
    [] vector = SYSTEM_CALL_VECTOR -> "system_call"
    [] vector < NUM_EXCEPTIONS /\ vector # SKIP -> "exception"
    [] OTHER -> "none"

build_idt(vector) ==
  [present |-> \/ vector <= NUM_EXCEPTIONS /\ vector # SKIP
               \/ vector = SYSTEM_CALL_VECTOR
               \/ vector \in {PIT, KEYBOARD, RTC},
   interrupt_gate |-> vector \in InterruptGates,
   dpl |-> IF vector = SYSTEM_CALL_VECTOR THEN 3 ELSE 0,
   handler |-> HandlerOf(vector)]

-----------------------------------------------------------------------------
(***************************************************************************)
(* entry: interrupts stay off until the first shell is started.            *)
(***************************************************************************)
\* Mutant of BootSteps: the keyboard is enabled before the controllers are set up.
BootSteps_KeyboardFirst ==
  <<"idt_init", "init_ps2devices", "i8259_init", "init_terminal", "init_RTC",
    "init_page", "init_pit", "init_file_sys", "init_fops_table", "execute">>

BootSteps == <<"idt_init", "i8259_init", "init_ps2devices", "init_terminal", "init_RTC",
               "init_page", "init_pit", "init_file_sys", "init_fops_table", "execute">>

Running == stage = Len(BootSteps)

\* What the step does to the controllers.
Initialized(step, p) ==
  CASE step = "i8259_init" -> i8259_init(p)
    [] step = "init_ps2devices" -> enable_irq(p, KEYBOARD_IRQ)
    [] step = "init_RTC" -> enable_irq(p, RTC_IRQ)
    [] step = "init_pit" -> enable_irq(p, PIT_IRQ)
    [] OTHER -> p

\* As the boot loader leaves it: the BIOS's vectors, tick and keys enabled.
Init ==
  /\ stage = 0
  /\ pic = [imr |-> IRQs \ {PIT_IRQ, KEYBOARD_IRQ, SLAVE_PIC_IRQ}, irr |-> {}, isr |-> {},
            master |-> 8, slave |-> 112]
  /\ line = {}
  /\ eflags_if = FALSE
  /\ curr_terminal = 0
  /\ booted = {}
  /\ frames = [t \in Terminals |-> <<>>]

Boot ==
  /\ ~Running
  /\ stage' = stage + 1
  /\ pic' = Initialized(BootSteps[stage + 1], pic)
  /\ eflags_if' = (BootSteps[stage + 1] = "execute")
  /\ booted' = IF BootSteps[stage + 1] = "execute" THEN {curr_terminal} ELSE booted
  /\ UNCHANGED <<line, curr_terminal, frames>>

-----------------------------------------------------------------------------
(***************************************************************************)
(* Devices.  The timer ticks on whatever happens, but not again before the *)
(* handler of the last tick has switched stacks; the keyboard and the      *)
(* clock request again only after the handler has read their data.         *)
(***************************************************************************)
RtcPeriodic == \E i \in 1 .. stage : BootSteps[i] = "init_RTC"

Raise(device) ==
  /\ device \notin line \cup pic.irr
  /\ device = RTC_IRQ => RtcPeriodic
  /\ device = PIT_IRQ => ~At("pit", "entry") /\ ~At("pit", "scheduling")
  /\ Len(Stack) + Cardinality(pic.irr) < MaxDepth
  /\ pic' = [pic EXCEPT !.irr = @ \cup {device}]
  /\ line' = IF device = PIT_IRQ THEN line ELSE line \cup {device}
  /\ UNCHANGED <<stage, eflags_if, curr_terminal, booted, frames>>

-----------------------------------------------------------------------------
(***************************************************************************)
(* The processor.  Between two instructions it takes the request of the    *)
(* highest priority, if interrupts are on; only otherwise it goes on.      *)
(***************************************************************************)
Undisturbed == Running /\ (eflags_if => Deliverable = {})

\* The running stack with its top frame replaced.
Moved(frame) == [frames EXCEPT ![curr_terminal][Len(Stack)] = frame]
Pushed(frame) == [frames EXCEPT ![curr_terminal] = Append(@, frame)]
Popped == [frames EXCEPT ![curr_terminal] = SubSeq(@, 1, Len(@) - 1)]

Frame(handler, place, calls) == [handler |-> handler, at |-> place, calls |-> calls]

\* Through the gate: an interrupt gate switches interrupts off.
Enter(vector) ==
  /\ frames' = Pushed(Frame(build_idt(vector).handler, "entry", 0))
  /\ eflags_if' = (eflags_if /\ ~build_idt(vector).interrupt_gate)

Deliver(i) ==
  /\ Running /\ eflags_if
  /\ Deliverable # {} /\ i = First(Deliverable)
  /\ Enter(Vector(i))
  /\ pic' = Acknowledged(pic, i)
  /\ UNCHANGED <<stage, line, curr_terminal, booted>>

(***************************************************************************)
(* keyboard_handler: the scan code is read, then come no call of           *)
(* edit_buffer or switch_screen, one, or the four of Tab.  Each of them    *)
(* runs with interrupts off and ends with sti().                           *)
(***************************************************************************)
EditCalls == {0, 1, 4}

KeyboardReads ==
  /\ Undisturbed /\ At("keyboard", "entry")
  /\ \E n \in EditCalls : frames' = Moved(Frame("keyboard", "calls", n))
  /\ line' = line \ {KEYBOARD_IRQ}
  /\ UNCHANGED <<stage, pic, eflags_if, curr_terminal, booted>>

EditBuffer ==
  /\ Undisturbed /\ At("keyboard", "calls") /\ Top.calls > 0
  /\ frames' = Moved([Top EXCEPT !.calls = @ - 1])
  /\ eflags_if' = TRUE
  /\ UNCHANGED <<stage, pic, line, curr_terminal, booted>>

KeyboardEoi ==
  /\ Undisturbed /\ At("keyboard", "calls") /\ Top.calls = 0
  /\ frames' = Moved([Top EXCEPT !.at = "eoi"])
  /\ pic' = send_eoi(pic, KEYBOARD_IRQ)
  /\ UNCHANGED <<stage, line, eflags_if, curr_terminal, booted>>

\* Mutant of RtcReadsC: register C is not read.
RtcReadsC_Skipped ==
  /\ Undisturbed /\ At("rtc", "entry")
  /\ frames' = Moved([Top EXCEPT !.at = "counted"])
  /\ UNCHANGED <<stage, pic, line, eflags_if, curr_terminal, booted>>

\* RTC_handler: register C is read, which lets the clock go on; then the EOI.
RtcReadsC ==
  /\ Undisturbed /\ At("rtc", "entry")
  /\ frames' = Moved([Top EXCEPT !.at = "counted"])
  /\ line' = line \ {RTC_IRQ}
  /\ UNCHANGED <<stage, pic, eflags_if, curr_terminal, booted>>

RtcEoi ==
  /\ Undisturbed /\ At("rtc", "counted")
  /\ frames' = Moved([Top EXCEPT !.at = "eoi"])
  /\ pic' = send_eoi(pic, RTC_IRQ)
  /\ UNCHANGED <<stage, line, eflags_if, curr_terminal, booted>>

\* pit_handler: the EOI comes before the scheduler.
PitEoi ==
  /\ Undisturbed /\ At("pit", "entry")
  /\ frames' = Moved([Top EXCEPT !.at = "scheduling"])
  /\ pic' = send_eoi(pic, PIT_IRQ)
  /\ eflags_if' = FALSE
  /\ UNCHANGED <<stage, line, curr_terminal, booted>>

NextTerminal == (curr_terminal + 1) % NumTerminals

\* Mutant of Schedule: the terminal's flag is not set.
Schedule_FlagForgotten ==
  LET left == Moved([Top EXCEPT !.at = "switched"])
      next == NextTerminal
  IN /\ Undisturbed /\ At("pit", "scheduling")
     /\ frames' = IF next \in booted
                    THEN [left EXCEPT ![next][Len(left[next])].at = "resumed"]
                    ELSE left
     /\ curr_terminal' = next
     /\ eflags_if' = TRUE
     /\ UNCHANGED <<stage, pic, line, booted>>

\* scheduler: leave this stack for that of the next terminal and, there,
\* sti(); or start its base shell, which runs with interrupts on.
Schedule ==
  LET left == Moved([Top EXCEPT !.at = "switched"])
      next == NextTerminal
  IN /\ Undisturbed /\ At("pit", "scheduling")
     /\ frames' = IF next \in booted
                    THEN [left EXCEPT ![next][Len(left[next])].at = "resumed"]
                    ELSE left
     /\ booted' = booted \cup {next}
     /\ curr_terminal' = next
     /\ eflags_if' = TRUE
     /\ UNCHANGED <<stage, pic, line>>

\* The end of a linkage: popfl, popal, iret.  What was interrupted goes on
\* with interrupts on, or it could not have been interrupted.
Return ==
  /\ Undisturbed /\ (At("keyboard", "eoi") \/ At("rtc", "eoi") \/ At("pit", "resumed"))
  /\ frames' = Popped
  /\ eflags_if' = TRUE
  /\ UNCHANGED <<stage, pic, line, curr_terminal, booted>>

(***************************************************************************)
(* Programs.  A system call may switch interrupts off and on again.  A     *)
(* fault, or an int instruction through a gate that is not for programs,   *)
(* ends in an exception handler: it prints, interruptible, and halts.      *)
(***************************************************************************)
SystemCallMasks ==
  /\ Undisturbed /\ Stack = <<>>
  /\ eflags_if' = ~eflags_if
  /\ UNCHANGED <<stage, pic, line, curr_terminal, booted, frames>>

\* Where an int instruction of a program leads.
Reached(vector) ==
  IF build_idt(vector).present /\ build_idt(vector).dpl = 3 THEN vector ELSE GENERAL_PROTECTION

ProgramTraps(vector) ==
  /\ Undisturbed /\ eflags_if /\ Stack = <<>>
  /\ Reached(vector) # SYSTEM_CALL_VECTOR
  /\ Enter(Reached(vector))
  /\ UNCHANGED <<stage, pic, line, curr_terminal, booted>>

\* system_halt ends in the parent with interrupts on.
ExceptionHalts ==
  /\ Undisturbed /\ At("exception", "entry")
  /\ frames' = Popped
  /\ eflags_if' = TRUE
  /\ UNCHANGED <<stage, pic, line, curr_terminal, booted>>

Handler ==
  \/ KeyboardReads \/ EditBuffer \/ KeyboardEoi
  \/ RtcReadsC \/ RtcEoi
  \/ PitEoi \/ Schedule
  \/ Return \/ ExceptionHalts

Program ==
  \/ SystemCallMasks
  \/ \E vector \in {GENERAL_PROTECTION, PIT, KEYBOARD, RTC, SYSTEM_CALL_VECTOR} :
       ProgramTraps(vector)

Next ==
  \/ Boot
  \/ \E device \in Devices : Raise(device)
  \/ \E i \in IRQs : Deliver(i)
  \/ Handler
  \/ Program

(***************************************************************************)
(* Fairness: the processor does not stop inside a handler, nor in a system *)
(* call with interrupts off; timer and clock go on; and a request that is  *)
(* deliverable again and again is delivered.                               *)
(***************************************************************************)
Fairness ==
  /\ WF_vars(Boot)
  /\ SF_vars(Raise(PIT_IRQ)) /\ SF_vars(Raise(RTC_IRQ))
  /\ \A i \in Devices : SF_vars(Deliver(i))
  /\ WF_vars(Handler)
  /\ WF_vars(SystemCallMasks /\ ~eflags_if)

Spec == Init /\ [][Next]_vars /\ Fairness

-----------------------------------------------------------------------------
(***************************************************************************)
(* Properties.                                                             *)
(***************************************************************************)
Places == {"entry", "calls", "counted", "scheduling", "switched", "resumed", "eoi"}

TypeOK ==
  /\ stage \in 0 .. Len(BootSteps)
  /\ pic \in [imr : SUBSET IRQs, irr : SUBSET Devices, isr : SUBSET IRQs,
              master : {8, 32}, slave : {40, 112}]
  /\ line \subseteq {KEYBOARD_IRQ, RTC_IRQ}
  /\ eflags_if \in BOOLEAN
  /\ curr_terminal \in Terminals
  /\ booted \subseteq Terminals
  /\ frames \in [Terminals -> Seq([handler : {"keyboard", "rtc", "pit", "exception"},
                                   at : Places, calls : 0 .. 4])]

\* The handlers of a device that have yet to send its EOI.
OwesEoi(device) ==
  LET places ==
        CASE device = PIT_IRQ -> [handler |-> "pit", at |-> {"entry"}]
          [] device = KEYBOARD_IRQ -> [handler |-> "keyboard", at |-> {"entry", "calls"}]
          [] device = RTC_IRQ -> [handler |-> "rtc", at |-> {"entry", "counted"}]
  IN UNION {{<<t, k>> : k \in {k \in DOMAIN frames[t] :
                                 /\ frames[t][k].handler = places.handler
                                 /\ frames[t][k].at \in places.at}} : t \in Terminals}

(***************************************************************************)
(* A device is in service exactly while one handler, running or suspended  *)
(* on the stack of any terminal, has yet to acknowledge it: no EOI is sent *)
(* twice or for another device, none is forgotten, and the line between    *)
(* the controllers is open unless the clock is in service.                 *)
(***************************************************************************)
InServiceHasHandler ==
  /\ pic.isr \subseteq Devices \cup {SLAVE_PIC_IRQ}
  /\ \A device \in Devices :
       Cardinality(OwesEoi(device)) = IF device \in pic.isr THEN 1 ELSE 0
  /\ SLAVE_PIC_IRQ \in pic.isr <=> RTC_IRQ \in pic.isr

(***************************************************************************)
(* A handler that works on what other handlers share (the clock's counters,*)
(* the scan code, the scheduler's choice) is on top of the running stack,  *)
(* and interrupts are off: RTC_handler, each edit_buffer and scheduler are *)
(* single steps for everybody else.                                        *)
(***************************************************************************)
SharedWork ==
  {<<"keyboard", "entry">>, <<"rtc", "entry">>, <<"rtc", "counted">>,
   <<"pit", "entry">>, <<"pit", "scheduling">>}
SharedWorkAlone ==
  \A t \in Terminals : \A k \in DOMAIN frames[t] :
    <<frames[t][k].handler, frames[t][k].at>> \in SharedWork =>
      t = curr_terminal /\ k = Len(frames[t]) /\ ~eflags_if

(***************************************************************************)
(* The stack of a terminal that is not served ends inside scheduler, and   *)
(* no other stack does: what the tick saved is what the next turn resumes. *)
(***************************************************************************)
InScheduler(t) == frames[t] # <<>> /\ frames[t][Len(frames[t])].at = "switched"
SuspendedInScheduler ==
  \A t \in Terminals :
    /\ InScheduler(t) <=> t \in booted \ {curr_terminal}
    /\ \A k \in 1 .. Len(frames[t]) - 1 : frames[t][k].at # "switched"

(***************************************************************************)
(* If moments without a tick pending come again and again, every key that  *)
(* is waiting is taken, also when the handler of the key before it was     *)
(* suspended with its terminal.                                            *)
(***************************************************************************)
TicksPause == []<>(eflags_if /\ PIT_IRQ \notin pic.irr)
KeysServed ==
  TicksPause =>
    (Running /\ KEYBOARD_IRQ \in pic.irr ~> KEYBOARD_IRQ \notin pic.irr)

(***************************************************************************)
(* If moments come again and again in which neither a tick nor a key is    *)
(* pending and no key is being handled, the clock interrupts for ever.     *)
(***************************************************************************)
KeysPause ==
  []<>(/\ eflags_if /\ pic.irr \cap {PIT_IRQ, KEYBOARD_IRQ} = {}
       /\ \A t \in Terminals : \A k \in DOMAIN frames[t] : frames[t][k].handler # "keyboard")
ClockRunsOn == KeysPause => []<><<Deliver(RTC_IRQ)>>_vars
=============================================================================
