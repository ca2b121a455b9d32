-------------------------------- MODULE Rtc --------------------------------
(***************************************************************************)
(* The virtualised real-time clock (rtc.c).  One hardware clock interrupts *)
(* at a fixed rate; each terminal counts the interrupts down in a counter  *)
(* of its own, and RTC_read waits for its terminal's counter to run out.   *)
(*                                                                         *)
(* A terminal has one program that runs, and it runs only while            *)
(* curr_terminal is its terminal (Sessions), so that terminal_array's      *)
(* curr_terminal always indexes the caller's own entries.  The calls run   *)
(* with interrupts enabled: the scheduler (PitTick) and RTC_handler may    *)
(* come between any two of their memory accesses.  RTC_handler is entered  *)
(* through an interrupt gate and runs as one step.                         *)
(***************************************************************************)
EXTENDS Integers

CONSTANTS
  NumTerminals,
  rtc_max_frequency, rtc_max_usable_frequency, rtc_min_frequency,
  rtc_lowest_rate, rtc_highest_rate

ASSUME TerminalsAssumption == NumTerminals \in Nat \ {0}
ASSUME RtcAssumption ==
  /\ rtc_min_frequency \in Nat \ {0}
  /\ rtc_max_usable_frequency \in Nat
  /\ rtc_min_frequency <= rtc_max_usable_frequency

Terminals == 0 .. NumTerminals - 1

VARIABLES
  curr_terminal,
  RTC_frequency,     \* one for all terminals
  RTC_max_counter, RTC_counter, RTC_block,   \* per terminal
  at,                \* per terminal: the next access of its program's call
  freq,              \* per terminal: the argument of set_RTC_frequency
  \* History, read by the properties only, 0 outside RTC_read (ticks wraps
  \* at the end of a period, blocked stops beyond one):
  ticks,             \* per terminal: interrupts since RTC_read set RTC_counter
  blocked            \* per terminal: interrupts since RTC_read set RTC_block

clock == <<RTC_max_counter, RTC_counter, RTC_block>>
history == <<ticks, blocked>>
vars == <<curr_terminal, RTC_frequency, clock, at, freq, history>>

Init ==
  /\ curr_terminal = 0
  /\ RTC_frequency = 0
  /\ RTC_max_counter = [t \in Terminals |-> 1]
  /\ RTC_counter = [t \in Terminals |-> 1]
  /\ RTC_block = [t \in Terminals |-> 0]
  /\ at = [t \in Terminals |-> "user"]
  /\ freq = [t \in Terminals |-> 0]
  /\ ticks = [t \in Terminals |-> 0]
  /\ blocked = [t \in Terminals |-> 0]

\* The program of t runs and its next access is the one named.
Reaches(t, access) == curr_terminal = t /\ at[t] = access

Goes(t, access) == at' = [at EXCEPT ![t] = access]

-----------------------------------------------------------------------------
(***************************************************************************)
(* RTC_open and RTC_write: set_RTC_frequency.  RTC_write refuses all but   *)
(* the frequencies of the rates it knows, without an effect.               *)
(***************************************************************************)
Writable == {rtc_max_frequency \div 2^(rate - 1) : rate \in rtc_lowest_rate .. rtc_highest_rate}

SetFrequency(t, f) ==
  /\ Reaches(t, "user")
  /\ f \in rtc_min_frequency .. rtc_max_usable_frequency
  /\ freq' = [freq EXCEPT ![t] = f]
  /\ RTC_frequency' = f
  /\ Goes(t, "divide")
  /\ UNCHANGED <<curr_terminal, clock, history>>

Divide(t) ==
  /\ Reaches(t, "divide")
  /\ RTC_max_counter' = [RTC_max_counter EXCEPT ![t] = rtc_max_usable_frequency \div RTC_frequency]
  /\ freq' = [freq EXCEPT ![t] = 0]
  /\ Goes(t, "restart")
  /\ UNCHANGED <<curr_terminal, RTC_frequency, RTC_counter, RTC_block, history>>

Restart(t) ==
  /\ Reaches(t, "restart")
  /\ RTC_counter' = [RTC_counter EXCEPT ![t] = RTC_max_counter[t]]
  /\ Goes(t, "user")
  /\ UNCHANGED <<curr_terminal, RTC_frequency, RTC_max_counter, RTC_block, freq, history>>

-----------------------------------------------------------------------------
(***************************************************************************)
(* RTC_read.                                                               *)
(***************************************************************************)
\* Mutant of StartValue: the countdown goes on from where it is.
StartValue_Kept(t) == RTC_counter[t]

StartValue(t) == RTC_max_counter[t]

Read(t) ==
  /\ Reaches(t, "user")
  /\ RTC_counter' = [RTC_counter EXCEPT ![t] = StartValue(t)]
  /\ Goes(t, "block")
  /\ UNCHANGED <<curr_terminal, RTC_frequency, RTC_max_counter, RTC_block, freq, history>>

Block(t) ==
  /\ Reaches(t, "block")
  /\ RTC_block' = [RTC_block EXCEPT ![t] = 1]
  /\ Goes(t, "wait")
  /\ UNCHANGED <<curr_terminal, RTC_frequency, RTC_max_counter, RTC_counter, freq, history>>

Return(t) ==
  /\ Reaches(t, "wait")
  /\ RTC_block[t] = 0
  /\ ticks' = [ticks EXCEPT ![t] = 0]
  /\ blocked' = [blocked EXCEPT ![t] = 0]
  /\ Goes(t, "user")
  /\ UNCHANGED <<curr_terminal, RTC_frequency, clock, freq>>

-----------------------------------------------------------------------------
\* Mutants of Counting and RunOut: only the scheduled terminal's counter,
\* and a countdown that passes zero.
Counting_Scheduled == {curr_terminal}
RunOut_PastZero(t) == RTC_counter[t] < 0

Counting == Terminals
RunOut(t) == RTC_counter[t] = 0

RTC_handler ==
  /\ RTC_block' = [t \in Terminals |->
       IF t \in Counting /\ RunOut(t) THEN 0 ELSE RTC_block[t]]
  /\ RTC_counter' = [t \in Terminals |->
       IF t \notin Counting THEN RTC_counter[t]
       ELSE IF RunOut(t) THEN RTC_max_counter[t] ELSE RTC_counter[t] - 1]
  /\ ticks' = [t \in Terminals |->
       IF at[t] = "block" \/ RTC_block[t] = 1
         THEN (ticks[t] + 1) % (RTC_max_counter[t] + 1) ELSE ticks[t]]
  /\ blocked' = [t \in Terminals |->
       IF blocked[t] <= RTC_max_counter[t] + 1 THEN blocked[t] + RTC_block[t] ELSE blocked[t]]
  /\ UNCHANGED <<curr_terminal, RTC_frequency, RTC_max_counter, at, freq>>

PitTick ==
  /\ curr_terminal' = (curr_terminal + 1) % NumTerminals
  /\ UNCHANGED <<RTC_frequency, clock, at, freq, history>>

Program(t) ==
  \/ \E f \in Writable \cup {rtc_min_frequency} : SetFrequency(t, f)
  \/ Divide(t) \/ Restart(t)
  \/ Read(t) \/ Block(t) \/ Return(t)

Next == (\E t \in Terminals : Program(t)) \/ RTC_handler \/ PitTick

Spec == Init /\ [][Next]_vars

\* Both devices interrupt for ever and the PIC holds their requests until the
\* processor takes them.  A program gets some of its terminal's turns: between
\* two of its calls it may compute for ever, so only the calls are fair.
FairSpec ==
  /\ Spec
  /\ WF_vars(RTC_handler) /\ WF_vars(PitTick)
  /\ \A t \in Terminals : SF_vars(Divide(t) \/ Restart(t) \/ Block(t) \/ Return(t))

-----------------------------------------------------------------------------
Periods == 1 .. rtc_max_usable_frequency
Accesses == {"user", "divide", "restart", "block", "wait"}

TypeOK ==
  /\ curr_terminal \in Terminals
  /\ RTC_frequency \in {0} \cup (rtc_min_frequency .. rtc_max_usable_frequency)
  /\ RTC_max_counter \in [Terminals -> Periods]
  /\ RTC_counter \in [Terminals -> {0} \cup Periods]
  /\ RTC_block \in [Terminals -> {0, 1}]
  /\ at \in [Terminals -> Accesses]
  /\ freq \in [Terminals -> {0} \cup (rtc_min_frequency .. rtc_max_usable_frequency)]
  /\ \A t \in Terminals : at[t] = "divide" => RTC_frequency # 0
  /\ ticks \in [Terminals -> Nat] /\ blocked \in [Terminals -> Nat]

(***************************************************************************)
(* RTC_read neither returns early nor shares another reader's countdown:   *)
(* it is released a whole number of periods (of RTC_max_counter + 1        *)
(* interrupts, the history ticks counts modulo that) after it set          *)
(* RTC_counter, also when it was preempted before it set RTC_block and     *)
(* missed an end of the countdown.                                         *)
(***************************************************************************)
ReleasedAfterWholePeriods ==
  [][\A t \in Terminals :
       RTC_block[t] = 1 /\ RTC_block'[t] = 0 => ticks'[t] = 0]_vars

(***************************************************************************)
(* RTC_read is not released late either: the first end of the countdown    *)
(* after it set RTC_block releases it, whichever terminal is being served  *)
(* (RTC_handler).                                                          *)
(***************************************************************************)
ReleasedAtFirstEnd ==
  \A t \in Terminals : at[t] = "wait" => blocked[t] <= RTC_max_counter[t] + 1

\* The invariant that carries both: during a read the countdown and the
\* interrupts since its start add up to a period.
CountdownInStep ==
  \A t \in Terminals :
    /\ at[t] # "restart" => RTC_counter[t] <= RTC_max_counter[t]
    /\ RTC_block[t] = 1 => at[t] = "wait"
    /\ at[t] = "block" \/ RTC_block[t] = 1 => ticks[t] + RTC_counter[t] = RTC_max_counter[t]
    /\ at[t] \notin {"block", "wait"} => ticks[t] = 0
    /\ at[t] # "wait" => blocked[t] = 0
    /\ RTC_block[t] = 1 => blocked[t] + RTC_counter[t] <= RTC_max_counter[t]
    /\ blocked[t] <= RTC_max_counter[t] + 1

(***************************************************************************)
(* "Blocks until the next interrupt" (rtc.c:150): every RTC_read returns,  *)
(* whatever the other terminals do with the clock meanwhile.               *)
(***************************************************************************)
ReadReturns == \A t \in Terminals : at[t] \in {"block", "wait"} ~> at[t] = "user"
=============================================================================
