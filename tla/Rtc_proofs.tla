----------------------------- MODULE Rtc_proofs -----------------------------
(***************************************************************************)
(* For any number of terminals and any frequencies: the counters stay in   *)
(* range, the division never has a zero divisor, and RTC_read is released  *)
(* neither early nor late.  The invariant is CountdownInStep: while a read *)
(* is under way, the countdown and the interrupts since its start add up   *)
(* to one period, which no step of another terminal can disturb.           *)
(***************************************************************************)
EXTENDS Rtc, TLAPS

RtcInv == TypeOK /\ CountdownInStep

USE TerminalsAssumption, RtcAssumption

LEMMA PeriodOfFrequency ==
  ASSUME NEW f \in rtc_min_frequency .. rtc_max_usable_frequency
  PROVE  rtc_max_usable_frequency \div f \in Periods
BY SMTT(30) DEF Periods

LEMMA Remainders ==
  ASSUME NEW n \in Nat, NEW k \in 0 .. n
  PROVE  /\ k < n => (k + 1) % (n + 1) = k + 1
         /\ k = n => (k + 1) % (n + 1) = 0
BY SMTT(30)

LEMMA RtcInitial ==
  ASSUME Init
  PROVE  RtcInv
BY DEF Init, RtcInv, TypeOK, CountdownInStep, Terminals, Periods, Accesses

LEMMA SetFrequencyStep ==
  ASSUME RtcInv, NEW t \in Terminals, NEW f, SetFrequency(t, f)
  PROVE  RtcInv'
<1>1. TypeOK /\ CountdownInStep
  BY DEF RtcInv
<1>2. TypeOK'
  BY <1>1 DEF SetFrequency, TypeOK, Reaches, Goes, clock, history, Accesses
<1>3. CountdownInStep'
  BY <1>1 DEF SetFrequency, TypeOK, CountdownInStep, Reaches, Goes, clock, history, Accesses, Periods
<1>. QED  BY <1>2, <1>3 DEF RtcInv

LEMMA DivideStep ==
  ASSUME RtcInv, NEW t \in Terminals, Divide(t)
  PROVE  RtcInv'
<1>1. TypeOK /\ CountdownInStep
  BY DEF RtcInv
<1>2. rtc_max_usable_frequency \div RTC_frequency \in Periods
  BY <1>1, PeriodOfFrequency DEF Divide, TypeOK, Reaches
<1>3. TypeOK'
  BY <1>1, <1>2 DEF Divide, TypeOK, Reaches, Goes, history, Accesses
<1>4. CountdownInStep'
  BY <1>1, <1>2 DEF Divide, TypeOK, CountdownInStep, Reaches, Goes, history, Accesses, Periods
<1>. QED  BY <1>3, <1>4 DEF RtcInv

LEMMA RestartStep ==
  ASSUME RtcInv, NEW t \in Terminals, Restart(t)
  PROVE  RtcInv'
<1>1. TypeOK /\ CountdownInStep
  BY DEF RtcInv
<1>2. TypeOK'
  BY <1>1 DEF Restart, TypeOK, Reaches, Goes, clock, history, Accesses
<1>3. CountdownInStep'
  BY <1>1 DEF Restart, TypeOK, CountdownInStep, Reaches, Goes, clock, history, Accesses, Periods
<1>. QED  BY <1>2, <1>3 DEF RtcInv

LEMMA ReadStep ==
  ASSUME RtcInv, NEW t \in Terminals, Read(t)
  PROVE  RtcInv'
<1>1. TypeOK /\ CountdownInStep
  BY DEF RtcInv
<1>2. TypeOK'
  BY <1>1 DEF Read, TypeOK, Reaches, Goes, clock, history, Accesses, StartValue
<1>3. CountdownInStep'
  BY <1>1 DEF Read, TypeOK, CountdownInStep, Reaches, Goes, clock, history, Accesses, Periods, StartValue
<1>. QED  BY <1>2, <1>3 DEF RtcInv

LEMMA BlockStep ==
  ASSUME RtcInv, NEW t \in Terminals, Block(t)
  PROVE  RtcInv'
<1>1. TypeOK /\ CountdownInStep
  BY DEF RtcInv
<1>2. TypeOK'
  BY <1>1 DEF Block, TypeOK, Reaches, Goes, clock, history, Accesses
<1>3. CountdownInStep'
  BY <1>1 DEF Block, TypeOK, CountdownInStep, Reaches, Goes, clock, history, Accesses, Periods
<1>. QED  BY <1>2, <1>3 DEF RtcInv

LEMMA ReturnStep ==
  ASSUME RtcInv, NEW t \in Terminals, Return(t)
  PROVE  RtcInv'
<1>1. TypeOK /\ CountdownInStep
  BY DEF RtcInv
<1>2. TypeOK'
  BY <1>1 DEF Return, TypeOK, Reaches, Goes, clock, history, Accesses
<1>3. CountdownInStep'
  BY <1>1 DEF Return, TypeOK, CountdownInStep, Reaches, Goes, clock, history, Accesses, Periods
<1>. QED  BY <1>2, <1>3 DEF RtcInv

LEMMA HandlerStep ==
  ASSUME RtcInv, RTC_handler
  PROVE  /\ RtcInv'
         /\ \A t \in Terminals : RTC_block[t] = 1 /\ RTC_block'[t] = 0 => ticks'[t] = 0
<1>1. TypeOK /\ CountdownInStep
  BY DEF RtcInv
<1>2. TypeOK'
  <2>1. /\ RTC_block' \in [Terminals -> {0, 1}]
        /\ RTC_counter' \in [Terminals -> {0} \cup Periods]
        /\ blocked' \in [Terminals -> Nat]
    <3>1. RTC_block' \in [Terminals -> {0, 1}]
      BY <1>1 DEF RTC_handler, TypeOK, Counting, RunOut
    <3>2. RTC_counter' \in [Terminals -> {0} \cup Periods]
      <4>1. \A t \in Terminals : /\ RTC_counter[t] \in {0} \cup Periods
                                 /\ RTC_max_counter[t] \in Periods
        BY <1>1 DEF TypeOK
      <4>2. \A t \in Terminals : ~RunOut(t) => RTC_counter[t] - 1 \in {0} \cup Periods
        BY <4>1 DEF RunOut, Periods
      <4>. QED  BY <4>1, <4>2 DEF RTC_handler, Counting
    <3>3. blocked' \in [Terminals -> Nat]
      <4>1. \A t \in Terminals : blocked[t] \in Nat /\ blocked[t] + RTC_block[t] \in Nat
        BY <1>1 DEF TypeOK
      <4>. QED  BY <4>1 DEF RTC_handler
    <3>. QED  BY <3>1, <3>2, <3>3
  <2>2. \A t \in Terminals : (ticks[t] + 1) % (RTC_max_counter[t] + 1) \in Nat
    BY <1>1 DEF TypeOK, Periods
  <2>3. ticks' \in [Terminals -> Nat]
    BY <1>1, <2>2 DEF RTC_handler, TypeOK
  <2>. QED  BY <1>1, <2>1, <2>3 DEF RTC_handler, TypeOK
<1>3. ASSUME NEW t \in Terminals
      PROVE  /\ RTC_counter'[t] = IF RTC_counter[t] = 0 THEN RTC_max_counter[t]
                                                        ELSE RTC_counter[t] - 1
             /\ RTC_block'[t] = IF RTC_counter[t] = 0 THEN 0 ELSE RTC_block[t]
             /\ blocked'[t] = blocked[t] + RTC_block[t]
             /\ RTC_max_counter'[t] = RTC_max_counter[t] /\ at'[t] = at[t]
             /\ ~(at[t] = "block" \/ RTC_block[t] = 1) => ticks'[t] = ticks[t]
             /\ at[t] = "block" \/ RTC_block[t] = 1 =>
                  ticks'[t] = IF RTC_counter[t] = 0 THEN 0 ELSE ticks[t] + 1
             /\ RTC_counter[t] \in Nat /\ RTC_max_counter[t] \in Nat \ {0}
             /\ RTC_block[t] \in {0, 1} /\ ticks[t] \in Nat /\ blocked[t] \in Nat
  <2>1. /\ RTC_counter[t] \in Nat /\ RTC_max_counter[t] \in Nat \ {0}
        /\ RTC_block[t] \in {0, 1} /\ ticks[t] \in Nat /\ blocked[t] \in Nat
    BY <1>1 DEF TypeOK, Periods
  <2>2. at[t] = "block" \/ RTC_block[t] = 1 =>
          ticks'[t] = (ticks[t] + 1) % (RTC_max_counter[t] + 1)
    BY DEF RTC_handler
  <2>3. at[t] = "block" \/ RTC_block[t] = 1 =>
          /\ ticks[t] \in 0 .. RTC_max_counter[t]
          /\ RTC_counter[t] = 0 <=> ticks[t] = RTC_max_counter[t]
    BY <1>1, <2>1 DEF CountdownInStep
  <2>4. at[t] = "block" \/ RTC_block[t] = 1 =>
          ticks'[t] = IF RTC_counter[t] = 0 THEN 0 ELSE ticks[t] + 1
    <3>1. ASSUME at[t] = "block" \/ RTC_block[t] = 1
          PROVE  ticks'[t] = IF RTC_counter[t] = 0 THEN 0 ELSE ticks[t] + 1
      <4>. DEFINE n == RTC_max_counter[t]
                  k == ticks[t]
      <4>1. n \in Nat /\ k \in 0 .. n
        BY <2>1, <2>3, <3>1
      <4>2. /\ k < n => (k + 1) % (n + 1) = k + 1
            /\ k = n => (k + 1) % (n + 1) = 0
        BY ONLY <4>1, Remainders
      <4>3. ticks'[t] = (k + 1) % (n + 1)
        BY <2>2, <3>1
      <4>4. RTC_counter[t] = 0 <=> k = n
        BY <2>3, <3>1
      <4>5. k < n \/ k = n
        BY <4>1
      <4>. HIDE DEF n, k
      <4>6. ticks'[t] = IF k = n THEN 0 ELSE k + 1
        BY <4>2, <4>3, <4>5
      <4>. QED  BY <4>4, <4>6 DEF k
    <3>. QED  BY <3>1
  <2>5. /\ RTC_counter'[t] = IF RTC_counter[t] = 0 THEN RTC_max_counter[t]
                                                   ELSE RTC_counter[t] - 1
        /\ RTC_block'[t] = IF RTC_counter[t] = 0 THEN 0 ELSE RTC_block[t]
    BY DEF RTC_handler, Counting, RunOut
  <2>6. ~(at[t] = "block" \/ RTC_block[t] = 1) => ticks'[t] = ticks[t]
    BY DEF RTC_handler
  <2>7. /\ blocked'[t] = blocked[t] + RTC_block[t]
        /\ RTC_max_counter'[t] = RTC_max_counter[t] /\ at'[t] = at[t]
    BY <1>1 DEF RTC_handler, CountdownInStep
  <2>. QED  BY <2>1, <2>4, <2>5, <2>6, <2>7
<1>4. CountdownInStep'
  <2>1. SUFFICES ASSUME NEW t \in Terminals
                 PROVE  (/\ at[t] # "restart" => RTC_counter[t] <= RTC_max_counter[t]
                         /\ RTC_block[t] = 1 => at[t] = "wait"
                         /\ at[t] = "block" \/ RTC_block[t] = 1 =>
                              ticks[t] + RTC_counter[t] = RTC_max_counter[t]
                         /\ at[t] \notin {"block", "wait"} => ticks[t] = 0
                         /\ at[t] # "wait" => blocked[t] = 0
                         /\ RTC_block[t] = 1 =>
                              blocked[t] + RTC_counter[t] <= RTC_max_counter[t]
                         /\ blocked[t] <= RTC_max_counter[t] + 1)'
    BY DEF CountdownInStep
  <2>. QED  BY <1>1, <1>3 DEF CountdownInStep
<1>5. \A t \in Terminals : RTC_block[t] = 1 /\ RTC_block'[t] = 0 => ticks'[t] = 0
  BY <1>3
<1>. QED  BY <1>2, <1>4, <1>5 DEF RtcInv

LEMMA PitTickStep ==
  ASSUME RtcInv, PitTick
  PROVE  RtcInv'
BY DEF RtcInv, PitTick, TypeOK, CountdownInStep, Terminals, clock, history

(***************************************************************************)
(* Every step preserves the invariant, and only the interrupt handler ends *)
(* a read's wait.                                                          *)
(***************************************************************************)
LEMMA RtcStep ==
  ASSUME RtcInv, [Next]_vars
  PROVE  /\ RtcInv'
         /\ \A t \in Terminals : RTC_block[t] = 1 /\ RTC_block'[t] = 0 => ticks'[t] = 0
<1>1. CASE UNCHANGED vars
  BY <1>1 DEF RtcInv, TypeOK, CountdownInStep, vars, clock, history
<1>2. CASE RTC_handler
  BY <1>2, HandlerStep
<1>3. CASE PitTick
  BY <1>3, PitTickStep DEF PitTick, clock
<1>4. ASSUME NEW t \in Terminals, Program(t)
      PROVE  RtcInv' /\ \A s \in Terminals : RTC_block[s] = 1 => RTC_block'[s] # 0
  <2>1. RTC_block' = RTC_block \/ RTC_block' = [RTC_block EXCEPT ![t] = 1]
    BY <1>4 DEF Program, SetFrequency, Divide, Restart, Read, Block, Return, clock
  <2>2. \A s \in Terminals : RTC_block[s] = 1 => RTC_block'[s] # 0
    BY <2>1 DEF RtcInv, TypeOK
  <2>. QED  BY <1>4, <2>2, SetFrequencyStep, DivideStep, RestartStep, ReadStep, BlockStep,
               ReturnStep DEF Program
<1>. QED  BY <1>1, <1>2, <1>3, <1>4 DEF Next

THEOREM RtcInvariant == Spec => []RtcInv
<1>1. RtcInv /\ [Next]_vars => RtcInv'
  BY RtcStep
<1>. QED  BY RtcInitial, <1>1, PTL DEF Spec

(***************************************************************************)
(* The counters and frequencies stay in range and RTC_frequency is never 0 *)
(* where set_RTC_frequency divides by it.                                  *)
(***************************************************************************)
THEOREM ClockTypeCorrect == Spec => []TypeOK
<1>1. RtcInv => TypeOK
  BY DEF RtcInv
<1>. QED  BY RtcInvariant, <1>1, PTL

(***************************************************************************)
(* RTC_read is released at the first end of its countdown.                 *)
(***************************************************************************)
THEOREM ReadsNotLate == Spec => []ReleasedAtFirstEnd
<1>1. RtcInv => ReleasedAtFirstEnd
  BY DEF RtcInv, TypeOK, CountdownInStep, ReleasedAtFirstEnd, Periods
<1>. QED  BY RtcInvariant, <1>1, PTL

(***************************************************************************)
(* RTC_read is released only after whole periods.                          *)
(***************************************************************************)
THEOREM ReadsNotEarly == Spec => ReleasedAfterWholePeriods
<1>1. RtcInv /\ [Next]_vars =>
        [\A t \in Terminals : RTC_block[t] = 1 /\ RTC_block'[t] = 0 => ticks'[t] = 0]_vars
  BY RtcStep
<1>. QED  BY RtcInvariant, <1>1, PTL DEF Spec, ReleasedAfterWholePeriods
=============================================================================
