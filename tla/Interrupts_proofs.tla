-------------------------- MODULE Interrupts_proofs --------------------------
(***************************************************************************)
(* For any number of terminals and stacks of any depth: every interrupt in *)
(* service has one handler that owes its EOI, work on shared state is      *)
(* never interrupted, and suspended stacks end in the scheduler.           *)
(*                                                                         *)
(* A step of the running stack pushes a frame, replaces the top frame or   *)
(* takes it off; only Schedule touches two stacks.  One lemma per shape    *)
(* says which frames there are afterwards.                                 *)
(***************************************************************************)
EXTENDS Interrupts, FiniteSetTheorems, SequenceTheorems, TLAPS

USE TerminalsAssumption, DepthAssumption

FrameRecords == [handler : {"keyboard", "rtc", "pit", "exception"}, at : Places, calls : 0 .. 4]

FrameOf(t, k) == t \in Terminals /\ k \in 1 .. Len(frames[t])

IsShared(f) == <<f.handler, f.at>> \in SharedWork

Owes(device, f) ==
  \/ device = PIT_IRQ /\ f.handler = "pit" /\ f.at = "entry"
  \/ device = KEYBOARD_IRQ /\ f.handler = "keyboard" /\ f.at \in {"entry", "calls"}
  \/ device = RTC_IRQ /\ f.handler = "rtc" /\ f.at \in {"entry", "counted"}

OwesAt(device, t, k) == FrameOf(t, k) /\ Owes(device, frames[t][k])

(***************************************************************************)
(* The strengthening: the order of entry, so that no interrupt is taken    *)
(* with the vectors of the BIOS, and the EOIs frame by frame.              *)
(***************************************************************************)
SetUp ==
  /\ stage >= 2 => pic.master = 32 /\ pic.slave = 40
  /\ ~Running => /\ ~eflags_if /\ pic.isr = {} /\ booted = {}
                 /\ \A t \in Terminals : frames[t] = <<>>
  /\ Running => curr_terminal \in booted
  /\ \A t \in Terminals \ booted : frames[t] = <<>>

OneOwes ==
  \A device \in Devices :
    /\ device \in pic.isr <=> \E t, k : OwesAt(device, t, k)
    /\ \A t, k, u, l : OwesAt(device, t, k) /\ OwesAt(device, u, l) => t = u /\ k = l

InService ==
  /\ pic.isr \subseteq Devices \cup {SLAVE_PIC_IRQ}
  /\ SLAVE_PIC_IRQ \in pic.isr <=> RTC_IRQ \in pic.isr
  /\ OneOwes

InterruptsInv == TypeOK /\ SetUp /\ SharedWorkAlone /\ SuspendedInScheduler /\ InService

-----------------------------------------------------------------------------
(***************************************************************************)
(* The shapes.                                                             *)
(***************************************************************************)
LEMMA StackFacts ==
  ASSUME TypeOK
  PROVE  /\ curr_terminal \in Terminals
         /\ frames \in [Terminals -> Seq(FrameRecords)]
         /\ Stack \in Seq(FrameRecords) /\ Len(Stack) \in Nat
         /\ Stack # <<>> => Len(Stack) \in 1 .. Len(Stack) /\ Top \in FrameRecords
<1>1. curr_terminal \in Terminals /\ frames \in [Terminals -> Seq(FrameRecords)]
  BY DEF TypeOK, FrameRecords
<1>2. Stack \in Seq(FrameRecords)
  BY <1>1 DEF Stack
<1>. QED  BY <1>1, <1>2 DEF Top

LEMMA PushedFrames ==
  ASSUME TypeOK, NEW f \in FrameRecords, frames' = Pushed(f)
  PROVE  /\ frames' \in [Terminals -> Seq(FrameRecords)]
         /\ \A t \in Terminals :
              /\ Len(frames'[t]) = IF t = curr_terminal THEN Len(frames[t]) + 1 ELSE Len(frames[t])
              /\ Len(frames[t]) \in Nat
              /\ \A k \in 1 .. Len(frames'[t]) :
                   frames'[t][k] = IF t = curr_terminal /\ k = Len(frames[t]) + 1
                                     THEN f ELSE frames[t][k]
<1>1. frames' = [frames EXCEPT ![curr_terminal] = Append(frames[curr_terminal], f)]
  BY DEF Pushed
<1>. QED  BY <1>1, StackFacts

LEMMA MovedFrames ==
  ASSUME TypeOK, NEW f \in FrameRecords, NEW after, after = Moved(f), Stack # <<>>
  PROVE  /\ after \in [Terminals -> Seq(FrameRecords)]
         /\ \A t \in Terminals :
              /\ Len(after[t]) = Len(frames[t]) /\ Len(frames[t]) \in Nat
              /\ \A k \in 1 .. Len(after[t]) :
                   after[t][k] = IF t = curr_terminal /\ k = Len(frames[t])
                                     THEN f ELSE frames[t][k]
<1>. DEFINE moved == [Stack EXCEPT ![Len(Stack)] = f]
<1>1. after = [frames EXCEPT ![curr_terminal] = moved]
  BY DEF Moved, Stack
<1>2. /\ moved \in Seq(FrameRecords) /\ Len(moved) = Len(Stack)
      /\ \A k \in 1 .. Len(Stack) : moved[k] = IF k = Len(Stack) THEN f ELSE Stack[k]
  BY StackFacts, ExceptSeq
<1>. HIDE DEF moved
<1>. QED  BY <1>1, <1>2, StackFacts DEF Stack

LEMMA PoppedFrames ==
  ASSUME TypeOK, frames' = Popped, Stack # <<>>
  PROVE  /\ frames' \in [Terminals -> Seq(FrameRecords)]
         /\ \A t \in Terminals :
              /\ Len(frames'[t]) = IF t = curr_terminal THEN Len(frames[t]) - 1 ELSE Len(frames[t])
              /\ Len(frames[t]) \in Nat
              /\ \A k \in 1 .. Len(frames'[t]) : frames'[t][k] = frames[t][k]
<1>1. PICK n \in Nat : n = Len(Stack) /\ n # 0
  BY StackFacts
<1>. DEFINE rest == SubSeq(Stack, 1, n - 1)
<1>2. frames' = [frames EXCEPT ![curr_terminal] = rest]
  BY <1>1 DEF Popped, Stack
<1>3. /\ rest \in Seq(FrameRecords)
      /\ Len(rest) = IF 1 <= n - 1 THEN n - 1 - 1 + 1 ELSE 0
      /\ \A k \in 1 .. n - 1 - 1 + 1 : rest[k] = Stack[1 + k - 1]
  <2>1. \A k \in 1 .. n - 1 : Stack[k] \in FrameRecords
    BY <1>1, StackFacts, LenProperties
  <2>. QED  BY <1>1, <2>1, SubSeqProperties
<1>. HIDE DEF rest
<1>4. Len(rest) = n - 1
  BY <1>1, <1>3
<1>5. ASSUME NEW k \in 1 .. Len(rest) PROVE rest[k] = Stack[k]
  <2>1. k \in 1 .. n - 1 - 1 + 1 /\ 1 + k - 1 = k
    BY <1>1, <1>4
  <2>. QED  BY <1>3, <2>1
<1>. QED  BY <1>1, <1>2, <1>3, <1>4, <1>5, StackFacts DEF Stack

(***************************************************************************)
(* The two properties of frames, frame by frame, before and after a step.  *)
(***************************************************************************)
LEMMA ByFrame ==
  ASSUME TypeOK
  PROVE  /\ SharedWorkAlone <=>
              \A t, k : FrameOf(t, k) /\ IsShared(frames[t][k])
                         => t = curr_terminal /\ k = Len(frames[t]) /\ ~eflags_if
         /\ SuspendedInScheduler <=>
              /\ \A t, k : FrameOf(t, k) /\ frames[t][k].at = "switched"
                             => k = Len(frames[t]) /\ t \in booted \ {curr_terminal}
              /\ \A t \in Terminals : t \in booted \ {curr_terminal} =>
                   Len(frames[t]) # 0 /\ frames[t][Len(frames[t])].at = "switched"
<1>1. \A t \in Terminals : /\ frames[t] \in Seq(FrameRecords) /\ Len(frames[t]) \in Nat
                            /\ DOMAIN frames[t] = 1 .. Len(frames[t])
                            /\ frames[t] = <<>> <=> Len(frames[t]) = 0
  BY StackFacts, LenProperties
<1>2. SharedWorkAlone <=>
        \A t, k : FrameOf(t, k) /\ IsShared(frames[t][k])
                   => t = curr_terminal /\ k = Len(frames[t]) /\ ~eflags_if
  <2>1. \A t, k : FrameOf(t, k) <=> t \in Terminals /\ k \in DOMAIN frames[t]
    BY <1>1 DEF FrameOf
  <2>. QED  BY <2>1, Zenon DEF SharedWorkAlone, IsShared
<1>3. SuspendedInScheduler <=>
        /\ \A t, k : FrameOf(t, k) /\ frames[t][k].at = "switched"
                       => k = Len(frames[t]) /\ t \in booted \ {curr_terminal}
        /\ \A t \in Terminals : t \in booted \ {curr_terminal} =>
             Len(frames[t]) # 0 /\ frames[t][Len(frames[t])].at = "switched"
  BY <1>1 DEF SuspendedInScheduler, InScheduler, FrameOf
<1>. QED  BY <1>2, <1>3

LEMMA ByFrameAfter ==
  ASSUME frames' \in [Terminals -> Seq(FrameRecords)]
  PROVE  /\ SharedWorkAlone' <=>
              \A t, k : FrameOf(t, k)' /\ IsShared(frames'[t][k])
                         => t = curr_terminal' /\ k = Len(frames'[t]) /\ ~eflags_if'
         /\ SuspendedInScheduler' <=>
              /\ \A t, k : FrameOf(t, k)' /\ frames'[t][k].at = "switched"
                             => k = Len(frames'[t]) /\ t \in booted' \ {curr_terminal'}
              /\ \A t \in Terminals : t \in booted' \ {curr_terminal'} =>
                   Len(frames'[t]) # 0 /\ frames'[t][Len(frames'[t])].at = "switched"
<1>1. \A t \in Terminals : /\ frames'[t] \in Seq(FrameRecords) /\ Len(frames'[t]) \in Nat
                            /\ DOMAIN frames'[t] = 1 .. Len(frames'[t])
                            /\ frames'[t] = <<>> <=> Len(frames'[t]) = 0
  BY LenProperties
<1>2. SharedWorkAlone' <=>
        \A t, k : FrameOf(t, k)' /\ IsShared(frames'[t][k])
                   => t = curr_terminal' /\ k = Len(frames'[t]) /\ ~eflags_if'
  <2>1. \A t, k : FrameOf(t, k)' <=> t \in Terminals /\ k \in DOMAIN frames'[t]
    BY <1>1 DEF FrameOf
  <2>. QED  BY <2>1, Zenon DEF SharedWorkAlone, IsShared
<1>3. SuspendedInScheduler' <=>
        /\ \A t, k : FrameOf(t, k)' /\ frames'[t][k].at = "switched"
                       => k = Len(frames'[t]) /\ t \in booted' \ {curr_terminal'}
        /\ \A t \in Terminals : t \in booted' \ {curr_terminal'} =>
             Len(frames'[t]) # 0 /\ frames'[t][Len(frames'[t])].at = "switched"
  BY <1>1 DEF SuspendedInScheduler, InScheduler, FrameOf
<1>. QED  BY <1>2, <1>3

(***************************************************************************)
(* What each shape does to the properties of the frames.                   *)
(***************************************************************************)
LEMMA PushKeeps ==
  ASSUME InterruptsInv, NEW f \in FrameRecords, frames' = Pushed(f),
         Running, eflags_if, UNCHANGED <<stage, curr_terminal, booted>>,
         f.at # "switched", IsShared(f) => ~eflags_if'
  PROVE  SharedWorkAlone' /\ SuspendedInScheduler'
<1>1. TypeOK /\ SharedWorkAlone /\ SuspendedInScheduler /\ curr_terminal \in booted
  BY DEF InterruptsInv, SetUp
<1>2. \A t, k : FrameOf(t, k) => ~IsShared(frames[t][k])
  BY <1>1 DEF SharedWorkAlone, FrameOf, IsShared
<1>3. \A t, k : FrameOf(t, k)' =>
         \/ t = curr_terminal /\ k = Len(frames'[t]) /\ frames'[t][k] = f
         \/ FrameOf(t, k) /\ frames'[t][k] = frames[t][k]
  BY <1>1, PushedFrames DEF FrameOf
<1>4. SharedWorkAlone'
  BY <1>1, <1>2, <1>3, PushedFrames, ByFrameAfter
<1>5. SuspendedInScheduler'
  <2>1. frames' \in [Terminals -> Seq(FrameRecords)]
    BY <1>1, PushedFrames
  <2>2. \A t, k : FrameOf(t, k)' /\ frames'[t][k].at = "switched"
                  => k = Len(frames'[t]) /\ t \in booted \ {curr_terminal}
    BY <1>1, <1>3, PushedFrames, ByFrame DEF FrameOf
  <2>3. \A t \in booted \ {curr_terminal} :
          t \in Terminals => Len(frames'[t]) # 0 /\ frames'[t][Len(frames'[t])].at = "switched"
    BY <1>1, PushedFrames, ByFrame
  <2>. QED  BY <2>1, <2>2, <2>3, ByFrameAfter
<1>. QED  BY <1>4, <1>5

LEMMA MoveKeeps ==
  ASSUME InterruptsInv, NEW f \in FrameRecords, frames' = Moved(f), Stack # <<>>,
         Running, UNCHANGED <<stage, curr_terminal, booted>>,
         f.at # "switched", IsShared(f) => ~eflags_if'
  PROVE  SharedWorkAlone' /\ SuspendedInScheduler'
<1>1. TypeOK /\ SharedWorkAlone /\ SuspendedInScheduler /\ curr_terminal \in booted
  BY DEF InterruptsInv, SetUp
<1>2. \A t, k : FrameOf(t, k)' =>
         \/ t = curr_terminal /\ k = Len(frames'[t]) /\ frames'[t][k] = f
         \/ /\ FrameOf(t, k) /\ frames'[t][k] = frames[t][k]
            /\ ~(t = curr_terminal /\ k = Len(frames[t]))
  BY <1>1, MovedFrames DEF FrameOf
<1>3. SharedWorkAlone'
  BY <1>1, <1>2, MovedFrames, ByFrame, ByFrameAfter
<1>4. SuspendedInScheduler'
  <2>1. frames' \in [Terminals -> Seq(FrameRecords)]
    BY <1>1, MovedFrames
  <2>2. \A t, k : FrameOf(t, k)' /\ frames'[t][k].at = "switched"
                  => k = Len(frames'[t]) /\ t \in booted \ {curr_terminal}
    BY <1>1, <1>2, MovedFrames, ByFrame DEF FrameOf
  <2>3. \A t \in booted \ {curr_terminal} :
          t \in Terminals => Len(frames'[t]) # 0 /\ frames'[t][Len(frames'[t])].at = "switched"
    BY <1>1, MovedFrames, ByFrame
  <2>. QED  BY <2>1, <2>2, <2>3, ByFrameAfter
<1>. QED  BY <1>3, <1>4

LEMMA PopKeeps ==
  ASSUME InterruptsInv, frames' = Popped, Stack # <<>>,
         Running, UNCHANGED <<stage, curr_terminal, booted>>
  PROVE  SharedWorkAlone' /\ SuspendedInScheduler'
<1>1. TypeOK /\ SharedWorkAlone /\ SuspendedInScheduler /\ curr_terminal \in booted
  BY DEF InterruptsInv, SetUp
<1>2. \A t, k : FrameOf(t, k)' =>
         /\ FrameOf(t, k) /\ frames'[t][k] = frames[t][k]
         /\ ~(t = curr_terminal /\ k = Len(frames[t]))
  BY <1>1, PoppedFrames DEF FrameOf
<1>3. SharedWorkAlone'
  BY <1>1, <1>2, PoppedFrames, ByFrame, ByFrameAfter
<1>4. SuspendedInScheduler'
  BY <1>1, <1>2, PoppedFrames, StackFacts, ByFrame, ByFrameAfter DEF FrameOf
<1>. QED  BY <1>3, <1>4

(***************************************************************************)
(* Schedule: the top frame of the stack that is left, and that of the next *)
(* one if its terminal has been started.                                   *)
(***************************************************************************)
LEMMA ScheduleFrames ==
  ASSUME InterruptsInv, Schedule
  PROVE  /\ NextTerminal \in Terminals /\ Stack # <<>>
         /\ frames' \in [Terminals -> Seq(FrameRecords)]
         /\ \A t \in Terminals : Len(frames'[t]) = Len(frames[t]) /\ Len(frames[t]) \in Nat
         /\ \A t, k : FrameOf(t, k) =>
              \/ /\ t = NextTerminal /\ t \in booted /\ k = Len(frames[t])
                 /\ frames'[t][k].at = "resumed"
              \/ /\ t = curr_terminal /\ k = Len(frames[t]) /\ ~(t = NextTerminal /\ t \in booted)
                 /\ frames'[t][k].at = "switched"
              \/ /\ ~(k = Len(frames[t]) /\ (t = curr_terminal \/ (t = NextTerminal /\ t \in booted)))
                 /\ frames'[t][k] = frames[t][k]
<1>. DEFINE switched == [Top EXCEPT !.at = "switched"]
            left == Moved(switched)
            next == NextTerminal
<1>1. /\ TypeOK /\ curr_terminal \in booted /\ SuspendedInScheduler
      /\ Stack # <<>> /\ curr_terminal \in Terminals /\ Top \in FrameRecords
  BY StackFacts DEF InterruptsInv, SetUp, Schedule, Undisturbed, At
<1>2. next \in Terminals
  BY <1>1 DEF NextTerminal, Terminals
<1>3. switched \in FrameRecords /\ switched.at = "switched"
  BY <1>1 DEF FrameRecords, Places
<1>. HIDE DEF switched
<1>4. /\ left \in [Terminals -> Seq(FrameRecords)]
      /\ \A t \in Terminals :
           /\ Len(left[t]) = Len(frames[t]) /\ Len(frames[t]) \in Nat
           /\ \A k \in 1 .. Len(left[t]) :
                left[t][k] = IF t = curr_terminal /\ k = Len(frames[t])
                               THEN switched ELSE frames[t][k]
  BY <1>1, <1>3, MovedFrames
<1>5. frames' = IF next \in booted THEN [left EXCEPT ![next][Len(left[next])].at = "resumed"] ELSE left
  BY Zenon DEF Schedule, switched
<1>. HIDE DEF left, next
<1>6. CASE next \notin booted
  BY <1>1, <1>2, <1>3, <1>4, <1>5, <1>6 DEF FrameOf, next
<1>7. CASE next \in booted
  <2>. DEFINE last == Len(left[next])
              resumed == [left[next][last] EXCEPT !.at = "resumed"]
              stack == [left[next] EXCEPT ![last] = resumed]
  <2>1. last \in 1 .. last
    BY <1>1, <1>2, <1>4, <1>7, ByFrame DEF Stack
  <2>2. left[next] \in Seq(FrameRecords) /\ left[next][last] \in FrameRecords
    BY <1>2, <1>4, <2>1, LenProperties
  <2>3. resumed \in FrameRecords /\ resumed.at = "resumed"
    BY <2>2 DEF FrameRecords, Places
  <2>. HIDE DEF resumed
  <2>4. /\ stack \in Seq(FrameRecords) /\ Len(stack) = last
        /\ \A k \in 1 .. last : stack[k] = IF k = last THEN resumed ELSE left[next][k]
    BY <2>1, <2>2, <2>3, ExceptSeq
  <2>5. frames' = [left EXCEPT ![next] = stack]
    BY <1>5, <1>7, Zenon DEF resumed
  <2>. HIDE DEF stack
  <2>6. /\ frames' \in [Terminals -> Seq(FrameRecords)]
        /\ frames'[next] = stack
        /\ \A t \in Terminals \ {next} : frames'[t] = left[t]
    BY <1>2, <1>4, <2>4, <2>5
  <2>7. \A t \in Terminals : Len(frames'[t]) = Len(frames[t])
    BY <1>2, <1>4, <2>4, <2>6
  <2>8. ASSUME NEW t, NEW k, FrameOf(t, k)
        PROVE  \/ t = next /\ k = Len(frames[t]) /\ frames'[t][k].at = "resumed"
               \/ /\ t = curr_terminal /\ k = Len(frames[t]) /\ t # next
                  /\ frames'[t][k].at = "switched"
               \/ /\ ~(k = Len(frames[t]) /\ (t = curr_terminal \/ t = next))
                  /\ frames'[t][k] = frames[t][k]
    <3>1. t \in Terminals /\ k \in 1 .. Len(frames[t]) /\ Len(left[t]) = Len(frames[t])
      BY <1>4, <2>8 DEF FrameOf
    <3>2. CASE t = next
      BY <1>4, <2>3, <2>4, <2>6, <3>1, <3>2
    <3>3. CASE t # next
      BY <1>3, <1>4, <2>6, <3>1, <3>3
    <3>. QED  BY <3>2, <3>3
  <2>. QED  BY <1>1, <1>2, <1>4, <1>7, <2>6, <2>7, <2>8 DEF next
<1>. QED  BY <1>6, <1>7

LEMMA ScheduleKeeps ==
  ASSUME InterruptsInv, Schedule
  PROVE  SharedWorkAlone' /\ SuspendedInScheduler'
<1>1. /\ TypeOK /\ curr_terminal \in booted /\ booted \subseteq Terminals
      /\ SharedWorkAlone /\ SuspendedInScheduler
  BY DEF InterruptsInv, SetUp, Schedule, Undisturbed, TypeOK
<1>2. /\ curr_terminal' = NextTerminal /\ booted' = booted \cup {NextTerminal}
      /\ frames' \in [Terminals -> Seq(FrameRecords)]
      /\ \A t, k : FrameOf(t, k)' <=> FrameOf(t, k)
      /\ \A t \in Terminals : Len(frames'[t]) = Len(frames[t]) /\ Len(frames[t]) \in Nat
      /\ Len(frames[curr_terminal]) # 0
  <2>1. curr_terminal' = NextTerminal /\ booted' = booted \cup {NextTerminal}
    BY DEF Schedule
  <2>2. /\ frames' \in [Terminals -> Seq(FrameRecords)] /\ Stack # <<>>
        /\ \A t \in Terminals : Len(frames'[t]) = Len(frames[t]) /\ Len(frames[t]) \in Nat
    BY ScheduleFrames
  <2>3. \A t, k : FrameOf(t, k)' <=> FrameOf(t, k)
    BY <2>2 DEF FrameOf
  <2>4. Len(frames[curr_terminal]) # 0
    BY <1>1, <2>2, StackFacts DEF Stack
  <2>. QED  BY <2>1, <2>2, <2>3, <2>4
<1>3. SharedWorkAlone'
  <2>1. ASSUME NEW t, NEW k, FrameOf(t, k), IsShared(frames'[t][k])
        PROVE  FALSE
    <3>1. frames'[t][k].at # "resumed" /\ frames'[t][k].at # "switched"
      BY <2>1 DEF IsShared, SharedWork
    <3>2. frames'[t][k] = frames[t][k] /\ ~(t = curr_terminal /\ k = Len(frames[t]))
      BY <2>1, <3>1, ScheduleFrames
    <3>. QED  BY <1>1, <2>1, <3>2, ByFrame
  <2>. QED  BY <1>2, <2>1, ByFrameAfter
<1>4. ASSUME NEW t, NEW k, FrameOf(t, k), frames'[t][k].at = "switched"
      PROVE  k = Len(frames[t]) /\ t \in (booted \cup {NextTerminal}) \ {NextTerminal}
  <2>1. CASE frames'[t][k] = frames[t][k]
    <3>1. k = Len(frames[t]) /\ t \in booted \ {curr_terminal}
      BY <1>1, <1>4, <2>1, ByFrame
    <3>. QED  BY <1>4, <2>1, <3>1, ScheduleFrames
  <2>2. CASE frames'[t][k] # frames[t][k]
    BY <1>1, <1>4, <2>2, ScheduleFrames
  <2>. QED  BY <2>1, <2>2
<1>5. ASSUME NEW t \in (booted \cup {NextTerminal}) \ {NextTerminal}
      PROVE  Len(frames[t]) # 0 /\ frames'[t][Len(frames[t])].at = "switched"
  <2>1. t \in booted /\ t # NextTerminal /\ t \in Terminals
    BY <1>1, <1>5
  <2>2. Len(frames[t]) # 0 /\ (t # curr_terminal => frames[t][Len(frames[t])].at = "switched")
    BY <1>1, <1>2, <2>1, ByFrame
  <2>3. FrameOf(t, Len(frames[t]))
    BY <1>2, <2>1, <2>2 DEF FrameOf
  <2>. QED  BY <2>1, <2>2, <2>3, ScheduleFrames
<1>6. SuspendedInScheduler'
  <2>1. \A t, k : FrameOf(t, k)' /\ frames'[t][k].at = "switched"
                  => k = Len(frames'[t]) /\ t \in booted' \ {curr_terminal'}
    <3>1. SUFFICES ASSUME NEW t, NEW k, FrameOf(t, k)', frames'[t][k].at = "switched"
                   PROVE  k = Len(frames'[t]) /\ t \in booted' \ {curr_terminal'}
      OBVIOUS
    <3>2. FrameOf(t, k) /\ t \in Terminals
      BY <1>2, <3>1 DEF FrameOf
    <3>. QED  BY <1>2, <1>4, <3>1, <3>2
  <2>2. \A t \in Terminals : t \in booted' \ {curr_terminal'} =>
          Len(frames'[t]) # 0 /\ frames'[t][Len(frames'[t])].at = "switched"
    BY <1>2, <1>5
  <2>. QED  BY <1>2, <2>1, <2>2, ByFrameAfter
<1>. QED  BY <1>3, <1>6

-----------------------------------------------------------------------------
(***************************************************************************)
(* Who owes an EOI after each shape, and after each use of the controllers.*)
(***************************************************************************)
LEMMA OwesAfterPush ==
  ASSUME TypeOK, NEW f \in FrameRecords, frames' = Pushed(f)
  PROVE  \A d, t, k : OwesAt(d, t, k)' <=>
           OwesAt(d, t, k) \/ (t = curr_terminal /\ k = Len(frames[t]) + 1 /\ Owes(d, f))
<1>. SUFFICES ASSUME NEW d, NEW t, NEW k
              PROVE  OwesAt(d, t, k)' <=>
                       OwesAt(d, t, k) \/ (t = curr_terminal /\ k = Len(frames[t]) + 1 /\ Owes(d, f))
  OBVIOUS
<1>1. curr_terminal \in Terminals
  BY StackFacts
<1>2. CASE t = curr_terminal /\ k = Len(frames[t]) + 1
  BY <1>1, <1>2, PushedFrames DEF OwesAt, FrameOf
<1>3. CASE ~(t = curr_terminal /\ k = Len(frames[t]) + 1)
  BY <1>1, <1>3, PushedFrames DEF OwesAt, FrameOf
<1>. QED  BY <1>2, <1>3

LEMMA OwesAfterMove ==
  ASSUME TypeOK, NEW f \in FrameRecords, frames' = Moved(f), Stack # <<>>
  PROVE  \A d, t, k : OwesAt(d, t, k)' <=>
           IF t = curr_terminal /\ k = Len(frames[t]) THEN Owes(d, f) ELSE OwesAt(d, t, k)
<1>1. curr_terminal \in Terminals /\ Len(frames[curr_terminal]) \in 1 .. Len(frames[curr_terminal])
  BY StackFacts DEF Stack
<1>. SUFFICES ASSUME NEW d, NEW t, NEW k
              PROVE  OwesAt(d, t, k)' <=>
                       IF t = curr_terminal /\ k = Len(frames[t]) THEN Owes(d, f) ELSE OwesAt(d, t, k)
  OBVIOUS
<1>2. CASE t = curr_terminal /\ k = Len(frames[t])
  <2>1. k \in 1 .. Len(frames'[t]) /\ frames'[t][k] = f
    BY <1>1, <1>2, MovedFrames
  <2>. QED  BY <1>1, <1>2, <2>1 DEF OwesAt, FrameOf
<1>3. CASE ~(t = curr_terminal /\ k = Len(frames[t]))
  <2>1. FrameOf(t, k)' <=> FrameOf(t, k)
    BY MovedFrames DEF FrameOf
  <2>2. FrameOf(t, k) => frames'[t][k] = frames[t][k]
    BY <1>3, MovedFrames DEF FrameOf
  <2>. QED  BY <1>3, <2>1, <2>2 DEF OwesAt
<1>. QED  BY <1>2, <1>3

LEMMA OwesAfterPop ==
  ASSUME TypeOK, frames' = Popped, Stack # <<>>, \A d : ~Owes(d, Top)
  PROVE  \A d, t, k : OwesAt(d, t, k)' <=> OwesAt(d, t, k)
<1>1. \A d : ~Owes(d, frames[curr_terminal][Len(frames[curr_terminal])])
  BY DEF Top, Stack
<1>. QED  BY <1>1, PoppedFrames DEF OwesAt, FrameOf

LEMMA ServiceUnchanged ==
  ASSUME InService, UNCHANGED pic, \A d, t, k : OwesAt(d, t, k)' <=> OwesAt(d, t, k)
  PROVE  InService'
BY DEF InService, OneOwes

LEMMA ServiceAcknowledged ==
  ASSUME InService, TypeOK, NEW d \in Devices, pic' = send_eoi(pic, d),
         NEW u, NEW l, OwesAt(d, u, l),
         \A e, t, k : OwesAt(e, t, k)' <=> OwesAt(e, t, k) /\ ~(t = u /\ k = l)
  PROVE  InService'
<1>1. \A e : OwesAt(e, u, l) => e = d
  BY DEF OwesAt, Owes, PIT_IRQ, KEYBOARD_IRQ, RTC_IRQ
<1>2. \A e \in Devices : \A t, k : OwesAt(e, t, k)' <=> OwesAt(e, t, k) /\ e # d
  BY <1>1 DEF InService, OneOwes
<1>3. /\ pic'.isr = pic.isr \ (IF d < START_SLAVE_PIC THEN {d} ELSE {d, SLAVE_PIC_IRQ})
      /\ d = RTC_IRQ <=> ~(d < START_SLAVE_PIC)
  BY DEF send_eoi, TypeOK, Devices, MAX_IRQS, PIT_IRQ, KEYBOARD_IRQ, RTC_IRQ, START_SLAVE_PIC
<1>4. OneOwes'
  BY <1>2, <1>3 DEF InService, OneOwes, Devices, SLAVE_PIC_IRQ, PIT_IRQ, KEYBOARD_IRQ, RTC_IRQ
<1>. QED
  BY <1>3, <1>4 DEF InService, Devices, SLAVE_PIC_IRQ, PIT_IRQ, KEYBOARD_IRQ, RTC_IRQ

LEMMA ServiceBegun ==
  ASSUME InService, TypeOK, NEW i \in Deliverable, pic' = Acknowledged(pic, i),
         NEW u, NEW l,
         \A e, t, k : OwesAt(e, t, k)' <=> OwesAt(e, t, k) \/ (e = i /\ t = u /\ k = l)
  PROVE  InService'
<1>1. i \in Devices
  BY DEF Deliverable, TypeOK
<1>2. i \notin pic.isr
  BY <1>1 DEF Deliverable, InService, OnMaster, Devices, SLAVE_PIC_IRQ, PIT_IRQ, KEYBOARD_IRQ,
     RTC_IRQ, START_SLAVE_PIC
<1>3. /\ pic'.isr = pic.isr \cup (IF OnMaster(i) THEN {i} ELSE {i, SLAVE_PIC_IRQ})
      /\ i = RTC_IRQ <=> ~OnMaster(i)
  BY <1>1 DEF Acknowledged, TypeOK, Devices, OnMaster, PIT_IRQ, KEYBOARD_IRQ, RTC_IRQ,
     START_SLAVE_PIC
<1>4. OneOwes'
  BY <1>1, <1>2, <1>3 DEF InService, OneOwes, Devices, SLAVE_PIC_IRQ, PIT_IRQ, KEYBOARD_IRQ, RTC_IRQ
<1>. QED
  BY <1>1, <1>3, <1>4 DEF InService, Devices, SLAVE_PIC_IRQ, PIT_IRQ, KEYBOARD_IRQ, RTC_IRQ

-----------------------------------------------------------------------------
(***************************************************************************)
(* The steps.                                                              *)
(***************************************************************************)
LEMMA Vectors ==
  ASSUME InterruptsInv, Running, NEW i \in Devices
  PROVE  /\ Vector(i) = (CASE i = PIT_IRQ -> PIT [] i = KEYBOARD_IRQ -> KEYBOARD [] OTHER -> RTC)
         /\ build_idt(Vector(i)).interrupt_gate
         /\ build_idt(Vector(i)).handler
              = (CASE i = PIT_IRQ -> "pit" [] i = KEYBOARD_IRQ -> "keyboard" [] OTHER -> "rtc")
<1>1. pic.master = 32 /\ pic.slave = 40
  BY DEF InterruptsInv, SetUp, Running, BootSteps
<1>2. i \in {0, 1, 8}
  BY DEF Devices, PIT_IRQ, KEYBOARD_IRQ, RTC_IRQ
<1>3. Vector(i) = (CASE i = 0 -> 32 [] i = 1 -> 33 [] OTHER -> 40)
  BY <1>1, <1>2 DEF Vector, OnMaster, START_SLAVE_PIC
<1>4. \A v \in {32, 33, 40} : build_idt(v).interrupt_gate /\ build_idt(v).handler = HandlerOf(v)
  BY DEF build_idt, InterruptGates, PIT, KEYBOARD, RTC
<1>5. HandlerOf(32) = "pit" /\ HandlerOf(33) = "keyboard" /\ HandlerOf(40) = "rtc"
  BY DEF HandlerOf, PIT, KEYBOARD, RTC, SYSTEM_CALL_VECTOR, NUM_EXCEPTIONS, SKIP
<1>. QED
  BY <1>2, <1>3, <1>4, <1>5 DEF PIT, KEYBOARD, RTC, PIT_IRQ, KEYBOARD_IRQ, RTC_IRQ

LEMMA FirstDeliverable ==
  ASSUME TypeOK, Deliverable # {}
  PROVE  First(Deliverable) \in Deliverable /\ First(Deliverable) \in Devices
<1>1. Deliverable \subseteq {0, 1, 8}
  BY DEF Deliverable, TypeOK, Devices, PIT_IRQ, KEYBOARD_IRQ, RTC_IRQ
<1>2. \E i \in Deliverable : \A j \in Deliverable : i <= j
  <2>1. CASE 0 \in Deliverable
    BY <1>1, <2>1
  <2>2. CASE 0 \notin Deliverable /\ 1 \in Deliverable
    BY <1>1, <2>2
  <2>3. CASE 0 \notin Deliverable /\ 1 \notin Deliverable
    <3>1. \A j \in Deliverable : j = 8
      BY <1>1, <2>3
    <3>2. 8 \in Deliverable
      BY <3>1
    <3>. QED  BY <3>1, <3>2
  <2>. QED  BY <2>1, <2>2, <2>3
<1>3. First(Deliverable) \in Deliverable
  BY <1>2 DEF First
<1>. QED  BY <1>1, <1>3 DEF Devices, PIT_IRQ, KEYBOARD_IRQ, RTC_IRQ

LEMMA SetUpKept ==
  ASSUME InterruptsInv, Running, UNCHANGED <<stage, curr_terminal, booted>>,
         pic'.master = pic.master, pic'.slave = pic.slave,
         \A t \in Terminals \ {curr_terminal} : frames'[t] = frames[t]
  PROVE  SetUp'
BY DEF InterruptsInv, SetUp, Running

LEMMA OnlyStackChanges ==
  ASSUME TypeOK, NEW f, frames' = Pushed(f) \/ frames' = Moved(f) \/ frames' = Popped
  PROVE  \A t \in Terminals \ {curr_terminal} : frames'[t] = frames[t]
BY StackFacts DEF Pushed, Moved, Popped

LEMMA BootStep ==
  ASSUME InterruptsInv, Boot
  PROVE  InterruptsInv'
<1>1. /\ stage \in 0 .. 9 /\ stage' = stage + 1 /\ TypeOK /\ SetUp
      /\ ~eflags_if /\ pic.isr = {} /\ booted = {} /\ \A t \in Terminals : frames[t] = <<>>
      /\ UNCHANGED <<line, curr_terminal, frames>>
  BY DEF InterruptsInv, SetUp, Boot, Running, TypeOK, BootSteps
<1>2. /\ pic' \in [imr : SUBSET IRQs, irr : SUBSET Devices, isr : SUBSET IRQs,
                   master : {8, 32}, slave : {40, 112}]
      /\ pic'.isr = {}
      /\ stage >= 1 => pic'.master = 32 /\ pic'.slave = 40
  <2>1. pic' = Initialized(BootSteps[stage + 1], pic)
    BY DEF Boot
  <2>2. CASE stage = 1
    BY <1>1, <2>1, <2>2 DEF Initialized, BootSteps, i8259_init, IRQs, MAX_IRQS, SLAVE_PIC_IRQ
  <2>3. CASE stage # 1
    <3>1. pic' = pic \/ \E irq \in Devices : pic' = enable_irq(pic, irq)
      BY <1>1, <2>1, <2>3 DEF Initialized, BootSteps, Devices
    <3>2. ASSUME NEW irq \in Devices
          PROVE  /\ enable_irq(pic, irq) \in [imr : SUBSET IRQs, irr : SUBSET Devices,
                                              isr : SUBSET IRQs, master : {8, 32}, slave : {40, 112}]
                 /\ enable_irq(pic, irq).isr = pic.isr
                 /\ enable_irq(pic, irq).master = pic.master
                 /\ enable_irq(pic, irq).slave = pic.slave
      BY <1>1 DEF enable_irq, TypeOK
    <3>. QED  BY <1>1, <2>3, <3>1, <3>2 DEF SetUp, TypeOK
  <2>. QED  BY <2>2, <2>3
<1>3. /\ eflags_if' \in BOOLEAN
      /\ stage < 9 => ~eflags_if' /\ booted' = {}
      /\ stage = 9 => booted' = {curr_terminal}
  <2>1. BootSteps[stage + 1] = "execute" <=> stage = 9
    BY <1>1 DEF BootSteps
  <2>2. eflags_if' = (BootSteps[stage + 1] = "execute")
    BY DEF Boot
  <2>3. booted' = IF stage = 9 THEN {curr_terminal} ELSE booted
    BY <2>1 DEF Boot
  <2>4. eflags_if' \in BOOLEAN /\ (eflags_if' <=> stage = 9)
    BY <2>1, <2>2, Zenon
  <2>. QED  BY <1>1, <2>3, <2>4
<1>4. TypeOK' /\ SetUp'
  BY <1>1, <1>2, <1>3 DEF TypeOK, SetUp, Running, BootSteps
<1>5. SharedWorkAlone' /\ SuspendedInScheduler'
  <2>1. \A t, k : ~FrameOf(t, k)'
    BY <1>1 DEF FrameOf
  <2>2. \A t : t \notin booted' \ {curr_terminal'}
    BY <1>1, <1>3
  <2>3. frames' \in [Terminals -> Seq(FrameRecords)]
    BY <1>1, StackFacts
  <2>. QED  BY <2>1, <2>2, <2>3, ByFrameAfter
<1>6. InService'
  <2>1. \A d, t, k : ~OwesAt(d, t, k)'
    BY <1>1 DEF OwesAt, FrameOf
  <2>. QED  BY <1>2, <2>1 DEF InService, OneOwes
<1>. QED  BY <1>4, <1>5, <1>6 DEF InterruptsInv

LEMMA RaiseStep ==
  ASSUME InterruptsInv, NEW device \in Devices, Raise(device)
  PROVE  InterruptsInv'
<1>1. /\ pic' = [pic EXCEPT !.irr = @ \cup {device}]
      /\ UNCHANGED <<stage, eflags_if, curr_terminal, booted, frames>>
      /\ line' \subseteq {KEYBOARD_IRQ, RTC_IRQ}
  BY DEF Raise, InterruptsInv, TypeOK, Devices
<1>2. /\ pic' \in [imr : SUBSET IRQs, irr : SUBSET Devices, isr : SUBSET IRQs,
                   master : {8, 32}, slave : {40, 112}]
      /\ pic'.isr = pic.isr /\ pic'.master = pic.master /\ pic'.slave = pic.slave
  <2>1. pic \in [imr : SUBSET IRQs, irr : SUBSET Devices, isr : SUBSET IRQs,
                  master : {8, 32}, slave : {40, 112}]
    BY DEF InterruptsInv, TypeOK
  <2>2. pic.irr \cup {device} \in SUBSET Devices
    BY <2>1
  <2>. QED  BY <1>1, <2>1, <2>2
<1>3. TypeOK' /\ SetUp'
  BY <1>1, <1>2 DEF InterruptsInv, TypeOK, SetUp, Running
<1>4. SharedWorkAlone' /\ SuspendedInScheduler'
  BY <1>1 DEF InterruptsInv, SharedWorkAlone, SuspendedInScheduler, InScheduler
<1>5. \A d, t, k : OwesAt(d, t, k)' <=> OwesAt(d, t, k)
  BY <1>1 DEF OwesAt, FrameOf
<1>6. InService'
  BY <1>2, <1>5 DEF InterruptsInv, InService, OneOwes
<1>. QED  BY <1>3, <1>4, <1>6 DEF InterruptsInv

LEMMA DeliverStep ==
  ASSUME InterruptsInv, NEW i \in IRQs, Deliver(i)
  PROVE  InterruptsInv'
<1>. DEFINE f == Frame(build_idt(Vector(i)).handler, "entry", 0)
<1>1. /\ TypeOK /\ Running /\ eflags_if /\ InService
      /\ UNCHANGED <<stage, line, curr_terminal, booted>>
      /\ pic' = Acknowledged(pic, i) /\ frames' = Pushed(f)
      /\ eflags_if' = (eflags_if /\ ~build_idt(Vector(i)).interrupt_gate)
  BY DEF InterruptsInv, Deliver, Enter
<1>2. i \in Deliverable /\ i \in Devices
  BY <1>1, FirstDeliverable DEF Deliver
<1>3. /\ f.handler = (CASE i = PIT_IRQ -> "pit" [] i = KEYBOARD_IRQ -> "keyboard" [] OTHER -> "rtc")
      /\ f.at = "entry" /\ f \in FrameRecords /\ eflags_if' = FALSE
  <2>1. f = [handler |-> build_idt(Vector(i)).handler, at |-> "entry", calls |-> 0]
    BY DEF Frame
  <2>2. /\ build_idt(Vector(i)).handler
             = (CASE i = PIT_IRQ -> "pit" [] i = KEYBOARD_IRQ -> "keyboard" [] OTHER -> "rtc")
        /\ build_idt(Vector(i)).interrupt_gate
    BY <1>1, <1>2, Vectors
  <2>3. build_idt(Vector(i)).handler \in {"pit", "keyboard", "rtc"}
    BY <2>2
  <2>4. eflags_if' = FALSE
    BY <1>1, <2>2
  <2>. HIDE DEF f
  <2>. QED  BY <2>1, <2>2, <2>3, <2>4 DEF FrameRecords, Places
<1>. HIDE DEF f
<1>4. \A d : Owes(d, f) <=> d = i
  BY <1>2, <1>3 DEF Owes, Devices, PIT_IRQ, KEYBOARD_IRQ, RTC_IRQ
<1>5. SharedWorkAlone' /\ SuspendedInScheduler'
  BY <1>1, <1>3, PushKeeps
<1>6. InService'
  <2>. DEFINE l == Len(frames[curr_terminal]) + 1
  <2>1. \A e, t, k : OwesAt(e, t, k)' <=> OwesAt(e, t, k) \/ (e = i /\ t = curr_terminal /\ k = l)
    <3>1. \A e, t, k : OwesAt(e, t, k)' <=>
            OwesAt(e, t, k) \/ (t = curr_terminal /\ k = Len(frames[t]) + 1 /\ Owes(e, f))
      BY <1>1, <1>3, OwesAfterPush
    <3>. QED  BY <1>4, <3>1
  <2>. HIDE DEF l
  <2>. QED  BY <1>1, <1>2, <2>1, ServiceBegun
<1>7. /\ pic' \in [imr : SUBSET IRQs, irr : SUBSET Devices, isr : SUBSET IRQs,
                   master : {8, 32}, slave : {40, 112}]
      /\ pic'.master = pic.master /\ pic'.slave = pic.slave
  <2>1. pic \in [imr : SUBSET IRQs, irr : SUBSET Devices, isr : SUBSET IRQs,
                  master : {8, 32}, slave : {40, 112}]
    BY <1>1 DEF TypeOK
  <2>2. pic.irr \ {i} \in SUBSET Devices
    BY <2>1
  <2>3. pic.isr \cup (IF OnMaster(i) THEN {i} ELSE {i, SLAVE_PIC_IRQ}) \in SUBSET IRQs
    BY <2>1 DEF IRQs, SLAVE_PIC_IRQ, MAX_IRQS
  <2>. QED  BY <1>1, <2>1, <2>2, <2>3 DEF Acknowledged
<1>8. frames' \in [Terminals -> Seq(FrameRecords)]
  BY <1>1, <1>3, PushedFrames
<1>9. TypeOK'
  BY <1>1, <1>3, <1>7, <1>8 DEF TypeOK, FrameRecords
<1>10. SetUp'
  BY <1>1, <1>7, OnlyStackChanges, SetUpKept
<1>. QED  BY <1>5, <1>6, <1>9, <1>10 DEF InterruptsInv

(***************************************************************************)
(* The steps of a handler that stay on its frame.                          *)
(***************************************************************************)
LEMMA MoveStep ==
  ASSUME InterruptsInv, Undisturbed, Stack # <<>>,
         NEW f \in FrameRecords, frames' = Moved(f),
         UNCHANGED <<stage, curr_terminal, booted>>,
         line' \subseteq {KEYBOARD_IRQ, RTC_IRQ}, eflags_if' \in BOOLEAN,
         f.at # "switched", IsShared(f) => ~eflags_if',
         \/ UNCHANGED pic /\ \A d : Owes(d, f) <=> Owes(d, Top)
         \/ \E d \in Devices : /\ pic' = send_eoi(pic, d) /\ Owes(d, Top)
                               /\ \A e : ~Owes(e, f)
  PROVE  InterruptsInv'
<1>1. TypeOK /\ Running /\ InService
  BY DEF InterruptsInv, Undisturbed
<1>2. SharedWorkAlone' /\ SuspendedInScheduler'
  BY <1>1, MoveKeeps
<1>. DEFINE top == Len(frames[curr_terminal])
<1>3. /\ \A e, t, k : OwesAt(e, t, k)' <=>
           IF t = curr_terminal /\ k = top THEN Owes(e, f) ELSE OwesAt(e, t, k)
      /\ \A e : OwesAt(e, curr_terminal, top) <=> Owes(e, Top)
  <2>1. \A e, t, k : OwesAt(e, t, k)' <=>
          IF t = curr_terminal /\ k = Len(frames[t]) THEN Owes(e, f) ELSE OwesAt(e, t, k)
    BY <1>1, OwesAfterMove
  <2>2. FrameOf(curr_terminal, top) /\ frames[curr_terminal][top] = Top
    BY <1>1, StackFacts DEF FrameOf, Top, Stack
  <2>3. \A e : OwesAt(e, curr_terminal, top) <=> Owes(e, Top)
    BY <2>2 DEF OwesAt
  <2>. QED  BY <2>1, <2>3
<1>. HIDE DEF top
<1>4. /\ pic' \in [imr : SUBSET IRQs, irr : SUBSET Devices, isr : SUBSET IRQs,
                   master : {8, 32}, slave : {40, 112}]
      /\ pic'.master = pic.master /\ pic'.slave = pic.slave /\ InService'
  <2>1. CASE UNCHANGED pic /\ \A d : Owes(d, f) <=> Owes(d, Top)
    <3>1. \A e, t, k : OwesAt(e, t, k)' <=> OwesAt(e, t, k)
      BY <1>3, <2>1
    <3>. QED  BY <1>1, <2>1, <3>1, ServiceUnchanged DEF TypeOK
  <2>2. ASSUME NEW d \in Devices, pic' = send_eoi(pic, d), Owes(d, Top), \A e : ~Owes(e, f)
        PROVE  /\ pic' \in [imr : SUBSET IRQs, irr : SUBSET Devices, isr : SUBSET IRQs,
                            master : {8, 32}, slave : {40, 112}]
               /\ pic'.master = pic.master /\ pic'.slave = pic.slave /\ InService'
    <3>1. OwesAt(d, curr_terminal, top)
      BY <1>3, <2>2
    <3>2. \A e, t, k : OwesAt(e, t, k)' <=>
                         OwesAt(e, t, k) /\ ~(t = curr_terminal /\ k = top)
      BY <1>3, <2>2
    <3>3. InService'
      BY <1>1, <2>2, <3>1, <3>2, ServiceAcknowledged
    <3>4. pic \in [imr : SUBSET IRQs, irr : SUBSET Devices, isr : SUBSET IRQs,
                   master : {8, 32}, slave : {40, 112}]
      BY <1>1 DEF TypeOK
    <3>. QED  BY <2>2, <3>3, <3>4 DEF send_eoi
  <2>. QED  BY <2>1, <2>2
<1>5. frames' \in [Terminals -> Seq(FrameRecords)]
  BY <1>1, MovedFrames
<1>6. TypeOK'
  BY <1>1, <1>4, <1>5 DEF TypeOK, FrameRecords
<1>7. SetUp'
  BY <1>1, <1>4, OnlyStackChanges, SetUpKept
<1>. QED  BY <1>2, <1>4, <1>6, <1>7 DEF InterruptsInv

LEMMA TopRecord ==
  ASSUME InterruptsInv, Stack # <<>>
  PROVE  Top = [handler |-> Top.handler, at |-> Top.at, calls |-> Top.calls]
         /\ Top \in FrameRecords
BY StackFacts DEF InterruptsInv, FrameRecords

LEMMA KeyboardSteps ==
  ASSUME InterruptsInv, KeyboardReads \/ EditBuffer \/ KeyboardEoi
  PROVE  InterruptsInv'
<1>1. TypeOK /\ line \subseteq {KEYBOARD_IRQ, RTC_IRQ} /\ eflags_if \in BOOLEAN
  BY DEF InterruptsInv, TypeOK
<1>2. CASE KeyboardReads
  <2>1. PICK n \in {0, 1, 4} : frames' = Moved(Frame("keyboard", "calls", n))
    BY <1>2 DEF KeyboardReads, EditCalls
  <2>. DEFINE f == Frame("keyboard", "calls", n)
  <2>2. f \in FrameRecords /\ f.handler = "keyboard" /\ f.at = "calls"
    BY DEF Frame, FrameRecords, Places
  <2>. HIDE DEF f
  <2>3. /\ Undisturbed /\ Stack # <<>> /\ Top.handler = "keyboard" /\ Top.at = "entry"
        /\ UNCHANGED <<stage, pic, eflags_if, curr_terminal, booted>>
        /\ line' \subseteq {KEYBOARD_IRQ, RTC_IRQ}
    BY <1>1, <1>2 DEF KeyboardReads, At
  <2>4. \A d : Owes(d, f) <=> Owes(d, Top)
    BY <2>2, <2>3 DEF Owes
  <2>5. ~IsShared(f)
    BY <2>2 DEF IsShared, SharedWork
  <2>. QED  BY <1>1, <2>1, <2>2, <2>3, <2>4, <2>5, MoveStep DEF f
<1>3. CASE EditBuffer
  <2>. DEFINE f == [Top EXCEPT !.calls = @ - 1]
  <2>1. /\ Undisturbed /\ Stack # <<>> /\ Top.handler = "keyboard" /\ Top.at = "calls"
        /\ UNCHANGED <<stage, pic, line, curr_terminal, booted>>
        /\ Top.calls > 0 /\ frames' = Moved(f) /\ eflags_if' = TRUE
    BY <1>3 DEF EditBuffer, At
  <2>2. f \in FrameRecords /\ f.handler = "keyboard" /\ f.at = "calls"
    BY <2>1, TopRecord DEF FrameRecords, Places
  <2>. HIDE DEF f
  <2>3. \A d : Owes(d, f) <=> Owes(d, Top)
    BY <2>1, <2>2 DEF Owes
  <2>4. ~IsShared(f)
    BY <2>2 DEF IsShared, SharedWork
  <2>. QED  BY <1>1, <2>1, <2>2, <2>3, <2>4, MoveStep
<1>4. CASE KeyboardEoi
  <2>. DEFINE f == [Top EXCEPT !.at = "eoi"]
  <2>1. /\ Undisturbed /\ Stack # <<>> /\ Top.handler = "keyboard" /\ Top.at = "calls"
        /\ UNCHANGED <<stage, line, eflags_if, curr_terminal, booted>>
        /\ frames' = Moved(f) /\ pic' = send_eoi(pic, KEYBOARD_IRQ)
    BY <1>4 DEF KeyboardEoi, At
  <2>2. f \in FrameRecords /\ f.at = "eoi"
    BY <2>1, TopRecord DEF FrameRecords, Places
  <2>. HIDE DEF f
  <2>3. (\A e : ~Owes(e, f)) /\ Owes(KEYBOARD_IRQ, Top) /\ KEYBOARD_IRQ \in Devices
    BY <2>1, <2>2 DEF Owes, Devices
  <2>4. ~IsShared(f)
    BY <2>2 DEF IsShared, SharedWork
  <2>. QED  BY <1>1, <2>1, <2>2, <2>3, <2>4, MoveStep
<1>. QED  BY <1>2, <1>3, <1>4

LEMMA RtcSteps ==
  ASSUME InterruptsInv, RtcReadsC \/ RtcEoi
  PROVE  InterruptsInv'
<1>1. TypeOK /\ line \subseteq {KEYBOARD_IRQ, RTC_IRQ} /\ eflags_if \in BOOLEAN
  BY DEF InterruptsInv, TypeOK
<1>2. CASE RtcReadsC
  <2>. DEFINE f == [Top EXCEPT !.at = "counted"]
  <2>1. /\ Undisturbed /\ Stack # <<>> /\ Top.handler = "rtc" /\ Top.at = "entry"
        /\ UNCHANGED <<stage, pic, eflags_if, curr_terminal, booted>>
        /\ line' \subseteq {KEYBOARD_IRQ, RTC_IRQ} /\ frames' = Moved(f)
    BY <1>1, <1>2 DEF RtcReadsC, At
  <2>2. f \in FrameRecords /\ f.handler = "rtc" /\ f.at = "counted"
    BY <2>1, TopRecord DEF FrameRecords, Places
  <2>. HIDE DEF f
  <2>3. \A d : Owes(d, f) <=> Owes(d, Top)
    BY <2>1, <2>2 DEF Owes
  <2>4. ~eflags_if
    <3>1. FrameOf(curr_terminal, Len(frames[curr_terminal])) /\ IsShared(Top)
      BY <1>1, <2>1, StackFacts DEF FrameOf, Stack, IsShared, SharedWork
    <3>2. SharedWorkAlone /\ Top = frames[curr_terminal][Len(frames[curr_terminal])]
      BY DEF InterruptsInv, Top, Stack
    <3>. QED  BY <1>1, <3>1, <3>2, ByFrame
  <2>. QED  BY <1>1, <2>1, <2>2, <2>3, <2>4, MoveStep
<1>3. CASE RtcEoi
  <2>. DEFINE f == [Top EXCEPT !.at = "eoi"]
  <2>1. /\ Undisturbed /\ Stack # <<>> /\ Top.handler = "rtc" /\ Top.at = "counted"
        /\ UNCHANGED <<stage, line, eflags_if, curr_terminal, booted>>
        /\ frames' = Moved(f) /\ pic' = send_eoi(pic, RTC_IRQ)
    BY <1>3 DEF RtcEoi, At
  <2>2. f \in FrameRecords /\ f.at = "eoi"
    BY <2>1, TopRecord DEF FrameRecords, Places
  <2>. HIDE DEF f
  <2>3. (\A e : ~Owes(e, f)) /\ Owes(RTC_IRQ, Top) /\ RTC_IRQ \in Devices
    BY <2>1, <2>2 DEF Owes, Devices
  <2>4. ~IsShared(f)
    BY <2>2 DEF IsShared, SharedWork
  <2>. QED  BY <1>1, <2>1, <2>2, <2>3, <2>4, MoveStep
<1>. QED  BY <1>2, <1>3

LEMMA PitStep ==
  ASSUME InterruptsInv, PitEoi
  PROVE  InterruptsInv'
<1>. DEFINE f == [Top EXCEPT !.at = "scheduling"]
<1>1. /\ Undisturbed /\ Stack # <<>> /\ Top.handler = "pit" /\ Top.at = "entry"
      /\ UNCHANGED <<stage, line, curr_terminal, booted>> /\ eflags_if' = FALSE
      /\ frames' = Moved(f) /\ pic' = send_eoi(pic, PIT_IRQ)
      /\ line \subseteq {KEYBOARD_IRQ, RTC_IRQ}
  BY DEF PitEoi, At, InterruptsInv, TypeOK
<1>2. f \in FrameRecords /\ f.at = "scheduling"
  BY <1>1, TopRecord DEF FrameRecords, Places
<1>. HIDE DEF f
<1>3. (\A e : ~Owes(e, f)) /\ Owes(PIT_IRQ, Top) /\ PIT_IRQ \in Devices
  BY <1>1, <1>2 DEF Owes, Devices
<1>. QED  BY <1>1, <1>2, <1>3, MoveStep

LEMMA ScheduleStep ==
  ASSUME InterruptsInv, Schedule
  PROVE  InterruptsInv'
<1>1. /\ TypeOK /\ Running /\ InService /\ At("pit", "scheduling")
      /\ UNCHANGED <<stage, pic, line>> /\ eflags_if' = TRUE
      /\ curr_terminal' = NextTerminal /\ booted' = booted \cup {NextTerminal}
  BY DEF InterruptsInv, Schedule, Undisturbed
<1>2. /\ NextTerminal \in Terminals /\ frames' \in [Terminals -> Seq(FrameRecords)]
      /\ \A t \in Terminals : Len(frames'[t]) = Len(frames[t]) /\ Len(frames[t]) \in Nat
  BY ScheduleFrames
<1>3. SharedWorkAlone' /\ SuspendedInScheduler'
  BY ScheduleKeeps
<1>4. TypeOK'
  BY <1>1, <1>2 DEF TypeOK, FrameRecords
<1>5. SetUp'
  <2>1. \A t \in Terminals \ booted' : frames'[t] = <<>>
    <3>1. ASSUME NEW t \in Terminals \ booted' PROVE frames'[t] = <<>>
      <4>1. frames[t] = <<>>
        BY <1>1, <3>1 DEF InterruptsInv, SetUp
      <4>2. Len(frames'[t]) = 0 /\ frames'[t] \in Seq(FrameRecords)
        BY <1>2, <4>1
      <4>. QED  BY <4>2
    <3>. QED  BY <3>1
  <2>2. Running' /\ curr_terminal' \in booted'
    BY <1>1 DEF Running
  <2>3. stage' >= 2 => pic'.master = 32 /\ pic'.slave = 40
    BY <1>1 DEF InterruptsInv, SetUp
  <2>. QED  BY <2>1, <2>2, <2>3 DEF SetUp
<1>6. \A d, t, k : OwesAt(d, t, k)' <=> OwesAt(d, t, k)
  <2>1. SUFFICES ASSUME NEW d, NEW t, NEW k PROVE OwesAt(d, t, k)' <=> OwesAt(d, t, k)
    OBVIOUS
  <2>2. FrameOf(t, k)' <=> FrameOf(t, k)
    BY <1>2 DEF FrameOf
  <2>3. CASE FrameOf(t, k) /\ frames'[t][k] # frames[t][k]
    <3>1. frames'[t][k].at \in {"switched", "resumed"}
      BY <2>3, ScheduleFrames
    <3>2. ~OwesAt(d, t, k)'
      BY <3>1 DEF OwesAt, Owes
    <3>3. frames[t][k].at \in {"scheduling", "switched"}
      <4>1. \/ t = curr_terminal /\ k = Len(frames[t])
            \/ t = NextTerminal /\ t \in booted \ {curr_terminal} /\ k = Len(frames[t])
        BY <2>3, ScheduleFrames
      <4>2. CASE t = curr_terminal /\ k = Len(frames[t])
        BY <1>1, <4>2 DEF At, Top, Stack
      <4>3. CASE t = NextTerminal /\ t \in booted \ {curr_terminal} /\ k = Len(frames[t])
        BY <1>1, <1>2, <4>3, ByFrame DEF InterruptsInv
      <4>. QED  BY <4>1, <4>2, <4>3
    <3>4. ~OwesAt(d, t, k)
      BY <3>3 DEF OwesAt, Owes
    <3>. QED  BY <3>2, <3>4
  <2>4. CASE FrameOf(t, k) /\ frames'[t][k] = frames[t][k]
    BY <2>2, <2>4 DEF OwesAt
  <2>5. CASE ~FrameOf(t, k)
    BY <2>2, <2>5 DEF OwesAt
  <2>. QED  BY <2>3, <2>4, <2>5
<1>7. InService'
  BY <1>1, <1>6, ServiceUnchanged
<1>. QED  BY <1>3, <1>4, <1>5, <1>7 DEF InterruptsInv

LEMMA LeaveStep ==
  ASSUME InterruptsInv, Return \/ ExceptionHalts
  PROVE  InterruptsInv'
<1>1. /\ TypeOK /\ Running /\ InService /\ Stack # <<>>
      /\ UNCHANGED <<stage, pic, line, curr_terminal, booted>>
      /\ eflags_if' = TRUE /\ frames' = Popped
      /\ Top.at \in {"eoi", "resumed"} \/ Top.handler = "exception"
  BY DEF InterruptsInv, Return, ExceptionHalts, Undisturbed, At
<1>2. \A d : ~Owes(d, Top)
  BY <1>1 DEF Owes
<1>3. SharedWorkAlone' /\ SuspendedInScheduler'
  BY <1>1, PopKeeps
<1>4. frames' \in [Terminals -> Seq(FrameRecords)]
  BY <1>1, PoppedFrames
<1>5. TypeOK'
  BY <1>1, <1>4 DEF TypeOK, FrameRecords
<1>6. SetUp'
  BY <1>1, OnlyStackChanges, SetUpKept
<1>7. \A d, t, k : OwesAt(d, t, k)' <=> OwesAt(d, t, k)
  BY <1>1, <1>2, OwesAfterPop
<1>8. InService'
  BY <1>1, <1>7, ServiceUnchanged
<1>. QED  BY <1>3, <1>5, <1>6, <1>8 DEF InterruptsInv

LEMMA MaskStep ==
  ASSUME InterruptsInv, SystemCallMasks
  PROVE  InterruptsInv'
<1>1. /\ TypeOK /\ Running /\ InService /\ Stack = <<>>
      /\ UNCHANGED <<stage, pic, line, curr_terminal, booted, frames>>
      /\ eflags_if' \in BOOLEAN
  BY DEF InterruptsInv, SystemCallMasks, Undisturbed, TypeOK
<1>2. TypeOK' /\ SetUp'
  BY <1>1 DEF InterruptsInv, TypeOK, SetUp, Running
<1>3. SharedWorkAlone'
  <2>1. \A t, k : FrameOf(t, k) => ~IsShared(frames[t][k])
    <3>1. \A k : ~FrameOf(curr_terminal, k)
      BY <1>1 DEF FrameOf, Stack
    <3>. QED  BY <1>1, <3>1, ByFrame DEF InterruptsInv
  <2>2. \A t, k : FrameOf(t, k)' => ~IsShared(frames'[t][k])
    BY <1>1, <2>1 DEF FrameOf
  <2>3. frames' \in [Terminals -> Seq(FrameRecords)]
    BY <1>1, StackFacts
  <2>. QED  BY <2>2, <2>3, ByFrameAfter
<1>4. SuspendedInScheduler'
  BY <1>1 DEF InterruptsInv, SuspendedInScheduler, InScheduler
<1>5. \A d, t, k : OwesAt(d, t, k)' <=> OwesAt(d, t, k)
  BY <1>1 DEF OwesAt, FrameOf
<1>6. InService'
  BY <1>1, <1>5, ServiceUnchanged
<1>. QED  BY <1>2, <1>3, <1>4, <1>6 DEF InterruptsInv

LEMMA TrapStep ==
  ASSUME InterruptsInv,
         NEW vector \in {GENERAL_PROTECTION, PIT, KEYBOARD, RTC, SYSTEM_CALL_VECTOR},
         ProgramTraps(vector)
  PROVE  InterruptsInv'
<1>. DEFINE f == Frame("exception", "entry", 0)
<1>1. /\ TypeOK /\ Running /\ InService /\ eflags_if
      /\ UNCHANGED <<stage, pic, line, curr_terminal, booted>>
      /\ Reached(vector) # SYSTEM_CALL_VECTOR /\ Enter(Reached(vector))
  BY DEF InterruptsInv, ProgramTraps, Undisturbed
<1>2. Reached(vector) = 13
  <2>1. vector # SYSTEM_CALL_VECTOR => build_idt(vector).dpl = 0
    BY DEF build_idt
  <2>2. build_idt(SYSTEM_CALL_VECTOR).dpl = 3 /\ build_idt(SYSTEM_CALL_VECTOR).present
    BY DEF build_idt
  <2>. QED  BY <1>1, <2>1, <2>2 DEF Reached, GENERAL_PROTECTION
<1>3. build_idt(13).handler = "exception"
  <2>1. build_idt(13).handler = HandlerOf(13)
    BY DEF build_idt
  <2>. QED
    BY <2>1 DEF HandlerOf, PIT, KEYBOARD, RTC, SYSTEM_CALL_VECTOR, NUM_EXCEPTIONS, SKIP
<1>4. frames' = Pushed(f) /\ eflags_if' \in BOOLEAN
  <2>1. build_idt(13).interrupt_gate \in BOOLEAN
    BY DEF build_idt, InterruptGates
  <2>2. eflags_if' = (eflags_if /\ ~build_idt(13).interrupt_gate)
    BY <1>1, <1>2 DEF Enter
  <2>3. eflags_if' \in BOOLEAN
    BY <2>2
  <2>. QED  BY <1>1, <1>2, <1>3, <2>3 DEF Enter
<1>5. f \in FrameRecords /\ f.handler = "exception" /\ f.at = "entry"
  BY DEF Frame, FrameRecords, Places
<1>. HIDE DEF f
<1>6. ~IsShared(f) /\ \A d : ~Owes(d, f)
  BY <1>5 DEF IsShared, SharedWork, Owes
<1>7. SharedWorkAlone' /\ SuspendedInScheduler'
  BY <1>1, <1>4, <1>5, <1>6, PushKeeps
<1>8. \A d, t, k : OwesAt(d, t, k)' <=> OwesAt(d, t, k)
  BY <1>1, <1>4, <1>5, <1>6, OwesAfterPush
<1>9. InService'
  BY <1>1, <1>8, ServiceUnchanged
<1>10. frames' \in [Terminals -> Seq(FrameRecords)]
  BY <1>1, <1>4, <1>5, PushedFrames
<1>11. TypeOK'
  BY <1>1, <1>4, <1>10 DEF TypeOK, FrameRecords
<1>12. SetUp'
  BY <1>1, <1>4, OnlyStackChanges, SetUpKept
<1>. QED  BY <1>7, <1>9, <1>11, <1>12 DEF InterruptsInv

-----------------------------------------------------------------------------
(***************************************************************************)
(* The invariant and what follows from it.                                 *)
(***************************************************************************)
LEMMA InterruptsInvInit ==
  ASSUME Init
  PROVE  InterruptsInv
<1>1. \A t \in Terminals : frames[t] = <<>>
  BY DEF Init
<1>2. frames \in [Terminals -> Seq(FrameRecords)]
  BY DEF Init
<1>3. 0 \in Terminals
  BY DEF Terminals
<1>4. TypeOK
  BY <1>2, <1>3 DEF Init, TypeOK, FrameRecords, BootSteps, IRQs, MAX_IRQS
<1>5. SetUp
  BY <1>1 DEF Init, SetUp, Running, BootSteps
<1>6. \A t, k : ~FrameOf(t, k)
  BY <1>1 DEF FrameOf
<1>7. SharedWorkAlone /\ SuspendedInScheduler
  BY <1>4, <1>6, ByFrame DEF Init
<1>8. InService
  BY <1>6 DEF Init, InService, OneOwes, OwesAt
<1>. QED  BY <1>4, <1>5, <1>7, <1>8 DEF InterruptsInv

LEMMA InterruptsInvStep ==
  ASSUME InterruptsInv, [Next]_vars
  PROVE  InterruptsInv'
<1>1. CASE Boot
  BY <1>1, BootStep
<1>2. CASE \E device \in Devices : Raise(device)
  BY <1>2, RaiseStep
<1>3. CASE \E i \in IRQs : Deliver(i)
  BY <1>3, DeliverStep
<1>4. CASE Handler
  BY <1>4, KeyboardSteps, RtcSteps, PitStep, ScheduleStep, LeaveStep DEF Handler
<1>5. CASE Program
  BY <1>5, MaskStep, TrapStep DEF Program
<1>6. CASE UNCHANGED vars
  <2>1. UNCHANGED <<stage, pic, line, eflags_if, curr_terminal, booted, frames>>
    BY <1>6 DEF vars
  <2>2. TypeOK' /\ SetUp'
    BY <2>1 DEF InterruptsInv, TypeOK, SetUp, Running
  <2>3. SharedWorkAlone' /\ SuspendedInScheduler'
    BY <2>1 DEF InterruptsInv, SharedWorkAlone, SuspendedInScheduler, InScheduler
  <2>4. \A d, t, k : OwesAt(d, t, k)' <=> OwesAt(d, t, k)
    BY <2>1 DEF OwesAt, FrameOf
  <2>5. InService'
    BY <2>1, <2>4, ServiceUnchanged DEF InterruptsInv
  <2>. QED  BY <2>2, <2>3, <2>5 DEF InterruptsInv
<1>. QED  BY <1>1, <1>2, <1>3, <1>4, <1>5, <1>6 DEF Next

LEMMA InterruptsInvariant == Spec => []InterruptsInv
BY InterruptsInvInit, InterruptsInvStep, PTL DEF Spec

(***************************************************************************)
(* The controllers, the stacks and the flags keep their types.             *)
(***************************************************************************)
THEOREM InterruptsTypes == Spec => []TypeOK
<1>1. InterruptsInv => TypeOK
  BY DEF InterruptsInv
<1>. QED  BY <1>1, InterruptsInvariant, PTL

(***************************************************************************)
(* On every stack and in every interleaving of the three interrupts, a     *)
(* handler that works on shared state has the processor for itself.        *)
(***************************************************************************)
THEOREM SharedWorkUninterrupted == Spec => []SharedWorkAlone
<1>1. InterruptsInv => SharedWorkAlone
  BY DEF InterruptsInv
<1>. QED  BY <1>1, InterruptsInvariant, PTL

(***************************************************************************)
(* However many terminals take turns, exactly those that have been started *)
(* and are not served have a stack that ends inside scheduler.             *)
(***************************************************************************)
THEOREM StacksEndInScheduler == Spec => []SuspendedInScheduler
<1>1. InterruptsInv => SuspendedInScheduler
  BY DEF InterruptsInv
<1>. QED  BY <1>1, InterruptsInvariant, PTL

(***************************************************************************)
(* OwesEoi, which the property counts, place by place.                     *)
(***************************************************************************)
LEMMA PlacesOfDevice ==
  ASSUME TypeOK, NEW device \in Devices
  PROVE  /\ \A t, k : <<t, k>> \in OwesEoi(device) <=> OwesAt(device, t, k)
         /\ \A x \in OwesEoi(device) : \E t, k : x = <<t, k>>
<1>1. \A t \in Terminals : DOMAIN frames[t] = 1 .. Len(frames[t])
  BY StackFacts, LenProperties
<1>. DEFINE places ==
              CASE device = PIT_IRQ -> [handler |-> "pit", at |-> {"entry"}]
                [] device = KEYBOARD_IRQ -> [handler |-> "keyboard", at |-> {"entry", "calls"}]
                [] device = RTC_IRQ -> [handler |-> "rtc", at |-> {"entry", "counted"}]
            Of(t) == {<<t, k>> : k \in {k \in DOMAIN frames[t] :
                                          /\ frames[t][k].handler = places.handler
                                          /\ frames[t][k].at \in places.at}}
<1>2. OwesEoi(device) = UNION {Of(t) : t \in Terminals}
  BY Zenon DEF OwesEoi
<1>3. \A f : f.handler = places.handler /\ f.at \in places.at <=> Owes(device, f)
  BY DEF Owes, Devices, PIT_IRQ, KEYBOARD_IRQ, RTC_IRQ
<1>. HIDE DEF places
<1>4. \A t, k : <<t, k>> \in OwesEoi(device) <=> OwesAt(device, t, k)
  BY <1>1, <1>2, <1>3 DEF OwesAt, FrameOf
<1>5. \A x \in OwesEoi(device) : \E t, k : x = <<t, k>>
  BY <1>2
<1>. QED  BY <1>4, <1>5

(***************************************************************************)
(* However deep the handlers nest and wherever they are suspended, a       *)
(* device in service has exactly one handler that will acknowledge it.     *)
(***************************************************************************)
THEOREM EveryInterruptAcknowledgedOnce == Spec => []InServiceHasHandler
<1>1. ASSUME InterruptsInv PROVE InServiceHasHandler
  <2>1. TypeOK /\ InService
    BY <1>1 DEF InterruptsInv
  <2>2. ASSUME NEW device \in Devices
        PROVE  Cardinality(OwesEoi(device)) = IF device \in pic.isr THEN 1 ELSE 0
    <3>1. CASE device \notin pic.isr
      <4>1. OwesEoi(device) = {}
        BY <2>1, <3>1, PlacesOfDevice DEF InService, OneOwes
      <4>. QED  BY <3>1, <4>1, FS_EmptySet
    <3>2. CASE device \in pic.isr
      <4>1. PICK t, k : OwesAt(device, t, k)
        BY <2>1, <3>2 DEF InService, OneOwes
      <4>2. OwesEoi(device) = {<<t, k>>}
        BY <2>1, <4>1, PlacesOfDevice DEF InService, OneOwes
      <4>. QED  BY <3>2, <4>2, FS_Singleton
    <3>. QED  BY <3>1, <3>2
  <2>. QED  BY <2>1, <2>2 DEF InService, InServiceHasHandler
<1>. QED  BY <1>1, InterruptsInvariant, PTL
=============================================================================
