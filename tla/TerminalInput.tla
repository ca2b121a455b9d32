--------------------------- MODULE TerminalInput ---------------------------
(***************************************************************************)
(* Typing and reading: edit_buffer and terminal_read (terminal.c) and the  *)
(* part of the keyboard handler that calls edit_buffer (keyboard.c).       *)
(*                                                                         *)
(* A key edits the buffer of screen_terminal; terminal_read waits for the  *)
(* enter_flag of curr_terminal, its own terminal, which is served in turn. *)
(* edit_buffer and switch_screen end with sti() before the handler sends   *)
(* its EOI: from there on a tick may take the processor away from the      *)
(* handler, and until the interrupted terminal is served again there is no *)
(* EOI and no further key.  The wait of terminal_read checks the flag with *)
(* interrupts disabled and leaves them so until the line is copied: one    *)
(* step.                                                                   *)
(*                                                                         *)
(* Chars are the characters typing_handler may come up with under any      *)
(* state of Shift and Caps Lock; for scan codes outside its tables (key    *)
(* releases among them) it reads an uninitialised variable, which may be   *)
(* any of them or 0.                                                       *)
(***************************************************************************)
EXTENDS Integers, SequencesExt

CONSTANTS
  NumTerminals,
  MAX_BUF_SIZE,   \* 128 in terminal.h
  Chars, SPACE_ASCII, END_OF_LINE, NUL,
  Requests,       \* values of nbytes
  TypingAhead     \* whether keys come between Enter and the turn of the reader

ASSUME BufferAssumption == MAX_BUF_SIZE \in Nat /\ MAX_BUF_SIZE > 2
ASSUME TypingAssumption == TypingAhead \in BOOLEAN
ASSUME TerminalsAssumption == NumTerminals \in Nat \ {0}
\* A newline is never typed as a character: Enter is a key of its own.
ASSUME KeysAssumption == END_OF_LINE \notin Chars \cup {SPACE_ASCII}
ASSUME RequestsAssumption == Requests \subseteq Nat \ {0}

Terminals == 0 .. NumTerminals - 1

VARIABLES
  terminal_array,   \* per terminal: buffer, buffer_size, waitingInRead, enter_flag
  curr_terminal, screen_terminal,
  nbytes,           \* per terminal: argument of its terminal_read, 0 outside
  user_buf,         \* per terminal: what its last terminal_read returned,
                    \* empty while it reads
  handler           \* the terminal in whose turn a key arrived, until the EOI,
                    \* and the spaces Tab has still to add

vars == <<terminal_array, curr_terminal, screen_terminal, nbytes, user_buf, handler>>

Idle == [of |-> -1, spaces |-> 0]

Init ==
  /\ terminal_array = [t \in Terminals |->
       [buffer |-> [i \in 0 .. MAX_BUF_SIZE - 1 |-> NUL], buffer_size |-> 0,
        waitingInRead |-> 0, enter_flag |-> 0]]
  /\ curr_terminal = 0 /\ screen_terminal = 0
  /\ nbytes = [t \in Terminals |-> 0]
  /\ user_buf = [t \in Terminals |-> <<>>]
  /\ handler = Idle

-----------------------------------------------------------------------------
(***************************************************************************)
(* edit_buffer, on the record of one terminal.                             *)
(***************************************************************************)
Added(term, c) ==
  [term EXCEPT !.buffer[term.buffer_size] = c, !.buffer_size = @ + 1]

Entered(term) == [Added(term, END_OF_LINE) EXCEPT !.enter_flag = 1]

\* Mutant of Full: one character too many, no place left for the newline.
Full_OffByOne(term) == term.buffer_size = MAX_BUF_SIZE

Full(term) == term.buffer_size = MAX_BUF_SIZE - 1

Typed(term, c) == IF Full(term) THEN term ELSE Added(term, c)

\* The 0 goes behind the last character, except into an empty buffer.
Erased(term) ==
  LET old == term.buffer_size
      new == IF old > 0 THEN old - 1 ELSE 0
  IN [term EXCEPT !.buffer = [i \in DOMAIN @ |->
                    IF (old > 0 /\ i = old) \/ (new = 0 /\ i = 0) THEN NUL ELSE @[i]],
                  !.buffer_size = new]

\* Mutant of EditedTerminal: the terminal being served.
EditedTerminal_Served == curr_terminal

EditedTerminal == screen_terminal

EditedTerm == terminal_array[EditedTerminal]

\* edit_buffer, where edited is the record its branch for the key makes.
EditBuffer(edited) ==
  terminal_array' =
    [terminal_array EXCEPT ![EditedTerminal] =
       IF EditedTerm.waitingInRead = 1 THEN edited ELSE @]

-----------------------------------------------------------------------------
(***************************************************************************)
(* The keyboard.                                                           *)
(***************************************************************************)
\* A key interrupts the terminal being served.  If a line fills the buffer,
\* its newline included, the next key would be written behind the buffer:
\* such keys are left out.
KeyArrives ==
  /\ handler = Idle
  /\ TypingAhead \/ terminal_array[screen_terminal].enter_flag = 0
  /\ terminal_array[screen_terminal].buffer_size < MAX_BUF_SIZE

Handling(spaces) == handler' = [of |-> curr_terminal, spaces |-> spaces]

TypeKey(c) ==
  /\ KeyArrives
  /\ EditBuffer(Typed(EditedTerm, c))
  /\ Handling(0)
  /\ UNCHANGED <<curr_terminal, screen_terminal, nbytes, user_buf>>

EnterKey ==
  /\ KeyArrives
  /\ EditBuffer(Entered(EditedTerm))
  /\ Handling(0)
  /\ UNCHANGED <<curr_terminal, screen_terminal, nbytes, user_buf>>

BackspaceKey ==
  /\ KeyArrives
  /\ EditBuffer(Erased(EditedTerm))
  /\ Handling(0)
  /\ UNCHANGED <<curr_terminal, screen_terminal, nbytes, user_buf>>

\* Four calls of edit_buffer, with interrupts enabled in between.
TabKey ==
  /\ KeyArrives
  /\ EditBuffer(Typed(EditedTerm, SPACE_ASCII))
  /\ Handling(3)
  /\ UNCHANGED <<curr_terminal, screen_terminal, nbytes, user_buf>>

TabGoesOn ==
  /\ handler.of = curr_terminal /\ handler.spaces > 0
  /\ EditBuffer(Typed(EditedTerm, SPACE_ASCII))
  /\ handler' = [handler EXCEPT !.spaces = @ - 1]
  /\ UNCHANGED <<curr_terminal, screen_terminal, nbytes, user_buf>>

\* Alt and a function key.  Ctrl-L only redraws the screen: to this state it
\* is a switch to the terminal that is displayed already.
SwitchScreen(t) ==
  /\ handler = Idle
  /\ screen_terminal' = t
  /\ Handling(0)
  /\ UNCHANGED <<terminal_array, curr_terminal, nbytes, user_buf>>

SendEoi ==
  /\ handler.of = curr_terminal /\ handler.spaces = 0
  /\ handler' = Idle
  /\ UNCHANGED <<terminal_array, curr_terminal, screen_terminal, nbytes, user_buf>>

-----------------------------------------------------------------------------
(***************************************************************************)
(* terminal_read, by the program of terminal t, and the scheduler.         *)
(***************************************************************************)
Runs(t) == curr_terminal = t /\ handler.of # t

Read(t, n) ==
  /\ Runs(t)
  /\ nbytes[t] = 0
  /\ nbytes' = [nbytes EXCEPT ![t] = n]
  /\ terminal_array' = [terminal_array EXCEPT ![t].waitingInRead = 1]
  /\ user_buf' = [user_buf EXCEPT ![t] = <<>>]
  /\ UNCHANGED <<curr_terminal, screen_terminal, handler>>

TrueBytes(n) == Min({n, MAX_BUF_SIZE})

\* The index at which the copying loop stops.
CopyStop(term, n) ==
  Min({i \in 0 .. TrueBytes(n) - 1 : term.buffer[i] = END_OF_LINE} \cup {TrueBytes(n)})

\* Mutant of Copied: a line that is cut gets no newline.
Copied_Bare(term, n) ==
  [i \in 1 .. Min({CopyStop(term, n) + 1, TrueBytes(n), term.buffer_size}) |->
     term.buffer[i - 1]]

\* What the caller finds in its buffer: the newline replaces the last byte
\* of a line that is cut.
Copied(term, n) ==
  [i \in 1 .. Min({CopyStop(term, n) + 1, TrueBytes(n), term.buffer_size}) |->
     IF i = TrueBytes(n) /\ CopyStop(term, n) = i /\ i < term.buffer_size
       THEN END_OF_LINE
       ELSE term.buffer[i - 1]]

ReadReturns(t) ==
  LET term == terminal_array[t] IN
    /\ Runs(t)
    /\ nbytes[t] # 0 /\ term.enter_flag = 1
    /\ user_buf' = [user_buf EXCEPT ![t] = Copied(term, nbytes[t])]
    /\ terminal_array' = [terminal_array EXCEPT ![t] =
         [buffer |-> [i \in 0 .. MAX_BUF_SIZE - 1 |->
                        IF i < TrueBytes(nbytes[t]) THEN NUL ELSE term.buffer[i]],
          buffer_size |-> 0, waitingInRead |-> 0, enter_flag |-> 0]]
    /\ nbytes' = [nbytes EXCEPT ![t] = 0]
    /\ UNCHANGED <<curr_terminal, screen_terminal, handler>>

\* Mutant of ServedNext: only the displayed terminal gets turns.
ServedNext_Displayed == screen_terminal

ServedNext == (curr_terminal + 1) % NumTerminals

Tick ==
  /\ curr_terminal' = ServedNext
  /\ UNCHANGED <<terminal_array, screen_terminal, nbytes, user_buf, handler>>

Next ==
  \/ \E c \in Chars : TypeKey(c)
  \/ EnterKey \/ BackspaceKey \/ TabKey \/ TabGoesOn \/ SendEoi
  \/ \E t \in Terminals : SwitchScreen(t) \/ ReadReturns(t)
  \/ \E t \in Terminals, n \in Requests : Read(t, n)
  \/ Tick

\* The timer ticks for ever.  In each of its turns a terminal comes to run:
\* the handler goes on, and the loop of terminal_read checks its flag.
Spec ==
  /\ Init /\ [][Next]_vars
  /\ WF_vars(Tick)
  /\ SF_vars(TabGoesOn) /\ SF_vars(SendEoi)
  /\ \A t \in Terminals : SF_vars(ReadReturns(t))

-----------------------------------------------------------------------------
TypeOK ==
  /\ terminal_array \in [Terminals ->
       [buffer : [0 .. MAX_BUF_SIZE - 1 -> Chars \cup {SPACE_ASCII, END_OF_LINE, NUL}],
        buffer_size : 0 .. MAX_BUF_SIZE, waitingInRead : {0, 1}, enter_flag : {0, 1}]]
  /\ curr_terminal \in Terminals /\ screen_terminal \in Terminals
  /\ nbytes \in [Terminals -> {0} \cup Requests]
  /\ user_buf \in [Terminals -> Seq(Chars \cup {SPACE_ASCII, END_OF_LINE, NUL})]
  /\ handler \in [of : Terminals, spaces : 0 .. 3] \cup {Idle}

(***************************************************************************)
(* Refinement: the flags, the buffer and the handler amount to one line    *)
(* per terminal, and what is given to its reader is that line.             *)
(***************************************************************************)
Line(term) == [i \in 1 .. term.buffer_size |-> term.buffer[i - 1]]

Lines == INSTANCE TerminalLines WITH
  Chars <- Chars \cup {SPACE_ASCII},
  displayed <- screen_terminal,
  asked <- nbytes,
  line <- [t \in Terminals |-> Line(terminal_array[t])],
  entered <- [t \in Terminals |-> terminal_array[t].enter_flag = 1],
  given <- user_buf

ImplementsLines == Lines!Spec

(***************************************************************************)
(* "Checks if the very last byte is the End of Line." (terminal.c:88): a   *)
(* program is given at least the newline, as its last byte.                *)
(***************************************************************************)
ReadEndsInNewline ==
  [][\A t \in Terminals : ReadReturns(t) =>
       user_buf'[t] # <<>> /\ Last(user_buf'[t]) = END_OF_LINE]_vars

(***************************************************************************)
(* Nobody waits for ever: every line entered is given to its reader, and   *)
(* no keyboard handler is kept from its EOI, in whichever terminal's turn  *)
(* its key arrived.                                                        *)
(***************************************************************************)
LinesGiven == Lines!Fairness
KeyboardComesBack == handler # Idle ~> handler = Idle
NobodyWaitsForEver == LinesGiven /\ KeyboardComesBack
=============================================================================
