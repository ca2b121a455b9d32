------------------------------- MODULE Screen -------------------------------
(***************************************************************************)
(* The screen: putc, clear, erase_char and move_cursor (lib.c),            *)
(* switch_screen (keyboard.c), and their callers terminal_write and        *)
(* edit_buffer (terminal.c) and scheduler (pit.c).                         *)
(*                                                                         *)
(* Page 0 of video memory is what the monitor shows, page t + 1 the backup *)
(* of terminal t.  putc and clear draw on the backup page of curr_terminal *)
(* if that is not the terminal displayed, unless DISPLAY_ON_MAIN_PAGE says *)
(* that it is a key that draws.  Every caller has interrupts disabled for  *)
(* as long as it draws, so each is one step; DISPLAY_ON_MAIN_PAGE is 0     *)
(* between steps and is the argument typed here.                           *)
(*                                                                         *)
(* Left out: programs that draw through vidmap, and exceptions, which      *)
(* print their message with interrupts enabled.  The attribute of terminal *)
(* t is the number t.                                                      *)
(***************************************************************************)
EXTENDS TextScreen

CONSTANTS
  NumTerminals,
  MAX_BUF_SIZE,   \* 128 in terminal.h
  Chars,          \* what keys type and programs print
  Texts           \* what programs write

ASSUME TerminalsAssumption == NumTerminals \in Nat \ {0}

ASSUME LineFitsOnScreen ==
  MAX_BUF_SIZE \in Nat \ {0} /\ MAX_BUF_SIZE - 1 <= (NUM_ROWS - 1) * NUM_COLS

ASSUME CharsAssumption == {END_OF_LINE, NUL} \cap Chars = {} /\ END_OF_LINE # NUL

ASSUME TextsAssumption == Texts \subseteq Seq(Chars \cup {END_OF_LINE, NUL})

Terminals == 0 .. NumTerminals - 1
ScreenPage == 0
BackupPage(t) == t + 1

VARIABLES
  video,            \* per page: its cells
  terminal_array,   \* per terminal: screen_x, screen_y, flag, waitingInRead,
                    \* and buffer, cut to its buffer_size characters
  curr_terminal, screen_terminal,
  cursor            \* the place of the cursor on the monitor, as a cell number

vars == <<video, terminal_array, curr_terminal, screen_terminal, cursor>>

Unwritten == [cell \in Cells |-> <<NUL, NumTerminals>>]

Init ==
  /\ video = [page \in 0 .. NumTerminals |->
                IF page = ScreenPage THEN Clear(0).cells ELSE Unwritten]
  /\ terminal_array = [t \in Terminals |->
       [screen_x |-> 0, screen_y |-> 0, flag |-> IF t = 0 THEN 1 ELSE 0,
        waitingInRead |-> 0, buffer |-> <<>>]]
  /\ curr_terminal = 0 /\ screen_terminal = 0
  /\ cursor = 0

-----------------------------------------------------------------------------
(***************************************************************************)
(* Drawing.                                                                *)
(***************************************************************************)
\* Mutant of OnBackup: keys draw for the terminal being served.
OnBackup_NoFlag(typed) == curr_terminal # screen_terminal

OnBackup(typed) == curr_terminal # screen_terminal /\ ~typed

Drawn(typed) == IF OnBackup(typed) THEN curr_terminal ELSE screen_terminal
DrawnPage(typed) == IF OnBackup(typed) THEN BackupPage(curr_terminal) ELSE ScreenPage

\* The screen that putc and clear work on, for putc from a key or not.
Shown(typed) ==
  [cells |-> video[DrawnPage(typed)],
   x |-> terminal_array[Drawn(typed)].screen_x,
   y |-> terminal_array[Drawn(typed)].screen_y]

\* Mutant of move_cursor: the cursor follows whatever was drawn last.
move_cursor_Drawn(terms, displayed) ==
  cursor' = terms[curr_terminal].screen_y * NUM_COLS + terms[curr_terminal].screen_x

move_cursor(terms, displayed) ==
  cursor' = terms[displayed].screen_y * NUM_COLS + terms[displayed].screen_x

\* s is drawn; the records become terms, with the cursor of s in the one drawn.
Draw(typed, s, terms) ==
  /\ video' = [video EXCEPT ![DrawnPage(typed)] = s.cells]
  /\ terminal_array' = [terms EXCEPT ![Drawn(typed)].screen_x = s.x,
                                     ![Drawn(typed)].screen_y = s.y]
  /\ move_cursor(terminal_array', screen_terminal)

-----------------------------------------------------------------------------
(***************************************************************************)
(* Programs: terminal_write and terminal_read.                             *)
(***************************************************************************)
Runs == terminal_array[curr_terminal].waitingInRead = 0

Write(text) ==
  /\ Runs
  /\ Draw(FALSE, PutAll(Shown(FALSE), text, Drawn(FALSE)), terminal_array)
  /\ UNCHANGED <<curr_terminal, screen_terminal>>

Read ==
  /\ Runs
  /\ terminal_array' = [terminal_array EXCEPT ![curr_terminal].waitingInRead = 1]
  /\ UNCHANGED <<video, curr_terminal, screen_terminal, cursor>>

Entered(term) == Contains(term.buffer, END_OF_LINE)

ReadReturns ==
  /\ Entered(terminal_array[curr_terminal])
  /\ terminal_array' = [terminal_array EXCEPT ![curr_terminal].waitingInRead = 0,
                                              ![curr_terminal].buffer = <<>>]
  /\ UNCHANGED <<video, curr_terminal, screen_terminal, cursor>>

-----------------------------------------------------------------------------
(***************************************************************************)
(* Keys: edit_buffer, for a program that reads a line not yet entered (see *)
(* TerminalInput), and switch_screen.                                      *)
(***************************************************************************)
Edited == terminal_array[screen_terminal]

Edits == Edited.waitingInRead = 1 /\ ~Entered(Edited)

WithBuffer(line) == [terminal_array EXCEPT ![screen_terminal].buffer = line]

\* A character, or Enter, which alone may be the last one of the buffer.
TypeKey(c) ==
  /\ Edits
  /\ c = END_OF_LINE \/ Len(Edited.buffer) # MAX_BUF_SIZE - 1
  /\ Draw(TRUE, Put(Shown(TRUE), c, screen_terminal), WithBuffer(Append(Edited.buffer, c)))
  /\ UNCHANGED <<curr_terminal, screen_terminal>>

\* erase_char does not ask which terminal it is for: it is the displayed one.
BackspaceKey ==
  /\ Edits
  /\ Edited.buffer # <<>>
  /\ Draw(TRUE, Erase(Shown(TRUE)), WithBuffer(Front(Edited.buffer)))
  /\ UNCHANGED <<curr_terminal, screen_terminal>>

\* Mutant of Redrawn: the line being typed is not shown again.
Redrawn_Blank == Clear(screen_terminal)

Redrawn == PutAll(Clear(screen_terminal), Edited.buffer, screen_terminal)

\* Ctrl-L, whether the program reads or not.
ClearKey ==
  /\ Draw(TRUE, Redrawn, terminal_array)
  /\ UNCHANGED <<curr_terminal, screen_terminal>>

\* The page shown is saved as the backup of its terminal, then replaced.
Saved == [video EXCEPT ![BackupPage(screen_terminal)] = video[ScreenPage]]

SwitchScreen(new_terminal) ==
  /\ video' = [Saved EXCEPT ![ScreenPage] = Saved[BackupPage(new_terminal)]]
  /\ screen_terminal' = new_terminal
  /\ move_cursor(terminal_array, new_terminal)
  /\ UNCHANGED <<terminal_array, curr_terminal>>

-----------------------------------------------------------------------------
(***************************************************************************)
(* The scheduler, which clears the console of a terminal before it starts  *)
(* its base shell.                                                         *)
(***************************************************************************)
NextTerminal == (curr_terminal + 1) % NumTerminals

Tick ==
  /\ terminal_array[NextTerminal].flag = 1
  /\ curr_terminal' = NextTerminal
  /\ UNCHANGED <<video, terminal_array, screen_terminal, cursor>>

TickBoots ==
  LET next == NextTerminal
      page == IF next = screen_terminal THEN ScreenPage ELSE BackupPage(next)
  IN /\ terminal_array[next].flag = 0
     /\ curr_terminal' = next
     /\ video' = [video EXCEPT ![page] = Clear(next).cells]
     /\ terminal_array' = [terminal_array EXCEPT ![next].screen_x = 0,
                                                 ![next].screen_y = 0, ![next].flag = 1]
     /\ move_cursor(terminal_array', screen_terminal)
     /\ UNCHANGED screen_terminal

Next ==
  \/ \E text \in Texts : Write(text)
  \/ Read \/ ReadReturns
  \/ \E c \in Chars \cup {END_OF_LINE} : TypeKey(c)
  \/ BackspaceKey \/ ClearKey
  \/ \E t \in Terminals : SwitchScreen(t)
  \/ Tick \/ TickBoots

Spec == Init /\ [][Next]_vars

-----------------------------------------------------------------------------
\* The type invariant; the cursors never leave the screen.
TypeOK ==
  /\ video \in [0 .. NumTerminals ->
       [Cells -> (Chars \cup {SPACE_ASCII, NUL}) \X (0 .. NumTerminals)]]
  /\ terminal_array \in [Terminals ->
       [screen_x : 0 .. NUM_COLS - 1, screen_y : 0 .. NUM_ROWS - 1, flag : {0, 1},
        waitingInRead : {0, 1}, buffer : Seq(Chars \cup {END_OF_LINE})]]
  /\ \A t \in Terminals : Len(terminal_array[t].buffer) <= MAX_BUF_SIZE
  /\ curr_terminal \in Terminals /\ screen_terminal \in Terminals
  /\ cursor \in 0 .. NUM_ROWS * NUM_COLS - 1

PageOf(t) == IF t = screen_terminal THEN ScreenPage ELSE BackupPage(t)
ImageOf(t) == video[PageOf(t)]
ConsoleOf(t) == [cells |-> ImageOf(t), x |-> terminal_array[t].screen_x,
                 y |-> terminal_array[t].screen_y]

(***************************************************************************)
(* Refinement: pages, copies and flags amount to one console per terminal, *)
(* on which only its own program and the keys typed to it ever draw.       *)
(***************************************************************************)
C == INSTANCE Consoles WITH
  console <- [t \in Terminals |-> ConsoleOf(t)],
  line <- [t \in Terminals |-> terminal_array[t].buffer],
  reading <- [t \in Terminals |-> terminal_array[t].waitingInRead = 1],
  started <- [t \in Terminals |-> terminal_array[t].flag = 1],
  displayed <- screen_terminal,
  served <- curr_terminal

ImplementsConsoles == C!Spec

(***************************************************************************)
(* The cursor on the monitor is that of the terminal displayed, whichever  *)
(* terminal drew last (move_cursor and its six callers).                   *)
(***************************************************************************)
CursorIsDisplayedOnes ==
  cursor = Edited.screen_y * NUM_COLS + Edited.screen_x

CellAt(t, place) == ImageOf(t)[<<place \div NUM_COLS, place % NUM_COLS>>]

(***************************************************************************)
(* While a line is typed, its characters stand right before the cursor of  *)
(* its terminal, on the screen or on the backup page, across line ends,    *)
(* scrolling, Ctrl-L and switches of the display.                          *)
(***************************************************************************)
LineStandsBeforeCursor ==
  \A t \in Terminals :
    LET term == terminal_array[t]
        place == term.screen_y * NUM_COLS + term.screen_x - Len(term.buffer)
    IN ~Entered(term) =>
         /\ place >= 0
         /\ \A i \in DOMAIN term.buffer : CellAt(t, place + i - 1) = <<term.buffer[i], t>>

(***************************************************************************)
(* What Backspace takes from the buffer it takes from the screen: the last *)
(* character typed, right before the cursor on the monitor, also when that *)
(* is on the row before; the cursor goes there and nothing else changes.   *)
(***************************************************************************)
BackspaceErasesLastTyped ==
  [][BackspaceKey =>
       /\ cursor' = cursor - 1
       /\ CellAt(screen_terminal, cursor') = <<Last(Edited.buffer), screen_terminal>>
       /\ \A place \in 0 .. NUM_ROWS * NUM_COLS - 1 :
            CellAt(screen_terminal, place)' =
              IF place = cursor' THEN <<NUL, screen_terminal>>
                                 ELSE CellAt(screen_terminal, place)]_vars
=============================================================================
