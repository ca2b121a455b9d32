----------------------------- MODULE TextScreen -----------------------------
(***************************************************************************)
(* What putc, erase_char and clear (lib.c) do to one text screen: a page   *)
(* of video memory and the screen_x and screen_y of the terminal it shows. *)
(* A cell holds a character and the attribute byte it was written with.    *)
(***************************************************************************)
EXTENDS Integers, SequencesExt

CONSTANTS
  NUM_COLS, NUM_ROWS,                  \* 80 and 25 in lib.c
  SPACE_ASCII, END_OF_LINE, NUL

ASSUME SizeAssumption ==
  NUM_COLS \in Nat \ {0} /\ NUM_ROWS \in Nat \ {0}

Cells == (0 .. NUM_ROWS - 1) \X (0 .. NUM_COLS - 1)

\* The last line of the screen is NUM_ROWS - 1.
NextLine(s) == [s EXCEPT !.x = 0, !.y = @ + 1]

\* Mutant of check_size: the cursor may stand behind the last column.
check_size_Late(s) == IF s.x > NUM_COLS THEN NextLine(s) ELSE s

check_size(s) == IF s.x >= NUM_COLS THEN NextLine(s) ELSE s

\* The rows move up; those that move take the writer's attribute.
Scrolled(s, attribute) ==
  IF s.y <= NUM_ROWS - 1 THEN s
  ELSE [cells |-> [cell \in Cells |->
          <<IF cell[1] = NUM_ROWS - 1 THEN NUL ELSE s.cells[<<cell[1] + 1, cell[2]>>][1],
            attribute>>],
        x |-> 0, y |-> NUM_ROWS - 1]

Put(s, c, attribute) ==
  Scrolled(IF c = END_OF_LINE
             THEN NextLine(s)
             ELSE check_size([s EXCEPT !.cells[<<s.y, s.x>>] = <<c, attribute>>, !.x = @ + 1]),
           attribute)

\* terminal_write leaves out the bytes 0; a line that is typed has none.
PutAll(s, text, attribute) ==
  LET shown[i \in 0 .. Len(text)] ==
        IF i = 0 THEN s
        ELSE IF text[i] = NUL THEN shown[i - 1]
        ELSE Put(shown[i - 1], text[i], attribute)
  IN shown[Len(text)]

\* Mutant of Erase: never back to the row before.
Erase_InRow(s) ==
  IF s.x = 0 THEN s ELSE [s EXCEPT !.x = @ - 1, !.cells[<<s.y, s.x - 1>>][1] = NUL]

\* The character before the cursor becomes a 0; its attribute stays.
Erase(s) ==
  LET back == IF s.x = 0 THEN [s EXCEPT !.x = NUM_COLS - 1, !.y = @ - 1]
                         ELSE [s EXCEPT !.x = @ - 1]
  IN [back EXCEPT !.cells[<<back.y, back.x>>][1] = NUL]

Clear(attribute) ==
  [cells |-> [cell \in Cells |-> <<SPACE_ASCII, attribute>>], x |-> 0, y |-> 0]
=============================================================================
