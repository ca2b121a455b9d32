---------------------------- MODULE UserPrograms ----------------------------
(***************************************************************************)
(* do_one_file of ece391grep: search the lines of a file that is read in   *)
(* pieces of up to BUFSIZE bytes.  A line that does not end within what    *)
(* was read is moved to the front of the buffer before reading on.         *)
(***************************************************************************)
EXTENDS Integers, Sequences, FiniteSetsExt

CONSTANT BUFSIZE      \* 1024 in ece391grep.c

ASSUME BufferAssumption == BUFSIZE \in Nat \ {0}

END_OF_LINE == 0
NEWLINE == 10

\* ece391_read: the next n bytes of the file, fewer at its end.
Piece(file, pos, n) == SubSeq(file, pos + 1, Min({pos + n, Len(file)}))

\* The array with bytes stored from index at on.
Put(data, at, bytes) ==
  [i \in DOMAIN data |-> IF i \in at .. at + Len(bytes) - 1 THEN bytes[i - at + 1] ELSE data[i]]

\* The C string at index at.
Text(data, at) ==
  LET end == Min({i \in DOMAIN data : i >= at /\ data[i] = END_OF_LINE})
  IN [i \in 1 .. end - at |-> data[at + i - 1]]

\* strncmp(data + check, s, s_len) = 0 for some check within the line.
Found(s, line) ==
  \E check \in 1 .. Len(line) - Len(s) + 1 : SubSeq(line, check, check + Len(s) - 1) = s

LineEnd(data, last, line_start) ==
  Min({last} \cup {i \in line_start .. last - 1 : data[i] = NEWLINE})

\* Mutant of Incomplete: an unfinished line is kept only if it fills the buffer.
Incomplete_WhenFull(data, last, cnt, line_start) ==
  /\ data[LineEnd(data, last, line_start)] # NEWLINE
  /\ cnt = BUFSIZE
  /\ line_start # 0

\* The line goes on beyond what was read, and there is room to read on.
Incomplete(data, last, cnt, line_start) ==
  /\ data[LineEnd(data, last, line_start)] # NEWLINE
  /\ cnt # 0
  /\ line_start # 0

\* What the two loops keep: the buffer, how much of it is filled, what the last
\* read returned, where the file goes on, where the next line begins, and the
\* lines printed.
Beginning(data) ==
  [at |-> "read", data |-> data, last |-> 0, cnt |-> 0, pos |-> 0, line_start |-> 0,
   printed |-> <<>>]

ReadOn(file, state) ==
  LET piece == Piece(file, state.pos, BUFSIZE - state.last)
  IN [at |-> "line", data |-> Put(state.data, state.last, piece),
      last |-> state.last + Len(piece), cnt |-> Len(piece), pos |-> state.pos + Len(piece),
      line_start |-> 0, printed |-> state.printed]

\* After the last line of the buffer the outer loop reads on, or ends if there
\* was nothing more to read.
SearchLine(s, state) ==
  LET line_end == LineEnd(state.data, state.last, state.line_start)
      ended == [state.data EXCEPT ![line_end] = END_OF_LINE]
      line == Text(ended, state.line_start)
      searched == line_end + 1 >= state.last
  IN IF Incomplete(state.data, state.last, state.cnt, state.line_start)
       THEN [at |-> "read", data |-> Put(ended, 0, Append(line, END_OF_LINE)),
             last |-> state.last - state.line_start, cnt |-> state.cnt, pos |-> state.pos,
             line_start |-> state.line_start, printed |-> state.printed]
       ELSE [at |-> IF ~searched THEN "line" ELSE IF state.cnt # 0 THEN "read" ELSE "done",
             data |-> ended, last |-> IF searched THEN 0 ELSE state.last, cnt |-> state.cnt,
             pos |-> state.pos, line_start |-> line_end + 1,
             printed |-> IF Found(s, line) THEN Append(state.printed, line) ELSE state.printed]

Onward(s, file, state) ==
  CASE state.at = "read" -> ReadOn(file, state)
    [] state.at = "line" -> SearchLine(s, state)
    [] state.at = "done" -> state

\* Bound of the steps: each read but the last takes a byte, each line one, and
\* there is one incomplete line for each read.
MostSteps(file) == 3 * Len(file) + 2

\* The state in which the loops end; data holds whatever was on the stack.
do_one_file(s, file, data) ==
  LET state[i \in 0 .. MostSteps(file)] ==
        IF i = 0 THEN Beginning(data) ELSE Onward(s, file, state[i - 1])
  IN state[MostSteps(file)]
=============================================================================
