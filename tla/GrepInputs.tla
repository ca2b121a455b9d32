----------------------------- MODULE GrepInputs -----------------------------
(***************************************************************************)
(* grep against a reference definition, on every text up to a size: each   *)
(* initial state is an input.                                              *)
(***************************************************************************)
EXTENDS UserPrograms, SequencesExt, Inputs

CONSTANTS
  LineChars,    \* the characters of lines
  MaxPattern,   \* longest text searched for
  MaxText       \* longest file

ASSUME LineCharsAssumption == LineChars \subseteq Nat \ {END_OF_LINE, NEWLINE}
ASSUME TextSizesAssumption == MaxPattern \in Nat /\ MaxText \in Nat

\* A line begins behind k characters, at the beginning or behind a newline, and
\* ends before the next newline.
LineStarts(file) == {k \in 0 .. Len(file) : k = 0 \/ file[k] = NEWLINE}
EndFrom(file, k) == Min({Len(file)} \cup {j \in k .. Len(file) - 1 : file[j + 1] = NEWLINE})
LineAt(file, k) == SubSeq(file, k + 1, EndFrom(file, k))

\* No line is longer than the buffer; what the buffer held before is not a
\* newline: see the README.
LinesFit(file) == \A k \in LineStarts(file) : EndFrom(file, k) - k <= BUFSIZE
SearchesOf(olds) ==
  {g \in [kind : {"grep"}, s : SeqOf(LineChars, MaxPattern) \ {<<>>},
          file : SeqOf(LineChars \cup {NEWLINE}, MaxText), old : olds] : LinesFit(g.file)}
Searches == SearchesOf([0 .. BUFSIZE -> Nat \ {NEWLINE}])

GrepInputs == input \in Searches /\ [][SameInput]_input

-----------------------------------------------------------------------------
Mentions(line, s) == \E k \in 0 .. Len(line) : IsPrefix(s, SubSeq(line, k + 1, Len(line)))

(***************************************************************************)
(* grep ends, and has printed exactly the lines that contain the text, in  *)
(* order and whole, wherever the pieces it reads begin and end             *)
(* (do_one_file).                                                          *)
(***************************************************************************)
GrepFindsItsLines ==
  input.kind = "grep" =>
    LET file == input.file
        last == do_one_file(input.s, file, input.old)
        n == Len(last.printed)
        matching == {k \in LineStarts(file) : Mentions(LineAt(file, k), input.s)}
    IN /\ last.at = "done"
       /\ \E from \in [1 .. n -> matching] :
            /\ \A i \in 1 .. n : last.printed[i] = LineAt(file, from[i])
            /\ \A i \in 2 .. n : from[i - 1] < from[i]
            /\ \A k \in matching : \E i \in 1 .. n : from[i] = k
=============================================================================
