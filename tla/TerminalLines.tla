--------------------------- MODULE TerminalLines ---------------------------
(***************************************************************************)
(* What the terminals promise their programs: while a program reads, keys  *)
(* edit a line of the terminal that is displayed; Enter ends the line, and *)
(* the program is given it, cut to what it asked for but always ending in  *)
(* a newline.  There is no buffer, no flag and no interrupt handler.       *)
(***************************************************************************)
EXTENDS Integers, SequencesExt

CONSTANTS NumTerminals, Chars, Requests, MAX_BUF_SIZE, END_OF_LINE

Terminals == 0 .. NumTerminals - 1

VARIABLES
  displayed,
  asked,     \* per terminal: bytes its program reads, 0 if it does not
  line,      \* per terminal: the line being typed
  entered,   \* per terminal: whether Enter has been pressed
  given      \* per terminal: what its last read returned, empty while it reads

vars == <<displayed, asked, line, entered, given>>

Init ==
  /\ displayed = 0
  /\ asked = [t \in Terminals |-> 0]
  /\ line = [t \in Terminals |-> <<>>]
  /\ entered = [t \in Terminals |-> FALSE]
  /\ given = [t \in Terminals |-> <<>>]

Begin(t, n) ==
  /\ asked[t] = 0
  /\ asked' = [asked EXCEPT ![t] = n]
  /\ given' = [given EXCEPT ![t] = <<>>]
  /\ UNCHANGED <<displayed, line, entered>>

\* The displayed terminal takes keys.
Edits == asked[displayed] # 0 /\ ~entered[displayed]

Type(c) ==
  /\ Edits
  /\ Len(line[displayed]) < MAX_BUF_SIZE - 1
  /\ line' = [line EXCEPT ![displayed] = Append(@, c)]
  /\ UNCHANGED <<displayed, asked, entered, given>>

Erase ==
  /\ Edits
  /\ line[displayed] # <<>>
  /\ line' = [line EXCEPT ![displayed] = Front(@)]
  /\ UNCHANGED <<displayed, asked, entered, given>>

Enter ==
  /\ Edits
  /\ line' = [line EXCEPT ![displayed] = Append(@, END_OF_LINE)]
  /\ entered' = [entered EXCEPT ![displayed] = TRUE]
  /\ UNCHANGED <<displayed, asked, given>>

Cut(text, n) ==
  IF Len(text) <= n THEN text ELSE Append(SubSeq(text, 1, n - 1), END_OF_LINE)

Give(t) ==
  /\ entered[t]
  /\ given' = [given EXCEPT ![t] = Cut(line[t], asked[t])]
  /\ line' = [line EXCEPT ![t] = <<>>]
  /\ entered' = [entered EXCEPT ![t] = FALSE]
  /\ asked' = [asked EXCEPT ![t] = 0]
  /\ UNCHANGED displayed

Display(t) ==
  /\ displayed' = t
  /\ UNCHANGED <<asked, line, entered, given>>

Next ==
  \/ \E t \in Terminals, n \in Requests : Begin(t, n)
  \/ \E c \in Chars : Type(c)
  \/ Erase \/ Enter
  \/ \E t \in Terminals : Give(t) \/ Display(t)

Spec == Init /\ [][Next]_vars

Fairness == \A t \in Terminals : WF_vars(Give(t))
=============================================================================
