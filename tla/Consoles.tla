------------------------------ MODULE Consoles ------------------------------
(***************************************************************************)
(* What the screen promises: every terminal has a console of its own, with *)
(* an image and a cursor.  Programs print on the console of their own      *)
(* terminal, keys on the one that is displayed; displaying another one     *)
(* changes none.  There are no pages and no copies.                        *)
(***************************************************************************)
EXTENDS TextScreen

CONSTANTS NumTerminals, MAX_BUF_SIZE, Chars, Texts

Terminals == 0 .. NumTerminals - 1

VARIABLES
  console,     \* per terminal: image and cursor
  line,        \* per terminal: the line being typed
  reading,     \* per terminal: whether its program reads
  started,     \* per terminal: whether its shell has been started
  displayed, served

vars == <<console, line, reading, started, displayed, served>>

Write(text) ==
  /\ ~reading[served] /\ started[served]
  /\ UNCHANGED <<displayed, served, line, reading, started>>
  /\ console' = [console EXCEPT ![served] = PutAll(@, text, served)]

Edits == reading[displayed] /\ ~Contains(line[displayed], END_OF_LINE)

Key(c) ==
  /\ Edits
  /\ c # END_OF_LINE => Len(line[displayed]) < MAX_BUF_SIZE - 1
  /\ UNCHANGED <<displayed, served, reading, started>>
  /\ line' = [line EXCEPT ![displayed] = Append(@, c)]
  /\ console' = [console EXCEPT ![displayed] = Put(@, c, displayed)]

Rubout ==
  /\ Edits
  /\ line[displayed] # <<>>
  /\ UNCHANGED <<displayed, served, reading, started>>
  /\ line' = [line EXCEPT ![displayed] = Front(@)]
  /\ console' = [console EXCEPT ![displayed] = Erase(@)]

Redraw ==
  /\ UNCHANGED <<displayed, served, line, reading, started>>
  /\ console' = [console EXCEPT ![displayed] =
                   PutAll(Clear(displayed), line[displayed], displayed)]

Display(t) ==
  /\ displayed' = t
  /\ UNCHANGED <<served, line, reading, started, console>>

\* A program asks for a line, or is given the one that ends in a newline.
Read ==
  /\ started[served]
  /\ reading[served] => Contains(line[served], END_OF_LINE)
  /\ UNCHANGED <<displayed, served>>
  /\ reading' = [reading EXCEPT ![served] = ~@]
  /\ line' = [line EXCEPT ![served] = <<>>]
  /\ UNCHANGED <<started, console>>

\* The first turn of a terminal clears its console.
Serve ==
  /\ served' = (served + 1) % NumTerminals
  /\ UNCHANGED <<displayed, line, reading>>
  /\ started' = [started EXCEPT ![served'] = TRUE]
  /\ console' = IF started[served'] THEN console
                ELSE [console EXCEPT ![served'] = Clear(served')]

Init ==
  /\ console[0] = Clear(0)
  /\ \A t \in Terminals \ {0} : console[t].x = 0 /\ console[t].y = 0
  /\ line = [t \in Terminals |-> <<>>]
  /\ reading = [t \in Terminals |-> FALSE]
  /\ started = [t \in Terminals |-> t = 0]
  /\ displayed = 0 /\ served = 0

Next ==
  \/ \E text \in Texts : Write(text)
  \/ \E c \in Chars \cup {END_OF_LINE} : Key(c)
  \/ Rubout \/ Redraw \/ Read \/ Serve
  \/ \E t \in Terminals : Display(t)

Spec == Init /\ [][Next]_vars
=============================================================================
