------------------------ MODULE TerminalInput_proofs ------------------------
(***************************************************************************)
(* For any number of terminals, any size of the buffer and any requests:   *)
(* no key writes beyond its line; and unless keys are typed ahead, what    *)
(* terminal_read returns ends in a newline, and every step is one of       *)
(* TerminalLines or changes no line.                                       *)
(***************************************************************************)
EXTENDS TerminalInput, SequenceTheorems, WellFoundedInduction, TLAPS

USE BufferAssumption, TypingAssumption, TerminalsAssumption, RequestsAssumption

Letters == Chars \cup {SPACE_ASCII, END_OF_LINE, NUL}

Terms == [buffer : [0 .. MAX_BUF_SIZE - 1 -> Letters], buffer_size : 0 .. MAX_BUF_SIZE,
          waitingInRead : {0, 1}, enter_flag : {0, 1}]

(***************************************************************************)
(* The strengthening: Tab goes on with a line that has room, and a line is *)
(* entered exactly if its last character is the newline of Enter.          *)
(***************************************************************************)
TabHasRoom ==
  handler.spaces > 0 => /\ terminal_array[screen_terminal].buffer_size < MAX_BUF_SIZE
                        /\ ~TypingAhead => terminal_array[screen_terminal].enter_flag = 0

EndsEntered(term) ==
  term.enter_flag = 1 => /\ term.buffer_size > 0
                         /\ term.buffer[term.buffer_size - 1] = END_OF_LINE

InputInv ==
  /\ TypeOK /\ TabHasRoom
  /\ ~TypingAhead => \A t \in Terminals : EndsEntered(terminal_array[t])

-----------------------------------------------------------------------------
(***************************************************************************)
(* edit_buffer on one record.                                              *)
(***************************************************************************)
LEMMA AddedFields ==
  ASSUME NEW term \in Terms, term.buffer_size < MAX_BUF_SIZE, NEW c \in Letters
  PROVE  /\ Added(term, c) \in Terms
         /\ Added(term, c).buffer_size = term.buffer_size + 1
         /\ Added(term, c).enter_flag = term.enter_flag
         /\ Added(term, c).buffer[term.buffer_size] = c
<1>. DEFINE b == [term.buffer EXCEPT ![term.buffer_size] = c]
<1>1. b \in [0 .. MAX_BUF_SIZE - 1 -> Letters] /\ b[term.buffer_size] = c
  BY DEF Terms
<1>. HIDE DEF b
<1>2. Added(term, c) = [term EXCEPT !.buffer = b, !.buffer_size = @ + 1]
  BY Zenon DEF Added, b
<1>3. Added(term, c) = [buffer |-> b, buffer_size |-> term.buffer_size + 1,
                        waitingInRead |-> term.waitingInRead, enter_flag |-> term.enter_flag]
  <2>1. ASSUME NEW y, y = [term EXCEPT !.buffer = b, !.buffer_size = @ + 1]
        PROVE  y = [buffer |-> b, buffer_size |-> term.buffer_size + 1,
                    waitingInRead |-> term.waitingInRead, enter_flag |-> term.enter_flag]
    BY <2>1 DEF Terms
  <2>. QED  BY <1>2, <2>1
<1>. QED  BY <1>1, <1>3 DEF Terms

LEMMA TypedFields ==
  ASSUME NEW term \in Terms, term.buffer_size < MAX_BUF_SIZE, NEW c \in Letters
  PROVE  /\ Typed(term, c) \in Terms
         /\ Typed(term, c).buffer_size < MAX_BUF_SIZE
         /\ Typed(term, c).enter_flag = term.enter_flag
<1>1. term.buffer_size \in 0 .. MAX_BUF_SIZE
  BY DEF Terms
<1>2. CASE term.buffer_size = MAX_BUF_SIZE - 1
  BY <1>2 DEF Typed, Full
<1>3. CASE term.buffer_size # MAX_BUF_SIZE - 1
  <2>1. Typed(term, c) = Added(term, c)
    BY <1>3 DEF Typed, Full
  <2>2. term.buffer_size + 1 < MAX_BUF_SIZE
    BY <1>1, <1>3
  <2>. QED  BY <2>1, <2>2, AddedFields
<1>. QED  BY <1>2, <1>3

LEMMA EnteredFields ==
  ASSUME NEW term \in Terms, term.buffer_size < MAX_BUF_SIZE
  PROVE  Entered(term) \in Terms /\ EndsEntered(Entered(term))
<1>1. END_OF_LINE \in Letters
  BY DEF Letters
<1>. DEFINE a == Added(term, END_OF_LINE)
<1>2. /\ a \in Terms /\ a.buffer_size = term.buffer_size + 1
      /\ a.buffer[term.buffer_size] = END_OF_LINE
  BY <1>1, AddedFields
<1>. HIDE DEF a
<1>3. Entered(term) = [a EXCEPT !.enter_flag = 1]
  BY DEF Entered, a
<1>4. Entered(term) = [buffer |-> a.buffer, buffer_size |-> a.buffer_size,
                       waitingInRead |-> a.waitingInRead, enter_flag |-> 1]
  BY <1>2, <1>3 DEF Terms
<1>. QED  BY <1>2, <1>4 DEF Terms, EndsEntered

LEMMA ErasedFields ==
  ASSUME NEW term \in Terms
  PROVE  /\ Erased(term) \in Terms /\ Erased(term).enter_flag = term.enter_flag
         /\ Erased(term).buffer_size <= term.buffer_size
<1>. DEFINE old == term.buffer_size
            new == IF old > 0 THEN old - 1 ELSE 0
            b == [i \in DOMAIN term.buffer |->
                    IF (old > 0 /\ i = old) \/ (new = 0 /\ i = 0) THEN NUL ELSE term.buffer[i]]
<1>1. b \in [0 .. MAX_BUF_SIZE - 1 -> Letters] /\ new \in 0 .. old
  BY DEF Terms, Letters
<1>2. Erased(term) = [term EXCEPT !.buffer = b, !.buffer_size = new]
  BY DEF Erased
<1>. HIDE DEF b, new
<1>3. Erased(term) = [buffer |-> b, buffer_size |-> new,
                      waitingInRead |-> term.waitingInRead, enter_flag |-> term.enter_flag]
  <2>1. ASSUME NEW y, y = [term EXCEPT !.buffer = b, !.buffer_size = new]
        PROVE  y = [buffer |-> b, buffer_size |-> new,
                    waitingInRead |-> term.waitingInRead, enter_flag |-> term.enter_flag]
    BY <2>1 DEF Terms
  <2>. QED  BY <1>2, <2>1
<1>. QED  BY <1>1, <1>3 DEF Terms

-----------------------------------------------------------------------------
(***************************************************************************)
(* The steps.                                                              *)
(***************************************************************************)
LEMMA TermFacts ==
  ASSUME TypeOK
  PROVE  /\ terminal_array \in [Terminals -> Terms]
         /\ screen_terminal \in Terminals /\ curr_terminal \in Terminals
         /\ \A t \in Terminals : terminal_array[t] \in Terms
BY DEF TypeOK, Terms, Letters

\* A key replaces the record of the displayed terminal, if its program reads.
LEMMA EditKeeps ==
  ASSUME InputInv, NEW edited, edited \in Terms, EditBuffer(edited),
         ~TypingAhead => EndsEntered(edited)
  PROVE  /\ terminal_array' \in [Terminals -> Terms]
         /\ ~TypingAhead => \A t \in Terminals : EndsEntered(terminal_array'[t])
         /\ terminal_array'[screen_terminal] \in {edited, terminal_array[screen_terminal]}
<1>1. /\ terminal_array \in [Terminals -> Terms] /\ screen_terminal \in Terminals
      /\ ~TypingAhead => \A t \in Terminals : EndsEntered(terminal_array[t])
  BY TermFacts DEF InputInv
<1>. DEFINE new == IF EditedTerm.waitingInRead = 1 THEN edited
                                                   ELSE terminal_array[screen_terminal]
<1>2. terminal_array' = [terminal_array EXCEPT ![screen_terminal] = new]
  BY DEF EditBuffer, EditedTerminal
<1>3. /\ new \in Terms /\ new \in {edited, terminal_array[screen_terminal]}
      /\ ~TypingAhead => EndsEntered(new)
  BY <1>1
<1>. HIDE DEF new
<1>4. terminal_array' \in [Terminals -> Terms] /\ terminal_array'[screen_terminal] = new
  BY <1>1, <1>2, <1>3
<1>5. \A t \in Terminals : terminal_array'[t] \in {new, terminal_array[t]}
  BY <1>1, <1>2
<1>6. ~TypingAhead => \A t \in Terminals : EndsEntered(terminal_array'[t])
  BY <1>1, <1>3, <1>5
<1>. QED  BY <1>3, <1>4, <1>6

LEMMA KeySteps ==
  ASSUME InputInv,
         \/ \E c \in Chars : TypeKey(c)
         \/ EnterKey \/ BackspaceKey \/ TabKey
  PROVE  InputInv'
<1>. DEFINE term == terminal_array[screen_terminal]
<1>1. /\ TypeOK /\ term \in Terms /\ term.buffer_size < MAX_BUF_SIZE
      /\ ~TypingAhead => term.enter_flag = 0
      /\ UNCHANGED <<curr_terminal, screen_terminal, nbytes, user_buf>>
  BY TermFacts DEF InputInv, TypeKey, EnterKey, BackspaceKey, TabKey, KeyArrives
<1>2. PICK edited \in Terms :
        /\ EditBuffer(edited)
        /\ ~TypingAhead => EndsEntered(edited)
        /\ \/ Handling(0)
           \/ /\ Handling(3) /\ edited.buffer_size < MAX_BUF_SIZE
              /\ edited.enter_flag = term.enter_flag
  <2>1. EditedTerm = term
    BY DEF EditedTerm, EditedTerminal
  <2>2. CASE \E c \in Chars : TypeKey(c)
    <3>1. PICK c \in Chars : EditBuffer(Typed(term, c)) /\ Handling(0)
      BY <2>1, <2>2 DEF TypeKey
    <3>2. Typed(term, c) \in Terms /\ Typed(term, c).enter_flag = term.enter_flag
      BY <1>1, TypedFields DEF Letters
    <3>3. ~TypingAhead => EndsEntered(Typed(term, c))
      BY <1>1, <3>2 DEF EndsEntered
    <3>. QED  BY <3>1, <3>2, <3>3
  <2>3. CASE EnterKey
    BY <1>1, <2>1, <2>3, EnteredFields DEF EnterKey
  <2>4. CASE BackspaceKey
    <3>1. Erased(term) \in Terms /\ Erased(term).enter_flag = term.enter_flag
      BY <1>1, ErasedFields
    <3>2. ~TypingAhead => EndsEntered(Erased(term))
      BY <1>1, <3>1 DEF EndsEntered
    <3>. QED  BY <2>1, <2>4, <3>1, <3>2 DEF BackspaceKey
  <2>5. CASE TabKey
    <3>. DEFINE edited == Typed(term, SPACE_ASCII)
    <3>1. /\ edited \in Terms /\ edited.enter_flag = term.enter_flag
          /\ edited.buffer_size < MAX_BUF_SIZE
      BY <1>1, TypedFields DEF Letters
    <3>2. ~TypingAhead => EndsEntered(edited)
      BY <1>1, <3>1 DEF EndsEntered
    <3>. QED  BY <2>1, <2>5, <3>1, <3>2 DEF TabKey
  <2>. QED  BY <2>2, <2>3, <2>4, <2>5
<1>3. /\ terminal_array' \in [Terminals -> Terms]
      /\ ~TypingAhead => \A t \in Terminals : EndsEntered(terminal_array'[t])
      /\ terminal_array'[screen_terminal] \in {edited, term}
  BY <1>2, EditKeeps
<1>4. /\ handler' \in [of : Terminals, spaces : 0 .. 3]
      /\ handler'.spaces > 0 => edited.buffer_size < MAX_BUF_SIZE
                                 /\ edited.enter_flag = term.enter_flag
  BY <1>1, <1>2, TermFacts DEF Handling
<1>5. TypeOK'
  BY <1>1, <1>3, <1>4 DEF TypeOK, Terms, Letters
<1>6. TabHasRoom'
  BY <1>1, <1>3, <1>4 DEF TabHasRoom
<1>. QED  BY <1>3, <1>5, <1>6 DEF InputInv

LEMMA TabStep ==
  ASSUME InputInv, TabGoesOn
  PROVE  InputInv'
<1>. DEFINE term == terminal_array[screen_terminal]
            edited == Typed(term, SPACE_ASCII)
<1>1. /\ TypeOK /\ term \in Terms /\ term.buffer_size < MAX_BUF_SIZE
      /\ ~TypingAhead => term.enter_flag = 0
      /\ UNCHANGED <<curr_terminal, screen_terminal, nbytes, user_buf>>
      /\ EditBuffer(edited) /\ handler.spaces > 0
      /\ handler' = [handler EXCEPT !.spaces = @ - 1]
  BY TermFacts DEF InputInv, TabGoesOn, TabHasRoom, EditedTerm, EditedTerminal
<1>2. /\ edited \in Terms /\ edited.enter_flag = term.enter_flag
      /\ edited.buffer_size < MAX_BUF_SIZE
  BY <1>1, TypedFields DEF Letters
<1>3. ~TypingAhead => EndsEntered(edited)
  BY <1>1, <1>2 DEF EndsEntered
<1>. HIDE DEF edited
<1>4. /\ terminal_array' \in [Terminals -> Terms]
      /\ ~TypingAhead => \A t \in Terminals : EndsEntered(terminal_array'[t])
      /\ terminal_array'[screen_terminal] \in {edited, term}
  BY <1>1, <1>2, <1>3, EditKeeps
<1>5. handler' \in [of : Terminals, spaces : 0 .. 3]
  <2>1. handler \in [of : Terminals, spaces : 0 .. 3]
    BY <1>1 DEF TypeOK, Idle
  <2>. QED  BY <1>1, <2>1
<1>6. TypeOK'
  BY <1>1, <1>4, <1>5 DEF TypeOK, Terms, Letters
<1>7. TabHasRoom'
  BY <1>1, <1>2, <1>4 DEF TabHasRoom
<1>. QED  BY <1>4, <1>6, <1>7 DEF InputInv

LEMMA ReadStep ==
  ASSUME InputInv, NEW t \in Terminals, NEW n \in Requests, Read(t, n)
  PROVE  InputInv'
<1>1. /\ TypeOK /\ terminal_array[t] \in Terms
      /\ terminal_array \in [Terminals -> Terms]
      /\ UNCHANGED <<curr_terminal, screen_terminal, handler>>
      /\ nbytes' = [nbytes EXCEPT ![t] = n] /\ user_buf' = [user_buf EXCEPT ![t] = <<>>]
  BY TermFacts DEF InputInv, Read
<1>. DEFINE new == [terminal_array[t] EXCEPT !.waitingInRead = 1]
<1>2. /\ new \in Terms /\ new.enter_flag = terminal_array[t].enter_flag
      /\ new.buffer = terminal_array[t].buffer
      /\ new.buffer_size = terminal_array[t].buffer_size
  BY <1>1 DEF Terms
<1>3. terminal_array' = [terminal_array EXCEPT ![t] = new]
  BY DEF Read
<1>. HIDE DEF new
<1>4. /\ terminal_array' \in [Terminals -> Terms]
      /\ \A u \in Terminals :
           /\ terminal_array'[u].enter_flag = terminal_array[u].enter_flag
           /\ terminal_array'[u].buffer = terminal_array[u].buffer
           /\ terminal_array'[u].buffer_size = terminal_array[u].buffer_size
  BY <1>1, <1>2, <1>3
<1>5. /\ nbytes' \in [Terminals -> {0} \cup Requests]
      /\ user_buf' \in [Terminals -> Seq(Letters)]
  <2>1. /\ nbytes \in [Terminals -> {0} \cup Requests]
        /\ user_buf \in [Terminals -> Seq(Letters)]
    BY <1>1 DEF TypeOK, Letters
  <2>. QED  BY <1>1, <2>1
<1>6. TypeOK'
  BY <1>1, <1>4, <1>5 DEF TypeOK, Terms, Letters
<1>7. TabHasRoom' /\ (~TypingAhead => \A u \in Terminals : EndsEntered(terminal_array'[u]))
  BY <1>1, <1>4, TermFacts DEF InputInv, TabHasRoom, EndsEntered
<1>. QED  BY <1>6, <1>7 DEF InputInv

(***************************************************************************)
(* What terminal_read copies.                                              *)
(***************************************************************************)
LEMMA LeastOf ==
  ASSUME NEW S, S \subseteq Nat, S # {}
  PROVE  Min(S) \in S /\ \A x \in S : Min(S) <= x
<1>. DEFINE R == {r \in Nat \X Nat : r[1] < r[2]}
<1>1. IsWellFoundedOn(R, Nat)
  BY NatLessThanWellFounded DEF OpToRel
<1>2. \A x, y \in S : <<y, x>> \in R <=> y < x
  OBVIOUS
<1>. HIDE DEF R
<1>3. \E x \in S : \A y \in S : <<y, x>> \notin R
  BY <1>1, WFMin
<1>4. \E x \in S : \A y \in S : x <= y
  <2>1. PICK x \in S : \A y \in S : <<y, x>> \notin R
    BY <1>3
  <2>2. \A y \in S : ~(y < x)
    BY <1>2, <2>1
  <2>3. \A y \in S : x \in Nat /\ y \in Nat
    OBVIOUS
  <2>. QED  BY <2>2, <2>3
<1>. QED  BY <1>4 DEF Min

LEMMA CopyStopFacts ==
  ASSUME NEW term \in Terms, NEW n \in Requests
  PROVE  /\ TrueBytes(n) \in 1 .. MAX_BUF_SIZE /\ TrueBytes(n) <= n
         /\ CopyStop(term, n) \in 0 .. TrueBytes(n)
         /\ CopyStop(term, n) < TrueBytes(n) => term.buffer[CopyStop(term, n)] = END_OF_LINE
         /\ \A i \in 0 .. TrueBytes(n) - 1 :
              term.buffer[i] = END_OF_LINE => CopyStop(term, n) <= i
<1>1. n \in Nat \ {0}
  OBVIOUS
<1>2. TrueBytes(n) \in {n, MAX_BUF_SIZE} /\ TrueBytes(n) <= n /\ TrueBytes(n) <= MAX_BUF_SIZE
  BY <1>1, LeastOf DEF TrueBytes
<1>3. TrueBytes(n) \in 1 .. MAX_BUF_SIZE
  BY <1>1, <1>2
<1>. DEFINE S == {i \in 0 .. TrueBytes(n) - 1 : term.buffer[i] = END_OF_LINE} \cup {TrueBytes(n)}
<1>4. S \subseteq Nat /\ S # {}
  BY <1>3
<1>5. CopyStop(term, n) \in S /\ \A x \in S : CopyStop(term, n) <= x
  BY <1>4, LeastOf DEF CopyStop
<1>. QED  BY <1>2, <1>3, <1>5

LEMMA CopiedFacts ==
  ASSUME NEW term \in Terms, NEW n \in Requests
  PROVE  /\ Copied(term, n) \in Seq(Letters)
         /\ term.enter_flag = 1 /\ EndsEntered(term) =>
              Copied(term, n) # <<>> /\ Last(Copied(term, n)) = END_OF_LINE
<1>. DEFINE stop == CopyStop(term, n)
            bytes == TrueBytes(n)
            count == Min({stop + 1, bytes, term.buffer_size})
            byte(i) == IF i = bytes /\ stop = i /\ i < term.buffer_size
                         THEN END_OF_LINE ELSE term.buffer[i - 1]
<1>1. /\ bytes \in 1 .. MAX_BUF_SIZE /\ stop \in 0 .. bytes
      /\ stop < bytes => term.buffer[stop] = END_OF_LINE
      /\ \A i \in 0 .. bytes - 1 : term.buffer[i] = END_OF_LINE => stop <= i
      /\ term.buffer_size \in 0 .. MAX_BUF_SIZE
      /\ term.buffer \in [0 .. MAX_BUF_SIZE - 1 -> Letters]
  BY CopyStopFacts DEF Terms
<1>2. Copied(term, n) = [i \in 1 .. count |-> byte(i)]
  BY DEF Copied
<1>. HIDE DEF stop, bytes
<1>3. /\ count \in {stop + 1, bytes, term.buffer_size} /\ count \in Nat
      /\ count <= stop + 1 /\ count <= bytes /\ count <= term.buffer_size
  <2>. DEFINE S == {stop + 1, bytes, term.buffer_size}
  <2>1. S \subseteq Nat /\ S # {} /\ count = Min(S)
    BY <1>1
  <2>2. count \in S /\ \A x \in S : count <= x
    <3>. HIDE DEF S, count
    <3>. QED  BY <2>1, LeastOf
  <2>. HIDE DEF count
  <2>. QED  BY <2>1, <2>2
<1>. HIDE DEF count
<1>4. \A i \in 1 .. count : byte(i) \in Letters
  BY <1>1, <1>3 DEF Letters
<1>. HIDE DEF byte
<1>5. /\ Copied(term, n) \in Seq(Letters) /\ Len(Copied(term, n)) = count
      /\ \A i \in 1 .. count : Copied(term, n)[i] = byte(i)
  BY <1>2, <1>3, <1>4
<1>6. ASSUME term.enter_flag = 1, EndsEntered(term)
      PROVE  Copied(term, n) # <<>> /\ Last(Copied(term, n)) = END_OF_LINE
  <2>1. /\ term.buffer_size \in 1 .. MAX_BUF_SIZE
        /\ term.buffer[term.buffer_size - 1] = END_OF_LINE
    BY <1>1, <1>6 DEF EndsEntered
  <2>2. count \in 1 .. MAX_BUF_SIZE
    BY <1>1, <1>3, <2>1
  <2>3. byte(count) = END_OF_LINE
    <3>1. CASE stop < bytes /\ stop < term.buffer_size
      <4>1. count = stop + 1
        BY <1>1, <1>3, <2>1, <3>1
      <4>. QED  BY <1>1, <3>1, <4>1 DEF byte
    <3>2. CASE stop < bytes /\ stop >= term.buffer_size
      BY <1>1, <2>1, <3>2
    <3>3. CASE stop = bytes /\ bytes < term.buffer_size
      <4>1. count = bytes
        BY <1>1, <1>3, <2>1, <3>3
      <4>. QED  BY <1>1, <3>3, <4>1 DEF byte
    <3>4. CASE stop = bytes /\ bytes >= term.buffer_size
      BY <1>1, <2>1, <3>4
    <3>. QED  BY <1>1, <3>1, <3>2, <3>3, <3>4
  <2>4. Last(Copied(term, n)) = Copied(term, n)[count]
    BY <1>5 DEF Last
  <2>. QED  BY <1>5, <2>2, <2>3, <2>4
<1>. QED  BY <1>5, <1>6

LEMMA ReturnStep ==
  ASSUME InputInv, NEW t \in Terminals, ReadReturns(t)
  PROVE  /\ InputInv'
         /\ ~TypingAhead => user_buf'[t] # <<>> /\ Last(user_buf'[t]) = END_OF_LINE
<1>. DEFINE term == terminal_array[t]
            n == nbytes[t]
            new == [buffer |-> [i \in 0 .. MAX_BUF_SIZE - 1 |->
                                  IF i < TrueBytes(n) THEN NUL ELSE term.buffer[i]],
                    buffer_size |-> 0, waitingInRead |-> 0, enter_flag |-> 0]
<1>1. /\ TypeOK /\ TabHasRoom /\ term \in Terms /\ term.enter_flag = 1
      /\ terminal_array \in [Terminals -> Terms]
      /\ UNCHANGED <<curr_terminal, screen_terminal, handler>>
      /\ ~TypingAhead => \A u \in Terminals : EndsEntered(terminal_array[u])
  BY TermFacts DEF InputInv, ReadReturns
<1>2. n \in Requests
  BY <1>1 DEF ReadReturns, TypeOK
<1>3. terminal_array' = [terminal_array EXCEPT ![t] = new]
  BY DEF ReadReturns
<1>4. /\ user_buf' = [user_buf EXCEPT ![t] = Copied(term, n)]
      /\ nbytes' = [nbytes EXCEPT ![t] = 0]
  BY DEF ReadReturns
<1>5. new \in Terms /\ new.enter_flag = 0 /\ new.buffer_size = 0
  BY <1>1 DEF Terms, Letters
<1>6. /\ Copied(term, n) \in Seq(Letters)
      /\ EndsEntered(term) => Copied(term, n) # <<>> /\ Last(Copied(term, n)) = END_OF_LINE
  BY <1>1, <1>2, CopiedFacts
<1>. HIDE DEF new, n
<1>7. /\ terminal_array' \in [Terminals -> Terms]
      /\ \A u \in Terminals : terminal_array'[u] \in {new, terminal_array[u]}
  BY <1>1, <1>3, <1>5
<1>8. /\ nbytes' \in [Terminals -> {0} \cup Requests]
      /\ user_buf' \in [Terminals -> Seq(Letters)] /\ user_buf'[t] = Copied(term, n)
  <2>1. /\ nbytes \in [Terminals -> {0} \cup Requests]
        /\ user_buf \in [Terminals -> Seq(Letters)]
    BY <1>1 DEF TypeOK, Letters
  <2>. QED  BY <1>4, <1>6, <2>1
<1>9. TypeOK'
  BY <1>1, <1>7, <1>8 DEF TypeOK, Terms, Letters
<1>10. TabHasRoom'
  BY <1>1, <1>5, <1>7, TermFacts DEF TabHasRoom
<1>11. ~TypingAhead => \A u \in Terminals : EndsEntered(terminal_array'[u])
  <2>1. EndsEntered(new)
    BY <1>5 DEF EndsEntered
  <2>. QED  BY <1>1, <1>7, <2>1
<1>. QED  BY <1>1, <1>6, <1>8, <1>9, <1>10, <1>11 DEF InputInv

LEMMA OtherSteps ==
  ASSUME InputInv,
         SendEoi \/ Tick \/ (\E t \in Terminals : SwitchScreen(t)) \/ UNCHANGED vars
  PROVE  InputInv'
<1>1. /\ TypeOK /\ TabHasRoom /\ UNCHANGED <<terminal_array, nbytes, user_buf>>
      /\ ~TypingAhead => \A u \in Terminals : EndsEntered(terminal_array[u])
  BY DEF InputInv, SendEoi, Tick, SwitchScreen, vars
<1>2. /\ curr_terminal' \in Terminals /\ screen_terminal' \in Terminals
      /\ handler' \in [of : Terminals, spaces : 0 .. 3] \cup {Idle}
      /\ handler'.spaces > 0 => handler' = handler /\ screen_terminal' = screen_terminal
  <2>1. curr_terminal \in Terminals /\ screen_terminal \in Terminals
    BY <1>1, TermFacts
  <2>2. handler \in [of : Terminals, spaces : 0 .. 3] \cup {Idle}
    BY <1>1 DEF TypeOK
  <2>3. CASE SendEoi
    BY <2>1, <2>3 DEF SendEoi, Idle
  <2>4. CASE Tick
    BY <2>1, <2>2, <2>4 DEF Tick, ServedNext, Terminals
  <2>5. CASE \E t \in Terminals : SwitchScreen(t)
    BY <2>1, <2>5 DEF SwitchScreen, Handling
  <2>6. CASE UNCHANGED vars
    BY <2>1, <2>2, <2>6 DEF vars
  <2>. QED  BY <2>3, <2>4, <2>5, <2>6
<1>3. TypeOK'
  BY <1>1, <1>2 DEF TypeOK
<1>4. TabHasRoom'
  BY <1>1, <1>2 DEF TabHasRoom
<1>. QED  BY <1>1, <1>3, <1>4 DEF InputInv

LEMMA InputInvInit ==
  ASSUME Init
  PROVE  InputInv
<1>1. 0 \in Terminals
  BY DEF Terminals
<1>. DEFINE term == [buffer |-> [i \in 0 .. MAX_BUF_SIZE - 1 |-> NUL], buffer_size |-> 0,
                     waitingInRead |-> 0, enter_flag |-> 0]
<1>2. term \in Terms /\ EndsEntered(term)
  BY DEF Terms, Letters, EndsEntered
<1>3. terminal_array = [t \in Terminals |-> term]
  BY DEF Init
<1>. HIDE DEF term
<1>4. /\ terminal_array \in [Terminals -> Terms]
      /\ \A t \in Terminals : EndsEntered(terminal_array[t])
  BY <1>2, <1>3
<1>5. TypeOK
  BY <1>1, <1>4 DEF Init, TypeOK, Terms, Letters
<1>6. TabHasRoom
  BY DEF Init, Idle, TabHasRoom
<1>. QED  BY <1>4, <1>5, <1>6 DEF InputInv

LEMMA InputInvStep ==
  ASSUME InputInv, [Next]_vars
  PROVE  InputInv'
BY KeySteps, TabStep, ReadStep, ReturnStep, OtherSteps DEF Next

LEMMA InputInvariant == Spec => []InputInv
BY InputInvInit, InputInvStep, PTL DEF Spec

(***************************************************************************)
(* Whatever is typed, ahead or not, and whichever terminals are displayed  *)
(* and served: edit_buffer stays within the buffer.                        *)
(***************************************************************************)
THEOREM InputTypes == Spec => []TypeOK
<1>1. InputInv => TypeOK
  BY DEF InputInv
<1>. QED  BY <1>1, InputInvariant, PTL

(***************************************************************************)
(* terminal_read gives at least a newline, and as the last byte, however   *)
(* many bytes are asked for, unless keys are typed ahead.                  *)
(***************************************************************************)
THEOREM LinesEndInNewline == ASSUME ~TypingAhead PROVE Spec => ReadEndsInNewline
<1>1. ASSUME InputInv, [Next]_vars
      PROVE  [\A t \in Terminals : ReadReturns(t) =>
                user_buf'[t] # <<>> /\ Last(user_buf'[t]) = END_OF_LINE]_vars
  BY <1>1, ReturnStep
<1>. QED  BY <1>1, InputInvariant, PTL DEF Spec, ReadEndsInNewline

-----------------------------------------------------------------------------
(***************************************************************************)
(* The lines: what edit_buffer does to the characters of one record.       *)
(***************************************************************************)
\* The only newline of a line is that of Enter, at its end.
Marked(term) ==
  \A i \in 0 .. term.buffer_size - 1 :
    term.buffer[i] = END_OF_LINE => i = term.buffer_size - 1 /\ term.enter_flag = 1

LEMMA LineIsSeq ==
  ASSUME NEW term \in Terms
  PROVE  /\ Line(term) \in Seq(Letters) /\ Len(Line(term)) = term.buffer_size
         /\ \A i \in 1 .. term.buffer_size : Line(term)[i] = term.buffer[i - 1]
<1>1. /\ term.buffer_size \in 0 .. MAX_BUF_SIZE
      /\ term.buffer \in [0 .. MAX_BUF_SIZE - 1 -> Letters]
  BY DEF Terms
<1>2. \A i \in 1 .. term.buffer_size : term.buffer[i - 1] \in Letters
  BY <1>1
<1>. QED  BY <1>1, <1>2 DEF Line

\* Records with the same characters have the same line.
LEMMA LinesEqual ==
  ASSUME NEW s \in Seq(Letters), NEW t \in Seq(Letters), Len(s) = Len(t),
         \A i \in 1 .. Len(s) : s[i] = t[i]
  PROVE  s = t
BY SeqEqual

LEMMA AddedLine ==
  ASSUME NEW term \in Terms, term.buffer_size < MAX_BUF_SIZE, NEW c \in Letters
  PROVE  /\ Line(Added(term, c)) = Append(Line(term), c)
         /\ Added(term, c).waitingInRead = term.waitingInRead
         /\ \A i \in 0 .. term.buffer_size - 1 : Added(term, c).buffer[i] = term.buffer[i]
<1>. DEFINE b == [term.buffer EXCEPT ![term.buffer_size] = c]
            new == Added(term, c)
            size == term.buffer_size
<1>1. /\ b[size] = c /\ \A i \in 0 .. size - 1 : b[i] = term.buffer[i]
      /\ size \in 0 .. MAX_BUF_SIZE
  BY DEF Terms
<1>. HIDE DEF b
<1>2. new = [term EXCEPT !.buffer = b, !.buffer_size = @ + 1]
  BY Zenon DEF Added, b
<1>3. new.buffer = b /\ new.waitingInRead = term.waitingInRead
  <2>1. ASSUME NEW y, y = [term EXCEPT !.buffer = b, !.buffer_size = @ + 1]
        PROVE  y.buffer = b /\ y.waitingInRead = term.waitingInRead
    BY <2>1 DEF Terms
  <2>. QED  BY <1>2, <2>1
<1>4. new \in Terms /\ new.buffer_size = size + 1
  BY AddedFields
<1>. HIDE DEF new
<1>5. /\ Line(new) \in Seq(Letters) /\ Len(Line(new)) = size + 1
      /\ \A i \in 1 .. size + 1 : Line(new)[i] = b[i - 1]
      /\ Line(term) \in Seq(Letters) /\ Len(Line(term)) = size
      /\ \A i \in 1 .. size : Line(term)[i] = term.buffer[i - 1]
  BY <1>3, <1>4, LineIsSeq
<1>6. Line(new) = Append(Line(term), c)
  <2>. DEFINE u == Append(Line(term), c)
  <2>1. /\ u \in Seq(Letters) /\ Len(u) = size + 1
        /\ u[size + 1] = c /\ \A i \in 1 .. size : u[i] = Line(term)[i]
    BY <1>5
  <2>2. \A i \in 1 .. size + 1 : Line(new)[i] = u[i]
    <3>. HIDE DEF u
    <3>. QED  BY <1>1, <1>5, <2>1
  <2>. HIDE DEF u
  <2>3. Line(new) = u
    BY <1>5, <2>1, <2>2, LinesEqual
  <2>. QED  BY <2>3 DEF u
<1>. QED  BY <1>1, <1>3, <1>6 DEF new

LEMMA EnteredLine ==
  ASSUME NEW term \in Terms, term.buffer_size < MAX_BUF_SIZE
  PROVE  /\ Line(Entered(term)) = Append(Line(term), END_OF_LINE)
         /\ Entered(term).waitingInRead = term.waitingInRead
         /\ Entered(term).enter_flag = 1
         /\ Entered(term).buffer_size = term.buffer_size + 1
         /\ \A i \in 0 .. term.buffer_size - 1 : Entered(term).buffer[i] = term.buffer[i]
<1>. DEFINE a == Added(term, END_OF_LINE)
<1>1. /\ a \in Terms /\ a.buffer_size = term.buffer_size + 1
      /\ Line(a) = Append(Line(term), END_OF_LINE)
      /\ a.waitingInRead = term.waitingInRead
      /\ \A i \in 0 .. term.buffer_size - 1 : a.buffer[i] = term.buffer[i]
  BY AddedFields, AddedLine DEF Letters
<1>. HIDE DEF a
<1>2. ASSUME NEW y, y = [a EXCEPT !.enter_flag = 1]
      PROVE  /\ y.buffer = a.buffer /\ y.buffer_size = a.buffer_size
             /\ y.waitingInRead = a.waitingInRead /\ y.enter_flag = 1
  BY <1>1, <1>2 DEF Terms
<1>3. Entered(term) = [a EXCEPT !.enter_flag = 1]
  BY DEF Entered, a
<1>4. /\ Entered(term).buffer = a.buffer /\ Entered(term).buffer_size = a.buffer_size
      /\ Entered(term).waitingInRead = a.waitingInRead /\ Entered(term).enter_flag = 1
  BY <1>2, <1>3
<1>5. Line(Entered(term)) = Line(a)
  BY <1>4 DEF Line
<1>. QED  BY <1>1, <1>4, <1>5

LEMMA ErasedLine ==
  ASSUME NEW term \in Terms
  PROVE  /\ Erased(term).waitingInRead = term.waitingInRead
         /\ term.buffer_size = 0 => Line(Erased(term)) = Line(term)
         /\ term.buffer_size > 0 => Line(term) # <<>> /\ Line(Erased(term)) = Front(Line(term))
         /\ Erased(term).buffer_size <= term.buffer_size
         /\ term.enter_flag = 0 /\ Marked(term) => Marked(Erased(term))
<1>. DEFINE old == term.buffer_size
            size == IF old > 0 THEN old - 1 ELSE 0
            b == [i \in DOMAIN term.buffer |->
                    IF (old > 0 /\ i = old) \/ (size = 0 /\ i = 0) THEN NUL ELSE term.buffer[i]]
            new == Erased(term)
<1>1. /\ old \in 0 .. MAX_BUF_SIZE /\ size \in 0 .. old
      /\ \A i \in 0 .. size - 1 : b[i] = term.buffer[i]
  BY DEF Terms
<1>2. new = [term EXCEPT !.buffer = b, !.buffer_size = size]
  BY DEF Erased
<1>. HIDE DEF b, new
<1>3. /\ new.buffer = b /\ new.buffer_size = size
      /\ new.waitingInRead = term.waitingInRead /\ new.enter_flag = term.enter_flag
  <2>. HIDE DEF size
  <2>1. ASSUME NEW y, y = [term EXCEPT !.buffer = b, !.buffer_size = size]
        PROVE  /\ y.buffer = b /\ y.buffer_size = size
               /\ y.waitingInRead = term.waitingInRead /\ y.enter_flag = term.enter_flag
    BY <2>1 DEF Terms
  <2>. QED  BY <1>2, <2>1
<1>4. new \in Terms
  BY ErasedFields DEF new
<1>5. /\ Line(new) \in Seq(Letters) /\ Len(Line(new)) = size
      /\ \A i \in 1 .. size : Line(new)[i] = b[i - 1]
      /\ Line(term) \in Seq(Letters) /\ Len(Line(term)) = old
      /\ \A i \in 1 .. old : Line(term)[i] = term.buffer[i - 1]
  BY <1>3, <1>4, LineIsSeq
<1>6. old = 0 => Line(new) = Line(term)
  BY <1>5
<1>7. ASSUME old > 0 PROVE Line(term) # <<>> /\ Line(new) = Front(Line(term))
  <2>. DEFINE u == SubSeq(Line(term), 1, old - 1)
  <2>1. /\ u \in Seq(Letters) /\ Len(u) = old - 1
        /\ \A i \in 1 .. old - 1 : u[i] = Line(term)[i]
    BY <1>1, <1>5, <1>7
  <2>. HIDE DEF u
  <2>2. \A i \in 1 .. size : Line(new)[i] = u[i]
    BY <1>1, <1>5, <1>7, <2>1
  <2>3. Line(new) = u
    BY <1>1, <1>5, <1>7, <2>1, <2>2, LinesEqual
  <2>4. Front(Line(term)) = u /\ Line(term) # <<>>
    BY <1>5, <1>7 DEF Front, u
  <2>. QED  BY <2>3, <2>4
<1>8. term.enter_flag = 0 /\ Marked(term) => Marked(new)
  BY <1>1, <1>3 DEF Marked
<1>. QED  BY <1>1, <1>3, <1>6, <1>7, <1>8 DEF new

-----------------------------------------------------------------------------
(***************************************************************************)
(* What is copied from an entered line is the line, cut to what was asked. *)
(***************************************************************************)
LEMMA CopiedIsCut ==
  ASSUME NEW term \in Terms, NEW n \in Requests,
         term.enter_flag = 1, EndsEntered(term), Marked(term)
  PROVE  Copied(term, n) = Lines!Cut(Line(term), n)
<1>. DEFINE stop == CopyStop(term, n)
            bytes == TrueBytes(n)
            size == term.buffer_size
            count == Min({stop + 1, bytes, size})
            byte(i) == IF i = bytes /\ stop = i /\ i < size
                         THEN END_OF_LINE ELSE term.buffer[i - 1]
            line == Line(term)
<1>1. /\ bytes \in 1 .. MAX_BUF_SIZE /\ bytes <= n /\ stop \in 0 .. bytes
      /\ stop < bytes => term.buffer[stop] = END_OF_LINE
      /\ \A i \in 0 .. bytes - 1 : term.buffer[i] = END_OF_LINE => stop <= i
      /\ size \in 1 .. MAX_BUF_SIZE /\ n \in Nat \ {0}
      /\ term.buffer[size - 1] = END_OF_LINE
      /\ \A i \in 0 .. size - 1 : term.buffer[i] = END_OF_LINE => i = size - 1
  BY CopyStopFacts DEF Terms, EndsEntered, Marked
<1>2. bytes \in {n, MAX_BUF_SIZE}
  BY LeastOf DEF TrueBytes
<1>3. /\ line \in Seq(Letters) /\ Len(line) = size
      /\ \A i \in 1 .. size : line[i] = term.buffer[i - 1]
  BY LineIsSeq
<1>4. Copied(term, n) = [i \in 1 .. count |-> byte(i)]
  BY DEF Copied
<1>5. Copied(term, n) \in Seq(Letters)
  BY CopiedFacts
<1>. HIDE DEF stop, bytes
<1>6. /\ count \in {stop + 1, bytes, size} /\ count \in Nat
      /\ count <= stop + 1 /\ count <= bytes /\ count <= size
  <2>. DEFINE values == {stop + 1, bytes, size}
  <2>1. values \subseteq Nat /\ values # {} /\ count = Min(values)
    BY <1>1
  <2>2. count \in values /\ \A x \in values : count <= x
    <3>. HIDE DEF values, count
    <3>. QED  BY <2>1, LeastOf
  <2>. HIDE DEF count
  <2>. QED  BY <2>1, <2>2
<1>. HIDE DEF count, line, size
<1>7. Len(Copied(term, n)) = count /\ \A i \in 1 .. count : Copied(term, n)[i] = byte(i)
  BY <1>4, <1>6
<1>. HIDE DEF byte
<1>8. CASE size <= n
  <2>1. stop = size - 1 /\ bytes >= size
    BY <1>1, <1>2, <1>8
  <2>2. count = size
    BY <1>1, <1>6, <2>1
  <2>3. \A i \in 1 .. size : byte(i) = line[i]
    BY <1>1, <1>3, <2>1 DEF byte
  <2>4. Copied(term, n) = line
    <3>. DEFINE copied == Copied(term, n)
    <3>1. /\ copied \in Seq(Letters) /\ Len(copied) = Len(line)
          /\ \A i \in 1 .. Len(copied) : copied[i] = line[i]
      BY <1>3, <1>5, <1>7, <2>2, <2>3
    <3>. HIDE DEF copied
    <3>2. copied = line
      BY <1>3, <3>1, LinesEqual
    <3>. QED  BY <3>2 DEF copied
  <2>. QED  BY <1>3, <1>8, <2>4 DEF Lines!Cut, line
<1>9. CASE size > n
  <2>1. bytes = n /\ stop = n
    BY <1>1, <1>2, <1>9
  <2>2. count = n
    BY <1>1, <1>6, <1>9, <2>1
  <2>. DEFINE cut == Append(SubSeq(line, 1, n - 1), END_OF_LINE)
  <2>3. /\ cut \in Seq(Letters) /\ Len(cut) = n /\ cut[n] = END_OF_LINE
        /\ \A i \in 1 .. n - 1 : cut[i] = line[i]
    <3>. DEFINE front == SubSeq(line, 1, n - 1)
    <3>1. front \in Seq(Letters) /\ Len(front) = n - 1 /\ \A i \in 1 .. n - 1 : front[i] = line[i]
      BY <1>1, <1>3, <1>9
    <3>. HIDE DEF front
    <3>2. END_OF_LINE \in Letters
      BY DEF Letters
    <3>3. /\ Append(front, END_OF_LINE) \in Seq(Letters)
          /\ Len(Append(front, END_OF_LINE)) = n /\ Append(front, END_OF_LINE)[n] = END_OF_LINE
          /\ \A i \in 1 .. n - 1 : Append(front, END_OF_LINE)[i] = front[i]
      BY <1>1, <3>1, <3>2
    <3>. QED  BY <3>1, <3>3 DEF front
  <2>4. byte(n) = END_OF_LINE /\ \A i \in 1 .. n - 1 : byte(i) = line[i]
    BY <1>1, <1>3, <1>9, <2>1 DEF byte
  <2>. HIDE DEF cut
  <2>5. Copied(term, n) = cut
    <3>. DEFINE copied == Copied(term, n)
    <3>1. /\ copied \in Seq(Letters) /\ Len(copied) = Len(cut)
          /\ \A i \in 1 .. Len(copied) : copied[i] = cut[i]
      BY <1>1, <1>5, <1>7, <2>2, <2>3, <2>4
    <3>. HIDE DEF copied
    <3>2. copied = cut
      BY <2>3, <3>1, LinesEqual
    <3>. QED  BY <3>2 DEF copied
  <2>. QED  BY <1>1, <1>3, <1>9, <2>5 DEF Lines!Cut, line, cut
<1>. QED  BY <1>1, <1>8, <1>9

-----------------------------------------------------------------------------
(***************************************************************************)
(* The strengthening for the lines: newlines stand at their ends, and a    *)
(* terminal waits exactly while its program is in terminal_read.           *)
(***************************************************************************)
LinesInv ==
  /\ InputInv
  /\ \A t \in Terminals :
       /\ Marked(terminal_array[t])
       /\ terminal_array[t].waitingInRead = 1 <=> nbytes[t] # 0

LineOf == [t \in Terminals |-> Line(terminal_array[t])]
EnteredOf == [t \in Terminals |-> terminal_array[t].enter_flag = 1]

\* One record changes: so does one line.
LEMMA OneLineChanges ==
  ASSUME TypeOK, NEW t \in Terminals, NEW new,
         terminal_array' = [terminal_array EXCEPT ![t] = new]
  PROVE  /\ LineOf' = [LineOf EXCEPT ![t] = Line(new)]
         /\ EnteredOf' = [EnteredOf EXCEPT ![t] = (new.enter_flag = 1)]
         /\ terminal_array'[t] = new
         /\ \A u \in Terminals \ {t} : terminal_array'[u] = terminal_array[u]
<1>1. terminal_array \in [Terminals -> Terms]
  BY TermFacts
<1>2. /\ terminal_array'[t] = new
      /\ \A u \in Terminals \ {t} : terminal_array'[u] = terminal_array[u]
  BY <1>1
<1>3. LineOf' = [LineOf EXCEPT ![t] = Line(new)]
  <2>. DEFINE g == [u \in Terminals |-> Line(terminal_array'[u])]
  <2>1. LineOf' = g
    BY DEF LineOf, Line
  <2>2. \A u \in Terminals : g[u] = IF u = t THEN Line(new) ELSE LineOf[u]
    BY <1>2 DEF LineOf
  <2>. QED  BY <2>1, <2>2 DEF LineOf
<1>4. EnteredOf' = [EnteredOf EXCEPT ![t] = (new.enter_flag = 1)]
  <2>1. \A u \in Terminals : EnteredOf'[u] = IF u = t THEN new.enter_flag = 1 ELSE EnteredOf[u]
    BY <1>2 DEF EnteredOf
  <2>. QED  BY <2>1 DEF EnteredOf
<1>. QED  BY <1>2, <1>3, <1>4

\* The last two parts of LinesInv after a step.
MarksKept ==
  \A t \in Terminals :
    /\ Marked(terminal_array'[t])
    /\ terminal_array'[t].waitingInRead = 1 <=> nbytes'[t] # 0

LEMMA LinesStutter ==
  ASSUME LineOf' = LineOf, EnteredOf' = EnteredOf, UNCHANGED <<screen_terminal, nbytes, user_buf>>
  PROVE  UNCHANGED Lines!vars
BY DEF LineOf, EnteredOf, Lines!vars

\* edit_buffer puts the record edited in the place of the displayed one, or
\* nothing happens because no program reads there.
LEMMA EditCases ==
  ASSUME LinesInv, NEW edited, EditBuffer(edited),
         edited.waitingInRead = EditedTerm.waitingInRead, Marked(edited),
         UNCHANGED <<screen_terminal, nbytes, user_buf>>
  PROVE  /\ MarksKept
         /\ \/ UNCHANGED Lines!vars
            \/ /\ nbytes[screen_terminal] # 0
               /\ LineOf' = [LineOf EXCEPT ![screen_terminal] = Line(edited)]
               /\ EnteredOf' = [EnteredOf EXCEPT ![screen_terminal] = (edited.enter_flag = 1)]
         /\ edited.enter_flag = EditedTerm.enter_flag => EnteredOf' = EnteredOf
<1>1. /\ TypeOK /\ screen_terminal \in Terminals
      /\ terminal_array \in [Terminals -> Terms]
  BY TermFacts DEF LinesInv, InputInv
<1>2. CASE EditedTerm.waitingInRead = 1
  <2>1. terminal_array' = [terminal_array EXCEPT ![screen_terminal] = edited]
    BY <1>2 DEF EditBuffer, EditedTerminal
  <2>2. /\ LineOf' = [LineOf EXCEPT ![screen_terminal] = Line(edited)]
        /\ EnteredOf' = [EnteredOf EXCEPT ![screen_terminal] = (edited.enter_flag = 1)]
        /\ terminal_array'[screen_terminal] = edited
        /\ \A u \in Terminals \ {screen_terminal} : terminal_array'[u] = terminal_array[u]
    BY <1>1, <2>1, OneLineChanges
  <2>3. MarksKept
    BY <1>1, <1>2, <2>2 DEF LinesInv, MarksKept, EditedTerm, EditedTerminal
  <2>4. nbytes[screen_terminal] # 0
    BY <1>1, <1>2 DEF LinesInv, EditedTerm, EditedTerminal
  <2>5. ASSUME edited.enter_flag = EditedTerm.enter_flag PROVE EnteredOf' = EnteredOf
    <3>1. \A u \in Terminals : terminal_array'[u].enter_flag = terminal_array[u].enter_flag
      BY <2>2, <2>5 DEF EditedTerm, EditedTerminal
    <3>. QED  BY <3>1 DEF EnteredOf
  <2>. QED  BY <2>2, <2>3, <2>4, <2>5
<1>3. CASE EditedTerm.waitingInRead # 1
  <2>1. terminal_array' = terminal_array
    BY <1>1, <1>3 DEF EditBuffer, EditedTerm, EditedTerminal
  <2>2. LineOf' = LineOf /\ EnteredOf' = EnteredOf
    BY <2>1 DEF LineOf, EnteredOf, Line
  <2>3. MarksKept
    BY <2>1 DEF LinesInv, MarksKept
  <2>. QED  BY <2>2, <2>3, LinesStutter
<1>. QED  BY <1>2, <1>3

LEMMA TypedStep ==
  ASSUME LinesInv, EditedTerm.enter_flag = 0, EditedTerm.buffer_size < MAX_BUF_SIZE,
         NEW c \in Chars \cup {SPACE_ASCII}, EditBuffer(Typed(EditedTerm, c)),
         UNCHANGED <<screen_terminal, nbytes, user_buf>>
  PROVE  MarksKept /\ (Lines!Type(c) \/ UNCHANGED Lines!vars)
<1>. DEFINE term == EditedTerm
            edited == Typed(term, c)
<1>1. /\ TypeOK /\ screen_terminal \in Terminals /\ term \in Terms /\ Marked(term)
      /\ terminal_array[screen_terminal] = term
  BY TermFacts DEF LinesInv, InputInv, EditedTerm, EditedTerminal
<1>2. c \in Letters /\ c # END_OF_LINE
  BY KeysAssumption DEF Letters
<1>3. /\ edited.waitingInRead = term.waitingInRead /\ Marked(edited) /\ edited.enter_flag = term.enter_flag
      /\ \/ edited = term
         \/ term.buffer_size < MAX_BUF_SIZE - 1 /\ Line(edited) = Append(Line(term), c)
  <2>1. CASE term.buffer_size = MAX_BUF_SIZE - 1
    BY <1>1, <2>1 DEF Typed, Full
  <2>2. CASE term.buffer_size # MAX_BUF_SIZE - 1
    <3>1. edited = Added(term, c)
      BY <2>2 DEF Typed, Full
    <3>2. /\ edited.buffer_size = term.buffer_size + 1 /\ edited.enter_flag = 0
          /\ edited.buffer[term.buffer_size] = c
          /\ Line(edited) = Append(Line(term), c) /\ edited.waitingInRead = term.waitingInRead
          /\ \A i \in 0 .. term.buffer_size - 1 : edited.buffer[i] = term.buffer[i]
      BY <1>1, <1>2, <3>1, AddedFields, AddedLine
    <3>3. term.buffer_size \in 0 .. MAX_BUF_SIZE
      BY <1>1 DEF Terms
    <3>. HIDE DEF edited, term
    <3>4. Marked(edited)
      BY <1>1, <1>2, <3>2, <3>3 DEF Marked, term
    <3>. QED  BY <2>2, <3>2, <3>3, <3>4 DEF term
  <2>. QED  BY <2>1, <2>2
<1>. HIDE DEF edited
<1>4. /\ MarksKept
      /\ \/ UNCHANGED Lines!vars
         \/ /\ nbytes[screen_terminal] # 0
            /\ LineOf' = [LineOf EXCEPT ![screen_terminal] = Line(edited)]
            /\ EnteredOf' = EnteredOf
  BY <1>3, EditCases DEF edited
<1>5. ASSUME nbytes[screen_terminal] # 0,
             LineOf' = [LineOf EXCEPT ![screen_terminal] = Line(edited)],
             EnteredOf' = EnteredOf
      PROVE  Lines!Type(c) \/ UNCHANGED Lines!vars
  <2>1. LineOf[screen_terminal] = Line(term) /\ ~EnteredOf[screen_terminal]
    <3>1. terminal_array[screen_terminal].enter_flag # 1
      BY <1>1
    <3>2. ~EnteredOf[screen_terminal]
      BY <1>1, <3>1, Zenon DEF EnteredOf
    <3>. QED  BY <1>1, <3>2 DEF LineOf
  <2>3. CASE edited = term
    <3>1. LineOf' = LineOf
      BY <1>1, <1>5, <2>1, <2>3 DEF LineOf
    <3>. QED  BY <1>5, <3>1, LinesStutter
  <2>4. CASE term.buffer_size < MAX_BUF_SIZE - 1 /\ Line(edited) = Append(Line(term), c)
    <3>1. Len(LineOf[screen_terminal]) < MAX_BUF_SIZE - 1
      BY <1>1, <2>1, <2>4, LineIsSeq
    <3>2. LineOf' = [LineOf EXCEPT ![screen_terminal] = Append(@, c)]
      BY <1>5, <2>1, <2>4
    <3>3. nbytes[screen_terminal] # 0 /\ ~EnteredOf[screen_terminal]
      BY <1>5, <2>1
    <3>. QED  BY <1>5, <3>1, <3>2, <3>3 DEF Lines!Type, Lines!Edits, LineOf, EnteredOf
  <2>. QED  BY <1>3, <2>3, <2>4
<1>. QED  BY <1>4, <1>5

LEMMA ErasedStep ==
  ASSUME LinesInv, EditedTerm.enter_flag = 0, EditBuffer(Erased(EditedTerm)),
         UNCHANGED <<screen_terminal, nbytes, user_buf>>
  PROVE  MarksKept /\ (Lines!Erase \/ UNCHANGED Lines!vars)
<1>. DEFINE term == EditedTerm
            edited == Erased(term)
<1>1. /\ TypeOK /\ screen_terminal \in Terminals /\ term \in Terms /\ Marked(term)
      /\ terminal_array[screen_terminal] = term
  BY TermFacts DEF LinesInv, InputInv, EditedTerm, EditedTerminal
<1>2. /\ edited.waitingInRead = term.waitingInRead /\ edited.enter_flag = term.enter_flag
      /\ Marked(edited)
      /\ term.buffer_size = 0 => Line(edited) = Line(term)
      /\ term.buffer_size > 0 => Line(term) # <<>> /\ Line(edited) = Front(Line(term))
  BY <1>1, ErasedFields, ErasedLine
<1>. HIDE DEF edited
<1>3. /\ MarksKept
      /\ \/ UNCHANGED Lines!vars
         \/ /\ nbytes[screen_terminal] # 0
            /\ LineOf' = [LineOf EXCEPT ![screen_terminal] = Line(edited)]
            /\ EnteredOf' = EnteredOf
  BY <1>2, EditCases DEF edited
<1>4. ASSUME nbytes[screen_terminal] # 0,
             LineOf' = [LineOf EXCEPT ![screen_terminal] = Line(edited)],
             EnteredOf' = EnteredOf
      PROVE  Lines!Erase \/ UNCHANGED Lines!vars
  <2>1. LineOf[screen_terminal] = Line(term) /\ ~EnteredOf[screen_terminal]
    <3>1. terminal_array[screen_terminal].enter_flag # 1
      BY <1>1
    <3>2. ~EnteredOf[screen_terminal]
      BY <1>1, <3>1, Zenon DEF EnteredOf
    <3>. QED  BY <1>1, <3>2 DEF LineOf
  <2>2. term.buffer_size \in Nat
    BY <1>1 DEF Terms
  <2>3. CASE term.buffer_size = 0
    <3>1. LineOf' = LineOf
      BY <1>1, <1>2, <1>4, <2>1, <2>3 DEF LineOf
    <3>. QED  BY <1>4, <3>1, LinesStutter
  <2>4. CASE term.buffer_size > 0
    <3>1. LineOf[screen_terminal] # <<>>
      BY <1>2, <2>1, <2>4
    <3>2. LineOf' = [LineOf EXCEPT ![screen_terminal] = Front(@)]
      BY <1>2, <1>4, <2>1, <2>4
    <3>. QED  BY <1>4, <2>1, <3>1, <3>2 DEF Lines!Erase, Lines!Edits, Lines!Front, Front, LineOf, EnteredOf
  <2>. QED  BY <2>2, <2>3, <2>4
<1>. QED  BY <1>3, <1>4

LEMMA EnteredStep ==
  ASSUME LinesInv, EditedTerm.enter_flag = 0, EditedTerm.buffer_size < MAX_BUF_SIZE,
         EditBuffer(Entered(EditedTerm)), UNCHANGED <<screen_terminal, nbytes, user_buf>>
  PROVE  MarksKept /\ (Lines!Enter \/ UNCHANGED Lines!vars)
<1>. DEFINE term == EditedTerm
            edited == Entered(term)
<1>1. /\ TypeOK /\ screen_terminal \in Terminals /\ term \in Terms /\ Marked(term)
      /\ terminal_array[screen_terminal] = term
  BY TermFacts DEF LinesInv, InputInv, EditedTerm, EditedTerminal
<1>2. /\ edited.waitingInRead = term.waitingInRead /\ edited.enter_flag = 1
      /\ Line(edited) = Append(Line(term), END_OF_LINE)
      /\ edited.buffer_size = term.buffer_size + 1
      /\ \A i \in 0 .. term.buffer_size - 1 : edited.buffer[i] = term.buffer[i]
  BY <1>1, EnteredLine
<1>. HIDE DEF edited, term
<1>3. Marked(edited)
  <2>1. term.buffer_size \in 0 .. MAX_BUF_SIZE
    BY <1>1 DEF Terms
  <2>2. \A i \in 0 .. term.buffer_size - 1 : term.buffer[i] # END_OF_LINE
    BY <1>1 DEF Marked, term
  <2>. QED  BY <1>2, <2>1, <2>2 DEF Marked
<1>4. /\ MarksKept
      /\ \/ UNCHANGED Lines!vars
         \/ /\ nbytes[screen_terminal] # 0
            /\ LineOf' = [LineOf EXCEPT ![screen_terminal] = Line(edited)]
            /\ EnteredOf' = [EnteredOf EXCEPT ![screen_terminal] = (edited.enter_flag = 1)]
  BY <1>2, <1>3, EditCases DEF edited, term
<1>5. ASSUME nbytes[screen_terminal] # 0,
             LineOf' = [LineOf EXCEPT ![screen_terminal] = Line(edited)],
             EnteredOf' = [EnteredOf EXCEPT ![screen_terminal] = (edited.enter_flag = 1)]
      PROVE  Lines!Enter
  <2>1. LineOf[screen_terminal] = Line(term)
    BY <1>1 DEF LineOf
  <2>2. ~EnteredOf[screen_terminal]
    <3>1. terminal_array[screen_terminal].enter_flag # 1
      BY <1>1 DEF term
    <3>. QED  BY <1>1, <3>1, Zenon DEF EnteredOf
  <2>3. LineOf' = [LineOf EXCEPT ![screen_terminal] = Append(@, END_OF_LINE)]
    BY <1>2, <1>5, <2>1
  <2>4. EnteredOf' = [EnteredOf EXCEPT ![screen_terminal] = TRUE]
    BY <1>2, <1>5
  <2>. QED  BY <1>5, <2>2, <2>3, <2>4 DEF Lines!Enter, Lines!Edits, LineOf, EnteredOf
<1>. QED  BY <1>4, <1>5

LEMMA BegunStep ==
  ASSUME LinesInv, NEW t \in Terminals, NEW n \in Requests, Read(t, n)
  PROVE  MarksKept /\ Lines!Begin(t, n)
<1>1. /\ TypeOK /\ terminal_array[t] \in Terms /\ terminal_array \in [Terminals -> Terms]
      /\ nbytes \in [Terminals -> {0} \cup Requests] /\ n # 0
  BY TermFacts DEF LinesInv, InputInv, TypeOK
<1>. DEFINE new == [terminal_array[t] EXCEPT !.waitingInRead = 1]
<1>2. /\ new.enter_flag = terminal_array[t].enter_flag
      /\ new.buffer = terminal_array[t].buffer
      /\ new.buffer_size = terminal_array[t].buffer_size /\ new.waitingInRead = 1
  BY <1>1 DEF Terms
<1>3. terminal_array' = [terminal_array EXCEPT ![t] = new]
  BY DEF Read
<1>. HIDE DEF new
<1>4. /\ terminal_array'[t].waitingInRead = 1
      /\ \A u \in Terminals : u # t => terminal_array'[u] = terminal_array[u]
      /\ \A u \in Terminals :
           /\ terminal_array'[u].enter_flag = terminal_array[u].enter_flag
           /\ terminal_array'[u].buffer = terminal_array[u].buffer
           /\ terminal_array'[u].buffer_size = terminal_array[u].buffer_size
  BY <1>1, <1>2, <1>3
<1>5. LineOf' = LineOf /\ EnteredOf' = EnteredOf
  BY <1>4 DEF LineOf, EnteredOf, Line
<1>6. \A u \in Terminals : nbytes'[u] = IF u = t THEN n ELSE nbytes[u]
  BY <1>1 DEF Read
<1>7. MarksKept
  BY <1>1, <1>4, <1>6 DEF LinesInv, MarksKept, Marked
<1>8. Lines!Begin(t, n)
  BY <1>5 DEF Read, Lines!Begin, LineOf, EnteredOf
<1>. QED  BY <1>7, <1>8

LEMMA GivenStep ==
  ASSUME LinesInv, ~TypingAhead, NEW t \in Terminals, ReadReturns(t)
  PROVE  MarksKept /\ Lines!Give(t)
<1>. DEFINE term == terminal_array[t]
            n == nbytes[t]
            new == [buffer |-> [i \in 0 .. MAX_BUF_SIZE - 1 |->
                                  IF i < TrueBytes(n) THEN NUL ELSE term.buffer[i]],
                    buffer_size |-> 0, waitingInRead |-> 0, enter_flag |-> 0]
<1>1. /\ TypeOK /\ term \in Terms /\ term.enter_flag = 1 /\ EndsEntered(term) /\ Marked(term)
      /\ terminal_array \in [Terminals -> Terms]
      /\ nbytes \in [Terminals -> {0} \cup Requests] /\ n \in Requests
      /\ UNCHANGED <<curr_terminal, screen_terminal, handler>>
      /\ user_buf' = [user_buf EXCEPT ![t] = Copied(term, n)]
      /\ nbytes' = [nbytes EXCEPT ![t] = 0]
  BY TermFacts DEF LinesInv, InputInv, ReadReturns, TypeOK
<1>2. terminal_array' = [terminal_array EXCEPT ![t] = new]
  BY DEF ReadReturns
<1>3. Copied(term, n) = Lines!Cut(Line(term), n)
  BY <1>1, CopiedIsCut
<1>4. new.buffer_size = 0 /\ new.enter_flag = 0 /\ new.waitingInRead = 0
  OBVIOUS
<1>5. Line(new) = <<>>
  BY <1>4 DEF Line
<1>. HIDE DEF new, n, term
<1>6. /\ LineOf' = [LineOf EXCEPT ![t] = <<>>]
      /\ EnteredOf' = [EnteredOf EXCEPT ![t] = FALSE]
      /\ terminal_array'[t] = new
      /\ \A u \in Terminals \ {t} : terminal_array'[u] = terminal_array[u]
  <2>1. EnteredOf' = [EnteredOf EXCEPT ![t] = (new.enter_flag = 1)]
    BY <1>1, <1>2, OneLineChanges
  <2>2. (new.enter_flag = 1) = FALSE
    BY <1>4
  <2>3. EnteredOf' = [EnteredOf EXCEPT ![t] = FALSE]
    BY <2>1, <2>2
  <2>4. LineOf' = [LineOf EXCEPT ![t] = Line(new)]
    BY <1>1, <1>2, OneLineChanges
  <2>. QED  BY <1>1, <1>2, <1>5, <2>3, <2>4, OneLineChanges
<1>7. \A u \in Terminals : nbytes'[u] = IF u = t THEN 0 ELSE nbytes[u]
  BY <1>1
<1>8. MarksKept
  <2>1. Marked(new)
    BY <1>4 DEF Marked
  <2>. QED  BY <1>4, <1>6, <1>7, <2>1 DEF LinesInv, MarksKept
<1>9. LineOf[t] = Line(term) /\ EnteredOf[t]
  <2>1. EnteredOf[t]
    BY <1>1, Zenon DEF EnteredOf, term
  <2>. QED  BY <2>1 DEF LineOf, term
<1>10. user_buf' = [user_buf EXCEPT ![t] = Lines!Cut(LineOf[t], n)]
  BY <1>1, <1>3, <1>9
<1>. QED  BY <1>1, <1>6, <1>8, <1>9, <1>10 DEF Lines!Give, LineOf, EnteredOf, n

LEMMA QuietStep ==
  ASSUME LinesInv, SendEoi \/ Tick \/ UNCHANGED vars \/ (\E t \in Terminals : SwitchScreen(t))
  PROVE  /\ MarksKept
         /\ UNCHANGED Lines!vars \/ \E t \in Terminals : Lines!Display(t)
<1>1. UNCHANGED <<terminal_array, nbytes, user_buf>>
  BY DEF SendEoi, Tick, vars, SwitchScreen
<1>2. LineOf' = LineOf /\ EnteredOf' = EnteredOf
  BY <1>1 DEF LineOf, EnteredOf, Line
<1>3. MarksKept
  BY <1>1 DEF LinesInv, MarksKept
<1>4. CASE SendEoi \/ Tick \/ UNCHANGED vars
  BY <1>1, <1>2, <1>3, <1>4, LinesStutter DEF SendEoi, Tick, vars
<1>5. ASSUME NEW t \in Terminals, SwitchScreen(t)
      PROVE  Lines!Display(t)
  BY <1>1, <1>2, <1>5 DEF SwitchScreen, Lines!Display, LineOf, EnteredOf
<1>. QED  BY <1>3, <1>4, <1>5

LEMMA LinesStep ==
  ASSUME ~TypingAhead, LinesInv, [Next]_vars
  PROVE  LinesInv' /\ [Lines!Next]_Lines!vars
<1>0. InputInv /\ InputInv'
  BY InputInvStep DEF LinesInv
<1>1. SUFFICES MarksKept /\ [Lines!Next]_Lines!vars
  BY <1>0 DEF LinesInv, MarksKept, Marked
<1>2. ASSUME NEW c \in Chars, TypeKey(c) PROVE MarksKept /\ [Lines!Next]_Lines!vars
  BY <1>2, TypedStep DEF TypeKey, KeyArrives, EditedTerm, EditedTerminal, Lines!Next
<1>3. CASE EnterKey
  BY <1>3, EnteredStep DEF EnterKey, KeyArrives, EditedTerm, EditedTerminal, Lines!Next
<1>4. CASE BackspaceKey
  BY <1>4, ErasedStep DEF BackspaceKey, KeyArrives, EditedTerm, EditedTerminal, Lines!Next
<1>5. CASE TabKey
  BY <1>5, TypedStep DEF TabKey, KeyArrives, EditedTerm, EditedTerminal, Lines!Next
<1>6. CASE TabGoesOn
  BY <1>0, <1>6, TypedStep
     DEF TabGoesOn, InputInv, TabHasRoom, EditedTerm, EditedTerminal, Lines!Next
<1>7. ASSUME NEW t \in Terminals, NEW n \in Requests, Read(t, n)
      PROVE  MarksKept /\ [Lines!Next]_Lines!vars
  BY <1>7, BegunStep DEF Lines!Next, Lines!Terminals, Terminals
<1>8. ASSUME NEW t \in Terminals, ReadReturns(t) PROVE MarksKept /\ [Lines!Next]_Lines!vars
  BY <1>8, GivenStep DEF Lines!Next, Lines!Terminals, Terminals
<1>9. CASE SendEoi \/ Tick \/ UNCHANGED vars \/ (\E t \in Terminals : SwitchScreen(t))
  BY <1>9, QuietStep DEF Lines!Next, Lines!Terminals, Terminals
<1>. QED  BY <1>2, <1>3, <1>4, <1>5, <1>6, <1>7, <1>8, <1>9 DEF Next

LEMMA LinesStart ==
  ASSUME Init
  PROVE  LinesInv /\ Lines!Init
<1>1. \A t \in Terminals : Marked(terminal_array[t]) /\ terminal_array[t].waitingInRead = 0
                           /\ terminal_array[t].enter_flag = 0 /\ Line(terminal_array[t]) = <<>>
  BY DEF Init, Marked, Line
<1>2. LinesInv
  <2>1. \A t \in Terminals : nbytes[t] = 0 /\ terminal_array[t].waitingInRead # 1
    BY <1>1 DEF Init
  <2>. QED  BY <1>1, <2>1, InputInvInit DEF LinesInv
<1>3. /\ [t \in Terminals |-> Line(terminal_array[t])] = [t \in Lines!Terminals |-> <<>>]
      /\ [t \in Terminals |-> terminal_array[t].enter_flag = 1] = [t \in Lines!Terminals |-> FALSE]
  <2>1. \A t \in Terminals : (terminal_array[t].enter_flag = 1) = FALSE
    BY <1>1
  <2>2. [t \in Terminals |-> terminal_array[t].enter_flag = 1] = [t \in Terminals |-> FALSE]
    BY <2>1
  <2>3. Lines!Terminals = Terminals
    BY DEF Lines!Terminals, Terminals
  <2>4. [t \in Terminals |-> Line(terminal_array[t])] = [t \in Terminals |-> <<>>]
    BY <1>1
  <2>. QED  BY <2>2, <2>3, <2>4
<1>. QED  BY <1>2, <1>3 DEF Init, Lines!Init, Lines!Terminals, Terminals

(***************************************************************************)
(* The buffers, flags, interrupts and turns amount to TerminalLines: while *)
(* its program reads, keys edit the line of the terminal displayed, and    *)
(* what was entered is given to the reader once, cut to what it asked for, *)
(* unless keys are typed ahead.                                            *)
(***************************************************************************)
THEOREM InputImplementsLines ==
  ASSUME ~TypingAhead PROVE Spec => ImplementsLines
BY LinesStart, LinesStep, PTL DEF Spec, ImplementsLines, Lines!Spec
=============================================================================
