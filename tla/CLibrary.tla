------------------------------ MODULE CLibrary ------------------------------
(***************************************************************************)
(* The functions of lib.c that have no state: filling and copying memory,  *)
(* strings, numbers as text, and printf.                                   *)
(*                                                                         *)
(* Memory is a function from addresses to bytes.  A C string given by its  *)
(* value is the sequence of its characters before the NUL.  Bytes and      *)
(* characters are integers.  A 32-bit argument c of the memset functions   *)
(* is the sequence of its four bytes, lowest first.                        *)
(***************************************************************************)
EXTENDS Integers, SequencesExt

CONSTANT WordDigits   \* hexadecimal digits of a uint32_t, 8

ASSUME WordAssumption == WordDigits \in Nat \ {0}

\* A uint32_t has four bits per hexadecimal digit.
WordValues ==
  LET twoTo[k \in 0 .. 4 * WordDigits] == IF k = 0 THEN 1 ELSE 2 * twoTo[k - 1]
  IN twoTo[4 * WordDigits]

EndOfString == 0
MINUS == 45
DIGIT_0 == 48
UPPER_A == 65
HASH == 35
PERCENT == 37
CHAR_C == 99
CHAR_D == 100
CHAR_S == 115
CHAR_U == 117
CHAR_X == 120

Load(mem, at, size) == [i \in 1 .. size |-> mem[at + i - 1]]

Store(mem, at, bytes) ==
  [a \in DOMAIN mem |-> IF a \in at .. at + Len(bytes) - 1 THEN bytes[a - at + 1] ELSE mem[a]]

Copy(mem, to, from, size) == Store(mem, to, Load(mem, from, size))

-----------------------------------------------------------------------------
(***************************************************************************)
(* Memory.  memset and memcpy go byte by byte up to an address that is a   *)
(* multiple of 4, then by double words, then byte by byte again.           *)
(***************************************************************************)

\* Mutant of TailLen: the remainder of n, not of what is left of it.
TailLen_OfAll(s, n) == n % 4

HeadLen(s, n) == Min({n, (4 - (s % 4)) % 4})
TailLen(s, n) == (n - HeadLen(s, n)) % 4

\* The accesses, in order: where each begins and how many bytes it stores.
Accesses(s, n) ==
  LET head == HeadLen(s, n)
      dwords == (n - head) \div 4
      Run(first, size, k) == [i \in 1 .. k |-> [at |-> first + size * (i - 1), size |-> size]]
  IN Run(s, 1, head) \o Run(s + head, 4, dwords)
       \o Run(s + head + 4 * dwords, 1, TailLen(s, n))

\* The writes one after the other, each at an address.
StoreAll(mem, writes) ==
  LET after[i \in 0 .. Len(writes)] ==
        IF i = 0 THEN mem ELSE Store(after[i - 1], writes[i].at, writes[i].bytes)
  IN after[Len(writes)]

\* The accesses one after the other, each reading what the earlier ones left.
CopyAll(mem, dest, src, accesses) ==
  LET after[i \in 0 .. Len(accesses)] ==
        IF i = 0
          THEN mem
          ELSE LET access == accesses[i]
               IN Copy(after[i - 1], access.at, src + (access.at - dest), access.size)
  IN after[Len(accesses)]

memset(mem, s, c, n) ==
  LET accesses == Accesses(s, n)
  IN StoreAll(mem, [i \in DOMAIN accesses |->
       [at |-> accesses[i].at, bytes |-> [j \in 1 .. accesses[i].size |-> c[1]]]])

\* rep stosw and rep stosl: n words or double words from s on.
memset_word(mem, s, c, n) ==
  StoreAll(mem, [i \in 1 .. n |-> [at |-> s + 2 * (i - 1), bytes |-> SubSeq(c, 1, 2)]])

memset_dword(mem, s, c, n) ==
  StoreAll(mem, [i \in 1 .. n |-> [at |-> s + 4 * (i - 1), bytes |-> c]])

memcpy(mem, dest, src, n) == CopyAll(mem, dest, src, Accesses(dest, n))

\* From the end backwards when the destination lies behind the source.  (The
\* code leaves the direction flag set after that; all of these functions clear
\* it before they copy.)
memmove(mem, dest, src, n) ==
  CopyAll(mem, dest, src,
          [i \in 1 .. n |-> [at |-> dest + (IF src >= dest THEN i - 1 ELSE n - i), size |-> 1]])

-----------------------------------------------------------------------------
(***************************************************************************)
(* Strings.  strcpy copies forward: the operator stands for it when dest   *)
(* does not lie inside the source.                                         *)
(***************************************************************************)
CharOf(string, i) == IF i <= Len(string) THEN string[i] ELSE EndOfString

strlen(mem, s) == Min({a \in DOMAIN mem : a >= s /\ mem[a] = EndOfString}) - s

\* What puts prints.
StringAt(mem, s) == Load(mem, s, strlen(mem, s))

Swapped(mem, a, b) == [mem EXCEPT ![a] = mem[b], ![b] = mem[a]]

\* The first k characters swapped, each with the one as far from the end.
Reversed(mem, beg, end, k) ==
  LET after[i \in 0 .. k] ==
        IF i = 0
          THEN mem
          ELSE Swapped(after[i - 1], beg + i - 1, end - i + 1)
  IN after[k]

\* Mutant of strrev: swaps up to the middle twice, there and back.
strrev_Twice(mem, s) ==
  Reversed(mem, s, s + strlen(mem, s) - 1, strlen(mem, s))

strrev(mem, s) ==
  Reversed(mem, s, s + strlen(mem, s) - 1, strlen(mem, s) \div 2)

strcpy(mem, dest, src) == Store(mem, dest, Append(StringAt(mem, src), EndOfString))

strncpy(mem, dest, src, n) ==
  LET text == StringAt(mem, src)
  IN Store(mem, dest, [i \in 1 .. n |-> CharOf(text, i)])

\* The difference of the first characters that differ, within n and before
\* the end of both.
strncmp(s1, s2, n) ==
  LET stops == {i \in 1 .. n : CharOf(s1, i) # CharOf(s2, i) \/ CharOf(s1, i) = EndOfString}
  IN IF stops = {} THEN 0 ELSE CharOf(s1, Min(stops)) - CharOf(s2, Min(stops))

-----------------------------------------------------------------------------
(***************************************************************************)
(* Numbers and printf.                                                     *)
(***************************************************************************)
lookup(digit) == IF digit < 10 THEN DIGIT_0 + digit ELSE UPPER_A + digit - 10

\* The digits are stored lowest first and then reversed.
itoa(value, mem, buf, radix) ==
  LET newval[i \in 0 .. 4 * WordDigits] == IF i = 0 THEN value ELSE newval[i - 1] \div radix
      count == Min({i \in DOMAIN newval : newval[i] = 0})
      digits == [i \in 1 .. count |-> lookup(newval[i - 1] % radix)]
  IN IF value = 0
       THEN Store(mem, buf, Append(<<DIGIT_0>>, EndOfString))
       ELSE strrev(Store(mem, buf, Append(digits, EndOfString)), buf)

\* %#x: the number goes behind WordDigits bytes of conv_buf, and zeros fill
\* the bytes from index strlen up to it.
Padded(value, conv_buf) ==
  LET number == itoa(value, conv_buf, WordDigits, 16)
      starting_index == strlen(number, WordDigits)
      zeros == [i \in 1 .. WordDigits - starting_index |-> DIGIT_0]
  IN StringAt(Store(number, starting_index, zeros), starting_index)

\* %d: a negative number is printed as its negation, in 32 bits, behind "-".
Signed(value, conv_buf) ==
  IF value < WordValues \div 2
    THEN StringAt(itoa(value, conv_buf, 0, 10), 0)
    ELSE <<MINUS>> \o StringAt(itoa(WordValues - value, conv_buf, 1, 10), 1)

\* What is printed for a specifier and its argument.
Converted(spec, alternate, arg, conv_buf) ==
  CASE spec = CHAR_X /\ alternate -> Padded(arg, conv_buf)
    [] spec = CHAR_X /\ ~alternate -> StringAt(itoa(arg, conv_buf, 0, 16), 0)
    [] spec = CHAR_U -> StringAt(itoa(arg, conv_buf, 0, 10), 0)
    [] spec = CHAR_D -> Signed(arg, conv_buf)
    [] spec = CHAR_C -> <<arg % 256>>
    [] spec = CHAR_S -> arg
    [] spec = PERCENT -> <<PERCENT>>
    [] OTHER -> <<>>

TakesArgument == {CHAR_X, CHAR_U, CHAR_D, CHAR_C, CHAR_S}

\* Mutant of PrintfStep: "#" is kept for the conversions that follow.
PrintfStep_Sticky(state, char, conv_buf) ==
  CASE state.mode = "text" /\ char = PERCENT -> [state EXCEPT !.mode = "conversion"]
    [] state.mode = "text" /\ char # PERCENT -> [state EXCEPT !.out = Append(@, char)]
    [] state.mode = "conversion" /\ char = HASH -> [state EXCEPT !.alternate = TRUE]
    [] state.mode = "conversion" /\ char # HASH ->
         [state EXCEPT
            !.mode = "text",
            !.out = @ \o Converted(char, state.alternate, Head(state.args \o <<0>>), conv_buf),
            !.args = IF char \in TakesArgument THEN Tail(@) ELSE @]

\* One character of the format: text, or part of a conversion.  A specifier
\* that is not known prints nothing.
PrintfStep(state, char, conv_buf) ==
  CASE state.mode = "text" /\ char = PERCENT ->
         [state EXCEPT !.mode = "conversion", !.alternate = FALSE]
    [] state.mode = "text" /\ char # PERCENT -> [state EXCEPT !.out = Append(@, char)]
    [] state.mode = "conversion" /\ char = HASH -> [state EXCEPT !.alternate = TRUE]
    [] state.mode = "conversion" /\ char # HASH ->
         [state EXCEPT
            !.mode = "text",
            !.out = @ \o Converted(char, state.alternate, Head(state.args \o <<0>>), conv_buf),
            !.args = IF char \in TakesArgument THEN Tail(@) ELSE @]

\* What printf prints for a format that does not end inside a conversion;
\* conv_buf holds whatever was on the stack.
printf(format, args, conv_buf) ==
  LET state[i \in 0 .. Len(format)] ==
        IF i = 0
          THEN [mode |-> "text", alternate |-> FALSE, out |-> <<>>, args |-> args]
          ELSE PrintfStep(state[i - 1], format[i], conv_buf)
  IN state[Len(format)].out
=============================================================================
