--------------------------- MODULE CLibraryInputs ---------------------------
(***************************************************************************)
(* The functions of the C library against reference definitions, on every  *)
(* input up to a size: each initial state is one.                          *)
(***************************************************************************)
EXTENDS CLibrary, Inputs

CONSTANTS
  MaxBlock,     \* longest piece of memory filled or copied, in units
  Chars,        \* the characters of strings; strncmp compares them as int8_t
  MaxString     \* longest string

ASSUME CharsAssumption == Chars \subseteq Nat \ {EndOfString}
ASSUME SizesAssumption == MaxBlock \in Nat /\ MaxString \in Nat

\* Every byte of memory holds its own address.
Memory == [a \in 0 .. 5 * MaxBlock + 7 |-> a]
Filling == <<1001, 1002, 1003, 1004>>
MemoryCalls ==
  {m \in [kind : {"memory"},
           function : {"memset", "memset_word", "memset_dword", "memcpy", "memmove"},
           dest : 4 .. MaxBlock + 7, src : 4 .. MaxBlock + 7, n : 0 .. MaxBlock] :
     /\ m.function = "memcpy" => m.src + m.n <= m.dest \/ m.dest + m.n <= m.src
     /\ m.function \notin {"memcpy", "memmove"} => m.src = 4}

\* One string lies at address 0, and is copied to Second.
Second == 2 * MaxString + 2
Garbage == 99
WithString(s) == Store([a \in 0 .. 2 * Second - 1 |-> Garbage], 0, Append(s, EndOfString))
StringCalls ==
  [kind : {"strings"}, s1 : SeqOf(Chars, MaxString), s2 : SeqOf(Chars, MaxString),
   n : 0 .. MaxString + 1]

\* A format as a list of what it means: characters, and conversions with their
\* arguments.
Numbers == 0 .. WordValues - 1
Token(form, args) == [form : {form}, arg : args]
Tokens ==
  Token("text", Chars \ {PERCENT}) \cup Token("percent", {0}) \cup Token("hex", Numbers)
    \cup Token("padded", Numbers) \cup Token("unsigned", Numbers) \cup Token("signed", Numbers)
    \cup Token("char", Chars \cup {256 + c : c \in Chars}) \cup Token("string", SeqOf(Chars, MaxString))
Prints == [kind : {"print"}, tokens : Seq(Tokens)]

MemoryOrString == input \in MemoryCalls \cup StringCalls
LibraryInputs == (MemoryOrString \/ input \in Prints) /\ [][SameInput]_input

-----------------------------------------------------------------------------
\* The memory functions change exactly the n bytes, words or double words from
\* dest on, wherever they begin and whatever remains after the double words;
\* memmove also when the two pieces overlap.
MemoryExact ==
  input.kind = "memory" =>
    LET f == input.function
        n == input.n
        offset(a) == a - input.dest
        result ==
          CASE f = "memset" -> memset(Memory, input.dest, Filling, n)
            [] f = "memset_word" -> memset_word(Memory, input.dest, Filling, n)
            [] f = "memset_dword" -> memset_dword(Memory, input.dest, Filling, n)
            [] f = "memcpy" -> memcpy(Memory, input.dest, input.src, n)
            [] f = "memmove" -> memmove(Memory, input.dest, input.src, n)
        unit == CASE f = "memset_word" -> 2 [] f = "memset_dword" -> 4 [] OTHER -> 1
    IN \A a \in DOMAIN Memory :
         result[a] = IF offset(a) \notin 0 .. unit * n - 1
                       THEN a
                       ELSE IF f \in {"memcpy", "memmove"}
                         THEN input.src + offset(a)
                         ELSE Filling[(offset(a) % unit) + 1]

\* What of a text lies within n characters.
First(text, n) == SubSeq(text, 1, Min({n, Len(text)}))

\* As in a dictionary.
Before(s, t) ==
  \E k \in 0 .. Len(s) :
    /\ k < Len(t) /\ SubSeq(s, 1, k) = SubSeq(t, 1, k)
    /\ k < Len(s) => s[k + 1] < t[k + 1]

\* strlen, strcpy and strrev agree on what a string is; strncpy fills exactly n
\* bytes; strncmp orders the first n characters as a dictionary does, and is 0
\* only if they are the same.
StringsExact ==
  input.kind = "strings" =>
    LET a == input.s1
        b == input.s2
        n == input.n
        memory == WithString(a)
    IN /\ StringAt(memory, 0) = a
       /\ StringAt(strrev(memory, 0), 0) = Reverse(a)
       /\ StringAt(strcpy(memory, Second, 0), Second) = a
       /\ \A i \in 0 .. Second - 1 :
            strncpy(memory, Second, 0, n)[Second + i]
              = IF i < Len(First(a, n)) THEN a[i + 1] ELSE IF i < n THEN EndOfString ELSE Garbage
       /\ strncmp(a, b, n) = 0 <=> First(a, n) = First(b, n)
       /\ strncmp(a, b, n) < 0 <=> Before(First(a, n), First(b, n))

(***************************************************************************)
(* The memory and string functions do on every alignment, length and       *)
(* overlap what their comments promise, and nothing around it (lib.c).     *)
(***************************************************************************)
MemoryAndStringsExact == MemoryExact /\ StringsExact

-----------------------------------------------------------------------------
\* The digits read from the highest one on.
DigitOf(char) == IF char < UPPER_A THEN char - DIGIT_0 ELSE char - UPPER_A + 10
ValueOf(digits, radix) ==
  LET value[i \in 0 .. Len(digits)] ==
        IF i = 0 THEN 0 ELSE radix * value[i - 1] + DigitOf(digits[i])
  IN value[Len(digits)]
IsNumber(digits, value, radix) ==
  /\ digits # <<>> /\ \A i \in DOMAIN digits : DigitOf(digits[i]) \in 0 .. radix - 1
  /\ ValueOf(digits, radix) = value
IsShortest(digits) == Len(digits) > 1 => digits[1] # DIGIT_0

FormatOf(token) ==
  CASE token.form = "text" -> <<token.arg>>
    [] token.form = "percent" -> <<PERCENT, PERCENT>>
    [] token.form = "hex" -> <<PERCENT, CHAR_X>>
    [] token.form = "padded" -> <<PERCENT, HASH, CHAR_X>>
    [] token.form = "unsigned" -> <<PERCENT, CHAR_U>>
    [] token.form = "signed" -> <<PERCENT, CHAR_D>>
    [] token.form = "char" -> <<PERCENT, CHAR_C>>
    [] token.form = "string" -> <<PERCENT, CHAR_S>>

ArgsOf(token) == IF token.form \in {"text", "percent"} THEN <<>> ELSE <<token.arg>>

IsPrinted(token, text) ==
  LET arg == token.arg
  IN CASE token.form = "text" -> text = <<arg>>
       [] token.form = "percent" -> text = <<PERCENT>>
       [] token.form = "hex" -> IsNumber(text, arg, 16) /\ IsShortest(text)
       [] token.form = "padded" -> IsNumber(text, arg, 16) /\ Len(text) = WordDigits
       [] token.form = "unsigned" -> IsNumber(text, arg, 10) /\ IsShortest(text)
       [] token.form = "signed" ->
            IF 2 * arg < WordValues
              THEN IsNumber(text, arg, 10) /\ IsShortest(text)
              ELSE /\ text # <<>> /\ text[1] = MINUS /\ IsNumber(Tail(text), WordValues - arg, 10)
                   /\ IsShortest(Tail(text))
       [] token.form = "char" -> text = <<arg % 256>>
       [] token.form = "string" -> text = arg

(***************************************************************************)
(* printf prints text as it is and every conversion as the documented form *)
(* of its own argument: numbers without leading zeros, %#x with all of     *)
(* WordDigits digits, %d with a minus sign for the upper half of the       *)
(* values (lib.c:61-76).                                                   *)
(***************************************************************************)
PrintfPrintsItsArguments ==
  input.kind = "print" =>
    LET tokens == input.tokens
        n == Len(tokens)
        printed == printf(FlattenSeq([i \in 1 .. n |-> FormatOf(tokens[i])]),
                          FlattenSeq([i \in 1 .. n |-> ArgsOf(tokens[i])]),
                          [a \in 0 .. 5 * WordDigits |-> Garbage])
    IN \E end \in [0 .. n -> 0 .. Len(printed)] :
         /\ end[0] = 0 /\ end[n] = Len(printed)
         /\ \A i \in 1 .. n :
              end[i - 1] <= end[i] /\ IsPrinted(tokens[i], SubSeq(printed, end[i - 1] + 1, end[i]))
=============================================================================
