------------------------------ MODULE Keyboard ------------------------------
(***************************************************************************)
(* From scan codes to calls of edit_buffer and switch_screen: the dispatch *)
(* of keyboard_handler, the handlers of the modifier keys, typing_handler  *)
(* and its four tables (keyboard.c).  What the two calls do is in          *)
(* TerminalInput, Screen and Paging.                                       *)
(*                                                                         *)
(* A key sends its code when it goes down, and again while it is held, and *)
(* its code + 128 when it goes up.  Keys of the extended block send 0xE0   *)
(* first, to the handler a code like any other: the right Ctrl and Alt are *)
(* to it the left ones, and the Shift codes that a keyboard itself puts    *)
(* around an extended key are Shifts.  A character is a string of its own; *)
(* of the bytes that are none, those that somebody looks for have the name *)
(* of their constant.                                                      *)
(***************************************************************************)
EXTENDS Integers, Sequences, FiniteSets

CONSTANT OtherCodes   \* codes beyond the tables that the keyboard sends, no modifier's

VARIABLES
  shift_held, caps_locked_activated, caps_lock_held, ctrl_held, alt_held,
  code,     \* the last code that came
  calls,    \* the calls the handler made for it
  down,     \* the modifier keys that are down
  toggled,  \* Caps Lock has gone down an odd number of times
  lifted,   \* the pairs of which one went up under the other, and none down since
  faked     \* what the keyboard itself has said of Shift since a Shift key moved

flags == <<shift_held, caps_locked_activated, caps_lock_held, ctrl_held, alt_held>>
keys == <<down, toggled, lifted, faked>>
vars == <<flags, code, calls, keys>>

CAPS_LOCK_PRESSED == 58
LEFT_SHIFT_PRESSED == 42
RIGHT_SHIFT_PRESSED == 54
LEFT_CTL_PRESSED == 29
ALT_PRESSED == 56
BACKSPACE_PRESSED == 14
ENTER_PRESSED == 28
TAB_PRESSED == 15
F1_PRESSED == 187
Released(key) == key + 128

\* A key of the extended block and the code it sends after 0xE0.
Extended(c) == c + 256
Code(key) == IF key > 255 THEN key - 256 ELSE key

Shifts == {LEFT_SHIFT_PRESSED, RIGHT_SHIFT_PRESSED}
Ctrls == {LEFT_CTL_PRESSED, Extended(LEFT_CTL_PRESSED)}
Alts == {ALT_PRESSED, Extended(ALT_PRESSED)}
Pairs == {Shifts, Ctrls, Alts}
ShiftCodes == Shifts \cup {Released(k) : k \in Shifts}

Modifiers == Shifts \cup Ctrls \cup Alts \cup {CAPS_LOCK_PRESSED}
EditingKeys == {BACKSPACE_PRESSED, ENTER_PRESSED, TAB_PRESSED}
SCAN_CODE_MAP_SIZE == 59
TypedKeys == (0 .. SCAN_CODE_MAP_SIZE - 1) \ (Modifiers \cup EditingKeys)
ModifierCodes == {Code(k) : k \in Modifiers} \cup {Released(Code(k)) : k \in Modifiers}

ASSUME CodesAssumption == OtherCodes \subseteq (59 .. 255) \ ModifierCodes

-----------------------------------------------------------------------------
(***************************************************************************)
(* The tables, each in the rows of a keyboard: the digits from code 2, the *)
(* letters from 16, 30 and 44.  NUL is the code 0, which is not typed.     *)
(***************************************************************************)
NUL == "NUL"
NEW_LINE_ASCII == "newline"

ScanTable(digits, upper, middle, lower) ==
  <<NUL, NUL>> \o digits \o <<NUL, NUL>> \o upper \o <<NEW_LINE_ASCII, NUL>> \o middle
    \o lower \o <<NUL, "*", NUL, "space", NUL>>

default_scan_code_data ==
  ScanTable(<<"1", "2", "3", "4", "5", "6", "7", "8", "9", "0", "-", "=">>,
            <<"q", "w", "e", "r", "t", "y", "u", "i", "o", "p", "[", "]">>,
            <<"a", "s", "d", "f", "g", "h", "j", "k", "l", "semicolon", "'", "backtick">>,
            <<NUL, "\\", "z", "x", "c", "v", "b", "n", "m", "comma", ".", "/">>)

caps_lock_scan_data ==
  ScanTable(<<"1", "2", "3", "4", "5", "6", "7", "8", "9", "0", "-", "=">>,
            <<"Q", "W", "E", "R", "T", "Y", "U", "I", "O", "P", "[", "]">>,
            <<"A", "S", "D", "F", "G", "H", "J", "K", "L", "semicolon", "'", "backtick">>,
            <<NUL, "\\", "Z", "X", "C", "V", "B", "N", "M", "comma", ".", "/">>)

shift_key_scan_data ==
  ScanTable(<<"!", "@", "#", "$", "%", "^", "&", "*", "(", ")", "underscore", "+">>,
            <<"Q", "W", "E", "R", "T", "Y", "U", "I", "O", "P", "lbrace", "rbrace">>,
            <<"A", "S", "D", "F", "G", "H", "J", "K", "L", ":", "quote", "~">>,
            <<NUL, "|", "Z", "X", "C", "V", "B", "N", "M", "<", ">", "?">>)

shift_and_caps_data ==
  ScanTable(<<"!", "@", "#", "$", "%", "^", "&", "*", "(", ")", "underscore", "+">>,
            <<"q", "w", "e", "r", "t", "y", "u", "i", "o", "p", "lbrace", "rbrace">>,
            <<"a", "s", "d", "f", "g", "h", "j", "k", "l", ":", "quote", "~">>,
            <<NUL, "|", "z", "x", "c", "v", "b", "n", "m", "<", ">", "?">>)

-----------------------------------------------------------------------------
(***************************************************************************)
(* The handlers.  Each gives the new flags and the calls.                  *)
(***************************************************************************)
Edit(c) == <<"edit_buffer", c>>
Switch(terminal) == <<"switch_screen", terminal>>

NoCall == calls' = <<>>

\* Mutant of caps_lock_handler: a code sent again counts again.
caps_lock_handler_Repeats(response) ==
  /\ caps_lock_held' = (response = CAPS_LOCK_PRESSED)
  /\ caps_locked_activated' =
       IF response = CAPS_LOCK_PRESSED THEN ~caps_locked_activated ELSE caps_locked_activated
  /\ NoCall
  /\ UNCHANGED <<shift_held, ctrl_held, alt_held>>

caps_lock_handler(response) ==
  /\ caps_lock_held' = (response = CAPS_LOCK_PRESSED)
  /\ caps_locked_activated' =
       IF response = CAPS_LOCK_PRESSED /\ ~caps_lock_held
         THEN ~caps_locked_activated
         ELSE caps_locked_activated
  /\ NoCall
  /\ UNCHANGED <<shift_held, ctrl_held, alt_held>>

shift_key_handler(response) ==
  /\ shift_held' = (response = LEFT_SHIFT_PRESSED \/ response = RIGHT_SHIFT_PRESSED)
  /\ NoCall
  /\ UNCHANGED <<caps_locked_activated, caps_lock_held, ctrl_held, alt_held>>

\* Also called with the character of a key typed while Ctrl is held.
ctrl_key_handler(response) ==
  /\ ctrl_held' = CASE response = "LEFT_CTL_PRESSED" -> TRUE
                    [] response = "LEFT_CTL_RELEASED" -> FALSE
                    [] OTHER -> ctrl_held
  /\ calls' = IF response \in {"l", "L"} THEN <<Edit("CTL_L_CMD")>> ELSE <<>>
  /\ UNCHANGED <<shift_held, caps_locked_activated, caps_lock_held, alt_held>>

FunctionKeys == <<F1_PRESSED, F1_PRESSED + 1, F1_PRESSED + 2>>

\* Also called with a code that arrives while Alt is held.
alt_key_handler(response) ==
  /\ alt_held' = (response = ALT_PRESSED \/ (alt_held /\ response # Released(ALT_PRESSED)))
  /\ calls' = [n \in 1 .. Cardinality({k \in 1 .. 3 : FunctionKeys[k] = response}) |->
                Switch(CHOOSE t \in 0 .. 2 : FunctionKeys[t + 1] = response)]
  /\ UNCHANGED <<shift_held, caps_locked_activated, caps_lock_held, ctrl_held>>

\* Mutant of Table: Shift alone decides.
Table_ShiftFirst ==
  IF shift_held THEN shift_key_scan_data
  ELSE IF caps_locked_activated THEN caps_lock_scan_data ELSE default_scan_code_data

Table ==
  CASE caps_locked_activated /\ ~shift_held -> caps_lock_scan_data
    [] shift_held /\ ~caps_locked_activated -> shift_key_scan_data
    [] shift_held /\ caps_locked_activated -> shift_and_caps_data
    [] OTHER -> default_scan_code_data

\* What printed_char may hold: beyond the tables it is never written, and may
\* be any byte, those that ctrl_key_handler and edit_buffer look for included.
PrintedChars(response) ==
  IF response < SCAN_CODE_MAP_SIZE
    THEN {Table[response + 1]}
    ELSE {NUL, "x", "l", "LEFT_CTL_PRESSED", "LEFT_CTL_RELEASED",
          "BACKSPACE_PRESSED", "ENTER_PRESSED", "CTL_L_CMD"}

typing_handler(response) ==
  \E printed_char \in PrintedChars(response) :
    \/ ctrl_held /\ ctrl_key_handler(printed_char)
    \/ ~ctrl_held /\ alt_held /\ alt_key_handler(response)
    \/ /\ ~ctrl_held /\ ~alt_held
       /\ calls' = IF printed_char = NUL THEN <<>> ELSE <<Edit(printed_char)>>
       /\ UNCHANGED flags

edits(response) ==
  /\ calls' = CASE response = BACKSPACE_PRESSED -> <<Edit("BACKSPACE_PRESSED")>>
                [] response = ENTER_PRESSED -> <<Edit("ENTER_PRESSED")>>
                [] response = TAB_PRESSED -> [i \in 1 .. 4 |-> Edit("space")]
  /\ UNCHANGED flags

keyboard_handler(response) ==
  CASE response \in {CAPS_LOCK_PRESSED, Released(CAPS_LOCK_PRESSED)} -> caps_lock_handler(response)
    [] response \in ShiftCodes -> shift_key_handler(response)
    [] response = LEFT_CTL_PRESSED -> ctrl_key_handler("LEFT_CTL_PRESSED")
    [] response = Released(LEFT_CTL_PRESSED) -> ctrl_key_handler("LEFT_CTL_RELEASED")
    [] response \in {ALT_PRESSED, Released(ALT_PRESSED)} -> alt_key_handler(response)
    [] response \in EditingKeys -> edits(response)
    [] OTHER -> typing_handler(response)

-----------------------------------------------------------------------------
(***************************************************************************)
(* The keyboard, with the user at it.  Its buffer keeps the order, and the *)
(* handler finishes one code before the controller passes on the next.     *)
(* The 0xE0 before a code may come or not, as it changes no flag of theirs *)
(* but, by an uninitialised byte, that of Ctrl.                            *)
(***************************************************************************)
Init ==
  /\ shift_held = FALSE /\ caps_locked_activated = FALSE /\ caps_lock_held = FALSE
  /\ ctrl_held = FALSE /\ alt_held = FALSE
  /\ code = 0 /\ calls = <<>>
  /\ down = {} /\ toggled = FALSE /\ lifted = {} /\ faked = "nothing"

Sends(response) == code' = response /\ keyboard_handler(response)

\* What was said of Shift holds until a key of the pair moves.
StillFaked(key) == faked' = IF key \in Shifts THEN "nothing" ELSE faked

ModifierDown(key) ==
  /\ Sends(Code(key))
  /\ down' = down \cup {key}
  /\ toggled' = IF key = CAPS_LOCK_PRESSED /\ key \notin down THEN ~toggled ELSE toggled
  /\ lifted' = {pair \in lifted : key \notin pair}
  /\ StillFaked(key)

ModifierUp(key) ==
  /\ key \in down
  /\ Sends(Released(Code(key)))
  /\ down' = down \ {key}
  /\ lifted' = {pair \in lifted : key \notin pair}
                \cup {pair \in Pairs : key \in pair /\ pair \subseteq down}
  /\ StillFaked(key)
  /\ UNCHANGED toggled

\* The keyboard's own Shift, around a key of the extended block.
FakeShift(response) ==
  /\ Sends(response)
  /\ faked' = IF response \in Shifts THEN "pressed" ELSE "released"
  /\ UNCHANGED <<down, toggled, lifted>>

OtherCode(response) == Sends(response) /\ UNCHANGED keys

Next ==
  \/ \E key \in Modifiers : ModifierDown(key) \/ ModifierUp(key)
  \/ \E response \in ShiftCodes : FakeShift(response)
  \/ \E response \in TypedKeys \cup EditingKeys \cup OtherCodes : OtherCode(response)

Spec == Init /\ [][Next]_vars

-----------------------------------------------------------------------------
(***************************************************************************)
(* Properties.                                                             *)
(***************************************************************************)

\* The type invariant.
TypeOK ==
  /\ shift_held \in BOOLEAN /\ caps_locked_activated \in BOOLEAN
  /\ caps_lock_held \in BOOLEAN /\ ctrl_held \in BOOLEAN /\ alt_held \in BOOLEAN
  /\ down \subseteq Modifiers /\ toggled \in BOOLEAN /\ lifted \subseteq Pairs
  /\ faked \in {"nothing", "pressed", "released"}

(***************************************************************************)
(* The flags follow the keys: no modifier outlives its keys, Caps Lock is  *)
(* on after an odd number of presses however long each was held, Alt and   *)
(* Shift are seen as long as a key of the pair is down, unless the other   *)
(* has gone up since, and Shift is what the keyboard itself has said of it *)
(* since.  (Ctrl may be lost to an uninitialised byte.)                    *)
(***************************************************************************)
Held(pair) == down \cap pair # {} /\ pair \notin lifted
Shifted == faked = "pressed" \/ (faked = "nothing" /\ Held(Shifts))
ModifiersFollowKeys ==
  /\ ctrl_held => Held(Ctrls)
  /\ alt_held <=> Held(Alts)
  /\ caps_lock_held <=> CAPS_LOCK_PRESSED \in down
  /\ caps_locked_activated <=> toggled
  /\ shift_held <=> Shifted

-----------------------------------------------------------------------------
(***************************************************************************)
(* What is printed on the keys: capitals with Shift or Caps Lock but not   *)
(* both, the upper sign with Shift.                                        *)
(***************************************************************************)
Letters == <<"q", "w", "e", "r", "t", "y", "u", "i", "o", "p", "a", "s", "d", "f", "g", "h",
             "j", "k", "l", "z", "x", "c", "v", "b", "n", "m">>
Capitals == <<"Q", "W", "E", "R", "T", "Y", "U", "I", "O", "P", "A", "S", "D", "F", "G", "H",
              "J", "K", "L", "Z", "X", "C", "V", "B", "N", "M">>
Signs == <<"1", "2", "3", "4", "5", "6", "7", "8", "9", "0", "-", "=", "[", "]", "semicolon", "'",
           "backtick", "\\", "comma", ".", "/">>
UpperSigns == <<"!", "@", "#", "$", "%", "^", "&", "*", "(", ")", "underscore", "+", "lbrace",
                "rbrace", ":", "quote", "~", "|", "<", ">", "?">>

Shown(c, shifted, locked) ==
  CASE \E n \in DOMAIN Letters : Letters[n] = c ->
         IF shifted = locked THEN c ELSE Capitals[CHOOSE n \in DOMAIN Letters : Letters[n] = c]
    [] \E n \in DOMAIN Signs : Signs[n] = c ->
         IF shifted THEN UpperSigns[CHOOSE n \in DOMAIN Signs : Signs[n] = c] ELSE c
    [] OTHER -> c

(***************************************************************************)
(* A key of the tables adds the character that stands on it under the      *)
(* present Shift and Caps Lock; with Ctrl only L does something, with Alt  *)
(* and no Ctrl no such key does.  (None of them changes a flag.)           *)
(***************************************************************************)
Meant(c) ==
  CASE ctrl_held -> IF c = "l" THEN <<Edit("CTL_L_CMD")>> ELSE <<>>
    [] ~ctrl_held /\ (Held(Alts) \/ c = NUL) -> <<>>
    [] OTHER -> <<Edit(Shown(c, Shifted, toggled))>>
KeysTypeWhatTheyShow == code \in TypedKeys => calls = Meant(default_scan_code_data[code + 1])
=============================================================================
