--------------------------- MODULE Keyboard_proofs ---------------------------
(***************************************************************************)
(* For all codes the keyboard may send: the flags of the modifier keys     *)
(* follow the keys, and a key types what stands on it.  The first is       *)
(* inductive together with the types; one lemma per handler says what      *)
(* becomes of the flags.  The second follows from it, once the four tables *)
(* have been compared with the keys row by row.                            *)
(***************************************************************************)
EXTENDS Keyboard, FiniteSetTheorems, TLAPS

KeyboardInv == TypeOK /\ ModifiersFollowKeys

(***************************************************************************)
(* The flags after each handler, and the history after each modifier key,  *)
(* as truth values.                                                        *)
(***************************************************************************)
LEMMA CapsLockFlags ==
  ASSUME TypeOK, NEW response, caps_lock_handler(response)
  PROVE  /\ caps_lock_held' \in BOOLEAN /\ caps_locked_activated' \in BOOLEAN
         /\ caps_lock_held' <=> response = CAPS_LOCK_PRESSED
         /\ caps_locked_activated' <=>
              IF response = CAPS_LOCK_PRESSED /\ ~caps_lock_held
                THEN ~caps_locked_activated
                ELSE caps_locked_activated
         /\ UNCHANGED <<shift_held, ctrl_held, alt_held>>
BY Zenon DEF caps_lock_handler, TypeOK

LEMMA ShiftFlags ==
  ASSUME TypeOK, NEW response, shift_key_handler(response)
  PROVE  /\ shift_held' \in BOOLEAN
         /\ shift_held' <=> response \in Shifts
         /\ UNCHANGED <<caps_locked_activated, caps_lock_held, ctrl_held, alt_held>>
BY Zenon DEF shift_key_handler, Shifts

LEMMA CtrlFlags ==
  ASSUME TypeOK, NEW response, ctrl_key_handler(response)
  PROVE  /\ ctrl_held' \in BOOLEAN
         /\ response = "LEFT_CTL_RELEASED" => ~ctrl_held'
         /\ ctrl_held => (ctrl_held' <=> response # "LEFT_CTL_RELEASED")
         /\ UNCHANGED <<shift_held, caps_locked_activated, caps_lock_held, alt_held>>
<1>1. ctrl_held \in BOOLEAN
  BY DEF TypeOK
<1>2. ctrl_held' = CASE response = "LEFT_CTL_PRESSED" -> TRUE
                     [] response = "LEFT_CTL_RELEASED" -> FALSE
                     [] OTHER -> ctrl_held
  BY Zenon DEF ctrl_key_handler
<1>3. UNCHANGED <<shift_held, caps_locked_activated, caps_lock_held, alt_held>>
  BY Zenon DEF ctrl_key_handler
<1>4. CASE response = "LEFT_CTL_RELEASED"
  BY <1>2, <1>3, <1>4, "LEFT_CTL_PRESSED" # "LEFT_CTL_RELEASED"
<1>5. CASE response # "LEFT_CTL_RELEASED"
  BY <1>1, <1>2, <1>3, <1>5
<1>. QED  BY <1>4, <1>5

LEMMA AltFlags ==
  ASSUME TypeOK, NEW response, alt_key_handler(response)
  PROVE  /\ alt_held' \in BOOLEAN
         /\ alt_held' <=> response = ALT_PRESSED \/ (alt_held /\ response # Released(ALT_PRESSED))
         /\ UNCHANGED <<shift_held, caps_locked_activated, caps_lock_held, ctrl_held>>
BY Zenon DEF alt_key_handler, TypeOK

LEMMA DownHistory ==
  ASSUME TypeOK, NEW key \in Modifiers, ModifierDown(key)
  PROVE  /\ down' = down \cup {key} /\ down' \subseteq Modifiers
         /\ toggled' \in BOOLEAN
         /\ toggled' <=> IF key = CAPS_LOCK_PRESSED /\ key \notin down THEN ~toggled ELSE toggled
         /\ lifted' \subseteq Pairs
         /\ \A pair \in Pairs : Held(pair)' <=> key \in pair \/ Held(pair)
<1>1. down' = down \cup {key} /\ lifted' = {pair \in lifted : key \notin pair}
  BY Zenon DEF ModifierDown
<1>2. /\ toggled' \in BOOLEAN
      /\ toggled' <=> IF key = CAPS_LOCK_PRESSED /\ key \notin down THEN ~toggled ELSE toggled
  BY Zenon DEF ModifierDown, TypeOK
<1>3. \A pair \in Pairs : Held(pair)' <=> key \in pair \/ Held(pair)
  BY <1>1 DEF Held
<1>. QED  BY <1>1, <1>2, <1>3 DEF TypeOK

LEMMA UpHistory ==
  ASSUME TypeOK, NEW key \in Modifiers, ModifierUp(key)
  PROVE  /\ key \in down /\ down' = down \ {key} /\ down' \subseteq Modifiers
         /\ toggled' = toggled
         /\ lifted' \subseteq Pairs
         /\ \A pair \in Pairs : Held(pair)' <=> key \notin pair /\ Held(pair)
<1>1. /\ key \in down /\ down' = down \ {key} /\ toggled' = toggled
      /\ lifted' = {pair \in lifted : key \notin pair}
                     \cup {pair \in Pairs : key \in pair /\ pair \subseteq down}
  BY Zenon DEF ModifierUp
<1>2. ASSUME NEW pair \in Pairs PROVE Held(pair)' <=> key \notin pair /\ Held(pair)
  <2>1. CASE key \notin pair
    BY <1>1, <2>1 DEF Held
  <2>2. CASE key \in pair
    <3>1. PICK k1, k2 : pair = {k1, k2}
      BY DEF Pairs, Shifts, Ctrls, Alts
    <3>. QED  BY <1>1, <2>2, <3>1 DEF Held
  <2>. QED  BY <2>1, <2>2
<1>. QED  BY <1>1, <1>2 DEF TypeOK

-----------------------------------------------------------------------------
(***************************************************************************)
(* The tables.  A table is put together from pieces; Exactly, rather than  *)
(* an equation with a numeral, keeps their domains from being enumerated.  *)
(***************************************************************************)
Exactly(a, b) == a <= b /\ b <= a

\* The n elements of s stand in q behind the first few.
StandsIn(s, n, q, first) == \A k \in Int : 1 <= k /\ k <= n => q[first + k] = s[k]

IsPiece(s, n) == Exactly(Len(s), n) /\ s \in Seq({s[i] : i \in 1 .. n})

LEMMA Joined ==
  ASSUME NEW X, NEW s \in Seq(X), NEW t \in Seq(X), NEW q, q = s \o t
  PROVE  /\ q \in Seq(X) /\ Len(q) = Len(s) + Len(t)
         /\ StandsIn(s, Len(s), q, 0)
         /\ StandsIn(t, Len(t), q, Len(s))
BY DEF StandsIn

\* The four rows of a table and what stands between them.
HasRows(tab, d, u, m, l) ==
  /\ \A i \in Int : 1 <= i /\ i <= 12 => /\ tab[i + 2] = d[i] /\ tab[i + 16] = u[i]
                                         /\ tab[i + 30] = m[i] /\ tab[i + 42] = l[i]
  /\ tab[1] = NUL /\ tab[2] = NUL /\ tab[56] = "*" /\ tab[58] = "space"

LEMMA TableAt ==
  ASSUME NEW d, IsPiece(d, 12), NEW u, IsPiece(u, 12), NEW m, IsPiece(m, 12),
         NEW l, IsPiece(l, 12), NEW tab, tab = ScanTable(d, u, m, l)
  PROVE  HasRows(tab, d, u, m, l)
<1>. DEFINE two == <<NUL, NUL>>
            enter == <<NEW_LINE_ASCII, NUL>>
            end == <<NUL, "*", NUL, "space", NUL>>
            Of(s, n) == {s[k] : k \in 1 .. n}
            X == Of(d, 12) \cup Of(u, 12) \cup Of(m, 12) \cup Of(l, 12)
                   \cup {NUL, NEW_LINE_ASCII, "*", "space"}
<1>2. /\ two[1] = NUL /\ two[2] = NUL /\ enter[2] = NUL
      /\ end[1] = NUL /\ end[2] = "*" /\ end[3] = NUL /\ end[4] = "space" /\ end[5] = NUL
  OBVIOUS
<1>3. two \in Seq(X) /\ enter \in Seq(X) /\ end \in Seq(X)
  OBVIOUS
<1>4. /\ Exactly(Len(two), 2) /\ Exactly(Len(enter), 2) /\ Exactly(Len(end), 5)
      /\ Exactly(Len(d), 12) /\ Exactly(Len(u), 12) /\ Exactly(Len(m), 12) /\ Exactly(Len(l), 12)
  BY DEF Exactly, IsPiece
<1>5. d \in Seq(X) /\ u \in Seq(X) /\ m \in Seq(X) /\ l \in Seq(X)
  BY DEF IsPiece
<1>. HIDE DEF two, enter, end, X
<1>. DEFINE t1 == two \o d
<1>6. /\ t1 \in Seq(X) /\ Exactly(Len(t1), 14)
      /\ StandsIn(two, 2, t1, 0)
      /\ StandsIn(d, 12, t1, 2)
  BY <1>3, <1>4, <1>5, Joined DEF Exactly, StandsIn
<1>. HIDE DEF t1
<1>. DEFINE t2 == t1 \o two
<1>7. /\ t2 \in Seq(X) /\ Exactly(Len(t2), 16)
      /\ StandsIn(t1, 14, t2, 0)
      /\ StandsIn(two, 2, t2, 14)
  <2>1. /\ t2 \in Seq(X) /\ Len(t2) = Len(t1) + Len(two)
        /\ StandsIn(t1, Len(t1), t2, 0) /\ StandsIn(two, Len(two), t2, Len(t1))
    BY <1>3, <1>6, Joined
  <2>2. Exactly(Len(t2), 16) /\ StandsIn(t1, 14, t2, 0)
    BY <2>1, <1>4, <1>6 DEF Exactly, StandsIn
  <2>3. ASSUME NEW k \in Int, 1 <= k, k <= 2 PROVE t2[14 + k] = two[k]
    <3>1. t2[Len(t1) + k] = two[k]
      BY <2>1, <2>3, <1>4 DEF Exactly, StandsIn
    <3>2. Len(t1) + k = 14 + k
      BY <1>3, <1>6 DEF Exactly
    <3>. QED  BY <3>1, <3>2
  <2>. QED  BY <2>1, <2>2, <2>3 DEF StandsIn
<1>. HIDE DEF t2
<1>. DEFINE t3 == t2 \o u
<1>8. /\ t3 \in Seq(X) /\ Exactly(Len(t3), 28)
      /\ StandsIn(t2, 16, t3, 0)
      /\ StandsIn(u, 12, t3, 16)
  BY <1>4, <1>5, <1>7, Joined DEF Exactly, StandsIn
<1>. HIDE DEF t3
<1>. DEFINE t4 == t3 \o enter
<1>9. /\ t4 \in Seq(X) /\ Exactly(Len(t4), 30)
      /\ StandsIn(t3, 28, t4, 0)
      /\ StandsIn(enter, 2, t4, 28)
  BY <1>3, <1>4, <1>8, Joined DEF Exactly, StandsIn
<1>. HIDE DEF t4
<1>. DEFINE t5 == t4 \o m
<1>10. /\ t5 \in Seq(X) /\ Exactly(Len(t5), 42)
       /\ StandsIn(t4, 30, t5, 0)
       /\ StandsIn(m, 12, t5, 30)
  BY <1>4, <1>5, <1>9, Joined DEF Exactly, StandsIn
<1>. HIDE DEF t5
<1>. DEFINE t6 == t5 \o l
<1>11. /\ t6 \in Seq(X) /\ Exactly(Len(t6), 54)
       /\ StandsIn(t5, 42, t6, 0)
       /\ StandsIn(l, 12, t6, 42)
  BY <1>4, <1>5, <1>10, Joined DEF Exactly, StandsIn
<1>. HIDE DEF t6
<1>. DEFINE t7 == t6 \o end
<1>12. /\ StandsIn(t6, 54, t7, 0)
       /\ StandsIn(end, 5, t7, 54)
  BY <1>3, <1>4, <1>11, Joined DEF Exactly, StandsIn
<1>. HIDE DEF t7
<1>1. t7 = tab
  BY DEF ScanTable, t1, t2, t3, t4, t5, t6, t7, two, enter, end
<1>13. ASSUME NEW i \in Int, 1 <= i, i <= 12
       PROVE  /\ tab[i + 2] = d[i] /\ tab[i + 16] = u[i]
              /\ tab[i + 30] = m[i] /\ tab[i + 42] = l[i]
  <2>1. t7[i + 42] = l[i]
    BY <1>11, <1>12, <1>13 DEF StandsIn
  <2>2. t7[i + 30] = m[i]
    BY <1>10, <1>11, <1>12, <1>13 DEF StandsIn
  <2>3. t7[i + 16] = u[i]
    BY <1>8, <1>9, <1>10, <1>11, <1>12, <1>13 DEF StandsIn
  <2>4. t7[i + 2] = d[i]
    BY <1>6, <1>7, <1>8, <1>9, <1>10, <1>11, <1>12, <1>13 DEF StandsIn
  <2>. QED  BY <1>1, <2>1, <2>2, <2>3, <2>4
<1>14. ASSUME NEW i \in Int, 1 <= i, i <= 16 PROVE t7[i] = t2[i]
  BY <1>8, <1>9, <1>10, <1>11, <1>12, <1>14 DEF StandsIn
<1>15. t7[1] = NUL /\ t7[2] = NUL
  <2>1. t2[1] = NUL /\ t2[2] = NUL
    BY <1>2, <1>6, <1>7 DEF StandsIn
  <2>. QED  BY <2>1, <1>14
<1>16. t7[56] = "*" /\ t7[58] = "space"
  BY <1>2, <1>12 DEF StandsIn
<1>. QED  BY <1>1, <1>13, <1>15, <1>16 DEF HasRows

(***************************************************************************)
(* What stands on the keys: a letter and its capital, or two signs.        *)
(***************************************************************************)
LEMMA LetterShown ==
  ASSUME NEW n \in 1 .. 26
  PROVE  /\ Shown(Letters[n], FALSE, FALSE) = Letters[n]
         /\ Shown(Letters[n], FALSE, TRUE) = Capitals[n]
         /\ Shown(Letters[n], TRUE, FALSE) = Capitals[n]
         /\ Shown(Letters[n], TRUE, TRUE) = Letters[n]
<1>1. DOMAIN Letters = 1 .. 26
  BY DEF Letters
<1>2. \A m \in 1 .. 26 : Letters[m] = Letters[n] => m = n
  BY DEF Letters
<1>3. (CHOOSE m \in DOMAIN Letters : Letters[m] = Letters[n]) = n
  BY <1>1, <1>2
<1>4. \E m \in DOMAIN Letters : Letters[m] = Letters[n]
  BY <1>1
<1>5. \A m \in DOMAIN Signs : Signs[m] # Letters[n]
  BY DEF Letters, Signs
<1>. QED  BY <1>3, <1>4, <1>5 DEF Shown

LEMMA SignShown ==
  ASSUME NEW n \in 1 .. 21, NEW locked
  PROVE  /\ Shown(Signs[n], FALSE, locked) = Signs[n]
         /\ Shown(Signs[n], TRUE, locked) = UpperSigns[n]
<1>1. DOMAIN Letters = 1 .. 26 /\ DOMAIN Signs = 1 .. 21
  BY DEF Letters, Signs
<1>2. \A m \in 1 .. 26 : Letters[m] # Signs[n]
  BY DEF Letters, Signs
<1>3. \A m \in 1 .. 21 : Signs[m] = Signs[n] => m = n
  BY DEF Signs
<1>. QED  BY <1>1, <1>2, <1>3 DEF Shown


(***************************************************************************)
(* One key in the four tables: plain, with Caps Lock, with Shift, with     *)
(* both.                                                                   *)
(***************************************************************************)
IsKey(plain, locked, shifted, both) ==
  \/ \E n \in 1 .. 26 : /\ plain = Letters[n] /\ both = Letters[n]
                        /\ locked = Capitals[n] /\ shifted = Capitals[n]
  \/ \E n \in 1 .. 21 : /\ plain = Signs[n] /\ locked = Signs[n]
                        /\ shifted = UpperSigns[n] /\ both = UpperSigns[n]
  \/ plain \in {NUL, "*", "space"} /\ locked = plain /\ shifted = plain /\ both = plain

LEMMA KeyShown ==
  ASSUME NEW c, NEW c1, NEW c2, NEW c3, IsKey(c, c1, c2, c3)
  PROVE  /\ c = Shown(c, FALSE, FALSE) /\ c1 = Shown(c, FALSE, TRUE)
         /\ c2 = Shown(c, TRUE, FALSE) /\ c3 = Shown(c, TRUE, TRUE)
<1>1. CASE \E n \in 1 .. 26 : /\ c = Letters[n] /\ c3 = Letters[n]
                              /\ c1 = Capitals[n] /\ c2 = Capitals[n]
  <2>. PICK n \in 1 .. 26 : c = Letters[n] /\ c3 = Letters[n] /\ c1 = Capitals[n] /\ c2 = Capitals[n]
    BY <1>1
  <2>. QED  BY LetterShown
<1>2. CASE \E n \in 1 .. 21 : /\ c = Signs[n] /\ c1 = Signs[n]
                              /\ c2 = UpperSigns[n] /\ c3 = UpperSigns[n]
  <2>. PICK n \in 1 .. 21 : c = Signs[n] /\ c1 = Signs[n] /\ c2 = UpperSigns[n] /\ c3 = UpperSigns[n]
    BY <1>2
  <2>. QED  BY SignShown
<1>3. CASE c \in {NUL, "*", "space"} /\ c1 = c /\ c2 = c /\ c3 = c
  <2>1. \A n \in DOMAIN Letters : Letters[n] # c
    BY <1>3 DEF Letters, NUL
  <2>2. \A n \in DOMAIN Signs : Signs[n] # c
    BY <1>3 DEF Signs, NUL
  <2>. QED  BY <1>3, <2>1, <2>2 DEF Shown
<1>. QED  BY <1>1, <1>2, <1>3 DEF IsKey

\* What the handlers compare a character of the tables with.
LEMMA KeyCompared ==
  ASSUME NEW c, NEW c1, NEW c2, NEW c3, IsKey(c, c1, c2, c3), NEW t \in {c, c1, c2, c3}
  PROVE  /\ (t = NUL) <=> (c = NUL)
         /\ (t \in {"l", "L"}) <=> (c = "l")
         /\ t # "LEFT_CTL_PRESSED" /\ t # "LEFT_CTL_RELEASED"
<1>1. CASE \E n \in 1 .. 26 : c = Letters[n] /\ t \in {Letters[n], Capitals[n]}
  BY <1>1 DEF Letters, Capitals, NUL
<1>2. CASE \E n \in 1 .. 21 : c = Signs[n] /\ t \in {Signs[n], UpperSigns[n]}
  BY <1>2 DEF Signs, UpperSigns, NUL
<1>3. CASE c \in {NUL, "*", "space"} /\ t = c
  BY <1>3 DEF NUL
<1>. QED  BY <1>1, <1>2, <1>3 DEF IsKey

LEMMA TablesShow ==
  ASSUME NEW k \in TypedKeys
  PROVE  /\ IsKey(default_scan_code_data[k + 1], caps_lock_scan_data[k + 1],
                  shift_key_scan_data[k + 1], shift_and_caps_data[k + 1])
         /\ default_scan_code_data[1] = NUL
<1>. DEFINE d0 == <<"1", "2", "3", "4", "5", "6", "7", "8", "9", "0", "-", "=">>
            d1 == <<"!", "@", "#", "$", "%", "^", "&", "*", "(", ")", "underscore", "+">>
            u0 == <<"q", "w", "e", "r", "t", "y", "u", "i", "o", "p", "[", "]">>
            u1 == <<"Q", "W", "E", "R", "T", "Y", "U", "I", "O", "P", "[", "]">>
            u2 == <<"Q", "W", "E", "R", "T", "Y", "U", "I", "O", "P", "lbrace", "rbrace">>
            u3 == <<"q", "w", "e", "r", "t", "y", "u", "i", "o", "p", "lbrace", "rbrace">>
            m0 == <<"a", "s", "d", "f", "g", "h", "j", "k", "l", "semicolon", "'", "backtick">>
            m1 == <<"A", "S", "D", "F", "G", "H", "J", "K", "L", "semicolon", "'", "backtick">>
            m2 == <<"A", "S", "D", "F", "G", "H", "J", "K", "L", ":", "quote", "~">>
            m3 == <<"a", "s", "d", "f", "g", "h", "j", "k", "l", ":", "quote", "~">>
            l0 == <<NUL, "\\", "z", "x", "c", "v", "b", "n", "m", "comma", ".", "/">>
            l1 == <<NUL, "\\", "Z", "X", "C", "V", "B", "N", "M", "comma", ".", "/">>
            l2 == <<NUL, "|", "Z", "X", "C", "V", "B", "N", "M", "<", ">", "?">>
            l3 == <<NUL, "|", "z", "x", "c", "v", "b", "n", "m", "<", ">", "?">>
<1>1. /\ default_scan_code_data = ScanTable(d0, u0, m0, l0)
      /\ caps_lock_scan_data = ScanTable(d0, u1, m1, l1)
      /\ shift_key_scan_data = ScanTable(d1, u2, m2, l2)
      /\ shift_and_caps_data = ScanTable(d1, u3, m3, l3)
  BY DEF default_scan_code_data, caps_lock_scan_data, shift_key_scan_data, shift_and_caps_data
<1>2. IsPiece(d0, 12) /\ IsPiece(d1, 12)
  BY DEF IsPiece, Exactly
<1>3. IsPiece(u0, 12) /\ IsPiece(u1, 12) /\ IsPiece(u2, 12) /\ IsPiece(u3, 12)
  BY DEF IsPiece, Exactly
<1>4. IsPiece(m0, 12) /\ IsPiece(m1, 12) /\ IsPiece(m2, 12) /\ IsPiece(m3, 12)
  BY DEF IsPiece, Exactly
<1>5. IsPiece(l0, 12) /\ IsPiece(l1, 12) /\ IsPiece(l2, 12) /\ IsPiece(l3, 12)
  BY DEF IsPiece, Exactly
<1>6. ASSUME NEW i \in 1 .. 12 PROVE IsKey(d0[i], d0[i], d1[i], d1[i])
  <2>1. d0[i] = Signs[i] /\ d1[i] = UpperSigns[i]
    BY DEF Signs, UpperSigns
  <2>. QED  BY <2>1 DEF IsKey
<1>7. ASSUME NEW i \in 1 .. 12 PROVE IsKey(u0[i], u1[i], u2[i], u3[i])
  <2>1. CASE i <= 10
    <3>1. u0[i] = Letters[i] /\ u1[i] = Capitals[i] /\ u2[i] = Capitals[i] /\ u3[i] = Letters[i]
      BY <2>1 DEF Letters, Capitals
    <3>. QED  BY <2>1, <3>1 DEF IsKey
  <2>2. CASE i > 10
    <3>1. /\ u0[i] = Signs[i + 2] /\ u1[i] = Signs[i + 2]
          /\ u2[i] = UpperSigns[i + 2] /\ u3[i] = UpperSigns[i + 2]
      BY <2>2 DEF Signs, UpperSigns
    <3>. QED  BY <2>2, <3>1 DEF IsKey
  <2>. QED  BY <2>1, <2>2
<1>8. ASSUME NEW i \in 1 .. 12 PROVE IsKey(m0[i], m1[i], m2[i], m3[i])
  <2>1. CASE i <= 9
    <3>1. /\ m0[i] = Letters[i + 10] /\ m1[i] = Capitals[i + 10]
          /\ m2[i] = Capitals[i + 10] /\ m3[i] = Letters[i + 10]
      BY <2>1 DEF Letters, Capitals
    <3>. QED  BY <2>1, <3>1 DEF IsKey
  <2>2. CASE i > 9
    <3>1. /\ m0[i] = Signs[i + 5] /\ m1[i] = Signs[i + 5]
          /\ m2[i] = UpperSigns[i + 5] /\ m3[i] = UpperSigns[i + 5]
      BY <2>2 DEF Signs, UpperSigns
    <3>. QED  BY <2>2, <3>1 DEF IsKey
  <2>. QED  BY <2>1, <2>2
<1>9. ASSUME NEW i \in 2 .. 12 PROVE IsKey(l0[i], l1[i], l2[i], l3[i])
  <2>1. CASE i = 2
    <3>1. l0[i] = Signs[18] /\ l1[i] = Signs[18] /\ l2[i] = UpperSigns[18] /\ l3[i] = UpperSigns[18]
      BY <2>1 DEF Signs, UpperSigns
    <3>. QED  BY <3>1 DEF IsKey
  <2>2. CASE 3 <= i /\ i <= 9
    <3>1. /\ l0[i] = Letters[i + 17] /\ l1[i] = Capitals[i + 17]
          /\ l2[i] = Capitals[i + 17] /\ l3[i] = Letters[i + 17]
      BY <2>2 DEF Letters, Capitals
    <3>. QED  BY <2>2, <3>1 DEF IsKey
  <2>3. CASE i > 9
    <3>1. /\ l0[i] = Signs[i + 9] /\ l1[i] = Signs[i + 9]
          /\ l2[i] = UpperSigns[i + 9] /\ l3[i] = UpperSigns[i + 9]
      BY <2>3 DEF Signs, UpperSigns
    <3>. QED  BY <2>3, <3>1 DEF IsKey
  <2>. QED  BY <2>1, <2>2, <2>3
<1>. HIDE DEF d0, d1, u0, u1, u2, u3, m0, m1, m2, m3, l0, l1, l2, l3
<1>. DEFINE t0 == default_scan_code_data
            t1 == caps_lock_scan_data
            t2 == shift_key_scan_data
            t3 == shift_and_caps_data
            KeyAt(n) == IsKey(t0[n], t1[n], t2[n], t3[n])
<1>10. /\ HasRows(t0, d0, u0, m0, l0) /\ HasRows(t1, d0, u1, m1, l1)
       /\ HasRows(t2, d1, u2, m2, l2) /\ HasRows(t3, d1, u3, m3, l3)
  <2>1. HasRows(t0, d0, u0, m0, l0)
    <3>1. t0 = ScanTable(d0, u0, m0, l0)
      BY <1>1
    <3>2. IsPiece(d0, 12) /\ IsPiece(u0, 12) /\ IsPiece(m0, 12) /\ IsPiece(l0, 12)
      BY <1>2, <1>3, <1>4, <1>5
    <3>. QED  BY <3>1, <3>2, TableAt
  <2>2. HasRows(t1, d0, u1, m1, l1)
    <3>1. t1 = ScanTable(d0, u1, m1, l1)
      BY <1>1
    <3>2. IsPiece(d0, 12) /\ IsPiece(u1, 12) /\ IsPiece(m1, 12) /\ IsPiece(l1, 12)
      BY <1>2, <1>3, <1>4, <1>5
    <3>. QED  BY <3>1, <3>2, TableAt
  <2>3. HasRows(t2, d1, u2, m2, l2)
    <3>1. t2 = ScanTable(d1, u2, m2, l2)
      BY <1>1
    <3>2. IsPiece(d1, 12) /\ IsPiece(u2, 12) /\ IsPiece(m2, 12) /\ IsPiece(l2, 12)
      BY <1>2, <1>3, <1>4, <1>5
    <3>. QED  BY <3>1, <3>2, TableAt
  <2>4. HasRows(t3, d1, u3, m3, l3)
    <3>1. t3 = ScanTable(d1, u3, m3, l3)
      BY <1>1
    <3>2. IsPiece(d1, 12) /\ IsPiece(u3, 12) /\ IsPiece(m3, 12) /\ IsPiece(l3, 12)
      BY <1>2, <1>3, <1>4, <1>5
    <3>. QED  BY <3>1, <3>2, TableAt
  <2>. QED  BY <2>1, <2>2, <2>3, <2>4
<1>11. ASSUME NEW i \in Int, 1 <= i, i <= 12
       PROVE  KeyAt(i + 2) /\ KeyAt(i + 16) /\ KeyAt(i + 30) /\ (i # 1 => KeyAt(i + 42))
  <2>1. /\ KeyAt(i + 2) = IsKey(d0[i], d0[i], d1[i], d1[i])
        /\ KeyAt(i + 16) = IsKey(u0[i], u1[i], u2[i], u3[i])
        /\ KeyAt(i + 30) = IsKey(m0[i], m1[i], m2[i], m3[i])
        /\ KeyAt(i + 42) = IsKey(l0[i], l1[i], l2[i], l3[i])
    BY <1>10, <1>11 DEF HasRows
  <2>2. i \in 1 .. 12 /\ (i # 1 => i \in 2 .. 12)
    BY <1>11
  <2>. QED  BY <2>1, <2>2, <1>6, <1>7, <1>8, <1>9
<1>12. KeyAt(1) /\ KeyAt(2) /\ KeyAt(56) /\ KeyAt(58)
  BY <1>10 DEF IsKey, HasRows
<1>13. \/ k + 1 \in {1, 2, 56, 58}
       \/ \E i \in 1 .. 12 : k + 1 \in {i + 2, i + 16, i + 30} \/ (i # 1 /\ k + 1 = i + 42)
  <2>0. k \in Int
    BY DEF TypedKeys, SCAN_CODE_MAP_SIZE
  <2>1. k + 1 \in 3 .. 14 => k - 1 \in 1 .. 12 /\ k + 1 = (k - 1) + 2
    BY <2>0
  <2>2. k + 1 \in 17 .. 28 => k - 15 \in 1 .. 12 /\ k + 1 = (k - 15) + 16
    BY <2>0
  <2>3. k + 1 \in 31 .. 42 => k - 29 \in 1 .. 12 /\ k + 1 = (k - 29) + 30
    BY <2>0
  <2>4. k + 1 \in 44 .. 54 => k - 41 \in 2 .. 12 /\ k + 1 = (k - 41) + 42
    BY <2>0
  <2>5. k + 1 \in {1, 2, 56, 58} \cup (3 .. 14) \cup (17 .. 28) \cup (31 .. 42) \cup (44 .. 54)
    BY DEF CAPS_LOCK_PRESSED, LEFT_SHIFT_PRESSED, RIGHT_SHIFT_PRESSED, LEFT_CTL_PRESSED,
         ALT_PRESSED, BACKSPACE_PRESSED, ENTER_PRESSED, TAB_PRESSED, Shifts, Ctrls, Alts, Extended,
         Modifiers, EditingKeys, SCAN_CODE_MAP_SIZE, TypedKeys
  <2>. QED  BY <2>1, <2>2, <2>3, <2>4, <2>5
<1>14. ASSUME k + 1 \in {1, 2, 56, 58} PROVE KeyAt(k + 1)
  BY <1>14, <1>12
<1>15. ASSUME NEW i \in 1 .. 12, k + 1 \in {i + 2, i + 16, i + 30} \/ (i # 1 /\ k + 1 = i + 42)
       PROVE  KeyAt(k + 1)
  BY <1>15, <1>11
<1>16. default_scan_code_data[1] = NUL
  BY <1>10 DEF HasRows
<1>17. KeyAt(k + 1)
  BY <1>13, <1>14, <1>15
<1>. QED  BY <1>16, <1>17

-----------------------------------------------------------------------------
\* The kinds of steps.
LEMMA StepCases ==
  [Next]_vars => \/ \E key \in Modifiers : ModifierDown(key)
                 \/ \E key \in Modifiers : ModifierUp(key)
                 \/ \E response \in ShiftCodes : FakeShift(response)
                 \/ \E response \in TypedKeys : OtherCode(response)
                 \/ \E response \in EditingKeys \cup OtherCodes : OtherCode(response)
                 \/ UNCHANGED vars
BY DEF Next

USE CodesAssumption DEF flags, keys, Released, NoCall, CAPS_LOCK_PRESSED, LEFT_SHIFT_PRESSED,
    RIGHT_SHIFT_PRESSED, LEFT_CTL_PRESSED, ALT_PRESSED, BACKSPACE_PRESSED, ENTER_PRESSED,
    TAB_PRESSED, Extended, Code, Shifts, Ctrls, Alts, ShiftCodes, Modifiers, EditingKeys,
    ModifierCodes, SCAN_CODE_MAP_SIZE, TypedKeys

(***************************************************************************)
(* Which handler a code goes to.                                           *)
(***************************************************************************)
LEMMA ModifierHandlers ==
  ASSUME NEW key \in Modifiers, NEW response \in {Code(key), Released(Code(key))},
         keyboard_handler(response)
  PROVE  /\ key = CAPS_LOCK_PRESSED => caps_lock_handler(response)
         /\ key \in Shifts => shift_key_handler(response)
         /\ key \in Ctrls => ctrl_key_handler(IF response = Code(key) THEN "LEFT_CTL_PRESSED"
                                              ELSE "LEFT_CTL_RELEASED")
         /\ key \in Alts => alt_key_handler(response)
<1>1. CASE key = CAPS_LOCK_PRESSED
  BY <1>1 DEF keyboard_handler
<1>2. CASE key \in Shifts
  BY <1>2 DEF keyboard_handler
<1>3. CASE key \in Ctrls
  BY <1>3 DEF keyboard_handler
<1>4. CASE key \in Alts
  BY <1>4 DEF keyboard_handler
<1>. QED  BY <1>1, <1>2, <1>3, <1>4

(***************************************************************************)
(* A key that is no modifier changes at most ctrl_held, and only from TRUE *)
(* to FALSE, by an uninitialised byte.                                     *)
(***************************************************************************)
LEMMA OtherHandlers ==
  ASSUME TypeOK, NEW response \in TypedKeys \cup EditingKeys \cup OtherCodes,
         keyboard_handler(response)
  PROVE  /\ UNCHANGED <<shift_held, caps_locked_activated, caps_lock_held, alt_held>>
         /\ ctrl_held' \in BOOLEAN
         /\ ctrl_held' => ctrl_held
<1>1. response \notin ModifierCodes
  OBVIOUS
<1>2. CASE response \in EditingKeys
  <2>1. edits(response)
    BY <1>1, <1>2 DEF keyboard_handler
  <2>. QED  BY <2>1 DEF edits, TypeOK
<1>3. CASE response \notin EditingKeys
  <2>1. typing_handler(response)
    BY <1>1, <1>3 DEF keyboard_handler
  <2>2. PICK printed_char \in PrintedChars(response) :
          \/ ctrl_held /\ ctrl_key_handler(printed_char)
          \/ ~ctrl_held /\ alt_held /\ alt_key_handler(response)
          \/ ~ctrl_held /\ ~alt_held /\ UNCHANGED flags
    BY <2>1 DEF typing_handler
  <2>3. CASE ctrl_held /\ ctrl_key_handler(printed_char)
    BY <2>3, CtrlFlags DEF TypeOK
  <2>4. CASE ~ctrl_held /\ alt_held /\ alt_key_handler(response)
    <3>1. /\ alt_held' \in BOOLEAN /\ (alt_held' <=> alt_held)
          /\ UNCHANGED <<shift_held, caps_locked_activated, caps_lock_held, ctrl_held>>
      <4>1. response # ALT_PRESSED /\ response # Released(ALT_PRESSED)
        BY <1>1
      <4>2. /\ alt_held' \in BOOLEAN
            /\ alt_held' <=> response = ALT_PRESSED \/ (alt_held /\ response # Released(ALT_PRESSED))
            /\ UNCHANGED <<shift_held, caps_locked_activated, caps_lock_held, ctrl_held>>
        BY ONLY TypeOK, <2>4, AltFlags
      <4>. QED  BY <4>1, <4>2
    <3>2. alt_held \in BOOLEAN /\ ctrl_held \in BOOLEAN
      BY DEF TypeOK
    <3>3. alt_held' = alt_held
      BY Zenon, <3>1, <3>2
    <3>. QED  BY <3>1, <3>2, <3>3
  <2>5. CASE ~ctrl_held /\ ~alt_held /\ UNCHANGED flags
    BY <2>5 DEF TypeOK
  <2>. QED  BY <2>2, <2>3, <2>4, <2>5
<1>. QED  BY <1>2, <1>3

(***************************************************************************)
(* The steps.                                                              *)
(***************************************************************************)
LEMMA ModifierDownStep ==
  ASSUME KeyboardInv, NEW key \in Modifiers, ModifierDown(key)
  PROVE  KeyboardInv'
<1>1. keyboard_handler(Code(key))
  BY DEF ModifierDown, Sends
<1>2. /\ key = CAPS_LOCK_PRESSED => caps_lock_handler(Code(key))
      /\ key \in Shifts => shift_key_handler(Code(key))
      /\ key \in Ctrls => ctrl_key_handler("LEFT_CTL_PRESSED")
      /\ key \in Alts => alt_key_handler(Code(key))
  BY <1>1, ModifierHandlers
<1>3. /\ TypeOK /\ ModifiersFollowKeys
      /\ Shifts \in Pairs /\ Ctrls \in Pairs /\ Alts \in Pairs
  BY DEF KeyboardInv, Pairs
<1>4. faked' = IF key \in Shifts THEN "nothing" ELSE faked
  BY DEF ModifierDown, StillFaked
<1>5. faked' \in {"nothing", "pressed", "released"}
  BY <1>3, <1>4 DEF TypeOK
<1>6. TypeOK'
  BY <1>2, <1>3, <1>5, CapsLockFlags, ShiftFlags, CtrlFlags, AltFlags, DownHistory DEF TypeOK
<1>7. ModifiersFollowKeys'
  <2>1. CASE key = CAPS_LOCK_PRESSED
    BY <1>2, <1>3, <1>4, <2>1, CapsLockFlags, DownHistory DEF TypeOK, ModifiersFollowKeys, Shifted
  <2>2. CASE key \in Shifts
    BY <1>2, <1>3, <1>4, <2>2, ShiftFlags, DownHistory DEF TypeOK, ModifiersFollowKeys, Shifted
  <2>3. CASE key \in Ctrls
    BY <1>2, <1>3, <1>4, <2>3, CtrlFlags, DownHistory DEF TypeOK, ModifiersFollowKeys, Shifted
  <2>4. CASE key \in Alts
    BY <1>2, <1>3, <1>4, <2>4, AltFlags, DownHistory DEF TypeOK, ModifiersFollowKeys, Shifted
  <2>. QED  BY <2>1, <2>2, <2>3, <2>4
<1>. QED  BY <1>6, <1>7 DEF KeyboardInv

LEMMA ModifierUpStep ==
  ASSUME KeyboardInv, NEW key \in Modifiers, ModifierUp(key)
  PROVE  KeyboardInv'
<1>1. keyboard_handler(Released(Code(key)))
  BY DEF ModifierUp, Sends
<1>2. /\ key = CAPS_LOCK_PRESSED => caps_lock_handler(Released(Code(key)))
      /\ key \in Shifts => shift_key_handler(Released(Code(key)))
      /\ key \in Ctrls => ctrl_key_handler("LEFT_CTL_RELEASED")
      /\ key \in Alts => alt_key_handler(Released(Code(key)))
  BY <1>1, ModifierHandlers
<1>3. /\ TypeOK /\ ModifiersFollowKeys
      /\ Shifts \in Pairs /\ Ctrls \in Pairs /\ Alts \in Pairs
  BY DEF KeyboardInv, Pairs
<1>4. faked' = IF key \in Shifts THEN "nothing" ELSE faked
  BY DEF ModifierUp, StillFaked
<1>5. faked' \in {"nothing", "pressed", "released"}
  BY <1>3, <1>4 DEF TypeOK
<1>6. TypeOK'
  BY <1>2, <1>3, <1>5, CapsLockFlags, ShiftFlags, CtrlFlags, AltFlags, UpHistory DEF TypeOK
<1>7. ModifiersFollowKeys'
  <2>1. CASE key = CAPS_LOCK_PRESSED
    BY <1>2, <1>3, <1>4, <2>1, CapsLockFlags, UpHistory DEF TypeOK, ModifiersFollowKeys, Shifted
  <2>2. CASE key \in Shifts
    BY <1>2, <1>3, <1>4, <2>2, ShiftFlags, UpHistory DEF TypeOK, ModifiersFollowKeys, Shifted
  <2>3. CASE key \in Ctrls
    BY <1>2, <1>3, <1>4, <2>3, CtrlFlags, UpHistory DEF TypeOK, ModifiersFollowKeys, Shifted
  <2>4. CASE key \in Alts
    BY <1>2, <1>3, <1>4, <2>4, AltFlags, UpHistory DEF TypeOK, ModifiersFollowKeys, Shifted
  <2>. QED  BY <2>1, <2>2, <2>3, <2>4
<1>. QED  BY <1>6, <1>7 DEF KeyboardInv

LEMMA FakeShiftStep ==
  ASSUME KeyboardInv, NEW response \in ShiftCodes, FakeShift(response)
  PROVE  KeyboardInv'
<1>1. keyboard_handler(response) /\ UNCHANGED <<down, toggled, lifted>>
  BY DEF FakeShift, Sends
<1>2. faked' = IF response \in Shifts THEN "pressed" ELSE "released"
  BY DEF FakeShift
<1>3. shift_key_handler(response)
  BY <1>1 DEF keyboard_handler
<1>4. TypeOK /\ ModifiersFollowKeys
  BY DEF KeyboardInv
<1>5. shift_held' <=> Shifted'
  BY <1>2, <1>3, <1>4, ShiftFlags DEF Shifted
<1>6. /\ shift_held' \in BOOLEAN
      /\ UNCHANGED <<caps_locked_activated, caps_lock_held, ctrl_held, alt_held>>
  BY <1>3, <1>4, ShiftFlags
<1>. QED  BY <1>1, <1>2, <1>4, <1>5, <1>6 DEF KeyboardInv, TypeOK, ModifiersFollowKeys, Held

LEMMA OtherCodeStep ==
  ASSUME KeyboardInv, NEW response \in TypedKeys \cup EditingKeys \cup OtherCodes,
         OtherCode(response)
  PROVE  KeyboardInv'
<1>1. TypeOK /\ ModifiersFollowKeys
  BY DEF KeyboardInv
<1>2. /\ UNCHANGED <<shift_held, caps_locked_activated, caps_lock_held, alt_held>>
      /\ ctrl_held' \in BOOLEAN
      /\ ctrl_held' => ctrl_held
  BY <1>1, OtherHandlers DEF OtherCode, Sends
<1>. QED  BY <1>1, <1>2 DEF KeyboardInv, TypeOK, ModifiersFollowKeys, Shifted, Held, OtherCode

LEMMA KeyboardInductive == KeyboardInv /\ [Next]_vars => KeyboardInv'
<1>. SUFFICES ASSUME KeyboardInv, [Next]_vars PROVE KeyboardInv'
  OBVIOUS
<1>1. ASSUME NEW key \in Modifiers, ModifierDown(key) PROVE KeyboardInv'
  BY <1>1, ModifierDownStep
<1>2. ASSUME NEW key \in Modifiers, ModifierUp(key) PROVE KeyboardInv'
  BY <1>2, ModifierUpStep
<1>3. ASSUME NEW response \in ShiftCodes, FakeShift(response) PROVE KeyboardInv'
  BY <1>3, FakeShiftStep
<1>4. ASSUME NEW response \in TypedKeys, OtherCode(response) PROVE KeyboardInv'
  BY <1>4, OtherCodeStep
<1>5. ASSUME NEW response \in EditingKeys \cup OtherCodes, OtherCode(response)
      PROVE  KeyboardInv'
  BY <1>5, OtherCodeStep
<1>6. CASE UNCHANGED vars
  BY <1>6 DEF vars, KeyboardInv, TypeOK, ModifiersFollowKeys, Shifted, Held
<1>. QED  BY ONLY [Next]_vars, <1>1, <1>2, <1>3, <1>4, <1>5, <1>6, StepCases

LEMMA KeyboardInvariance == Spec => []KeyboardInv
<1>1. Init => KeyboardInv
  BY DEF Init, KeyboardInv, TypeOK, ModifiersFollowKeys, Shifted, Held
<1>. QED  BY <1>1, KeyboardInductive, PTL DEF Spec

-----------------------------------------------------------------------------
(***************************************************************************)
(* However modifier keys are pressed, held and released in between other   *)
(* keys, the flags of keyboard.c say which of them are down, up to the     *)
(* cases the property names.                                               *)
(***************************************************************************)
THEOREM ModifiersTracked == Spec => []ModifiersFollowKeys
<1>1. KeyboardInv => ModifiersFollowKeys
  BY DEF KeyboardInv
<1>. QED  BY <1>1, KeyboardInvariance, PTL

-----------------------------------------------------------------------------
(***************************************************************************)
(* What a key of the tables does.                                          *)
(***************************************************************************)
Character(k) == default_scan_code_data[k + 1]

LEMMA TableShows ==
  ASSUME KeyboardInv, NEW k \in TypedKeys
  PROVE  /\ Table[k + 1] = Shown(Character(k), Shifted, toggled)
         /\ (Table[k + 1] = NUL) <=> (Character(k) = NUL)
         /\ (Table[k + 1] \in {"l", "L"}) <=> (Character(k) = "l")
         /\ Table[k + 1] # "LEFT_CTL_PRESSED" /\ Table[k + 1] # "LEFT_CTL_RELEASED"
<1>1. IsKey(Character(k), caps_lock_scan_data[k + 1],
            shift_key_scan_data[k + 1], shift_and_caps_data[k + 1])
  BY TablesShow DEF Character
<1>2. /\ shift_held \in BOOLEAN /\ caps_locked_activated \in BOOLEAN /\ toggled \in BOOLEAN
      /\ caps_locked_activated <=> toggled
      /\ shift_held <=> Shifted
  BY DEF KeyboardInv, TypeOK, ModifiersFollowKeys
<1>3. Shifted \in BOOLEAN
  BY DEF Shifted
<1>4. Table \in {default_scan_code_data, caps_lock_scan_data, shift_key_scan_data,
                 shift_and_caps_data}
  BY <1>2 DEF Table
<1>5. Table[k + 1] \in {Character(k), caps_lock_scan_data[k + 1], shift_key_scan_data[k + 1],
                        shift_and_caps_data[k + 1]}
  BY <1>4 DEF Character
<1>6. Table[k + 1] = Shown(Character(k), Shifted, toggled)
  <2>1. CASE Shifted = FALSE /\ toggled = FALSE
    <3>1. Table = default_scan_code_data
      BY <1>2, <2>1 DEF Table
    <3>. QED  BY <1>1, <2>1, <3>1, KeyShown DEF Character
  <2>2. CASE Shifted = FALSE /\ toggled = TRUE
    <3>1. Table = caps_lock_scan_data
      BY <1>2, <2>2 DEF Table
    <3>. QED  BY <1>1, <2>2, <3>1, KeyShown
  <2>3. CASE Shifted = TRUE /\ toggled = FALSE
    <3>1. Table = shift_key_scan_data
      BY <1>2, <2>3 DEF Table
    <3>. QED  BY <1>1, <2>3, <3>1, KeyShown
  <2>4. CASE Shifted = TRUE /\ toggled = TRUE
    <3>1. Table = shift_and_caps_data
      BY <1>2, <2>4 DEF Table
    <3>. QED  BY <1>1, <2>4, <3>1, KeyShown
  <2>. QED  BY <1>2, <1>3, <2>1, <2>2, <2>3, <2>4
<1>. QED  BY <1>1, <1>5, <1>6, KeyCompared

LEMMA NoFunctionKey ==
  ASSUME NEW k \in TypedKeys, alt_key_handler(k)
  PROVE  calls' = <<>>
<1>1. {n \in 1 .. 3 : FunctionKeys[n] = k} = {}
  BY DEF FunctionKeys, F1_PRESSED
<1>2. Cardinality({n \in 1 .. 3 : FunctionKeys[n] = k}) = 0
  BY <1>1, FS_EmptySet
<1>3. calls' = [n \in 1 .. 0 |-> Switch(CHOOSE t \in 0 .. 2 : FunctionKeys[t + 1] = k)]
  BY <1>2, Zenon DEF alt_key_handler
<1>. QED  BY <1>3

LEMMA TypedKeyStep ==
  ASSUME KeyboardInv, NEW k \in TypedKeys, OtherCode(k)
  PROVE  KeysTypeWhatTheyShow'
<1>. DEFINE c == Character(k)
            t == Table[k + 1]
<1>1. code' = k /\ typing_handler(k) /\ UNCHANGED keys
  BY DEF OtherCode, Sends, keyboard_handler
<1>2. /\ t = Shown(c, Shifted, toggled)
      /\ (t = NUL) <=> (c = NUL)
      /\ (t \in {"l", "L"}) <=> (c = "l")
      /\ t # "LEFT_CTL_PRESSED" /\ t # "LEFT_CTL_RELEASED"
  BY TableShows
<1>3. ctrl_held \in BOOLEAN /\ alt_held \in BOOLEAN /\ (alt_held <=> Held(Alts))
  BY DEF KeyboardInv, TypeOK, ModifiersFollowKeys
<1>4. \/ ctrl_held /\ ctrl_key_handler(t)
      \/ ~ctrl_held /\ alt_held /\ alt_key_handler(k)
      \/ /\ ~ctrl_held /\ ~alt_held
         /\ calls' = IF t = NUL THEN <<>> ELSE <<Edit(t)>>
         /\ UNCHANGED flags
  BY <1>1 DEF typing_handler, PrintedChars
<1>5. Shifted' = Shifted /\ toggled' = toggled /\ Held(Alts)' = Held(Alts)
  BY <1>1 DEF Shifted, Held
<1>. HIDE DEF c, t
<1>6. calls' = Meant(c)'
  <2>1. CASE ctrl_held /\ ctrl_key_handler(t)
    <3>1. ctrl_held' /\ calls' = IF t \in {"l", "L"} THEN <<Edit("CTL_L_CMD")>> ELSE <<>>
      BY <1>2, <2>1 DEF ctrl_key_handler
    <3>. QED  BY <1>2, <3>1 DEF Meant
  <2>2. CASE ~ctrl_held /\ alt_held /\ alt_key_handler(k)
    <3>1. calls' = <<>> /\ ~ctrl_held' /\ Held(Alts)'
      BY <1>3, <1>5, <2>2, NoFunctionKey DEF alt_key_handler
    <3>. QED  BY <3>1 DEF Meant
  <2>3. CASE /\ ~ctrl_held /\ ~alt_held
             /\ calls' = IF t = NUL THEN <<>> ELSE <<Edit(t)>>
             /\ UNCHANGED flags
    <3>1. ~ctrl_held' /\ ~Held(Alts)'
      BY <1>3, <1>5, <2>3
    <3>2. CASE c = NUL
      BY <1>2, <2>3, <3>1, <3>2 DEF Meant
    <3>3. CASE c # NUL
      <4>1. Meant(c)' = <<Edit(Shown(c, Shifted', toggled'))>>
        BY <3>1, <3>3 DEF Meant
      <4>2. t = Shown(c, Shifted', toggled')
        BY Zenon, <1>2, <1>5
      <4>3. calls' = <<Edit(t)>>
        BY <1>2, <2>3, <3>3
      <4>. QED  BY Zenon, <4>1, <4>2, <4>3
    <3>. QED  BY <3>2, <3>3
  <2>. QED  BY <1>4, <2>1, <2>2, <2>3
<1>. QED  BY <1>1, <1>6 DEF KeysTypeWhatTheyShow, Character, c

LEMMA KeysTypeInductive == KeyboardInv /\ KeysTypeWhatTheyShow /\ [Next]_vars => KeysTypeWhatTheyShow'
<1>. SUFFICES ASSUME KeyboardInv, KeysTypeWhatTheyShow, [Next]_vars PROVE KeysTypeWhatTheyShow'
  OBVIOUS
<1>1. ASSUME NEW key \in Modifiers, ModifierDown(key) PROVE KeysTypeWhatTheyShow'
  <2>1. code' \notin TypedKeys
    BY <1>1 DEF ModifierDown, Sends
  <2>. QED  BY <2>1 DEF KeysTypeWhatTheyShow
<1>2. ASSUME NEW key \in Modifiers, ModifierUp(key) PROVE KeysTypeWhatTheyShow'
  <2>1. code' \notin TypedKeys
    BY <1>2 DEF ModifierUp, Sends
  <2>. QED  BY <2>1 DEF KeysTypeWhatTheyShow
<1>3. ASSUME NEW response \in ShiftCodes, FakeShift(response) PROVE KeysTypeWhatTheyShow'
  <2>1. code' \notin TypedKeys
    BY <1>3 DEF FakeShift, Sends
  <2>. QED  BY <2>1 DEF KeysTypeWhatTheyShow
<1>4. ASSUME NEW response \in TypedKeys, OtherCode(response) PROVE KeysTypeWhatTheyShow'
  BY <1>4, TypedKeyStep
<1>5. ASSUME NEW response \in EditingKeys \cup OtherCodes, OtherCode(response)
      PROVE  KeysTypeWhatTheyShow'
  <2>1. code' \notin TypedKeys
    BY <1>5 DEF OtherCode, Sends
  <2>. QED  BY <2>1 DEF KeysTypeWhatTheyShow
<1>6. CASE UNCHANGED vars
  BY <1>6 DEF vars, KeysTypeWhatTheyShow, Meant, Shifted, Held
<1>. QED  BY ONLY [Next]_vars, <1>1, <1>2, <1>3, <1>4, <1>5, <1>6, StepCases

(***************************************************************************)
(* Whatever modifiers are down, held, or were pressed before, a key of the *)
(* four tables of keyboard.c adds the character that stands on it.         *)
(***************************************************************************)
THEOREM KeysTypeShown == Spec => []KeysTypeWhatTheyShow
<1>1. Init => KeysTypeWhatTheyShow
  <2>. SUFFICES ASSUME Init PROVE KeysTypeWhatTheyShow
    OBVIOUS
  <2>1. default_scan_code_data[1] = NUL
    BY TablesShow
  <2>. QED  BY <2>1 DEF Init, KeysTypeWhatTheyShow, Meant
<1>. QED  BY <1>1, KeyboardInvariance, KeysTypeInductive, PTL DEF Spec
=============================================================================
