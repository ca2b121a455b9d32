--------------------------- MODULE Screen_proofs ----------------------------
(***************************************************************************)
(* For any number of terminals, any size of the screen and any texts: what *)
(* is shown of a line is what has been typed of it, the cursor shown is    *)
(* that of the terminal displayed, Backspace erases the last character     *)
(* typed, and pages, copies and flags amount to one console per terminal.  *)
(* The proof has four layers: what putc and erase_char do to the places of *)
(* one screen; what they do to the line before the cursor; which           *)
(* terminal's console a step of the system changes; and the invariant and  *)
(* the steps of Consoles.                                                  *)
(***************************************************************************)
EXTENDS Screen, WellFoundedInduction, TLAPS

USE SizeAssumption

-----------------------------------------------------------------------------
(***************************************************************************)
(* Induction: a set of numbers with 0 and with every successor has them    *)
(* all, because what is missing would have a least element.  It is stated  *)
(* with a set in place of a predicate, and proves what PutAll does to      *)
(* texts of any length.                                                    *)
(***************************************************************************)
Below == {p \in Nat \X Nat : p[1] < p[2]}

\* < has no infinite descent.
LEMMA BelowWellFounded == IsWellFoundedOn(Below, Nat)
  BY NatLessThanWellFounded DEF OpToRel, Below

\* A set of numbers that is not empty has a least one.
LEMMA Least ==
  ASSUME NEW T, T \subseteq Nat, T # {}
  PROVE  \E m \in T : \A k \in T : m <= k
<1>1. ASSUME NEW x \in Nat, NEW y \in Nat, x < y PROVE <<x, y>> \in Below
  BY <1>1 DEF Below
<1>2. PICK m \in T : \A k \in T : ~ (<<k, m>> \in Below)
  BY BelowWellFounded, WFMin
<1>3. ASSUME NEW k \in T PROVE m <= k
  <2>1. k \in Nat /\ m \in Nat
    OBVIOUS
  <2>2. k < m => <<k, m>> \in Below
    BY <1>1, <2>1
  <2> QED BY <2>1, <2>2, <1>2
<1> QED BY <1>3

\* Induction over the numbers, for a set.
LEMMA Induction ==
  ASSUME NEW T, 0 \in T, \A n \in Nat : n \in T => n + 1 \in T
  PROVE Nat \subseteq T
<1> SUFFICES ASSUME Nat \ T # {} PROVE FALSE
  OBVIOUS
<1>1. PICK m \in Nat \ T : \A k \in Nat \ T : m <= k
  BY Least
<1>2. m # 0 /\ m - 1 \in Nat
  BY <1>1
<1>3. m - 1 \in T
  BY <1>1, <1>2
<1> QED BY <1>1, <1>2, <1>3

-----------------------------------------------------------------------------
(***************************************************************************)
(* PutAll as a function of the number of characters shown.                 *)
(***************************************************************************)
Step(shown, c, attribute) == IF c = NUL THEN shown ELSE Put(shown, c, attribute)
ShowsUpTo(f, n, s, text, attribute) ==
  f = [i \in 0 .. n |-> IF i = 0 THEN s ELSE Step(f[i - 1], text[i], attribute)]

\* For every text there is the function of the screens it shows.
LEMMA ShownExists ==
  ASSUME NEW s, NEW text, NEW attribute, NEW n \in Nat
  PROVE  \E f : ShowsUpTo(f, n, s, text, attribute)
<1> DEFINE T == {m \in Nat : \E f : ShowsUpTo(f, m, s, text, attribute)}
<1>1. 0 \in T
  <2> DEFINE f == [i \in 0 .. 0 |-> s]
  <2>1. ShowsUpTo(f, 0, s, text, attribute)
    BY DEF ShowsUpTo
  <2>2. \E g : ShowsUpTo(g, 0, s, text, attribute)
    BY <2>1
  <2> QED BY <2>2
<1>2. ASSUME NEW m \in Nat, m \in T PROVE m + 1 \in T
  <2> PICK f : ShowsUpTo(f, m, s, text, attribute)
    BY <1>2
  <2> DEFINE g == [i \in 0 .. m + 1 |-> IF i = m + 1 THEN Step(f[m], text[m + 1], attribute) ELSE f[i]]
  <2>1. \A i \in 0 .. m + 1 : g[i] = IF i = 0 THEN s ELSE Step(g[i - 1], text[i], attribute)
    BY DEF ShowsUpTo
  <2>2. ShowsUpTo(g, m + 1, s, text, attribute)
    BY <2>1 DEF ShowsUpTo
  <2>3. \E h : ShowsUpTo(h, m + 1, s, text, attribute)
    BY <2>2
  <2> QED BY <2>3
<1>3. Nat \subseteq T
  <2> HIDE DEF T
  <2> QED BY <1>1, <1>2, Induction
<1> QED BY <1>3

\* PutAll is the last of them.
LEMMA PutAllShows ==
  ASSUME NEW s, NEW X, NEW text \in Seq(X), NEW attribute
  PROVE  \E f : /\ ShowsUpTo(f, Len(text), s, text, attribute)
                /\ PutAll(s, text, attribute) = f[Len(text)]
<1> DEFINE Is(f) == f = [i \in 0 .. Len(text) |->
        IF i = 0 THEN s
        ELSE IF text[i] = NUL THEN f[i - 1]
        ELSE Put(f[i - 1], text[i], attribute)]
           shown == CHOOSE f : Is(f)
<1>1. PutAll(s, text, attribute) = shown[Len(text)]
  BY DEF PutAll
<1>2. \A f : Is(f) <=> ShowsUpTo(f, Len(text), s, text, attribute)
  BY DEF ShowsUpTo, Step
<1>3. Len(text) \in Nat
  OBVIOUS
<1>4. \E f : Is(f)
  BY <1>2, <1>3, ShownExists, Zenon
<1>5. Is(shown)
  <2> HIDE DEF Is
  <2> QED BY <1>4, Zenon
<1> HIDE DEF shown, Is
<1> QED BY <1>1, <1>2, <1>5

-----------------------------------------------------------------------------
(***************************************************************************)
(* Places: a cell of the screen is a number, row by row.                   *)
(***************************************************************************)
\* Products grow with their factor.
LEMMA TimesMonotone ==
  ASSUME NEW a \in Int, NEW b \in Int, NEW n \in Nat, a <= b
  PROVE  a * n <= b * n
OBVIOUS

\* Row and column of a number.
LEMMA DivMod ==
  ASSUME NEW p \in Nat
  PROVE  /\ p \div NUM_COLS \in Nat /\ p % NUM_COLS \in 0 .. NUM_COLS - 1
         /\ p = (p \div NUM_COLS) * NUM_COLS + (p % NUM_COLS)
OBVIOUS

\* A number has one row and one column.
LEMMA Unique ==
  ASSUME NEW y \in Int, NEW x \in 0 .. NUM_COLS - 1, NEW v \in Int, NEW u \in 0 .. NUM_COLS - 1,
         y * NUM_COLS + x = v * NUM_COLS + u
  PROVE  y = v /\ x = u
<1>1. ~ (y < v)
  <2> SUFFICES ASSUME y < v PROVE FALSE
    OBVIOUS
  <2>1. (y + 1) * NUM_COLS <= v * NUM_COLS
    BY TimesMonotone
  <2>2. (y + 1) * NUM_COLS = y * NUM_COLS + NUM_COLS
    OBVIOUS
  <2> QED BY <2>1, <2>2
<1>2. ~ (v < y)
  <2> SUFFICES ASSUME v < y PROVE FALSE
    OBVIOUS
  <2>1. (v + 1) * NUM_COLS <= y * NUM_COLS
    BY TimesMonotone
  <2>2. (v + 1) * NUM_COLS = v * NUM_COLS + NUM_COLS
    OBVIOUS
  <2> QED BY <2>1, <2>2
<1>3. y = v
  BY <1>1, <1>2
<1> QED BY <1>3
Places == 0 .. NUM_ROWS * NUM_COLS - 1
CellNo(y, x) == y * NUM_COLS + x

\* The number of a cell is a place, with its row and its column.
LEMMA CellPlace ==
  ASSUME NEW y \in 0 .. NUM_ROWS - 1, NEW x \in 0 .. NUM_COLS - 1
  PROVE  /\ CellNo(y, x) \in Places
         /\ CellNo(y, x) \div NUM_COLS = y /\ CellNo(y, x) % NUM_COLS = x
<1>1. 0 <= y * NUM_COLS /\ y * NUM_COLS \in Int
  OBVIOUS
<1>2. (y + 1) * NUM_COLS <= NUM_ROWS * NUM_COLS /\ (y + 1) * NUM_COLS = y * NUM_COLS + NUM_COLS
  BY TimesMonotone
<1>3. CellNo(y, x) \in Places
  BY <1>1, <1>2 DEF CellNo, Places
<1>4. CellNo(y, x) \in Nat /\ CellNo(y, x) = y * NUM_COLS + x
  BY <1>1 DEF CellNo
<1> DEFINE p == CellNo(y, x)
<1> HIDE DEF p
<1>5. /\ p \div NUM_COLS \in Nat /\ p % NUM_COLS \in 0 .. NUM_COLS - 1
      /\ p = (p \div NUM_COLS) * NUM_COLS + (p % NUM_COLS)
  BY <1>4, DivMod DEF p
<1> QED BY <1>3, <1>4, <1>5, Unique DEF p

\* A place is the number of the cell in its row and column.
LEMMA PlaceCell ==
  ASSUME NEW p \in Places
  PROVE  /\ p \div NUM_COLS \in 0 .. NUM_ROWS - 1 /\ p % NUM_COLS \in 0 .. NUM_COLS - 1
         /\ p = CellNo(p \div NUM_COLS, p % NUM_COLS)
<1>1. p \in Nat /\ p < NUM_ROWS * NUM_COLS
  BY DEF Places
<1> DEFINE y == p \div NUM_COLS
           x == p % NUM_COLS
<1>2. y \in Nat /\ x \in 0 .. NUM_COLS - 1 /\ p = y * NUM_COLS + x
  BY <1>1, DivMod
<1> HIDE DEF x, y
<1>3. ~ (NUM_ROWS <= y)
  <2> SUFFICES ASSUME NUM_ROWS <= y PROVE FALSE
    OBVIOUS
  <2>1. NUM_ROWS * NUM_COLS <= y * NUM_COLS
    BY <1>2, TimesMonotone
  <2> QED BY <2>1, <1>1, <1>2
<1> QED BY <1>2, <1>3 DEF x, y, CellNo

-----------------------------------------------------------------------------
(***************************************************************************)
(* What putc does to the cells, place by place.                            *)
(***************************************************************************)
Glyphs == Chars \cup {SPACE_ASCII, NUL}
Images == [Cells -> Glyphs \X (0 .. NumTerminals)]
Screens == [cells : Images, x : 0 .. NUM_COLS - 1, y : 0 .. NUM_ROWS - 1]

At(cells, place) == cells[<<place \div NUM_COLS, place % NUM_COLS>>]

\* Every place is a cell.
LEMMA CellOf ==
  ASSUME NEW p \in Places
  PROVE  <<p \div NUM_COLS, p % NUM_COLS>> \in Cells
BY PlaceCell DEF Cells

Written(cells, y, x, value) == [cells EXCEPT ![<<y, x>>] = value]

\* Writing a cell changes one place.
LEMMA WrittenAt ==
  ASSUME NEW cells \in Images, NEW y \in 0 .. NUM_ROWS - 1, NEW x \in 0 .. NUM_COLS - 1,
         NEW value \in Glyphs \X (0 .. NumTerminals)
  PROVE  /\ Written(cells, y, x, value) \in Images
         /\ \A p \in Places : At(Written(cells, y, x, value), p) =
                                IF p = CellNo(y, x) THEN value ELSE At(cells, p)
<1>1. Written(cells, y, x, value) \in Images
  BY DEF Written, Images
<1>2. ASSUME NEW p \in Places
      PROVE  At(Written(cells, y, x, value), p) = IF p = CellNo(y, x) THEN value ELSE At(cells, p)
  <2> DEFINE v == p \div NUM_COLS
             u == p % NUM_COLS
  <2>1. <<v, u>> \in Cells /\ p = CellNo(v, u)
    BY CellOf, PlaceCell
  <2>2. p = CellNo(y, x) => v = y /\ u = x
    BY CellPlace
  <2> HIDE DEF v, u
  <2>3. Written(cells, y, x, value)[<<v, u>>] = IF p = CellNo(y, x) THEN value ELSE cells[<<v, u>>]
    BY <2>1, <2>2 DEF Written, Images
  <2> QED BY <2>3 DEF At, v, u
<1> QED BY <1>1, <1>2

Rolled(cells, a) ==
  [cells |-> [cell \in Cells |->
     <<IF cell[1] = NUM_ROWS - 1 THEN NUL ELSE cells[<<cell[1] + 1, cell[2]>>][1], a>>],
   x |-> 0, y |-> NUM_ROWS - 1]

\* Scrolling moves every place up by one row.
LEMMA RolledAt ==
  ASSUME NEW cells \in Images, NEW a \in 0 .. NumTerminals
  PROVE  /\ Rolled(cells, a) \in Screens
         /\ \A p \in Places : p + NUM_COLS \in Places =>
              At(Rolled(cells, a).cells, p) = <<At(cells, p + NUM_COLS)[1], a>>
<1> DEFINE new == Rolled(cells, a).cells
<1>1. new = [cell \in Cells |->
               <<IF cell[1] = NUM_ROWS - 1 THEN NUL ELSE cells[<<cell[1] + 1, cell[2]>>][1], a>>]
  BY DEF Rolled
<1>2. ASSUME NEW y \in 0 .. NUM_ROWS - 1, NEW x \in 0 .. NUM_COLS - 1
      PROVE  /\ cells[<<y, x>>] \in Glyphs \X (0 .. NumTerminals)
             /\ new[<<y, x>>] = <<IF y = NUM_ROWS - 1 THEN NUL ELSE cells[<<y + 1, x>>][1], a>>
  <2>1. <<y, x>> \in Cells
    BY DEF Cells
  <2> QED BY <1>1, <2>1 DEF Images
<1>3. new \in Images
  <2>1. ASSUME NEW cell \in Cells
        PROVE <<IF cell[1] = NUM_ROWS - 1 THEN NUL ELSE cells[<<cell[1] + 1, cell[2]>>][1], a>>
                \in Glyphs \X (0 .. NumTerminals)
    <3> PICK y \in 0 .. NUM_ROWS - 1, x \in 0 .. NUM_COLS - 1 : cell = <<y, x>>
      BY DEF Cells
    <3>1. CASE y = NUM_ROWS - 1
      BY <3>1 DEF Glyphs
    <3>2. CASE y # NUM_ROWS - 1
      <4>1. cells[<<y + 1, x>>] \in Glyphs \X (0 .. NumTerminals)
        <5>1. y + 1 \in 0 .. NUM_ROWS - 1
          BY <3>2
        <5> QED BY <1>2, <5>1
      <4> QED BY <4>1, <3>2
    <3> QED BY <3>1, <3>2
  <2> QED BY <1>1, <2>1 DEF Images
<1>4. Rolled(cells, a) \in Screens
  BY <1>3 DEF Rolled, Screens
<1>5. ASSUME NEW p \in Places, p + NUM_COLS \in Places
      PROVE  At(new, p) = <<At(cells, p + NUM_COLS)[1], a>>
  <2> DEFINE v == p \div NUM_COLS
             u == p % NUM_COLS
             w == (p + NUM_COLS) \div NUM_COLS
             z == (p + NUM_COLS) % NUM_COLS
  <2>1. v \in 0 .. NUM_ROWS - 1 /\ u \in 0 .. NUM_COLS - 1 /\ p = v * NUM_COLS + u
    BY PlaceCell DEF CellNo
  <2>2. w \in 0 .. NUM_ROWS - 1 /\ z \in 0 .. NUM_COLS - 1 /\ p + NUM_COLS = w * NUM_COLS + z
    BY <1>5, PlaceCell DEF CellNo
  <2> HIDE DEF v, u, w, z
  <2>3. (v + 1) * NUM_COLS + u = w * NUM_COLS + z
    BY <2>1, <2>2
  <2>4. w = v + 1 /\ z = u
    BY <2>1, <2>2, <2>3, Unique
  <2>5. new[<<v, u>>] = <<cells[<<w, z>>][1], a>>
    BY <2>1, <2>2, <2>4, <1>2
  <2> QED BY <2>5 DEF At, v, u, w, z
<1> QED BY <1>4, <1>5

IsScreen(s) == s = [cells |-> s.cells, x |-> s.x, y |-> s.y]

\* The cursor on the next line, and one column on behind a character.
LEMMA Moved ==
  ASSUME NEW s, IsScreen(s), NEW c, NEW a
  PROVE  /\ NextLine(s) = [cells |-> s.cells, x |-> 0, y |-> s.y + 1]
         /\ [s EXCEPT !.cells[<<s.y, s.x>>] = <<c, a>>, !.x = @ + 1] =
              [cells |-> Written(s.cells, s.y, s.x, <<c, a>>), x |-> s.x + 1, y |-> s.y]
<1>. DEFINE cells == s.cells
            x == s.x
            y == s.y
<1>1. s = [cells |-> cells, x |-> x, y |-> y]
  BY DEF IsScreen
<1>2. ASSUME NEW e, e = [s EXCEPT !.x = 0, !.y = @ + 1]
      PROVE  e = [cells |-> cells, x |-> 0, y |-> y + 1]
  BY <1>1, <1>2
<1>3. ASSUME NEW e, e = [s EXCEPT !.cells[<<s.y, s.x>>] = <<c, a>>, !.x = @ + 1]
      PROVE  e = [cells |-> Written(cells, y, x, <<c, a>>), x |-> x + 1, y |-> y]
  BY <1>1, <1>3 DEF Written
<1> QED BY <1>2, <1>3, Zenon DEF NextLine

\* What Put makes of a screen, by where the cursor is.
LEMMA PutForms ==
  ASSUME NEW s \in Screens, NEW c, NEW a
  PROVE  LET w == Written(s.cells, s.y, s.x, <<c, a>>)
         IN /\ c = END_OF_LINE /\ s.y < NUM_ROWS - 1 =>
                 Put(s, c, a) = [cells |-> s.cells, x |-> 0, y |-> s.y + 1]
            /\ c = END_OF_LINE /\ s.y = NUM_ROWS - 1 => Put(s, c, a) = Rolled(s.cells, a)
            /\ c # END_OF_LINE /\ s.x < NUM_COLS - 1 =>
                 Put(s, c, a) = [cells |-> w, x |-> s.x + 1, y |-> s.y]
            /\ c # END_OF_LINE /\ s.x = NUM_COLS - 1 /\ s.y < NUM_ROWS - 1 =>
                 Put(s, c, a) = [cells |-> w, x |-> 0, y |-> s.y + 1]
            /\ c # END_OF_LINE /\ s.x = NUM_COLS - 1 /\ s.y = NUM_ROWS - 1 =>
                 Put(s, c, a) = Rolled(w, a)
<1> DEFINE w == Written(s.cells, s.y, s.x, <<c, a>>)
<1>1. s = [cells |-> s.cells, x |-> s.x, y |-> s.y]
        /\ s.x \in 0 .. NUM_COLS - 1 /\ s.y \in 0 .. NUM_ROWS - 1
  BY DEF Screens
<1>2. IsScreen(s)
  BY <1>1 DEF IsScreen
<1>3. NextLine(s) = [cells |-> s.cells, x |-> 0, y |-> s.y + 1]
  BY <1>2, Moved, Zenon
<1>4. [s EXCEPT !.cells[<<s.y, s.x>>] = <<c, a>>, !.x = @ + 1] = [cells |-> w, x |-> s.x + 1, y |-> s.y]
  BY <1>2, Moved, Zenon
<1>5. check_size([cells |-> w, x |-> s.x + 1, y |-> s.y]) =
        IF s.x = NUM_COLS - 1 THEN [cells |-> w, x |-> 0, y |-> s.y + 1]
                              ELSE [cells |-> w, x |-> s.x + 1, y |-> s.y]
  <2> DEFINE m == [cells |-> w, x |-> s.x + 1, y |-> s.y]
  <2>1. IsScreen(m) /\ m.cells = w /\ m.x = s.x + 1 /\ m.y = s.y
    BY DEF IsScreen
  <2> HIDE DEF m, w
  <2>2. NextLine(m) = [cells |-> w, x |-> 0, y |-> s.y + 1]
    BY <2>1, Moved
  <2>3. m.x >= NUM_COLS <=> s.x = NUM_COLS - 1
    BY <1>1, <2>1
  <2>4. check_size(m) = IF s.x = NUM_COLS - 1 THEN [cells |-> w, x |-> 0, y |-> s.y + 1] ELSE m
    BY <2>2, <2>3 DEF check_size
  <2> QED BY <2>4 DEF m
<1> HIDE DEF w
<1>6. ASSUME NEW cells, NEW x, NEW y \in Int
      PROVE  Scrolled([cells |-> cells, x |-> x, y |-> y], a) =
               IF y <= NUM_ROWS - 1 THEN [cells |-> cells, x |-> x, y |-> y] ELSE Rolled(cells, a)
  BY DEF Scrolled, Rolled
<1>7. Put(s, c, a) =
        Scrolled(IF c = END_OF_LINE THEN [cells |-> s.cells, x |-> 0, y |-> s.y + 1]
                 ELSE check_size([cells |-> w, x |-> s.x + 1, y |-> s.y]), a)
  BY <1>3, <1>4 DEF Put
<1>8. CASE c = END_OF_LINE
  BY <1>1, <1>6, <1>7, <1>8
<1>9. CASE c # END_OF_LINE /\ s.x < NUM_COLS - 1
  BY <1>1, <1>5, <1>6, <1>7, <1>9 DEF w
<1>10. CASE c # END_OF_LINE /\ s.x = NUM_COLS - 1
  BY <1>1, <1>5, <1>6, <1>7, <1>10 DEF w
<1> QED BY <1>1, <1>8, <1>9, <1>10

\* Put leaves a screen, with the cursor on it.
LEMMA PutScreen ==
  ASSUME NEW s \in Screens, NEW c \in Chars \cup {END_OF_LINE}, NEW a \in 0 .. NumTerminals
  PROVE  Put(s, c, a) \in Screens
<1>1. s.x \in 0 .. NUM_COLS - 1 /\ s.y \in 0 .. NUM_ROWS - 1 /\ s.cells \in Images
  BY DEF Screens
<1> DEFINE w == Written(s.cells, s.y, s.x, <<c, a>>)
<1>2. c # END_OF_LINE => w \in Images
  BY <1>1, WrittenAt DEF Glyphs
<1> HIDE DEF w
<1>3. /\ c = END_OF_LINE /\ s.y < NUM_ROWS - 1 =>
                 Put(s, c, a) = [cells |-> s.cells, x |-> 0, y |-> s.y + 1]
      /\ c = END_OF_LINE /\ s.y = NUM_ROWS - 1 => Put(s, c, a) = Rolled(s.cells, a)
      /\ c # END_OF_LINE /\ s.x < NUM_COLS - 1 =>
                 Put(s, c, a) = [cells |-> w, x |-> s.x + 1, y |-> s.y]
      /\ c # END_OF_LINE /\ s.x = NUM_COLS - 1 /\ s.y < NUM_ROWS - 1 =>
                 Put(s, c, a) = [cells |-> w, x |-> 0, y |-> s.y + 1]
      /\ c # END_OF_LINE /\ s.x = NUM_COLS - 1 /\ s.y = NUM_ROWS - 1 =>
                 Put(s, c, a) = Rolled(w, a)
  BY PutForms DEF w
<1>4. Rolled(s.cells, a) \in Screens /\ (c # END_OF_LINE => Rolled(w, a) \in Screens)
  BY <1>1, <1>2, RolledAt
<1>5. CASE c = END_OF_LINE
  BY <1>1, <1>3, <1>4, <1>5 DEF Screens
<1>6. CASE c # END_OF_LINE
  BY <1>1, <1>2, <1>3, <1>4, <1>6 DEF Screens
<1> QED BY <1>5, <1>6

-----------------------------------------------------------------------------
(***************************************************************************)
(* The line that is typed: it stands right before the cursor, and every    *)
(* key and every redraw leaves it there.                                   *)
(***************************************************************************)
PlaceOf(s) == CellNo(s.y, s.x)

\* line stands right before a place.
StandsAt(cells, place, line, a) ==
  /\ Len(line) <= place
  /\ \A i \in 1 .. Len(line) : At(cells, place - Len(line) + i - 1) = <<line[i], a>>

\* The cursor is at a place.
LEMMA PlaceOnScreen ==
  ASSUME NEW s \in Screens
  PROVE  /\ PlaceOf(s) \in Places /\ PlaceOf(s) = s.y * NUM_COLS + s.x
         /\ s.x \in 0 .. NUM_COLS - 1 /\ s.y \in 0 .. NUM_ROWS - 1 /\ s.cells \in Images
BY CellPlace DEF Screens, PlaceOf, CellNo

\* Written behind the line, a character continues it.
LEMMA WrittenStands ==
  ASSUME NEW cells, NEW new, NEW place \in Nat, NEW line \in Seq(Chars), NEW c \in Chars, NEW a,
         \A p \in Places : At(new, p) = IF p = place THEN <<c, a>> ELSE At(cells, p),
         place \in Places, StandsAt(cells, place, line, a)
  PROVE  StandsAt(new, place + 1, Append(line, c), a)
<1> DEFINE l == Append(line, c)
           n == Len(line)
<1>1. /\ Len(l) = n + 1 /\ n \in Nat /\ l[n + 1] = c
      /\ \A i \in 1 .. n : l[i] = line[i]
  OBVIOUS
<1>2. n <= place /\ \A i \in 1 .. n : At(cells, place - n + i - 1) = <<line[i], a>>
  BY DEF StandsAt
<1> HIDE DEF l, n
<1>3. ASSUME NEW i \in 1 .. n + 1 PROVE At(new, place + 1 - (n + 1) + i - 1) = <<l[i], a>>
  <2> DEFINE p == place - n + i - 1
  <2>1. p \in Places /\ place + 1 - (n + 1) + i - 1 = p
    BY <1>1, <1>2 DEF Places
  <2>2. CASE i = n + 1
    BY <1>1, <2>1, <2>2
  <2>3. CASE i # n + 1
    <3>1. i \in 1 .. n /\ p # place
      BY <1>1, <2>3
    <3>2. At(new, p) = At(cells, p)
      BY <2>1, <3>1
    <3> QED BY <1>1, <1>2, <2>1, <3>1, <3>2
  <2> QED BY <2>2, <2>3
<1>4. Len(l) <= place + 1 /\ Len(l) = n + 1
  BY <1>1, <1>2
<1> QED BY <1>3, <1>4 DEF StandsAt, l

\* A line that fits above the last row stays right before the cursor when the
\* screen scrolls.
LEMMA RolledStands ==
  ASSUME NEW cells \in Images, NEW a \in 0 .. NumTerminals, NEW line \in Seq(Chars),
         Len(line) <= (NUM_ROWS - 1) * NUM_COLS,
         StandsAt(cells, NUM_ROWS * NUM_COLS, line, a)
  PROVE  StandsAt(Rolled(cells, a).cells, (NUM_ROWS - 1) * NUM_COLS, line, a)
<1> DEFINE n == Len(line)
           last == (NUM_ROWS - 1) * NUM_COLS
           all == NUM_ROWS * NUM_COLS
<1>1. n \in Nat /\ last \in Nat /\ n <= last /\ all = last + NUM_COLS /\ all \in Nat
  OBVIOUS
<1>2. \A i \in 1 .. n : At(cells, all - n + i - 1) = <<line[i], a>>
  BY DEF StandsAt
<1>3. Places = 0 .. all - 1
  BY DEF Places
<1> HIDE DEF n, last, all
<1>4. ASSUME NEW i \in 1 .. n PROVE At(Rolled(cells, a).cells, last - n + i - 1) = <<line[i], a>>
  <2> DEFINE p == last - n + i - 1
  <2>1. p \in Places /\ p + NUM_COLS \in Places /\ p + NUM_COLS = all - n + i - 1
    BY <1>1, <1>3
  <2> HIDE DEF p
  <2>2. At(Rolled(cells, a).cells, p) = <<At(cells, p + NUM_COLS)[1], a>>
    BY <2>1, RolledAt
  <2>3. At(cells, p + NUM_COLS) = <<line[i], a>>
    BY <1>2, <2>1
  <2> QED BY <2>2, <2>3 DEF p
<1> QED BY <1>1, <1>4 DEF StandsAt, n, last

\* A character typed continues the line, also over the end of a row and of
\* the screen.
LEMMA PutStands ==
  ASSUME NEW s \in Screens, NEW line \in Seq(Chars), NEW c \in Chars, NEW a \in 0 .. NumTerminals,
         StandsAt(s.cells, PlaceOf(s), line, a), Len(line) + 1 <= (NUM_ROWS - 1) * NUM_COLS
  PROVE  LET new == Put(s, c, a)
         IN StandsAt(new.cells, PlaceOf(new), Append(line, c), a)
<1> DEFINE w == Written(s.cells, s.y, s.x, <<c, a>>)
           P == PlaceOf(s)
           l == Append(line, c)
           new == Put(s, c, a)
<1>1. /\ P \in Places /\ P = s.y * NUM_COLS + s.x /\ P \in Nat
      /\ s.x \in 0 .. NUM_COLS - 1 /\ s.y \in 0 .. NUM_ROWS - 1 /\ s.cells \in Images
  BY PlaceOnScreen DEF Places
<1>2. c # END_OF_LINE
  BY CharsAssumption
<1>3. w \in Images /\ \A p \in Places : At(w, p) = IF p = P THEN <<c, a>> ELSE At(s.cells, p)
  <2>1. <<c, a>> \in Glyphs \X (0 .. NumTerminals)
    BY DEF Glyphs
  <2> QED BY <1>1, <2>1, WrittenAt DEF PlaceOf
<1>4. /\ s.x < NUM_COLS - 1 => new = [cells |-> w, x |-> s.x + 1, y |-> s.y]
      /\ s.x = NUM_COLS - 1 /\ s.y < NUM_ROWS - 1 => new = [cells |-> w, x |-> 0, y |-> s.y + 1]
      /\ s.x = NUM_COLS - 1 /\ s.y = NUM_ROWS - 1 => new = Rolled(w, a)
  BY <1>2, PutForms
<1>5. l \in Seq(Chars) /\ Len(l) = Len(line) + 1
  OBVIOUS
<1>6. StandsAt(w, P + 1, l, a)
  <2> HIDE DEF w, P
  <2> QED BY <1>1, <1>3, WrittenStands DEF P
<1> HIDE DEF w, l, new, P
<1>7. CASE s.x < NUM_COLS - 1
  <2>1. new.cells = w /\ PlaceOf(new) = P + 1
    BY <1>1, <1>4, <1>7 DEF PlaceOf, CellNo
  <2> QED BY <1>6, <2>1 DEF new, l
<1>8. CASE s.x = NUM_COLS - 1 /\ s.y < NUM_ROWS - 1
  <2>1. new.cells = w /\ new.x = 0 /\ new.y = s.y + 1
    BY <1>4, <1>8
  <2>2. (s.y + 1) * NUM_COLS + 0 = P + 1
    BY <1>1, <1>8
  <2> QED BY <1>6, <2>1, <2>2 DEF new, l, PlaceOf, CellNo
<1>9. CASE s.x = NUM_COLS - 1 /\ s.y = NUM_ROWS - 1
  <2>1. new.cells = Rolled(w, a).cells /\ new.x = 0 /\ new.y = NUM_ROWS - 1
    BY <1>4, <1>9 DEF Rolled
  <2>2. /\ (NUM_ROWS - 1) * NUM_COLS + 0 = (NUM_ROWS - 1) * NUM_COLS
        /\ P + 1 = NUM_ROWS * NUM_COLS
    BY <1>1, <1>9
  <2>3. StandsAt(Rolled(w, a).cells, (NUM_ROWS - 1) * NUM_COLS, l, a)
    BY <1>3, <1>5, <1>6, <2>2, RolledStands
  <2> QED BY <2>1, <2>2, <2>3 DEF new, l, PlaceOf, CellNo
<1> QED BY <1>1, <1>7, <1>8, <1>9

\* Erase takes the place before the cursor, on this row or on the one before,
\* and no other.
LEMMA Erased ==
  ASSUME NEW s \in Screens, PlaceOf(s) # 0
  PROVE  /\ Erase(s) \in Screens
         /\ PlaceOf(Erase(s)) = PlaceOf(s) - 1
         /\ \A p \in Places : At(Erase(s).cells, p) =
              IF p = PlaceOf(s) - 1 THEN <<NUL, At(s.cells, p)[2]>> ELSE At(s.cells, p)
<1> DEFINE x == IF s.x = 0 THEN NUM_COLS - 1 ELSE s.x - 1
           y == IF s.x = 0 THEN s.y - 1 ELSE s.y
           v == s.cells[<<y, x>>]
           w == Written(s.cells, y, x, <<NUL, v[2]>>)
<1>1. /\ PlaceOf(s) \in Places /\ PlaceOf(s) = s.y * NUM_COLS + s.x
      /\ s.x \in 0 .. NUM_COLS - 1 /\ s.y \in 0 .. NUM_ROWS - 1 /\ s.cells \in Images
  BY PlaceOnScreen
<1>2. /\ x \in 0 .. NUM_COLS - 1 /\ y \in 0 .. NUM_ROWS - 1
      /\ CellNo(y, x) = PlaceOf(s) - 1
  <2>1. CASE s.x = 0
    <3>1. s.y # 0
      BY <1>1, <2>1
    <3>2. (s.y - 1) * NUM_COLS = s.y * NUM_COLS - NUM_COLS /\ s.y * NUM_COLS \in Int
      BY <1>1
    <3> QED BY <1>1, <2>1, <3>1, <3>2 DEF CellNo
  <2>2. CASE s.x # 0
    <3>1. s.y * NUM_COLS \in Int
      BY <1>1
    <3> QED BY <1>1, <2>2, <3>1 DEF CellNo
  <2> QED BY <2>1, <2>2
<1>3. v \in Glyphs \X (0 .. NumTerminals)
  BY <1>1, <1>2 DEF Images, Cells
<1>4. <<NUL, v[2]>> \in Glyphs \X (0 .. NumTerminals) /\ [v EXCEPT ![1] = NUL] = <<NUL, v[2]>>
  BY <1>3 DEF Glyphs
<1>5. w \in Images
      /\ \A p \in Places : At(w, p) = IF p = CellNo(y, x) THEN <<NUL, v[2]>> ELSE At(s.cells, p)
  <2> HIDE DEF x, y, v
  <2> QED BY <1>1, <1>2, <1>4, WrittenAt
<1>6. At(s.cells, CellNo(y, x)) = v
  BY <1>2, CellPlace DEF At
<1>7. Erase(s) = [cells |-> w, x |-> x, y |-> y]
  <2>1. IsScreen(s)
    BY DEF Screens, IsScreen
  <2> DEFINE m == [cells |-> s.cells, x |-> x, y |-> y]
  <2>2. ASSUME NEW e, e = [s EXCEPT !.x = NUM_COLS - 1, !.y = @ - 1], s.x = 0 PROVE e = m
    BY <2>1, <2>2 DEF IsScreen
  <2>3. ASSUME NEW e, e = [s EXCEPT !.x = @ - 1], s.x # 0 PROVE e = m
    BY <2>1, <2>3 DEF IsScreen
  <2>4. (IF s.x = 0 THEN [s EXCEPT !.x = NUM_COLS - 1, !.y = @ - 1] ELSE [s EXCEPT !.x = @ - 1]) = m
    BY <2>2, <2>3, Zenon
  <2>5. Erase(s) = [m EXCEPT !.cells[<<m.y, m.x>>][1] = NUL]
    <3> HIDE DEF m
    <3> QED BY <2>4, Zenon DEF Erase
  <2>6. ASSUME NEW e, e = [m EXCEPT !.cells[<<m.y, m.x>>][1] = NUL]
        PROVE e = [cells |-> w, x |-> x, y |-> y]
    <3> HIDE DEF x, y
    <3> QED BY <1>4, <2>6 DEF Written
  <2> QED BY <2>5, <2>6, Zenon
<1> HIDE DEF x, y, v, w
<1>8. Erase(s) \in Screens /\ PlaceOf(Erase(s)) = CellNo(y, x) /\ Erase(s).cells = w
  BY <1>2, <1>5, <1>7 DEF Screens, PlaceOf
<1> QED BY <1>2, <1>5, <1>6, <1>8

\* A text without its last character.
LEMMA FrontOf ==
  ASSUME NEW X, NEW line \in Seq(X), line # <<>>
  PROVE  /\ Len(line) # 0 /\ Front(line) \in Seq(X) /\ Len(Front(line)) = Len(line) - 1
         /\ \A i \in 1 .. Len(line) - 1 : Front(line)[i] = line[i]
<1> DEFINE m == Len(line) - 1
<1>1. m \in Nat /\ m <= Len(line) /\ Len(line) # 0
  OBVIOUS
<1> HIDE DEF m
<1>2. Len(SubSeq(line, 1, m)) = m /\ SubSeq(line, 1, m) \in Seq(X)
  BY <1>1
<1>3. \A i \in 1 .. m : SubSeq(line, 1, m)[i] = line[i]
  BY <1>1
<1> QED BY <1>1, <1>2, <1>3 DEF Front, m

\* Erase takes the last character of the line, and leaves the rest of it
\* right before the cursor.
LEMMA ErasedStands ==
  ASSUME NEW s \in Screens, NEW line \in Seq(Chars), line # <<>>, NEW a,
         StandsAt(s.cells, PlaceOf(s), line, a)
  PROVE  /\ PlaceOf(s) # 0 /\ At(s.cells, PlaceOf(s) - 1) = <<Last(line), a>>
         /\ StandsAt(Erase(s).cells, PlaceOf(Erase(s)), Front(line), a)
<1> DEFINE n == Len(line)
           l == Front(line)
           P == PlaceOf(s)
<1>1. /\ n \in Nat /\ n # 0 /\ Len(l) = n - 1 /\ \A i \in 1 .. n - 1 : l[i] = line[i]
      /\ Last(line) = line[n]
  BY FrontOf DEF Last
<1>2. n <= P /\ \A i \in 1 .. n : At(s.cells, P - n + i - 1) = <<line[i], a>>
  BY DEF StandsAt
<1>3. P \in Places /\ P \in Nat
  BY PlaceOnScreen DEF Places
<1> HIDE DEF n, l
<1>4. P # 0 /\ At(s.cells, P - 1) = <<Last(line), a>>
  <2>1. n \in 1 .. n /\ P - n + n - 1 = P - 1
    BY <1>1, <1>3
  <2> QED BY <1>1, <1>2, <2>1, <1>3
<1>5. /\ PlaceOf(Erase(s)) = P - 1
      /\ \A p \in Places : p # P - 1 => At(Erase(s).cells, p) = At(s.cells, p)
  BY <1>4, Erased
<1> HIDE DEF P
<1>6. ASSUME NEW i \in 1 .. n - 1 PROVE At(Erase(s).cells, P - 1 - (n - 1) + i - 1) = <<l[i], a>>
  <2> DEFINE p == P - n + i - 1
  <2>1. p \in Places /\ p # P - 1 /\ P - 1 - (n - 1) + i - 1 = p /\ i \in 1 .. n
    BY <1>1, <1>2, <1>3 DEF Places
  <2> HIDE DEF p
  <2>2. At(Erase(s).cells, p) = At(s.cells, p)
    BY <1>5, <2>1
  <2>3. At(s.cells, p) = <<line[i], a>>
    BY <1>2, <2>1 DEF p
  <2> QED BY <1>1, <2>1, <2>2, <2>3
<1>7. n - 1 <= P - 1 /\ Len(l) = n - 1
  BY <1>1, <1>2, <1>3
<1> QED BY <1>4, <1>5, <1>6, <1>7 DEF StandsAt, l, P

\* A cleared screen has the cursor in its corner and no line.
LEMMA Cleared ==
  ASSUME NEW a \in 0 .. NumTerminals
  PROVE  Clear(a) \in Screens /\ StandsAt(Clear(a).cells, PlaceOf(Clear(a)), <<>>, a)
<1>1. Clear(a) \in Screens
  BY DEF Clear, Screens, Images, Glyphs
<1>2. PlaceOf(Clear(a)) \in Places
  BY <1>1, PlaceOnScreen
<1> QED BY <1>1, <1>2 DEF StandsAt, Places

\* A text of any length leaves a screen.
LEMMA PutAllScreen ==
  ASSUME NEW s \in Screens, NEW text \in Seq(Chars \cup {END_OF_LINE, NUL}),
         NEW a \in 0 .. NumTerminals
  PROVE  PutAll(s, text, a) \in Screens
<1> PICK f : /\ ShowsUpTo(f, Len(text), s, text, a)
             /\ PutAll(s, text, a) = f[Len(text)]
  BY PutAllShows
<1> DEFINE T == {i \in Nat : i <= Len(text) => f[i] \in Screens}
<1>1. 0 \in T
  BY DEF ShowsUpTo
<1>2. ASSUME NEW i \in Nat, i \in T PROVE i + 1 \in T
  <2> SUFFICES ASSUME i + 1 <= Len(text) PROVE f[i + 1] \in Screens
    OBVIOUS
  <2>1. f[i] \in Screens /\ text[i + 1] \in Chars \cup {END_OF_LINE, NUL}
    BY <1>2
  <2>2. f[i + 1] = Step(f[i], text[i + 1], a)
    BY DEF ShowsUpTo
  <2> QED BY <2>1, <2>2, PutScreen DEF Step
<1>3. Nat \subseteq T
  <2> HIDE DEF T
  <2> QED BY <1>1, <1>2, Induction
<1> QED BY <1>3

\* Ctrl-L shows a line of any length again, right before the cursor.
LEMMA RedrawStands ==
  ASSUME NEW line \in Seq(Chars), NEW a \in 0 .. NumTerminals,
         Len(line) <= (NUM_ROWS - 1) * NUM_COLS
  PROVE  LET new == PutAll(Clear(a), line, a)
         IN new \in Screens /\ StandsAt(new.cells, PlaceOf(new), line, a)
<1> PICK f : /\ ShowsUpTo(f, Len(line), Clear(a), line, a)
             /\ PutAll(Clear(a), line, a) = f[Len(line)]
  BY PutAllShows
<1> DEFINE Typed(i) == [k \in 1 .. i |-> line[k]]
           T == {i \in Nat : i <= Len(line) =>
                   f[i] \in Screens /\ StandsAt(f[i].cells, PlaceOf(f[i]), Typed(i), a)}
<1>1. 0 \in T
  <2>1. f[0] = Clear(a)
    BY DEF ShowsUpTo
  <2>2. Typed(0) = <<>>
    OBVIOUS
  <2> QED BY <2>1, <2>2, Cleared
<1>2. ASSUME NEW i \in Nat, i \in T PROVE i + 1 \in T
  <2> SUFFICES ASSUME i + 1 <= Len(line)
               PROVE  /\ f[i + 1] \in Screens
                      /\ StandsAt(f[i + 1].cells, PlaceOf(f[i + 1]), Typed(i + 1), a)
    OBVIOUS
  <2>1. /\ f[i] \in Screens /\ StandsAt(f[i].cells, PlaceOf(f[i]), Typed(i), a)
        /\ line[i + 1] \in Chars
    BY <1>2
  <2>2. f[i + 1] = Put(f[i], line[i + 1], a)
    BY <2>1, CharsAssumption DEF ShowsUpTo, Step
  <2>3. /\ Typed(i) \in Seq(Chars) /\ Len(Typed(i)) = i
        /\ Typed(i + 1) = Append(Typed(i), line[i + 1])
    OBVIOUS
  <2> HIDE DEF Typed
  <2>4. Len(Typed(i)) + 1 <= (NUM_ROWS - 1) * NUM_COLS
    BY <2>3
  <2>5. StandsAt(f[i + 1].cells, PlaceOf(f[i + 1]), Append(Typed(i), line[i + 1]), a)
    BY <2>1, <2>2, <2>3, <2>4, PutStands
  <2> QED BY <2>1, <2>2, <2>3, <2>5, PutScreen
<1>3. Nat \subseteq T
  <2> HIDE DEF T
  <2> QED BY <1>1, <1>2, Induction
<1>4. Typed(Len(line)) = line
  OBVIOUS
<1> QED BY <1>3, <1>4

-----------------------------------------------------------------------------
(***************************************************************************)
(* From screens to pages: every step of the system changes the console of  *)
(* at most one terminal, whichever page that is on.                        *)
(***************************************************************************)
TerminalRecords ==
  [screen_x : 0 .. NUM_COLS - 1, screen_y : 0 .. NUM_ROWS - 1, flag : {0, 1},
   waitingInRead : {0, 1}, buffer : Seq(Chars \cup {END_OF_LINE})]

ScreenTypes ==
  /\ video \in [0 .. NumTerminals -> Images]
  /\ terminal_array \in [Terminals -> TerminalRecords]
  /\ curr_terminal \in Terminals /\ screen_terminal \in Terminals
  /\ cursor = PlaceOf(ConsoleOf(screen_terminal))

\* Terminal t changes: its console is s now.  The others stay as they are.
Becomes(t, s, flag, waiting, line) ==
  /\ ScreenTypes'
  /\ ConsoleOf(t)' = s
  /\ terminal_array[t]'.flag = flag /\ terminal_array[t]'.waitingInRead = waiting
  /\ terminal_array[t]'.buffer = line
  /\ \A u \in Terminals \ {t} :
       ConsoleOf(u)' = ConsoleOf(u) /\ terminal_array[u]' = terminal_array[u]

\* Two terminals are never on one page.
LEMMA Pages ==
  ASSUME ScreenTypes, NEW t \in Terminals
  PROVE  /\ PageOf(t) \in 0 .. NumTerminals
         /\ \A u \in Terminals : PageOf(t) = PageOf(u) => t = u
         /\ ConsoleOf(t) \in Screens
<1>1. PageOf(t) \in 0 .. NumTerminals /\ \A u \in Terminals : PageOf(t) = PageOf(u) => t = u
  BY TerminalsAssumption DEF PageOf, ScreenPage, BackupPage, Terminals
<1>2. video[PageOf(t)] \in Images
  BY <1>1 DEF ScreenTypes
<1>3. terminal_array[t].screen_x \in 0 .. NUM_COLS - 1
      /\ terminal_array[t].screen_y \in 0 .. NUM_ROWS - 1
  BY DEF ScreenTypes, TerminalRecords
<1> QED BY <1>1, <1>2, <1>3 DEF ConsoleOf, ImageOf, Screens

\* Drawing changes the console of the terminal drawn for, and no other.
LEMMA DrawBecomes ==
  ASSUME ScreenTypes, NEW typed, NEW s \in Screens,
         NEW terms \in [Terminals -> TerminalRecords], Draw(typed, s, terms),
         UNCHANGED <<curr_terminal, screen_terminal>>,
         NEW t, t = Drawn(typed), \A u \in Terminals \ {t} : terms[u] = terminal_array[u]
  PROVE  /\ t \in Terminals /\ Shown(typed) = ConsoleOf(t)
         /\ Becomes(t, s, terms[t].flag, terms[t].waitingInRead, terms[t].buffer)
<1> DEFINE r == [terms[t] EXCEPT !.screen_x = s.x, !.screen_y = s.y]
<1>1. t \in Terminals /\ DrawnPage(typed) = PageOf(t)
  BY DEF ScreenTypes, Drawn, DrawnPage, OnBackup, PageOf
<1>2. Shown(typed) = ConsoleOf(t)
  BY <1>1 DEF Shown, ConsoleOf, ImageOf
<1>3. /\ r \in TerminalRecords /\ r.screen_x = s.x /\ r.screen_y = s.y
      /\ r.flag = terms[t].flag /\ r.waitingInRead = terms[t].waitingInRead
      /\ r.buffer = terms[t].buffer
  BY <1>1 DEF TerminalRecords, Screens
<1>4. /\ video' = [video EXCEPT ![PageOf(t)] = s.cells]
      /\ terminal_array' = [terms EXCEPT ![t] = r]
      /\ cursor' = terminal_array'[screen_terminal].screen_y * NUM_COLS
                     + terminal_array'[screen_terminal].screen_x
  BY <1>1 DEF Draw, move_cursor
<1> HIDE DEF r
<1>5. /\ video' \in [0 .. NumTerminals -> Images] /\ video'[PageOf(t)] = s.cells
      /\ \A u \in Terminals \ {t} : video'[PageOf(u)] = video[PageOf(u)]
  BY <1>1, <1>4, Pages DEF ScreenTypes, Screens
<1>6. /\ terminal_array' \in [Terminals -> TerminalRecords] /\ terminal_array'[t] = r
      /\ \A u \in Terminals \ {t} : terminal_array'[u] = terminal_array[u]
  BY <1>1, <1>3, <1>4
<1>7. \A u \in Terminals : PageOf(u)' = PageOf(u)
  BY DEF PageOf
<1>8. ScreenTypes'
  BY <1>4, <1>5, <1>6 DEF ScreenTypes, PlaceOf, ConsoleOf, CellNo
<1>9. ConsoleOf(t)' = s
  <2>1. s = [cells |-> s.cells, x |-> s.x, y |-> s.y]
    BY DEF Screens
  <2>2. ConsoleOf(t)' = [cells |-> video'[PageOf(t)'],
                         x |-> terminal_array'[t].screen_x, y |-> terminal_array'[t].screen_y]
    BY DEF ConsoleOf, ImageOf
  <2> QED BY <2>1, <2>2, <1>1, <1>3, <1>5, <1>6, <1>7
<1>10. \A u \in Terminals \ {t} : ConsoleOf(u)' = ConsoleOf(u)
  BY <1>5, <1>6, <1>7 DEF ConsoleOf, ImageOf
<1>11. Becomes(t, s, terms[t].flag, terms[t].waitingInRead, terms[t].buffer)
  BY <1>3, <1>6, <1>8, <1>9, <1>10 DEF Becomes
<1> QED BY <1>1, <1>2, <1>11

\* Read and its return change no console.
LEMMA FieldsBecome ==
  ASSUME ScreenTypes, NEW t \in Terminals, NEW r \in TerminalRecords,
         r.screen_x = terminal_array[t].screen_x, r.screen_y = terminal_array[t].screen_y,
         terminal_array' = [terminal_array EXCEPT ![t] = r],
         UNCHANGED <<video, curr_terminal, screen_terminal, cursor>>
  PROVE  Becomes(t, ConsoleOf(t), r.flag, r.waitingInRead, r.buffer)
<1>1. /\ terminal_array' \in [Terminals -> TerminalRecords] /\ terminal_array'[t] = r
      /\ \A u \in Terminals \ {t} : terminal_array'[u] = terminal_array[u]
  BY DEF ScreenTypes
<1>2. \A u \in Terminals : ConsoleOf(u)' = ConsoleOf(u)
  BY <1>1 DEF ConsoleOf, ImageOf, PageOf
<1>3. ScreenTypes'
  BY <1>1, <1>2 DEF ScreenTypes
<1> QED BY <1>1, <1>2, <1>3 DEF Becomes

\* Displaying another terminal changes no console: what the two copies
\* overwrite is a page that no terminal is on.
LEMMA SwitchKeeps ==
  ASSUME ScreenTypes, NEW t \in Terminals, SwitchScreen(t)
  PROVE  /\ ScreenTypes' /\ screen_terminal' = t
         /\ UNCHANGED <<terminal_array, curr_terminal>>
         /\ \A u \in Terminals : ConsoleOf(u)' = ConsoleOf(u)
<1>1. /\ video' = [Saved EXCEPT ![ScreenPage] = Saved[BackupPage(t)]]
      /\ Saved = [video EXCEPT ![BackupPage(screen_terminal)] = video[ScreenPage]]
      /\ screen_terminal' = t /\ UNCHANGED <<terminal_array, curr_terminal>>
      /\ cursor' = terminal_array[t].screen_y * NUM_COLS + terminal_array[t].screen_x
  BY DEF SwitchScreen, Saved, move_cursor
<1>2. /\ video' \in [0 .. NumTerminals -> Images]
      /\ \A u \in Terminals : ImageOf(u)' = ImageOf(u)
  <2> DEFINE last == NumTerminals
  <2>1. last \in Nat /\ \A u \in Terminals : u \in Int /\ 0 <= u /\ u < last
    BY TerminalsAssumption DEF Terminals
  <2>2. /\ t \in Terminals /\ screen_terminal \in Terminals /\ video \in [0 .. last -> Images]
        /\ screen_terminal' = t
        /\ Saved = [video EXCEPT ![screen_terminal + 1] = video[0]]
        /\ video' = [Saved EXCEPT ![0] = Saved[t + 1]]
    BY <1>1 DEF ScreenTypes, ScreenPage, BackupPage
  <2> HIDE DEF last
  <2>3. Saved \in [0 .. last -> Images] /\ video' \in [0 .. last -> Images]
    BY <2>1, <2>2
  <2>4. ASSUME NEW u \in Terminals PROVE ImageOf(u)' = ImageOf(u)
    <3>1. u + 1 \in 0 .. last /\ t + 1 \in 0 .. last
            /\ screen_terminal + 1 \in 0 .. last /\ 0 \in 0 .. last
      BY <2>1, <2>2
    <3>2. CASE u = t
      BY <2>1, <2>2, <2>3, <3>1, <3>2 DEF ImageOf, PageOf, ScreenPage, BackupPage
    <3>3. CASE u # t
      <4>1. ImageOf(u)' = Saved[u + 1]
        BY <2>1, <2>2, <2>3, <3>1, <3>3 DEF ImageOf, PageOf, ScreenPage, BackupPage
      <4> QED BY <2>1, <2>2, <3>1, <4>1 DEF ImageOf, PageOf, ScreenPage, BackupPage
    <3> QED BY <3>2, <3>3
  <2> QED BY <2>3, <2>4 DEF last
<1>3. \A u \in Terminals : ConsoleOf(u)' = ConsoleOf(u)
  BY <1>1, <1>2 DEF ConsoleOf
<1>4. ScreenTypes'
  BY <1>1, <1>2 DEF ScreenTypes, PlaceOf, ConsoleOf, CellNo
<1> QED BY <1>1, <1>3, <1>4

\* The fields of a terminal whose shell is started.
LEMMA BootedRecord ==
  ASSUME NEW term \in TerminalRecords
  PROVE  LET r == [term EXCEPT !.screen_x = 0, !.screen_y = 0, !.flag = 1]
         IN /\ r \in TerminalRecords /\ r.screen_x = 0 /\ r.screen_y = 0 /\ r.flag = 1
            /\ r.waitingInRead = term.waitingInRead /\ r.buffer = term.buffer
<1>1. ASSUME NEW r, r = [term EXCEPT !.screen_x = 0, !.screen_y = 0, !.flag = 1]
      PROVE  /\ r \in TerminalRecords /\ r.screen_x = 0 /\ r.screen_y = 0 /\ r.flag = 1
             /\ r.waitingInRead = term.waitingInRead /\ r.buffer = term.buffer
  <2> PICK x \in 0 .. NUM_COLS - 1, y \in 0 .. NUM_ROWS - 1, f \in {0, 1}, w \in {0, 1},
           b \in Seq(Chars \cup {END_OF_LINE}) :
        term = [screen_x |-> x, screen_y |-> y, flag |-> f, waitingInRead |-> w, buffer |-> b]
    BY DEF TerminalRecords
  <2>1. r = [screen_x |-> 0, screen_y |-> 0, flag |-> 1, waitingInRead |-> w, buffer |-> b]
    BY <1>1
  <2> QED BY <2>1 DEF TerminalRecords
<1> QED BY <1>1, Zenon

\* The first turn of a terminal clears its console, and no other.
LEMMA BootBecomes ==
  ASSUME ScreenTypes, TickBoots, NEW t, t = NextTerminal, NEW waiting, NEW line,
         waiting = terminal_array[t].waitingInRead, line = terminal_array[t].buffer
  PROVE  /\ t \in Terminals /\ terminal_array[t].flag = 0
         /\ curr_terminal' = t /\ UNCHANGED screen_terminal
         /\ Becomes(t, Clear(t), 1, waiting, line)
<1> DEFINE r == [terminal_array[t] EXCEPT !.screen_x = 0, !.screen_y = 0, !.flag = 1]
<1>1. t \in Terminals
  BY TerminalsAssumption DEF ScreenTypes, NextTerminal, Terminals
<1>2. /\ r \in TerminalRecords /\ r.screen_x = 0 /\ r.screen_y = 0 /\ r.flag = 1
      /\ r.waitingInRead = terminal_array[t].waitingInRead /\ r.buffer = terminal_array[t].buffer
  <2>1. terminal_array[t] \in TerminalRecords
    BY <1>1 DEF ScreenTypes
  <2> QED BY <2>1, BootedRecord
<1>3. /\ video' = [video EXCEPT ![PageOf(t)] = Clear(t).cells]
      /\ terminal_array' = [terminal_array EXCEPT ![t] = r]
      /\ cursor' = terminal_array'[screen_terminal].screen_y * NUM_COLS
                     + terminal_array'[screen_terminal].screen_x
      /\ terminal_array[t].flag = 0 /\ curr_terminal' = t /\ UNCHANGED screen_terminal
  BY <1>1 DEF TickBoots, move_cursor, PageOf, ScreenTypes
<1>4. t \in 0 .. NumTerminals
  <2> QED BY <1>1, TerminalsAssumption DEF Terminals
<1> HIDE DEF r
<1>5. Clear(t) \in Screens
  BY <1>4, Cleared
<1>6. /\ video' \in [0 .. NumTerminals -> Images] /\ video'[PageOf(t)] = Clear(t).cells
      /\ \A u \in Terminals \ {t} : video'[PageOf(u)] = video[PageOf(u)]
  BY <1>1, <1>3, <1>5, Pages DEF ScreenTypes, Screens
<1>7. /\ terminal_array' \in [Terminals -> TerminalRecords] /\ terminal_array'[t] = r
      /\ \A u \in Terminals \ {t} : terminal_array'[u] = terminal_array[u]
  BY <1>1, <1>2, <1>3 DEF ScreenTypes
<1>8. \A u \in Terminals : PageOf(u)' = PageOf(u)
  BY <1>3 DEF PageOf
<1>9. ScreenTypes'
  BY <1>1, <1>3, <1>6, <1>7 DEF ScreenTypes, PlaceOf, ConsoleOf, CellNo
<1>10. ConsoleOf(t)' = Clear(t)
  <2>1. Clear(t) = [cells |-> Clear(t).cells, x |-> 0, y |-> 0]
    BY DEF Clear
  <2>2. ConsoleOf(t)' = [cells |-> video'[PageOf(t)'],
                         x |-> terminal_array'[t].screen_x, y |-> terminal_array'[t].screen_y]
    BY DEF ConsoleOf, ImageOf
  <2> QED BY <2>1, <2>2, <1>1, <1>2, <1>6, <1>7, <1>8
<1>11. \A u \in Terminals \ {t} : ConsoleOf(u)' = ConsoleOf(u)
  BY <1>6, <1>7, <1>8 DEF ConsoleOf, ImageOf
<1>12. Becomes(t, Clear(t), 1, waiting, line)
  BY <1>2, <1>7, <1>9, <1>10, <1>11 DEF Becomes
<1> QED BY <1>1, <1>3, <1>12

-----------------------------------------------------------------------------
(***************************************************************************)
(* The invariant.  LineStandsBeforeCursor is not inductive alone: it needs *)
(* the types, lines short enough for the screen, nothing typed where no    *)
(* program reads, and no program reading where no shell has been started.  *)
(***************************************************************************)
InOrder(flag, waiting, line) ==
  /\ flag = 0 => waiting = 0
  /\ waiting = 0 => line = <<>>
  /\ Len(line) <= MAX_BUF_SIZE
  /\ ~Contains(line, END_OF_LINE) => Len(line) <= MAX_BUF_SIZE - 1

LineStands(t, s, line) ==
  ~Contains(line, END_OF_LINE) => StandsAt(s.cells, PlaceOf(s), line, t)

Started == terminal_array[curr_terminal].flag = 1

ScreenInv ==
  /\ ScreenTypes /\ Started
  /\ \A t \in Terminals :
       /\ InOrder(terminal_array[t].flag, terminal_array[t].waitingInRead, terminal_array[t].buffer)
       /\ LineStands(t, ConsoleOf(t), terminal_array[t].buffer)

\* A change of one terminal keeps the invariant, if that terminal is in order
\* after it.
LEMMA BecomesKeeps ==
  ASSUME ScreenInv, NEW t \in Terminals, NEW s, NEW flag, NEW waiting, NEW line,
         Becomes(t, s, flag, waiting, line), InOrder(flag, waiting, line), LineStands(t, s, line),
         Started'
  PROVE  ScreenInv'
<1>1. ASSUME NEW u \in Terminals
      PROVE  /\ InOrder(terminal_array[u].flag, terminal_array[u].waitingInRead, terminal_array[u].buffer)'
             /\ LineStands(u, ConsoleOf(u), terminal_array[u].buffer)'
  <2>1. CASE u = t
    BY <2>1 DEF Becomes, LineStands, InOrder
  <2>2. CASE u # t
    BY <2>2 DEF Becomes, LineStands, InOrder, ScreenInv
  <2> QED BY <2>1, <2>2
<1> QED BY <1>1 DEF ScreenInv, Becomes

\* A line without its newline is of characters only.
LEMMA OpenLine ==
  ASSUME NEW line \in Seq(Chars \cup {END_OF_LINE}), ~Contains(line, END_OF_LINE)
  PROVE  line \in Seq(Chars)
BY DEF Contains

-----------------------------------------------------------------------------
(***************************************************************************)
(* The consoles that the pages stand for, and what one step does to them.  *)
(* TextScreen's operators are the same in Consoles.                        *)
(***************************************************************************)
MappedConsole == [t \in Terminals |-> ConsoleOf(t)]
MappedLine == [t \in Terminals |-> terminal_array[t].buffer]
MappedReading == [t \in Terminals |-> terminal_array[t].waitingInRead = 1]
MappedStarted == [t \in Terminals |-> terminal_array[t].flag = 1]

\* Consoles draws with the same operators.
LEMMA Same ==
  /\ \A s, text, a : C!PutAll(s, text, a) = PutAll(s, text, a)
  /\ \A s, c, a : C!Put(s, c, a) = Put(s, c, a)
  /\ \A s : C!Erase(s) = Erase(s)
  /\ \A a : C!Clear(a) = Clear(a)
  /\ \A text, c : C!Contains(text, c) = Contains(text, c)
  /\ \A text : C!Front(text) = Front(text)
  /\ C!Terminals = Terminals
<1>1. C!Cells = Cells /\ \A s : C!NextLine(s) = NextLine(s)
  BY DEF C!Cells, Cells, C!NextLine, NextLine
<1>2. \A s : C!check_size(s) = check_size(s)
  BY <1>1 DEF C!check_size, check_size
<1>3. \A s, a : C!Scrolled(s, a) = Scrolled(s, a)
  BY <1>1, Zenon DEF C!Scrolled, Scrolled
<1>4. \A s, c, a : C!Put(s, c, a) = Put(s, c, a)
  BY <1>1, <1>2, <1>3, Zenon DEF C!Put, Put
<1>5. \A s, text, a : C!PutAll(s, text, a) = PutAll(s, text, a)
  BY DEF C!PutAll, PutAll, C!Put, Put, C!Scrolled, Scrolled, C!check_size, check_size,
         C!NextLine, NextLine, C!Cells, Cells
<1>6. \A s : C!Erase(s) = Erase(s)
  BY Zenon DEF C!Erase, Erase
<1>7. \A a : C!Clear(a) = Clear(a)
  BY Zenon DEF C!Clear, Clear, C!Cells, Cells
<1>8. \A text, c : C!Contains(text, c) = Contains(text, c)
  BY Zenon DEF C!Contains, Contains
<1>9. \A text : C!Front(text) = Front(text)
  BY Zenon DEF C!Front, Front
<1> QED BY <1>4, <1>5, <1>6, <1>7, <1>8, <1>9, Zenon DEF C!Terminals, Terminals

\* The consoles after a change of one terminal.
LEMMA MappedBecomes ==
  ASSUME NEW t \in Terminals, NEW s, NEW flag, NEW waiting, NEW line,
         Becomes(t, s, flag, waiting, line)
  PROVE  /\ MappedConsole' = [MappedConsole EXCEPT ![t] = s]
         /\ MappedLine' = [MappedLine EXCEPT ![t] = line]
         /\ MappedReading' = [MappedReading EXCEPT ![t] = (waiting = 1)]
         /\ MappedStarted' = [MappedStarted EXCEPT ![t] = (flag = 1)]
<1>1. /\ ConsoleOf(t)' = s
      /\ terminal_array[t]'.flag = flag /\ terminal_array[t]'.waitingInRead = waiting
      /\ terminal_array[t]'.buffer = line
      /\ \A u \in Terminals \ {t} :
           ConsoleOf(u)' = ConsoleOf(u) /\ terminal_array[u]' = terminal_array[u]
  BY DEF Becomes
<1>2. MappedConsole' = [MappedConsole EXCEPT ![t] = s]
  BY <1>1 DEF MappedConsole
<1>3. MappedLine' = [MappedLine EXCEPT ![t] = line]
  BY <1>1 DEF MappedLine
<1>4. MappedReading' = [MappedReading EXCEPT ![t] = (waiting = 1)]
  BY <1>1 DEF MappedReading
<1>5. MappedStarted' = [MappedStarted EXCEPT ![t] = (flag = 1)]
  BY <1>1 DEF MappedStarted
<1> QED BY <1>2, <1>3, <1>4, <1>5

\* The values of the mapped variables.
LEMMA Mapped ==
  ASSUME NEW t \in Terminals
  PROVE  /\ MappedConsole[t] = ConsoleOf(t) /\ MappedLine[t] = terminal_array[t].buffer
         /\ MappedReading[t] = (terminal_array[t].waitingInRead = 1)
         /\ MappedStarted[t] = (terminal_array[t].flag = 1)
BY Zenon DEF MappedConsole, MappedLine, MappedReading, MappedStarted

\* Replacing a value by itself changes nothing.
LEMMA Kept ==
  ASSUME NEW t \in Terminals
  PROVE  /\ [MappedConsole EXCEPT ![t] = ConsoleOf(t)] = MappedConsole
         /\ [MappedLine EXCEPT ![t] = terminal_array[t].buffer] = MappedLine
         /\ [MappedReading EXCEPT ![t] = (terminal_array[t].waitingInRead = 1)] = MappedReading
         /\ [MappedStarted EXCEPT ![t] = (terminal_array[t].flag = 1)] = MappedStarted
<1>1. [MappedConsole EXCEPT ![t] = ConsoleOf(t)] = MappedConsole
  BY DEF MappedConsole
<1>2. [MappedLine EXCEPT ![t] = terminal_array[t].buffer] = MappedLine
  BY DEF MappedLine
<1>3. [MappedReading EXCEPT ![t] = (terminal_array[t].waitingInRead = 1)] = MappedReading
  BY DEF MappedReading
<1>4. [MappedStarted EXCEPT ![t] = (terminal_array[t].flag = 1)] = MappedStarted
  BY DEF MappedStarted
<1> QED BY <1>1, <1>2, <1>3, <1>4

\* What the invariant says of one terminal.
LEMMA InvFacts ==
  ASSUME ScreenInv, NEW t \in Terminals
  PROVE  /\ terminal_array[t] \in TerminalRecords /\ ConsoleOf(t) \in Screens
         /\ terminal_array[t].flag \in {0, 1} /\ terminal_array[t].waitingInRead \in {0, 1}
         /\ terminal_array[t].buffer \in Seq(Chars \cup {END_OF_LINE})
         /\ InOrder(terminal_array[t].flag, terminal_array[t].waitingInRead, terminal_array[t].buffer)
         /\ LineStands(t, ConsoleOf(t), terminal_array[t].buffer)
         /\ t \in 0 .. NumTerminals
<1>1. terminal_array[t] \in TerminalRecords
  BY DEF ScreenInv, ScreenTypes
<1>2. t \in 0 .. NumTerminals
  BY TerminalsAssumption DEF Terminals
<1> QED BY <1>1, <1>2, Pages DEF ScreenInv, TerminalRecords

\* Where nothing is typed, any screen will do.
LEMMA NothingTyped ==
  ASSUME ScreenInv, NEW t \in Terminals, NEW s \in Screens
  PROVE  LineStands(t, s, <<>>)
<1>1. PlaceOf(s) \in Nat
  BY PlaceOnScreen DEF Places
<1> QED BY <1>1 DEF LineStands, StandsAt

-----------------------------------------------------------------------------
(***************************************************************************)
(* One lemma per action: it keeps the invariant and is a step of Consoles. *)
(***************************************************************************)
TermIs(t, s, flag, waiting, line) ==
  /\ s = ConsoleOf(t) /\ flag = terminal_array[t].flag
  /\ waiting = terminal_array[t].waitingInRead /\ line = terminal_array[t].buffer

MappedStep(t, s, flag, waiting, line) ==
  /\ MappedConsole' = [MappedConsole EXCEPT ![t] = s]
  /\ MappedLine' = [MappedLine EXCEPT ![t] = line]
  /\ MappedReading' = [MappedReading EXCEPT ![t] = (waiting = 1)]
  /\ MappedStarted' = [MappedStarted EXCEPT ![t] = (flag = 1)]

\* A change of one terminal: the invariant, and the consoles before and after
\* it.
LEMMA StepKeeps ==
  ASSUME ScreenInv, NEW t \in Terminals,
         NEW before, NEW flag0, NEW waiting0, NEW line0, TermIs(t, before, flag0, waiting0, line0),
         NEW s, NEW flag, NEW waiting, NEW line,
         Becomes(t, s, flag, waiting, line), InOrder(flag, waiting, line), LineStands(t, s, line),
         flag = 1 \/ t # curr_terminal, curr_terminal' = curr_terminal
  PROVE  /\ ScreenInv'
         /\ MappedConsole' = [MappedConsole EXCEPT ![t] = s]
         /\ MappedLine' = [MappedLine EXCEPT ![t] = line]
         /\ MappedReading' = [MappedReading EXCEPT ![t] = (waiting = 1)]
         /\ MappedConsole[t] = before /\ MappedLine[t] = line0
         /\ MappedReading[t] = (waiting0 = 1) /\ MappedStarted[t] = (flag0 = 1)
         /\ s = before => MappedConsole' = MappedConsole
         /\ line = line0 => MappedLine' = MappedLine
         /\ waiting = waiting0 => MappedReading' = MappedReading
         /\ flag = flag0 => MappedStarted' = MappedStarted
<1>1. Started'
  BY DEF ScreenInv, ScreenTypes, Started, Becomes
<1>2. ScreenInv'
  BY <1>1, BecomesKeeps
<1>3. /\ MappedConsole' = [MappedConsole EXCEPT ![t] = s]
      /\ MappedLine' = [MappedLine EXCEPT ![t] = line]
      /\ MappedReading' = [MappedReading EXCEPT ![t] = (waiting = 1)]
      /\ MappedStarted' = [MappedStarted EXCEPT ![t] = (flag = 1)]
  BY MappedBecomes
<1>4. /\ MappedConsole[t] = before /\ MappedLine[t] = line0
      /\ MappedReading[t] = (waiting0 = 1) /\ MappedStarted[t] = (flag0 = 1)
  BY Mapped, Zenon DEF TermIs
<1>5. /\ [MappedConsole EXCEPT ![t] = before] = MappedConsole
      /\ [MappedLine EXCEPT ![t] = line0] = MappedLine
      /\ [MappedReading EXCEPT ![t] = (waiting0 = 1)] = MappedReading
      /\ [MappedStarted EXCEPT ![t] = (flag0 = 1)] = MappedStarted
  BY Kept, Zenon DEF TermIs
<1> QED BY <1>2, <1>3, <1>4, <1>5, Zenon

\* A program prints on the console of its own terminal.
LEMMA WriteStep ==
  ASSUME ScreenInv, NEW text \in Texts, Write(text)
  PROVE  ScreenInv' /\ C!Write(text)
<1>1. PICK t, before, flag, waiting, line, terms :
        t = curr_terminal /\ TermIs(t, before, flag, waiting, line) /\ terms = terminal_array
  BY Zenon DEF TermIs
<1>2. ScreenTypes /\ Started /\ t \in Terminals
  BY <1>1 DEF ScreenInv, ScreenTypes
<1>3. /\ Draw(FALSE, PutAll(Shown(FALSE), text, Drawn(FALSE)), terms)
      /\ UNCHANGED <<curr_terminal, screen_terminal>>
      /\ waiting = 0
  BY <1>1 DEF Write, Runs, TermIs
<1>4. t = Drawn(FALSE) /\ DrawnPage(FALSE) = PageOf(t)
  BY <1>1 DEF Drawn, OnBackup, DrawnPage, PageOf
<1>5. Shown(FALSE) = before
  BY <1>1, <1>4 DEF Shown, ConsoleOf, ImageOf, TermIs
<1>6. text \in Seq(Chars \cup {END_OF_LINE, NUL})
  BY TextsAssumption
<1>7. PICK s : s = PutAll(before, text, t)
  OBVIOUS
<1>8. /\ s \in Screens /\ terms \in [Terminals -> TerminalRecords]
      /\ InOrder(flag, waiting, line) /\ line = <<>> /\ flag = 1
  BY <1>1, <1>2, <1>3, <1>6, <1>7, InvFacts, PutAllScreen DEF TermIs, ScreenTypes, InOrder, Started
<1>9. Draw(FALSE, s, terms)
  BY <1>3, <1>4, <1>5, <1>7, Zenon
<1>10. \A u \in Terminals \ {t} : terms[u] = terminal_array[u]
  BY <1>1
<1>11. Becomes(t, s, flag, waiting, line)
  <2>1. Becomes(t, s, terms[t].flag, terms[t].waitingInRead, terms[t].buffer)
    BY <1>2, <1>3, <1>4, <1>8, <1>9, <1>10, DrawBecomes
  <2>2. flag = terms[t].flag /\ waiting = terms[t].waitingInRead /\ line = terms[t].buffer
    BY <1>1 DEF TermIs
  <2> QED BY <2>1, <2>2, Zenon
<1>12. LineStands(t, s, line)
  BY <1>2, <1>8, NothingTyped
<1>13. curr_terminal' = curr_terminal
  BY <1>3
<1>14. /\ ScreenInv'
       /\ MappedConsole' = [MappedConsole EXCEPT ![t] = s]
       /\ MappedLine' = MappedLine /\ MappedReading' = MappedReading /\ MappedStarted' = MappedStarted
       /\ MappedConsole[t] = before
       /\ MappedReading[t] = (waiting = 1) /\ MappedStarted[t] = (flag = 1)
  BY <1>1, <1>2, <1>8, <1>11, <1>12, <1>13, StepKeeps
<1>15. ~MappedReading[t] /\ MappedStarted[t]
  <2>1. waiting # 1
    BY <1>3
  <2> QED BY <1>8, <1>14, <2>1, Zenon
<1>16. C!Write(text)
  BY <1>1, <1>3, <1>7, <1>14, <1>15, Same, Zenon
     DEF C!Write, MappedConsole, MappedLine, MappedReading, MappedStarted
<1> QED BY <1>14, <1>16

\* A program begins to read, or is given its line.
LEMMA ReadStep ==
  ASSUME ScreenInv, Read \/ ReadReturns
  PROVE  ScreenInv' /\ C!Read
<1>1. PICK t, before, flag, waiting, line, term :
        t = curr_terminal /\ TermIs(t, before, flag, waiting, line) /\ term = terminal_array[t]
  BY Zenon DEF TermIs
<1>2. ScreenTypes /\ Started /\ t \in Terminals
  BY <1>1 DEF ScreenInv, ScreenTypes
<1>3. /\ term \in TerminalRecords /\ flag = 1 /\ waiting \in {0, 1}
      /\ line \in Seq(Chars \cup {END_OF_LINE}) /\ before \in Screens
      /\ InOrder(flag, waiting, line) /\ LineStands(t, before, line)
  BY <1>1, <1>2, InvFacts DEF TermIs, Started
<1>4. PICK r : /\ terminal_array' = [terminal_array EXCEPT ![t] = r]
               /\ \/ waiting = 0 /\ r = [term EXCEPT !.waitingInRead = 1]
                  \/ /\ Contains(line, END_OF_LINE)
                     /\ r = [term EXCEPT !.waitingInRead = 0, !.buffer = <<>>]
  <2>1. CASE Read
    BY <1>1, <1>2, <2>1 DEF Read, Runs, TermIs, ScreenTypes
  <2>2. CASE ReadReturns
    BY <1>1, <1>2, <2>2 DEF ReadReturns, Entered, TermIs, ScreenTypes
  <2> QED BY <2>1, <2>2
<1>5. UNCHANGED <<video, curr_terminal, screen_terminal, cursor>>
  BY DEF Read, ReadReturns
<1>6. /\ term.flag = flag /\ term.waitingInRead = waiting /\ term.buffer = line
  BY <1>1 DEF TermIs
<1>7. /\ r \in TerminalRecords /\ r.screen_x = term.screen_x /\ r.screen_y = term.screen_y
      /\ r.flag = flag /\ r.waitingInRead = 1 - waiting /\ r.buffer = <<>>
  <2> PICK x \in 0 .. NUM_COLS - 1, y \in 0 .. NUM_ROWS - 1 :
        term = [screen_x |-> x, screen_y |-> y,
                flag |-> flag, waitingInRead |-> waiting, buffer |-> line]
    BY <1>3, <1>6 DEF TerminalRecords
  <2>1. CASE waiting = 0 /\ r = [term EXCEPT !.waitingInRead = 1]
    <3>1. r = [screen_x |-> x, screen_y |-> y, flag |-> flag, waitingInRead |-> 1, buffer |-> line]
      BY <2>1
    <3>2. line = <<>>
      BY <1>3, <2>1 DEF InOrder
    <3>3. flag \in {0, 1} /\ 1 \in {0, 1} /\ 1 - waiting = 1
      BY <1>3, <2>1
    <3>4. r \in TerminalRecords
      BY <1>3, <3>1, <3>3 DEF TerminalRecords
    <3> QED BY <1>6, <3>1, <3>2, <3>3, <3>4
  <2>2. CASE Contains(line, END_OF_LINE) /\ r = [term EXCEPT !.waitingInRead = 0, !.buffer = <<>>]
    <3>1. r = [screen_x |-> x, screen_y |-> y, flag |-> flag, waitingInRead |-> 0, buffer |-> <<>>]
      BY <2>2
    <3>2. line # <<>>
      BY <2>2 DEF Contains
    <3> QED BY <1>3, <3>1, <3>2 DEF TerminalRecords, InOrder
  <2> QED BY <1>4, <2>1, <2>2
<1>8. PICK w : w = 1 - waiting
  OBVIOUS
<1>9. Becomes(t, before, flag, w, <<>>)
  <2>1. Becomes(t, ConsoleOf(t), r.flag, r.waitingInRead, r.buffer)
    BY <1>1, <1>2, <1>4, <1>5, <1>7, FieldsBecome
  <2> QED BY <1>1, <1>7, <1>8, <2>1, Zenon DEF TermIs
<1>10. InOrder(flag, w, <<>>) /\ LineStands(t, before, <<>>)
  BY <1>2, <1>3, NothingTyped, LineFitsOnScreen DEF InOrder
<1>11. curr_terminal' = curr_terminal
  BY <1>5
<1>12. /\ ScreenInv'
       /\ MappedConsole' = MappedConsole /\ MappedStarted' = MappedStarted
       /\ MappedLine' = [MappedLine EXCEPT ![t] = <<>>]
       /\ MappedReading' = [MappedReading EXCEPT ![t] = (w = 1)]
       /\ MappedLine[t] = line
       /\ MappedReading[t] = (waiting = 1) /\ MappedStarted[t] = (flag = 1)
  BY <1>1, <1>2, <1>3, <1>9, <1>10, <1>11, StepKeeps
<1>13. (w = 1) = ~(waiting = 1) /\ (waiting = 1 => Contains(line, END_OF_LINE))
  BY <1>3, <1>4, <1>8
<1>14. /\ MappedReading' = [MappedReading EXCEPT ![t] = ~MappedReading[t]]
       /\ MappedReading[t] => Contains(MappedLine[t], END_OF_LINE)
       /\ MappedStarted[t]
  BY <1>3, <1>12, <1>13, Zenon
<1>15. C!Read
  BY <1>1, <1>5, <1>12, <1>14, Same, Zenon
     DEF C!Read, MappedConsole, MappedLine, MappedReading, MappedStarted
<1> QED BY <1>12, <1>15
OpenEdit(t, before, flag, waiting, line) ==
  /\ ScreenTypes /\ t \in Terminals /\ t \in 0 .. NumTerminals
  /\ t = Drawn(TRUE) /\ Shown(TRUE) = before /\ before \in Screens
  /\ flag = 1 /\ waiting = 1
  /\ ~Contains(line, END_OF_LINE) /\ line \in Seq(Chars)
  /\ Len(line) <= MAX_BUF_SIZE - 1
  /\ StandsAt(before.cells, PlaceOf(before), line, t)

\* The terminal displayed, when its program reads a line not yet entered.
LEMMA EditedFacts ==
  ASSUME ScreenInv, Edits, NEW t, t = screen_terminal,
         NEW before, NEW flag, NEW waiting, NEW line, TermIs(t, before, flag, waiting, line)
  PROVE  OpenEdit(t, before, flag, waiting, line)
<1>1. ScreenTypes /\ t \in Terminals
  BY DEF ScreenInv, ScreenTypes
<1>2. t = Drawn(TRUE) /\ DrawnPage(TRUE) = PageOf(t)
  BY DEF Drawn, OnBackup, DrawnPage, PageOf
<1>3. Shown(TRUE) = before
  BY <1>2 DEF Shown, ConsoleOf, ImageOf, TermIs
<1>4. waiting = 1 /\ ~Contains(line, END_OF_LINE)
  BY DEF Edits, Edited, Entered, TermIs
<1>5. /\ before \in Screens /\ flag \in {0, 1} /\ line \in Seq(Chars \cup {END_OF_LINE})
      /\ InOrder(flag, waiting, line) /\ LineStands(t, before, line) /\ t \in 0 .. NumTerminals
  BY <1>1, InvFacts DEF TermIs
<1>6. flag = 1 /\ Len(line) <= MAX_BUF_SIZE - 1 /\ StandsAt(before.cells, PlaceOf(before), line, t)
  BY <1>4, <1>5 DEF InOrder, LineStands
<1> QED BY <1>1, <1>2, <1>3, <1>4, <1>5, <1>6, OpenLine DEF OpenEdit

\* A key changes the console displayed and its line.
LEMMA KeyBecomes ==
  ASSUME ScreenTypes, NEW t, t = screen_terminal, t \in Terminals, t = Drawn(TRUE),
         NEW before, NEW flag, NEW waiting, NEW line, TermIs(t, before, flag, waiting, line),
         NEW s \in Screens, NEW new \in Seq(Chars \cup {END_OF_LINE}),
         Draw(TRUE, s, WithBuffer(new)), UNCHANGED <<curr_terminal, screen_terminal>>
  PROVE  Becomes(t, s, flag, waiting, new)
<1>1. PICK terms : terms = WithBuffer(new)
  OBVIOUS
<1>2. terminal_array \in [Terminals -> TerminalRecords]
      /\ terms = [terminal_array EXCEPT ![t].buffer = new]
  BY <1>1 DEF ScreenTypes, WithBuffer
<1>3. PICK r : r = [terminal_array[t] EXCEPT !.buffer = new]
  OBVIOUS
<1>4. /\ r \in TerminalRecords /\ r.flag = flag /\ r.waitingInRead = waiting /\ r.buffer = new
  BY <1>2, <1>3 DEF TerminalRecords, TermIs
<1>5. /\ terms \in [Terminals -> TerminalRecords] /\ terms[t] = r
      /\ \A u \in Terminals \ {t} : terms[u] = terminal_array[u]
  BY <1>2, <1>3, <1>4
<1>6. Becomes(t, s, terms[t].flag, terms[t].waitingInRead, terms[t].buffer)
  <2>1. Draw(TRUE, s, terms)
    BY <1>1
  <2> QED BY <1>5, <2>1, DrawBecomes
<1> QED BY <1>4, <1>5, <1>6, Zenon

\* A character key, or Enter.
LEMMA TypeKeyStep ==
  ASSUME ScreenInv, NEW c \in Chars \cup {END_OF_LINE}, TypeKey(c)
  PROVE  ScreenInv' /\ C!Key(c)
<1>1. PICK t, before, flag, waiting, line :
        t = screen_terminal /\ TermIs(t, before, flag, waiting, line)
  BY Zenon DEF TermIs
<1>2. /\ Edits /\ (c = END_OF_LINE \/ Len(line) # MAX_BUF_SIZE - 1)
      /\ Draw(TRUE, Put(Shown(TRUE), c, t), WithBuffer(Append(line, c)))
      /\ UNCHANGED <<curr_terminal, screen_terminal>>
  BY <1>1 DEF TypeKey, Edited, TermIs
<1>3. OpenEdit(t, before, flag, waiting, line)
  BY <1>1, <1>2, EditedFacts, Zenon
<1>4. /\ ScreenTypes /\ t \in Terminals /\ t \in 0 .. NumTerminals
      /\ t = Drawn(TRUE) /\ Shown(TRUE) = before /\ before \in Screens
      /\ flag = 1 /\ waiting = 1
      /\ ~Contains(line, END_OF_LINE) /\ line \in Seq(Chars)
      /\ Len(line) <= MAX_BUF_SIZE - 1
      /\ StandsAt(before.cells, PlaceOf(before), line, t)
  BY <1>3 DEF OpenEdit
<1>5. PICK s, new : s = Put(before, c, t) /\ new = Append(line, c)
  OBVIOUS
<1>6. s \in Screens /\ new \in Seq(Chars \cup {END_OF_LINE}) /\ Len(new) = Len(line) + 1
  <2>1. s \in Screens
    BY <1>4, <1>5, PutScreen
  <2>2. new \in Seq(Chars \cup {END_OF_LINE}) /\ Len(new) = Len(line) + 1
    BY <1>4, <1>5
  <2> QED BY <2>1, <2>2
<1>7. Becomes(t, s, flag, waiting, new)
  <2>1. Draw(TRUE, s, WithBuffer(new))
    BY <1>2, <1>4, <1>5, Zenon
  <2> QED BY <1>1, <1>2, <1>4, <1>6, <2>1, KeyBecomes
<1>8. c = END_OF_LINE => Contains(new, END_OF_LINE)
  <2>1. new[Len(line) + 1] = c /\ Len(line) + 1 \in 1 .. Len(new)
    BY <1>4, <1>5
  <2> QED BY <2>1 DEF Contains
<1>9. c # END_OF_LINE => Len(line) < MAX_BUF_SIZE - 1
  BY <1>2, <1>4, LineFitsOnScreen
<1>10. InOrder(flag, waiting, new)
  BY <1>4, <1>6, <1>8, <1>9, LineFitsOnScreen DEF InOrder
<1>11. LineStands(t, s, new)
  <2>1. CASE c = END_OF_LINE
    BY <1>8, <2>1 DEF LineStands
  <2>2. CASE c # END_OF_LINE
    <3>1. c \in Chars /\ Len(line) + 1 <= (NUM_ROWS - 1) * NUM_COLS
      BY <1>4, <1>9, <2>2, LineFitsOnScreen
    <3> QED BY <1>4, <1>5, <3>1, PutStands DEF LineStands
  <2> QED BY <2>1, <2>2
<1>12. curr_terminal' = curr_terminal /\ flag = 1 /\ t \in Terminals
  BY <1>2, <1>4
<1>13. /\ ScreenInv'
       /\ MappedConsole' = [MappedConsole EXCEPT ![t] = s]
       /\ MappedLine' = [MappedLine EXCEPT ![t] = new]
       /\ MappedReading' = MappedReading /\ MappedStarted' = MappedStarted
       /\ MappedConsole[t] = before /\ MappedLine[t] = line
       /\ MappedReading[t] = (waiting = 1) /\ MappedStarted[t] = (flag = 1)
  BY <1>1, <1>12, <1>7, <1>10, <1>11, StepKeeps
<1>14. MappedReading[t]
  BY <1>4, <1>13, Zenon
<1>15. C!Edits
  BY <1>1, <1>4, <1>13, <1>14, Same, Zenon DEF C!Edits, MappedLine, MappedReading
<1>16. C!Key(c)
  BY <1>1, <1>2, <1>5, <1>9, <1>13, <1>15, Same, Zenon
     DEF C!Key, MappedConsole, MappedLine, MappedReading, MappedStarted
<1> QED BY <1>13, <1>16

\* What Backspace leaves.
LEMMA BackspaceBecomes ==
  ASSUME ScreenInv, BackspaceKey, NEW t, t = screen_terminal,
         NEW before, NEW flag, NEW waiting, NEW line, TermIs(t, before, flag, waiting, line),
         NEW s, NEW new, s = Erase(before), new = Front(line)
  PROVE  /\ OpenEdit(t, before, flag, waiting, line) /\ line # <<>>
         /\ UNCHANGED <<curr_terminal, screen_terminal>>
         /\ Becomes(t, s, flag, waiting, new)
<1>1. /\ Edits /\ line # <<>>
      /\ Draw(TRUE, Erase(Shown(TRUE)), WithBuffer(Front(line)))
      /\ UNCHANGED <<curr_terminal, screen_terminal>>
  BY DEF BackspaceKey, Edited, TermIs
<1>2. OpenEdit(t, before, flag, waiting, line)
  BY <1>1, EditedFacts, Zenon
<1>3. /\ ScreenTypes /\ t \in Terminals /\ t = Drawn(TRUE) /\ Shown(TRUE) = before
      /\ before \in Screens /\ line \in Seq(Chars)
      /\ StandsAt(before.cells, PlaceOf(before), line, t)
  BY <1>2 DEF OpenEdit
<1>4. new \in Seq(Chars \cup {END_OF_LINE})
  <2>1. new \in Seq(Chars)
    BY <1>1, <1>3, FrontOf
  <2> QED BY <2>1
<1>5. s \in Screens
  BY <1>1, <1>3, Erased, ErasedStands
<1>6. Draw(TRUE, s, WithBuffer(new))
  BY <1>1, <1>3, Zenon
<1>7. Becomes(t, s, flag, waiting, new)
  BY <1>1, <1>3, <1>4, <1>5, <1>6, KeyBecomes
<1> QED BY <1>1, <1>2, <1>7

\* Backspace.
LEMMA BackspaceStep ==
  ASSUME ScreenInv, BackspaceKey
  PROVE  ScreenInv' /\ C!Rubout
<1>1. PICK t, before, flag, waiting, line :
        t = screen_terminal /\ TermIs(t, before, flag, waiting, line)
  BY Zenon DEF TermIs
<1>2. PICK s, new : s = Erase(before) /\ new = Front(line)
  OBVIOUS
<1>3. /\ OpenEdit(t, before, flag, waiting, line) /\ line # <<>>
      /\ UNCHANGED <<curr_terminal, screen_terminal>>
      /\ Becomes(t, s, flag, waiting, new)
  BY <1>1, <1>2, BackspaceBecomes, Zenon
<1>4. /\ t \in Terminals /\ t \in 0 .. NumTerminals /\ before \in Screens
      /\ flag = 1 /\ waiting = 1
      /\ ~Contains(line, END_OF_LINE) /\ line \in Seq(Chars)
      /\ Len(line) <= MAX_BUF_SIZE - 1
      /\ StandsAt(before.cells, PlaceOf(before), line, t)
  BY <1>3 DEF OpenEdit
<1>5. new \in Seq(Chars) /\ Len(new) = Len(line) - 1 /\ Len(line) # 0
  BY <1>3, <1>4, <1>2, FrontOf
<1>6. StandsAt(s.cells, PlaceOf(s), new, t)
  BY <1>3, <1>4, <1>2, ErasedStands
<1>7. Becomes(t, s, flag, waiting, new)
  BY <1>3
<1>8. InOrder(flag, waiting, new)
  BY <1>4, <1>5, LineFitsOnScreen DEF InOrder
<1>9. LineStands(t, s, new)
  BY <1>6 DEF LineStands
<1>10. curr_terminal' = curr_terminal /\ flag = 1 /\ t \in Terminals
  BY <1>3, <1>4
<1>11. /\ ScreenInv'
      /\ MappedConsole' = [MappedConsole EXCEPT ![t] = s]
      /\ MappedLine' = [MappedLine EXCEPT ![t] = new]
      /\ MappedReading' = MappedReading /\ MappedStarted' = MappedStarted
      /\ MappedConsole[t] = before /\ MappedLine[t] = line
      /\ MappedReading[t] = (waiting = 1) /\ MappedStarted[t] = (flag = 1)
  BY <1>1, <1>10, <1>7, <1>8, <1>9, StepKeeps
<1>12. MappedReading[t]
  BY <1>4, <1>11, Zenon
<1>13. C!Edits
  BY <1>1, <1>4, <1>11, <1>12, Same, Zenon DEF C!Edits, MappedLine, MappedReading
<1>14. C!Rubout
  BY <1>1, <1>3, <1>2, <1>11, <1>13, Same, Zenon
     DEF C!Rubout, MappedConsole, MappedLine, MappedReading, MappedStarted
<1> QED BY <1>11, <1>14

\* Ctrl-L.
LEMMA ClearKeyStep ==
  ASSUME ScreenInv, ClearKey
  PROVE  ScreenInv' /\ C!Redraw
<1>1. PICK t, before, flag, waiting, line, terms :
        t = screen_terminal /\ TermIs(t, before, flag, waiting, line) /\ terms = terminal_array
  BY Zenon DEF TermIs
<1>2. ScreenTypes /\ Started /\ t \in Terminals
  BY <1>1 DEF ScreenInv, ScreenTypes
<1>3. PICK s : s = PutAll(Clear(t), line, t)
  OBVIOUS
<1>4. Draw(TRUE, s, terms) /\ UNCHANGED <<curr_terminal, screen_terminal>>
  BY <1>1, <1>3, Zenon DEF ClearKey, Redrawn, Edited, TermIs
<1>5. t = Drawn(TRUE)
  BY <1>1 DEF Drawn, OnBackup
<1>6. /\ terms \in [Terminals -> TerminalRecords] /\ line \in Seq(Chars \cup {END_OF_LINE})
      /\ InOrder(flag, waiting, line) /\ t \in 0 .. NumTerminals
  BY <1>1, <1>2, InvFacts DEF TermIs, ScreenTypes
<1>7. s \in Screens /\ LineStands(t, s, line)
  <2>1. CASE Contains(line, END_OF_LINE)
    <3>1. line \in Seq(Chars \cup {END_OF_LINE, NUL})
      BY <1>6
    <3>2. s \in Screens
      BY <1>3, <1>6, <3>1, Cleared, PutAllScreen
    <3> QED BY <2>1, <3>2 DEF LineStands
  <2>2. CASE ~Contains(line, END_OF_LINE)
    <3>1. line \in Seq(Chars)
      BY <1>6, <2>2, OpenLine
    <3>2. Len(line) <= (NUM_ROWS - 1) * NUM_COLS
      BY <1>6, <2>2, <3>1, LineFitsOnScreen DEF InOrder
    <3> QED BY <1>3, <1>6, <3>1, <3>2, RedrawStands DEF LineStands
  <2> QED BY <2>1, <2>2
<1>8. Becomes(t, s, flag, waiting, line)
  <2>1. \A u \in Terminals \ {t} : terms[u] = terminal_array[u]
    BY <1>1
  <2>2. Becomes(t, s, terms[t].flag, terms[t].waitingInRead, terms[t].buffer)
    BY <1>2, <1>4, <1>5, <1>6, <1>7, <2>1, DrawBecomes
  <2>3. flag = terms[t].flag /\ waiting = terms[t].waitingInRead /\ line = terms[t].buffer
    BY <1>1 DEF TermIs
  <2> QED BY <2>2, <2>3, Zenon
<1>9. curr_terminal' = curr_terminal /\ (flag = 1 \/ t # curr_terminal)
  BY <1>1, <1>2, <1>4 DEF Started, TermIs
<1>10. /\ ScreenInv'
      /\ MappedConsole' = [MappedConsole EXCEPT ![t] = s]
      /\ MappedLine' = MappedLine /\ MappedReading' = MappedReading /\ MappedStarted' = MappedStarted
      /\ MappedLine[t] = line
  BY <1>1, <1>2, <1>6, <1>7, <1>8, <1>9, StepKeeps
<1>11. C!Redraw
  BY <1>1, <1>3, <1>4, <1>10, Same, Zenon
     DEF C!Redraw, MappedConsole, MappedLine, MappedReading, MappedStarted
<1> QED BY <1>10, <1>11

\* Another terminal is displayed.
LEMMA SwitchScreenStep ==
  ASSUME ScreenInv, NEW t \in Terminals, SwitchScreen(t)
  PROVE  ScreenInv' /\ C!Display(t)
<1>1. /\ ScreenTypes' /\ screen_terminal' = t /\ UNCHANGED <<terminal_array, curr_terminal>>
      /\ \A u \in Terminals : ConsoleOf(u)' = ConsoleOf(u)
  BY SwitchKeeps DEF ScreenInv
<1>2. ScreenInv'
  BY <1>1 DEF ScreenInv, Started, InOrder, LineStands
<1>3. /\ MappedConsole' = MappedConsole /\ MappedLine' = MappedLine
      /\ MappedReading' = MappedReading /\ MappedStarted' = MappedStarted
  BY <1>1 DEF MappedConsole, MappedLine, MappedReading, MappedStarted
<1>4. C!Display(t)
  BY <1>1, <1>3, Zenon
     DEF C!Display, MappedConsole, MappedLine, MappedReading, MappedStarted
<1> QED BY <1>2, <1>4

\* The turn passes to a terminal that has its shell.
LEMMA TickStep ==
  ASSUME ScreenInv, Tick
  PROVE  ScreenInv' /\ C!Serve
<1>1. PICK t : t = NextTerminal
  OBVIOUS
<1>2. /\ t \in Terminals /\ terminal_array[t].flag = 1 /\ curr_terminal' = t
      /\ UNCHANGED <<video, terminal_array, screen_terminal, cursor>>
      /\ t = (curr_terminal + 1) % NumTerminals
  BY <1>1, TerminalsAssumption DEF Tick, NextTerminal, ScreenInv, ScreenTypes, Terminals
<1>3. \A u \in Terminals : ConsoleOf(u)' = ConsoleOf(u)
  BY <1>2 DEF ConsoleOf, ImageOf, PageOf
<1>4. ScreenTypes'
  BY <1>2, <1>3 DEF ScreenInv, ScreenTypes
<1>5. ScreenInv'
  BY <1>2, <1>3, <1>4 DEF ScreenInv, Started, InOrder, LineStands
<1>6. /\ MappedConsole' = MappedConsole /\ MappedLine' = MappedLine
      /\ MappedReading' = MappedReading /\ MappedStarted' = MappedStarted
  BY <1>2, <1>3 DEF MappedConsole, MappedLine, MappedReading, MappedStarted
<1>7. MappedStarted[t] /\ MappedStarted' = [MappedStarted EXCEPT ![t] = TRUE]
  <2>1. (terminal_array[t].flag = 1) = TRUE
    BY <1>2
  <2>2. MappedStarted[t] = TRUE
    BY <1>2, <2>1, Mapped, Zenon
  <2>3. [MappedStarted EXCEPT ![t] = TRUE] = MappedStarted
    BY <1>2, <2>1, Kept, Zenon
  <2> QED BY <1>6, <2>2, <2>3, Zenon
<1>8. C!Serve
  BY <1>2, <1>6, <1>7, Zenon
     DEF C!Serve, MappedConsole, MappedLine, MappedReading, MappedStarted
<1> QED BY <1>5, <1>8

\* The first turn of a terminal.
LEMMA TickBootsStep ==
  ASSUME ScreenInv, TickBoots
  PROVE  ScreenInv' /\ C!Serve
<1>1. PICK t, before, flag, waiting, line :
        t = NextTerminal /\ TermIs(t, before, flag, waiting, line)
  BY Zenon DEF TermIs
<1>2. PICK s : s = Clear(t)
  OBVIOUS
<1>3. /\ t \in Terminals /\ flag = 0 /\ curr_terminal' = t /\ UNCHANGED screen_terminal
      /\ Becomes(t, s, 1, waiting, line)
      /\ t = (curr_terminal + 1) % NumTerminals
  <2>1. /\ flag = terminal_array[t].flag /\ waiting = terminal_array[t].waitingInRead
        /\ line = terminal_array[t].buffer
    BY <1>1 DEF TermIs
  <2>2. /\ t \in Terminals /\ terminal_array[t].flag = 0
        /\ curr_terminal' = t /\ UNCHANGED screen_terminal
        /\ Becomes(t, Clear(t), 1, waiting, line)
    BY <1>1, <2>1, BootBecomes DEF ScreenInv
  <2> QED BY <1>1, <1>2, <2>1, <2>2 DEF NextTerminal
<1>4. InOrder(flag, waiting, line) /\ t \in 0 .. NumTerminals
  BY <1>1, <1>3, InvFacts DEF TermIs
<1>5. waiting = 0 /\ line = <<>> /\ InOrder(1, waiting, line)
  BY <1>3, <1>4 DEF InOrder
<1>6. s \in Screens /\ LineStands(t, s, line)
  BY <1>2, <1>4, <1>5, Cleared DEF LineStands
<1>7. Started'
  BY <1>3 DEF Started, Becomes
<1>8. ScreenInv'
  BY <1>3, <1>5, <1>6, <1>7, BecomesKeeps
<1>9. /\ MappedConsole' = [MappedConsole EXCEPT ![t] = s]
      /\ MappedLine' = [MappedLine EXCEPT ![t] = line]
      /\ MappedReading' = [MappedReading EXCEPT ![t] = (waiting = 1)]
      /\ MappedStarted' = [MappedStarted EXCEPT ![t] = (1 = 1)]
  BY <1>3, MappedBecomes
<1>10. MappedStarted[t] = (flag = 1)
  BY <1>1, <1>3, Mapped, Zenon DEF TermIs
<1>11. /\ [MappedLine EXCEPT ![t] = line] = MappedLine
       /\ [MappedReading EXCEPT ![t] = (waiting = 1)] = MappedReading
  BY <1>1, <1>3, Kept, Zenon DEF TermIs
<1>12. /\ ~MappedStarted[t] /\ MappedStarted' = [MappedStarted EXCEPT ![t] = TRUE]
  <2>1. (1 = 1) = TRUE /\ ~(flag = 1)
    BY <1>3
  <2> QED BY <1>9, <1>10, <2>1, Zenon
<1>13. C!Serve
  BY <1>2, <1>3, <1>9, <1>11, <1>12, Same, Zenon
     DEF C!Serve, MappedConsole, MappedLine, MappedReading, MappedStarted
<1> QED BY <1>8, <1>13

\* Nothing happens.
LEMMA ScreenStutters ==
  ASSUME ScreenInv, UNCHANGED vars
  PROVE  ScreenInv' /\ UNCHANGED C!vars
<1>1. UNCHANGED <<video, terminal_array, screen_terminal, curr_terminal, cursor>>
  BY DEF vars
<1>2. \A u \in Terminals : ConsoleOf(u)' = ConsoleOf(u)
  BY <1>1 DEF ConsoleOf, ImageOf, PageOf
<1>3. ScreenTypes'
  BY <1>1, <1>2 DEF ScreenInv, ScreenTypes
<1>4. ScreenInv'
  BY <1>1, <1>2, <1>3 DEF ScreenInv, Started, InOrder, LineStands
<1>5. UNCHANGED C!vars
  BY <1>1, <1>2 DEF C!vars
<1> QED BY <1>4, <1>5

\* The start.
LEMMA ScreenStarts ==
  ASSUME Init
  PROVE  ScreenInv /\ C!Init
<1>1. 0 \in Terminals /\ NumTerminals \in Nat
      /\ \A t \in Terminals : t \in Nat /\ t + 1 \in 0 .. NumTerminals
  BY TerminalsAssumption DEF Terminals
<1>2. Unwritten \in Images
  <2>1. <<NUL, NumTerminals>> \in Glyphs \X (0 .. NumTerminals)
    BY <1>1 DEF Glyphs
  <2> QED BY <2>1 DEF Unwritten, Images
<1>3. Clear(0) \in Screens /\ Clear(0).cells \in Images /\ Clear(0).x = 0 /\ Clear(0).y = 0
  <2>1. Clear(0) \in Screens
    BY <1>1, Cleared
  <2> QED BY <2>1 DEF Screens, Clear
<1>4. video \in [0 .. NumTerminals -> Images]
  BY <1>2, <1>3 DEF Init
<1>5. 0 \in 0 .. NUM_COLS - 1 /\ 0 \in 0 .. NUM_ROWS - 1
  OBVIOUS
<1>6. ASSUME NEW t \in Terminals
      PROVE  /\ terminal_array[t].screen_x = 0 /\ terminal_array[t].screen_y = 0
             /\ terminal_array[t].flag = 1 <=> t = 0
             /\ terminal_array[t].waitingInRead = 0 /\ terminal_array[t].buffer = <<>>
  BY DEF Init
<1>7. terminal_array \in [Terminals -> TerminalRecords]
  BY <1>5 DEF Init, TerminalRecords
<1>8. /\ curr_terminal = 0 /\ screen_terminal = 0 /\ cursor = 0
  BY DEF Init
<1>9. \A t \in Terminals : ConsoleOf(t).x = 0 /\ ConsoleOf(t).y = 0
  BY <1>6 DEF ConsoleOf
<1>10. ConsoleOf(0) = Clear(0)
  <2>1. video[0] = Clear(0).cells
    BY <1>1 DEF Init, ScreenPage
  <2>2. ConsoleOf(0) = [cells |-> video[0], x |-> 0, y |-> 0]
    BY <1>1, <1>6, <1>8 DEF ConsoleOf, ImageOf, PageOf, ScreenPage
  <2>3. Clear(0) = [cells |-> Clear(0).cells, x |-> 0, y |-> 0]
    BY DEF Clear
  <2> QED BY <2>1, <2>2, <2>3
<1>11. ScreenTypes
  BY <1>1, <1>4, <1>7, <1>8, <1>9 DEF ScreenTypes, PlaceOf, CellNo
<1>12. ASSUME NEW t \in Terminals
       PROVE  /\ InOrder(terminal_array[t].flag, terminal_array[t].waitingInRead, terminal_array[t].buffer)
              /\ LineStands(t, ConsoleOf(t), terminal_array[t].buffer)
  <2>1. PICK s : s = ConsoleOf(t)
    OBVIOUS
  <2>2. terminal_array[t].buffer = <<>> /\ terminal_array[t].waitingInRead = 0
    BY <1>6
  <2>3. s.x = 0 /\ s.y = 0
    BY <1>9, <2>1
  <2>4. PlaceOf(s) = 0
    BY <2>3 DEF PlaceOf, CellNo
  <2>5. LineStands(t, s, <<>>)
    BY <2>4 DEF LineStands, StandsAt
  <2> QED BY <2>1, <2>2, <2>5, LineFitsOnScreen DEF InOrder
<1>13. ScreenInv
  BY <1>1, <1>6, <1>8, <1>11, <1>12 DEF ScreenInv, Started
<1>14. C!Init
  <2>1. MappedConsole[0] = Clear(0)
        /\ \A t \in Terminals : MappedConsole[t].x = 0 /\ MappedConsole[t].y = 0
    BY <1>1, <1>9, <1>10 DEF MappedConsole
  <2>2. MappedLine = [t \in Terminals |-> <<>>]
    BY <1>6 DEF MappedLine
  <2>3. MappedReading = [t \in Terminals |-> FALSE]
    <3>1. ASSUME NEW t \in Terminals PROVE (terminal_array[t].waitingInRead = 1) = FALSE
      BY <1>6
    <3> QED BY <3>1, Zenon DEF MappedReading
  <2>4. MappedStarted = [t \in Terminals |-> t = 0]
    <3>1. ASSUME NEW t \in Terminals PROVE (terminal_array[t].flag = 1) = (t = 0)
      BY <1>6
    <3> QED BY <3>1, Zenon DEF MappedStarted
  <2> QED BY <1>8, <2>1, <2>2, <2>3, <2>4, Same, Zenon
            DEF C!Init, MappedConsole, MappedLine, MappedReading, MappedStarted
<1> QED BY <1>13, <1>14

-----------------------------------------------------------------------------
(***************************************************************************)
(* The theorems.                                                           *)
(***************************************************************************)
\* Every step keeps the invariant, and is a step of Consoles or leaves the
\* consoles alone.
LEMMA ScreenNext ==
  ScreenInv /\ [Next]_vars => ScreenInv' /\ [C!Next]_C!vars
<1> SUFFICES ASSUME ScreenInv, [Next]_vars PROVE ScreenInv' /\ [C!Next]_C!vars
  OBVIOUS
<1>1. ASSUME NEW text \in Texts, Write(text) PROVE ScreenInv' /\ C!Next
  BY <1>1, WriteStep DEF C!Next
<1>2. CASE Read \/ ReadReturns
  BY <1>2, ReadStep DEF C!Next
<1>3. ASSUME NEW c \in Chars \cup {END_OF_LINE}, TypeKey(c) PROVE ScreenInv' /\ C!Next
  BY <1>3, TypeKeyStep DEF C!Next
<1>4. CASE BackspaceKey
  BY <1>4, BackspaceStep DEF C!Next
<1>5. CASE ClearKey
  BY <1>5, ClearKeyStep DEF C!Next
<1>6. ASSUME NEW t \in Terminals, SwitchScreen(t) PROVE ScreenInv' /\ C!Next
  <2>1. t \in C!Terminals
    BY Same, Zenon
  <2>2. ScreenInv' /\ C!Display(t)
    BY <1>6, SwitchScreenStep
  <2> QED BY <2>1, <2>2 DEF C!Next
<1>7. CASE Tick
  BY <1>7, TickStep DEF C!Next
<1>8. CASE TickBoots
  BY <1>8, TickBootsStep DEF C!Next
<1>9. CASE UNCHANGED vars
  BY <1>9, ScreenStutters
<1> QED BY <1>1, <1>2, <1>3, <1>4, <1>5, <1>6, <1>7, <1>8, <1>9 DEF Next

(***************************************************************************)
(* The invariant holds in every state that can be reached.                 *)
(***************************************************************************)
THEOREM ScreenInvariant == Spec => []ScreenInv
BY ScreenStarts, ScreenNext, PTL DEF Spec

(***************************************************************************)
(* The cursor on the monitor is that of the terminal displayed, whichever  *)
(* terminal drew last (move_cursor and its callers).                       *)
(***************************************************************************)
THEOREM DisplayedCursor == Spec => []CursorIsDisplayedOnes
<1>1. ScreenInv => CursorIsDisplayedOnes
  BY DEF ScreenInv, ScreenTypes, CursorIsDisplayedOnes, PlaceOf, ConsoleOf, CellNo, Edited
<1> QED BY <1>1, ScreenInvariant, PTL

(***************************************************************************)
(* Every cell holds a character and an attribute, and no cursor leaves the *)
(* screen (check_size, scrolling and erase_char).                          *)
(***************************************************************************)
THEOREM ScreenTypeOK == Spec => []TypeOK
<1>1. ScreenInv => TypeOK
  <2> SUFFICES ASSUME ScreenInv PROVE TypeOK
    OBVIOUS
  <2>1. /\ video \in [0 .. NumTerminals ->
               [Cells -> (Chars \cup {SPACE_ASCII, NUL}) \X (0 .. NumTerminals)]]
        /\ terminal_array \in [Terminals ->
             [screen_x : 0 .. NUM_COLS - 1, screen_y : 0 .. NUM_ROWS - 1, flag : {0, 1},
              waitingInRead : {0, 1}, buffer : Seq(Chars \cup {END_OF_LINE})]]
        /\ curr_terminal \in Terminals /\ screen_terminal \in Terminals
    BY DEF ScreenInv, ScreenTypes, Images, Glyphs, TerminalRecords
  <2>2. \A t \in Terminals : Len(terminal_array[t].buffer) <= MAX_BUF_SIZE
    BY DEF ScreenInv, InOrder
  <2>3. cursor \in 0 .. NUM_ROWS * NUM_COLS - 1
    BY Pages, PlaceOnScreen DEF ScreenInv, ScreenTypes, Places
  <2> QED BY <2>1, <2>2, <2>3 DEF TypeOK
<1> QED BY <1>1, ScreenInvariant, PTL

(***************************************************************************)
(* A line being typed stands right before the cursor of its terminal, on   *)
(* the screen or on the backup page, for every line and every screen       *)
(* (putc, erase_char, clear and switch_screen).                            *)
(***************************************************************************)
THEOREM LineKept == Spec => []LineStandsBeforeCursor
<1>1. ScreenInv => LineStandsBeforeCursor
  <2> SUFFICES ASSUME ScreenInv, NEW t \in Terminals, ~Entered(terminal_array[t])
               PROVE  LET term == terminal_array[t]
                          place == term.screen_y * NUM_COLS + term.screen_x - Len(term.buffer)
                      IN /\ place >= 0
                         /\ \A i \in DOMAIN term.buffer :
                              CellAt(t, place + i - 1) = <<term.buffer[i], t>>
    BY DEF LineStandsBeforeCursor
  <2>1. PICK s, line, place : /\ s = ConsoleOf(t) /\ line = terminal_array[t].buffer
                              /\ place = PlaceOf(s)
    OBVIOUS
  <2>2. /\ s \in Screens /\ line \in Seq(Chars \cup {END_OF_LINE})
        /\ StandsAt(s.cells, place, line, t)
    BY <2>1, InvFacts DEF Entered, LineStands
  <2>3. place \in Nat /\ place = terminal_array[t].screen_y * NUM_COLS + terminal_array[t].screen_x
    BY <2>1, <2>2, PlaceOnScreen DEF ConsoleOf, Places
  <2>4. \A p : CellAt(t, p) = At(s.cells, p)
    BY <2>1 DEF CellAt, At, ConsoleOf
  <2>5. PICK start : start = place - Len(line)
    OBVIOUS
  <2>6. start >= 0 /\ \A i \in DOMAIN line : CellAt(t, start + i - 1) = <<line[i], t>>
    BY <2>2, <2>3, <2>4, <2>5 DEF StandsAt
  <2>7. start = terminal_array[t].screen_y * NUM_COLS + terminal_array[t].screen_x
                  - Len(terminal_array[t].buffer)
    <3>1. PICK above, x : /\ above = terminal_array[t].screen_y * NUM_COLS
                          /\ x = terminal_array[t].screen_x
      OBVIOUS
    <3>2. above \in Int /\ x \in Int /\ place = above + x
      <4>1. terminal_array[t].screen_y \in Int /\ terminal_array[t].screen_x \in Int
        BY <2>1, <2>2 DEF ConsoleOf, Screens
      <4> QED BY <2>3, <3>1, <4>1
    <3>3. above + x - Len(line) = start
      <4>1. Len(line) \in Int
        BY <2>2
      <4> QED BY <2>5, <3>2, <4>1
    <3> QED BY <2>1, <3>1, <3>3, Zenon
  <2> QED BY <2>1, <2>6, <2>7, Zenon
<1> QED BY <1>1, ScreenInvariant, PTL

(***************************************************************************)
(* Pages, copies and flags amount to one console per terminal: every       *)
(* behaviour is one of Consoles.                                           *)
(***************************************************************************)
THEOREM ScreenIsConsoles == Spec => ImplementsConsoles
<1>1. Init => C!Init
  BY ScreenStarts
<1> QED BY <1>1, ScreenInvariant, ScreenNext, PTL DEF Spec, ImplementsConsoles, C!Spec

(***************************************************************************)
(* Backspace takes the last character typed from the screen, and nothing   *)
(* else (erase_char).                                                      *)
(***************************************************************************)
THEOREM BackspaceErases == Spec => BackspaceErasesLastTyped
<1>1. ASSUME ScreenInv, BackspaceKey
      PROVE  /\ cursor' = cursor - 1
             /\ CellAt(screen_terminal, cursor') = <<Last(Edited.buffer), screen_terminal>>
             /\ \A place \in 0 .. NUM_ROWS * NUM_COLS - 1 :
                  CellAt(screen_terminal, place)' =
                    IF place = cursor' THEN <<NUL, screen_terminal>>
                                       ELSE CellAt(screen_terminal, place)
  <2>1. PICK t, before, flag, waiting, line :
          t = screen_terminal /\ TermIs(t, before, flag, waiting, line)
    BY Zenon DEF TermIs
  <2>2. PICK s, new : s = Erase(before) /\ new = Front(line)
    OBVIOUS
  <2>3. /\ OpenEdit(t, before, flag, waiting, line) /\ line # <<>>
        /\ UNCHANGED <<curr_terminal, screen_terminal>>
        /\ Becomes(t, s, flag, waiting, new)
    BY <1>1, <2>1, <2>2, BackspaceBecomes, Zenon
  <2>4. /\ before \in Screens /\ line \in Seq(Chars)
        /\ StandsAt(before.cells, PlaceOf(before), line, t)
    BY <2>3 DEF OpenEdit
  <2>5. ScreenTypes' /\ ConsoleOf(t)' = s
    BY <2>3 DEF Becomes
  <2>6. cursor = PlaceOf(before) /\ cursor' = PlaceOf(s)
    BY <1>1, <2>1, <2>3, <2>5 DEF ScreenInv, ScreenTypes, TermIs
  <2>7. PICK p : p = cursor'
    OBVIOUS
  <2>8. /\ PlaceOf(before) # 0 /\ At(before.cells, PlaceOf(before) - 1) = <<Last(line), t>>
        /\ PlaceOf(s) = PlaceOf(before) - 1
        /\ \A q \in Places : At(s.cells, q) =
             IF q = PlaceOf(before) - 1 THEN <<NUL, At(before.cells, q)[2]>> ELSE At(before.cells, q)
    BY <2>2, <2>3, <2>4, Erased, ErasedStands
  <2>9. /\ \A q : CellAt(t, q) = At(before.cells, q)
        /\ \A q : CellAt(t, q)' = At(s.cells, q)
    <3>1. before.cells = ImageOf(t)
      BY <2>1 DEF TermIs, ConsoleOf
    <3>2. s.cells = ImageOf(t)'
      BY <2>5 DEF ConsoleOf
    <3> QED BY <3>1, <3>2 DEF CellAt, At
  <2>10. p = cursor - 1 /\ CellAt(t, p) = <<Last(line), t>>
    BY <2>6, <2>7, <2>8, <2>9
  <2>11. \A q \in Places : CellAt(t, q)' = IF q = p THEN <<NUL, t>> ELSE CellAt(t, q)
    <3>1. p = PlaceOf(before) - 1 /\ At(before.cells, p)[2] = t
      BY <2>6, <2>7, <2>8
    <3> QED BY <2>8, <2>9, <3>1
  <2>12. line = Edited.buffer
    BY <2>1 DEF TermIs, Edited
  <2> QED BY <2>1, <2>3, <2>7, <2>10, <2>11, <2>12 DEF Places, CellAt, ImageOf, PageOf
<1> QED BY <1>1, ScreenInvariant, PTL DEF BackspaceErasesLastTyped
=============================================================================
