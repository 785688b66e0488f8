--------------------------- MODULE TerminalProofs ---------------------------
(***************************************************************************)
(* Proofs about Terminal, for a screen of any size, any characters and any *)
(* number of rows printed.                                                 *)
(*                                                                         *)
(* Between the steps of term_putchar the screen shows one of three things: *)
(* the page, the page with its next row opened, or, during the copy, the   *)
(* page with the cells below i already one row up and the others not yet.  *)
(***************************************************************************)
EXTENDS Terminal, SequenceTheorems, TLAPS

Row == [Columns -> Char]
Page == [rows : Seq(Row), col : 0 .. VGA_WIDTH]

\* The row of the screen that shows the last row of a page.
Last(p) == Len(p.rows) - Gone(p) - 1

ShowsPage(p) ==
  \A r \in Rows, k \in Columns : term[r * VGA_WIDTH + k] = Shown(p, r)[k]

HalfScrolled ==
  \A r \in Rows, k \in Columns :
    term[r * VGA_WIDTH + k] =
      Shown(page, IF r * VGA_WIDTH + k < i THEN r + 1 ELSE r)[k]

\* The page with the row that the character c starts, if it starts one.
StartsRow(p, ch) == ch = LF \/ p.col = VGA_WIDTH
NextRow(p) == [rows |-> Append(p.rows, BlankRow), col |-> 0]
Opened(p, ch) == IF StartsRow(p, ch) THEN NextRow(p) ELSE p

PageOK == page \in Page /\ Len(page.rows) >= 1

Idle ==
  pc = "out" => /\ ShowsPage(page)
                /\ term_row = Last(page) /\ term_col = page.col
                /\ cursor = Position(term_row, term_col)

Scrolling ==
  pc \in {"copy", "clear"} => /\ HalfScrolled
                              /\ Len(page.rows) >= VGA_HEIGHT
                              /\ StartsRow(page, c) /\ term_col = 0
                              /\ pc = "clear" => i = Moved

Writing ==
  pc = "write" => /\ ShowsPage(Opened(page, c))
                  /\ term_row = Last(Opened(page, c))
                  /\ term_col = Opened(page, c).col

IInv == TypeOK /\ PageOK /\ Idle /\ Scrolling /\ Writing


-----------------------------------------------------------------------------
(***************************************************************************)
(* Arithmetic of the cells: row r, column k is cell r * VGA_WIDTH + k.     *)
(***************************************************************************)
LEMMA Monotone ==
  ASSUME NEW r \in Nat, NEW s \in Nat, r <= s
  PROVE  r * VGA_WIDTH <= s * VGA_WIDTH
<1>1. PICK d \in Nat : s = r + d
  <2>1. s - r \in Nat /\ s = r + (s - r)
    OBVIOUS
  <2> QED
    BY <2>1
<1>2. s * VGA_WIDTH = r * VGA_WIDTH + d * VGA_WIDTH
  BY <1>1, SizeAssumption
<1>3. d * VGA_WIDTH >= 0 /\ d * VGA_WIDTH \in Int /\ r * VGA_WIDTH \in Int
  BY SizeAssumption
<1> QED
  BY <1>2, <1>3

LEMMA RowAbove ==
  ASSUME NEW r \in Int
  PROVE  /\ r * VGA_WIDTH \in Int
         /\ (r + 1) * VGA_WIDTH = r * VGA_WIDTH + VGA_WIDTH
         /\ VGA_WIDTH * r = r * VGA_WIDTH
  BY SizeAssumption

LEMMA LastRowCells ==
  /\ Moved = (VGA_HEIGHT - 1) * VGA_WIDTH /\ Moved \in Nat
  /\ Cells = 0 .. Moved + VGA_WIDTH - 1
<1>1. VGA_HEIGHT - 1 \in Nat /\ (VGA_HEIGHT - 1) + 1 = VGA_HEIGHT
  BY SizeAssumption
<1>2. 0 * VGA_WIDTH <= (VGA_HEIGHT - 1) * VGA_WIDTH
  BY <1>1, Monotone
<1>3. VGA_HEIGHT * VGA_WIDTH = (VGA_HEIGHT - 1) * VGA_WIDTH + VGA_WIDTH
  BY <1>1, RowAbove
<1>4. /\ VGA_WIDTH * (VGA_HEIGHT - 1) = (VGA_HEIGHT - 1) * VGA_WIDTH
      /\ VGA_WIDTH * VGA_HEIGHT = VGA_HEIGHT * VGA_WIDTH
      /\ (VGA_HEIGHT - 1) * VGA_WIDTH \in Int
      /\ 0 * VGA_WIDTH = 0
  BY <1>1, SizeAssumption
<1>5. VGA_WIDTH * VGA_HEIGHT - 1 = VGA_WIDTH * (VGA_HEIGHT - 1) + VGA_WIDTH - 1
  BY <1>3, <1>4, SizeAssumption
<1> QED
  BY <1>2, <1>4, <1>5 DEF Moved, Cells

\* Rows but the last have their cells among those that the scroll replaces.
LEMMA CellRange ==
  ASSUME NEW r \in Rows, NEW k \in Columns
  PROVE  /\ r * VGA_WIDTH + k \in Cells
         /\ r < VGA_HEIGHT - 1 => r * VGA_WIDTH + k < Moved
         /\ r = VGA_HEIGHT - 1 => r * VGA_WIDTH + k >= Moved
<1>1. /\ r \in Nat /\ k \in Nat /\ k < VGA_WIDTH /\ r <= VGA_HEIGHT - 1
      /\ VGA_HEIGHT - 1 \in Nat
  BY SizeAssumption DEF Rows, Columns
<1>2. /\ 0 * VGA_WIDTH <= r * VGA_WIDTH
      /\ r * VGA_WIDTH <= (VGA_HEIGHT - 1) * VGA_WIDTH
  BY <1>1, Monotone
<1>3. 0 * VGA_WIDTH = 0 /\ r * VGA_WIDTH \in Int
  BY <1>1, SizeAssumption
<1>4. CASE r < VGA_HEIGHT - 1
  <2>1. (r + 1) * VGA_WIDTH <= (VGA_HEIGHT - 1) * VGA_WIDTH
    BY <1>1, <1>4, Monotone
  <2> QED
    BY <2>1, <1>1, <1>2, <1>3, <1>4, RowAbove, LastRowCells, SizeAssumption
<1>5. CASE r = VGA_HEIGHT - 1
  BY <1>1, <1>2, <1>3, <1>5, LastRowCells, SizeAssumption
<1> QED
  BY <1>1, <1>4, <1>5

\* A cell has one row and one column.
LEMMA CellIsOne ==
  ASSUME NEW r \in Rows, NEW s \in Rows, NEW k \in Columns, NEW j \in Columns,
         r * VGA_WIDTH + k = s * VGA_WIDTH + j
  PROVE  r = s /\ k = j
<1>1. /\ r \in Nat /\ s \in Nat /\ k \in Nat /\ j \in Nat
      /\ k < VGA_WIDTH /\ j < VGA_WIDTH /\ VGA_WIDTH \in Nat
  BY SizeAssumption DEF Rows, Columns
<1>2. r * VGA_WIDTH \in Int /\ s * VGA_WIDTH \in Int
  BY <1>1
<1>3. ~ r < s
  <2> SUFFICES ASSUME r < s PROVE FALSE
    OBVIOUS
  <2>1. (r + 1) * VGA_WIDTH <= s * VGA_WIDTH
    BY <1>1, Monotone
  <2> QED
    BY <2>1, <1>1, <1>2, RowAbove
<1>4. ~ s < r
  <2> SUFFICES ASSUME s < r PROVE FALSE
    OBVIOUS
  <2>1. (s + 1) * VGA_WIDTH <= r * VGA_WIDTH
    BY <1>1, Monotone
  <2> QED
    BY <2>1, <1>1, <1>2, RowAbove
<1> QED
  BY <1>1, <1>2, <1>3, <1>4

-----------------------------------------------------------------------------
(***************************************************************************)
(* Pages.                                                                  *)
(***************************************************************************)
LEMMA Blanks == BlankRow \in Row /\ \A k \in Columns : BlankRow[k] = Blank
  BY CharAssumption DEF BlankRow, Row

LEMMA PageRows ==
  ASSUME NEW p \in Page
  PROVE  /\ p.rows \in Seq(Row) /\ p.col \in 0 .. VGA_WIDTH
         /\ Len(p.rows) \in Nat
         /\ \A n \in 1 .. Len(p.rows) : p.rows[n] \in Row
  BY DEF Page

\* What is on the screen are rows.
LEMMA ShownIsRow ==
  ASSUME NEW p \in Page, NEW r \in Nat
  PROVE  Shown(p, r) \in Row /\ Gone(p) \in Nat
<1>1. Gone(p) \in Nat
  BY PageRows, SizeAssumption DEF Gone
<1> QED
  BY <1>1, PageRows, Blanks DEF Shown

\* The last row is on the screen, and so are the rows above it.
LEMMA LastShown ==
  ASSUME NEW p \in Page, Len(p.rows) >= 1
  PROVE  /\ Last(p) \in Rows
         /\ Gone(p) + Last(p) + 1 = Len(p.rows)
         /\ Len(p.rows) >= VGA_HEIGHT => Last(p) = VGA_HEIGHT - 1
  BY PageRows, SizeAssumption DEF Last, Gone, Rows

(***************************************************************************)
(* A row more: the screen has moved up by one if it was full, and the new  *)
(* row was, or comes, blank.                                               *)
(***************************************************************************)
LEMMA RowOpened ==
  ASSUME NEW p \in Page, Len(p.rows) >= 1
  PROVE  /\ NextRow(p) \in Page /\ Len(NextRow(p).rows) = Len(p.rows) + 1
         /\ Len(p.rows) < VGA_HEIGHT =>
              /\ Last(NextRow(p)) = Last(p) + 1
              /\ \A r \in Rows : Shown(NextRow(p), r) = Shown(p, r)
         /\ Len(p.rows) >= VGA_HEIGHT =>
              /\ Last(NextRow(p)) = Last(p)
              /\ \A r \in Rows : r < VGA_HEIGHT - 1 =>
                   Shown(NextRow(p), r) = Shown(p, r + 1)
              /\ Shown(NextRow(p), VGA_HEIGHT - 1) = BlankRow
<1> DEFINE q == NextRow(p)
<1>1. /\ q.rows = Append(p.rows, BlankRow) /\ q.col = 0
      /\ q \in Page
  BY PageRows, Blanks, SizeAssumption DEF NextRow, Page
<1>2. /\ Len(q.rows) = Len(p.rows) + 1
      /\ q.rows[Len(p.rows) + 1] = BlankRow
      /\ \A n \in 1 .. Len(p.rows) : q.rows[n] = p.rows[n]
  BY <1>1, PageRows, Blanks
<1> HIDE DEF q
<1>3. Len(p.rows) \in Nat /\ VGA_HEIGHT \in Nat \ {0}
  BY PageRows, SizeAssumption
<1>4. CASE Len(p.rows) < VGA_HEIGHT
  <2>1. Gone(q) = 0 /\ Gone(p) = 0
    BY <1>2, <1>3, <1>4 DEF Gone
  <2>2. Last(q) = Last(p) + 1
    BY <1>2, <1>3, <2>1 DEF Last
  <2>3. ASSUME NEW r \in Rows PROVE Shown(q, r) = Shown(p, r)
    <3>1. CASE r + 1 \in 1 .. Len(p.rows)
      BY <1>2, <1>3, <2>1, <3>1 DEF Shown, Rows
    <3>2. CASE r = Len(p.rows)
      BY <1>2, <1>3, <2>1, <3>2 DEF Shown, Rows
    <3>3. CASE r > Len(p.rows)
      BY <1>2, <1>3, <2>1, <3>3 DEF Shown, Rows
    <3> QED
      BY <1>3, <3>1, <3>2, <3>3 DEF Rows
  <2> QED
    BY <1>1, <1>2, <1>4, <2>2, <2>3, <1>3 DEF q
<1>5. CASE Len(p.rows) >= VGA_HEIGHT
  <2>1. /\ Gone(p) = Len(p.rows) - VGA_HEIGHT
        /\ Gone(q) = Gone(p) + 1 /\ Gone(p) \in Nat
    BY <1>2, <1>3, <1>5 DEF Gone
  <2>2. Last(q) = Last(p)
    BY <1>2, <1>3, <2>1 DEF Last
  <2>3. ASSUME NEW r \in Rows, r < VGA_HEIGHT - 1
        PROVE  Shown(q, r) = Shown(p, r + 1)
    <3>1. Gone(q) + r + 1 \in 1 .. Len(p.rows)
      BY <1>3, <2>1, <2>3 DEF Rows
    <3>2. Gone(q) + r + 1 = Gone(p) + (r + 1) + 1
      <4>1. r \in Nat
        BY SizeAssumption DEF Rows
      <4>2. \A g, n \in Nat : (g + 1) + n + 1 = g + (n + 1) + 1
        OBVIOUS
      <4> QED
        BY <2>1, <4>1, <4>2
    <3>3. Gone(q) + r < Len(q.rows) /\ Gone(p) + (r + 1) < Len(p.rows)
      BY <1>2, <1>3, <2>1, <2>3 DEF Rows
    <3> QED
      BY <1>2, <3>1, <3>2, <3>3 DEF Shown
  <2>4. Shown(q, VGA_HEIGHT - 1) = BlankRow
    <3>1. Gone(q) + (VGA_HEIGHT - 1) + 1 = Len(p.rows) + 1
      BY <1>3, <2>1
    <3>2. Gone(q) + (VGA_HEIGHT - 1) < Len(q.rows)
      BY <1>2, <1>3, <2>1
    <3> QED
      BY <1>2, <3>1, <3>2 DEF Shown
  <2> QED
    BY <1>1, <1>2, <1>5, <2>2, <2>3, <2>4, <1>3 DEF q
<1> QED
  BY <1>3, <1>4, <1>5

(***************************************************************************)
(* A cell of the last row changes, and with it one cell of the screen.     *)
(***************************************************************************)
LEMMA PutShown ==
  ASSUME NEW p \in Page, Len(p.rows) >= 1, NEW j \in Columns, NEW ch \in Char,
         NEW col \in 0 .. VGA_WIDTH
  PROVE  LET q == [rows |-> Put(p, j, ch), col |-> col] IN
         /\ q \in Page /\ Len(q.rows) = Len(p.rows)
         /\ Gone(q) = Gone(p) /\ Last(q) = Last(p)
         /\ \A r \in Rows, k \in Columns :
              Shown(q, r)[k] =
                IF r = Last(p) /\ k = j THEN ch ELSE Shown(p, r)[k]
<1> DEFINE q == [rows |-> Put(p, j, ch), col |-> col]
           n == Len(p.rows)
           row == [p.rows[n] EXCEPT ![j] = ch]
<1>1. n \in Nat \ {0} /\ p.rows \in Seq(Row) /\ p.rows[n] \in Row
  BY PageRows
<1>2. /\ row \in Row /\ row[j] = ch
      /\ \A k \in Columns : k # j => row[k] = p.rows[n][k]
  BY <1>1 DEF Row
<1>3. q.rows = [p.rows EXCEPT ![n] = row] /\ q.col = col
  BY DEF Put
<1> HIDE DEF q, row, n
<1>4. /\ q.rows \in Seq(Row) /\ Len(q.rows) = n /\ q.rows[n] = row
      /\ \A m \in 1 .. n : m # n => q.rows[m] = p.rows[m]
  BY <1>1, <1>2, <1>3 DEF n
<1>5. Gone(q) = Gone(p) /\ Last(q) = Last(p)
  BY <1>4 DEF n, Gone, Last
<1>6. ASSUME NEW r \in Rows, NEW k \in Columns
      PROVE  Shown(q, r)[k] =
               IF r = Last(p) /\ k = j THEN ch ELSE Shown(p, r)[k]
  <2>1. /\ r \in Nat /\ Gone(p) \in Nat /\ Last(p) \in Nat
        /\ Gone(p) + Last(p) + 1 = n
    BY ShownIsRow, LastShown, SizeAssumption DEF Rows, n
  <2>2. CASE r = Last(p)
    <3>1. Shown(q, r) = row /\ Shown(p, r) = p.rows[n]
      BY <1>1, <1>4, <1>5, <2>1, <2>2 DEF Shown, n
    <3> QED
      BY <1>2, <2>2, <3>1
  <2>3. CASE r < Last(p)
    <3>1. Gone(p) + r + 1 \in 1 .. n /\ Gone(p) + r + 1 # n /\ Gone(p) + r < n
      BY <1>1, <2>1, <2>3
    <3>2. Shown(q, r) = Shown(p, r)
      BY <1>4, <1>5, <3>1 DEF Shown, n
    <3> QED
      BY <2>1, <2>3, <3>2
  <2>4. CASE r > Last(p)
    <3>1. ~ Gone(p) + r < n
      BY <1>1, <2>1, <2>4
    <3>2. Shown(q, r) = Shown(p, r)
      BY <1>4, <1>5, <3>1 DEF Shown, n
    <3> QED
      BY <2>1, <2>4, <3>2
  <2> QED
    BY <2>1, <2>2, <2>3, <2>4
<1>7. q \in Page
  <2>1. q = [rows |-> q.rows, col |-> q.col]
    BY DEF q
  <2> QED
    BY <1>3, <1>4, <2>1 DEF Page
<1> QED
  BY <1>4, <1>5, <1>6, <1>7 DEF q, n

\* The element appended to a sequence replaced.
LEMMA AppendReplace ==
  ASSUME NEW S, NEW s \in Seq(S), NEW f \in S, NEW t \in Seq(S),
         Len(t) = Len(s) + 1, \A k \in 1 .. Len(s) : t[k] = s[k],
         NEW u, u = [t EXCEPT ![Len(t)] = f]
  PROVE  u = Append(s, f)
<1>1. /\ u \in Seq(S) /\ Append(s, f) \in Seq(S) /\ Len(s) \in Nat
      /\ Len(u) = Len(s) + 1 /\ Len(Append(s, f)) = Len(s) + 1
  OBVIOUS
<1>2. ASSUME NEW k \in 1 .. Len(u) PROVE u[k] = Append(s, f)[k]
  <2>1. CASE k = Len(s) + 1
    BY <1>1, <2>1
  <2>2. CASE k \in 1 .. Len(s)
    <3>1. u[k] = t[k]
      BY <1>1, <2>2
    <3> QED
      BY <1>1, <2>2, <3>1
  <2> QED
    BY <1>1, <2>1, <2>2
<1> QED
  BY <1>1, <1>2, SeqEqual

(***************************************************************************)
(* What Typed does to a page, character by character.                      *)
(***************************************************************************)
LEMMA TypedReturn ==
  ASSUME NEW p \in Page, Len(p.rows) >= 1
  PROVE  LET q == Typed(p, CR) IN
         /\ q \in Page /\ Len(q.rows) >= 1 /\ q.col = 0
         /\ Gone(q) = Gone(p) /\ Last(q) = Last(p)
         /\ \A r \in Rows : Shown(q, r) = Shown(p, r)
<1>1. Typed(p, CR) = [p EXCEPT !.col = 0]
  BY CharAssumption DEF Typed
<1>2. /\ Typed(p, CR).rows = p.rows /\ Typed(p, CR).col = 0
      /\ Typed(p, CR) \in Page
  BY <1>1, SizeAssumption DEF Page
<1> QED
  BY <1>2 DEF Gone, Last, Shown

LEMMA TypedBackspace ==
  ASSUME NEW p \in Page
  PROVE  Typed(p, BS) = IF p.col > 0
                        THEN [rows |-> Put(p, p.col - 1, Blank),
                              col |-> p.col - 1]
                        ELSE p
<1>1. BS # CR /\ BS # LF /\ BS \notin Char /\ p.col \in 0 .. VGA_WIDTH
  BY CharAssumption, PageRows
<1>2. CASE p.col > 0
  BY <1>1, <1>2 DEF Typed
<1>3. CASE p.col = 0
  BY <1>1, <1>3 DEF Typed
<1> QED
  BY <1>1, <1>2, <1>3

\* Every other character opens a row where it must, and is put there.
LEMMA TypedOther ==
  ASSUME NEW p \in Page, Len(p.rows) >= 1, NEW ch \in Char \cup {LF}
  PROVE  LET o == Opened(p, ch) IN
         Typed(p, ch) = IF ch = LF THEN o
                        ELSE [rows |-> Put(o, o.col, ch), col |-> o.col + 1]
<1>1. /\ ch # CR /\ ch # BS /\ LF # CR /\ LF # BS /\ LF \notin Char
      /\ p.col \in 0 .. VGA_WIDTH
  BY CharAssumption, PageRows
<1>2. CASE ch = LF
  BY <1>1, <1>2 DEF Typed, Opened, StartsRow, NextRow
<1>3. CASE ch \in Char /\ p.col < VGA_WIDTH
  BY <1>1, <1>3, SizeAssumption DEF Typed, Opened, StartsRow
<1>4. CASE ch \in Char /\ p.col = VGA_WIDTH
  <2> DEFINE n == Len(p.rows)
             s == Append(p.rows, BlankRow)
             row == [BlankRow EXCEPT ![0] = ch]
  <2>1. ~ p.col < VGA_WIDTH
    BY <1>4, SizeAssumption
  <2>2. Typed(p, ch) = [rows |-> Append(p.rows, row), col |-> 1]
    BY <1>1, <1>4, <2>1 DEF Typed
  <2>3. Opened(p, ch) = [rows |-> s, col |-> 0]
    BY <1>4 DEF Opened, StartsRow, NextRow
  <2>4. n \in Nat /\ p.rows \in Seq(Row) /\ BlankRow \in Row /\ 0 \in Columns
    BY PageRows, Blanks, SizeAssumption DEF Columns
  <2>5. row \in Row
    BY <1>4, <2>4 DEF Row
  <2>6. s \in Seq(Row) /\ Len(s) = n + 1 /\ s[n + 1] = BlankRow
    BY <2>4
  <2> HIDE DEF row, n, s
  <2>7. Len(s) = Len(p.rows) + 1 /\ \A k \in 1 .. Len(p.rows) : s[k] = p.rows[k]
    BY <2>4 DEF s
  <2>8. /\ Opened(p, ch).rows = s /\ Opened(p, ch).col = 0
        /\ [s[n + 1] EXCEPT ![0] = ch] = row
    BY <2>3, <2>6 DEF row
  <2> DEFINE u == Put(Opened(p, ch), 0, ch)
  <2>9. u = [s EXCEPT ![Len(s)] = row]
    BY <2>6, <2>8 DEF Put
  <2> HIDE DEF u
  <2>10. u = Append(p.rows, row)
    BY <2>4, <2>5, <2>6, <2>7, <2>9, AppendReplace
  <2>11. Opened(p, ch).col + 1 = 1 /\ ch # LF
    BY <1>1, <1>4, <2>8
  <2>12. Typed(p, ch) = [rows |-> u, col |-> 1]
    BY <2>2, <2>10 DEF row
  <2> QED
    BY <2>8, <2>11, <2>12 DEF u
<1> QED
  <2>1. ch = LF \/ (ch \in Char /\ p.col < VGA_WIDTH)
          \/ (ch \in Char /\ p.col = VGA_WIDTH)
    BY <1>1, SizeAssumption
  <2> QED
    BY <2>1, <1>2, <1>3, <1>4

-----------------------------------------------------------------------------
(***************************************************************************)
(* Steps.                                                                  *)
(***************************************************************************)
LEMMA PositionFits ==
  ASSUME NEW row \in Nat, NEW col \in Nat
  PROVE  Position(row, col) \in Nat /\ Position(row, col) < 65536
<1>1. row * VGA_WIDTH + col \in Int
  BY SizeAssumption
<1>2. \A n \in Int : n % 65536 \in Nat /\ n % 65536 < 65536
  OBVIOUS
<1> QED
  BY <1>1, <1>2 DEF Position

\* A cell written is written in no other row and no other column.
Changed(x, ch) == term' = [term EXCEPT ![x] = ch]
OnlyCell(row, col, ch) ==
  \A r \in Rows, k \in Columns :
    term'[r * VGA_WIDTH + k] =
      IF r = row /\ k = col THEN ch ELSE term[r * VGA_WIDTH + k]

LEMMA CellWritten ==
  ASSUME term \in [Cells -> Char],
         NEW row \in Rows, NEW col \in Columns, NEW ch \in Char,
         NEW x, x = row * VGA_WIDTH + col, Changed(x, ch)
  PROVE  term' \in [Cells -> Char] /\ OnlyCell(row, col, ch)
<1>1. ASSUME NEW r \in Rows, NEW k \in Columns
      PROVE  term'[r * VGA_WIDTH + k] =
               IF r = row /\ k = col THEN ch ELSE term[r * VGA_WIDTH + k]
  <2>1. r * VGA_WIDTH + k \in Cells
    BY CellRange
  <2>2. CASE r = row /\ k = col
    BY <2>1, <2>2 DEF Changed
  <2>3. CASE ~(r = row /\ k = col)
    <3>1. r * VGA_WIDTH + k # x
      BY <2>3, CellIsOne
    <3> QED
      BY <2>1, <2>3, <3>1 DEF Changed
  <2> QED
    BY <2>2, <2>3
<1> QED
  BY <1>1 DEF Changed, OnlyCell

LEMMA InitIInv == Init => IInv
<1> SUFFICES ASSUME Init PROVE IInv
  OBVIOUS
<1>1. /\ term = [k \in Cells |-> Blank] /\ term_row = 0 /\ term_col = 0
      /\ cursor = 0 /\ pc = "out" /\ c = Blank /\ i = 0 /\ page = BlankPage
  BY DEF Init
<1>2. /\ VGA_WIDTH \in Nat \ {0} /\ VGA_HEIGHT \in Nat \ {0}
      /\ Blank \in Char /\ Moved \in Nat
  BY SizeAssumption, CharAssumption, LastRowCells
<1>3. TypeOK
  <2>1. term \in [Cells -> Char]
    BY <1>1, <1>2
  <2> QED
    BY <1>1, <1>2, <2>1 DEF TypeOK
<1>4. PageOK
  BY <1>1, <1>2, Blanks DEF PageOK, BlankPage, Page
<1>5. Len(page.rows) = 1 /\ page.rows[1] = BlankRow /\ page.col = 0
  BY <1>1 DEF BlankPage
<1>6. Gone(page) = 0 /\ Last(page) = 0
  <2>1. ~ Len(page.rows) > VGA_HEIGHT
    BY <1>2, <1>5
  <2> QED
    BY <1>5, <2>1 DEF Gone, Last
<1>7. ShowsPage(page)
  <2> SUFFICES ASSUME NEW r \in Rows, NEW k \in Columns
               PROVE  term[r * VGA_WIDTH + k] = Shown(page, r)[k]
    BY DEF ShowsPage
  <2>1. term[r * VGA_WIDTH + k] = Blank
    BY <1>1, CellRange
  <2>2. Shown(page, r) = BlankRow
    BY <1>2, <1>5, <1>6 DEF Shown, Rows
  <2> QED
    BY <2>1, <2>2, Blanks
<1>8. cursor = Position(term_row, term_col)
  BY <1>1, <1>2 DEF Position
<1> QED
  BY <1>1, <1>3, <1>4, <1>5, <1>6, <1>7, <1>8
  DEF IInv, Idle, Scrolling, Writing

LEMMA ReturnIInv == IInv /\ Return => IInv'
<1> SUFFICES ASSUME IInv, Return PROVE IInv'
  OBVIOUS
<1>1. /\ pc = "out" /\ pc' = "out" /\ term_col' = 0
      /\ cursor' = Position(term_row, 0) /\ page' = Typed(page, CR)
      /\ term' = term /\ term_row' = term_row /\ c' = c /\ i' = i
  BY DEF Return
<1>2. TypeOK /\ page \in Page /\ Len(page.rows) >= 1 /\ Idle
  BY DEF IInv, PageOK
<1>3. TypeOK'
  <2>1. cursor' \in Nat /\ cursor' < 65536 /\ term_col' \in 0 .. VGA_WIDTH
    BY <1>1, <1>2, PositionFits, SizeAssumption DEF TypeOK
  <2> QED
    BY <1>1, <1>2, <2>1 DEF TypeOK
<1>4. /\ page' \in Page /\ Len(page'.rows) >= 1 /\ page'.col = 0
      /\ Last(page') = Last(page)
      /\ \A r \in Rows : Shown(page', r) = Shown(page, r)
  BY <1>1, <1>2, TypedReturn
<1>5. ShowsPage(page)'
  BY <1>1, <1>2, <1>4 DEF Idle, ShowsPage
<1>6. term_row' = Last(page') /\ cursor' = Position(term_row', term_col')
  BY <1>1, <1>2, <1>4 DEF Idle
<1> QED
  BY <1>1, <1>3, <1>4, <1>5, <1>6 DEF IInv, PageOK, Idle, Scrolling, Writing

LEMMA BackspaceIInv == IInv /\ Backspace => IInv'
<1> SUFFICES ASSUME IInv, Backspace PROVE IInv'
  OBVIOUS
<1>1. /\ pc = "out" /\ pc' = "out"
      /\ term_col' = IF term_col > 0 THEN term_col - 1 ELSE 0
      /\ term' = IF term_col > 0
                 THEN [term EXCEPT ![term_row * VGA_WIDTH + term_col'] = Blank]
                 ELSE term
      /\ cursor' = Position(term_row, term_col') /\ page' = Typed(page, BS)
      /\ term_row' = term_row /\ c' = c /\ i' = i
  BY DEF Backspace
<1>2. /\ TypeOK /\ page \in Page /\ Len(page.rows) >= 1
      /\ ShowsPage(page) /\ term_row = Last(page) /\ term_col = page.col
  BY <1>1 DEF IInv, PageOK, Idle
<1>3. term_row \in Rows /\ term_row \in Nat /\ term_col \in 0 .. VGA_WIDTH
  BY <1>2, LastShown, PageRows, SizeAssumption DEF Rows
<1>4. cursor' \in Nat /\ cursor' < 65536 /\ term_col' \in 0 .. VGA_WIDTH
  <2>1. term_col' \in 0 .. VGA_WIDTH /\ term_col' \in Nat
    BY <1>1, <1>3, SizeAssumption
  <2>2. cursor' = Position(term_row, term_col')
    BY <1>1
  <2> QED
    BY <1>3, <2>1, <2>2, PositionFits
<1>5. CASE term_col > 0
  <2> DEFINE j == page.col - 1
             q == [rows |-> Put(page, j, Blank), col |-> j]
             x == term_row * VGA_WIDTH + j
  <2>1. j \in Columns /\ j \in 0 .. VGA_WIDTH /\ term_col' = j
    BY <1>1, <1>2, <1>3, <1>5, SizeAssumption DEF Columns
  <2>2. page' = q /\ q.col = j
    BY <1>1, <1>2, <1>5, TypedBackspace
  <2>3. Changed(x, Blank) /\ x = term_row * VGA_WIDTH + j
    BY <1>1, <1>5, <2>1 DEF Changed
  <2>4. term \in [Cells -> Char] /\ Blank \in Char
    BY <1>2, CharAssumption DEF TypeOK
  <2> HIDE DEF j, x
  <2>5. /\ q \in Page /\ Len(q.rows) = Len(page.rows) /\ Last(q) = Last(page)
        /\ \A r \in Rows, k \in Columns :
             Shown(q, r)[k] = IF r = Last(page) /\ k = j
                              THEN Blank ELSE Shown(page, r)[k]
    BY <1>2, <2>1, <2>4, PutShown
  <2> HIDE DEF q
  <2>6. term' \in [Cells -> Char] /\ OnlyCell(term_row, j, Blank)
    BY <1>3, <2>1, <2>3, <2>4, CellWritten
  <2>7. ShowsPage(page)'
    BY <1>2, <2>2, <2>5, <2>6 DEF ShowsPage, OnlyCell
  <2>8. TypeOK'
    BY <1>1, <1>2, <1>4, <2>6 DEF TypeOK
  <2>9. page'.col = term_col' /\ term_row' = Last(page')
    BY <1>1, <1>2, <2>1, <2>2, <2>5
  <2> QED
    BY <1>1, <1>2, <2>2, <2>5, <2>7, <2>8, <2>9
    DEF IInv, PageOK, Idle, Scrolling, Writing
<1>6. CASE ~ term_col > 0
  <2>1. page' = page /\ term' = term /\ term_col' = term_col
    BY <1>1, <1>2, <1>3, <1>6, TypedBackspace
  <2>2. TypeOK'
    BY <1>1, <1>2, <1>4, <2>1 DEF TypeOK
  <2> QED
    BY <1>1, <1>2, <2>1, <2>2
    DEF IInv, PageOK, Idle, Scrolling, Writing, ShowsPage
<1> QED
  BY <1>5, <1>6

\* Either the row the character starts fits on the screen and was blank, or
\* the screen has to scroll, or it starts none.
LEMMA PlaceIInv == ASSUME IInv, NEW ch \in Char \cup {LF}, Place(ch) PROVE IInv'
<1>1. /\ pc = "out" /\ c' = ch /\ i' = 0 /\ term' = term /\ cursor' = cursor
      /\ page' = page
      /\ IF ch = LF \/ WrapNeeded(ch)
         THEN term_col' = 0 /\ term_row' = term_row + 1
         ELSE term_col' = term_col /\ term_row' = term_row
      /\ pc' = IF term_row' = VGA_HEIGHT THEN "copy" ELSE "write"
  BY DEF Place
<1>2. /\ TypeOK /\ page \in Page /\ Len(page.rows) >= 1
      /\ ShowsPage(page) /\ term_row = Last(page) /\ term_col = page.col
  BY <1>1 DEF IInv, PageOK, Idle
<1>3. /\ term_row \in Rows /\ term_row \in Nat /\ term_col \in 0 .. VGA_WIDTH
      /\ Len(page.rows) \in Nat
      /\ Len(page.rows) >= VGA_HEIGHT => term_row = VGA_HEIGHT - 1
  BY <1>2, LastShown, PageRows, SizeAssumption DEF Rows
<1>4. /\ 0 \in 0 .. VGA_WIDTH /\ 0 < VGA_WIDTH /\ 0 \in 0 .. Moved
      /\ VGA_HEIGHT \in Nat \ {0}
  BY SizeAssumption, LastRowCells
<1>5. PageOK'
  BY <1>1, <1>2 DEF PageOK
<1>6. CASE StartsRow(page, ch)
  <2>1. ch = LF \/ WrapNeeded(ch)
    BY <1>2, <1>6 DEF StartsRow, WrapNeeded
  <2>2. term_col' = 0 /\ term_row' = term_row + 1 /\ Opened(page, ch) = NextRow(page)
    BY <1>1, <1>6, <2>1 DEF Opened
  <2>3. NextRow(page).col = 0
    BY DEF NextRow
  <2>4. CASE Len(page.rows) < VGA_HEIGHT
    <3>1. term_row' = Last(NextRow(page))
      BY <1>2, <2>2, <2>4, RowOpened
    <3>2. NextRow(page) \in Page /\ Len(NextRow(page).rows) >= 1
      BY <1>2, <1>3, RowOpened
    <3>3. term_row' \in Rows
      BY <3>1, <3>2, LastShown
    <3>4. pc' = "write" /\ term_row' \in 0 .. VGA_HEIGHT /\ term_row' # VGA_HEIGHT
      BY <1>1, <1>4, <3>3 DEF Rows
    <3>5. ShowsPage(Opened(page, c))'
      BY <1>1, <1>2, <2>2, <2>4, RowOpened DEF ShowsPage
    <3>6. TypeOK'
      BY <1>1, <1>2, <1>4, <2>2, <3>4 DEF TypeOK
    <3> QED
      BY <1>1, <1>5, <2>2, <2>3, <3>1, <3>4, <3>5, <3>6
      DEF IInv, Idle, Scrolling, Writing
  <2>5. CASE Len(page.rows) >= VGA_HEIGHT
    <3>1. pc' = "copy" /\ term_row' = VGA_HEIGHT
      BY <1>1, <1>3, <1>4, <2>2, <2>5
    <3>2. HalfScrolled'
      <4> SUFFICES ASSUME NEW r \in Rows, NEW k \in Columns
                   PROVE  term[r * VGA_WIDTH + k] =
                            Shown(page, IF r * VGA_WIDTH + k < 0
                                        THEN r + 1 ELSE r)[k]
        BY <1>1 DEF HalfScrolled
      <4>1. r * VGA_WIDTH + k \in Cells
        BY CellRange
      <4>2. ~ r * VGA_WIDTH + k < 0
        BY <4>1, LastRowCells
      <4> QED
        BY <1>2, <4>2 DEF ShowsPage
    <3>3. TypeOK'
      BY <1>1, <1>2, <1>4, <2>2, <3>1 DEF TypeOK
    <3> QED
      BY <1>1, <1>5, <1>6, <2>2, <2>5, <3>1, <3>2, <3>3
      DEF IInv, Idle, Scrolling, Writing
  <2> QED
    BY <1>3, <1>4, <2>4, <2>5
<1>7. CASE ~StartsRow(page, ch)
  <2>1. ch # LF /\ ~WrapNeeded(ch) /\ Opened(page, ch) = page
    BY <1>2, <1>7 DEF StartsRow, WrapNeeded, Opened
  <2>2. /\ term_col' = term_col /\ term_row' = term_row /\ pc' = "write"
        /\ term_row # VGA_HEIGHT
    BY <1>1, <1>3, <1>4, <2>1 DEF Rows
  <2>3. term_col < VGA_WIDTH
    BY <1>2, <1>3, <1>7, SizeAssumption DEF StartsRow
  <2>4. TypeOK'
    BY <1>1, <1>2, <1>4, <2>2, <2>3 DEF TypeOK
  <2>5. ShowsPage(Opened(page, c))'
    BY <1>1, <1>2, <2>1 DEF ShowsPage
  <2> QED
    BY <1>1, <1>2, <1>5, <2>1, <2>2, <2>4, <2>5
    DEF IInv, Idle, Scrolling, Writing
<1> QED
  BY <1>6, <1>7

\* memcpy's next cell still has the row below, for it comes before it.
LEMMA CopyCellIInv == IInv /\ CopyCell => IInv'
<1> SUFFICES ASSUME IInv, CopyCell PROVE IInv'
  OBVIOUS
<1>1. /\ pc = "copy" /\ pc' = "copy" /\ i < Moved /\ i' = i + 1
      /\ term_row' = term_row /\ term_col' = term_col /\ cursor' = cursor
      /\ c' = c /\ page' = page
  BY DEF CopyCell
<1>2. term' = [term EXCEPT ![i] = term[i + VGA_WIDTH]]
  BY DEF CopyCell
<1>3. /\ TypeOK /\ PageOK /\ HalfScrolled /\ Len(page.rows) >= VGA_HEIGHT
      /\ StartsRow(page, c) /\ term_col = 0
  BY <1>1 DEF IInv, Scrolling
<1>4. /\ i \in 0 .. Moved /\ Moved \in Nat /\ VGA_WIDTH \in Nat \ {0}
      /\ i + VGA_WIDTH \in Cells /\ i \in Cells /\ term \in [Cells -> Char]
  BY <1>1, <1>3, LastRowCells, SizeAssumption DEF TypeOK
<1>5. TypeOK'
  <2>1. term' \in [Cells -> Char] /\ i' \in 0 .. Moved
    BY <1>1, <1>2, <1>4
  <2> QED
    BY <1>1, <1>3, <2>1 DEF TypeOK
<1>6. ASSUME NEW r \in Rows, NEW k \in Columns
      PROVE  term'[r * VGA_WIDTH + k] =
               Shown(page, IF r * VGA_WIDTH + k < i + 1 THEN r + 1 ELSE r)[k]
  <2> DEFINE x == r * VGA_WIDTH + k
  <2>1. /\ x \in Cells /\ x \in Int /\ r \in Int
        /\ r < VGA_HEIGHT - 1 => x < Moved
        /\ r = VGA_HEIGHT - 1 => x >= Moved
        /\ r <= VGA_HEIGHT - 1
    BY CellRange, LastRowCells, SizeAssumption DEF Rows
  <2>2. (r + 1) * VGA_WIDTH + k = x + VGA_WIDTH
    BY <1>4, RowAbove DEF Rows, Columns
  <2>3. term[x] = Shown(page, IF x < i THEN r + 1 ELSE r)[k]
    BY <1>3 DEF HalfScrolled
  <2>4. r < VGA_HEIGHT - 1 =>
          term[(r + 1) * VGA_WIDTH + k] =
            Shown(page, IF (r + 1) * VGA_WIDTH + k < i THEN r + 2 ELSE r + 1)[k]
    <3>1. r < VGA_HEIGHT - 1 => r + 1 \in Rows /\ (r + 1) + 1 = r + 2
      BY SizeAssumption DEF Rows
    <3> QED
      BY <1>3, <3>1 DEF HalfScrolled
  <2> HIDE DEF x
  <2>5. CASE x = i
    <3>1. r < VGA_HEIGHT - 1
      BY <1>1, <1>4, <2>1, <2>5, SizeAssumption
    <3>2. term'[x] = term[x + VGA_WIDTH]
      BY <1>2, <1>4, <2>5
    <3>3. ~ x + VGA_WIDTH < i /\ x < i + 1
      BY <1>4, <2>1, <2>5
    <3> QED
      BY <2>2, <2>4, <3>1, <3>2, <3>3 DEF x
  <2>6. CASE x # i
    <3>1. term'[x] = term[x]
      BY <1>2, <1>4, <2>1, <2>6
    <3>2. x < i + 1 <=> x < i
      BY <1>4, <2>1, <2>6
    <3> QED
      BY <2>3, <3>1, <3>2 DEF x
  <2> QED
    BY <2>5, <2>6
<1>7. HalfScrolled'
  BY <1>1, <1>6 DEF HalfScrolled
<1> QED
  BY <1>1, <1>3, <1>5, <1>7 DEF IInv, PageOK, Idle, Scrolling, Writing

LEMMA CopyDoneIInv == IInv /\ CopyDone => IInv'
  BY DEF IInv, TypeOK, PageOK, Idle, Scrolling, Writing, HalfScrolled,
     CopyDone, Cells, Moved

\* With the last row blank the screen shows the page with its new row.
LEMMA ClearLastRowIInv == IInv /\ ClearLastRow => IInv'
<1> SUFFICES ASSUME IInv, ClearLastRow PROVE IInv'
  OBVIOUS
<1>1. /\ pc = "clear" /\ pc' = "write" /\ term_row' = term_row - 1
      /\ term_col' = term_col /\ cursor' = cursor
      /\ c' = c /\ i' = i /\ page' = page
  BY DEF ClearLastRow
<1>2. term' = [k \in Cells |->
                 IF k \in {j + term_row' * VGA_WIDTH : j \in Columns}
                 THEN Blank ELSE term[k]]
  BY DEF ClearLastRow
<1>3. /\ TypeOK /\ page \in Page /\ Len(page.rows) >= 1 /\ HalfScrolled
      /\ Len(page.rows) >= VGA_HEIGHT /\ StartsRow(page, c)
      /\ term_col = 0 /\ i = Moved /\ term_row = VGA_HEIGHT
  BY <1>1 DEF IInv, PageOK, Scrolling, TypeOK
<1>4. /\ VGA_HEIGHT \in Nat \ {0} /\ VGA_WIDTH \in Nat \ {0} /\ Moved \in Nat
      /\ term_row' = VGA_HEIGHT - 1 /\ term_row' \in Rows
  BY <1>1, <1>3, SizeAssumption, LastRowCells DEF Rows
<1>5. TypeOK'
  <2>1. term' \in [Cells -> Char]
    BY <1>2, <1>3, CharAssumption DEF TypeOK
  <2>2. term_row' \in 0 .. VGA_HEIGHT /\ term_row' # VGA_HEIGHT /\ 0 < VGA_WIDTH
    BY <1>4
  <2> QED
    BY <1>1, <1>3, <2>1, <2>2 DEF TypeOK
<1>6. /\ Opened(page, c) = NextRow(page) /\ NextRow(page).col = 0
      /\ Last(NextRow(page)) = VGA_HEIGHT - 1
      /\ \A r \in Rows : r < VGA_HEIGHT - 1 =>
           Shown(NextRow(page), r) = Shown(page, r + 1)
      /\ Shown(NextRow(page), VGA_HEIGHT - 1) = BlankRow
  BY <1>3, RowOpened, LastShown DEF Opened, NextRow
<1>7. ASSUME NEW r \in Rows, NEW k \in Columns
      PROVE  term'[r * VGA_WIDTH + k] = Shown(NextRow(page), r)[k]
  <2> DEFINE x == r * VGA_WIDTH + k
  <2>1. /\ x \in Cells
        /\ r < VGA_HEIGHT - 1 => x < Moved
    BY CellRange
  <2>2. CASE r = VGA_HEIGHT - 1
    <3>1. x = k + term_row' * VGA_WIDTH
      BY <1>4, <2>2, RowAbove DEF Columns
    <3>2. x \in {j + term_row' * VGA_WIDTH : j \in Columns}
      BY <3>1
    <3> HIDE DEF x
    <3>3. term'[x] = Blank
      BY <1>2, <2>1, <3>2
    <3> QED
      BY <1>6, <2>2, <3>3, Blanks DEF x
  <2>3. CASE r # VGA_HEIGHT - 1
    <3>1. r < VGA_HEIGHT - 1
      BY <1>4, <2>3 DEF Rows
    <3>2. ASSUME NEW j \in Columns PROVE x # j + term_row' * VGA_WIDTH
      <4>1. x # term_row' * VGA_WIDTH + j
        BY <1>4, <2>3, <3>2, CellIsOne
      <4>2. term_row' * VGA_WIDTH + j = j + term_row' * VGA_WIDTH
        BY <1>4, <3>2, RowAbove DEF Columns
      <4> QED
        BY <4>1, <4>2
    <3>3. x < i
      BY <1>3, <2>1, <3>1
    <3>4. term[x] = Shown(page, r + 1)[k]
      BY <1>3, <3>3 DEF HalfScrolled
    <3> HIDE DEF x
    <3>5. term'[x] = term[x]
      BY <1>2, <2>1, <3>2
    <3> QED
      BY <1>6, <3>1, <3>4, <3>5 DEF x
  <2> QED
    BY <2>2, <2>3
<1>8. ShowsPage(Opened(page, c))'
  BY <1>1, <1>6, <1>7 DEF ShowsPage
<1> QED
  BY <1>1, <1>3, <1>4, <1>5, <1>6, <1>8
  DEF IInv, PageOK, Idle, Scrolling, Writing

LEMMA WriteIInv == IInv /\ Write => IInv'
<1> SUFFICES ASSUME IInv, Write PROVE IInv'
  OBVIOUS
<1> DEFINE o == Opened(page, c)
<1>1. /\ pc = "write" /\ pc' = "out" /\ cursor' = Position(term_row, term_col')
      /\ page' = Typed(page, c) /\ term_row' = term_row /\ c' = c /\ i' = i
      /\ c = LF => term' = term /\ term_col' = term_col
      /\ c # LF => term_col' = term_col + 1
  BY DEF Write
<1>2. c # LF => Changed(term_col + term_row * VGA_WIDTH, c)
  BY DEF Write, Changed
<1>3. /\ TypeOK /\ page \in Page /\ Len(page.rows) >= 1 /\ c \in Char \cup {LF}
      /\ ShowsPage(o) /\ term_row = Last(o) /\ term_col = o.col
  BY <1>1 DEF IInv, PageOK, Writing, TypeOK
<1>4. o \in Page /\ Len(o.rows) >= 1
  BY <1>3, RowOpened, PageRows DEF Opened
<1>5. page' = IF c = LF THEN o
              ELSE [rows |-> Put(o, o.col, c), col |-> o.col + 1]
  BY <1>1, <1>3, TypedOther
<1> HIDE DEF o
<1>6. term_row \in Rows /\ term_row \in Nat /\ term_row # VGA_HEIGHT
  BY <1>3, <1>4, LastShown, SizeAssumption DEF Rows
<1>7. CASE c = LF
  <2>1. page' = o /\ term' = term /\ term_col' = term_col
    BY <1>1, <1>5, <1>7
  <2>2. cursor' \in Nat /\ cursor' < 65536
    <3>1. term_col \in Nat
      BY <1>3, SizeAssumption DEF TypeOK
    <3>2. cursor' = Position(term_row, term_col)
      BY <1>1, <2>1
    <3> QED
      BY <1>6, <3>1, <3>2, PositionFits
  <2>3. TypeOK'
    BY <1>1, <1>3, <1>6, <2>1, <2>2 DEF TypeOK
  <2>4. ShowsPage(page)'
    BY <1>3, <2>1 DEF ShowsPage
  <2> QED
    BY <1>1, <1>3, <1>4, <2>1, <2>3, <2>4
    DEF IInv, PageOK, Idle, Scrolling, Writing
<1>8. CASE c # LF
  <2> DEFINE q == [rows |-> Put(o, term_col, c), col |-> term_col + 1]
             x == term_col + term_row * VGA_WIDTH
  <2>1. /\ c \in Char /\ term_col \in Columns
        /\ term_col + 1 \in 0 .. VGA_WIDTH /\ term_col + 1 \in Nat
    BY <1>1, <1>3, <1>8, SizeAssumption DEF TypeOK, Columns
  <2>2. page' = q /\ q.col = term_col + 1 /\ term_col' = term_col + 1
    BY <1>1, <1>3, <1>5, <1>8
  <2>3. Changed(x, c) /\ x = term_row * VGA_WIDTH + term_col
    BY <1>2, <1>6, <1>8, <2>1, RowAbove DEF Columns
  <2>4. term \in [Cells -> Char]
    BY <1>3 DEF TypeOK
  <2> HIDE DEF x
  <2>5. /\ q \in Page /\ Len(q.rows) = Len(o.rows) /\ Last(q) = Last(o)
        /\ \A r \in Rows, k \in Columns :
             Shown(q, r)[k] = IF r = Last(o) /\ k = term_col
                              THEN c ELSE Shown(o, r)[k]
    BY <1>4, <2>1, PutShown
  <2> HIDE DEF q
  <2>6. term' \in [Cells -> Char] /\ OnlyCell(term_row, term_col, c)
    BY <1>6, <2>1, <2>3, <2>4, CellWritten
  <2>7. ShowsPage(page)'
    BY <1>3, <2>2, <2>5, <2>6 DEF ShowsPage, OnlyCell
  <2>8. cursor' \in Nat /\ cursor' < 65536
    BY <1>1, <1>6, <2>1, <2>2, PositionFits
  <2>9. TypeOK'
    BY <1>1, <1>3, <1>6, <2>1, <2>2, <2>6, <2>8 DEF TypeOK
  <2> QED
    BY <1>1, <1>3, <1>4, <2>2, <2>5, <2>7, <2>9
    DEF IInv, PageOK, Idle, Scrolling, Writing
<1> QED
  BY <1>7, <1>8

LEMMA NextIInv == IInv /\ [Next]_vars => IInv'
<1> SUFFICES ASSUME IInv, [Next]_vars PROVE IInv'
  OBVIOUS
<1>1. CASE Return
  BY <1>1, ReturnIInv
<1>2. CASE Backspace
  BY <1>2, BackspaceIInv
<1>3. ASSUME NEW ch \in Char \cup {LF}, Place(ch) PROVE IInv'
  BY <1>3, PlaceIInv
<1>4. CASE CopyCell
  BY <1>4, CopyCellIInv
<1>5. CASE CopyDone
  BY <1>5, CopyDoneIInv
<1>6. CASE ClearLastRow
  BY <1>6, ClearLastRowIInv
<1>7. CASE Write
  BY <1>7, WriteIInv
<1>8. CASE UNCHANGED vars
  BY <1>8 DEF vars, IInv, TypeOK, PageOK, Idle, Scrolling, Writing,
     HalfScrolled, ShowsPage, Cells, Moved
<1> QED
  BY <1>1, <1>2, <1>3, <1>4, <1>5, <1>6, <1>7, <1>8 DEF Next, Putchar, Step

(***************************************************************************)
(* In every reachable state, and in the middle of a scroll, each cell      *)
(* shows what it should.                                                   *)
(***************************************************************************)
THEOREM TerminalInvariant == Spec => []IInv
<1>1. QED
  BY InitIInv, NextIInv, PTL DEF Spec

(***************************************************************************)
(* No index leaves the screen (term.c:41-66) and every variable keeps to   *)
(* its range.                                                              *)
(***************************************************************************)
THEOREM TerminalTyped == Spec => []TypeOK
<1>1. IInv => TypeOK
  BY DEF IInv
<1>2. QED
  BY <1>1, TerminalInvariant, PTL

(***************************************************************************)
(* Whatever is printed, the screen shows the end of the transcript.        *)
(***************************************************************************)
THEOREM TerminalShows == Spec => []ScreenShows
<1>1. IInv => ScreenShows
  BY DEF IInv, Idle, ShowsPage, ScreenShows
<1>2. QED
  BY <1>1, TerminalInvariant, PTL

(***************************************************************************)
(* The cursor is where the transcript ends.                                *)
(***************************************************************************)
THEOREM TerminalCursorFollows == Spec => []CursorFollows
<1>1. IInv => CursorFollows
  BY DEF IInv, Idle, Last, CursorFollows
<1>2. QED
  BY <1>1, TerminalInvariant, PTL

=============================================================================
