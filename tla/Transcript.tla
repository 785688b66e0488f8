----------------------------- MODULE Transcript -----------------------------
(***************************************************************************)
(* What a reader of the terminal of kernel/term.c is owed: a page of rows  *)
(* that only grows downwards, of which only the last row is still edited.  *)
(* A page is a record of its rows, each a function on the columns, and of  *)
(* the column in the last row where the next character goes; in column     *)
(* VGA_WIDTH the row is full and the next character starts a row.          *)
(***************************************************************************)
EXTENDS Integers, Sequences

CONSTANTS
  VGA_WIDTH, VGA_HEIGHT,  \* columns and rows of the screen
  Char,                   \* the characters that occupy a cell
  Blank,                  \* ' '
  CR, BS, LF              \* '\r', '\b' and '\n'

ASSUME SizeAssumption == VGA_WIDTH \in Nat \ {0} /\ VGA_HEIGHT \in Nat \ {0}
ASSUME CharAssumption ==
  /\ Blank \in Char /\ {CR, BS, LF} \cap Char = {}
  /\ CR # BS /\ BS # LF /\ LF # CR

Columns == 0 .. VGA_WIDTH - 1
Rows == 0 .. VGA_HEIGHT - 1
Control == {CR, BS, LF}

BlankRow == [k \in Columns |-> Blank]
BlankPage == [rows |-> <<BlankRow>>, col |-> 0]

Put(page, k, ch) == [page.rows EXCEPT ![Len(page.rows)][k] = ch]

\* The page after one more character.
Typed(page, ch) ==
  CASE ch = CR -> [page EXCEPT !.col = 0]
    [] ch = BS /\ page.col = 0 -> page
    [] ch = BS /\ page.col > 0 ->
         [rows |-> Put(page, page.col - 1, Blank), col |-> page.col - 1]
    [] ch = LF -> [rows |-> Append(page.rows, BlankRow), col |-> 0]
    [] ch \in Char /\ page.col = VGA_WIDTH ->
         [rows |-> Append(page.rows, [BlankRow EXCEPT ![0] = ch]), col |-> 1]
    [] ch \in Char /\ page.col < VGA_WIDTH ->
         [rows |-> Put(page, page.col, ch), col |-> page.col + 1]

\* Rows of a page that have left the screen at its top.
Gone(page) ==
  IF Len(page.rows) > VGA_HEIGHT THEN Len(page.rows) - VGA_HEIGHT ELSE 0

\* Row r of the screen that shows the page.
Shown(page, r) ==
  IF Gone(page) + r < Len(page.rows)
  THEN page.rows[Gone(page) + r + 1]
  ELSE BlankRow

=============================================================================
