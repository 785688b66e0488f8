------------------------------ MODULE Terminal ------------------------------
(***************************************************************************)
(* The terminal of kernel/term.c: an array of cells that the display       *)
(* shows, a position, and the hardware cursor.  Everything the kernel and  *)
(* the programs print goes through term_putchar.                           *)
(*                                                                         *)
(* The array is one-dimensional, as in the code, and the scroll is the     *)
(* memcpy of stdlib/mem.c, which copies upwards through overlapping        *)
(* ranges: each cell it copies is a step.  A character that needs no       *)
(* scroll is two steps, the position and then the cell.                    *)
(*                                                                         *)
(* page is a history variable: the transcript of what was printed.  The    *)
(* colours, which are white on black in every cell, are left out.          *)
(***************************************************************************)
EXTENDS Transcript

CONSTANT MaxRows    \* bound: rows printed

ASSUME MaxRowsAssumption == MaxRows \in Nat

VARIABLES
  term,       \* the cells of the screen, row after row
  term_row, term_col,
  cursor,     \* the position the display was told to show its cursor at
  pc,         \* where term_putchar is, "out" when not in it
  c,          \* its argument
  i,          \* cells memcpy has copied
  page

vars == <<term, term_row, term_col, cursor, pc, c, i, page>>

Cells == 0 .. VGA_WIDTH * VGA_HEIGHT - 1
Moved == VGA_WIDTH * (VGA_HEIGHT - 1)

\* pos in term_update_cursor, a uint16_t
Position(row, col) == (row * VGA_WIDTH + col) % 65536

\* term_init and term_clear
Init ==
  /\ term = [k \in Cells |-> Blank]
  /\ term_row = 0
  /\ term_col = 0
  /\ cursor = 0
  /\ pc = "out"
  /\ c = Blank
  /\ i = 0
  /\ page = BlankPage

-----------------------------------------------------------------------------
(***************************************************************************)
(* Mutants: definitions of this module with a mistake in them.  Nothing    *)
(* refers to them here; each shows that a property below can fail.         *)
(***************************************************************************)
\* The copy runs from the end of the screen to its start.
CopyCellDown ==
  /\ pc = "copy"
  /\ i < Moved
  /\ term' = [term EXCEPT ![Moved - 1 - i] = term[Moved - 1 - i + VGA_WIDTH]]
  /\ i' = i + 1
  /\ UNCHANGED <<term_row, term_col, cursor, pc, c, page>>

\* The early return for '\b' leaves the cursor where it was.
BackspaceCursorLost ==
  /\ pc = "out"
  /\ term_col' = IF term_col > 0 THEN term_col - 1 ELSE 0
  /\ term' = IF term_col > 0
             THEN [term EXCEPT ![term_row * VGA_WIDTH + term_col - 1] = Blank]
             ELSE term
  /\ page' = Typed(page, BS)
  /\ UNCHANGED <<term_row, cursor, pc, c, i>>

-----------------------------------------------------------------------------
Return ==
  /\ pc = "out"
  /\ term_col' = 0
  /\ cursor' = Position(term_row, 0)
  /\ page' = Typed(page, CR)
  /\ UNCHANGED <<term, term_row, pc, c, i>>

Backspace ==
  /\ pc = "out"
  /\ term_col' = IF term_col > 0 THEN term_col - 1 ELSE 0
  /\ term' = IF term_col > 0
             THEN [term EXCEPT ![term_row * VGA_WIDTH + term_col'] = Blank]
             ELSE term
  /\ cursor' = Position(term_row, term_col')
  /\ page' = Typed(page, BS)
  /\ UNCHANGED <<term_row, pc, c, i>>

WrapNeeded(ch) == ch # LF /\ term_col = VGA_WIDTH

\* Everything else starts with the position of the character.
Place(ch) ==
  /\ pc = "out"
  /\ Len(Typed(page, ch).rows) <= MaxRows
  /\ c' = ch
  /\ IF ch = LF \/ WrapNeeded(ch)
     THEN term_col' = 0 /\ term_row' = term_row + 1
     ELSE UNCHANGED <<term_col, term_row>>
  /\ pc' = IF term_row' = VGA_HEIGHT THEN "copy" ELSE "write"
  /\ i' = 0
  /\ UNCHANGED <<term, cursor, page>>

CopyCell ==
  /\ pc = "copy"
  /\ i < Moved
  /\ term' = [term EXCEPT ![i] = term[i + VGA_WIDTH]]
  /\ i' = i + 1
  /\ UNCHANGED <<term_row, term_col, cursor, pc, c, page>>

CopyDone ==
  /\ pc = "copy"
  /\ i = Moved
  /\ pc' = "clear"
  /\ UNCHANGED <<term, term_row, term_col, cursor, c, i, page>>

ClearLastRow ==
  /\ pc = "clear"
  /\ term_row' = term_row - 1
  /\ term' = [k \in Cells |->
       IF k \in {j + term_row' * VGA_WIDTH : j \in Columns}
       THEN Blank ELSE term[k]]
  /\ pc' = "write"
  /\ UNCHANGED <<term_col, cursor, c, i, page>>

Write ==
  /\ pc = "write"
  /\ IF c # LF
     THEN /\ term' = [term EXCEPT ![term_col + term_row * VGA_WIDTH] = c]
          /\ term_col' = term_col + 1
     ELSE UNCHANGED <<term, term_col>>
  /\ cursor' = Position(term_row, term_col')
  /\ pc' = "out"
  /\ page' = Typed(page, c)
  /\ UNCHANGED <<term_row, c, i>>

-----------------------------------------------------------------------------
Putchar == Return \/ Backspace \/ \E ch \in Char \cup {LF} : Place(ch)

Step == CopyCell \/ CopyDone \/ ClearLastRow \/ Write

Next == Putchar \/ Step

Spec == Init /\ [][Next]_vars

-----------------------------------------------------------------------------
\* Types, for proofs.
TypeOK ==
  /\ term \in [Cells -> Char]
  /\ term_row \in 0 .. VGA_HEIGHT
  /\ term_row = VGA_HEIGHT <=> pc \in {"copy", "clear"}
  /\ term_col \in 0 .. VGA_WIDTH
  /\ pc # "out" /\ c # LF => term_col < VGA_WIDTH
  /\ cursor \in Nat /\ cursor < 65536
  /\ pc \in {"out", "copy", "clear", "write"}
  /\ c \in Char \cup {LF}
  /\ i \in 0 .. Moved

(***************************************************************************)
(* Whenever term_putchar is not running, the screen shows the end of the   *)
(* transcript: no wrap, scroll or backspace has lost, doubled or moved a   *)
(* character of the rows that should be visible.                           *)
(***************************************************************************)
ScreenShows ==
  pc = "out" =>
    \A r \in Rows, k \in Columns :
      term[r * VGA_WIDTH + k] = Shown(page, r)[k]

(***************************************************************************)
(* The cursor of the display is where the terminal will write next, or     *)
(* behind the last character of a full row, on every way out of            *)
(* term_putchar.                                                           *)
(***************************************************************************)
CursorFollows ==
  pc = "out" =>
    cursor = Position(Len(page.rows) - Gone(page) - 1, page.col)

=============================================================================
