------------------------------ MODULE MCPaging ------------------------------
(***************************************************************************)
(* Tables of three words, two of them for the lower half in the root.  The *)
(* bootloader's identity map has a level 1 table, a large page at level 2  *)
(* and one at level 3; its tables are frames that the free list does not   *)
(* have yet.  The usable frames hold words that look present, as memory    *)
(* that nobody cleared may.                                                *)
(* Page 0 is mapped too.                                                   *)
(*                                                                         *)
(* Four addresses: two heap pages that share every table, a segment that   *)
(* shares the level 3 table with them, and a stack that shares the root.   *)
(***************************************************************************)
EXTENDS Paging, TLC

CONSTANT MCUsableFrames    \* how many usable frames there are

Word4(p, ps, f) == [present |-> p, user |-> TRUE, writable |-> TRUE,
                    page_size |-> ps, no_execute |-> FALSE, address |-> f]

Table(words) == [k \in 0 .. 2 |-> IF k \in DOMAIN words THEN words[k] ELSE Zero]

MCNull == 0
MCRoot == 1
MCKernelFrame == {2}
MCFrame == 1 .. 5 + MCUsableFrames
MCUsable == [k \in 1 .. MCUsableFrames |-> 5 + k]

MCBootMem ==
  [f \in MCFrame |->
    CASE f = 1 -> Table((0 :> Word4(TRUE, FALSE, 3)) @@ (2 :> Word4(TRUE, FALSE, 2)))
      [] f = 2 -> Table(2 :> Word4(TRUE, TRUE, 6))
      [] f = 3 -> Table((0 :> Word4(TRUE, FALSE, 4)) @@ (1 :> Word4(TRUE, TRUE, 7)))
      [] f = 4 -> Table((0 :> Word4(TRUE, FALSE, 5)) @@ (2 :> Word4(TRUE, TRUE, 6)))
      [] f = 5 -> Table((0 :> Word4(TRUE, FALSE, 6)) @@ (1 :> Word4(TRUE, FALSE, 0)))
      [] OTHER -> [k \in 0 .. 2 |-> Word4(TRUE, FALSE, 6)]]

Va(i3, i2, i1, i0) == [n \in 0 .. 3 |-> <<i0, i1, i2, i3>>[n + 1]]

MCHeapAddr == <<Va(0, 0, 0, 0), Va(0, 0, 0, 1)>>
MCSegAddr == {Va(0, 1, 0, 0), Va(1, 0, 0, 0)}

MCPerm ==
  {[user |-> FALSE, writable |-> TRUE, executable |-> FALSE],
   [user |-> TRUE, writable |-> FALSE, executable |-> TRUE]}

=============================================================================
