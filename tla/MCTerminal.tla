----------------------------- MODULE MCTerminal -----------------------------
(***************************************************************************)
(* A screen of three rows of three columns and five rows of text: the      *)
(* screen fills, scrolls twice, and every row can be erased and wrapped.   *)
(***************************************************************************)
EXTENDS Terminal

=============================================================================
