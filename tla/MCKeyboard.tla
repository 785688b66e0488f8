----------------------------- MODULE MCKeyboard -----------------------------
(***************************************************************************)
(* Two shift keys, a letter, a digit, a symbol key that shift changes, a   *)
(* cursor key and print screen, and up to five codes on their way: enough  *)
(* for a letter between the moves of both shift keys, or behind the four   *)
(* codes of print screen.                                                  *)
(***************************************************************************)
EXTENDS Keyboard

=============================================================================
