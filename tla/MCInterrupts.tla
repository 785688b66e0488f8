---------------------------- MODULE MCInterrupts ----------------------------
(***************************************************************************)
(* A ring of two slots, two characters, and a scan code in the keyboard    *)
(* behind the one in the port: a key arrives in every context, and at      *)
(* every step of kgetc, with the ring empty, filling and full.             *)
(***************************************************************************)
EXTENDS Interrupts

=============================================================================
