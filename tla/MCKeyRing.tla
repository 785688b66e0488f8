----------------------------- MODULE MCKeyRing -----------------------------
(***************************************************************************)
(* A ring of three slots and three characters, one of them NUL: enough for *)
(* the heads to wrap at different times, for a full ring with the consumer *)
(* at every step, and for two neighbouring characters to differ.           *)
(***************************************************************************)
EXTENDS KeyRing

=============================================================================
