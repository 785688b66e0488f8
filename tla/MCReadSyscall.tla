--------------------------- MODULE MCReadSyscall ---------------------------
(***************************************************************************)
(* Reads of up to three characters into a memory that holds anything: long *)
(* enough for characters to be typed, erased and typed again at each place *)
(* of the buffer.                                                          *)
(***************************************************************************)
EXTENDS ReadSyscall

=============================================================================
