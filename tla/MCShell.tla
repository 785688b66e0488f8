------------------------------ MODULE MCShell ------------------------------
(***************************************************************************)
(* Lines of at most four characters and two characters typed ahead: room   *)
(* for a name of two letters and its newline, for a name that is too long  *)
(* for exec's copy, for a line that is too long for getline, and for a NUL *)
(* before, between and after them.  One program's name begins another's.   *)
(*                                                                         *)
(* Programs ask for blocks of every size from nothing to PAGE_SIZE, and    *)
(* the shell for two lines in a region, up to the second page of the heap. *)
(***************************************************************************)
EXTENDS Shell

CONSTANTS a, b

MCInit == <<b>>
MCShellName == <<a>>
MCModules == {MCInit, MCShellName, <<a, b>>}
MCRequests == 0 .. PAGE_SIZE

=============================================================================
