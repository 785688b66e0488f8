------------------------------ MODULE MCPrintf ------------------------------
(***************************************************************************)
(* Words of 4 bits, ints of 3 and shorts of 2, in the bases 3 and 4: the   *)
(* largest word has as many digits as the buffer has room for, in the      *)
(* larger base fewer, and there are negative ints.  All formats of at most *)
(* four characters over '%', the letters and one that is none.             *)
(***************************************************************************)
EXTENDS Printf

Alphabet == {"%", "s", "d", "p", "x", "c", "q"}
MCFormats == UNION {[1 .. n -> Alphabet] : n \in 0 .. 4}
MCStrings == {<<>>, <<"%", "d">>}

=============================================================================
