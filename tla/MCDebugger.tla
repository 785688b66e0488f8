----------------------------- MODULE MCDebugger -----------------------------
(***************************************************************************)
(* Lines of up to seven characters, of three words.  "print" is the empty  *)
(* word, "string" is 1, "stack" x and "continue" 0, which are characters   *)
(* of addresses too, so " 1 0x11" dumps a string at the largest address    *)
(* that nums has room for, and " 0x111" has one of full length.  Addresses *)
(* have two binary digits or, typed at the prompt, three: room for what is *)
(* erased, and to go beyond the end of every array.  The strings that      *)
(* start at 0 to 3 have lengths two, one and none, and no end.             *)
(***************************************************************************)
EXTENDS Debugger

MCTranslate == [ch \in {"0", "1"} |-> IF ch = "0" THEN 0 ELSE 1]
MCPrint == <<>>
MCContinue == <<"0">>
MCStack == <<"x">>
MCString == <<"1">>
MCMemory == [a \in 0 .. 6 |-> CASE a = 2 -> "nul" [] a = 5 -> "1" [] OTHER -> "x"]

=============================================================================
