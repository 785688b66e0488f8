---------------------------- MODULE ReadSyscall ----------------------------
(***************************************************************************)
(* syscall_read of kernel/idt.c, called over and over.  Each turn of its   *)
(* loop takes a character from kgetc, stores it and, when it is '\b',      *)
(* moves the count back over it and over the character before it.          *)
(*                                                                         *)
(* The count is an int and the length a size_t, so the test of the loop    *)
(* converts the count to an unsigned number: a count of -1 is larger than  *)
(* every length.                                                           *)
(*                                                                         *)
(* The caller's memory is modelled with a word on either side of the       *)
(* longest buffer, for what the call must leave alone.  edited is a        *)
(* history variable: the line as its typist sees it.                       *)
(***************************************************************************)
EXTENDS Integers, Sequences

CONSTANTS
  Char,     \* the characters kgetc returns
  BS,       \* '\b', one of them
  MaxN      \* bound: the longest read

ASSUME CharAssumption == BS \in Char
ASSUME MaxNAssumption == MaxN \in Nat

VARIABLES
  pc,       \* "out", or "loop" in a call
  n,        \* the length the call asked for
  accum,    \* int
  mem,      \* the caller's memory; buf is at 0
  ret,      \* what the last call returned
  edited    \* history: characters typed in the call and not erased in it

readVars == <<pc, n, accum, mem, ret, edited>>

Memory == -1 .. MaxN

ReadInit ==
  /\ pc = "out"
  /\ n = 0
  /\ accum = 0
  /\ mem \in [Memory -> Char]
  /\ ret = 0
  /\ edited = <<>>

-----------------------------------------------------------------------------
(***************************************************************************)
(* Mutants: definitions of this module with a mistake in them.  Nothing    *)
(* refers to them here; each shows that a property below can fail.         *)
(***************************************************************************)
\* The test of the loop compares signed numbers.
MoreSigned == accum < n

\* '\b' takes back itself and not the character before it.
CountOne(ch) == IF ch = BS THEN accum ELSE accum + 1

\* The loop stops one character short.
MoreShort == accum \in 0 .. n - 2

-----------------------------------------------------------------------------
\* accum < n, of unsigned numbers
More == accum \in 0 .. n - 1

\* accum++ and, after a '\b', accum -= 2
Count(ch) == IF ch = BS THEN accum - 1 ELSE accum + 1

\* fd is not 0
Refuse ==
  /\ pc = "out"
  /\ ret' = -1
  /\ UNCHANGED <<pc, n, accum, mem, edited>>

Call(len) ==
  /\ pc = "out"
  /\ pc' = "loop"
  /\ n' = len
  /\ accum' = 0
  /\ edited' = <<>>
  /\ UNCHANGED <<mem, ret>>

Take(ch) ==
  /\ pc = "loop"
  /\ More
  /\ mem' = [mem EXCEPT ![accum] = ch]
  /\ accum' = Count(ch)
  /\ edited' = IF ch # BS THEN Append(edited, ch)
               ELSE SubSeq(edited, 1, Len(edited) - 1)
  /\ UNCHANGED <<pc, n, ret>>

Finish ==
  /\ pc = "loop"
  /\ ~More
  /\ pc' = "out"
  /\ ret' = n
  /\ UNCHANGED <<n, accum, mem, edited>>

ReadNext ==
  \/ Refuse
  \/ \E len \in 0 .. MaxN : Call(len)
  \/ \E ch \in Char : Take(ch)
  \/ Finish

ReadSpec == ReadInit /\ [][ReadNext]_readVars

-----------------------------------------------------------------------------
\* Types: the count of syscall_read stays between -1 and the length.
TypeOK ==
  /\ pc \in {"out", "loop"}
  /\ n \in 0 .. MaxN
  /\ accum \in -1 .. n
  /\ mem \in [Memory -> Char]
  /\ ret \in -1 .. MaxN
  /\ edited \in Seq(Char \ {BS})

(***************************************************************************)
(* The call writes nothing outside the buffer it was given, whatever is    *)
(* erased: neither before its start nor from its end on.                   *)
(***************************************************************************)
OnlyTheBuffer ==
  [][\A k \in Memory \ (0 .. n' - 1) : mem'[k] = mem[k]]_readVars

(***************************************************************************)
(* The first accum bytes of the buffer are the line as edited so far.      *)
(***************************************************************************)
BufferIsEdited ==
  pc = "loop" /\ accum >= 0 =>
    /\ accum = Len(edited)
    /\ \A k \in 1 .. accum : mem[k - 1] = edited[k]

(***************************************************************************)
(* A call that returns its length has read that many characters, all of    *)
(* them in the buffer, or was ended by a '\b' with nothing to erase, which *)
(* is then the first character of the buffer.                              *)
(***************************************************************************)
FullOrGivenUp ==
  pc = "out" /\ ret = n =>
    \/ Len(edited) = n /\ \A k \in 1 .. n : mem[k - 1] = edited[k]
    \/ edited = <<>> /\ mem[0] = BS

=============================================================================
