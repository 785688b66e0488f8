------------------------------ MODULE Debugger ------------------------------
(***************************************************************************)
(* The debugger of kernel/debug.c, which a breakpoint enters: the line it  *)
(* reads with kgetc, words and my_strcmp of stdlib/mystring.c, the command *)
(* it takes the line for, the two ways an address is read, the hexadecimal *)
(* digits kernel/kprint.c shows it with, and the memory it shows.          *)
(*                                                                         *)
(* The words of the commands are constants, and may be short.  A write     *)
(* before or behind an array on the stack may do anything: the model stops *)
(* there ("smashed"), as it does at an address that is not mapped.         *)
(***************************************************************************)
EXTENDS Integers, Sequences, FiniteSets, FiniteSetsExt

CONSTANTS
  Char,              \* characters that keys write
  NUL, LF, BS, SPACE, X,
  Translate,         \* translate_hex_char, of the characters that are digits
  Zero,              \* the character '0'
  PRINT, CONTINUE, STACK, CSTRING,    \* words, as sequences of characters
  BASE,              \* 16, or fewer digits
  BUF, WORDS, NUMS,  \* the arrays' lengths: 70, 5 and 16
  Memory,            \* the character at each address that can be read
  SIZEOF_INT,        \* bytes of an int
  Stack,             \* where the stack's dump starts, and
  DUMP               \* its rows and columns, 20 of each

ASSUME CharAssumption ==
  /\ {NUL, LF, BS, SPACE, X, Zero} \subseteq Char
  /\ Cardinality({NUL, LF, BS, SPACE, X, Zero}) = 6
  /\ DOMAIN Translate \subseteq Char \ {NUL, LF, BS, SPACE, X}
  /\ Zero \in DOMAIN Translate /\ Translate[Zero] = 0
  /\ \A ch \in DOMAIN Translate : Translate[ch] \in 0 .. BASE - 1
ASSUME LengthAssumption ==
  {BUF, WORDS, NUMS} \subseteq Nat \ {0, 1} /\ BASE \in Nat \ {0, 1}
ASSUME MemoryAssumption ==
  /\ DOMAIN Memory \subseteq Nat /\ IsFiniteSet(DOMAIN Memory)
  /\ {Stack, SIZEOF_INT, DUMP} \subseteq Nat
  /\ Stack .. Stack + DUMP * DUMP - 1 \subseteq DOMAIN Memory

VARIABLES
  pc,          \* "out", "line", "command", "address", "shown",
               \* "smashed", "faulted"
  buf, i,
  edited,      \* history: the line as edited
  nums, curr_ind,
  answer       \* what the last command printed

debugVars == <<pc, buf, i, edited, nums, curr_ind, answer>>

Empty == [k \in 0 .. BUF - 1 |-> NUL]
NoNums == [k \in 0 .. NUMS - 1 |-> 0]
Nothing == [what |-> "nothing"]

DebugInit ==
  /\ pc = "out"
  /\ buf = Empty
  /\ i = 0
  /\ edited = <<>>
  /\ nums = NoNums
  /\ curr_ind = 0
  /\ answer = Nothing

\* The string that starts at the beginning of an array.
CString(s) ==
  IF \E k \in 1 .. Len(s) : s[k] = NUL
  THEN SubSeq(s, 1, (CHOOSE k \in 1 .. Len(s) :
         s[k] = NUL /\ \A j \in 1 .. k - 1 : s[j] # NUL) - 1)
  ELSE s

\* words: the strings between the spaces, which may be empty.  out[w] is where
\* one starts, and a word that starts at a ends before WordEnd.
Separators(s) == {k \in 1 .. Len(s) : s[k] \in {SPACE, LF}}
WordEnd(s, a) == Min({k \in Separators(s) : a <= k} \cup {Len(s) + 1})

WordStart(s) ==
  LET out[w \in 0 .. Cardinality(Separators(s))] ==
        IF w = 0 THEN 1 ELSE WordEnd(s, out[w - 1]) + 1
  IN  out

Words(s) ==
  LET out == WordStart(s)
  IN  [w \in 1 .. Cardinality(Separators(s)) + 1 |->
         SubSeq(s, out[w - 1], WordEnd(s, out[w - 1]) - 1)]

\* The number that digits stand for, the most significant first.
AddressOf(digits) ==
  LET sum[k \in 0 .. Len(digits)] ==
        IF k = 0 THEN 0 ELSE BASE * sum[k - 1] + digits[k]
  IN  sum[Len(digits)]

\* kprint_x: what is left of a value of NUMS digits when k of them are taken,
\* the last one first, until nothing is left.
Left(v) ==
  LET left[k \in 0 .. NUMS] == IF k = 0 THEN v ELSE left[k - 1] \div BASE
  IN  left

HexDigits(v) ==
  LET len == Min({k \in 1 .. NUMS : Left(v)[k] = 0})
  IN  [k \in 1 .. len |-> Left(v)[len - k] % BASE]

-----------------------------------------------------------------------------
\* Mutants, which nothing refers to.
\* A line is not terminated: characters that were erased stay behind it.
TerminatedNot == buf

\* '\b' takes the character away, but not its place.
BackspaceStays ==
  /\ pc = "line" /\ i >= 0
  /\ edited' = SubSeq(edited, 1, Len(edited) - 1)
  /\ UNCHANGED <<pc, buf, i, nums, curr_ind, answer>>

-----------------------------------------------------------------------------
\* exception3, and the next turn of the loop
DebugLoop ==
  /\ pc \in {"out", "shown"}
  /\ pc' = "line"
  /\ buf' = Empty
  /\ i' = 0
  /\ edited' = <<>>
  /\ answer' = Nothing
  /\ nums' = NoNums
  /\ curr_ind' = 0

\* buf[i] exists; otherwise it is written all the same.
InBuf == i \in 0 .. BUF - 1

Smash ==
  /\ pc' = "smashed"
  /\ UNCHANGED <<buf, i, edited, nums, curr_ind, answer>>

Backspace ==
  /\ pc = "line"
  /\ i >= 0            \* bound: one '\b' too many is enough
  /\ i' = i - 1
  /\ edited' = SubSeq(edited, 1, Len(edited) - 1)
  /\ UNCHANGED <<pc, buf, nums, curr_ind, answer>>

Character(ch) ==
  /\ pc = "line"
  /\ ch \notin {LF, BS}
  /\ \/ /\ InBuf
        /\ buf' = [buf EXCEPT ![i] = ch]
        /\ i' = i + 1
        /\ edited' = Append(edited, ch)
        /\ UNCHANGED <<pc, nums, curr_ind, answer>>
     \/ ~InBuf /\ Smash

Terminated == [buf EXCEPT ![i] = NUL]

Newline ==
  /\ pc = "line"
  /\ \/ /\ InBuf
        /\ buf' = Terminated
        /\ i' = i + 1
        /\ pc' = "command"
        /\ UNCHANGED <<edited, nums, curr_ind, answer>>
     \/ ~InBuf /\ Smash

line == CString([k \in 1 .. BUF |-> buf[k - 1]])
line_words == Words(line)

Tell(said) ==
  /\ answer' = said
  /\ pc' = "shown"
  /\ UNCHANGED <<buf, i, edited, nums, curr_ind>>

\* Rows of columns, each row with its address.
dump_mem(start, rows, cols) ==
  [r \in 1 .. rows |->
     [at |-> start + cols * (r - 1),
      vals |-> [j \in 1 .. cols |-> Memory[start + cols * (r - 1) + j - 1]]]]

\* What print_string reads of memory to find the length, with the NUL: up to
\* the first NUL, or address that cannot be read.
StringAt(addr) ==
  addr .. CHOOSE a \in addr .. addr + Cardinality(DOMAIN Memory) :
            /\ a \notin DOMAIN Memory \/ Memory[a] = NUL
            /\ \A m \in addr .. a - 1 : m \in DOMAIN Memory /\ Memory[m] # NUL

\* print_string dumps a row of that length; print_int an int.
Extent(what, addr) ==
  IF what = "string" THEN StringAt(addr) ELSE addr .. addr + SIZEOF_INT - 1

Show(what, addr) ==
  IF Extent(what, addr) \subseteq DOMAIN Memory
  THEN Tell([what |-> what, at |-> HexDigits(addr), from |-> addr, typed |-> edited,
             rows |-> dump_mem(addr, 1, Cardinality(Extent(what, addr)))])
  ELSE /\ pc' = "faulted"
       /\ UNCHANGED <<buf, i, edited, nums, curr_ind, answer>>

\* conv_addr: the characters behind 0x are digits; the place of the NUL in
\* nums is written too, and must exist.  What a character that is no digit
\* counts is left to the compiler.
ConvAddrDigits(in) == SubSeq(in, 3, Len(in))

ShowConverted(what, in) ==
  LET digits == ConvAddrDigits(in)
  IN  IF Len(digits) >= NUMS THEN Smash
      ELSE \E junk \in 0 .. 1 :
        Show(what, AddressOf([k \in 1 .. Len(digits) |->
          IF digits[k] \in DOMAIN Translate THEN Translate[digits[k]] ELSE junk]))

Continue ==
  /\ line_words[1] = CONTINUE
  /\ pc' = "out"
  /\ UNCHANGED <<buf, i, edited, nums, curr_ind, answer>>

AskAddress ==
  /\ line_words[1] = PRINT /\ Len(line_words) = 1
  /\ pc' = "address"
  /\ nums' = NoNums
  /\ curr_ind' = 0
  /\ edited' = <<>>
  /\ buf' = Empty      \* it is not used again before it is cleared
  /\ i' = 0
  /\ UNCHANGED answer

PrintStack ==
  /\ line_words[1] = PRINT /\ Len(line_words) > 1
  /\ line_words[2] = STACK
  /\ Tell([what |-> "stack", from |-> Stack, rows |-> dump_mem(Stack, DUMP, DUMP)])

PrintString ==
  /\ line_words[1] = PRINT /\ Len(line_words) > 1
  /\ line_words[2] = CSTRING
  /\ IF Len(line_words) = 2 THEN Tell([what |-> "usage"])
     ELSE ShowConverted("string", line_words[3])

PrintAt ==
  /\ line_words[1] = PRINT /\ Len(line_words) > 1
  /\ line_words[2] \notin {STACK, CSTRING}
  /\ IF line_words[2] # <<>> /\ line_words[2][1] = Zero
     THEN ShowConverted("int", line_words[2])
     ELSE Tell([what |-> "usage"])

Usage ==
  /\ line_words[1] \notin {PRINT, CONTINUE}
  /\ Tell([what |-> "usage"])

Command ==
  /\ pc = "command"
  /\ IF Len(line_words) > WORDS THEN Smash
     ELSE \/ Continue \/ AskAddress \/ PrintStack \/ PrintString \/ PrintAt
          \/ Usage

-----------------------------------------------------------------------------
\* The array of digits is full.
AddressFull == curr_ind = NUMS

\* get_addr: every key is a digit, and one that is not counts as zero.
AddressDigit(ch) ==
  /\ pc = "address"
  /\ ch # LF /\ ~AddressFull
  /\ nums' = IF ch \in DOMAIN Translate
             THEN [nums EXCEPT ![curr_ind] = Translate[ch]] ELSE nums
  /\ curr_ind' = curr_ind + 1
  /\ edited' = Append(edited, ch)
  /\ UNCHANGED <<pc, buf, i, answer>>

\* A newline, or a character too many, ends it.  The digit at curr_ind, which
\* is zero unless the array is full, is the last one.
AddressEnd(ch) ==
  /\ pc = "address"
  /\ ch = LF \/ AddressFull
  /\ LET last == IF AddressFull THEN NUMS - 1 ELSE curr_ind
     IN  Show("typed", AddressOf([k \in 1 .. last + 1 |-> nums[k - 1]]))

DebugNext ==
  \/ DebugLoop
  \/ Backspace
  \/ \E ch \in Char : Character(ch)
  \/ Newline
  \/ Command
  \/ \E ch \in Char : AddressDigit(ch) \/ AddressEnd(ch)

DebugSpec == DebugInit /\ [][DebugNext]_debugVars

-----------------------------------------------------------------------------
Digits(s) == [k \in 1 .. Len(s) |-> Translate[s[k]]]

AllDigits(s) == \A k \in 1 .. Len(s) : s[k] \in DOMAIN Translate

IsNumber(s) ==
  Len(s) > 2 /\ s[1] = Zero /\ s[2] = X /\ AllDigits(SubSeq(s, 3, Len(s)))

Significant(digits) ==
  IF \A k \in 1 .. Len(digits) : digits[k] = 0 THEN <<0>>
  ELSE SubSeq(digits, CHOOSE k \in 1 .. Len(digits) :
         digits[k] # 0 /\ \A j \in 1 .. k - 1 : digits[j] = 0, Len(digits))

\* The address in a command is the one that its word stands for.
AsAsked(said) ==
  said.what \in {"int", "string"} =>
    LET asked == Words(CString(said.typed))
        which == IF said.what = "string" THEN 3 ELSE 2
    IN  /\ Len(asked) >= which /\ Len(asked[which]) < NUMS + 2
        /\ IsNumber(asked[which]) =>
             said.at = Significant(Digits(SubSeq(asked[which], 3, Len(asked[which]))))

\* An address behind the prompt is if it fills the array; a shorter one has a
\* zero behind it that nobody typed, and is BASE times too large.
AsPrompted(said) ==
  said.what = "typed" /\ AllDigits(said.typed) =>
    said.at = Significant(IF Len(said.typed) = NUMS THEN Digits(said.typed)
                          ELSE Append(Digits(said.typed), 0))

\* Rows of one length, one behind the other; a string ends with its NUL.
AsInMemory(said) ==
  said.what \in {"int", "string", "typed", "stack"} =>
    LET first == said.rows[1].vals
    IN  /\ \A r \in DOMAIN said.rows :
             LET row == said.rows[r]
             IN  /\ row.at = said.from + Len(first) * (r - 1)
                 /\ Len(row.vals) = Len(first)
                 /\ \A k \in DOMAIN first : row.vals[k] = Memory[row.at + k - 1]
        /\ said.what = "string" =>
             /\ Len(said.rows) = 1
             /\ {k \in DOMAIN first : first[k] = NUL} = {Len(first)}

(***************************************************************************)
(* Which memory is shown.  An address behind print, or print string, is    *)
(* taken as it was typed, but for leading zeros, whatever was erased       *)
(* before the line was as it is; it has fewer than sixteen digits, for a   *)
(* full one is not survived (OnlyTheLineSmashes).  One that was prompted   *)
(* for is taken as it was typed only if it has all sixteen digits; the     *)
(* memory shown for a shorter one is that at sixteen times the address     *)
(* typed (debug.c:80-88), which the prompt (debug.c:58) and                *)
(* README.md:25-26 do not say.  The rows of a dump follow each other in    *)
(* memory, and a string is dumped with its NUL and nothing else.           *)
(***************************************************************************)
AddressShown == AsAsked(answer) /\ AsPrompted(answer) /\ AsInMemory(answer)

(***************************************************************************)
(* What a line must be to overrun an array of the debugger (debug.c:183,   *)
(* 196, 35): '\b' has gone before its start; or the line, as it stands     *)
(* when all is erased that was, is as long as the buffer, has more words   *)
(* than there are places for, or a word that is taken for an address and   *)
(* has as many digits as nums has places.  That is no excess: a full       *)
(* address has sixteen, as %p prints it and README.md:24 asks for it, but  *)
(* conv_addr stores a value for the NUL as well (debug.c:33-36).  What was *)
(* erased does no harm, nor does a long word that is no address, and the   *)
(* address prompted for cannot be too long.                                *)
(***************************************************************************)
AddressWords(ws) ==
  {w \in DOMAIN ws :
     /\ ws[1] = PRINT
     /\ \/ w = 2 /\ ws[2] \notin {<<>>, STACK, CSTRING} /\ ws[2][1] = Zero
        \/ w = 3 /\ ws[2] = CSTRING}

FullAddress(ws) == \E w \in AddressWords(ws) : Len(ws[w]) >= NUMS + 2

OnlyTheLineSmashes ==
  pc = "smashed" =>
    \/ i < 0
    \/ Len(edited) = BUF
    \/ LET ws == Words(CString(edited)) IN Len(ws) > WORDS \/ FullAddress(ws)

=============================================================================
