------------------------------- MODULE Printf -------------------------------
(***************************************************************************)
(* Formatted output: kprintf of kernel/kprint.c and printf of              *)
(* stdlib/myio.c, which is a copy of it that prints through the write      *)
(* system call.  They go through a format one character at a time, with a  *)
(* flag for "the last one was '%'", and take their arguments from the      *)
(* va_list as they meet the letters.                                       *)
(*                                                                         *)
(* A character is a string of length one.  The widths and bases of numbers *)
(* are parameters, so that all values of a width can be checked; what must *)
(* be true of them for the code to work is NumbersAssumption.              *)
(*                                                                         *)
(* given is a history variable: the arguments taken.                       *)
(***************************************************************************)
EXTENDS Integers, Sequences

CONSTANTS
  WORD, INT, SHORT,   \* the values of 64, 32 and 16 bits
  DEC, HEX,           \* the bases 10 and 16
  BUFFER,             \* bytes of a number's buffer (21)
  Formats,            \* the formats that are printed
  Strings             \* the strings that are printed

EOS == ""      \* '\0'

\* Power[n] is DEC ^ n: the numbers below it have at most n digits.
Power[n \in 0 .. BUFFER - 1] == IF n = 0 THEN 1 ELSE DEC * Power[n - 1]

ASSUME NumbersAssumption ==
  /\ DEC \in 2 .. HEX /\ HEX \in 2 .. 16
  /\ SHORT \in 1 .. INT /\ INT \in 2 .. WORD /\ WORD \in Nat
  /\ WORD % INT = 0 /\ INT % SHORT = 0
  /\ BUFFER \in Nat \ {0} /\ WORD <= Power[BUFFER - 1]
ASSUME StringsAssumption ==
  /\ Formats \subseteq Seq(STRING \ {EOS})
  /\ Strings \subseteq Seq(STRING)

VARIABLES
  who,      \* "kernel" or "user"
  format,   \* the format string, and
  at,       \* the place of *format in it
  flag,
  out,      \* what has been printed
  loop,     \* "walk"; "d" or "x": in the loop of that conversion; "done"
  value, buffer, curr,   \* of print_d and print_x
  given

number == <<value, buffer, curr>>
printVars == <<who, format, at, flag, out, loop, number, given>>

DigitChar == <<"0", "1", "2", "3", "4", "5", "6", "7", "8", "9",
               "A", "B", "C", "D", "E", "F">>
Blank == [k \in 0 .. BUFFER - 1 |-> EOS]

PrintInit ==
  /\ who \in {"kernel", "user"}
  /\ format \in Formats
  /\ at = 1
  /\ flag = FALSE
  /\ out = <<>>
  /\ loop = "walk"
  /\ value = 0
  /\ buffer = Blank
  /\ curr = 0
  /\ given = <<>>

\* *format, of which the last is '\0'
Here == IF at > Len(format) THEN EOS ELSE format[at]
Letters == {"s", "d", "p", "x", "c"}

-----------------------------------------------------------------------------
(***************************************************************************)
(* Mutants: definitions of this module with a mistake in them.  Nothing    *)
(* refers to them here; each shows that a property below can fail.         *)
(***************************************************************************)
\* The buffer has no room for the last digit.
FirstPlaceEarly == BUFFER - 3

\* An unknown letter leaves the flag set.
UnknownKeepsFlag ==
  /\ flag /\ Here \notin Letters \cup {"%", EOS}
  /\ UNCHANGED printVars

\* The flag stays set behind "%%".
PercentPercentKeepsFlag ==
  /\ flag /\ Here = "%"
  /\ out' = Append(out, "%")
  /\ at' = at + 1
  /\ UNCHANGED <<who, format, flag, loop, number, given>>

-----------------------------------------------------------------------------
\* What the caller passes for a letter: a number, or what is at a pointer.
Arguments(letter) ==
  CASE letter \in {"d", "x"} -> [n : 0 .. INT - 1, s : {<<>>}]
    [] letter = "p" -> [n : 0 .. WORD - 1, s : {<<>>}]
    [] letter = "c" -> [n : {0}, s : {<<"%">>, <<"d">>}]
    [] letter = "s" -> [n : {0}, s : Strings]

\* An int as a uint64_t.
Extended(n) == IF 2 * n >= INT THEN WORD - INT + n ELSE n

Plain ==
  /\ ~flag /\ Here \notin {"%", EOS}
  /\ out' = Append(out, Here)
  /\ at' = at + 1
  /\ UNCHANGED <<who, format, flag, loop, number, given>>

Percent ==
  /\ ~flag /\ Here = "%"
  /\ flag' = TRUE
  /\ at' = at + 1
  /\ UNCHANGED <<who, format, out, loop, number, given>>

PercentPercent ==
  /\ flag /\ Here = "%"
  /\ out' = Append(out, "%")
  /\ flag' = FALSE
  /\ at' = at + 1
  /\ UNCHANGED <<who, format, loop, number, given>>

\* A letter that is none is printed on the next turn, without the '%'.
Unknown ==
  /\ flag /\ Here \notin Letters \cup {"%", EOS}
  /\ flag' = FALSE
  /\ UNCHANGED <<who, format, at, out, loop, number, given>>

\* print_s and print_c
Text ==
  /\ flag /\ Here \in {"s", "c"}
  /\ \E arg \in Arguments(Here) :
       /\ given' = Append(given, arg)
       /\ out' = out \o arg.s
  /\ flag' = FALSE
  /\ at' = at + 1
  /\ UNCHANGED <<who, format, loop, number>>

FirstPlace == BUFFER - 2

\* The kernel's %x is given to a function of a uint16_t.
kprint_xd(v) == v % SHORT
Hex(v) == IF who = "kernel" THEN kprint_xd(v) ELSE v

\* print_d, print_x and print_p are called; zero they print at once.
Number ==
  /\ flag /\ Here \in {"d", "x", "p"}
  /\ \E arg \in Arguments(Here) :
       LET v == CASE Here = "d" -> Extended(arg.n)
                  [] Here = "x" -> Hex(Extended(arg.n))
                  [] Here = "p" -> arg.n
           prefix == IF Here = "p" THEN <<"0", "x">> ELSE <<>>
       IN  /\ given' = Append(given, arg)
           /\ out' = out \o prefix \o (IF v = 0 THEN <<"0">> ELSE <<>>)
           /\ value' = v
           /\ loop' = IF v = 0 THEN "walk" ELSE IF Here = "d" THEN "d" ELSE "x"
  /\ buffer' = Blank
  /\ curr' = FirstPlace
  /\ flag' = FALSE
  /\ at' = at + 1
  /\ UNCHANGED <<who, format>>

End ==
  /\ Here = EOS
  /\ loop' = "done"
  /\ UNCHANGED <<who, format, at, flag, out, number, given>>

Walk ==
  /\ loop = "walk"
  /\ \/ Plain
     \/ Percent
     \/ PercentPercent
     \/ Unknown
     \/ Text
     \/ Number
     \/ End

kprintf == who = "kernel" /\ Walk
printf == who = "user" /\ Walk

-----------------------------------------------------------------------------
\* while (value > 0)
Digit(base) ==
  /\ value > 0
  /\ buffer' = [buffer EXCEPT ![curr] = DigitChar[(value % base) + 1]]
  /\ curr' = curr - 1
  /\ value' = value \div base
  /\ UNCHANGED <<who, format, at, flag, out, loop, given>>

\* What is behind the NULs at the front, up to the one at the end.
Stripped ==
  LET first == CHOOSE k \in 0 .. BUFFER - 1 :
                 buffer[k] # EOS /\ \A j \in 0 .. k - 1 : buffer[j] = EOS
  IN  [k \in 1 .. BUFFER - 1 - first |-> buffer[first + k - 1]]

PrintDigit ==
  /\ value = 0
  /\ out' = out \o Stripped
  /\ loop' = "walk"
  /\ UNCHANGED <<who, format, at, flag, number, given>>

kprint_d == who = "kernel" /\ loop = "d" /\ (Digit(DEC) \/ PrintDigit)
kprint_x == who = "kernel" /\ loop = "x" /\ (Digit(HEX) \/ PrintDigit)
print_d == who = "user" /\ loop = "d" /\ (Digit(DEC) \/ PrintDigit)
print_x == who = "user" /\ loop = "x" /\ (Digit(HEX) \/ PrintDigit)

PrintNext == kprintf \/ printf \/ kprint_d \/ kprint_x \/ print_d \/ print_x

PrintSpec == PrintInit /\ [][PrintNext]_printVars

\* Nothing waits in here.
FairPrintSpec == PrintSpec /\ WF_printVars(PrintNext)

-----------------------------------------------------------------------------
(***************************************************************************)
(* A digit that is still to be stored has a place in the buffer, which has *)
(* one for as many as 2^64 - 1 has in base 10, and not one more; the place *)
(* at the end is never written, and ends the string.                       *)
(***************************************************************************)
DigitsFit ==
  /\ loop \in {"d", "x"} /\ value > 0 => curr \in 0 .. BUFFER - 2
  /\ buffer[BUFFER - 1] = EOS
  /\ DOMAIN buffer = 0 .. BUFFER - 1

(***************************************************************************)
(* What is printed is what the format says, read without a flag: a pair    *)
(* that starts with '%' stands for '%' or for an argument, the next in     *)
(* turn; a '%' before anything else, or at the end, stands for nothing.    *)
(* A number has the digits that make up its value; %d and %x are those of  *)
(* the int extended to 64 bits, the kernel's %x those of its low 16 bits.  *)
(* No argument is taken but those that the format has letters for.         *)
(***************************************************************************)
Sequences(n) == UNION {[1 .. k -> 0 .. n - 1] : k \in 1 .. BUFFER - 1}

Sums(ds, base) ==
  LET sum[k \in 0 .. Len(ds)] == IF k = 0 THEN 0 ELSE base * sum[k - 1] + ds[k]
  IN  sum

IsNumeral(ds, n, base) ==
  Sums(ds, base)[Len(ds)] = n /\ (Len(ds) > 1 => ds[1] # 0)

Numeral(n, base) ==
  LET ds == CHOOSE x \in Sequences(base) : IsNumeral(x, n, base)
  IN  [k \in 1 .. Len(ds) |-> DigitChar[ds[k] + 1]]

Decimal == [n \in 0 .. WORD - 1 |-> Numeral(n, DEC)]
Hexadecimal == [n \in 0 .. WORD - 1 |-> Numeral(n, HEX)]

Shown(w, letter, arg) ==
  CASE letter \in {"s", "c"} -> arg.s
    [] letter = "d" -> Decimal[Extended(arg.n)]
    [] letter = "p" -> <<"0", "x">> \o Hexadecimal[arg.n]
    [] letter = "x" -> Hexadecimal[IF w = "kernel" THEN arg.n % SHORT
                                   ELSE Extended(arg.n)]

\* A pair starts at k.
Pair(f, k) == f[k] = "%" /\ k < Len(f) /\ f[k + 1] \in Letters \cup {"%"}

\* What is read next, after p.
Read(w, f, g, p) ==
  IF p.at > Len(f) THEN p
  ELSE IF ~Pair(f, p.at)
       THEN [at |-> p.at + 1, arg |-> p.arg,
             text |-> p.text \o IF f[p.at] = "%" THEN <<>> ELSE <<f[p.at]>>]
  ELSE IF f[p.at + 1] = "%"
       THEN [at |-> p.at + 2, arg |-> p.arg, text |-> Append(p.text, "%")]
  ELSE [at |-> p.at + 2, arg |-> p.arg + 1,
        text |-> p.text \o
                   IF p.arg \in DOMAIN g THEN Shown(w, f[p.at + 1], g[p.arg])
                   ELSE <<"missing">>]

Reading(w, f, g) ==
  LET read[j \in 0 .. Len(f)] ==
        IF j = 0 THEN [at |-> 1, arg |-> 1, text |-> <<>>]
        ELSE Read(w, f, g, read[j - 1])
  IN  read

PrintsAsMeant ==
  loop = "done" =>
    LET read == Reading(who, format, given)[Len(format)]
    IN  out = read.text /\ Len(given) = read.arg - 1

(***************************************************************************)
(* printf returns, whatever the format: every turn of its loop that leaves *)
(* *format where it is leaves the flag clear for the next.                 *)
(***************************************************************************)
Returns == <>(loop = "done")

=============================================================================
