---------------------------- MODULE OutputProofs ----------------------------
(***************************************************************************)
(* Proofs about Printf, for numbers and buffers of any width, and about    *)
(* Debugger, for lines and words of any length.                            *)
(***************************************************************************)
EXTENDS Printf, Debugger, FiniteSetTheorems, SequenceTheorems,
        WellFoundedInduction, TLAPS

-----------------------------------------------------------------------------
(***************************************************************************)
(* Numbers and tables.                                                     *)
(***************************************************************************)
\* A set of numbers that is not empty has a first one.
LEMMA FirstOf ==
  ASSUME NEW T, T \subseteq Nat, T # {}
  PROVE  \E k \in T : \A j \in 0 .. k - 1 : j \notin T
<1>1. PICK k \in T : \A j \in T : <<j, k>> \notin OpToRel(<, Nat)
  BY NatLessThanWellFounded, WFMin
<1>2. ASSUME NEW j \in 0 .. k - 1, j \in T PROVE FALSE
  <2>1. j \in Nat /\ k \in Nat /\ j < k
    BY <1>2
  <2>2. <<j, k>> \in OpToRel(<, Nat)
    BY <2>1 DEF OpToRel
  <2> QED
    BY <1>1, <1>2, <2>2
<1> QED
  BY <1>2

\* Induction on the natural numbers: on those of a set.
LEMMA EveryNumber ==
  ASSUME NEW T, 0 \in T, \A k \in Nat : k \in T => k + 1 \in T
  PROVE  Nat \subseteq T
<1>1. ASSUME Nat \ T # {} PROVE FALSE
  <2>1. PICK k \in Nat \ T : \A j \in 0 .. k - 1 : j \notin Nat \ T
    BY <1>1, FirstOf
  <2>2. k \in Nat /\ k # 0 /\ k - 1 \in Nat /\ k - 1 \in 0 .. k - 1
    BY <2>1
  <2>3. k - 1 \in T /\ (k - 1) + 1 = k
    BY <2>1, <2>2
  <2> QED
    BY <2>1, <2>2, <2>3
<1> QED
  BY <1>1

\* A table whose entries are made from the ones before them,
IsTable(f, S, x, F, top) ==
  /\ f \in [0 .. top -> S]
  /\ f[0] = x
  /\ \A k \in 1 .. top : f[k] = F[k][f[k - 1]]

\* which exists.
LEMMA TableExists ==
  ASSUME NEW S, NEW x \in S, NEW F \in [Nat -> [S -> S]], NEW top \in Nat
  PROVE  \E f : IsTable(f, S, x, F, top)
<1> DEFINE With == {m \in Nat : \E f : IsTable(f, S, x, F, m)}
<1>1. 0 \in With
  <2>1. IsTable([k \in 0 .. 0 |-> x], S, x, F, 0)
    BY DEF IsTable
  <2> QED
    BY <2>1
<1>2. ASSUME NEW m \in Nat, m \in With PROVE m + 1 \in With
  <2>1. PICK f : IsTable(f, S, x, F, m)
    BY <1>2
  <2> DEFINE g == [k \in 0 .. m + 1 |-> IF k = m + 1 THEN F[k][f[m]] ELSE f[k]]
  <2>2. g \in [0 .. m + 1 -> S]
    BY <2>1 DEF IsTable
  <2>3. IsTable(g, S, x, F, m + 1)
    BY <2>1, <2>2 DEF IsTable
  <2> QED
    BY <2>3
<1>3. top \in With
  <2> HIDE DEF With
  <2> QED
    BY <1>1, <1>2, EveryNumber
<1> QED
  BY <1>3

-----------------------------------------------------------------------------
(***************************************************************************)
(* Printf: the digits of a number.                                         *)
(***************************************************************************)
\* Power is such a table.
LEMMA PowerIs ==
  /\ BUFFER - 1 \in Nat
  /\ \A k \in 0 .. BUFFER - 1 : Power[k] \in Nat
  /\ Power[0] = 1
  /\ \A k \in 1 .. BUFFER - 1 : Power[k] = DEC * Power[k - 1]
<1> DEFINE F == [k \in Nat |-> [m \in Nat |-> DEC * m]]
           N == BUFFER - 1
<1>1. N \in Nat /\ DEC \in Nat
  BY NumbersAssumption
<1>2. F \in [Nat -> [Nat -> Nat]] /\ 1 \in Nat
  BY <1>1
<1>3. PICK f : IsTable(f, Nat, 1, F, N)
  <2> HIDE DEF F, N
  <2> QED
    BY <1>1, <1>2, TableExists
<1>4. ASSUME NEW k \in 1 .. N PROVE f[k] = DEC * f[k - 1]
  <2>1. k - 1 \in 0 .. N
    BY <1>1
  <2>2. f[k - 1] \in Nat
    BY <1>3, <2>1 DEF IsTable
  <2>3. F[k][f[k - 1]] = DEC * f[k - 1]
    BY <2>2
  <2> HIDE DEF F
  <2> QED
    BY <1>3, <2>3 DEF IsTable
<1>5. f = [k \in 0 .. N |-> IF k = 0 THEN 1 ELSE DEC * f[k - 1]]
  BY <1>3, <1>4 DEF IsTable
<1>6. Power = [k \in 0 .. N |-> IF k = 0 THEN 1 ELSE DEC * Power[k - 1]]
  BY <1>5 DEF Power
<1>7. Power[0] = 1 /\ \A k \in 1 .. N : Power[k] = DEC * Power[k - 1]
  <2> HIDE DEF N
  <2> QED
    BY <1>1, <1>6
<1>8. ASSUME NEW k \in 0 .. N PROVE Power[k] \in Nat
  <2> DEFINE T == {m \in Nat : m <= N => Power[m] \in Nat}
  <2>1. 0 \in T
    BY <1>7
  <2>2. ASSUME NEW m \in Nat, m \in T PROVE m + 1 \in T
    <3>1. CASE m + 1 <= N
      <4>1. Power[m + 1] = DEC * Power[m] /\ Power[m] \in Nat
        BY <1>1, <1>7, <2>2, <3>1
      <4> QED
        BY <1>1, <4>1
    <3> QED
      BY <3>1, <1>1
  <2>3. Nat \subseteq T
    <3> HIDE DEF T
    <3> QED
      BY <2>1, <2>2, EveryNumber
  <2> QED
    BY <2>3, <1>1
<1> QED
  BY <1>1, <1>7, <1>8


-----------------------------------------------------------------------------
\* A number that is still to be stored has no more digits than places.
NumberInv ==
  /\ value \in 0 .. WORD - 1
  /\ loop \in {"d", "x"} /\ value > 0 =>
       curr \in 0 .. BUFFER - 2 /\ value < Power[curr + 1]

PrintInv == DigitsFit /\ NumberInv

LEMMA NumbersAreNat ==
  /\ {WORD, INT, SHORT, DEC, HEX, BUFFER} \subseteq Nat
  /\ DEC > 1 /\ DEC <= HEX
  /\ 0 < SHORT /\ SHORT <= INT /\ INT <= WORD
  /\ WORD <= Power[BUFFER - 1]
  /\ BUFFER > 0
  BY NumbersAssumption

LEMMA InitPrintInv == PrintInit => PrintInv
  BY NumbersAreNat DEF PrintInit, PrintInv, DigitsFit, NumberInv, Blank

\* Taking a digit off divides the number by the base, and leaves fewer places.
LEMMA DigitTaken ==
  ASSUME NEW v \in Nat, NEW base \in Nat, NEW dec \in Nat, NEW p \in Nat,
         dec > 1, dec <= base, v < dec * p
  PROVE  /\ v \div base \in Nat
         /\ v \div base <= v
         /\ v \div base < p
<1>1. PICK q \in Int, r \in Int : v \div base = q /\ v = base * q + r /\ 0 <= r /\ r < base
  OBVIOUS
<1>2. q >= 0
  <2>1. CASE q <= -1
    <3>1. base * q <= base * (-1)
      BY <2>1
    <3> QED
      BY <1>1, <3>1
  <2> QED
    BY <1>1, <2>1
<1>3. q <= base * q
  BY <1>2
<1>4. q < p
  <2>1. CASE p <= q
    <3>1. dec * p <= base * p
      OBVIOUS
    <3>2. base * p <= base * q
      BY <2>1, <1>1
    <3> QED
      BY <1>1, <3>1, <3>2
  <2> QED
    BY <1>1, <2>1
<1> QED
  BY <1>1, <1>2, <1>3, <1>4


\* What the value of a number can be.
LEMMA ExtendedIn ==
  ASSUME NEW v \in 0 .. INT - 1
  PROVE  Extended(v) \in 0 .. WORD - 1
  BY NumbersAreNat DEF Extended

LEMMA ValueIn ==
  ASSUME NEW arg \in Arguments(Here), Here \in {"d", "x", "p"}
  PROVE  (CASE Here = "d" -> Extended(arg.n)
            [] Here = "x" -> Hex(Extended(arg.n))
            [] Here = "p" -> arg.n) \in 0 .. WORD - 1
<1>1. CASE Here = "p"
  <2>1. arg.n \in 0 .. WORD - 1
    BY <1>1 DEF Arguments
  <2> QED
    BY <1>1, <2>1
<1>2. CASE Here \in {"d", "x"}
  <2>1. arg.n \in 0 .. INT - 1
    BY <1>2 DEF Arguments
  <2>2. PICK e \in 0 .. WORD - 1 : e = Extended(arg.n)
    BY <2>1, ExtendedIn
  <2>3. e % SHORT \in 0 .. WORD - 1
    BY NumbersAreNat
  <2>4. Hex(e) \in 0 .. WORD - 1
    BY <2>3 DEF Hex, kprint_xd
  <2> QED
    BY <1>2, <2>2, <2>4
<1> QED
  BY <1>1, <1>2

\* printf calls for a number only with places for all of its digits.
LEMMA NumberPrintInv ==
  ASSUME PrintInv, Number
  PROVE  PrintInv'
<1>1. PICK arg, v :
        /\ arg \in Arguments(Here)
        /\ v = CASE Here = "d" -> Extended(arg.n)
                 [] Here = "x" -> Hex(Extended(arg.n))
                 [] Here = "p" -> arg.n
        /\ value' = v
        /\ loop' = IF v = 0 THEN "walk" ELSE IF Here = "d" THEN "d" ELSE "x"
  BY DEF Number
<1>2. v \in 0 .. WORD - 1
  BY <1>1, ValueIn DEF Number
<1>3. curr' = BUFFER - 2 /\ buffer' = Blank
  BY DEF Number, FirstPlace
<1>4. v > 0 => BUFFER - 2 \in 0 .. BUFFER - 2 /\ v < Power[BUFFER - 1]
  BY <1>2, NumbersAreNat, PowerIs
<1>5. DOMAIN Blank = 0 .. BUFFER - 1 /\ Blank[BUFFER - 1] = EOS
  BY NumbersAreNat DEF Blank
<1>6. v > 0 => curr' \in 0 .. BUFFER - 2 /\ v < Power[curr' + 1]
  BY <1>3, <1>4, NumbersAreNat
<1> QED
  BY <1>1, <1>2, <1>3, <1>5, <1>6 DEF PrintInv, DigitsFit, NumberInv

\* A digit is stored in a place of its own, which is not the last.
LEMMA DigitPrintInv ==
  ASSUME PrintInv, NEW base \in {DEC, HEX}, Digit(base), loop \in {"d", "x"}
  PROVE  PrintInv'
<1>1. /\ value \in 0 .. WORD - 1 /\ value > 0
      /\ curr \in 0 .. BUFFER - 2 /\ value < Power[curr + 1]
      /\ DOMAIN buffer = 0 .. BUFFER - 1 /\ buffer[BUFFER - 1] = EOS
  BY DEF PrintInv, DigitsFit, NumberInv, Digit
<1>2. /\ curr + 1 \in 1 .. BUFFER - 1
      /\ (curr + 1) - 1 = curr /\ curr \in 0 .. BUFFER - 1
  BY <1>1, NumbersAreNat
<1>3. Power[curr + 1] = DEC * Power[curr] /\ Power[curr] \in Nat
  BY <1>2, PowerIs
<1>4. value \div base \in 0 .. WORD - 1 /\ value \div base < Power[curr]
  <2>1. /\ value \in Nat /\ base \in Nat /\ DEC \in Nat
        /\ DEC > 1 /\ DEC <= base
    BY <1>1, NumbersAreNat
  <2>2. PICK p \in Nat : p = Power[curr] /\ value < DEC * p
    BY <1>1, <1>3
  <2>3. /\ value \div base \in Nat
        /\ value \div base <= value
        /\ value \div base < p
    BY <2>1, <2>2, DigitTaken
  <2> QED
    BY <1>1, <2>2, <2>3, NumbersAreNat
<1>5. value' = value \div base /\ curr' = curr - 1 /\ UNCHANGED loop
  BY DEF Digit
<1>6. value' > 0 => curr' \in 0 .. BUFFER - 2 /\ value' < Power[curr' + 1]
  <2>1. CASE curr = 0
    BY <1>4, <1>5, <2>1, PowerIs
  <2>2. CASE curr > 0
    <3>1. curr - 1 \in 0 .. BUFFER - 2 /\ (curr - 1) + 1 = curr
      BY <1>1, <2>2, NumbersAreNat
    <3> QED
      BY <1>4, <1>5, <3>1
  <2> QED
    BY <1>1, <2>1, <2>2
<1>7. DOMAIN buffer' = 0 .. BUFFER - 1 /\ buffer'[BUFFER - 1] = EOS
  <2>1. BUFFER - 1 # curr
    BY <1>1, NumbersAreNat
  <2> QED
    BY <1>1, <2>1 DEF Digit
<1> QED
  BY <1>4, <1>5, <1>6, <1>7 DEF PrintInv, DigitsFit, NumberInv

\* The other steps store none.
LEMMA NextPrintInv == PrintInv /\ [PrintNext]_printVars => PrintInv'
<1> SUFFICES ASSUME PrintInv, [PrintNext]_printVars PROVE PrintInv'
  OBVIOUS
<1>1. CASE Walk
  <2>1. CASE Number
    BY <2>1, NumberPrintInv
  <2>2. CASE Plain \/ Percent \/ PercentPercent \/ Unknown \/ Text
    <3>1. UNCHANGED <<loop, value, buffer, curr>>
      BY <2>2 DEF Plain, Percent, PercentPercent, Unknown, Text, number
    <3> QED
      BY <3>1 DEF PrintInv, DigitsFit, NumberInv
  <2>3. CASE End
    BY <2>3 DEF End, number, PrintInv, DigitsFit, NumberInv
  <2> QED
    BY <1>1, <2>1, <2>2, <2>3 DEF Walk
<1>2. CASE loop \in {"d", "x"} /\ (Digit(DEC) \/ Digit(HEX))
  BY <1>2, DigitPrintInv
<1>3. CASE PrintDigit
  BY <1>3 DEF PrintDigit, number, PrintInv, DigitsFit, NumberInv
<1>4. CASE UNCHANGED printVars
  BY <1>4 DEF printVars, number, PrintInv, DigitsFit, NumberInv
<1> QED
  BY <1>1, <1>2, <1>3, <1>4
  DEF PrintNext, kprintf, printf, kprint_d, kprint_x, print_d, print_x

(***************************************************************************)
(* The digits of a number of any width, in any base, fit in a buffer that  *)
(* has a place for each digit of the largest in base 10 and one for the    *)
(* EOS; both copies of printf stay in it.                                  *)
(***************************************************************************)
THEOREM DigitsAlwaysFit == PrintSpec => []DigitsFit
<1>1. PrintInv => DigitsFit
  BY DEF PrintInv
<1> QED
  BY InitPrintInv, NextPrintInv, <1>1, PTL DEF PrintSpec

-----------------------------------------------------------------------------
(***************************************************************************)
(* Numerals.                                                               *)
(***************************************************************************)
\* What the first digits of a sequence are worth.
LEMMA SumsAre ==
  ASSUME NEW base \in Nat, NEW ds \in Seq(Nat)
  PROVE  /\ Sums(ds, base)[0] = 0
         /\ \A k \in 1 .. Len(ds) :
              Sums(ds, base)[k] = base * Sums(ds, base)[k - 1] + ds[k]
         /\ \A k \in 0 .. Len(ds) : Sums(ds, base)[k] \in Nat
<1> DEFINE digit(k) == IF k \in 1 .. Len(ds) THEN ds[k] ELSE 0
           F == [k \in Nat |-> [x \in Nat |-> base * x + digit(k)]]
           N == Len(ds)
           sum == Sums(ds, base)
<1>1. N \in Nat /\ 0 \in Nat
  OBVIOUS
<1>2. \A k \in Nat : digit(k) \in Nat
  OBVIOUS
<1>3. F \in [Nat -> [Nat -> Nat]]
  BY <1>2
<1>4. PICK f : IsTable(f, Nat, 0, F, N)
  <2> HIDE DEF F, N
  <2> QED
    BY <1>1, <1>3, TableExists
<1>5. ASSUME NEW k \in 1 .. N PROVE f[k] = base * f[k - 1] + ds[k]
  <2>1. k - 1 \in 0 .. N
    BY <1>1
  <2>2. f[k - 1] \in Nat
    BY <1>4, <2>1 DEF IsTable
  <2>3. F[k][f[k - 1]] = base * f[k - 1] + ds[k]
    BY <2>2
  <2> HIDE DEF F
  <2> QED
    BY <1>4, <2>3 DEF IsTable
<1>6. f = [k \in 0 .. N |-> IF k = 0 THEN 0 ELSE base * f[k - 1] + ds[k]]
  BY <1>4, <1>5 DEF IsTable
<1>7. sum = [k \in 0 .. N |-> IF k = 0 THEN 0 ELSE base * sum[k - 1] + ds[k]]
  BY <1>6 DEF Sums
<1>8. sum[0] = 0 /\ \A k \in 1 .. N : sum[k] = base * sum[k - 1] + ds[k]
  <2> HIDE DEF N, sum
  <2> QED
    BY <1>1, <1>7
<1>9. ASSUME NEW k \in 0 .. N PROVE sum[k] \in Nat
  <2> DEFINE T == {m \in Nat : m <= N => sum[m] \in Nat}
  <2> HIDE DEF sum
  <2>1. 0 \in T
    BY <1>8
  <2>2. ASSUME NEW m \in Nat, m \in T PROVE m + 1 \in T
    <3>1. CASE m + 1 <= N
      <4>1. sum[m + 1] = base * sum[m] + ds[m + 1] /\ sum[m] \in Nat
        BY <1>8, <2>2, <3>1
      <4>2. ds[m + 1] \in Nat
        BY <3>1
      <4>3. PICK x \in Nat, d \in Nat : x = sum[m] /\ d = ds[m + 1]
        BY <4>1, <4>2
      <4>4. base * x + d \in Nat
        OBVIOUS
      <4> QED
        BY <4>1, <4>3, <4>4
    <3> QED
      BY <3>1
  <2>3. Nat \subseteq T
    <3> HIDE DEF T
    <3> QED
      BY <2>1, <2>2, EveryNumber
  <2> QED
    BY <2>3
<1> QED
  BY <1>8, <1>9

LEMMA SumsNext ==
  ASSUME NEW base \in Nat, NEW ds \in Seq(Nat), NEW k \in Nat, k + 1 \in 1 .. Len(ds)
  PROVE  Sums(ds, base)[k + 1] = base * Sums(ds, base)[k] + ds[k + 1]
<1>1. (k + 1) - 1 = k
  OBVIOUS
<1>2. Sums(ds, base)[k + 1] = base * Sums(ds, base)[(k + 1) - 1] + ds[k + 1]
  BY SumsAre
<1> QED
  BY <1>1, <1>2

\* A digit more.
LEMMA SumsAppend ==
  ASSUME NEW base \in Nat, NEW ds \in Seq(Nat), NEW d \in Nat
  PROVE  Sums(Append(ds, d), base)[Len(ds) + 1] = base * Sums(ds, base)[Len(ds)] + d
<1> DEFINE es == Append(ds, d)
           N == Len(ds)
           T == {m \in Nat : m <= N => Sums(es, base)[m] = Sums(ds, base)[m]}
<1>1. /\ es \in Seq(Nat) /\ Len(es) = N + 1 /\ N \in Nat
      /\ es[N + 1] = d /\ \A k \in 1 .. N : es[k] = ds[k]
  OBVIOUS
<1> HIDE DEF es
<1>2. 0 \in T
  BY <1>1, SumsAre
<1>3. ASSUME NEW m \in Nat, m \in T PROVE m + 1 \in T
  <2>1. CASE m + 1 <= N
    <3>1. m + 1 \in 1 .. N /\ m + 1 \in 1 .. Len(es) /\ (m + 1) - 1 = m
      BY <1>1, <2>1
    <3>2. Sums(es, base)[m + 1] = base * Sums(es, base)[m] + es[m + 1]
      BY <1>1, <3>1, SumsNext
    <3>3. Sums(ds, base)[m + 1] = base * Sums(ds, base)[m] + ds[m + 1]
      BY <3>1, SumsNext
    <3>4. Sums(es, base)[m] = Sums(ds, base)[m]
      BY <1>1, <1>3, <2>1
    <3> QED
      BY <1>1, <3>1, <3>2, <3>3, <3>4
  <2> QED
    BY <1>1, <2>1
<1>4. Nat \subseteq T
  <2> HIDE DEF T
  <2> QED
    BY <1>2, <1>3, EveryNumber
<1>5. Sums(es, base)[N] = Sums(ds, base)[N]
  BY <1>1, <1>4
<1>6. Sums(es, base)[N + 1] = base * Sums(es, base)[N] + es[N + 1]
  <2>1. N + 1 \in 1 .. Len(es) /\ N \in Nat /\ es \in Seq(Nat)
    BY <1>1
  <2> HIDE DEF N
  <2> QED
    BY <2>1, SumsNext
<1> QED
  BY <1>1, <1>5, <1>6 DEF es

\* Division by the base takes the last digit off.
LEMMA LastDigit ==
  ASSUME NEW b \in Nat, NEW v \in Nat, b > 0
  PROVE  /\ v \div b \in Nat /\ v % b \in 0 .. b - 1
         /\ v = b * (v \div b) + (v % b)
         /\ v > 0 /\ b > 1 => v \div b < v
<1>1. PICK q \in Int, r \in 0 .. b - 1 : v \div b = q /\ v % b = r /\ v = b * q + r
  OBVIOUS
<1>2. q >= 0
  <2>1. CASE q <= -1
    <3>1. b * q <= b * (-1)
      BY <2>1
    <3> QED
      BY <1>1, <3>1
  <2> QED
    BY <2>1
<1>3. q > 0 /\ b > 1 => q < b * q
  BY <1>2
<1>4. PICK p \in Int : p = b * q
  OBVIOUS
<1>5. v > 0 /\ b > 1 => q < v
  BY <1>1, <1>2, <1>3, <1>4
<1>6. v = b * (v \div b) + (v % b)
  BY <1>1
<1>7. v \div b \in Nat /\ v % b \in 0 .. b - 1
  BY <1>1, <1>2
<1>8. v > 0 /\ b > 1 => v \div b < v
  BY <1>1, <1>5
<1> QED
  BY <1>6, <1>7, <1>8

LEMMA LastDigitIs ==
  ASSUME NEW b \in Nat, NEW p \in Nat, NEW d \in 0 .. b - 1,
         NEW q \in Nat, NEW e \in 0 .. b - 1, b * p + d = b * q + e
  PROVE  p = q /\ d = e
<1>1. ASSUME NEW x \in Nat, NEW y \in Nat, x < y PROVE b * x + b <= b * y
  <2>1. PICK z \in Nat : y = x + 1 + z
    <3>1. y - x - 1 \in Nat /\ y = x + 1 + (y - x - 1)
      BY <1>1
    <3> QED
      BY <3>1
  <2>2. b * y = b * x + b + b * z /\ b * z >= 0
    BY <2>1
  <2> QED
    BY <2>2
<1>2. ~(p < q)
  BY <1>1
<1>3. ~(q < p)
  BY <1>1
<1> QED
  BY <1>2, <1>3

\* x are the digits of n.
DigitsOf(x, n, base) ==
  x \in Seq(0 .. base - 1) /\ Len(x) > 0 /\ IsNumeral(x, n, base)

\* A number with two digits or more is not below the base.
LEMMA TwoDigits ==
  ASSUME NEW base \in Nat, base > 1, NEW x, NEW n \in Nat,
         DigitsOf(x, n, base), Len(x) > 1
  PROVE  n >= base
<1> DEFINE N == Len(x)
           T == {m \in Nat : m + 1 <= N => Sums(x, base)[m + 1] > 0}
<1>1. x \in Seq(Nat) /\ x[1] > 0 /\ N \in Nat /\ N > 1 /\ Sums(x, base)[N] = n
  BY DEF DigitsOf, IsNumeral
<1>2. 0 \in T
  <2>1. 1 \in 1 .. Len(x) /\ 1 - 1 = 0
    BY <1>1
  <2>2. Sums(x, base)[0] = 0
    BY <1>1, SumsAre
  <2>3. Sums(x, base)[1] = base * Sums(x, base)[0] + x[1]
    BY <1>1, <2>1, SumsAre
  <2>4. x[1] \in Nat /\ base * 0 = 0
    BY <1>1
  <2> QED
    BY <1>1, <2>2, <2>3, <2>4
<1>3. ASSUME NEW m \in Nat, m \in T PROVE m + 1 \in T
  <2>1. CASE (m + 1) + 1 <= N
    <3>1. /\ (m + 1) + 1 \in 1 .. Len(x) /\ ((m + 1) + 1) - 1 = m + 1
          /\ m + 1 \in 0 .. Len(x)
      BY <1>1, <2>1
    <3>2. Sums(x, base)[(m + 1) + 1] = base * Sums(x, base)[m + 1] + x[(m + 1) + 1]
      BY <1>1, <3>1, SumsAre
    <3>3. PICK p \in Nat, d \in Nat :
            p = Sums(x, base)[m + 1] /\ d = x[(m + 1) + 1] /\ p > 0
      BY <1>1, <1>3, <2>1, <3>1, SumsAre
    <3>4. base * p + d > 0
      BY <3>3
    <3> QED
      BY <3>2, <3>3, <3>4
  <2> QED
    BY <1>1, <2>1
<1>4. Nat \subseteq T
  <2> HIDE DEF T
  <2> QED
    BY <1>2, <1>3, EveryNumber
<1>5. /\ N - 2 \in Nat /\ (N - 2) + 1 = N - 1 /\ N - 1 <= N
      /\ N \in 1 .. Len(x) /\ N - 1 \in 0 .. Len(x)
  BY <1>1
<1>6. PICK p \in Nat, d \in Nat : p = Sums(x, base)[N - 1] /\ d = x[N] /\ p > 0
  <2>1. N - 2 \in T
    BY <1>4, <1>5
  <2>2. Sums(x, base)[N - 1] > 0
    BY <1>5, <2>1
  <2>3. Sums(x, base)[N - 1] \in Nat /\ x[N] \in Nat
    BY <1>1, <1>5, SumsAre
  <2> QED
    BY <2>2, <2>3
<1>7. n = base * p + d
  BY <1>1, <1>5, <1>6, SumsAre
<1>8. base * p >= base
  BY <1>6
<1> QED
  BY <1>6, <1>7, <1>8

LEMMA DigitsAre ==
  ASSUME NEW base \in Nat, base > 1, NEW x, NEW n, DigitsOf(x, n, base)
  PROVE  /\ x \in Seq(Nat) /\ x \in Seq(0 .. base - 1)
         /\ Len(x) \in Nat /\ Len(x) > 0
         /\ \A k \in 1 .. Len(x) : x[k] \in Nat /\ x[k] \in 0 .. base - 1
         /\ Sums(x, base)[Len(x)] = n
         /\ Len(x) > 1 => x[1] # 0
<1>1. x \in Seq(0 .. base - 1) /\ Len(x) > 0 /\ IsNumeral(x, n, base)
  BY DEF DigitsOf
<1>2. x \in Seq(Nat) /\ Len(x) \in Nat
  BY <1>1
<1>3. \A k \in 1 .. Len(x) : x[k] \in 0 .. base - 1
  BY <1>1
<1>4. Sums(x, base)[Len(x)] = n /\ (Len(x) > 1 => x[1] # 0)
  BY <1>1 DEF IsNumeral
<1> QED
  BY <1>1, <1>2, <1>3, <1>4

\* A digit is its own numeral, and no other sequence is.
LEMMA OneDigit ==
  ASSUME NEW base \in Nat, base > 1, NEW n \in 0 .. base - 1
  PROVE  DigitsOf(<<n>>, n, base)
<1>1. <<n>> \in Seq(Nat) /\ <<n>> \in Seq(0 .. base - 1) /\ Len(<<n>>) = 1 /\ <<n>>[1] = n
  OBVIOUS
<1>2. Sums(<<n>>, base)[0] = 0 /\ Sums(<<n>>, base)[1] = base * Sums(<<n>>, base)[0] + n
  <2>1. 1 \in 1 .. Len(<<n>>) /\ 1 - 1 = 0
    BY <1>1
  <2> QED
    BY <1>1, <2>1, SumsAre
<1>3. base * 0 = 0
  OBVIOUS
<1> QED
  BY <1>1, <1>2, <1>3 DEF DigitsOf, IsNumeral

LEMMA OneDigitIs ==
  ASSUME NEW base \in Nat, base > 1, NEW x, NEW n \in Nat,
         DigitsOf(x, n, base), Len(x) = 1
  PROVE  x = <<n>> /\ n < base
<1>1. 1 \in 1 .. Len(x) /\ 1 - 1 = 0
  OBVIOUS
<1>2. Sums(x, base)[0] = 0 /\ Sums(x, base)[1] = base * Sums(x, base)[0] + x[1]
  <2>1. x \in Seq(Nat)
    BY DigitsAre
  <2> QED
    BY <1>1, <2>1, SumsAre
<1>3. PICK d \in 0 .. base - 1 : d = x[1]
  BY <1>1, DigitsAre
<1>4. base * 0 = 0
  OBVIOUS
<1>5. n = d
  BY <1>2, <1>3, <1>4, DigitsAre
<1>6. x = <<x[1]>>
  BY DigitsAre
<1> QED
  BY <1>3, <1>5, <1>6

\* The digits of a number whose last digit has been taken off, and that digit.
LEMMA DigitsAppend ==
  ASSUME NEW base \in Nat, base > 1, NEW n \in Nat, n >= base,
         NEW x, DigitsOf(x, n \div base, base)
  PROVE  DigitsOf(Append(x, n % base), n, base)
<1>1. PICK q \in Nat, d \in 0 .. base - 1 :
        q = n \div base /\ d = n % base /\ n = base * q + d
  BY LastDigit
<1> DEFINE y == Append(x, d)
<1>2. /\ x \in Seq(0 .. base - 1) /\ x \in Seq(Nat) /\ Len(x) \in Nat /\ Len(x) > 0
      /\ Sums(x, base)[Len(x)] = q /\ (Len(x) > 1 => x[1] # 0)
  BY <1>1, DigitsAre
<1>3. y \in Seq(0 .. base - 1) /\ Len(y) = Len(x) + 1 /\ y[1] = x[1]
  BY <1>1, <1>2
<1>4. Sums(y, base)[Len(y)] = n
  <2>1. d \in Nat
    BY <1>1
  <2>2. Sums(Append(x, d), base)[Len(x) + 1] = base * Sums(x, base)[Len(x)] + d
    BY <1>2, <2>1, SumsAppend
  <2> QED
    BY <1>1, <1>2, <1>3, <2>2
<1>5. x[1] # 0
  <2>1. CASE Len(x) = 1
    <3>1. x = <<q>>
      BY <1>1, <2>1, OneDigitIs
    <3>2. q = 0 => base * q = 0
      OBVIOUS
    <3> QED
      BY <1>1, <3>1, <3>2
  <2>2. CASE Len(x) > 1
    BY <1>2, <2>2
  <2>3. PICK l \in Nat : l = Len(x) /\ l > 0
    BY <1>2
  <2>4. l = 1 \/ l > 1
    BY <2>3
  <2> QED
    BY <2>1, <2>2, <2>3, <2>4
<1> HIDE DEF y
<1>6. DigitsOf(y, n, base)
  BY <1>2, <1>3, <1>4, <1>5 DEF DigitsOf, IsNumeral
<1> QED
  BY <1>1, <1>6 DEF y

\* The first digits, and the last.
FirstAndLast(x, n, base) ==
  \E p \in Nat, d \in 0 .. base - 1 :
    \E y : x = Append(y, d) /\ DigitsOf(y, p, base) /\ n = base * p + d

LEMMA DigitsSplit ==
  ASSUME NEW base \in Nat, base > 1, NEW n \in Nat, NEW x,
         DigitsOf(x, n, base), Len(x) > 1
  PROVE  FirstAndLast(x, n, base)
<1> DEFINE y == SubSeq(x, 1, Len(x) - 1)
<1>1. PICK N \in Nat : N = Len(x) /\ N > 1
  BY DigitsAre
<1>2. /\ x \in Seq(0 .. base - 1) /\ x \in Seq(Nat)
      /\ Sums(x, base)[N] = n /\ x[1] # 0
  BY <1>1, DigitsAre
<1>3. PICK d \in 0 .. base - 1 : d = x[N]
  BY <1>1, DigitsAre
<1>4. y \in Seq(0 .. base - 1) /\ y \in Seq(Nat) /\ Len(y) = N - 1 /\ y[1] = x[1]
  <2>1. \A k \in 1 .. N - 1 : x[k] \in 0 .. base - 1
    BY <1>1, DigitsAre
  <2>2. y = SubSeq(x, 1, N - 1) /\ 1 <= N - 1 /\ N - 1 \in Int /\ (N - 1) - 1 + 1 = N - 1
    BY <1>1
  <2> HIDE DEF y
  <2>3. /\ y \in Seq(0 .. base - 1) /\ Len(y) = N - 1
        /\ \A k \in 1 .. N - 1 : y[k] = x[1 + k - 1]
    BY <2>1, <2>2, SubSeqProperties
  <2>4. y[1] = x[1]
    <3>1. 1 \in 1 .. N - 1 /\ 1 + 1 - 1 = 1
      BY <1>1
    <3> QED
      BY <2>3, <3>1
  <2>5. 0 .. base - 1 \subseteq Nat
    OBVIOUS
  <2>6. y \in Seq(Nat)
    BY <2>3, <2>5, SeqMonotonic
  <2> QED
    BY <2>3, <2>4, <2>6
<1>5. x = Append(y, d)
  BY <1>1, <1>2, <1>3
<1> HIDE DEF y
<1>6. PICK p \in Nat : p = Sums(y, base)[N - 1]
  <2>1. N - 1 \in 0 .. Len(y)
    BY <1>1, <1>4
  <2> QED
    BY <1>4, <2>1, SumsAre
<1>7. n = base * p + d
  <2>1. d \in Nat
    BY <1>3
  <2>2. Sums(Append(y, d), base)[Len(y) + 1] = base * Sums(y, base)[Len(y)] + d
    BY <1>4, <2>1, SumsAppend
  <2>3. Len(y) + 1 = N
    BY <1>1, <1>4
  <2> QED
    BY <1>2, <1>4, <1>5, <1>6, <2>2, <2>3
<1>8. DigitsOf(y, p, base)
  BY <1>1, <1>2, <1>4, <1>6 DEF DigitsOf, IsNumeral
<1> QED
  BY <1>5, <1>7, <1>8 DEF FirstAndLast

\* Two numerals of a number are the same: by induction on their length.
Unique(m, base) ==
  \A k \in Nat : \A u, v :
    Len(u) = m + 1 /\ DigitsOf(u, k, base) /\ DigitsOf(v, k, base) => u = v

LEMMA OneNumeral ==
  ASSUME NEW base \in Nat, base > 1, NEW n \in Nat, NEW x, NEW y,
         DigitsOf(x, n, base), DigitsOf(y, n, base)
  PROVE  x = y
<1> DEFINE T == {m \in Nat : Unique(m, base)}
<1>1. 0 \in T
  <2> SUFFICES ASSUME NEW k \in Nat, NEW u, NEW v, Len(u) = 1,
                      DigitsOf(u, k, base), DigitsOf(v, k, base)
               PROVE  u = v
    BY DEF Unique
  <2>1. u = <<k>> /\ k < base
    BY OneDigitIs
  <2>2. Len(v) = 1
    <3>1. Len(v) \in Nat /\ Len(v) > 0
      BY DigitsAre
    <3>2. ~(Len(v) > 1)
      BY <2>1, TwoDigits
    <3> QED
      BY <3>1, <3>2
  <2>3. v = <<k>>
    BY <2>2, OneDigitIs
  <2> QED
    BY <2>1, <2>3
<1>2. ASSUME NEW m \in Nat, m \in T PROVE m + 1 \in T
  <2> SUFFICES ASSUME NEW k \in Nat, NEW u, NEW v, Len(u) = (m + 1) + 1,
                      DigitsOf(u, k, base), DigitsOf(v, k, base)
               PROVE  u = v
    BY DEF Unique
  <2>1. Len(u) > 1
    OBVIOUS
  <2>2. k >= base
    BY <2>1, TwoDigits
  <2>3. Len(v) > 1
    <3>1. PICK l \in Nat : l = Len(v) /\ l > 0
      BY DigitsAre
    <3>2. l = 1 => k < base
      BY <3>1, OneDigitIs
    <3>3. l # 1
      BY <2>2, <3>2
    <3> QED
      BY <3>1, <3>3
  <2>4. PICK p \in Nat, d \in 0 .. base - 1 :
          \E w : u = Append(w, d) /\ DigitsOf(w, p, base) /\ k = base * p + d
    <3>1. FirstAndLast(u, k, base)
      BY <2>1, DigitsSplit
    <3> QED
      BY <3>1 DEF FirstAndLast
  <2>5. PICK q \in Nat, e \in 0 .. base - 1 :
          \E w : v = Append(w, e) /\ DigitsOf(w, q, base) /\ k = base * q + e
    <3>1. FirstAndLast(v, k, base)
      BY <2>3, DigitsSplit
    <3> QED
      BY <3>1 DEF FirstAndLast
  <2>6. PICK s : u = Append(s, d) /\ DigitsOf(s, p, base) /\ k = base * p + d
    BY <2>4
  <2>7. PICK w : v = Append(w, e) /\ DigitsOf(w, q, base) /\ k = base * q + e
    BY <2>5
  <2>8. p = q /\ d = e
    <3>1. base * p + d = base * q + e
      BY <2>6, <2>7
    <3> QED
      BY <3>1, LastDigitIs
  <2>9. Len(s) = m + 1
    <3>1. s \in Seq(0 .. base - 1)
      BY <2>6, DigitsAre
    <3> QED
      BY <2>6, <3>1
  <2>10. s = w
    BY <1>2, <2>6, <2>7, <2>8, <2>9 DEF Unique
  <2> QED
    BY <2>6, <2>7, <2>8, <2>10
<1>3. Nat \subseteq T
  <2> HIDE DEF T
  <2> QED
    BY <1>1, <1>2, EveryNumber
<1>4. Len(x) - 1 \in Nat /\ (Len(x) - 1) + 1 = Len(x)
  BY DigitsAre
<1>5. Unique(Len(x) - 1, base)
  BY <1>3, <1>4
<1> QED
  BY <1>4, <1>5 DEF Unique

\* A number below Power[m] has a numeral of m digits at most: by induction on m.
Shorter(n, base, m) == \E x : DigitsOf(x, n, base) /\ Len(x) <= m
AllShorter(base, m) == \A n \in Nat : n < Power[m] => Shorter(n, base, m)

LEMMA NumeralExists ==
  ASSUME NEW base \in {DEC, HEX}, NEW m \in 1 .. BUFFER - 1
  PROVE  AllShorter(base, m)
<1> DEFINE T == {k \in Nat : k + 1 <= BUFFER - 1 => AllShorter(base, k + 1)}
<1>1. /\ base \in Nat /\ base > 1 /\ DEC \in Nat /\ DEC > 1 /\ DEC <= base
      /\ BUFFER \in Nat
  BY NumbersAreNat
<1>2. ASSUME NEW k \in 1 .. BUFFER - 1, NEW n \in 0 .. base - 1
      PROVE  Shorter(n, base, k)
  <2>1. DigitsOf(<<n>>, n, base)
    BY <1>1, OneDigit
  <2>2. Len(<<n>>) <= k
    BY <1>1
  <2> QED
    BY <2>1, <2>2 DEF Shorter
<1>3. 0 \in T
  <2> SUFFICES ASSUME 1 <= BUFFER - 1, NEW n \in Nat, n < Power[1]
               PROVE  Shorter(n, base, 1)
    BY DEF AllShorter
  <2>1. 1 \in 1 .. BUFFER - 1 /\ 1 - 1 = 0
    BY <1>1
  <2>2. Power[1] = DEC * 1
    BY <2>1, PowerIs
  <2>3. n \in 0 .. base - 1
    BY <1>1, <2>2
  <2> QED
    BY <1>2, <2>1, <2>3
<1>4. ASSUME NEW k \in Nat, k \in T PROVE k + 1 \in T
  <2> DEFINE l == k + 1
  <2> SUFFICES ASSUME l + 1 <= BUFFER - 1, NEW n \in Nat, n < Power[l + 1]
               PROVE  Shorter(n, base, l + 1)
    BY DEF AllShorter
  <2>1. l \in 0 .. BUFFER - 1 /\ l + 1 \in 1 .. BUFFER - 1 /\ (l + 1) - 1 = l
    BY <1>1
  <2>2. AllShorter(base, l)
    BY <1>1, <1>4, <2>1
  <2>3. PICK p \in Nat : p = Power[l] /\ Power[l + 1] = DEC * p
    BY <2>1, PowerIs
  <2> HIDE DEF l
  <2>4. CASE n < base
    BY <1>1, <1>2, <2>1, <2>4
  <2>5. CASE n >= base
    <3>1. n \div base \in Nat /\ n \div base < p
      BY <1>1, <2>3, DigitTaken
    <3>2. Shorter(n \div base, base, l)
      BY <2>2, <2>3, <3>1 DEF AllShorter
    <3>3. PICK x : DigitsOf(x, n \div base, base) /\ Len(x) <= l
      BY <3>2 DEF Shorter
    <3>4. DigitsOf(Append(x, n % base), n, base)
      BY <1>1, <2>5, <3>3, DigitsAppend
    <3>5. Len(Append(x, n % base)) <= l + 1
      <4>1. x \in Seq(Nat)
        BY <1>1, <3>3, DigitsAre
      <4> QED
        BY <2>1, <3>3, <4>1
    <3> QED
      BY <3>4, <3>5 DEF Shorter
  <2> QED
    BY <1>1, <2>4, <2>5
<1>5. Nat \subseteq T
  <2> HIDE DEF T
  <2> QED
    BY <1>3, <1>4, EveryNumber
<1>6. m - 1 \in Nat /\ (m - 1) + 1 = m /\ m <= BUFFER - 1
  BY <1>1
<1> QED
  BY <1>5, <1>6

\* Numeral finds the one there is.
LEMMA NumeralIs ==
  ASSUME NEW base \in {DEC, HEX}, NEW n \in Nat, NEW x,
         DigitsOf(x, n, base), Len(x) <= BUFFER - 1
  PROVE  Numeral(n, base) = [k \in 1 .. Len(x) |-> DigitChar[x[k] + 1]]
<1>1. base \in Nat /\ base > 1
  BY NumbersAreNat
<1>2. x \in Sequences(base) /\ IsNumeral(x, n, base)
  <2>1. PICK l \in Nat : l = Len(x) /\ l > 0
    BY <1>1, DigitsAre
  <2>2. l \in 1 .. BUFFER - 1
    BY <2>1, NumbersAreNat
  <2>3. x \in Seq(0 .. base - 1)
    BY DEF DigitsOf
  <2>4. x \in [1 .. l -> 0 .. base - 1]
    BY <2>1, <2>3, LenProperties
  <2> QED
    BY <2>2, <2>4 DEF Sequences, DigitsOf
<1> DEFINE y == CHOOSE z \in Sequences(base) : IsNumeral(z, n, base)
<1>3. y \in Sequences(base) /\ IsNumeral(y, n, base)
  BY <1>2
<1>4. Numeral(n, base) = [k \in 1 .. Len(y) |-> DigitChar[y[k] + 1]]
  BY DEF Numeral
<1> HIDE DEF y
<1>5. DigitsOf(y, n, base)
  <2>1. PICK l \in 1 .. BUFFER - 1 : y \in [1 .. l -> 0 .. base - 1]
    BY <1>3 DEF Sequences
  <2>2. l \in Nat /\ l > 0
    BY NumbersAreNat
  <2>3. y \in Seq(0 .. base - 1) /\ Len(y) = l
    <3> DEFINE D == 0 .. base - 1
    <3> HIDE DEF D
    <3>1. y \in [1 .. l -> D]
      BY <2>1 DEF D
    <3>2. y \in Seq(D) /\ Len(y) = l
      BY <2>2, <3>1
    <3> QED
      BY <3>2 DEF D
  <2> QED
    BY <1>3, <2>2, <2>3 DEF DigitsOf
<1>6. x = y
  BY <1>1, <1>5, OneNumeral
<1> QED
  BY <1>4, <1>6

\* The characters that are printed.
Glyphs == STRING \cup {DigitChar[k] : k \in 1 .. 16} \cup {"%", "0", "x", "d"}

LEMMA GlyphsJoin ==
  ASSUME NEW s \in Seq(Glyphs), NEW t \in Seq(Glyphs), NEW u \in Seq(Glyphs),
         NEW ch \in Glyphs
  PROVE  /\ (s \o t) \o u = s \o (t \o u)
         /\ s \o <<ch>> = Append(s, ch)
         /\ s \o t \in Seq(Glyphs)
<1>1. (s \o t) \o u = s \o (t \o u)
  BY ConcatAssociative
<1>2. s \o <<ch>> = Append(s, ch)
  BY AppendIsConcat
<1>3. s \o t \in Seq(Glyphs)
  BY ConcatProperties
<1> QED
  BY <1>1, <1>2, <1>3

LEMMA DigitCharIs ==
  ASSUME NEW base \in {DEC, HEX}, NEW d \in 0 .. base - 1
  PROVE  DigitChar[d + 1] \in Glyphs /\ DigitChar[d + 1] # EOS
<1>1. PICK k \in 1 .. 16 : k = d + 1
  BY NumbersAssumption
<1>2. DigitChar[k] # EOS
  <2>1. DigitChar[k] \in {"0", "1", "2", "3", "4", "5", "6", "7", "8", "9",
                          "A", "B", "C", "D", "E", "F"}
    BY DEF DigitChar
  <2> QED
    BY <2>1 DEF EOS
<1> QED
  BY <1>1, <1>2 DEF Glyphs

\* Numbers of WORD values have numerals,
NumeralOf(x, n, base) ==
  /\ DigitsOf(x, n, base)
  /\ Numeral(n, base) = [k \in 1 .. Len(x) |-> DigitChar[x[k] + 1]]

LEMMA HasNumeral ==
  ASSUME NEW base \in {DEC, HEX}, NEW n \in 0 .. WORD - 1
  PROVE  \E x : NumeralOf(x, n, base) /\ Len(x) <= BUFFER - 1
<1>1. BUFFER - 1 \in 1 .. BUFFER - 1
  <2>1. BUFFER - 1 # 0
    <3>1. BUFFER - 1 = 0 => WORD <= 1
      BY PowerIs, NumbersAreNat
    <3> QED
      BY <3>1, NumbersAssumption
  <2> QED
    BY <2>1, NumbersAreNat
<1>2. n \in Nat /\ n < Power[BUFFER - 1]
  BY NumbersAreNat, PowerIs
<1>3. AllShorter(base, BUFFER - 1)
  BY <1>1, NumeralExists
<1>4. PICK x : DigitsOf(x, n, base) /\ Len(x) <= BUFFER - 1
  BY <1>2, <1>3 DEF AllShorter, Shorter
<1>5. Numeral(n, base) = [k \in 1 .. Len(x) |-> DigitChar[x[k] + 1]]
  BY <1>2, <1>4, NumeralIs
<1> QED
  BY <1>4, <1>5 DEF NumeralOf

\* made of digits,
LEMMA NumeralIn ==
  ASSUME NEW base \in {DEC, HEX}, NEW n \in 0 .. WORD - 1
  PROVE  Numeral(n, base) \in Seq(Glyphs)
<1>1. PICK x : NumeralOf(x, n, base)
  BY HasNumeral
<1>2. PICK l \in Nat : l = Len(x) /\ x \in Seq(0 .. base - 1)
  BY <1>1 DEF NumeralOf, DigitsOf
<1>3. ASSUME NEW k \in 1 .. l PROVE DigitChar[x[k] + 1] \in Glyphs
  <2>1. PICK d \in 0 .. base - 1 : d = x[k]
    BY <1>2, ElementOfSeq
  <2> QED
    BY <2>1, DigitCharIs
<1>4. Numeral(n, base) = [k \in 1 .. l |-> DigitChar[x[k] + 1]]
  BY <1>1, <1>2 DEF NumeralOf
<1> QED
  BY <1>3, <1>4

\* of which one is its own numeral,
LEMMA NumeralOfDigit ==
  ASSUME NEW base \in {DEC, HEX}, NEW n \in 0 .. WORD - 1, n < base
  PROVE  Numeral(n, base) = <<DigitChar[n + 1]>>
<1>1. base \in Nat /\ base > 1 /\ n \in Nat /\ n \in 0 .. base - 1
  BY NumbersAreNat
<1>2. PICK x : NumeralOf(x, n, base)
  BY HasNumeral
<1>3. DigitsOf(<<n>>, n, base)
  BY <1>1, OneDigit
<1>4. x = <<n>>
  BY <1>1, <1>2, <1>3, OneNumeral DEF NumeralOf
<1>5. Numeral(n, base) = [k \in 1 .. Len(<<n>>) |-> DigitChar[<<n>>[k] + 1]]
  BY <1>2, <1>4 DEF NumeralOf
<1> QED
  BY <1>5

\* and more are that of the number without its last digit, and the digit.
LEMMA NumeralOfMore ==
  ASSUME NEW base \in {DEC, HEX}, NEW n \in 0 .. WORD - 1, n >= base
  PROVE  Numeral(n, base) = Append(Numeral(n \div base, base),
                                   DigitChar[(n % base) + 1])
<1>1. base \in Nat /\ base > 1 /\ n \in Nat
  BY NumbersAreNat
<1>2. PICK q \in 0 .. WORD - 1, d \in 0 .. base - 1 : q = n \div base /\ d = n % base
  <2>1. n \div base \in Nat /\ n % base \in 0 .. base - 1
    BY <1>1, LastDigit
  <2>2. n > 0
    BY <1>1
  <2>3. n \div base < n
    BY <1>1, <2>2, LastDigit
  <2> QED
    BY <2>1, <2>3, NumbersAreNat
<1>3. PICK x : NumeralOf(x, n, base)
  BY HasNumeral
<1>4. PICK y : NumeralOf(y, q, base)
  BY HasNumeral
<1>5. x = Append(y, d)
  <2>1. DigitsOf(Append(y, d), n, base)
    BY <1>1, <1>2, <1>4, DigitsAppend DEF NumeralOf
  <2> QED
    BY <1>1, <1>3, <2>1, OneNumeral DEF NumeralOf
<1>6. PICK l \in Nat : l = Len(y)
  BY <1>1, <1>4, DigitsAre DEF NumeralOf
<1>7. y \in Seq(Nat)
  BY <1>1, <1>4, DigitsAre DEF NumeralOf
<1>8. Len(x) = l + 1 /\ x[l + 1] = d /\ \A k \in 1 .. l : x[k] = y[k]
  BY <1>5, <1>6, <1>7
<1>9. Numeral(n, base) = [k \in 1 .. l + 1 |-> DigitChar[x[k] + 1]]
  BY <1>3, <1>8 DEF NumeralOf
<1>10. Numeral(q, base) = [k \in 1 .. l |-> DigitChar[y[k] + 1]]
  BY <1>4, <1>6 DEF NumeralOf
<1>11. Numeral(q, base) \in Seq(Glyphs) /\ DigitChar[d + 1] \in Glyphs
  BY NumeralIn, DigitCharIs
<1>12. Numeral(n, base) \in Seq(Glyphs)
  BY NumeralIn
<1> DEFINE new == Append(Numeral(q, base), DigitChar[d + 1])
<1>13. Len(Numeral(q, base)) = l /\ Len(Numeral(n, base)) = l + 1
  BY <1>9, <1>10
<1>14. new \in Seq(Glyphs) /\ Len(new) = l + 1
  BY <1>11, <1>13
<1>15. ASSUME NEW k \in 1 .. l + 1 PROVE Numeral(n, base)[k] = new[k]
  <2>1. CASE k = l + 1
    BY <1>8, <1>9, <1>11, <1>13, <2>1
  <2>2. CASE k # l + 1
    <3>1. k \in 1 .. l
      BY <2>2
    <3> QED
      BY <1>8, <1>9, <1>10, <1>11, <1>13, <3>1
  <2> QED
    BY <2>1, <2>2
<1>16. Numeral(n, base) = new
  <2> HIDE DEF new
  <2> QED
    BY <1>12, <1>13, <1>14, <1>15, SeqEqual
<1> QED
  BY <1>2, <1>16

-----------------------------------------------------------------------------
(***************************************************************************)
(* How a format is read.                                                   *)
(***************************************************************************)
Start == [at |-> 1, arg |-> 1, text |-> <<>>]

\* r is a reading of the first l pairs and characters, if there are so many.
IsReading(r, w, f, g, l) ==
  /\ DOMAIN r = 0 .. l
  /\ r[0] = Start
  /\ \A k \in 1 .. l : r[k] = Read(w, f, g, r[k - 1])

LEMMA ReadingExists ==
  ASSUME NEW w, NEW f, NEW g, NEW l \in Nat
  PROVE  \E r : r = [k \in 0 .. l |-> r[k]] /\ IsReading(r, w, f, g, l)
<1> DEFINE T == {m \in Nat : \E r : r = [k \in 0 .. m |-> r[k]]
                                      /\ IsReading(r, w, f, g, m)}
<1>1. 0 \in T
  <2> DEFINE r == [k \in 0 .. 0 |-> Start]
  <2>1. r = [k \in 0 .. 0 |-> r[k]] /\ IsReading(r, w, f, g, 0)
    BY DEF IsReading
  <2> QED
    BY <2>1
<1>2. ASSUME NEW m \in Nat, m \in T PROVE m + 1 \in T
  <2>1. PICK r : IsReading(r, w, f, g, m)
    BY <1>2
  <2> DEFINE s == [k \in 0 .. m + 1 |-> IF k = m + 1 THEN Read(w, f, g, r[m]) ELSE r[k]]
  <2>2. s = [k \in 0 .. m + 1 |-> s[k]]
    OBVIOUS
  <2>3. IsReading(s, w, f, g, m + 1)
    <3>1. DOMAIN s = 0 .. m + 1 /\ s[0] = Start
      BY <2>1 DEF IsReading
    <3>2. ASSUME NEW k \in 1 .. m + 1 PROVE s[k] = Read(w, f, g, s[k - 1])
      <4>1. k - 1 \in 0 .. m + 1 /\ k - 1 # m + 1 /\ s[k - 1] = r[k - 1]
        OBVIOUS
      <4>2. CASE k = m + 1
        <5>1. s[k] = Read(w, f, g, r[m]) /\ k - 1 = m
          BY <4>2
        <5> QED
          BY <4>1, <5>1
      <4>3. CASE k # m + 1
        <5>1. k \in 1 .. m /\ s[k] = r[k]
          BY <4>3
        <5> QED
          BY <2>1, <4>1, <5>1 DEF IsReading
      <4> QED
        BY <4>2, <4>3
    <3> QED
      BY <3>1, <3>2 DEF IsReading
  <2> HIDE DEF s
  <2> QED
    BY <2>2, <2>3
<1>3. l \in T
  <2> HIDE DEF T
  <2> QED
    BY <1>1, <1>2, EveryNumber
<1> QED
  BY <1>3

LEMMA ReadingIs ==
  ASSUME NEW w, NEW f, NEW g, NEW l \in Nat, l = Len(f)
  PROVE  IsReading(Reading(w, f, g), w, f, g, l)
<1>1. PICK r : r = [k \in 0 .. l |-> r[k]] /\ IsReading(r, w, f, g, l)
  BY ReadingExists
<1>2. r = [k \in 0 .. l |-> IF k = 0 THEN Start ELSE Read(w, f, g, r[k - 1])]
  <2>1. ASSUME NEW k \in 0 .. l
        PROVE  r[k] = IF k = 0 THEN Start ELSE Read(w, f, g, r[k - 1])
    <3>1. CASE k = 0
      BY <1>1, <3>1 DEF IsReading
    <3>2. CASE k # 0
      <4>1. k \in 1 .. l
        BY <3>2
      <4>2. r[k] = Read(w, f, g, r[k - 1])
        BY <1>1, <4>1 DEF IsReading
      <4> QED
        BY <3>2, <4>2
    <3> QED
      BY <3>1, <3>2
  <2> QED
    BY <1>1, <2>1
<1> DEFINE read == Reading(w, f, g)
<1>3. read = [k \in 0 .. l |-> IF k = 0 THEN Start ELSE Read(w, f, g, read[k - 1])]
  BY <1>2 DEF Reading, Start
<1> HIDE DEF read
<1>4. IsReading(read, w, f, g, l)
  BY <1>3 DEF IsReading
<1> QED
  BY <1>4 DEF read

\* g has the arguments args, and maybe more.
Continues(g, args) ==
  \A k \in 1 .. Len(args) : k \in DOMAIN g /\ g[k] = args[k]

\* A reading comes to the place a, with the arguments args and the text t.
Mark(a, args, t) == [at |-> a, arg |-> Len(args) + 1, text |-> t]
Comes(w, f, g, j, p) == Reading(w, f, g)[j] = p
ComesAt(w, f, args, j, a, t) ==
  /\ j < a
  /\ \A g : Continues(g, args) => Comes(w, f, g, j, Mark(a, args, t))
ComesTo(w, f, args, a, t) == \E j \in 0 .. Len(f) : ComesAt(w, f, args, j, a, t)

\* What it comes to next.
Moves(w, f, args, a, t, args2, a2, t2) ==
  \A g : Continues(g, args2) =>
    /\ Continues(g, args)
    /\ Read(w, f, g, Mark(a, args, t)) = Mark(a2, args2, t2)

LEMMA ComesNext ==
  ASSUME NEW w, NEW f, NEW l \in Nat, l = Len(f), NEW a \in 1 .. l, NEW a2 \in Nat,
         a2 > a, NEW args, NEW args2, NEW t, NEW t2,
         ComesTo(w, f, args, a, t), Moves(w, f, args, a, t, args2, a2, t2)
  PROVE  ComesTo(w, f, args2, a2, t2)
<1>1. PICK j \in 0 .. l : ComesAt(w, f, args, j, a, t)
  BY DEF ComesTo
<1>2. j + 1 \in 1 .. l /\ j + 1 < a2 /\ (j + 1) - 1 = j
  BY <1>1 DEF ComesAt
<1>3. ASSUME NEW g, Continues(g, args2)
      PROVE  Comes(w, f, g, j + 1, Mark(a2, args2, t2))
  <2>1. Continues(g, args) /\ Read(w, f, g, Mark(a, args, t)) = Mark(a2, args2, t2)
    BY <1>3 DEF Moves
  <2>2. Comes(w, f, g, j, Mark(a, args, t))
    BY <1>1, <2>1 DEF ComesAt
  <2>3. IsReading(Reading(w, f, g), w, f, g, l)
    BY ReadingIs
  <2>4. Reading(w, f, g)[j + 1] = Read(w, f, g, Reading(w, f, g)[j])
    BY <1>2, <2>3 DEF IsReading
  <2> QED
    BY <2>1, <2>2, <2>4 DEF Comes
<1>4. ComesAt(w, f, args2, j + 1, a2, t2)
  BY <1>2, <1>3 DEF ComesAt
<1> QED
  BY <1>2, <1>4 DEF ComesTo

\* At the end it stays where it is.
LEMMA ComesToEnd ==
  ASSUME NEW w, NEW f, NEW l \in Nat, l = Len(f), NEW S, NEW args \in Seq(S), NEW t,
         ComesTo(w, f, args, l + 1, t)
  PROVE  Reading(w, f, args)[l] = Mark(l + 1, args, t)
<1> DEFINE p == Mark(l + 1, args, t)
<1>1. PICK j \in 0 .. l : ComesAt(w, f, args, j, l + 1, t)
  BY DEF ComesTo
<1> DEFINE T == {m \in Nat : j + m <= l => Comes(w, f, args, j + m, p)}
<1>2. Continues(args, args)
  BY LenProperties DEF Continues
<1>3. 0 \in T
  BY <1>1, <1>2 DEF ComesAt
<1>4. ASSUME NEW m \in Nat, m \in T PROVE m + 1 \in T
  <2>1. CASE j + (m + 1) <= l
    <3>1. j + (m + 1) \in 1 .. l /\ (j + (m + 1)) - 1 = j + m
      BY <2>1
    <3>2. Comes(w, f, args, j + m, p)
      BY <1>4, <3>1
    <3>3. IsReading(Reading(w, f, args), w, f, args, l)
      BY ReadingIs
    <3>4. Reading(w, f, args)[j + (m + 1)] = Read(w, f, args, Reading(w, f, args)[j + m])
      BY <3>1, <3>3 DEF IsReading
    <3>5. Read(w, f, args, p) = p
      BY DEF Read, Mark
    <3>6. Comes(w, f, args, j + (m + 1), p)
      BY <3>2, <3>4, <3>5 DEF Comes
    <3> QED
      BY <3>6
  <2> QED
    BY <2>1
<1>5. l - j \in T /\ j + (l - j) = l
  <2>1. Nat \subseteq T
    <3> HIDE DEF T
    <3> QED
      BY <1>3, <1>4, EveryNumber
  <2> HIDE DEF T
  <2> QED
    BY <2>1
<1>6. Comes(w, f, args, l, p)
  BY <1>5
<1> QED
  BY <1>6 DEF Comes

LEMMA ComesToStart ==
  ASSUME NEW w, NEW f, NEW l \in Nat, l = Len(f)
  PROVE  ComesTo(w, f, <<>>, 1, <<>>)
<1>1. ASSUME NEW g PROVE Comes(w, f, g, 0, Mark(1, <<>>, <<>>))
  <2>1. IsReading(Reading(w, f, g), w, f, g, l)
    BY ReadingIs
  <2>2. Mark(1, <<>>, <<>>) = Start
    BY DEF Mark, Start
  <2> QED
    BY <2>1, <2>2 DEF IsReading, Comes
<1>2. ComesAt(w, f, <<>>, 0, 1, <<>>)
  BY <1>1 DEF ComesAt
<1> QED
  BY <1>2 DEF ComesTo

\* A character, a '%' before anything else, "%%", and a letter.
LEMMA ComesPast ==
  ASSUME NEW w, NEW f, NEW l \in Nat, l = Len(f), NEW a \in 1 .. l,
         NEW S, NEW args \in Seq(S), NEW t, ComesTo(w, f, args, a, t)
  PROVE  /\ ~Pair(f, a) /\ f[a] # "%" => ComesTo(w, f, args, a + 1, t \o <<f[a]>>)
         /\ ~Pair(f, a) /\ f[a] = "%" => ComesTo(w, f, args, a + 1, t \o <<>>)
         /\ Pair(f, a) /\ f[a + 1] = "%" => ComesTo(w, f, args, a + 2, Append(t, "%"))
         /\ \A arg \in S : Pair(f, a) /\ f[a + 1] \in Letters
              => ComesTo(w, f, Append(args, arg), a + 2, t \o Shown(w, f[a + 1], arg))
<1>1. CASE ~Pair(f, a) /\ f[a] # "%"
  <2>1. Moves(w, f, args, a, t, args, a + 1, t \o <<f[a]>>)
    BY <1>1 DEF Moves, Read, Mark
  <2>2. ComesTo(w, f, args, a + 1, t \o <<f[a]>>)
    BY <2>1, ComesNext
  <2> QED
    BY <1>1, <2>2
<1>2. CASE ~Pair(f, a) /\ f[a] = "%"
  <2>1. ASSUME NEW g
        PROVE  Read(w, f, g, Mark(a, args, t)) = Mark(a + 1, args, t \o <<>>)
    <3>1. PICK p : p = Mark(a, args, t)
      OBVIOUS
    <3>2. p.at = a /\ p.arg = Len(args) + 1 /\ p.text = t /\ ~(a > Len(f))
      BY <3>1 DEF Mark
    <3>3. Read(w, f, g, p) = [at |-> a + 1, arg |-> Len(args) + 1, text |-> t \o <<>>]
      BY <1>2, <3>2 DEF Read
    <3> QED
      BY <3>1, <3>3 DEF Mark
  <2>2. Moves(w, f, args, a, t, args, a + 1, t \o <<>>)
    BY <2>1 DEF Moves
  <2>3. ComesTo(w, f, args, a + 1, t \o <<>>)
    BY <2>2, ComesNext
  <2> QED
    BY <1>2, <2>3
<1>3. CASE Pair(f, a) /\ f[a + 1] = "%"
  <2>1. Moves(w, f, args, a, t, args, a + 2, Append(t, "%"))
    BY <1>3 DEF Moves, Read, Mark
  <2>2. ComesTo(w, f, args, a + 2, Append(t, "%"))
    BY <2>1, ComesNext
  <2>3. f[a + 1] \notin Letters
    BY <1>3 DEF Letters
  <2> QED
    BY <1>3, <2>2, <2>3
<1>4. ASSUME Pair(f, a), f[a + 1] \in Letters, NEW arg \in S
      PROVE  ComesTo(w, f, Append(args, arg), a + 2, t \o Shown(w, f[a + 1], arg))
  <2> DEFINE more == Append(args, arg)
  <2>1. PICK m \in Nat : m = Len(args)
    OBVIOUS
  <2>2. Len(more) = m + 1 /\ more[m + 1] = arg /\ \A k \in 1 .. m : more[k] = args[k]
    BY <2>1
  <2> HIDE DEF more
  <2>3. f[a + 1] # "%"
    BY <1>4 DEF Letters
  <2>4. ASSUME NEW g, Continues(g, more)
        PROVE  /\ Continues(g, args)
               /\ Read(w, f, g, Mark(a, args, t))
                    = Mark(a + 2, more, t \o Shown(w, f[a + 1], arg))
    <3>1. m + 1 \in DOMAIN g /\ g[m + 1] = arg
      BY <2>2, <2>4 DEF Continues
    <3>2. Continues(g, args)
      BY <2>1, <2>2, <2>4 DEF Continues
    <3>3. PICK p : p = Mark(a, args, t)
      OBVIOUS
    <3>4. p.at = a /\ p.arg = m + 1 /\ p.text = t /\ ~(a > Len(f))
      BY <2>1, <3>3 DEF Mark
    <3>5. Read(w, f, g, p) = [at |-> a + 2, arg |-> (m + 1) + 1,
                              text |-> t \o Shown(w, f[a + 1], arg)]
      BY <1>4, <2>3, <3>1, <3>4 DEF Read
    <3> QED
      BY <2>2, <3>2, <3>3, <3>5 DEF Mark
  <2>5. Moves(w, f, args, a, t, more, a + 2, t \o Shown(w, f[a + 1], arg))
    BY <2>4 DEF Moves
  <2>6. ComesTo(w, f, more, a + 2, t \o Shown(w, f[a + 1], arg))
    BY <2>5, ComesNext
  <2> QED
    BY <2>6 DEF more
<1> QED
  BY <1>1, <1>2, <1>3, <1>4

-----------------------------------------------------------------------------
(***************************************************************************)
(* printf prints what is read.                                             *)
(***************************************************************************)
Passed == UNION {Arguments(letter) : letter \in Letters}

PrintTyped ==
  /\ who \in {"kernel", "user"}
  /\ loop \in {"walk", "d", "x", "done"}
  /\ format \in Seq(STRING \ {EOS}) /\ at \in 1 .. Len(format) + 1
  /\ given \in Seq(Passed) /\ out \in Seq(Glyphs)
  /\ flag \in BOOLEAN
  /\ flag => at > 1 /\ format[at - 1] = "%"
  /\ loop \in {"d", "x"} => ~flag

\* Behind curr the buffer has the digits that are stored.
DigitsBehind ==
  loop \in {"d", "x"} =>
    /\ curr \in -1 .. BUFFER - 2
    /\ value = 0 => curr < BUFFER - 2
    /\ \A k \in 0 .. BUFFER - 2 :
         IF k <= curr THEN buffer[k] = EOS ELSE buffer[k] \in Glyphs /\ buffer[k] # EOS

\* What is still to be printed of a number.
Stored(b, c) == [k \in 1 .. BUFFER - 2 - c |-> b[c + k]]
Rest(v, base) == IF v > 0 THEN Numeral(v, base) ELSE <<>>
Base(l) == IF l = "d" THEN DEC ELSE HEX
Due(l, v, b, c) ==
  IF l \in {"d", "x"} THEN Rest(v, Base(l)) \o Stored(b, c) ELSE <<>>

\* The reading is where printf is, but for a '%' that is not yet read.
Follows ==
  loop # "done" =>
    ComesTo(who, format, given, IF flag THEN at - 1 ELSE at,
            out \o Due(loop, value, buffer, curr))

MeantInv == PrintInv /\ PrintTyped /\ DigitsBehind /\ Follows /\ PrintsAsMeant

LEMMA InitMeantInv == PrintInit => MeantInv
<1> SUFFICES ASSUME PrintInit PROVE MeantInv
  OBVIOUS
<1>1. PrintInv
  BY InitPrintInv
<1>2. format \in Seq(STRING \ {EOS})
  BY StringsAssumption DEF PrintInit
<1>3. PICK l \in Nat : l = Len(format)
  BY <1>2
<1>4. PrintTyped
  <2>1. out \in Seq(Glyphs) /\ given \in Seq(Passed) /\ 1 \in 1 .. l + 1
    BY EmptySeq DEF PrintInit
  <2> QED
    BY <1>2, <1>3, <2>1 DEF PrintInit, PrintTyped
<1>5. out \o Due(loop, value, buffer, curr) = <<>>
  <2>1. Due(loop, value, buffer, curr) = <<>>
    BY DEF PrintInit, Due
  <2>2. out \in Seq(Glyphs)
    BY EmptySeq DEF PrintInit
  <2> QED
    BY <2>1, <2>2, ConcatEmptySeq DEF PrintInit
<1>6. Follows
  BY <1>3, <1>5, ComesToStart DEF Follows, PrintInit
<1> QED
  BY <1>1, <1>4, <1>6 DEF MeantInv, PrintInit, DigitsBehind, PrintsAsMeant

\* On the way through the format.
LEMMA WalkMeantInv ==
  ASSUME MeantInv, loop = "walk", Plain \/ Percent \/ PercentPercent \/ Unknown
  PROVE  MeantInv'
<1>1. PICK l \in Nat : l = Len(format)
  BY DEF MeantInv, PrintTyped
<1>2. /\ format \in Seq(STRING \ {EOS}) /\ at \in 1 .. l + 1 /\ given \in Seq(Passed)
      /\ who \in {"kernel", "user"}
      /\ out \in Seq(Glyphs) /\ flag \in BOOLEAN
      /\ (flag => at > 1 /\ format[at - 1] = "%")
  BY <1>1 DEF MeantInv, PrintTyped
<1>3. UNCHANGED <<who, format, loop, value, buffer, curr, given>>
  BY DEF Plain, Percent, PercentPercent, Unknown, number
<1>4. at \in 1 .. l /\ Here = format[at] /\ format[at] \in STRING
  <2>1. Here # EOS
    BY DEF Plain, Percent, PercentPercent, Unknown, EOS
  <2>2. at \in 1 .. l /\ Here = format[at]
    BY <1>1, <1>2, <2>1 DEF Here
  <2> QED
    BY <1>1, <1>2, <2>2, ElementOfSeq
<1>5. ComesTo(who, format, given, IF flag THEN at - 1 ELSE at, out)
  <2>1. Due(loop, value, buffer, curr) = <<>>
    BY DEF Due
  <2>2. out \o <<>> = out
    BY <1>2, ConcatEmptySeq
  <2> QED
    BY <2>1, <2>2 DEF MeantInv, Follows
<1>6. /\ out' \in Seq(Glyphs) /\ at' \in 1 .. l + 1 /\ flag' \in BOOLEAN
      /\ (flag' => at' > 1 /\ format[at' - 1] = "%")
      /\ ComesTo(who, format, given, IF flag' THEN at' - 1 ELSE at', out')
  <2>1. CASE Plain
    <3>1. ~flag /\ format[at] # "%" /\ out' = Append(out, format[at])
          /\ at' = at + 1 /\ flag' = FALSE
      BY <1>2, <1>4, <2>1 DEF Plain
    <3>2. ~Pair(format, at)
      BY <3>1 DEF Pair
    <3>3. format[at] \in Glyphs
      BY <1>4 DEF Glyphs
    <3>4. ComesTo(who, format, given, at + 1, out \o <<format[at]>>)
      BY <1>1, <1>2, <1>4, <1>5, <3>1, <3>2, ComesPast
    <3>5. out \o <<format[at]>> = Append(out, format[at])
      BY <1>2, <3>3, AppendIsConcat
    <3>6. out' \in Seq(Glyphs)
      BY <1>2, <3>1, <3>3
    <3>7. at' \in 1 .. l + 1
      BY <1>4, <3>1
    <3>8. ComesTo(who, format, given, at', out')
      BY <3>1, <3>4, <3>5
    <3> QED
      BY <3>1, <3>6, <3>7, <3>8
  <2>2. CASE Percent
    <3>1. ~flag /\ flag' = TRUE /\ format[at] = "%" /\ at' = at + 1 /\ out' = out
      BY <1>4, <2>2 DEF Percent
    <3> QED
      BY <1>2, <1>4, <1>5, <3>1
  <2>3. CASE PercentPercent
    <3>1. flag /\ flag' = FALSE /\ format[at] = "%" /\ at' = at + 1
          /\ out' = Append(out, "%")
      BY <1>4, <2>3 DEF PercentPercent
    <3>2. PICK a \in 1 .. l : a = at - 1 /\ a + 1 = at /\ a + 2 = at + 1 /\ a < l
      BY <1>2, <1>4, <3>1
    <3>3. Pair(format, a)
      BY <1>1, <1>2, <3>1, <3>2 DEF Pair
    <3>4. ComesTo(who, format, given, a + 2, Append(out, "%"))
      BY <1>1, <1>2, <1>5, <3>1, <3>2, <3>3, ComesPast
    <3>5. out' \in Seq(Glyphs)
      BY <1>2, <3>1 DEF Glyphs
    <3>6. at' \in 1 .. l + 1
      BY <1>4, <3>1
    <3>7. ComesTo(who, format, given, at', out')
      BY <3>1, <3>2, <3>4
    <3> QED
      BY <3>1, <3>5, <3>6, <3>7
  <2>4. CASE Unknown
    <3>1. flag /\ flag' = FALSE /\ at' = at /\ out' = out
          /\ format[at] \notin Letters \cup {"%"}
      BY <1>4, <2>4 DEF Unknown
    <3>2. PICK a \in 1 .. l : a = at - 1 /\ a + 1 = at
      BY <1>2, <1>4, <3>1
    <3>3. ~Pair(format, a) /\ format[a] = "%"
      BY <1>2, <3>1, <3>2 DEF Pair
    <3>4. ComesTo(who, format, given, a + 1, out \o <<>>)
      BY <1>1, <1>2, <1>5, <3>1, <3>2, <3>3, ComesPast
    <3>5. out \o <<>> = out
      BY <1>2, ConcatEmptySeq
    <3> QED
      BY <1>2, <3>1, <3>2, <3>4, <3>5
  <2> QED
    BY <2>1, <2>2, <2>3, <2>4
<1>7. PrintInv'
  BY <1>3 DEF MeantInv, PrintInv, DigitsFit, NumberInv
<1>8. PrintTyped'
  BY <1>1, <1>2, <1>3, <1>6 DEF PrintTyped
<1>9. Follows'
  <2>1. Due(loop, value, buffer, curr) = <<>>
    BY DEF Due
  <2>2. out' \o <<>> = out'
    BY <1>6, ConcatEmptySeq
  <2> QED
    BY <1>3, <1>6, <2>1, <2>2 DEF Follows
<1> QED
  BY <1>3, <1>7, <1>8, <1>9 DEF MeantInv, DigitsBehind, PrintsAsMeant

\* A string or a character.
LEMMA TextMeantInv ==
  ASSUME MeantInv, loop = "walk", Text
  PROVE  MeantInv'
<1>1. PICK l \in Nat : l = Len(format)
  BY DEF MeantInv, PrintTyped
<1>2. /\ format \in Seq(STRING \ {EOS}) /\ at \in 1 .. l + 1 /\ given \in Seq(Passed)
      /\ who \in {"kernel", "user"}
      /\ out \in Seq(Glyphs) /\ flag /\ at > 1 /\ format[at - 1] = "%"
  BY <1>1 DEF MeantInv, PrintTyped, Text
<1>3. UNCHANGED <<who, format, loop, value, buffer, curr>>
  BY DEF Text, number
<1>4. at \in 1 .. l /\ Here = format[at]
  <2>1. Here # EOS
    BY DEF Text, EOS
  <2> QED
    BY <1>1, <1>2, <2>1 DEF Here
<1>5. PICK arg \in Arguments(Here) : given' = Append(given, arg) /\ out' = out \o arg.s
  BY DEF Text
<1>6. arg \in Passed /\ arg.s \in Seq(Glyphs) /\ Shown(who, Here, arg) = arg.s
  <2>1. Here \in {"s", "c"} /\ Here \in Letters
    BY DEF Text, Letters
  <2>2. arg \in Passed
    BY <1>5, <2>1 DEF Passed
  <2>3. CASE Here = "s"
    <3>1. arg.s \in Strings
      BY <1>5, <2>3 DEF Arguments
    <3>2. STRING \subseteq Glyphs
      BY DEF Glyphs
    <3>3. arg.s \in Seq(Glyphs)
      BY <3>1, <3>2, StringsAssumption, SeqMonotonic
    <3> QED
      BY <2>2, <2>3, <3>3 DEF Shown
  <2>4. CASE Here = "c"
    <3>1. arg.s \in {<<"%">>, <<"d">>}
      BY <1>5, <2>4 DEF Arguments
    <3>2. PICK ch \in {"%", "d"} : arg.s = <<ch>>
      BY <3>1
    <3>3. ch \in Glyphs
      BY DEF Glyphs
    <3>4. arg.s \in Seq(Glyphs)
      BY <3>2, <3>3
    <3> QED
      BY <2>2, <2>4, <3>4 DEF Shown
  <2> QED
    BY <2>1, <2>3, <2>4
<1>7. PICK a \in 1 .. l : a = at - 1 /\ a + 1 = at /\ a + 2 = at + 1 /\ a < l
  BY <1>2, <1>4
<1>8. ComesTo(who, format, given, a, out)
  <2>1. Due(loop, value, buffer, curr) = <<>>
    BY DEF Due
  <2>2. out \o <<>> = out
    BY <1>2, ConcatEmptySeq
  <2> QED
    BY <1>2, <1>7, <2>1, <2>2 DEF MeantInv, Follows
<1>9. ComesTo(who, format, given', at + 1, out')
  <2>1. Pair(format, a) /\ format[a + 1] \in Letters /\ format[a + 1] = Here
    BY <1>1, <1>2, <1>4, <1>7 DEF Pair, Letters, Text
  <2>2. ComesTo(who, format, Append(given, arg), a + 2, out \o Shown(who, Here, arg))
    BY <1>1, <1>2, <1>6, <1>8, <2>1, ComesPast
  <2> QED
    BY <1>5, <1>6, <1>7, <2>2
<1>10. /\ out' \in Seq(Glyphs) /\ given' \in Seq(Passed)
       /\ flag' = FALSE /\ at' = at + 1 /\ at' \in 1 .. l + 1
  BY <1>2, <1>4, <1>5, <1>6, ConcatProperties DEF Text
<1>11. PrintInv'
  BY <1>3 DEF MeantInv, PrintInv, DigitsFit, NumberInv
<1>12. PrintTyped'
  BY <1>1, <1>2, <1>3, <1>10 DEF PrintTyped
<1>13. Follows'
  <2>1. Due(loop, value, buffer, curr) = <<>>
    BY DEF Due
  <2>2. out' \o <<>> = out'
    BY <1>10, ConcatEmptySeq
  <2> QED
    BY <1>3, <1>9, <1>10, <2>1, <2>2 DEF Follows
<1> QED
  BY <1>3, <1>11, <1>12, <1>13 DEF MeantInv, DigitsBehind, PrintsAsMeant

\* The end of the format.
LEMMA EndMeantInv ==
  ASSUME MeantInv, loop = "walk", End
  PROVE  MeantInv'
<1>1. PICK l \in Nat : l = Len(format)
  BY DEF MeantInv, PrintTyped
<1>2. /\ format \in Seq(STRING \ {EOS}) /\ at \in 1 .. l + 1 /\ given \in Seq(Passed)
      /\ out \in Seq(Glyphs) /\ (flag => at > 1 /\ format[at - 1] = "%")
  BY <1>1 DEF MeantInv, PrintTyped
<1>3. UNCHANGED <<who, format, at, flag, out, value, buffer, curr, given>> /\ loop' = "done"
  BY DEF End, number
<1>4. at = l + 1
  <2>1. ASSUME at \in 1 .. l PROVE FALSE
    <3>1. format[at] # EOS
      BY <1>1, <1>2, <2>1
    <3> QED
      BY <1>1, <2>1, <3>1 DEF End, Here
  <2> QED
    BY <1>2, <2>1
<1>5. ComesTo(who, format, given, IF flag THEN at - 1 ELSE at, out)
  <2>1. Due(loop, value, buffer, curr) = <<>>
    BY DEF Due
  <2>2. out \o <<>> = out
    BY <1>2, ConcatEmptySeq
  <2> QED
    BY <2>1, <2>2 DEF MeantInv, Follows
<1>6. ComesTo(who, format, given, l + 1, out)
  <2>1. CASE flag
    <3>1. l \in 1 .. l /\ at - 1 = l /\ format[l] = "%"
      BY <1>2, <1>4, <2>1
    <3>2. ~Pair(format, l)
      BY <1>1 DEF Pair
    <3>3. ComesTo(who, format, given, l + 1, out \o <<>>)
      BY <1>1, <1>2, <1>5, <2>1, <3>1, <3>2, ComesPast
    <3> QED
      BY <1>2, <3>3, ConcatEmptySeq
  <2>2. CASE ~flag
    BY <1>4, <1>5, <2>2
  <2> QED
    BY <2>1, <2>2
<1>7. Reading(who, format, given)[Len(format)] = Mark(l + 1, given, out)
  BY <1>1, <1>2, <1>6, ComesToEnd
<1>8. PrintsAsMeant'
  <2>1. Len(given) \in Nat
    BY <1>2
  <2> QED
    BY <1>3, <1>7, <2>1 DEF PrintsAsMeant, Mark
<1>9. PrintInv'
  BY <1>3 DEF MeantInv, PrintInv, DigitsFit, NumberInv
<1>10. PrintTyped'
  BY <1>3 DEF MeantInv, PrintTyped
<1> QED
  BY <1>3, <1>8, <1>9, <1>10 DEF MeantInv, DigitsBehind, Follows

\* The low bits of a number that is a multiple of their values, and another.
LEMMA LowBits ==
  ASSUME NEW c \in Nat, c > 0, NEW m \in Nat, NEW k \in Nat
  PROVE  (c * m + k) % c = k % c
<1>1. PICK q \in Nat, d \in 0 .. c - 1 : k = c * q + d /\ d = k % c
  BY LastDigit
<1>2. PICK v \in Nat : v = c * m + k
  OBVIOUS
<1>3. PICK p \in Nat, e \in 0 .. c - 1 : v = c * p + e /\ e = v % c
  BY LastDigit
<1>4. c * (m + q) + d = c * p + e /\ m + q \in Nat
  BY <1>1, <1>2, <1>3
<1>5. d = e
  <2>1. PICK s \in Nat : s = m + q
    OBVIOUS
  <2>2. c * s + d = c * p + e
    BY <1>4, <2>1
  <2> QED
    BY <2>2, LastDigitIs
<1> QED
  BY <1>1, <1>2, <1>3, <1>5

\* The low 16 bits of an int are those of the int extended.
LEMMA ExtendedLow ==
  ASSUME NEW k \in 0 .. INT - 1
  PROVE  Extended(k) % SHORT = k % SHORT
<1>1. /\ WORD \in Nat /\ INT \in Nat /\ SHORT \in Nat /\ k \in Nat
      /\ INT > 0 /\ SHORT > 0 /\ WORD > 0 /\ INT <= WORD
  BY NumbersAssumption
<1>2. PICK p \in Nat : WORD = INT * p
  <2>1. WORD \div INT \in Nat /\ WORD = INT * (WORD \div INT) + (WORD % INT)
    BY <1>1, LastDigit
  <2>2. PICK p \in Nat : p = WORD \div INT /\ WORD = INT * p + 0
    BY <2>1, NumbersAssumption
  <2> QED
    BY <1>1, <2>2
<1>3. PICK q \in Nat : INT = SHORT * q
  <2>1. INT \div SHORT \in Nat /\ INT = SHORT * (INT \div SHORT) + (INT % SHORT)
    BY <1>1, LastDigit
  <2>2. PICK q \in Nat : q = INT \div SHORT /\ INT = SHORT * q + 0
    BY <2>1, NumbersAssumption
  <2> QED
    BY <1>1, <2>2
<1>4. PICK r \in Nat : p = r + 1
  <2>1. p = 0 => INT * p = 0
    BY <1>1
  <2>2. p # 0
    BY <1>1, <1>2, <2>1
  <2>3. p - 1 \in Nat /\ p = (p - 1) + 1
    BY <2>2
  <2> QED
    BY <2>3
<1>5. WORD - INT = SHORT * (q * r)
  <2>1. WORD = INT * r + INT
    BY <1>1, <1>2, <1>4
  <2>2. PICK u \in Nat : u = INT * r
    BY <1>1
  <2>3. WORD - INT = u
    BY <1>1, <2>1, <2>2
  <2>4. INT * r = SHORT * (q * r)
    BY <1>1, <1>3
  <2> QED
    BY <2>2, <2>3, <2>4
<1>6. CASE 2 * k >= INT
  <2>1. PICK m \in Nat : m = q * r
    OBVIOUS
  <2>2. WORD - INT = SHORT * m
    BY <1>5, <2>1
  <2>3. (SHORT * m + k) % SHORT = k % SHORT
    BY <1>1, LowBits
  <2> QED
    BY <1>6, <2>2, <2>3 DEF Extended
<1>7. CASE ~(2 * k >= INT)
  BY <1>7 DEF Extended
<1> QED
  BY <1>6, <1>7

\* The number that is printed is the one that is meant.
Prefix(letter) == IF letter = "p" THEN <<"0", "x">> ELSE <<>>

LEMMA NumberShown ==
  ASSUME NEW letter \in {"d", "x", "p"}, NEW arg \in Arguments(letter), NEW v,
         v = CASE letter = "d" -> Extended(arg.n)
               [] letter = "x" -> Hex(Extended(arg.n))
               [] letter = "p" -> arg.n,
         who \in {"kernel", "user"}
  PROVE  /\ v \in 0 .. WORD - 1
         /\ Shown(who, letter, arg) = Prefix(letter) \o Numeral(v, Base(letter))
<1>1. CASE letter = "p"
  <2>1. v = arg.n /\ v \in 0 .. WORD - 1
    BY <1>1 DEF Arguments
  <2>2. Shown(who, letter, arg) = <<"0", "x">> \o Hexadecimal[arg.n]
    BY <1>1 DEF Shown
  <2>3. Hexadecimal[arg.n] = Numeral(v, HEX)
    BY <2>1 DEF Hexadecimal
  <2> QED
    BY <1>1, <2>1, <2>2, <2>3 DEF Prefix, Base
<1>2. CASE letter = "d"
  <2>1. arg.n \in 0 .. INT - 1 /\ v = Extended(arg.n)
    BY <1>2 DEF Arguments
  <2>2. v \in 0 .. WORD - 1
    BY <2>1, ExtendedIn
  <2>3. Shown(who, letter, arg) = Numeral(v, DEC)
    BY <1>2, <2>1, <2>2 DEF Shown, Decimal
  <2>4. <<>> \o Numeral(v, DEC) = Numeral(v, DEC)
    BY <2>2, NumeralIn, ConcatEmptySeq
  <2> QED
    BY <1>2, <2>2, <2>3, <2>4 DEF Prefix, Base
<1>3. CASE letter = "x"
  <2>1. arg.n \in 0 .. INT - 1 /\ v = Hex(Extended(arg.n))
    BY <1>3 DEF Arguments
  <2>2. PICK e \in 0 .. WORD - 1 : e = Extended(arg.n) /\ e % SHORT = arg.n % SHORT
    BY <2>1, ExtendedIn, ExtendedLow
  <2>3. v = IF who = "kernel" THEN arg.n % SHORT ELSE e
    BY <2>1, <2>2 DEF Hex, kprint_xd
  <2>4. e % SHORT \in 0 .. WORD - 1
    BY NumbersAreNat
  <2>5. v \in 0 .. WORD - 1
    BY <2>2, <2>3, <2>4
  <2>6. Shown(who, letter, arg) = Hexadecimal[v]
    BY <1>3, <2>2, <2>3 DEF Shown
  <2>7. Hexadecimal[v] = Numeral(v, HEX)
    BY <2>5 DEF Hexadecimal
  <2>8. <<>> \o Numeral(v, HEX) = Numeral(v, HEX)
    BY <2>5, NumeralIn, ConcatEmptySeq
  <2> QED
    BY <1>3, <2>5, <2>6, <2>7, <2>8 DEF Prefix, Base
<1> QED
  BY <1>1, <1>2, <1>3

\* What is stored of a number is made of glyphs.
LEMMA StoredIn ==
  ASSUME NEW b, NEW c \in -1 .. BUFFER - 2,
         \A k \in 0 .. BUFFER - 2 : k > c => b[k] \in Glyphs
  PROVE  Stored(b, c) \in Seq(Glyphs) /\ Len(Stored(b, c)) = BUFFER - 2 - c
<1>1. PICK m \in Nat : m = BUFFER - 2 - c
  BY NumbersAreNat
<1>2. ASSUME NEW k \in 1 .. m PROVE b[c + k] \in Glyphs
  <2>1. c + k \in 0 .. BUFFER - 2 /\ c + k > c
    BY <1>1, NumbersAreNat
  <2> QED
    BY <2>1
<1>3. Stored(b, c) = [k \in 1 .. m |-> b[c + k]]
  BY <1>1 DEF Stored
<1> QED
  BY <1>1, <1>2, <1>3

LEMMA RestIn ==
  ASSUME NEW base \in {DEC, HEX}, NEW v \in 0 .. WORD - 1
  PROVE  Rest(v, base) \in Seq(Glyphs)
<1>1. CASE v > 0
  BY <1>1, NumeralIn DEF Rest
<1>2. CASE ~(v > 0)
  BY <1>2, EmptySeq DEF Rest
<1> QED
  BY <1>1, <1>2

\* A digit that is stored is the last of those that are left.
LEMMA RestStep ==
  ASSUME NEW base \in {DEC, HEX}, NEW v \in 0 .. WORD - 1, v > 0
  PROVE  /\ v \div base \in 0 .. WORD - 1 /\ v % base \in 0 .. base - 1
         /\ Rest(v, base) = Rest(v \div base, base) \o <<DigitChar[(v % base) + 1]>>
<1>1. base \in Nat /\ base > 1 /\ v \in Nat /\ base > 0
  BY NumbersAreNat
<1>2. PICK q \in Nat, d \in 0 .. base - 1 :
        q = v \div base /\ d = v % base /\ v = base * q + d /\ q < v
  BY <1>1, LastDigit
<1>3. q \in 0 .. WORD - 1
  BY <1>2, NumbersAreNat
<1>4. DigitChar[d + 1] \in Glyphs
  BY DigitCharIs
<1>5. Rest(v, base) = Numeral(v, base)
  BY DEF Rest
<1>6. ASSUME q = 0
      PROVE  Rest(v, base) = Rest(q, base) \o <<DigitChar[d + 1]>>
  <2>1. base * 0 = 0
    BY <1>1
  <2>2. v = d /\ v < base
    BY <1>1, <1>2, <1>6, <2>1
  <2>3. Numeral(v, base) = <<DigitChar[d + 1]>>
    BY <2>2, NumeralOfDigit
  <2>4. Rest(q, base) = <<>>
    BY <1>6 DEF Rest
  <2>5. <<DigitChar[d + 1]>> \in Seq(Glyphs)
    BY <1>4
  <2>6. <<>> \o <<DigitChar[d + 1]>> = <<DigitChar[d + 1]>>
    BY <2>5, ConcatEmptySeq
  <2> QED
    BY <1>5, <2>3, <2>4, <2>6
<1>7. ASSUME q > 0
      PROVE  Rest(v, base) = Rest(q, base) \o <<DigitChar[d + 1]>>
  <2>1. v >= base
    <3>1. base * q >= base
      BY <1>1, <1>7
    <3> QED
      BY <1>1, <1>2, <3>1
  <2>2. Numeral(v, base) = Append(Numeral(q, base), DigitChar[d + 1])
    BY <1>2, <2>1, NumeralOfMore
  <2>3. Rest(q, base) = Numeral(q, base) /\ Numeral(q, base) \in Seq(Glyphs)
    BY <1>3, <1>7, NumeralIn DEF Rest
  <2>4. Numeral(q, base) \o <<DigitChar[d + 1]>>
          = Append(Numeral(q, base), DigitChar[d + 1])
    <3>1. PICK m \in Seq(Glyphs), ch \in Glyphs :
            m = Numeral(q, base) /\ ch = DigitChar[d + 1]
      BY <1>4, <2>3
    <3>2. m \o <<ch>> = Append(m, ch)
      BY GlyphsJoin
    <3> QED
      BY <3>1, <3>2
  <2> QED
    BY <1>5, <2>2, <2>3, <2>4
<1>8. Rest(v, base) = Rest(q, base) \o <<DigitChar[d + 1]>>
  <2>1. q = 0 \/ q > 0
    OBVIOUS
  <2> QED
    BY <1>6, <1>7, <2>1
<1> QED
  BY <1>2, <1>3, <1>8

\* It goes in front of those that are stored.
LEMMA StoredStep ==
  ASSUME NEW b, DOMAIN b = 0 .. BUFFER - 1, NEW c \in 0 .. BUFFER - 2, NEW ch \in Glyphs,
         \A k \in 0 .. BUFFER - 2 : k > c => b[k] \in Glyphs
  PROVE  Stored([b EXCEPT ![c] = ch], c - 1) = <<ch>> \o Stored(b, c)
<1> DEFINE e == [b EXCEPT ![c] = ch]
           s == Stored(e, c - 1)
           t == <<ch>> \o Stored(b, c)
<1>1. BUFFER \in Nat
  BY NumbersAreNat
<1>2. c - 1 \in -1 .. BUFFER - 2 /\ c \in -1 .. BUFFER - 2 /\ c \in 0 .. BUFFER - 1
  BY <1>1
<1>3. e[c] = ch /\ \A k \in 0 .. BUFFER - 2 : k # c => e[k] = b[k]
  BY <1>1, <1>2
<1>4. \A k \in 0 .. BUFFER - 2 : k > c - 1 => e[k] \in Glyphs
  BY <1>1, <1>3
<1> HIDE DEF e
<1>5. s \in Seq(Glyphs) /\ Len(s) = BUFFER - 2 - (c - 1)
  BY <1>2, <1>4, StoredIn
<1>6. Stored(b, c) \in Seq(Glyphs) /\ Len(Stored(b, c)) = BUFFER - 2 - c
  BY <1>2, StoredIn
<1>7. <<ch>> \in Seq(Glyphs) /\ Len(<<ch>>) = 1 /\ <<ch>>[1] = ch
  OBVIOUS
<1>8. PICK m \in Nat : m = BUFFER - 1 - c /\ m >= 1 /\ Len(s) = m /\ Len(Stored(b, c)) = m - 1
  BY <1>1, <1>5, <1>6
<1>9. /\ t \in Seq(Glyphs) /\ Len(t) = m
      /\ \A k \in 1 .. m : t[k] = IF k <= 1 THEN <<ch>>[k] ELSE Stored(b, c)[k - 1]
  <2>1. /\ t \in Seq(Glyphs) /\ Len(t) = Len(<<ch>>) + Len(Stored(b, c))
        /\ \A k \in 1 .. Len(<<ch>>) + Len(Stored(b, c)) :
             t[k] = IF k <= Len(<<ch>>) THEN <<ch>>[k]
                    ELSE Stored(b, c)[k - Len(<<ch>>)]
    BY <1>6, <1>7, ConcatProperties
  <2>2. Len(<<ch>>) + Len(Stored(b, c)) = m
    BY <1>7, <1>8
  <2> QED
    BY <1>7, <2>1, <2>2
<1>10. ASSUME NEW k \in 1 .. m PROVE s[k] = t[k]
  <2>1. s[k] = e[(c - 1) + k]
    BY <1>1, <1>8 DEF Stored
  <2>2. CASE k = 1
    BY <1>3, <1>7, <1>9, <2>1, <2>2
  <2>3. CASE k # 1
    <3>1. k - 1 \in 1 .. BUFFER - 2 - c /\ (c - 1) + k = c + (k - 1)
          /\ c + (k - 1) \in 0 .. BUFFER - 2 /\ c + (k - 1) # c
      BY <1>1, <1>8, <2>3
    <3>2. Stored(b, c)[k - 1] = b[c + (k - 1)]
      BY <3>1 DEF Stored
    <3>3. e[(c - 1) + k] = b[c + (k - 1)]
      BY <1>3, <3>1
    <3> QED
      BY <1>9, <2>1, <2>3, <3>2, <3>3
  <2> QED
    BY <2>2, <2>3
<1> HIDE DEF s, t
<1>11. s = t
  BY <1>5, <1>8, <1>9, <1>10, SeqEqual
<1> QED
  BY <1>11 DEF s, t, e

\* A number: what is due is all of it, or it is zero and is printed.
LEMMA NumberMeantInv ==
  ASSUME MeantInv, loop = "walk", Number
  PROVE  MeantInv'
<1>1. PICK l \in Nat : l = Len(format)
  BY DEF MeantInv, PrintTyped
<1>2. /\ format \in Seq(STRING \ {EOS}) /\ at \in 1 .. l + 1 /\ given \in Seq(Passed)
      /\ who \in {"kernel", "user"}
      /\ out \in Seq(Glyphs) /\ flag /\ at > 1 /\ format[at - 1] = "%"
  BY <1>1 DEF MeantInv, PrintTyped, Number
<1>3. PICK arg, v :
        /\ arg \in Arguments(Here)
        /\ v = CASE Here = "d" -> Extended(arg.n)
                 [] Here = "x" -> Hex(Extended(arg.n))
                 [] Here = "p" -> arg.n
        /\ given' = Append(given, arg)
        /\ out' = (out \o Prefix(Here)) \o (IF v = 0 THEN <<"0">> ELSE <<>>)
        /\ value' = v
        /\ loop' = IF v = 0 THEN "walk" ELSE IF Here = "d" THEN "d" ELSE "x"
  BY DEF Number, Prefix
<1>4. /\ Here \in {"d", "x", "p"} /\ buffer' = Blank /\ curr' = BUFFER - 2
      /\ flag' = FALSE /\ at' = at + 1 /\ UNCHANGED <<who, format>>
  BY DEF Number, FirstPlace
<1>5. at \in 1 .. l /\ Here = format[at]
  <2>1. Here # EOS
    BY <1>4 DEF EOS
  <2> QED
    BY <1>1, <1>2, <2>1 DEF Here
<1>6. arg \in Passed
  <2>1. Here \in Letters
    BY <1>4 DEF Letters
  <2> QED
    BY <1>3, <2>1 DEF Passed
<1> DEFINE base == Base(Here)
<1>7. base \in {DEC, HEX}
  BY DEF Base
<1>8. v \in 0 .. WORD - 1 /\ Shown(who, Here, arg) = Prefix(Here) \o Numeral(v, base)
  BY <1>2, <1>3, <1>4, NumberShown
<1>9. PICK a \in 1 .. l : a = at - 1 /\ a + 1 = at /\ a + 2 = at + 1 /\ a < l
  BY <1>2, <1>5
<1>10. ComesTo(who, format, given, a, out)
  <2>1. Due(loop, value, buffer, curr) = <<>>
    BY DEF Due
  <2>2. out \o <<>> = out
    BY <1>2, ConcatEmptySeq
  <2> QED
    BY <1>2, <1>9, <2>1, <2>2 DEF MeantInv, Follows
<1>11. ComesTo(who, format, given', at + 1, out \o Shown(who, Here, arg))
  <2>1. Pair(format, a) /\ format[a + 1] \in Letters /\ format[a + 1] = Here
    BY <1>1, <1>2, <1>4, <1>5, <1>9 DEF Pair, Letters
  <2>2. ComesTo(who, format, Append(given, arg), a + 2, out \o Shown(who, Here, arg))
    BY <1>1, <1>2, <1>6, <1>10, <2>1, ComesPast
  <2> QED
    BY <1>3, <1>9, <2>2
<1>12. Prefix(Here) \in Seq(Glyphs) /\ Numeral(v, base) \in Seq(Glyphs)
  <2>1. <<"0", "x">> \in Seq(Glyphs)
    <3>1. "0" \in Glyphs /\ "x" \in Glyphs
      BY DEF Glyphs
    <3> QED
      BY <3>1
  <2>2. Prefix(Here) \in Seq(Glyphs)
    BY <2>1, EmptySeq DEF Prefix
  <2>3. Numeral(v, base) \in Seq(Glyphs)
    <3> HIDE DEF base
    <3> QED
      BY <1>7, <1>8, NumeralIn
  <2> QED
    BY <2>2, <2>3
<1>13. out \o Prefix(Here) \in Seq(Glyphs)
  BY <1>2, <1>12, ConcatProperties
<1>14. (out \o Prefix(Here)) \o Numeral(v, base) = out \o Shown(who, Here, arg)
  <2>1. PICK p \in Seq(Glyphs), m \in Seq(Glyphs) :
          p = Prefix(Here) /\ m = Numeral(v, base)
    BY <1>12
  <2>2. PICK t \in Seq(Glyphs), ch \in Glyphs : t = out
    BY <1>2 DEF Glyphs
  <2>3. (t \o p) \o m = t \o (p \o m)
    BY <2>2, GlyphsJoin
  <2> QED
    BY <1>8, <2>1, <2>2, <2>3
<1>15. /\ out' \in Seq(Glyphs)
       /\ out' \o Due(loop', value', buffer', curr') = out \o Shown(who, Here, arg)
  <2>1. CASE v = 0
    <3>1. 0 < base /\ v < base
      BY <1>7, <2>1, NumbersAreNat
    <3>2. Numeral(v, base) = <<DigitChar[v + 1]>>
      BY <1>7, <1>8, <3>1, NumeralOfDigit
    <3>3. DigitChar[v + 1] = "0"
      BY <2>1 DEF DigitChar
    <3>4. out' = (out \o Prefix(Here)) \o Numeral(v, base) /\ loop' = "walk"
      BY <1>3, <2>1, <3>2, <3>3
    <3>5. out' \in Seq(Glyphs)
      BY <1>12, <1>13, <3>4, ConcatProperties
    <3>6. out' \o Due(loop', value', buffer', curr') = out'
      <4>1. Due(loop', value', buffer', curr') = <<>>
        BY <3>4 DEF Due
      <4> QED
        BY <3>5, <4>1, ConcatEmptySeq
    <3> QED
      BY <1>14, <3>4, <3>5, <3>6
  <2>2. CASE v # 0
    <3>1. loop' \in {"d", "x"} /\ Base(loop') = base /\ v > 0
      <4>1. loop' = IF Here = "d" THEN "d" ELSE "x"
        BY <1>3, <2>2
      <4>2. Base(loop') = Base(Here)
        BY <1>4, <4>1 DEF Base
      <4>3. v > 0
        BY <1>8, <2>2, NumbersAreNat
      <4> QED
        BY <4>1, <4>2, <4>3
    <3>2. out' = out \o Prefix(Here)
      <4>1. out' = (out \o Prefix(Here)) \o <<>>
        BY <1>3, <2>2
      <4> QED
        BY <1>13, <4>1, ConcatEmptySeq
    <3>3. Stored(Blank, BUFFER - 2) = <<>>
      <4>1. BUFFER - 2 - (BUFFER - 2) = 0 /\ 1 .. 0 = {}
        BY NumbersAreNat
      <4> QED
        BY <4>1 DEF Stored
    <3>4. Due(loop', value', buffer', curr') = Numeral(v, base) \o <<>>
      BY <1>3, <1>4, <3>1, <3>3 DEF Due, Rest
    <3>5. Numeral(v, base) \o <<>> = Numeral(v, base)
      BY <1>12, ConcatEmptySeq
    <3> QED
      BY <1>13, <1>14, <3>2, <3>4, <3>5
  <2> QED
    BY <2>1, <2>2
<1>16. PrintInv'
  BY NumberPrintInv DEF MeantInv
<1>17. PrintTyped'
  <2>1. given' \in Seq(Passed)
    BY <1>2, <1>3, <1>6
  <2>2. loop' \in {"walk", "d", "x", "done"}
    BY <1>3
  <2>3. at' \in 1 .. l + 1
    BY <1>4, <1>5
  <2> QED
    BY <1>1, <1>2, <1>4, <1>15, <2>1, <2>2, <2>3 DEF PrintTyped
<1>18. DigitsBehind'
  <2>1. loop' \in {"d", "x"} => value' # 0
    BY <1>3
  <2>2. BUFFER - 2 \in -1 .. BUFFER - 2
    BY NumbersAreNat
  <2>3. \A k \in 0 .. BUFFER - 2 : k <= BUFFER - 2 /\ Blank[k] = EOS
    BY NumbersAreNat DEF Blank
  <2> QED
    BY <1>4, <2>1, <2>2, <2>3 DEF DigitsBehind
<1>19. Follows'
  BY <1>4, <1>11, <1>15 DEF Follows
<1>20. PrintsAsMeant'
  <2>1. loop' # "done"
    BY <1>3
  <2> QED
    BY <2>1 DEF PrintsAsMeant
<1> QED
  BY <1>16, <1>17, <1>18, <1>19, <1>20 DEF MeantInv

\* A digit moves from the number to the buffer.
LEMMA DigitMeantInv ==
  ASSUME MeantInv, loop \in {"d", "x"}, Digit(Base(loop))
  PROVE  MeantInv'
<1> DEFINE base == Base(loop)
           ch == DigitChar[(value % base) + 1]
<1>1. base \in {DEC, HEX} /\ BUFFER \in Nat
  BY NumbersAreNat DEF Base
<1>2. /\ value > 0 /\ buffer' = [buffer EXCEPT ![curr] = ch]
      /\ curr' = curr - 1 /\ value' = value \div base
      /\ UNCHANGED <<who, format, at, flag, out, loop, given>>
  BY DEF Digit
<1>3. /\ value \in 0 .. WORD - 1 /\ curr \in 0 .. BUFFER - 2
      /\ DOMAIN buffer = 0 .. BUFFER - 1
  BY <1>2 DEF MeantInv, PrintInv, DigitsFit, NumberInv
<1>4. \A k \in 0 .. BUFFER - 2 :
        IF k <= curr THEN buffer[k] = EOS ELSE buffer[k] \in Glyphs /\ buffer[k] # EOS
  BY DEF MeantInv, DigitsBehind
<1>5. /\ value' \in 0 .. WORD - 1 /\ value % base \in 0 .. base - 1
      /\ Rest(value, base) = Rest(value', base) \o <<ch>>
  BY <1>1, <1>2, <1>3, RestStep
<1>6. ch \in Glyphs /\ ch # EOS
  BY <1>1, <1>5, DigitCharIs
<1>7. \A k \in 0 .. BUFFER - 2 : k > curr => buffer[k] \in Glyphs
  BY <1>1, <1>3, <1>4
<1> HIDE DEF base, ch
<1>8. Stored(buffer', curr') = <<ch>> \o Stored(buffer, curr)
  BY <1>2, <1>3, <1>6, <1>7, StoredStep
<1>9. Due(loop', value', buffer', curr') = Due(loop, value, buffer, curr)
  <2>1. Rest(value', base) \in Seq(Glyphs)
    BY <1>1, <1>5, RestIn
  <2>2. Stored(buffer, curr) \in Seq(Glyphs)
    <3>1. curr \in -1 .. BUFFER - 2
      BY <1>1, <1>3
    <3> QED
      BY <1>7, <3>1, StoredIn
  <2>3. <<ch>> \in Seq(Glyphs)
    BY <1>6
  <2>4. Rest(value', base) \o (<<ch>> \o Stored(buffer, curr))
          = (Rest(value', base) \o <<ch>>) \o Stored(buffer, curr)
    BY <2>1, <2>2, <2>3, ConcatAssociative
  <2>5. Due(loop, value, buffer, curr) = Rest(value, base) \o Stored(buffer, curr)
    BY DEF Due, base
  <2>6. Due(loop', value', buffer', curr') = Rest(value', base) \o Stored(buffer', curr')
    BY <1>2 DEF Due, base
  <2> QED
    BY <1>5, <1>8, <2>4, <2>5, <2>6
<1>10. PrintInv'
  BY <1>1, DigitPrintInv DEF MeantInv, base
<1>11. PrintTyped'
  BY <1>2 DEF MeantInv, PrintTyped
<1>12. DigitsBehind'
  <2>1. curr' \in -1 .. BUFFER - 2 /\ curr' < BUFFER - 2
    BY <1>1, <1>2, <1>3
  <2>2. ASSUME NEW k \in 0 .. BUFFER - 2
        PROVE  IF k <= curr' THEN buffer'[k] = EOS
               ELSE buffer'[k] \in Glyphs /\ buffer'[k] # EOS
    <3>1. k \in 0 .. BUFFER - 1
      BY <1>1
    <3>2. CASE k = curr
      <4>1. buffer'[k] = ch /\ ~(k <= curr')
        BY <1>2, <1>3, <3>1, <3>2
      <4> QED
        BY <1>6, <4>1
    <3>3. CASE k # curr
      <4>1. buffer'[k] = buffer[k] /\ (k <= curr' <=> k <= curr)
        BY <1>1, <1>2, <1>3, <3>1, <3>3
      <4> QED
        BY <1>4, <4>1
    <3> QED
      BY <3>2, <3>3
  <2> QED
    BY <2>1, <2>2 DEF DigitsBehind
<1>13. Follows'
  BY <1>2, <1>9 DEF MeantInv, Follows
<1>14. PrintsAsMeant'
  BY <1>2 DEF PrintsAsMeant
<1> QED
  BY <1>10, <1>11, <1>12, <1>13, <1>14 DEF MeantInv

\* The digits are printed, all of them.
LEMMA PrintDigitMeantInv ==
  ASSUME MeantInv, loop \in {"d", "x"}, PrintDigit
  PROVE  MeantInv'
<1>1. BUFFER \in Nat
  BY NumbersAreNat
<1>2. /\ value = 0 /\ out' = out \o Stripped /\ loop' = "walk"
      /\ UNCHANGED <<who, format, at, flag, value, buffer, curr, given>>
  BY DEF PrintDigit, number
<1>3. /\ curr \in -1 .. BUFFER - 2 /\ curr < BUFFER - 2
      /\ \A k \in 0 .. BUFFER - 2 :
           IF k <= curr THEN buffer[k] = EOS ELSE buffer[k] \in Glyphs /\ buffer[k] # EOS
  BY <1>2 DEF MeantInv, DigitsBehind
<1> DEFINE first == CHOOSE k \in 0 .. BUFFER - 1 :
                      buffer[k] # EOS /\ \A j \in 0 .. k - 1 : buffer[j] = EOS
<1>4. first = curr + 1
  <2>1. PICK c \in 0 .. BUFFER - 2 : c = curr + 1
    BY <1>1, <1>3
  <2>2. c \in 0 .. BUFFER - 1 /\ buffer[c] # EOS
    BY <1>1, <1>3, <2>1
  <2>3. \A j \in 0 .. c - 1 : buffer[j] = EOS
    BY <1>1, <1>3, <2>1
  <2>4. ASSUME NEW k \in 0 .. BUFFER - 1, buffer[k] # EOS,
               \A j \in 0 .. k - 1 : buffer[j] = EOS
        PROVE  k = c
    <3>1. ~(k < c)
      BY <1>1, <2>1, <2>3, <2>4
    <3>2. ~(c < k)
      BY <1>1, <2>1, <2>2, <2>4
    <3> QED
      BY <1>1, <3>1, <3>2
  <2> QED
    BY <2>1, <2>2, <2>3, <2>4
<1>5. Stripped = [k \in 1 .. BUFFER - 1 - first |-> buffer[first + k - 1]]
  BY DEF Stripped
<1> HIDE DEF first
<1>6. Stripped = Stored(buffer, curr)
  <2>1. BUFFER - 1 - first = BUFFER - 2 - curr
    BY <1>1, <1>3, <1>4
  <2>2. \A k \in 1 .. BUFFER - 2 - curr : first + k - 1 = curr + k
    BY <1>1, <1>3, <1>4
  <2> QED
    BY <1>5, <2>1, <2>2 DEF Stored
<1>7. Stored(buffer, curr) \in Seq(Glyphs)
  <2>1. \A k \in 0 .. BUFFER - 2 : k > curr => buffer[k] \in Glyphs
    BY <1>1, <1>3
  <2> QED
    BY <1>3, <2>1, StoredIn
<1>8. out' \in Seq(Glyphs)
  BY <1>2, <1>6, <1>7, ConcatProperties DEF MeantInv, PrintTyped
<1>9. out' \o Due(loop', value', buffer', curr') = out \o Due(loop, value, buffer, curr)
  <2>1. Rest(value, Base(loop)) = <<>>
    BY <1>2 DEF Rest
  <2>2. Due(loop, value, buffer, curr) = <<>> \o Stored(buffer, curr)
    BY <2>1 DEF Due
  <2>3. Due(loop, value, buffer, curr) = Stored(buffer, curr)
    BY <1>7, <2>2, ConcatEmptySeq
  <2>4. out' \o Due(loop', value', buffer', curr') = out'
    <3>1. Due(loop', value', buffer', curr') = <<>>
      BY <1>2 DEF Due
    <3> QED
      BY <1>8, <3>1, ConcatEmptySeq
  <2> QED
    BY <1>2, <1>6, <2>3, <2>4
<1>10. PrintInv'
  BY <1>2 DEF MeantInv, PrintInv, DigitsFit, NumberInv
<1>11. PrintTyped'
  BY <1>2, <1>8 DEF MeantInv, PrintTyped
<1>12. Follows'
  BY <1>2, <1>9 DEF MeantInv, Follows
<1> QED
  BY <1>2, <1>10, <1>11, <1>12 DEF MeantInv, DigitsBehind, PrintsAsMeant

LEMMA NextMeantInv == MeantInv /\ [PrintNext]_printVars => MeantInv'
<1> SUFFICES ASSUME MeantInv, [PrintNext]_printVars PROVE MeantInv'
  OBVIOUS
<1>1. CASE Walk
  BY <1>1, WalkMeantInv, TextMeantInv, NumberMeantInv, EndMeantInv DEF Walk
<1>2. CASE loop = "d" /\ (Digit(DEC) \/ PrintDigit)
  <2>1. Base(loop) = DEC
    BY <1>2 DEF Base
  <2> QED
    BY <1>2, <2>1, DigitMeantInv, PrintDigitMeantInv
<1>3. CASE loop = "x" /\ (Digit(HEX) \/ PrintDigit)
  <2>1. Base(loop) = HEX
    BY <1>3 DEF Base
  <2> QED
    BY <1>3, <2>1, DigitMeantInv, PrintDigitMeantInv
<1>4. CASE UNCHANGED printVars
  <2>1. UNCHANGED <<who, format, at, flag, out, loop, value, buffer, curr, given>>
    BY <1>4 DEF printVars, number
  <2> QED
    BY <2>1 DEF MeantInv, PrintInv, DigitsFit, NumberInv, PrintTyped, DigitsBehind,
                Follows, PrintsAsMeant
<1> QED
  BY <1>1, <1>2, <1>3, <1>4
  DEF PrintNext, kprintf, printf, kprint_d, kprint_x, print_d, print_x

(***************************************************************************)
(* Whatever the format, well-formed or not, of any length, and whatever    *)
(* the arguments: both copies of printf print what the format means, and   *)
(* take the arguments that it has letters for, in turn.                    *)
(***************************************************************************)
THEOREM AlwaysPrintsAsMeant == PrintSpec => []PrintsAsMeant
<1>1. MeantInv => PrintsAsMeant
  BY DEF MeantInv
<1> QED
  BY InitMeantInv, NextMeantInv, <1>1, PTL DEF PrintSpec

-----------------------------------------------------------------------------
(***************************************************************************)
(* Debugger: the arrays on its stack.                                      *)
(***************************************************************************)
\* buf starts with the line as edited,
Holds ==
  /\ buf \in [0 .. BUF - 1 -> Char]
  /\ edited \in Seq(Char)
  /\ \A k \in 1 .. Len(edited) : k <= BUF => buf[k - 1] = edited[k]

Editing == pc = "line" => Holds /\ i \in -1 .. BUF /\ (i >= 0 => Len(edited) = i)

\* and has a NUL behind it when the line is read.
Entered ==
  pc = "command" => Holds /\ Len(edited) < BUF /\ buf[Len(edited)] = NUL

EditInv == Editing /\ Entered /\ OnlyTheLineSmashes

\* CString ends before the first NUL.
LEMMA CStringIs ==
  ASSUME NEW s \in Seq(Char), NEW f \in 1 .. Len(s) + 1,
         f = Len(s) + 1 \/ s[f] = NUL, \A j \in 1 .. f - 1 : s[j] # NUL
  PROVE  CString(s) = SubSeq(s, 1, f - 1)
<1>1. CASE f = Len(s) + 1
  <2>1. ~ \E k \in 1 .. Len(s) : s[k] = NUL
    BY <1>1
  <2>2. SubSeq(s, 1, f - 1) = s
    BY <1>1
  <2> QED
    BY <2>1, <2>2 DEF CString
<1>2. CASE f \in 1 .. Len(s)
  <2>1. s[f] = NUL
    BY <1>2
  <2>2. \A k \in 1 .. Len(s) :
          s[k] = NUL /\ (\A j \in 1 .. k - 1 : s[j] # NUL) => k = f
    <3> TAKE k \in 1 .. Len(s)
    <3> HAVE s[k] = NUL /\ \A j \in 1 .. k - 1 : s[j] # NUL
    <3>1. ~(k < f) /\ ~(f < k)
      BY <1>2, <2>1
    <3> QED
      BY <1>2, <3>1
  <2>3. (CHOOSE k \in 1 .. Len(s) :
           s[k] = NUL /\ \A j \in 1 .. k - 1 : s[j] # NUL) = f
    BY <1>2, <2>1, <2>2
  <2> QED
    BY <1>2, <2>1, <2>3 DEF CString
<1> QED
  BY <1>1, <1>2

\* There is a first NUL, or none.
LEMMA FirstNul ==
  ASSUME NEW s \in Seq(Char)
  PROVE  \E f \in 1 .. Len(s) + 1 :
           (f = Len(s) + 1 \/ s[f] = NUL) /\ \A j \in 1 .. f - 1 : s[j] # NUL
<1> DEFINE T == {k \in 1 .. Len(s) + 1 : k = Len(s) + 1 \/ s[k] = NUL}
<1>1. Len(s) + 1 \in T /\ T \subseteq Nat
  OBVIOUS
<1>2. PICK f \in T : \A j \in 0 .. f - 1 : j \notin T
  <2> HIDE DEF T
  <2> QED
    BY <1>1, FirstOf
<1>3. \A j \in 1 .. f - 1 : s[j] # NUL
  <2> TAKE j \in 1 .. f - 1
  <2>1. j \notin T /\ j \in 1 .. Len(s)
    BY <1>2
  <2> QED
    BY <2>1
<1> QED
  BY <1>2, <1>3

\* What the debugger takes for the line is the line.
LEMMA LineIs ==
  ASSUME Holds, Len(edited) < BUF, buf[Len(edited)] = NUL
  PROVE  line = CString(edited)
<1> DEFINE s == [k \in 1 .. BUF |-> buf[k - 1]]
           m == Len(edited)
<1>1. /\ BUF \in Nat /\ m \in Nat /\ m < BUF
      /\ edited \in Seq(Char)
  BY LengthAssumption DEF Holds
<1>2. s \in Seq(Char) /\ Len(s) = BUF
  BY <1>1 DEF Holds
<1>3. s[m + 1] = NUL /\ \A k \in 1 .. m : s[k] = edited[k]
  BY <1>1 DEF Holds
<1>4. PICK f \in 1 .. m + 1 :
        (f = m + 1 \/ edited[f] = NUL) /\ \A j \in 1 .. f - 1 : edited[j] # NUL
  BY <1>1, FirstNul
<1>5. CString(edited) = SubSeq(edited, 1, f - 1)
  BY <1>1, <1>4, CStringIs
<1>6. CString(s) = SubSeq(s, 1, f - 1)
  <2> HIDE DEF s, m
  <2>1. f \in 1 .. Len(s) + 1
    BY <1>1, <1>2
  <2>2. s[f] = NUL
    <3>1. CASE f = m + 1
      BY <1>3, <3>1
    <3>2. CASE f \in 1 .. m
      BY <1>1, <1>3, <1>4, <3>2
    <3> QED
      BY <1>1, <3>1, <3>2
  <2>3. ASSUME NEW j \in 1 .. f - 1 PROVE s[j] # NUL
    <3>1. j \in 1 .. m
      BY <1>1
    <3> QED
      BY <1>3, <1>4, <3>1
  <2> QED
    BY <1>2, <2>1, <2>2, <2>3, CStringIs
<1>7. SubSeq(s, 1, f - 1) = SubSeq(edited, 1, f - 1)
  <2> HIDE DEF s
  <2> QED
    BY <1>1, <1>2, <1>3, <1>4
<1> QED
  BY <1>5, <1>6, <1>7 DEF line


-----------------------------------------------------------------------------
\* The least of a set of numbers.
LEMMA MinIn ==
  ASSUME NEW T, T \subseteq Nat, T # {}
  PROVE  Min(T) \in T /\ \A k \in T : Min(T) <= k
<1>1. PICK k \in T : \A j \in 0 .. k - 1 : j \notin T
  BY FirstOf
<1>2. \A j \in T : k <= j
  BY <1>1
<1> QED
  BY <1>2 DEF Min

LEMMA WordEndIn ==
  ASSUME NEW s \in Seq(Char), NEW a
  PROVE  WordEnd(s, a) \in 1 .. Len(s) + 1
<1> DEFINE T == {k \in Separators(s) : a <= k} \cup {Len(s) + 1}
<1>1. T \subseteq 1 .. Len(s) + 1 /\ T # {}
  BY DEF Separators
<1>2. T \subseteq Nat
  BY <1>1
<1>3. Min(T) \in T
  <2> HIDE DEF T
  <2> QED
    BY <1>1, <1>2, MinIn
<1> QED
  BY <1>1, <1>3 DEF WordEnd

LEMMA SeparatorsFinite ==
  ASSUME NEW s \in Seq(Char)
  PROVE  Cardinality(Separators(s)) \in Nat
<1>1. IsFiniteSet(1 .. Len(s))
  BY FS_Interval
<1>2. IsFiniteSet(Separators(s))
  BY <1>1, FS_Subset DEF Separators
<1> QED
  BY <1>2, FS_CardinalityType

\* A word starts at some place.
LEMMA WordStartIn ==
  ASSUME NEW s \in Seq(Char), NEW w \in 0 .. Cardinality(Separators(s))
  PROVE  WordStart(s)[w] \in Nat \ {0}
<1> DEFINE S == Nat \ {0}
           F == [k \in Nat |-> [a \in S |-> WordEnd(s, a) + 1]]
           N == Cardinality(Separators(s))
           start == WordStart(s)
<1>1. N \in Nat
  BY SeparatorsFinite
<1>2. F \in [Nat -> [S -> S]] /\ 1 \in S
  BY WordEndIn
<1>3. PICK f : IsTable(f, S, 1, F, N)
  <2> HIDE DEF F, N, S
  <2> QED
    BY <1>1, <1>2, TableExists
<1>4. ASSUME NEW k \in 1 .. N PROVE f[k] = WordEnd(s, f[k - 1]) + 1
  <2>1. k - 1 \in 0 .. N
    BY <1>1
  <2>2. f[k - 1] \in S
    BY <1>3, <2>1 DEF IsTable
  <2>3. F[k][f[k - 1]] = WordEnd(s, f[k - 1]) + 1
    BY <2>2
  <2> HIDE DEF F, S
  <2> QED
    BY <1>3, <2>3 DEF IsTable
<1>5. f = [k \in 0 .. N |-> IF k = 0 THEN 1 ELSE WordEnd(s, f[k - 1]) + 1]
  <2> HIDE DEF N
  <2> QED
    BY <1>3, <1>4 DEF IsTable
<1>6. start = [k \in 0 .. N |-> IF k = 0 THEN 1 ELSE WordEnd(s, start[k - 1]) + 1]
  BY <1>5 DEF WordStart
<1>7. CASE w = 0
  BY <1>1, <1>6, <1>7
<1>8. CASE w > 0
  <2>1. start[w] = WordEnd(s, start[w - 1]) + 1
    <3>1. w \in 0 .. N /\ w # 0
      BY <1>8
    <3> HIDE DEF N, start
    <3> QED
      BY <1>6, <3>1
  <2> QED
    BY <2>1, WordEndIn
<1> QED
  BY <1>1, <1>7, <1>8


\* Words is a sequence of sequences.
LEMMA WordsAre ==
  ASSUME NEW s \in Seq(Char)
  PROVE  Words(s) \in Seq(Seq(Char)) /\ Len(Words(s)) > 0
<1>1. Cardinality(Separators(s)) \in Nat
  BY SeparatorsFinite
<1>2. ASSUME NEW w \in 1 .. Cardinality(Separators(s)) + 1
      PROVE  SubSeq(s, WordStart(s)[w - 1], WordEnd(s, WordStart(s)[w - 1]) - 1)
               \in Seq(Char)
  <2>1. w - 1 \in 0 .. Cardinality(Separators(s))
    BY <1>1
  <2>2. PICK a \in Nat \ {0} : a = WordStart(s)[w - 1]
    BY <2>1, WordStartIn
  <2>3. PICK b \in 1 .. Len(s) + 1 : b = WordEnd(s, a)
    BY WordEndIn
  <2>4. SubSeq(s, a, b - 1) \in Seq(Char)
    OBVIOUS
  <2> QED
    BY <2>2, <2>3, <2>4
<1>3. PICK c \in Nat : c = Cardinality(Separators(s)) + 1 /\ c > 0
  BY <1>1
<1>4. Words(s) = [w \in 1 .. c |->
        SubSeq(s, WordStart(s)[w - 1], WordEnd(s, WordStart(s)[w - 1]) - 1)]
  BY <1>3 DEF Words
<1>5. Words(s) \in [1 .. c -> Seq(Char)]
  BY <1>2, <1>3, <1>4
<1> QED
  BY <1>3, <1>5

LEMMA CStringIn ==
  ASSUME NEW s \in Seq(Char)
  PROVE  CString(s) \in Seq(Char)
<1>1. PICK f \in 1 .. Len(s) + 1 :
        (f = Len(s) + 1 \/ s[f] = NUL) /\ \A j \in 1 .. f - 1 : s[j] # NUL
  BY FirstNul
<1>2. CString(s) = SubSeq(s, 1, f - 1)
  BY <1>1, CStringIs
<1> QED
  BY <1>2

-----------------------------------------------------------------------------
\* What is shown does not smash, and is not a line.
LEMMA ShowKeeps ==
  ASSUME NEW what, NEW addr, Show(what, addr)
  PROVE  pc' \in {"shown", "faulted"}
  BY DEF Show, Tell

\* An address that is smashed has more digits than the array.
LEMMA ConvertedKeeps ==
  ASSUME NEW what, NEW in \in Seq(Char), ShowConverted(what, in)
  PROVE  \/ pc' \in {"shown", "faulted"}
         \/ Smash /\ Len(in) >= NUMS + 2
<1>1. CASE Len(ConvAddrDigits(in)) >= NUMS
  <2>1. Smash
    BY <1>1 DEF ShowConverted
  <2>2. Len(SubSeq(in, 3, Len(in))) >= NUMS /\ NUMS \in Nat /\ NUMS > 1
    BY <1>1, LengthAssumption DEF ConvAddrDigits
  <2>3. Len(in) >= NUMS + 2
    BY <2>2
  <2> QED
    BY <2>1, <2>3
<1>2. CASE ~(Len(ConvAddrDigits(in)) >= NUMS)
  BY <1>2, ShowKeeps DEF ShowConverted
<1> QED
  BY <1>1, <1>2

\* A command smashes only for the line's length.
LEMMA CommandKeeps ==
  ASSUME EditInv, Command
  PROVE  EditInv'
<1> DEFINE ws == Words(CString(edited))
<1>1. line_words = ws /\ edited \in Seq(Char)
  BY LineIs DEF Command, EditInv, Entered, Holds, line_words
<1>2. ws \in Seq(Seq(Char)) /\ Len(ws) > 0
  BY <1>1, WordsAre, CStringIn
<1>3. \/ pc' \in {"out", "address", "shown", "faulted"}
      \/ Smash /\ (Len(ws) > WORDS \/ FullAddress(ws))
  <2> HIDE DEF ws
  <2>1. CASE Len(line_words) > WORDS
    BY <1>1, <2>1 DEF Command
  <2>2. CASE Continue \/ AskAddress \/ PrintStack \/ Usage
    BY <2>2 DEF Continue, AskAddress, PrintStack, Usage, Tell
  <2>3. CASE PrintString
    <3>1. CASE Len(ws) = 2
      BY <1>1, <2>3, <3>1 DEF PrintString, Tell
    <3>2. CASE Len(ws) # 2
      <4>1. 3 \in DOMAIN ws /\ ws[3] \in Seq(Char)
        <5>1. Len(ws) > 1
          BY <1>1, <2>3 DEF PrintString
        <5>2. DOMAIN ws = 1 .. Len(ws) /\ Len(ws) \in Nat
          BY <1>2
        <5>3. 3 \in DOMAIN ws
          BY <3>2, <5>1, <5>2
        <5> QED
          BY <1>2, <5>3
      <4>2. ShowConverted("string", ws[3])
        BY <1>1, <2>3, <3>2 DEF PrintString
      <4>3. 3 \in AddressWords(ws)
        BY <1>1, <2>3, <4>1 DEF PrintString, AddressWords
      <4> QED
        BY <4>1, <4>2, <4>3, ConvertedKeeps DEF FullAddress
    <3> QED
      BY <3>1, <3>2
  <2>4. CASE PrintAt
    <3>1. 2 \in DOMAIN ws /\ ws[2] \in Seq(Char)
      BY <1>1, <1>2, <2>4 DEF PrintAt
    <3>2. CASE ws[2] # <<>> /\ ws[2][1] = Zero
      <4>1. 2 \in AddressWords(ws)
        BY <1>1, <2>4, <3>1, <3>2 DEF PrintAt, AddressWords
      <4>2. ShowConverted("int", ws[2])
        BY <1>1, <2>4, <3>2 DEF PrintAt
      <4> QED
        BY <3>1, <4>1, <4>2, ConvertedKeeps DEF FullAddress
    <3>3. CASE ~(ws[2] # <<>> /\ ws[2][1] = Zero)
      BY <1>1, <2>4, <3>3 DEF PrintAt, Tell
    <3> QED
      BY <3>2, <3>3
  <2> QED
    BY <2>1, <2>2, <2>3, <2>4 DEF Command
<1>4. CASE pc' \in {"out", "address", "shown", "faulted"}
  BY <1>4 DEF EditInv, Editing, Entered, OnlyTheLineSmashes
<1>5. CASE Smash /\ (Len(ws) > WORDS \/ FullAddress(ws))
  <2>1. pc' = "smashed" /\ edited' = edited
    BY <1>5 DEF Smash
  <2> QED
    BY <1>5, <2>1 DEF EditInv, Editing, Entered, OnlyTheLineSmashes
<1> QED
  BY <1>3, <1>4, <1>5


-----------------------------------------------------------------------------
\* A line is begun.
LEMMA InitEditInv == DebugInit => EditInv
  BY DEF DebugInit, EditInv, Editing, Entered, OnlyTheLineSmashes

\* Where the buffer ends or has not begun, a character smashes.
LEMMA SmashKeeps ==
  ASSUME EditInv, pc = "line", ~InBuf, Smash
  PROVE  EditInv'
<1>1. pc' = "smashed" /\ i' = i /\ edited' = edited
  BY DEF Smash
<1>2. i < 0 \/ Len(edited) = BUF
  BY LengthAssumption DEF EditInv, Editing, InBuf
<1> QED
  BY <1>1, <1>2 DEF EditInv, Editing, Entered, OnlyTheLineSmashes

LEMMA CharacterKeeps ==
  ASSUME EditInv, NEW ch \in Char, Character(ch)
  PROVE  EditInv'
<1>1. pc = "line" /\ Holds /\ i \in -1 .. BUF /\ (i >= 0 => Len(edited) = i)
  BY DEF Character, EditInv, Editing
<1>2. CASE ~InBuf
  BY <1>2, SmashKeeps DEF Character
<1>3. CASE InBuf
  <2>1. /\ i \in 0 .. BUF - 1 /\ BUF \in Nat
        /\ buf' = [buf EXCEPT ![i] = ch] /\ i' = i + 1
        /\ edited' = Append(edited, ch) /\ pc' = "line"
    BY <1>1, <1>3, LengthAssumption DEF Character, InBuf
  <2>2. /\ edited \in Seq(Char) /\ Len(edited) = i
        /\ buf \in [0 .. BUF - 1 -> Char]
        /\ \A k \in 1 .. Len(edited) : k <= BUF => buf[k - 1] = edited[k]
    BY <1>1, <2>1 DEF Holds
  <2>3. edited' \in Seq(Char) /\ Len(edited') = i + 1
    BY <2>1, <2>2
  <2>4. buf' \in [0 .. BUF - 1 -> Char]
    BY <2>1, <2>2
  <2>5. ASSUME NEW k \in 1 .. i + 1 PROVE buf'[k - 1] = edited'[k]
    <3>1. CASE k = i + 1
      BY <2>1, <2>2, <3>1
    <3>2. CASE k # i + 1
      <4>1. k \in 1 .. i /\ k - 1 \in 0 .. BUF - 1 /\ k - 1 # i
        BY <2>1, <3>2
      <4>2. buf'[k - 1] = buf[k - 1] /\ edited'[k] = edited[k]
        BY <2>1, <2>2, <4>1
      <4> QED
        BY <2>1, <2>2, <4>1, <4>2
    <3> QED
      BY <3>1, <3>2
  <2> QED
    BY <2>1, <2>3, <2>4, <2>5 DEF EditInv, Editing, Entered, Holds, OnlyTheLineSmashes
<1> QED
  BY <1>2, <1>3

LEMMA BackspaceKeeps ==
  ASSUME EditInv, Backspace
  PROVE  EditInv'
<1>1. /\ pc = "line" /\ i >= 0 /\ Holds /\ i \in -1 .. BUF /\ Len(edited) = i
      /\ pc' = "line" /\ i' = i - 1 /\ buf' = buf
      /\ edited' = SubSeq(edited, 1, Len(edited) - 1)
  BY DEF Backspace, EditInv, Editing
<1>2. /\ edited \in Seq(Char) /\ BUF \in Nat
      /\ buf \in [0 .. BUF - 1 -> Char]
      /\ \A k \in 1 .. Len(edited) : k <= BUF => buf[k - 1] = edited[k]
  BY <1>1, LengthAssumption DEF Holds
<1>3. /\ edited' \in Seq(Char)
      /\ i > 0 => Len(edited') = i - 1
      /\ \A k \in 1 .. Len(edited') : k \in 1 .. Len(edited) /\ edited'[k] = edited[k]
  BY <1>1, <1>2
<1>4. \A k \in 1 .. Len(edited') : k <= BUF => buf'[k - 1] = edited'[k]
  BY <1>1, <1>2, <1>3
<1> QED
  BY <1>1, <1>2, <1>3, <1>4 DEF EditInv, Editing, Entered, Holds, OnlyTheLineSmashes

LEMMA NewlineKeeps ==
  ASSUME EditInv, Newline
  PROVE  EditInv'
<1>1. pc = "line" /\ Holds /\ i \in -1 .. BUF /\ (i >= 0 => Len(edited) = i)
  BY DEF Newline, EditInv, Editing
<1>2. CASE ~InBuf
  BY <1>1, <1>2, SmashKeeps DEF Newline
<1>3. CASE InBuf
  <2>1. /\ i \in 0 .. BUF - 1 /\ BUF \in Nat
        /\ buf' = [buf EXCEPT ![i] = NUL]
        /\ edited' = edited /\ pc' = "command"
    BY <1>1, <1>3, LengthAssumption DEF Newline, InBuf, Terminated
  <2>2. /\ edited \in Seq(Char) /\ Len(edited) = i
        /\ buf \in [0 .. BUF - 1 -> Char]
        /\ \A k \in 1 .. Len(edited) : k <= BUF => buf[k - 1] = edited[k]
    BY <1>1, <2>1 DEF Holds
  <2>3. NUL \in Char
    BY CharAssumption
  <2>4. buf' \in [0 .. BUF - 1 -> Char] /\ buf'[i] = NUL
    BY <2>1, <2>2, <2>3
  <2>5. \A k \in 1 .. i : buf'[k - 1] = edited[k]
    BY <2>1, <2>2
  <2> QED
    BY <2>1, <2>2, <2>4, <2>5 DEF EditInv, Editing, Entered, Holds, OnlyTheLineSmashes
<1> QED
  BY <1>2, <1>3

LEMMA NextEditInv == EditInv /\ [DebugNext]_debugVars => EditInv'
<1> SUFFICES ASSUME EditInv, [DebugNext]_debugVars PROVE EditInv'
  OBVIOUS
<1>1. CASE DebugLoop
  <2>1. /\ pc' = "line" /\ i' = 0 /\ edited' = <<>>
        /\ buf' = [k \in 0 .. BUF - 1 |-> NUL]
    BY <1>1 DEF DebugLoop, Empty
  <2>2. NUL \in Char /\ BUF \in Nat
    BY CharAssumption, LengthAssumption
  <2> QED
    BY <2>1, <2>2 DEF EditInv, Editing, Entered, Holds, OnlyTheLineSmashes
<1>2. CASE Backspace
  BY <1>2, BackspaceKeeps
<1>3. CASE \E ch \in Char : Character(ch)
  BY <1>3, CharacterKeeps
<1>4. CASE Newline
  BY <1>4, NewlineKeeps
<1>5. CASE Command
  BY <1>5, CommandKeeps
<1>6. CASE \E ch \in Char : AddressDigit(ch) \/ AddressEnd(ch)
  <2>1. pc' \in {"address", "shown", "faulted"}
    BY <1>6, ShowKeeps DEF AddressDigit, AddressEnd
  <2> QED
    BY <2>1 DEF EditInv, Editing, Entered, OnlyTheLineSmashes
<1>7. CASE UNCHANGED debugVars
  BY <1>7 DEF debugVars, EditInv, Editing, Entered, Holds, OnlyTheLineSmashes
<1> QED
  BY <1>1, <1>2, <1>3, <1>4, <1>5, <1>6, <1>7 DEF DebugNext

(***************************************************************************)
(* The debugger writes beside an array (debug.c:183, 196, 35) only after a *)
(* '\b' before the start of the line, or for a line that, as it stands,    *)
(* fills the buffer, has too many words, or names an address of as many    *)
(* digits as nums has places: whatever was typed, erased and typed again,  *)
(* and for arrays of any length.                                           *)
(***************************************************************************)
THEOREM DebuggerOnlyTheLineSmashes == DebugSpec => []OnlyTheLineSmashes
<1>1. EditInv => OnlyTheLineSmashes
  BY DEF EditInv
<1> QED
  BY InitEditInv, NextEditInv, <1>1, PTL DEF DebugSpec

-----------------------------------------------------------------------------
(***************************************************************************)
(* Debugger: what it shows.                                                *)
(***************************************************************************)
\* What is left of a value, digit by digit.
LEMMA LeftIs ==
  ASSUME NEW v \in Nat
  PROVE  /\ Left(v)[0] = v
         /\ \A k \in 1 .. NUMS : Left(v)[k] = Left(v)[k - 1] \div BASE
<1> DEFINE F == [k \in Nat |-> [x \in Nat |-> x \div BASE]]
           left == Left(v)
<1>1. NUMS \in Nat /\ BASE \in Nat /\ BASE > 0
  BY LengthAssumption
<1>2. F \in [Nat -> [Nat -> Nat]]
  BY <1>1, LastDigit
<1>3. PICK f : IsTable(f, Nat, v, F, NUMS)
  <2> HIDE DEF F
  <2> QED
    BY <1>1, <1>2, TableExists
<1>4. ASSUME NEW k \in 1 .. NUMS PROVE f[k] = f[k - 1] \div BASE
  <2>1. k - 1 \in 0 .. NUMS
    BY <1>1
  <2>2. f[k - 1] \in Nat
    BY <1>3, <2>1 DEF IsTable
  <2>3. F[k][f[k - 1]] = f[k - 1] \div BASE
    BY <2>2
  <2> HIDE DEF F
  <2> QED
    BY <1>3, <2>3 DEF IsTable
<1>5. f = [k \in 0 .. NUMS |-> IF k = 0 THEN v ELSE f[k - 1] \div BASE]
  BY <1>3, <1>4 DEF IsTable
<1>6. left = [k \in 0 .. NUMS |-> IF k = 0 THEN v ELSE left[k - 1] \div BASE]
  BY <1>5 DEF Left
<1> QED
  <2> HIDE DEF left
  <2>1. left[0] = v /\ \A k \in 1 .. NUMS : left[k] = left[k - 1] \div BASE
    BY <1>1, <1>6
  <2> QED
    BY <2>1 DEF left

\* Digits, as an address is typed with: an array full at most.
IsAddress(ds) == ds \in Seq(0 .. BASE - 1) /\ Len(ds) \in 1 .. NUMS

Prefixes(ds) == Sums(ds, BASE)

LEMMA AddressIs ==
  ASSUME NEW ds, IsAddress(ds)
  PROVE  /\ AddressOf(ds) = Prefixes(ds)[Len(ds)]
         /\ \A k \in 0 .. Len(ds) : Prefixes(ds)[k] \in Nat
         /\ Prefixes(ds)[0] = 0
         /\ \A k \in 1 .. Len(ds) :
              /\ Prefixes(ds)[k] = BASE * Prefixes(ds)[k - 1] + ds[k]
              /\ Prefixes(ds)[k] \div BASE = Prefixes(ds)[k - 1]
              /\ Prefixes(ds)[k] % BASE = ds[k]
<1>1. BASE \in Nat /\ BASE > 0 /\ ds \in Seq(Nat) /\ Len(ds) \in Nat
  BY LengthAssumption DEF IsAddress
<1>2. AddressOf(ds) = Prefixes(ds)[Len(ds)]
  BY DEF AddressOf, Prefixes, Sums
<1>3. /\ \A k \in 0 .. Len(ds) : Prefixes(ds)[k] \in Nat
      /\ Prefixes(ds)[0] = 0
  BY <1>1, SumsAre DEF Prefixes
<1>4. ASSUME NEW k \in 1 .. Len(ds)
      PROVE  /\ Prefixes(ds)[k] = BASE * Prefixes(ds)[k - 1] + ds[k]
             /\ Prefixes(ds)[k] \div BASE = Prefixes(ds)[k - 1]
             /\ Prefixes(ds)[k] % BASE = ds[k]
  <2>1. Prefixes(ds)[k] = BASE * Prefixes(ds)[k - 1] + ds[k]
    BY <1>1, SumsAre DEF Prefixes
  <2>2. k - 1 \in 0 .. Len(ds) /\ k \in 0 .. Len(ds)
    BY <1>1
  <2>3. ds[k] \in 0 .. BASE - 1
    <3>1. ds \in Seq(0 .. BASE - 1)
      BY DEF IsAddress
    <3> QED
      BY <1>1, <3>1
  <2>4. PICK p \in Nat, d \in 0 .. BASE - 1, v \in Nat :
          p = Prefixes(ds)[k - 1] /\ d = ds[k] /\ v = Prefixes(ds)[k]
    BY <1>3, <2>2, <2>3
  <2>5. v = BASE * p + d
    BY <2>1, <2>4
  <2>6. /\ v \div BASE \in Nat /\ v % BASE \in 0 .. BASE - 1
        /\ v = BASE * (v \div BASE) + (v % BASE)
    BY <1>1, LastDigit
  <2>7. p = v \div BASE /\ d = v % BASE
    <3>1. PICK q \in Nat, e \in 0 .. BASE - 1 : q = v \div BASE /\ e = v % BASE
      BY <2>6
    <3>2. BASE * p + d = BASE * q + e
      BY <2>5, <2>6, <3>1
    <3>3. p = q /\ d = e
      BY <1>1, <3>2, LastDigitIs
    <3> QED
      BY <3>1, <3>3
  <2> QED
    BY <2>1, <2>4, <2>7
<1> QED
  BY <1>2, <1>3, <1>4

\* What is left is what the digits not yet taken stand for.
LEMMA LeftOfAddress ==
  ASSUME NEW ds, IsAddress(ds), NEW j \in 0 .. Len(ds)
  PROVE  Left(AddressOf(ds))[j] = Prefixes(ds)[Len(ds) - j]
<1> DEFINE v == AddressOf(ds)
           N == Len(ds)
           T == {m \in Nat : m <= N => Left(v)[m] = Prefixes(ds)[N - m]}
<1>1. N \in Nat /\ NUMS \in Nat /\ N <= NUMS
  BY LengthAssumption DEF IsAddress
<1>2. v = Prefixes(ds)[N] /\ v \in Nat
  BY <1>1, AddressIs
<1>3. 0 \in T
  BY <1>1, <1>2, LeftIs
<1>4. ASSUME NEW m \in Nat, m \in T PROVE m + 1 \in T
  <2>1. CASE m + 1 <= N
    <3>1. /\ m + 1 \in 1 .. NUMS /\ (m + 1) - 1 = m
          /\ N - m \in 1 .. N /\ (N - m) - 1 = N - (m + 1)
      BY <1>1, <2>1
    <3>2. Left(v)[m + 1] = Left(v)[(m + 1) - 1] \div BASE
      <4> HIDE DEF v
      <4> QED
        BY <1>2, <3>1, LeftIs
    <3>3. Left(v)[m] = Prefixes(ds)[N - m]
      BY <1>1, <1>4, <2>1
    <3>4. Prefixes(ds)[N - m] \div BASE = Prefixes(ds)[(N - m) - 1]
      BY <3>1, AddressIs
    <3>5. Left(v)[m + 1] = Prefixes(ds)[N - (m + 1)]
      <4> HIDE DEF v, N
      <4> QED
        BY <3>1, <3>2, <3>3, <3>4
    <3> QED
      BY <3>5
  <2> QED
    BY <1>1, <2>1
<1>5. Nat \subseteq T
  <2> HIDE DEF T
  <2> QED
    BY <1>3, <1>4, EveryNumber
<1>6. j \in Nat /\ j <= N
  BY <1>1
<1> QED
  BY <1>5, <1>6

\* Digits are worth nothing as long as they are zeros.
LEMMA ZerosBefore ==
  ASSUME NEW ds, IsAddress(ds), NEW k \in 0 .. Len(ds),
         \A j \in 1 .. k : ds[j] = 0
  PROVE  Prefixes(ds)[k] = 0
<1> DEFINE T == {m \in Nat : m <= k => Prefixes(ds)[m] = 0}
<1>1. Len(ds) \in Nat /\ BASE \in Nat
  BY LengthAssumption DEF IsAddress
<1>2. 0 \in T
  BY AddressIs
<1>3. ASSUME NEW m \in Nat, m \in T PROVE m + 1 \in T
  <2>1. CASE m + 1 <= k
    <3>1. m + 1 \in 1 .. Len(ds) /\ m + 1 \in 1 .. k /\ (m + 1) - 1 = m
      BY <1>1, <2>1
    <3>2. Prefixes(ds)[m + 1] = BASE * Prefixes(ds)[(m + 1) - 1] + ds[m + 1]
      BY <3>1, AddressIs
    <3>3. ds[m + 1] = 0 /\ Prefixes(ds)[m] = 0 /\ BASE * 0 = 0
      BY <1>1, <1>3, <2>1, <3>1
    <3> QED
      BY <3>1, <3>2, <3>3
  <2> QED
    BY <2>1
<1>4. Nat \subseteq T
  <2> HIDE DEF T
  <2> QED
    BY <1>2, <1>3, EveryNumber
<1> QED
  BY <1>1, <1>4

LEMMA WorthFrom ==
  ASSUME NEW ds, IsAddress(ds), NEW p \in 1 .. Len(ds), ds[p] # 0,
         NEW k \in p .. Len(ds)
  PROVE  Prefixes(ds)[k] > 0
<1> DEFINE T == {m \in Nat : p + m <= Len(ds) => Prefixes(ds)[p + m] > 0}
<1>1. Len(ds) \in Nat /\ BASE \in Nat /\ BASE > 0
  BY LengthAssumption DEF IsAddress
<1>2. ASSUME NEW n \in 1 .. Len(ds), ds[n] > 0 \/ Prefixes(ds)[n - 1] > 0
      PROVE  Prefixes(ds)[n] > 0
  <2>1. n - 1 \in 0 .. Len(ds) /\ ds[n] \in Nat
    <3>1. ds \in Seq(0 .. BASE - 1)
      BY DEF IsAddress
    <3> QED
      BY <1>1, <3>1
  <2>2. PICK q \in Nat, d \in Nat : q = Prefixes(ds)[n - 1] /\ d = ds[n]
    BY <2>1, AddressIs
  <2>3. Prefixes(ds)[n] = BASE * q + d
    BY <2>2, AddressIs
  <2>4. BASE * q + d > 0
    <3>1. CASE q > 0
      <4>1. PICK m \in Nat : m = BASE * q
        BY <1>1
      <4>2. m > 0
        BY <1>1, <3>1, <4>1
      <4> QED
        BY <4>1, <4>2
    <3>2. CASE q = 0
      <4>1. BASE * q = 0 /\ d > 0
        BY <1>1, <1>2, <2>2, <3>2
      <4> QED
        BY <4>1
    <3> QED
      BY <3>1, <3>2
  <2> QED
    BY <2>3, <2>4
<1>3. 0 \in T
  <2>1. ds[p] > 0
    <3>1. ds \in Seq(0 .. BASE - 1)
      BY DEF IsAddress
    <3>2. ds[p] \in 0 .. BASE - 1
      BY <1>1, <3>1
    <3> QED
      BY <1>1, <3>2
  <2> QED
    BY <1>1, <1>2, <2>1
<1>4. ASSUME NEW m \in Nat, m \in T PROVE m + 1 \in T
  <2>1. CASE p + (m + 1) <= Len(ds)
    <3>1. p + (m + 1) \in 1 .. Len(ds) /\ (p + (m + 1)) - 1 = p + m /\ p + m <= Len(ds)
      BY <1>1, <2>1
    <3>2. Prefixes(ds)[p + m] > 0
      BY <1>4, <3>1
    <3> QED
      BY <1>2, <3>1, <3>2
  <2> QED
    BY <2>1
<1>5. Nat \subseteq T
  <2> HIDE DEF T
  <2> QED
    BY <1>3, <1>4, EveryNumber
<1>6. k - p \in Nat /\ p + (k - p) = k /\ k <= Len(ds)
  BY <1>1
<1>7. k - p \in T
  <2> HIDE DEF T
  <2> QED
    BY <1>5, <1>6
<1> QED
  BY <1>6, <1>7

\* kprint_x prints a typed address as it was typed, without the leading zeros.
LEMMA HexDigitsAre ==
  ASSUME NEW ds, IsAddress(ds)
  PROVE  HexDigits(AddressOf(ds)) = Significant(ds)
<1> DEFINE v == AddressOf(ds)
           N == Len(ds)
           Ends == {k \in 1 .. NUMS : Left(v)[k] = 0}
           len == Min(Ends)
<1>1. /\ ds \in Seq(0 .. BASE - 1) /\ N \in 1 .. NUMS /\ NUMS \in Nat /\ BASE \in Nat
      /\ BASE > 0
  BY LengthAssumption DEF IsAddress
<1>2. HexDigits(v) = [k \in 1 .. len |-> Left(v)[len - k] % BASE]
  BY DEF HexDigits
<1>3. Ends \subseteq Nat
  OBVIOUS
<1>4. ASSUME NEW n \in Ends, \A j \in 1 .. n - 1 : Left(v)[j] # 0
      PROVE  len = n
  <2> HIDE DEF v
  <2>1. len \in Ends /\ \A k \in Ends : len <= k
    <3> HIDE DEF Ends
    <3> QED
      BY <1>3, <1>4, MinIn
  <2>2. len <= n /\ len \in 1 .. NUMS /\ Left(v)[len] = 0
    BY <2>1
  <2>3. n \in 1 .. NUMS
    OBVIOUS
  <2> HIDE DEF len, Ends
  <2>4. ~(len < n)
    BY <1>1, <1>4, <2>2, <2>3
  <2> QED
    BY <2>2, <2>3, <2>4
<1>5. CASE \A k \in 1 .. N : ds[k] = 0
  <2>1. \A k \in 0 .. N : Prefixes(ds)[k] = 0
    BY <1>1, <1>5, ZerosBefore
  <2>2. Left(v)[0] = 0 /\ Left(v)[1] = 0
    <3>1. /\ 0 \in 0 .. N /\ 1 \in 0 .. N
          /\ N - 0 \in 0 .. N /\ N - 1 \in 0 .. N
      BY <1>1
    <3>2. Left(v)[0] = Prefixes(ds)[N - 0] /\ Left(v)[1] = Prefixes(ds)[N - 1]
      BY <3>1, LeftOfAddress
    <3> HIDE DEF v
    <3> QED
      BY <2>1, <3>1, <3>2
  <2>3. len = 1
    <3>1. 1 \in Ends
      <4> HIDE DEF v
      <4> QED
        BY <1>1, <2>2
    <3> HIDE DEF v, len, Ends
    <3> QED
      BY <1>4, <3>1
  <2>4. 0 % BASE = 0
    BY <1>1
  <2>5. HexDigits(v) = <<0>>
    <3> HIDE DEF v, len
    <3> QED
      BY <1>2, <2>2, <2>3, <2>4
  <2>6. Significant(ds) = <<0>>
    BY <1>5 DEF Significant
  <2> QED
    BY <2>5, <2>6
<1>6. CASE ~ \A k \in 1 .. N : ds[k] = 0
  <2> DEFINE T == {k \in 1 .. N : ds[k] # 0}
  <2>1. PICK p \in 1 .. N : ds[p] # 0 /\ \A j \in 1 .. p - 1 : ds[j] = 0
    <3>1. T # {} /\ T \subseteq Nat
      BY <1>6
    <3>2. PICK p \in T : \A j \in 0 .. p - 1 : j \notin T
      <4> HIDE DEF T
      <4> QED
        BY <3>1, FirstOf
    <3>3. p \in 1 .. N /\ ds[p] # 0
      BY <3>2
    <3>4. \A j \in 1 .. p - 1 : ds[j] = 0
      <4> TAKE j \in 1 .. p - 1
      <4>1. j \notin T /\ j \in 1 .. N
        BY <1>1, <3>2, <3>3
      <4> QED
        BY <4>1
    <3> QED
      BY <3>3, <3>4
  <2>2. Significant(ds) = SubSeq(ds, p, N)
    <3>1. \A k \in 1 .. N :
            ds[k] # 0 /\ (\A j \in 1 .. k - 1 : ds[j] = 0) => k = p
      <4> TAKE k \in 1 .. N
      <4> HAVE ds[k] # 0 /\ \A j \in 1 .. k - 1 : ds[j] = 0
      <4>1. ~(k < p) /\ ~(p < k)
        BY <1>1, <2>1
      <4> QED
        BY <1>1, <2>1, <4>1
    <3>2. (CHOOSE k \in 1 .. N :
             ds[k] # 0 /\ \A j \in 1 .. k - 1 : ds[j] = 0) = p
      BY <2>1, <3>1
    <3> QED
      BY <1>6, <3>2 DEF Significant
  <2> DEFINE n == (N - p) + 1
  <2>3. n \in 1 .. N /\ n \in 1 .. NUMS /\ N - n = p - 1 /\ p - 1 \in 0 .. N
    BY <1>1
  <2>4. n \in Ends
    <3>1. Prefixes(ds)[p - 1] = 0
      BY <2>1, <2>3, ZerosBefore
    <3>2. n \in 0 .. N
      BY <1>1, <2>3
    <3>3. Left(v)[n] = Prefixes(ds)[N - n]
      <4> HIDE DEF n, v
      <4> QED
        BY <3>2, LeftOfAddress DEF v
    <3> HIDE DEF v, n
    <3> QED
      BY <2>3, <3>1, <3>3
  <2>5. ASSUME NEW j \in 1 .. n - 1 PROVE Left(v)[j] # 0
    <3>1. j \in 0 .. N /\ N - j \in p .. N
      BY <1>1
    <3>2. Left(v)[j] = Prefixes(ds)[N - j]
      BY <3>1, LeftOfAddress
    <3>3. Prefixes(ds)[N - j] > 0
      BY <2>1, <3>1, WorthFrom
    <3> HIDE DEF v
    <3> QED
      BY <3>2, <3>3
  <2>6. len = n
    <3> HIDE DEF v, len, Ends, n
    <3> QED
      BY <1>4, <2>4, <2>5
  <2>7. ASSUME NEW k \in 1 .. n
        PROVE  Left(v)[n - k] % BASE = ds[p + k - 1]
    <3>1. n - k \in 0 .. N /\ N - (n - k) = p + k - 1 /\ p + k - 1 \in 1 .. N
      BY <1>1
    <3>2. Left(v)[n - k] = Prefixes(ds)[N - (n - k)]
      <4> HIDE DEF n
      <4> QED
        BY <3>1, LeftOfAddress
    <3>3. Prefixes(ds)[p + k - 1] % BASE = ds[p + k - 1]
      BY <3>1, AddressIs
    <3> HIDE DEF v, n
    <3> QED
      BY <3>1, <3>2, <3>3
  <2>8. SubSeq(ds, p, N) = [k \in 1 .. n |-> ds[p + k - 1]]
    BY <1>1, <2>1
  <2> QED
    <3> HIDE DEF v, n, len
    <3> QED
      BY <1>2, <2>2, <2>6, <2>7, <2>8 DEF v
<1> QED
  BY <1>5, <1>6

-----------------------------------------------------------------------------
\* Where print_string stops.
EndsAt(addr, a) ==
  /\ a \notin DOMAIN Memory \/ Memory[a] = NUL
  /\ \A m \in addr .. a - 1 : m \in DOMAIN Memory /\ Memory[m] # NUL

LEMMA StringAtIs ==
  ASSUME NEW addr \in Nat
  PROVE  \E a \in Nat : a >= addr /\ EndsAt(addr, a) /\ StringAt(addr) = addr .. a
<1> DEFINE size == Cardinality(DOMAIN Memory)
           T == {a \in Nat : a >= addr /\ (a \notin DOMAIN Memory \/ Memory[a] = NUL)}
<1>1. IsFiniteSet(DOMAIN Memory) /\ DOMAIN Memory \subseteq Nat
  BY MemoryAssumption
<1>2. size \in Nat
  BY <1>1, FS_CardinalityType
<1>3. PICK b \in addr .. addr + size : b \notin DOMAIN Memory
  <2>1. CASE addr .. addr + size \subseteq DOMAIN Memory
    <3>1. Cardinality(addr .. addr + size) <= size
      BY <1>1, <2>1, FS_Subset
    <3>2. addr + size \in Int /\ addr <= addr + size /\ (addr + size) - addr = size
      <4> HIDE DEF size
      <4> QED
        BY <1>2
    <3>3. Cardinality(addr .. addr + size) = ((addr + size) - addr) + 1
      <4> HIDE DEF size
      <4> QED
        BY <3>2, FS_Interval
    <3> HIDE DEF size
    <3> QED
      BY <1>2, <3>1, <3>2, <3>3
  <2> QED
    BY <2>1
<1>4. T \subseteq Nat /\ b \in T
  BY <1>2, <1>3
<1>5. PICK c \in T : \A j \in 0 .. c - 1 : j \notin T
  <2> HIDE DEF T
  <2> QED
    BY <1>4, FirstOf
<1>6. c <= b
  <2> HIDE DEF size
  <2>1. b \in Nat /\ c \in Nat
    BY <1>4, <1>5
  <2>2. ~(b < c)
    <3> HIDE DEF T
    <3> QED
      BY <1>4, <1>5, <2>1
  <2> QED
    BY <2>1, <2>2
<1>7. c \in addr .. addr + size
  <2> HIDE DEF size
  <2> QED
    BY <1>2, <1>3, <1>4, <1>5, <1>6
<1>8. EndsAt(addr, c)
  <2>1. c \notin DOMAIN Memory \/ Memory[c] = NUL
    BY <1>5
  <2>2. ASSUME NEW m \in addr .. c - 1 PROVE m \in DOMAIN Memory /\ Memory[m] # NUL
    <3>1. m \in 0 .. c - 1 /\ m \in Nat /\ m >= addr
      BY <1>5
    <3>2. m \notin T
      BY <1>5, <3>1
    <3> QED
      BY <3>1, <3>2
  <2> QED
    BY <2>1, <2>2 DEF EndsAt
<1>9. PICK a \in addr .. addr + size : EndsAt(addr, a) /\ StringAt(addr) = addr .. a
  BY <1>7, <1>8 DEF EndsAt, StringAt
<1>10. a \in Nat /\ a >= addr
  BY <1>2, <1>9
<1> QED
  BY <1>9, <1>10

\* How much is dumped, and that it ends with a NUL if it is a string.
LEMMA ExtentIs ==
  ASSUME NEW what, NEW addr \in Nat, Extent(what, addr) \subseteq DOMAIN Memory
  PROVE  \E n \in Nat :
           /\ Cardinality(Extent(what, addr)) = n
           /\ what = "string" =>
                /\ n > 0 /\ Memory[addr + n - 1] = NUL
                /\ \A k \in 1 .. n - 1 : Memory[addr + k - 1] # NUL
<1>1. CASE what = "string"
  <2>1. PICK a \in Nat : a >= addr /\ EndsAt(addr, a) /\ StringAt(addr) = addr .. a
    BY StringAtIs
  <2>2. Extent(what, addr) = addr .. a
    BY <1>1, <2>1 DEF Extent
  <2>3. Cardinality(addr .. a) = (a - addr) + 1
    BY <2>1, FS_Interval
  <2> DEFINE n == (a - addr) + 1
  <2>4. n \in Nat /\ n > 0 /\ addr + n - 1 = a
    BY <2>1
  <2>5. a \in DOMAIN Memory
    BY <2>1, <2>2
  <2>6. Memory[a] = NUL
    BY <2>1, <2>5 DEF EndsAt
  <2>7. ASSUME NEW k \in 1 .. n - 1 PROVE Memory[addr + k - 1] # NUL
    <3>1. addr + k - 1 \in addr .. a - 1
      BY <2>1
    <3> QED
      BY <2>1, <3>1 DEF EndsAt
  <2> HIDE DEF n
  <2>8. Cardinality(Extent(what, addr)) = n
    BY <2>2, <2>3 DEF n
  <2> QED
    BY <2>4, <2>6, <2>7, <2>8
<1>2. CASE what # "string"
  <2>1. SIZEOF_INT \in Nat
    BY MemoryAssumption
  <2>2. Extent(what, addr) = addr .. addr + SIZEOF_INT - 1
    BY <1>2 DEF Extent
  <2>3. addr + SIZEOF_INT - 1 \in Int
    BY <2>1
  <2>4. Cardinality(Extent(what, addr)) \in Nat
    BY <2>2, <2>3, FS_Interval, FS_CardinalityType
  <2> QED
    BY <1>2, <2>4
<1> QED
  BY <1>1, <1>2

\* A dump goes through memory.
IsRow(row, place, cols) ==
  /\ row.at = place
  /\ Len(row.vals) = cols /\ DOMAIN row.vals = 1 .. cols
  /\ \A k \in 1 .. cols : row.vals[k] = Memory[place + k - 1]

LEMMA DumpIs ==
  ASSUME NEW start \in Nat, NEW rows \in Nat, NEW cols \in Nat,
         NEW r \in 1 .. rows
  PROVE  IsRow(dump_mem(start, rows, cols)[r], start + cols * (r - 1), cols)
<1> DEFINE place == start + cols * (r - 1)
           vals == [j \in 1 .. cols |-> Memory[place + j - 1]]
<1>1. dump_mem(start, rows, cols)[r] = [at |-> place, vals |-> vals]
  BY DEF dump_mem
<1>2. Len(vals) = cols /\ DOMAIN vals = 1 .. cols
  OBVIOUS
<1>3. \A k \in 1 .. cols : vals[k] = Memory[place + k - 1]
  OBVIOUS
<1> QED
  <2> HIDE DEF vals, place
  <2>1. /\ dump_mem(start, rows, cols)[r].at = place
        /\ dump_mem(start, rows, cols)[r].vals = vals
    BY <1>1
  <2> QED
    BY <1>2, <1>3, <2>1 DEF place, IsRow

LEMMA DumpInMemory ==
  ASSUME NEW said, NEW from \in Nat, NEW rows \in Nat, NEW cols \in Nat,
         said.from = from, said.rows = dump_mem(from, rows, cols),
         said.what = "string" =>
           /\ rows = 1 /\ cols > 0 /\ Memory[from + cols - 1] = NUL
           /\ \A k \in 1 .. cols - 1 : Memory[from + k - 1] # NUL
  PROVE  AsInMemory(said)
<1> DEFINE first == said.rows[1].vals
<1>1. DOMAIN said.rows = 1 .. rows
  BY DEF dump_mem
<1>2. ASSUME NEW r \in DOMAIN said.rows
      PROVE  /\ said.rows[r].at = said.from + Len(first) * (r - 1)
             /\ Len(said.rows[r].vals) = Len(first)
             /\ \A k \in DOMAIN first : said.rows[r].vals[k] = Memory[said.rows[r].at + k - 1]
  <2>1. r \in 1 .. rows /\ 1 \in 1 .. rows
    BY <1>1
  <2>2. Len(first) = cols /\ DOMAIN first = 1 .. cols
    <3>1. IsRow(said.rows[1], from + cols * (1 - 1), cols)
      BY <2>1, DumpIs
    <3> QED
      BY <3>1 DEF IsRow
  <2>3. /\ said.rows[r].at = from + cols * (r - 1)
        /\ Len(said.rows[r].vals) = cols
        /\ \A k \in 1 .. cols : said.rows[r].vals[k] = Memory[said.rows[r].at + k - 1]
    <3>1. IsRow(said.rows[r], from + cols * (r - 1), cols)
      BY <2>1, DumpIs
    <3> QED
      BY <3>1 DEF IsRow
  <2> HIDE DEF first
  <2> QED
    BY <2>2, <2>3
<1>3. ASSUME said.what = "string"
      PROVE  /\ Len(said.rows) = 1
             /\ {k \in DOMAIN first : first[k] = NUL} = {Len(first)}
  <2>1. Len(said.rows) = 1
    BY <1>3 DEF dump_mem
  <2>2. /\ Len(first) = cols /\ DOMAIN first = 1 .. cols
        /\ \A k \in 1 .. cols : first[k] = Memory[said.rows[1].at + k - 1]
        /\ said.rows[1].at = from + cols * (1 - 1)
    <3>1. 1 \in 1 .. rows
      BY <1>3
    <3>2. IsRow(said.rows[1], from + cols * (1 - 1), cols)
      BY <3>1, DumpIs
    <3> QED
      BY <3>2 DEF IsRow
  <2>3. said.rows[1].at = from
    <3>1. cols * (1 - 1) = 0
      OBVIOUS
    <3> QED
      BY <2>2, <3>1
  <2>4. ASSUME NEW k \in 1 .. cols PROVE first[k] = NUL <=> k = cols
    <3>1. first[k] = Memory[from + k - 1]
      BY <2>2, <2>3
    <3>2. CASE k = cols
      BY <1>3, <3>1, <3>2
    <3>3. CASE k # cols
      <4>1. k \in 1 .. cols - 1
        BY <3>3
      <4> QED
        BY <1>3, <3>1, <3>3, <4>1
    <3> QED
      BY <3>2, <3>3
  <2>5. cols \in 1 .. cols
    BY <1>3
  <2> HIDE DEF first
  <2>6. {k \in DOMAIN first : first[k] = NUL} = {Len(first)}
    BY <2>2, <2>4, <2>5
  <2> QED
    BY <2>1, <2>6
<1> QED
  BY <1>2, <1>3 DEF AsInMemory

-----------------------------------------------------------------------------
\* The prompt: the array holds what the digits typed so far count, and zeros.
Prompted ==
  pc = "address" =>
    /\ edited \in Seq(Char) /\ curr_ind \in 0 .. NUMS /\ Len(edited) = curr_ind
    /\ nums \in [0 .. NUMS - 1 -> 0 .. BASE - 1]
    /\ \A k \in 1 .. curr_ind :
         edited[k] \in DOMAIN Translate => nums[k - 1] = Translate[edited[k]]
    /\ \A k \in curr_ind .. NUMS - 1 : nums[k] = 0

ShownInv == EditInv /\ Prompted /\ AddressShown

\* A function on the first numbers is a sequence.
LEMMA SequenceIs ==
  ASSUME NEW S, NEW n \in Nat, NEW f \in [1 .. n -> S]
  PROVE  f \in Seq(S) /\ Len(f) = n
  OBVIOUS

LEMMA AppendIs ==
  ASSUME NEW S, NEW s \in Seq(S), NEW n \in Nat, Len(s) = n, NEW e
  PROVE  Append(s, e) = [k \in 1 .. n + 1 |-> IF k = n + 1 THEN e ELSE s[k]]
<1> DEFINE a == Append(s, e)
           b == [k \in 1 .. n + 1 |-> IF k = n + 1 THEN e ELSE s[k]]
<1>1. a \in Seq(S \cup {e}) /\ Len(a) = n + 1
  OBVIOUS
<1>2. b \in Seq(S \cup {e}) /\ Len(b) = n + 1
  <2>1. b \in [1 .. n + 1 -> S \cup {e}]
    OBVIOUS
  <2> HIDE DEF b
  <2> QED
    BY <2>1, SequenceIs
<1>3. ASSUME NEW k \in 1 .. n + 1 PROVE a[k] = b[k]
  OBVIOUS
<1> HIDE DEF a, b
<1>4. a = b
  BY <1>1, <1>2, <1>3, SeqEqual
<1> QED
  BY <1>4 DEF a, b

LEMMA AddressIn ==
  ASSUME NEW ds \in Seq(0 .. BASE - 1)
  PROVE  AddressOf(ds) \in Nat
<1>1. BASE \in Nat /\ ds \in Seq(Nat) /\ Len(ds) \in 0 .. Len(ds)
  BY LengthAssumption
<1>2. AddressOf(ds) = Sums(ds, BASE)[Len(ds)]
  BY DEF AddressOf, Sums
<1> QED
  BY <1>1, <1>2, SumsAre

LEMMA ShowTells ==
  ASSUME NEW what \in {"int", "string", "typed"}, NEW addr \in Nat, Show(what, addr)
  PROVE  \/ answer' = answer
         \/ /\ AsInMemory(answer') /\ answer'.what = what
            /\ answer'.at = HexDigits(addr) /\ answer'.typed = edited
<1>1. CASE ~(Extent(what, addr) \subseteq DOMAIN Memory)
  BY <1>1 DEF Show
<1>2. CASE Extent(what, addr) \subseteq DOMAIN Memory
  <2>1. PICK n \in Nat :
          /\ Cardinality(Extent(what, addr)) = n
          /\ what = "string" =>
               /\ n > 0 /\ Memory[addr + n - 1] = NUL
               /\ \A k \in 1 .. n - 1 : Memory[addr + k - 1] # NUL
    BY <1>2, ExtentIs
  <2>2. answer' = [what |-> what, at |-> HexDigits(addr), from |-> addr,
                   typed |-> edited, rows |-> dump_mem(addr, 1, n)]
    BY <1>2, <2>1 DEF Show, Tell
  <2>3. /\ answer'.what = what /\ answer'.at = HexDigits(addr)
        /\ answer'.typed = edited /\ answer'.from = addr
        /\ answer'.rows = dump_mem(addr, 1, n)
    BY <2>2
  <2>4. AsInMemory(answer')
    BY <2>1, <2>3, DumpInMemory
  <2> QED
    BY <2>3, <2>4
<1> QED
  BY <1>1, <1>2

\* An address in a command, which is the word in.
LEMMA ConvertedShows ==
  ASSUME ShownInv, NEW what \in {"int", "string"}, NEW in \in Seq(Char),
         ShowConverted(what, in),
         LET asked == Words(CString(edited))
             which == IF what = "string" THEN 3 ELSE 2
         IN  Len(asked) >= which /\ asked[which] = in
  PROVE  AddressShown'
<1> DEFINE digits == ConvAddrDigits(in)
           counted(junk) == [k \in 1 .. Len(digits) |->
             IF digits[k] \in DOMAIN Translate THEN Translate[digits[k]] ELSE junk]
<1>1. CASE answer' = answer
  BY <1>1 DEF ShownInv, AddressShown
<1>2. CASE answer' # answer
  <2>1. Len(digits) < NUMS
    <3>1. ~(Len(digits) >= NUMS)
      BY <1>2 DEF ShowConverted, Smash
    <3>2. Len(digits) \in Nat /\ NUMS \in Nat
      BY LengthAssumption DEF ConvAddrDigits
    <3> QED
      BY <3>1, <3>2
  <2>2. PICK junk \in 0 .. 1 : Show(what, AddressOf(counted(junk)))
    BY <2>1, LengthAssumption DEF ShowConverted
  <2> DEFINE ds == counted(junk)
  <2>3. digits \in Seq(Char) /\ NUMS \in Nat /\ Len(digits) \in Nat
    BY LengthAssumption DEF ConvAddrDigits
  <2>4. ds \in Seq(0 .. BASE - 1) /\ Len(ds) = Len(digits)
    <3>1. \A ch \in DOMAIN Translate : Translate[ch] \in 0 .. BASE - 1
      BY CharAssumption
    <3>2. junk \in 0 .. BASE - 1
      BY LengthAssumption
    <3>3. ds \in [1 .. Len(digits) -> 0 .. BASE - 1]
      BY <3>1, <3>2
    <3> QED
      BY <2>3, <3>3
  <2>5. AddressOf(ds) \in Nat
    BY <2>4, AddressIn
  <2>6. /\ AsInMemory(answer') /\ answer'.what = what
        /\ answer'.at = HexDigits(AddressOf(ds)) /\ answer'.typed = edited
    <3> HIDE DEF ds
    <3>1. Show(what, AddressOf(ds))
      BY <2>2 DEF ds
    <3> QED
      BY <1>2, <2>5, <3>1, ShowTells
  <2>7. ASSUME IsNumber(in)
        PROVE  answer'.at = Significant(Digits(SubSeq(in, 3, Len(in))))
    <3>1. /\ Len(in) > 2 /\ digits = SubSeq(in, 3, Len(in))
          /\ \A k \in 1 .. Len(digits) : digits[k] \in DOMAIN Translate
      BY <2>7 DEF IsNumber, AllDigits, ConvAddrDigits
    <3>2. ds = Digits(digits)
      BY <3>1 DEF Digits
    <3>3. Len(digits) > 0
      BY <3>1
    <3>4. IsAddress(ds)
      BY <2>1, <2>3, <2>4, <3>3 DEF IsAddress
    <3>5. HexDigits(AddressOf(ds)) = Significant(ds)
      <4> HIDE DEF ds
      <4> QED
        BY <3>4, HexDigitsAre
    <3> HIDE DEF ds, digits
    <3> QED
      BY <2>6, <3>1, <3>2, <3>5
  <2>8. AsAsked(answer')
    <3> DEFINE asked == Words(CString(edited))
               which == IF what = "string" THEN 3 ELSE 2
    <3>1. Len(asked) >= which /\ asked[which] = in
      OBVIOUS
    <3>2. Len(in) < NUMS + 2
      BY <2>1, <2>3 DEF ConvAddrDigits
    <3> HIDE DEF asked
    <3> QED
      BY <2>6, <2>7, <3>1, <3>2 DEF AsAsked, asked
  <2>9. AsPrompted(answer')
    BY <2>6 DEF AsPrompted
  <2> QED
    BY <2>6, <2>8, <2>9 DEF AddressShown
<1> QED
  BY <1>1, <1>2

\* What is told without an address.
LEMMA ToldShows ==
  ASSUME NEW said, said.what \in {"nothing", "usage"}, answer' = said
  PROVE  AddressShown'
  BY DEF AddressShown, AsAsked, AsPrompted, AsInMemory

LEMMA StackShows ==
  ASSUME PrintStack
  PROVE  AddressShown'
<1>1. answer' = [what |-> "stack", from |-> Stack, rows |-> dump_mem(Stack, DUMP, DUMP)]
  BY DEF PrintStack, Tell
<1>2. /\ answer'.what = "stack" /\ answer'.from = Stack
      /\ answer'.rows = dump_mem(Stack, DUMP, DUMP)
  BY <1>1
<1>3. Stack \in Nat /\ DUMP \in Nat
  BY MemoryAssumption
<1>4. AsInMemory(answer')
  BY <1>2, <1>3, DumpInMemory
<1> QED
  BY <1>2, <1>4 DEF AddressShown, AsAsked, AsPrompted

LEMMA CommandShows ==
  ASSUME ShownInv, Command
  PROVE  AddressShown'
<1> DEFINE ws == Words(CString(edited))
<1>1. line_words = ws /\ edited \in Seq(Char)
  BY LineIs DEF Command, ShownInv, EditInv, Entered, Holds, line_words
<1>2. ws \in Seq(Seq(Char)) /\ Len(ws) > 0
  BY <1>1, WordsAre, CStringIn
<1>3. ASSUME answer' = answer PROVE AddressShown'
  BY <1>3 DEF ShownInv, AddressShown
<1>4. ASSUME Tell([what |-> "usage"]) PROVE AddressShown'
  <2>1. answer' = [what |-> "usage"] /\ [what |-> "usage"].what = "usage"
    BY <1>4 DEF Tell
  <2> QED
    BY <2>1, ToldShows
<1>5. CASE Smash \/ Continue \/ AskAddress
  BY <1>3, <1>5 DEF Smash, Continue, AskAddress
<1>6. CASE PrintStack
  BY <1>6, StackShows
<1>7. CASE Usage
  BY <1>4, <1>7 DEF Usage
<1>8. CASE PrintString
  <2>1. Len(ws) > 1 /\ Len(ws) \in Nat
    BY <1>1, <1>2, <1>8 DEF PrintString
  <2>2. CASE Len(ws) = 2
    BY <1>1, <1>4, <1>8, <2>2 DEF PrintString
  <2>3. CASE Len(ws) # 2
    <3>1. Len(ws) >= 3
      <4>1. PICK l \in Nat : l = Len(ws)
        BY <2>1
      <4>2. l > 1 /\ l # 2
        BY <2>1, <2>3, <4>1
      <4> QED
        BY <4>1, <4>2
    <3>2. ws[3] \in Seq(Char) /\ ShowConverted("string", ws[3])
      <4>1. ShowConverted("string", ws[3])
        BY <1>1, <1>8, <2>3 DEF PrintString
      <4> HIDE DEF ws
      <4> QED
        BY <1>2, <3>1, <4>1
    <3> QED
      BY <3>1, <3>2, ConvertedShows
  <2> QED
    BY <2>2, <2>3
<1>9. CASE PrintAt
  <2>1. Len(ws) > 1 /\ Len(ws) \in Nat
    BY <1>1, <1>2, <1>9 DEF PrintAt
  <2>2. CASE ShowConverted("int", ws[2])
    <3>1. Len(ws) >= 2
      BY <2>1
    <3>2. ws[2] \in Seq(Char)
      <4> HIDE DEF ws
      <4> QED
        BY <1>2, <3>1
    <3> QED
      BY <2>2, <3>1, <3>2, ConvertedShows
  <2> QED
    BY <1>1, <1>4, <1>9, <2>2 DEF PrintAt
<1> QED
  BY <1>5, <1>6, <1>7, <1>8, <1>9 DEF Command

\* The end of the prompt.
LEMMA AddressEndShows ==
  ASSUME ShownInv, NEW ch \in Char, AddressEnd(ch)
  PROVE  AddressShown'
<1> DEFINE last == IF AddressFull THEN NUMS - 1 ELSE curr_ind
           ds == [k \in 1 .. last + 1 |-> nums[k - 1]]
<1>1. /\ edited \in Seq(Char) /\ curr_ind \in 0 .. NUMS /\ Len(edited) = curr_ind
      /\ nums \in [0 .. NUMS - 1 -> 0 .. BASE - 1]
      /\ \A k \in 1 .. curr_ind :
           edited[k] \in DOMAIN Translate => nums[k - 1] = Translate[edited[k]]
      /\ \A k \in curr_ind .. NUMS - 1 : nums[k] = 0
  BY DEF AddressEnd, ShownInv, Prompted
<1>2. NUMS \in Nat /\ NUMS > 1
  BY LengthAssumption
<1>3. last \in 0 .. NUMS - 1
  BY <1>1, <1>2 DEF AddressFull
<1>4. ds \in Seq(0 .. BASE - 1) /\ Len(ds) = last + 1
  <2> HIDE DEF last
  <2>1. PICK n \in Nat : n = last + 1
    BY <1>2, <1>3
  <2>2. ds \in [1 .. n -> 0 .. BASE - 1]
    BY <1>1, <1>2, <1>3, <2>1
  <2>3. ds \in Seq(0 .. BASE - 1) /\ Len(ds) = n
    <3> HIDE DEF ds
    <3> QED
      BY <2>2, SequenceIs
  <2> QED
    BY <2>1, <2>3
<1>5. Show("typed", AddressOf(ds)) /\ AddressOf(ds) \in Nat
  <2>1. Show("typed", AddressOf(ds))
    BY DEF AddressEnd
  <2> QED
    BY <1>4, <2>1, AddressIn
<1>6. CASE answer' = answer
  BY <1>6 DEF ShownInv, AddressShown
<1>7. CASE answer' # answer
  <2>1. /\ AsInMemory(answer') /\ answer'.what = "typed"
        /\ answer'.at = HexDigits(AddressOf(ds)) /\ answer'.typed = edited
    <3> HIDE DEF ds
    <3> QED
      BY <1>5, <1>7, ShowTells
  <2>2. ASSUME Len(edited) = NUMS, AllDigits(edited)
        PROVE  answer'.at = Significant(Digits(edited))
    <3>1. curr_ind = NUMS /\ last = NUMS - 1
      BY <1>1, <2>2 DEF AddressFull
    <3>2. ASSUME NEW k \in 1 .. NUMS PROVE nums[k - 1] = Translate[edited[k]]
      BY <1>1, <2>2, <3>1 DEF AllDigits
    <3>3. ds = Digits(edited)
      <4> HIDE DEF last
      <4>1. last + 1 = NUMS
        BY <1>2, <3>1
      <4> QED
        BY <2>2, <3>2, <4>1 DEF Digits
    <3>4. IsAddress(ds)
      <4> HIDE DEF last
      <4> QED
        BY <1>2, <1>3, <1>4 DEF IsAddress
    <3> HIDE DEF ds
    <3> QED
      BY <2>1, <3>3, <3>4, HexDigitsAre
  <2>3. ASSUME Len(edited) # NUMS, AllDigits(edited)
        PROVE  answer'.at = Significant(Append(Digits(edited), 0))
    <3>1. last = curr_ind /\ curr_ind \in 0 .. NUMS - 1
      BY <1>1, <1>2, <2>3 DEF AddressFull
    <3>2. ASSUME NEW k \in 1 .. curr_ind PROVE nums[k - 1] = Translate[edited[k]]
      BY <1>1, <2>3 DEF AllDigits
    <3>3. nums[curr_ind] = 0
      BY <1>1, <3>1
    <3>4. ds = Append(Digits(edited), 0)
      <4>1. ds = [k \in 1 .. curr_ind + 1 |-> nums[k - 1]]
        BY <3>1
      <4>2. /\ Digits(edited) \in Seq(0 .. BASE - 1)
            /\ Len(Digits(edited)) = curr_ind /\ curr_ind \in Nat
        <5>1. ASSUME NEW k \in 1 .. curr_ind PROVE Translate[edited[k]] \in 0 .. BASE - 1
          BY <1>1, <2>3, CharAssumption DEF AllDigits
        <5>2. curr_ind \in Nat
          BY <3>1
        <5>3. Digits(edited) \in [1 .. curr_ind -> 0 .. BASE - 1]
          BY <1>1, <5>1 DEF Digits
        <5> HIDE DEF ds
        <5> QED
          BY <5>2, <5>3, SequenceIs
      <4>3. Append(Digits(edited), 0) =
              [k \in 1 .. curr_ind + 1 |->
                 IF k = curr_ind + 1 THEN 0 ELSE Digits(edited)[k]]
        BY <4>2, AppendIs
      <4>4. ASSUME NEW k \in 1 .. curr_ind + 1
            PROVE  nums[k - 1] = IF k = curr_ind + 1 THEN 0 ELSE Digits(edited)[k]
        <5>1. CASE k = curr_ind + 1
          BY <3>1, <3>3, <5>1
        <5>2. CASE k # curr_ind + 1
          <6>1. k \in 1 .. curr_ind
            BY <4>2, <5>2
          <6> QED
            BY <1>1, <3>2, <5>2, <6>1 DEF Digits
        <5> QED
          BY <5>1, <5>2
      <4> HIDE DEF ds
      <4> QED
        BY <4>1, <4>3, <4>4
    <3>5. IsAddress(ds)
      <4> HIDE DEF last
      <4> QED
        BY <1>2, <1>3, <1>4 DEF IsAddress
    <3> HIDE DEF ds
    <3> QED
      BY <2>1, <3>4, <3>5, HexDigitsAre
  <2> HIDE DEF ds
  <2>4. AsPrompted(answer')
    BY <2>1, <2>2, <2>3 DEF AsPrompted
  <2>5. AsAsked(answer')
    BY <2>1 DEF AsAsked
  <2> QED
    BY <2>1, <2>4, <2>5 DEF AddressShown
<1> QED
  BY <1>6, <1>7

\* The prompt goes on.
LEMMA DigitPrompted ==
  ASSUME Prompted, NEW ch \in Char, AddressDigit(ch)
  PROVE  Prompted'
<1>1. /\ pc = "address" /\ pc' = pc
      /\ edited \in Seq(Char) /\ curr_ind \in 0 .. NUMS /\ Len(edited) = curr_ind
      /\ nums \in [0 .. NUMS - 1 -> 0 .. BASE - 1]
      /\ \A k \in 1 .. curr_ind :
           edited[k] \in DOMAIN Translate => nums[k - 1] = Translate[edited[k]]
      /\ \A k \in curr_ind .. NUMS - 1 : nums[k] = 0
  BY DEF AddressDigit, Prompted
<1>2. NUMS \in Nat
  BY LengthAssumption
<1>3. curr_ind \in 0 .. NUMS - 1 /\ curr_ind' = curr_ind + 1 /\ curr_ind' \in 0 .. NUMS
  BY <1>1, <1>2 DEF AddressDigit, AddressFull
<1>4. /\ edited' = Append(edited, ch) /\ edited' \in Seq(Char)
      /\ Len(edited') = curr_ind'
      /\ edited'[curr_ind + 1] = ch
      /\ \A k \in 1 .. curr_ind : edited'[k] = edited[k]
  BY <1>1, <1>3 DEF AddressDigit
<1>5. /\ nums' = IF ch \in DOMAIN Translate
                 THEN [nums EXCEPT ![curr_ind] = Translate[ch]] ELSE nums
      /\ ch \in DOMAIN Translate => Translate[ch] \in 0 .. BASE - 1
  BY CharAssumption DEF AddressDigit
<1>6. nums' \in [0 .. NUMS - 1 -> 0 .. BASE - 1]
  BY <1>1, <1>3, <1>5
<1>7. ASSUME NEW k \in 1 .. curr_ind', edited'[k] \in DOMAIN Translate
      PROVE  nums'[k - 1] = Translate[edited'[k]]
  <2>1. CASE k = curr_ind + 1
    <3>1. k - 1 = curr_ind /\ edited'[k] = ch
      BY <1>3, <1>4, <2>1
    <3> QED
      BY <1>1, <1>3, <1>5, <1>7, <3>1
  <2>2. CASE k # curr_ind + 1
    <3>1. k \in 1 .. curr_ind /\ k - 1 # curr_ind /\ k - 1 \in 0 .. NUMS - 1
      BY <1>2, <1>3, <2>2
    <3>2. nums'[k - 1] = nums[k - 1] /\ edited'[k] = edited[k]
      BY <1>1, <1>3, <1>4, <1>5, <3>1
    <3> QED
      BY <1>1, <1>7, <3>1, <3>2
  <2> QED
    BY <2>1, <2>2
<1>8. ASSUME NEW k \in curr_ind' .. NUMS - 1 PROVE nums'[k] = 0
  <2>1. k # curr_ind /\ k \in curr_ind .. NUMS - 1 /\ k \in 0 .. NUMS - 1
    BY <1>2, <1>3
  <2>2. nums'[k] = nums[k]
    BY <1>1, <1>5, <2>1
  <2> QED
    BY <1>1, <2>1, <2>2
<1> QED
  BY <1>1, <1>3, <1>4, <1>6, <1>7, <1>8 DEF Prompted

LEMMA InitShownInv == DebugInit => ShownInv
<1> SUFFICES ASSUME DebugInit PROVE ShownInv
  OBVIOUS
<1>1. answer.what = "nothing" /\ pc = "out"
  BY DEF DebugInit, Nothing
<1> QED
  BY <1>1, InitEditInv
     DEF ShownInv, Prompted, AddressShown, AsAsked, AsPrompted, AsInMemory

LEMMA NextShownInv == ShownInv /\ [DebugNext]_debugVars => ShownInv'
<1> SUFFICES ASSUME ShownInv, [DebugNext]_debugVars PROVE ShownInv'
  OBVIOUS
<1>1. EditInv'
  BY NextEditInv DEF ShownInv
<1>2. ASSUME answer' = answer PROVE AddressShown'
  BY <1>2 DEF ShownInv, AddressShown
<1>3. ASSUME pc' # "address" PROVE Prompted'
  BY <1>3 DEF Prompted
<1>4. CASE DebugLoop
  <2>1. pc' = "line" /\ answer' = [what |-> "nothing"]
    BY <1>4 DEF DebugLoop, Nothing
  <2>2. [what |-> "nothing"].what = "nothing"
    OBVIOUS
  <2> QED
    BY <1>1, <1>3, <2>1, <2>2, ToldShows DEF ShownInv
<1>5. CASE Backspace \/ (\E ch \in Char : Character(ch)) \/ Newline
  <2>1. answer' = answer /\ pc' # "address"
    BY <1>5 DEF Backspace, Character, Newline, Smash
  <2> QED
    BY <1>1, <1>2, <1>3, <2>1 DEF ShownInv
<1>6. CASE Command
  <2>1. AddressShown'
    BY <1>6, CommandShows
  <2>2. CASE AskAddress
    <3>1. edited' = <<>> /\ curr_ind' = 0 /\ nums' = [k \in 0 .. NUMS - 1 |-> 0]
      BY <2>2 DEF AskAddress, NoNums
    <3>2. NUMS \in Nat /\ 0 \in 0 .. BASE - 1
      BY LengthAssumption
    <3>3. Prompted'
      BY <3>1, <3>2 DEF Prompted
    <3> QED
      BY <1>1, <2>1, <3>3 DEF ShownInv
  <2>3. CASE ~AskAddress
    <3>1. pc' # "address"
      BY <1>6, <2>3 DEF Command, Smash, Continue, PrintStack, PrintString, PrintAt,
           Usage, Tell, ShowConverted, Show
    <3> QED
      BY <1>1, <1>3, <2>1, <3>1 DEF ShownInv
  <2> QED
    BY <2>2, <2>3
<1>7. ASSUME NEW ch \in Char, AddressDigit(ch) PROVE ShownInv'
  <2>1. Prompted' /\ answer' = answer
    BY <1>7, DigitPrompted DEF ShownInv, AddressDigit
  <2> QED
    BY <1>1, <1>2, <2>1 DEF ShownInv
<1>8. ASSUME NEW ch \in Char, AddressEnd(ch) PROVE ShownInv'
  <2>1. AddressShown'
    BY <1>8, AddressEndShows
  <2>2. pc' \in {"shown", "faulted"}
    BY <1>8, ShowKeeps DEF AddressEnd
  <2> QED
    BY <1>1, <1>3, <2>1, <2>2 DEF ShownInv
<1>9. CASE UNCHANGED debugVars
  <2>1. UNCHANGED <<pc, edited, nums, curr_ind, answer>>
    BY <1>9 DEF debugVars
  <2>2. Prompted'
    BY <2>1 DEF ShownInv, Prompted
  <2> QED
    BY <1>1, <1>2, <2>1, <2>2 DEF ShownInv
<1> QED
  BY <1>4, <1>5, <1>6, <1>7, <1>8, <1>9 DEF DebugNext

(***************************************************************************)
(* The memory that the debugger shows (debug.c:29-94, 164-242), and its    *)
(* address: the one in the line, as it was edited, which has less than     *)
(* full length; the one at the prompt, if it has full length, and          *)
(* otherwise the one with a digit zero more that get_addr makes of it.     *)
(* The address is printed without leading zeros, and the memory row by     *)
(* row, for lines, words and addresses of any length and whatever memory   *)
(* can be read.                                                            *)
(***************************************************************************)
THEOREM DebuggerAddressShown == DebugSpec => []AddressShown
<1>1. ShownInv => AddressShown
  BY DEF ShownInv
<1> QED
  BY InitShownInv, NextShownInv, <1>1, PTL DEF DebugSpec

=============================================================================
