-------------------------- MODULE InterruptsProofs --------------------------
(***************************************************************************)
(* Proofs about Interrupts, for a ring of any length below 65535, any      *)
(* characters and any number of scan codes in the keyboard.                *)
(*                                                                         *)
(* What is proved rests on the shape of the stack of contexts.  A place    *)
(* determines the interrupt flag its context runs with, which is either IF *)
(* or the flag that the context above will restore; with the flag off, or  *)
(* everything masked, nothing comes on top, so a handler is always on top. *)
(***************************************************************************)
EXTENDS Interrupts, FiniteSetTheorems, TLAPS

Context == [at : Places, flag : BOOLEAN, val : Char]

\* Where the outermost context is, the one on top of it, and a third one.
Ground ==
  {"gdt_setup", "idt_setup", "pic_init", "mask", "sti", "unmask", "break",
   "execute_mod", "user"}
Nested ==
  {"syscall", "kgetc", "debug_loop", "exception1", "halt", "misread"}
    \cup HandlerPlaces
Deepest == {"halt"} \cup HandlerPlaces

\* Places that run with the interrupt flag off, and with it on.  Halted
\* handlers are at either: vector 4 has a trap gate.
Deaf ==
  {"gdt_setup", "idt_setup", "pic_init", "mask", "sti", "exception1"}
    \cup HandlerPlaces
Open ==
  {"unmask", "break", "execute_mod", "user", "syscall", "kgetc", "debug_loop"}

\* The interrupt flag of a context: IF on top, and below what was pushed.
FlagOf(k) == IF k = Top THEN intr ELSE frames[k + 1].flag

Levels ==
  /\ frames[1].at \in Ground
  /\ Top > 1 => /\ frames[1].at \in {"break", "execute_mod", "user"}
                /\ frames[2].at \in Nested
  /\ Top = 3 => /\ frames[2].at \notin HandlerPlaces
                /\ frames[3].at \in Deepest
                /\ intr = FALSE

Flags ==
  \A k \in 1 .. Top : /\ frames[k].at \in Deaf => FlagOf(k) = FALSE
                      /\ frames[k].at \in Open => FlagOf(k) = TRUE

StackOK ==
  /\ frames \in Seq(Context) /\ Top \in 1 .. 3
  /\ intr \in BOOLEAN
  /\ Levels
  /\ Flags

\* What idt_setup leaves.
Gates ==
  [v \in Vectors |->
     IF v \in Handled
     THEN [handler |-> HandlerOf(v),
           type |-> IF v \in TrapGates THEN "trap" ELSE "interrupt",
           dpl |-> 3]
     ELSE Absent]

\* What the boot code has set up when it has got to a place.
SetUp ==
  LET at == frames[1].at IN
  /\ gdt \in [Selectors -> 0 .. 255]
  /\ gdt_size \in 0 .. 88
  /\ rsp0 \in BOOLEAN
  /\ DOMAIN idt = Vectors
  /\ at # "gdt_setup" => Segment(KERNEL_CODE_SELECTOR, TRUE, 0) /\ rsp0
  /\ at \notin {"gdt_setup", "idt_setup"} => idt = Gates
  /\ base \in {8, 32}
  /\ at \notin {"gdt_setup", "idt_setup", "pic_init"} => base = 32
  /\ imr \subseteq IRQs /\ irr \subseteq IRQs /\ isr \subseteq IRQs
  /\ at \in {"sti", "unmask"} => imr = IRQs
  /\ at \in {"break", "execute_mod", "user"} => imr = {0}

PortOK ==
  /\ keys \in 0 .. MaxKeys
  /\ obf \in BOOLEAN /\ early \in BOOLEAN
  /\ obf /\ ~early => 1 \in irr \/ At("irq1_handler")

\* write_char has stored a character and has stores left to make; a step with
\* nothing of the kind before it or after it.
Pending == At("count") \/ At("wrap")
Quiet == ~Pending /\ ~Pending'

\* The room that write_char has found is still there when it stores.
RoomFound == At("store") => ~Ring!MaxedOut

IInv == StackOK /\ SetUp /\ PortOK /\ RoomFound

-----------------------------------------------------------------------------
(***************************************************************************)
(* Facts about stacks of contexts.                                         *)
(***************************************************************************)
LEMMA PlacesKnown ==
  /\ Ground \subseteq Places /\ Nested \subseteq Places
  /\ Deepest \subseteq Nested /\ HandlerPlaces \subseteq Deaf
  /\ Ground \cap Nested = {} /\ Deaf \cap Open = {}
  BY DEF Ground, Nested, Deepest, Deaf, Open, Places, HandlerPlaces

\* A handler is on top, for it runs with the flag off and what comes on top
\* of another context comes there with the flag on.
LEMMA HandlerOnTop ==
  ASSUME StackOK, NEW k \in 1 .. Top, frames[k].at \in HandlerPlaces
  PROVE  k = Top
  BY DEF StackOK, Levels, Ground, HandlerPlaces

(***************************************************************************)
(* The element k of a sequence replaced, one appended, the last removed.   *)
(***************************************************************************)
LEMMA SeqReplace ==
  ASSUME NEW S, NEW s \in Seq(S), NEW k \in 1 .. Len(s), NEW e \in S
  PROVE  /\ [s EXCEPT ![k] = e] \in Seq(S)
         /\ Len([s EXCEPT ![k] = e]) = Len(s)
         /\ [s EXCEPT ![k] = e][k] = e
         /\ \A j \in 1 .. Len(s) : j # k => [s EXCEPT ![k] = e][j] = s[j]
  OBVIOUS

LEMMA SeqPush ==
  ASSUME NEW S, NEW s \in Seq(S), NEW e \in S
  PROVE  /\ Append(s, e) \in Seq(S)
         /\ Len(Append(s, e)) = Len(s) + 1
         /\ Append(s, e)[Len(s) + 1] = e
         /\ \A j \in 1 .. Len(s) : Append(s, e)[j] = s[j]
  OBVIOUS

LEMMA SeqPop ==
  ASSUME NEW S, NEW s \in Seq(S), NEW n \in Nat, Len(s) = n + 1
  PROVE  /\ SubSeq(s, 1, n) \in Seq(S)
         /\ Len(SubSeq(s, 1, n)) = n
         /\ \A j \in 1 .. n : SubSeq(s, 1, n)[j] = s[j]
  OBVIOUS

(***************************************************************************)
(* A context that goes on, and one that comes on top of another.           *)
(***************************************************************************)
LEMMA Moved ==
  ASSUME NEW f \in Context, NEW p \in Places
  PROVE  /\ [f EXCEPT !.at = p] \in Context
         /\ [f EXCEPT !.at = p].at = p
         /\ [f EXCEPT !.at = p].flag = f.flag
         /\ [f EXCEPT !.at = p].val = f.val
  BY DEF Context

LEMMA Entered ==
  ASSUME NEW p \in Places, NEW i \in BOOLEAN, NEW ch \in Char
  PROVE  /\ [at |-> p, flag |-> i, val |-> ch] \in Context
         /\ [at |-> p, flag |-> i, val |-> ch].at = p
         /\ [at |-> p, flag |-> i, val |-> ch].flag = i
  BY DEF Context

LEMMA GotoIs ==
  ASSUME StackOK, NEW p \in Places, frames' = Goto(p)
  PROVE  /\ frames' \in Seq(Context)
         /\ Top' = Top
         /\ frames'[Top].at = p
         /\ frames'[Top].flag = frames[Top].flag
         /\ frames'[Top].val = frames[Top].val
         /\ \A k \in 1 .. Top - 1 : frames'[k] = frames[k]
<1> DEFINE f == [frames[Top] EXCEPT !.at = p]
<1>1. frames' = [frames EXCEPT ![Top] = f]
  BY DEF Goto
<1>2. Top = Len(frames) /\ Top \in 1 .. Len(frames)
  BY DEF Top, StackOK
<1>3. frames[Top] \in Context
  BY <1>2 DEF StackOK
<1>4. /\ f \in Context /\ f.at = p
      /\ f.flag = frames[Top].flag /\ f.val = frames[Top].val
  BY <1>3, Moved
<1> HIDE DEF f
<1>5. /\ [frames EXCEPT ![Top] = f] \in Seq(Context)
      /\ Len([frames EXCEPT ![Top] = f]) = Len(frames)
      /\ [frames EXCEPT ![Top] = f][Top] = f
      /\ \A j \in 1 .. Len(frames) :
            j # Top => [frames EXCEPT ![Top] = f][j] = frames[j]
  BY <1>2, <1>4, SeqReplace DEF StackOK
<1>6. Len(frames') = Len(frames)
  BY <1>1, <1>5
<1>7. Top' = Top
  BY <1>6 DEF Top
<1> QED
  BY <1>1, <1>2, <1>4, <1>5, <1>7

LEMMA PushIs ==
  ASSUME StackOK, NEW p \in Places, NEW ch \in Char,
         frames' = Append(frames, [at |-> p, flag |-> intr, val |-> ch])
  PROVE  /\ frames' \in Seq(Context)
         /\ Top' = Top + 1
         /\ frames'[Top + 1].at = p
         /\ frames'[Top + 1].flag = intr
         /\ \A k \in 1 .. Top : frames'[k] = frames[k]
<1> DEFINE f == [at |-> p, flag |-> intr, val |-> ch]
<1>1. f \in Context /\ f.at = p /\ f.flag = intr
  BY Entered DEF StackOK
<1>2. frames' = Append(frames, f)
  OBVIOUS
<1> HIDE DEF f
<1>3. /\ frames' \in Seq(Context)
      /\ Len(frames') = Len(frames) + 1
      /\ frames'[Len(frames) + 1] = f
      /\ \A k \in 1 .. Len(frames) : frames'[k] = frames[k]
  BY <1>1, <1>2, SeqPush DEF StackOK
<1> QED
  BY <1>1, <1>3 DEF Top

LEMMA PopIs ==
  ASSUME StackOK, Top > 1, Iret
  PROVE  /\ frames' \in Seq(Context)
         /\ Top' = Top - 1
         /\ \A k \in 1 .. Top - 1 : frames'[k] = frames[k]
         /\ intr' = frames[Top].flag /\ intr' \in BOOLEAN
<1>1. Top - 1 \in Nat /\ Len(frames) = (Top - 1) + 1
  BY DEF StackOK, Top
<1>2. frames[Top] \in Context
  BY <1>1 DEF StackOK
<1>3. /\ frames' \in Seq(Context) /\ Len(frames') = Top - 1
      /\ \A k \in 1 .. Top - 1 : frames'[k] = frames[k]
  BY <1>1, SeqPop DEF Iret, StackOK
<1>4. frames[Top].flag \in BOOLEAN
  BY <1>2 DEF Context
<1> QED
  BY <1>3, <1>4 DEF Iret, Top

(***************************************************************************)
(* The context on top goes on to another place of its level.               *)
(***************************************************************************)
LEMMA GoneOnOK ==
  ASSUME StackOK, NEW p \in Places,
         frames' \in Seq(Context), Top' = Top,
         frames'[Top].at = p, frames'[Top].flag = frames[Top].flag,
         \A k \in 1 .. Top - 1 : frames'[k] = frames[k],
         intr' \in BOOLEAN,
         p \in Deaf => intr' = FALSE, p \in Open => intr' = TRUE,
         Top = 1 => p \in Ground,
         Top = 2 => p \in Nested,
         Top = 3 => p \in Deepest /\ intr' = FALSE
  PROVE  StackOK'
<1>1. Top \in 1 .. 3
  BY DEF StackOK
<1>2. Levels'
  <2>1. CASE Top = 1
    BY <2>1 DEF StackOK, Levels
  <2>2. CASE Top = 2
    BY <2>2 DEF StackOK, Levels
  <2>3. CASE Top = 3
    BY <2>3 DEF StackOK, Levels
  <2> QED
    BY <1>1, <2>1, <2>2, <2>3
<1>3. Flags'
  <2> SUFFICES ASSUME NEW k \in 1 .. Top
               PROVE  /\ frames'[k].at \in Deaf => FlagOf(k)' = FALSE
                      /\ frames'[k].at \in Open => FlagOf(k)' = TRUE
    BY DEF Flags
  <2>1. CASE k = Top
    BY <2>1, <1>1 DEF FlagOf
  <2>2. CASE k = Top - 1
    BY <2>2, <1>1 DEF FlagOf, StackOK, Flags
  <2>3. CASE k < Top - 1
    BY <2>3, <1>1 DEF FlagOf, StackOK, Flags
  <2>4. k = Top \/ k = Top - 1 \/ k < Top - 1
    BY <1>1
  <2> QED
    BY <2>1, <2>2, <2>3, <2>4
<1> QED
  BY <1>1, <1>2, <1>3 DEF StackOK

(***************************************************************************)
(* A context comes on top of another.                                      *)
(***************************************************************************)
LEMMA EnteredOK ==
  ASSUME StackOK, NEW p \in Places,
         frames' \in Seq(Context), Top' = Top + 1,
         frames'[Top + 1].at = p, frames'[Top + 1].flag = intr,
         \A k \in 1 .. Top : frames'[k] = frames[k],
         intr' \in BOOLEAN,
         p \in Deaf => intr' = FALSE, p \in Open => intr' = TRUE,
         Top < 3, frames[Top].at \notin HandlerPlaces,
         Top = 1 => frames[1].at \in {"break", "execute_mod", "user"}
                    /\ p \in Nested,
         Top = 2 => p \in Deepest /\ intr' = FALSE
  PROVE  StackOK'
<1>1. Top \in 1 .. 2
  BY DEF StackOK
<1>2. Levels'
  <2>1. CASE Top = 1
    BY <2>1 DEF StackOK, Levels
  <2>2. CASE Top = 2
    BY <2>2 DEF StackOK, Levels
  <2> QED
    BY <1>1, <2>1, <2>2
<1>3. Flags'
  <2> SUFFICES ASSUME NEW k \in 1 .. Top + 1
               PROVE  /\ frames'[k].at \in Deaf => FlagOf(k)' = FALSE
                      /\ frames'[k].at \in Open => FlagOf(k)' = TRUE
    BY DEF Flags
  <2>1. CASE k = Top + 1
    BY <1>1, <2>1 DEF FlagOf
  <2>2. CASE k = Top
    BY <2>2, <1>1 DEF FlagOf, StackOK, Flags
  <2>3. CASE k < Top
    BY <2>3, <1>1 DEF FlagOf, StackOK, Flags
  <2>4. k = Top + 1 \/ k = Top \/ k < Top
    BY <1>1
  <2> QED
    BY <2>1, <2>2, <2>3, <2>4
<1> QED
  BY <1>1, <1>2, <1>3 DEF StackOK

(***************************************************************************)
(* iretq goes back to the context below.                                   *)
(***************************************************************************)
LEMMA ReturnedOK ==
  ASSUME StackOK, Top > 1,
         frames' \in Seq(Context), Top' = Top - 1,
         \A k \in 1 .. Top - 1 : frames'[k] = frames[k],
         intr' = frames[Top].flag, intr' \in BOOLEAN
  PROVE  StackOK'
<1>1. Top \in 2 .. 3
  BY DEF StackOK
<1>2. Levels'
  BY <1>1 DEF StackOK, Levels
<1>3. Flags'
  <2> SUFFICES ASSUME NEW k \in 1 .. Top - 1
               PROVE  /\ frames'[k].at \in Deaf => FlagOf(k)' = FALSE
                      /\ frames'[k].at \in Open => FlagOf(k)' = TRUE
    BY <1>1 DEF Flags
  <2>1. CASE k = Top - 1
    BY <2>1, <1>1 DEF FlagOf, StackOK, Flags
  <2>2. CASE k < Top - 1
    BY <2>2, <1>1 DEF FlagOf, StackOK, Flags
  <2>3. k = Top - 1 \/ k < Top - 1
    BY <1>1
  <2> QED
    BY <2>1, <2>2, <2>3
<1> QED
  BY <1>1, <1>2, <1>3 DEF StackOK

(***************************************************************************)
(* The place on top tells its level and the interrupt flag.                *)
(***************************************************************************)
LEMMA WhereItIs ==
  ASSUME StackOK, NEW p \in Places, At(p)
  PROVE  /\ frames[Top].at = p
         /\ p \in Ground => Top = 1 /\ frames[1].at = p
         /\ p \in Nested => Top \in 2 .. 3
         /\ p \in Nested \ Deepest => Top = 2
         /\ p \in Open => intr = TRUE
         /\ p \in Deaf => intr = FALSE
<1>1. Top \in 1 .. 3 /\ frames[Top].at = p
  BY DEF StackOK, At
<1>2. (p \in Open => intr = TRUE) /\ (p \in Deaf => intr = FALSE)
  BY <1>1 DEF StackOK, Flags, FlagOf
<1>3. p \in Ground => Top = 1
  BY <1>1, PlacesKnown DEF StackOK, Levels
<1>4. p \in Nested => Top \in 2 .. 3
  BY <1>1, PlacesKnown DEF StackOK, Levels
<1>5. p \in Nested \ Deepest => Top = 2
  BY <1>1, <1>4 DEF StackOK, Levels
<1> QED
  BY <1>1, <1>2, <1>3, <1>4, <1>5

LEMMA GotoOK ==
  ASSUME StackOK, NEW p \in Places, NEW q \in Places, At(p),
         frames' = Goto(q), intr' \in BOOLEAN,
         q \in Deaf => intr' = FALSE, q \in Open => intr' = TRUE,
         \/ {p, q} \subseteq Ground
         \/ {p, q} \subseteq Nested \ Deepest
         \/ {p, q} \subseteq HandlerPlaces
  PROVE  /\ StackOK' /\ At(q)' /\ Top' = Top
         /\ p \in Ground => frames'[1].at = q
         /\ p \in Nested => frames'[1] = frames[1]
         /\ frames'[Top].val = frames[Top].val
<1>1. Top \in 1 .. 3
  BY DEF StackOK
<1>2. /\ Top = 1 => q \in Ground
      /\ Top = 2 => q \in Nested
      /\ Top = 3 => q \in Deepest /\ intr' = FALSE
  <2> /\ p \in Ground => Top = 1
      /\ p \in Nested => Top \in 2 .. 3
      /\ p \in Nested \ Deepest => Top = 2
    BY WhereItIs
  <2>1. CASE {p, q} \subseteq Ground
    BY <2>1
  <2>2. CASE {p, q} \subseteq Nested \ Deepest
    BY <2>2
  <2>3. CASE {p, q} \subseteq HandlerPlaces
    <3>1. /\ p \in Nested /\ q \in Nested /\ q \in Deepest /\ q \in Deaf
      BY <2>3 DEF Nested, Deepest, Deaf
    <3> QED
      BY <3>1
  <2> QED
    BY <2>1, <2>2, <2>3
<1>3. StackOK'
  BY <1>2, GotoIs, GoneOnOK
<1>4. At(q)'
  BY GotoIs DEF At
<1>5. p \in Ground => frames'[1].at = q
  BY GotoIs, WhereItIs
<1>6. ASSUME p \in Nested PROVE frames'[1] = frames[1]
  <2>1. Top \in 2 .. 3
    BY <1>6, WhereItIs
  <2>2. 1 \in 1 .. Top - 1
    BY <2>1
  <2> QED
    BY <2>2, GotoIs
<1>7. Top' = Top /\ frames'[Top].val = frames[Top].val
  BY GotoIs
<1> QED
  BY <1>3, <1>4, <1>5, <1>6, <1>7

LEMMA IretOK ==
  ASSUME StackOK, NEW p \in Places, p \in Nested, At(p), Iret
  PROVE  /\ StackOK' /\ Top' = Top - 1
         /\ frames'[1] = frames[1]
         /\ frames'[Top'].at \notin HandlerPlaces
<1>1. Top \in 2 .. 3
  BY WhereItIs
<1>2. /\ frames' \in Seq(Context) /\ Top' = Top - 1
      /\ \A k \in 1 .. Top - 1 : frames'[k] = frames[k]
      /\ intr' = frames[Top].flag /\ intr' \in BOOLEAN
  BY <1>1, PopIs
<1>3. StackOK'
  BY <1>1, <1>2, ReturnedOK
<1>4. frames[Top - 1].at \notin HandlerPlaces
  BY <1>1, HandlerOnTop
<1> QED
  BY <1>1, <1>2, <1>3, <1>4

(***************************************************************************)
(* Once the boot code has set things up they stay, and the outermost       *)
(* context is the boot code's or a program's.                              *)
(***************************************************************************)
Up == {"break", "execute_mod", "user"}

LEMMA SetUpKept ==
  ASSUME SetUp, UNCHANGED <<tables, base, imr>>,
         irr' \subseteq IRQs, isr' \subseteq IRQs,
         \/ frames'[1].at = frames[1].at
         \/ {frames[1].at, frames'[1].at} \subseteq Up
  PROVE  SetUp'
<1>1. UNCHANGED <<gdt, gdt_size, rsp0, idt, base, imr>>
  BY DEF tables
<1>2. Segment(KERNEL_CODE_SELECTOR, TRUE, 0)'
        <=> Segment(KERNEL_CODE_SELECTOR, TRUE, 0)
  BY <1>1 DEF Segment
<1>3. CASE frames'[1].at = frames[1].at
  BY <1>1, <1>2, <1>3 DEF SetUp
<1>4. CASE {frames[1].at, frames'[1].at} \subseteq Up
  BY <1>1, <1>2, <1>4 DEF SetUp, Up
<1> QED
  BY <1>3, <1>4

(***************************************************************************)
(* A vector with a handler gets through its gate to it.                    *)
(***************************************************************************)
LEMMA GateOf ==
  ASSUME SetUp, frames[1].at \in Up, NEW v \in Handled
  PROVE  /\ idt[v].handler = HandlerOf(v)
         /\ v \in TrapGates => idt[v].type = "trap"
         /\ v \notin TrapGates => idt[v].type = "interrupt"
         /\ Opens(v) /\ Passes(v, v \in TakesCodeOf)
<1>1. idt = Gates /\ Segment(KERNEL_CODE_SELECTOR, TRUE, 0) /\ rsp0
  BY DEF SetUp, Up
<1>2. v \in Vectors
  BY DEF Handled, Vectors
<1>3. idt[v] = [handler |-> HandlerOf(v),
                type |-> IF v \in TrapGates THEN "trap" ELSE "interrupt",
                dpl |-> 3]
  BY <1>1, <1>2 DEF Gates
<1>4. idt[v].type # "absent"
  BY <1>3
<1>5. Opens(v) /\ Passes(v, v \in TakesCodeOf)
  BY <1>1, <1>4 DEF Passes, Opens
<1> QED
  BY <1>3, <1>5

LEMMA HandlersKnown ==
  ASSUME NEW v \in Handled
  PROVE  /\ HandlerOf(v) \in {"exception1", "debug_loop", "irq1_handler",
                              "syscall", "halt"}
         /\ HandlerOf(v) \in Nested
         /\ v \in {3, 128} => HandlerOf(v) \in Open
         /\ v \notin {3, 128} => HandlerOf(v) \notin Open
         /\ v \in {1, 33} => HandlerOf(v) \in Deaf
         /\ v \notin {1, 33} => HandlerOf(v) \notin Deaf
         /\ v \in {14, 33} => HandlerOf(v) \in Deepest
  BY DEF HandlerOf, Handled, Nested, Deepest, Open, Deaf, HandlerPlaces

LEMMA EnterOK ==
  ASSUME StackOK, SetUp, frames[1].at \in Up, NEW v \in Handled, NEW pushed,
         frames[Top].at \notin HandlerPlaces,
         v \in {3, 128} => intr = TRUE,
         Top = 1 \/ (Top = 2 /\ v \in {14, 33}),
         Passes(v, pushed), EnterFrom(frames, v, pushed)
  PROVE  /\ StackOK' /\ At(HandlerOf(v))' /\ Top' = Top + 1
         /\ frames'[1] = frames[1]
<1> DEFINE p == HandlerOf(v)
<1>1. /\ frames' = Append(frames, [at |-> p, flag |-> intr, val |-> NUL])
      /\ intr' = (intr /\ idt[v].type = "trap")
  BY GateOf DEF EnterFrom
<1>2. /\ p \in Places /\ p \in Nested
      /\ v \in {3, 128} => p \notin Deaf
      /\ v \notin {3, 128} => p \notin Open
      /\ v \notin {1, 33} => p \notin Deaf
      /\ v \in {14, 33} => p \in Deepest
  BY HandlersKnown, PlacesKnown DEF Deaf, Open
<1> HIDE DEF p
<1>3. v \in {3, 128} => intr' = TRUE
  <2>1. v \in {3, 128} => idt[v].type = "trap"
    BY GateOf DEF TrapGates
  <2> QED
    BY <1>1, <2>1
<1>4. v \in {1, 14, 33} => intr' = FALSE
  <2>1. v \in {1, 14, 33} => idt[v].type # "trap"
    BY GateOf DEF TrapGates
  <2> QED
    BY <1>1, <2>1
<1>5. intr' \in BOOLEAN
  BY <1>1
<1>6. /\ frames' \in Seq(Context) /\ Top' = Top + 1
      /\ frames'[Top + 1].at = p /\ frames'[Top + 1].flag = intr
      /\ \A k \in 1 .. Top : frames'[k] = frames[k]
  <2>1. p \in Places /\ NUL \in Char
    BY <1>2, RingAssumption
  <2> QED
    BY <1>1, <2>1, PushIs
<1>7. /\ Top < 3
      /\ Top = 1 => frames[1].at \in {"break", "execute_mod", "user"}
                    /\ p \in Nested
      /\ Top = 2 => p \in Deepest /\ intr' = FALSE
  BY <1>2, <1>4 DEF Up
<1>8. (p \in Deaf => intr' = FALSE) /\ (p \in Open => intr' = TRUE)
  BY <1>2, <1>3, <1>4
<1>9. StackOK'
  <2>1. StackOK /\ p \in Places /\ frames[Top].at \notin HandlerPlaces
    BY <1>2
  <2> QED
    BY <1>5, <1>6, <1>7, <1>8, <2>1, EnteredOK
<1>10. At(p)' /\ frames'[1] = frames[1]
  BY <1>6 DEF At, StackOK
<1> QED
  BY <1>6, <1>9, <1>10 DEF p

(***************************************************************************)
(* What a step that leaves the controllers and the keyboard alone has to   *)
(* keep.                                                                   *)
(***************************************************************************)
LEMMA OnlyContexts ==
  ASSUME IInv, StackOK', UNCHANGED <<tables, pic, kbd>>,
         \/ frames'[1].at = frames[1].at
         \/ {frames[1].at, frames'[1].at} \subseteq Up,
         ~At("irq1_handler"), ~At("store")'
  PROVE  IInv'
<1>1. /\ UNCHANGED <<tables, base, imr, irr, isr, keys, obf, early>>
      /\ irr \subseteq IRQs /\ isr \subseteq IRQs
  BY DEF pic, kbd, IInv, SetUp
<1>2. SetUp'
  BY <1>1, SetUpKept DEF IInv
<1>3. PortOK'
  BY <1>1 DEF IInv, PortOK
<1>4. RoomFound'
  BY DEF RoomFound
<1> QED
  BY <1>2, <1>3, <1>4 DEF IInv

-----------------------------------------------------------------------------
(***************************************************************************)
(* The boot code, one step after the other with the flag off until sti.    *)
(***************************************************************************)
LEMMA InitIInv == Init => IInv
<1> SUFFICES ASSUME Init PROVE IInv
  OBVIOUS
<1> DEFINE f == [at |-> "gdt_setup", flag |-> FALSE, val |-> NUL]
<1>1. f \in Context /\ f.at = "gdt_setup"
  BY RingAssumption DEF Context, Places
<1>2. /\ frames = <<f>> /\ intr = FALSE
      /\ gdt = [s \in Selectors |-> 0] /\ gdt_size = 0 /\ rsp0 = FALSE
      /\ idt = [v \in Vectors |-> Absent]
      /\ base = 8 /\ imr \subseteq IRQs /\ irr = {} /\ isr = {}
      /\ keys = 0 /\ obf = FALSE /\ early = FALSE
  BY DEF Init
<1> HIDE DEF f
<1>3. frames \in Seq(Context) /\ Top = 1 /\ frames[1] = f
  BY <1>1, <1>2 DEF Top
<1>4. frames[1].at = "gdt_setup"
  BY <1>1, <1>3
<1>5. Levels
  BY <1>3, <1>4 DEF Levels, Ground
<1>6. Flags
  BY <1>2, <1>3, <1>4 DEF Flags, FlagOf, Open
<1>7. StackOK
  <2>1. intr \in BOOLEAN
    BY <1>2
  <2>2. Top \in 1 .. 3
    BY <1>3
  <2> QED
    BY <1>3, <1>5, <1>6, <2>1, <2>2 DEF StackOK
<1>8. SetUp
  <2>1. rsp0 \in BOOLEAN
    BY <1>2
  <2>2. gdt \in [Selectors -> 0 .. 255] /\ gdt_size \in 0 .. 88
    BY <1>2
  <2>3. base \in {8, 32} /\ DOMAIN idt = Vectors
    BY <1>2
  <2> QED
    BY <1>2, <1>4, <2>1, <2>2, <2>3 DEF SetUp
<1>9. PortOK
  <2>1. keys \in 0 .. MaxKeys
    BY <1>2, BoundAssumption
  <2>2. obf \in BOOLEAN /\ early \in BOOLEAN /\ ~obf
    BY <1>2
  <2> QED
    BY <2>1, <2>2 DEF PortOK
<1>10. RoomFound
  BY <1>3, <1>4 DEF RoomFound, At
<1> QED
  BY <1>7, <1>8, <1>9, <1>10 DEF IInv

(***************************************************************************)
(* A step of the boot code goes on to its next place.                      *)
(***************************************************************************)
LEMMA BootStep ==
  ASSUME StackOK, NEW p \in Ground, NEW q \in Ground, At(p),
         frames' = Goto(q), intr' \in BOOLEAN,
         q \in Deaf => intr' = FALSE, q \in Open => intr' = TRUE
  PROVE  /\ StackOK' /\ RoomFound'
         /\ Top = 1 /\ frames[1].at = p /\ frames'[1].at = q
         /\ p \in Deaf => intr = FALSE
         /\ p \in Open => intr = TRUE
         /\ ~At("irq1_handler") /\ Quiet
<1>1. p \in Places /\ q \in Places /\ {p, q} \subseteq Ground
  BY PlacesKnown
<1>2. StackOK' /\ At(q)' /\ frames'[1].at = q
  BY <1>1, GotoOK
<1>3. /\ Top = 1 /\ frames[1].at = p
      /\ p \in Deaf => intr = FALSE
      /\ p \in Open => intr = TRUE
  BY <1>1, WhereItIs
<1>4. p \notin HandlerPlaces /\ q \notin HandlerPlaces
  BY DEF Ground, HandlerPlaces
<1>5. RoomFound' /\ ~At("irq1_handler") /\ Quiet
  BY <1>2, <1>4 DEF RoomFound, At, HandlerPlaces, Quiet, Pending
<1> QED
  BY <1>2, <1>3, <1>5

LEMMA GdtSetupIInv ==
  ASSUME IInv, GdtSetup
  PROVE  IInv' /\ Quiet
<1>1. /\ frames' = Goto("idt_setup") /\ At("gdt_setup")
      /\ intr' = intr /\ UNCHANGED <<idt, pic, kbd>>
  BY DEF GdtSetup
<1>2. /\ {"gdt_setup", "idt_setup"} \subseteq Ground
      /\ "gdt_setup" \in Deaf /\ "idt_setup" \notin Open /\ "gdt_setup" \in Places
  BY DEF Ground, Deaf, Open, Places
<1>3. intr = FALSE
  BY <1>1, <1>2, WhereItIs DEF IInv
<1>4. intr' = FALSE /\ intr' \in BOOLEAN
  BY <1>1, <1>3
<1>5. /\ StackOK' /\ RoomFound' /\ Quiet /\ ~At("irq1_handler")
      /\ frames[1].at = "gdt_setup" /\ frames'[1].at = "idt_setup"
  BY <1>1, <1>2, <1>4, BootStep DEF IInv
<1>6. /\ gdt' = [gdt EXCEPT
                   ![KERNEL_CODE_SELECTOR] = gdt_code_descriptor(FALSE),
                   ![KERNEL_DATA_SELECTOR] = gdt_data_descriptor(FALSE),
                   ![USER_CODE_SELECTOR] = gdt_code_descriptor(TRUE),
                   ![USER_DATA_SELECTOR] = gdt_data_descriptor(TRUE),
                   ![TSS_SELECTOR] = gdt_tss_descriptor]
      /\ gdt_size' = TSS_SELECTOR + 16
      /\ rsp0' = TRUE
  BY DEF GdtSetup
<1>7. SetUp'
  <2>1. /\ gdt' \in [Selectors -> 0 .. 255] /\ gdt_size' = 88
        /\ gdt'[40] = 154
    BY <1>6
    DEF IInv, SetUp, Selectors, gdt_code_descriptor, gdt_data_descriptor,
        gdt_tss_descriptor, KERNEL_CODE_SELECTOR, KERNEL_DATA_SELECTOR,
        USER_CODE_SELECTOR, USER_DATA_SELECTOR, TSS_SELECTOR
  <2>2. Segment(KERNEL_CODE_SELECTOR, TRUE, 0)'
    BY <2>1 DEF Segment, KERNEL_CODE_SELECTOR
  <2>3. rsp0' /\ rsp0' \in BOOLEAN
    BY <1>6
  <2>4. gdt_size' \in 0 .. 88
    BY <2>1
  <2> QED
    BY <1>1, <1>5, <2>1, <2>2, <2>3, <2>4 DEF IInv, SetUp, pic
<1>8. PortOK'
  BY <1>1, <1>5 DEF IInv, PortOK, kbd, pic
<1> QED
  BY <1>5, <1>7, <1>8 DEF IInv

LEMMA IdtSetupIInv ==
  ASSUME IInv, IdtSetup
  PROVE  IInv' /\ Quiet
<1>1. /\ frames' = Goto("pic_init") /\ At("idt_setup")
      /\ intr' = intr /\ UNCHANGED <<gdt, gdt_size, rsp0, pic, kbd>>
      /\ idt' = Gates
  BY DEF IdtSetup, Gates
<1>2. /\ {"idt_setup", "pic_init"} \subseteq Ground
      /\ "idt_setup" \in Deaf /\ "pic_init" \notin Open /\ "idt_setup" \in Places
  BY DEF Ground, Deaf, Open, Places
<1>3. intr = FALSE
  BY <1>1, <1>2, WhereItIs DEF IInv
<1>4. intr' = FALSE /\ intr' \in BOOLEAN
  BY <1>1, <1>3
<1>5. /\ StackOK' /\ RoomFound' /\ Quiet /\ ~At("irq1_handler")
      /\ frames[1].at = "idt_setup" /\ frames'[1].at = "pic_init"
  BY <1>1, <1>2, <1>4, BootStep DEF IInv
<1>6. SetUp'
  <2>1. Segment(KERNEL_CODE_SELECTOR, TRUE, 0)'
          <=> Segment(KERNEL_CODE_SELECTOR, TRUE, 0)
    BY <1>1 DEF Segment
  <2>2. DOMAIN idt' = Vectors
    BY <1>1 DEF Gates
  <2> QED
    BY <1>1, <1>5, <2>1, <2>2 DEF IInv, SetUp, pic
<1>7. PortOK'
  BY <1>1, <1>5 DEF IInv, PortOK, kbd, pic
<1> QED
  BY <1>5, <1>6, <1>7 DEF IInv

\* A code that is in the port when the controller is reset stays there
\* unannounced.
LEMMA PicRemapIInv ==
  ASSUME IInv, PicRemap
  PROVE  IInv' /\ Quiet
<1>1. /\ frames' = Goto("mask") /\ At("pic_init")
      /\ intr' = intr /\ UNCHANGED <<tables, keys, obf>>
      /\ base' = 32 /\ imr' = {} /\ irr' = {} /\ isr' = {} /\ early' = obf
  BY DEF PicRemap
<1>2. /\ {"pic_init", "mask"} \subseteq Ground
      /\ "pic_init" \in Deaf /\ "mask" \notin Open /\ "pic_init" \in Places
  BY DEF Ground, Deaf, Open, Places
<1>3. intr = FALSE
  BY <1>1, <1>2, WhereItIs DEF IInv
<1>4. intr' = FALSE /\ intr' \in BOOLEAN
  BY <1>1, <1>3
<1>5. /\ StackOK' /\ RoomFound' /\ Quiet
      /\ frames[1].at = "pic_init" /\ frames'[1].at = "mask"
  BY <1>1, <1>2, <1>4, BootStep DEF IInv
<1>6. SetUp'
  <2>1. UNCHANGED <<gdt, gdt_size, rsp0, idt>>
    BY <1>1 DEF tables
  <2>2. Segment(KERNEL_CODE_SELECTOR, TRUE, 0)'
          <=> Segment(KERNEL_CODE_SELECTOR, TRUE, 0)
    BY <2>1 DEF Segment
  <2> QED
    BY <1>1, <1>5, <2>1, <2>2 DEF IInv, SetUp
<1>7. PortOK'
  BY <1>1 DEF IInv, PortOK
<1> QED
  BY <1>5, <1>6, <1>7 DEF IInv

LEMMA PicMaskIInv ==
  ASSUME IInv, PicMask
  PROVE  IInv' /\ Quiet
<1>1. /\ frames' = Goto("sti") /\ At("mask")
      /\ intr' = intr /\ UNCHANGED <<tables, base, irr, isr, kbd>>
      /\ imr' = IRQs
  BY DEF PicMask, MaskAll
<1>2. /\ {"mask", "sti"} \subseteq Ground
      /\ "mask" \in Deaf /\ "sti" \notin Open /\ "mask" \in Places
  BY DEF Ground, Deaf, Open, Places
<1>3. intr = FALSE
  BY <1>1, <1>2, WhereItIs DEF IInv
<1>4. intr' = FALSE /\ intr' \in BOOLEAN
  BY <1>1, <1>3
<1>5. /\ StackOK' /\ RoomFound' /\ Quiet /\ ~At("irq1_handler")
      /\ frames[1].at = "mask" /\ frames'[1].at = "sti"
  BY <1>1, <1>2, <1>4, BootStep DEF IInv
<1>6. SetUp'
  <2>1. UNCHANGED <<gdt, gdt_size, rsp0, idt>>
    BY <1>1 DEF tables
  <2>2. Segment(KERNEL_CODE_SELECTOR, TRUE, 0)'
          <=> Segment(KERNEL_CODE_SELECTOR, TRUE, 0)
    BY <2>1 DEF Segment
  <2> QED
    BY <1>1, <1>5, <2>1, <2>2 DEF IInv, SetUp
<1>7. PortOK'
  BY <1>1, <1>5 DEF IInv, PortOK, kbd
<1> QED
  BY <1>5, <1>6, <1>7 DEF IInv

\* Everything is masked when interrupts are enabled.
LEMMA StiIInv ==
  ASSUME IInv, Sti
  PROVE  IInv' /\ Quiet
<1>1. /\ frames' = Goto("unmask") /\ At("sti")
      /\ intr' = TRUE /\ UNCHANGED <<tables, pic, kbd>>
  BY DEF Sti
<1>2. {"sti", "unmask"} \subseteq Ground /\ "unmask" \notin Deaf
  BY DEF Ground, Deaf, HandlerPlaces
<1>3. intr' \in BOOLEAN
  BY <1>1
<1>4. /\ StackOK' /\ RoomFound' /\ Quiet /\ ~At("irq1_handler")
      /\ frames[1].at = "sti" /\ frames'[1].at = "unmask"
  BY <1>1, <1>2, <1>3, BootStep DEF IInv
<1>5. SetUp'
  <2>1. UNCHANGED <<gdt, gdt_size, rsp0, idt, base, imr, irr, isr>>
    BY <1>1 DEF tables, pic
  <2>2. Segment(KERNEL_CODE_SELECTOR, TRUE, 0)'
          <=> Segment(KERNEL_CODE_SELECTOR, TRUE, 0)
    BY <2>1 DEF Segment
  <2> QED
    BY <1>4, <2>1, <2>2 DEF IInv, SetUp
<1>6. PortOK'
  BY <1>1, <1>4 DEF IInv, PortOK, kbd, pic
<1> QED
  BY <1>4, <1>5, <1>6 DEF IInv

LEMMA UnmaskIInv ==
  ASSUME IInv, Unmask
  PROVE  IInv' /\ Quiet
<1>1. /\ frames' = Goto("break") /\ At("unmask")
      /\ intr' = intr /\ UNCHANGED <<tables, base, irr, isr, kbd>>
      /\ imr' = imr \ {1}
  BY DEF Unmask
<1>2. /\ {"unmask", "break"} \subseteq Ground
      /\ "unmask" \in Open /\ "break" \notin Deaf /\ "unmask" \in Places
  BY DEF Ground, Deaf, Open, Places, HandlerPlaces
<1>3. intr = TRUE
  BY <1>1, <1>2, WhereItIs DEF IInv
<1>4. intr' = TRUE /\ intr' \in BOOLEAN
  BY <1>1, <1>3
<1>5. /\ StackOK' /\ RoomFound' /\ Quiet /\ ~At("irq1_handler")
      /\ frames[1].at = "unmask" /\ frames'[1].at = "break"
  BY <1>1, <1>2, <1>4, BootStep DEF IInv
<1>6. SetUp'
  <2>1. UNCHANGED <<gdt, gdt_size, rsp0, idt>>
    BY <1>1 DEF tables
  <2>2. Segment(KERNEL_CODE_SELECTOR, TRUE, 0)'
          <=> Segment(KERNEL_CODE_SELECTOR, TRUE, 0)
    BY <2>1 DEF Segment
  <2>3. imr = IRQs
    BY <1>5 DEF IInv, SetUp
  <2>4. imr' = {0} /\ imr' \subseteq IRQs
    BY <1>1, <2>3 DEF IRQs
  <2> QED
    BY <1>1, <1>5, <2>1, <2>2, <2>4 DEF IInv, SetUp
<1>7. PortOK'
  BY <1>1, <1>5 DEF IInv, PortOK, kbd
<1> QED
  BY <1>5, <1>6, <1>7 DEF IInv

-----------------------------------------------------------------------------
(***************************************************************************)
(* Contexts that come and go.                                              *)
(***************************************************************************)
\* A vector whose handler takes what is pushed lets through what comes from
\* a context that is not a handler's.
LEMMA EnterIInv ==
  ASSUME IInv, NEW v \in Handled, NEW pushed, pushed = (v \in TakesCodeOf),
         frames[1].at \in Up,
         Top = 1 \/ (Top = 2 /\ v = 14),
         frames[Top].at \notin HandlerPlaces,
         v \in {3, 128} => intr = TRUE,
         EnterFrom(frames, v, pushed), UNCHANGED <<tables, pic, kbd>>
  PROVE  IInv' /\ Quiet
<1>1. Passes(v, pushed)
  BY GateOf DEF Passes, IInv
<1>2. StackOK' /\ At(HandlerOf(v))' /\ frames'[1] = frames[1]
  BY <1>1, EnterOK DEF IInv
<1>3. HandlerOf(v) \notin {"store", "count", "wrap"}
  BY HandlersKnown
<1>4. ~At("irq1_handler") /\ ~At("store")' /\ Quiet
  BY <1>2, <1>3 DEF At, Quiet, Pending, HandlerPlaces
<1> QED
  BY <1>2, <1>4, OnlyContexts

LEMMA ReturnIInv ==
  ASSUME IInv, NEW p \in Nested, p \notin {"irq1_handler", "count", "wrap"},
         At(p), Iret,
         UNCHANGED <<tables, pic, kbd>>
  PROVE  IInv' /\ Quiet
<1>1. /\ StackOK' /\ frames'[1] = frames[1]
      /\ frames'[Top'].at \notin HandlerPlaces
  BY PlacesKnown, IretOK DEF IInv
<1>2. ~At("irq1_handler") /\ ~At("store")' /\ Quiet
  BY <1>1 DEF At, Quiet, Pending, HandlerPlaces
<1> QED
  BY <1>1, <1>2, OnlyContexts

\* A program that starts gets a stack of its own and the flag as it is.
LEMMA EnterUserIInv ==
  ASSUME IInv, NEW p \in {"execute_mod", "syscall"}, At(p), EnterUser,
         UNCHANGED <<tables, pic, kbd>>
  PROVE  IInv' /\ Quiet
<1> DEFINE f == [at |-> "user", flag |-> FALSE, val |-> NUL]
<1>1. f \in Context /\ f.at = "user"
  BY RingAssumption DEF Context, Places
<1>2. frames' = <<f>> /\ intr' = intr
  BY DEF EnterUser, UserFrames
<1> HIDE DEF f
<1>3. frames' \in Seq(Context) /\ Top' = 1 /\ frames'[1] = f
  BY <1>1, <1>2 DEF Top
<1>4. frames'[1].at = "user"
  BY <1>1, <1>3
<1>5. /\ p \in Places /\ p \in Open /\ p \notin HandlerPlaces
      /\ p \in Ground \/ p \in Nested
  BY DEF Places, Open, Ground, Nested, HandlerPlaces
<1>6. intr = TRUE
  BY <1>5, WhereItIs DEF IInv
<1>7. intr' = TRUE /\ intr' \in BOOLEAN
  BY <1>2, <1>6
<1>8. Levels'
  BY <1>3, <1>4 DEF Levels, Ground
<1>9. Flags'
  BY <1>3, <1>4, <1>7 DEF Flags, FlagOf, Deaf, HandlerPlaces
<1>10. Top' \in 1 .. 3
  BY <1>3
<1>11. StackOK'
  BY <1>3, <1>7, <1>8, <1>9, <1>10 DEF StackOK
<1>12. frames[1].at \in Up
  <2>1. CASE p = "execute_mod"
    BY <2>1, <1>5, WhereItIs DEF IInv, Ground, Up
  <2>2. CASE p = "syscall"
    <3>1. Top \in 2 .. 3
      BY <2>2, <1>5, WhereItIs DEF IInv, Nested
    <3> QED
      BY <3>1 DEF IInv, StackOK, Levels, Up
  <2> QED
    BY <2>1, <2>2
<1>13. ~At("irq1_handler") /\ ~At("store")' /\ Quiet
  BY <1>3, <1>4, <1>5 DEF At, Quiet, Pending, HandlerPlaces
<1>14. {frames[1].at, frames'[1].at} \subseteq Up
  BY <1>4, <1>12 DEF Up
<1> QED
  BY <1>11, <1>13, <1>14, OnlyContexts

-----------------------------------------------------------------------------
(***************************************************************************)
(* The breakpoint of the boot code, programs and system calls.             *)
(***************************************************************************)
\* The debugger comes on top of the boot code, which goes on to execute_mod.
LEMMA BreakIInv ==
  ASSUME IInv, Break
  PROVE  IInv' /\ Quiet
<1>1. /\ At("break") /\ EnterFrom(Goto("execute_mod"), 3, FALSE)
      /\ UNCHANGED <<tables, pic, kbd>>
  BY DEF Break
<1>2. "break" \in Places /\ "break" \in Ground /\ "break" \in Open
  BY DEF Places, Ground, Open
<1>3. Top = 1 /\ intr = TRUE /\ frames[1].at = "break"
  BY <1>1, <1>2, WhereItIs DEF IInv
<1>4. frames[1].at \in Up /\ 3 \in Handled /\ 3 \notin TakesCodeOf
      /\ 3 \in TrapGates /\ HandlerOf(3) = "debug_loop"
  BY <1>3 DEF Up, Handled, TakesCodeOf, TrapGates, HandlerOf
<1>5. Passes(3, FALSE) /\ idt[3].handler = "debug_loop" /\ idt[3].type = "trap"
  <2>1. /\ Passes(3, 3 \in TakesCodeOf)
        /\ idt[3].handler = "debug_loop" /\ idt[3].type = "trap"
    BY <1>4, GateOf DEF IInv
  <2>2. FALSE = (3 \in TakesCodeOf)
    BY <1>4
  <2> QED
    BY <2>1, <2>2 DEF Passes
<1> DEFINE f == [at |-> "debug_loop", flag |-> intr, val |-> NUL]
           s == Goto("execute_mod")
           g == [frames[1] EXCEPT !.at = "execute_mod"]
<1>6. frames' = Append(s, f) /\ intr' = (intr /\ idt[3].type = "trap")
  BY <1>1, <1>5 DEF EnterFrom
<1>7. intr' = TRUE /\ intr' \in BOOLEAN
  BY <1>3, <1>5, <1>6
<1>8. f \in Context /\ f.at = "debug_loop" /\ f.flag = intr
  <2>1. "debug_loop" \in Places /\ NUL \in Char /\ intr \in BOOLEAN
    BY RingAssumption DEF Places, IInv, StackOK
  <2> QED
    BY <2>1, Entered
<1>9. g \in Context /\ g.at = "execute_mod"
  <2>1. "execute_mod" \in Places /\ frames[1] \in Context
    BY <1>3 DEF Places, IInv, StackOK, Top
  <2> QED
    BY <2>1, Moved
<1>10. s = [frames EXCEPT ![1] = g]
  BY <1>3 DEF Goto
<1> HIDE DEF f, s, g
<1>11. frames \in Seq(Context) /\ Len(frames) = 1
  BY <1>3 DEF IInv, StackOK, Top
<1>12. s \in Seq(Context) /\ Len(s) = 1 /\ s[1] = g
  <2>1. 1 \in 1 .. Len(frames)
    BY <1>11
  <2> QED
    BY <1>9, <1>10, <1>11, <2>1, SeqReplace
<1>13. /\ frames' \in Seq(Context) /\ Len(frames') = 2
       /\ frames'[1] = g /\ frames'[2] = f
  <2>1. /\ Append(s, f) \in Seq(Context)
        /\ Len(Append(s, f)) = Len(s) + 1
        /\ Append(s, f)[Len(s) + 1] = f
        /\ \A j \in 1 .. Len(s) : Append(s, f)[j] = s[j]
    <3>1. f \in Context /\ s \in Seq(Context)
      BY <1>8, <1>12
    <3> QED
      BY <3>1, SeqPush
  <2>2. frames' = Append(s, f)
    BY <1>6
  <2>3. Len(s) + 1 = 2 /\ 1 \in 1 .. Len(s)
    BY <1>12
  <2>4. Append(s, f)[1] = g /\ Append(s, f)[2] = f /\ Len(Append(s, f)) = 2
    BY <1>12, <2>1, <2>3
  <2> QED
    BY <2>1, <2>2, <2>4
<1>14. /\ Top' = 2 /\ frames'[1].at = "execute_mod"
       /\ frames'[2].at = "debug_loop" /\ frames'[2].flag = intr
  <2>1. Top' = 2
    BY <1>13 DEF Top
  <2>2. f.at = "debug_loop" /\ f.flag = intr
    BY <1>8
  <2> QED
    BY <1>9, <1>13, <2>1, <2>2
<1>15. Levels'
  BY <1>14 DEF Levels, Ground, Nested
<1>16. Flags'
  <2>1. "execute_mod" \notin Deaf /\ "debug_loop" \notin Deaf
    BY DEF Deaf, HandlerPlaces
  <2>2. FlagOf(1)' = TRUE /\ FlagOf(2)' = TRUE
    <3>1. FlagOf(1)' = intr /\ FlagOf(2)' = intr'
      BY <1>14 DEF FlagOf
    <3> QED
      BY <1>3, <1>7, <3>1
  <2> SUFFICES ASSUME NEW k \in 1 .. 2
               PROVE  /\ frames'[k].at \in Deaf => FlagOf(k)' = FALSE
                      /\ frames'[k].at \in Open => FlagOf(k)' = TRUE
    BY <1>14 DEF Flags
  <2>3. k = 1 \/ k = 2
    OBVIOUS
  <2> QED
    BY <1>14, <2>1, <2>2, <2>3
<1>17. Top' \in 1 .. 3
  BY <1>14
<1>18. StackOK'
  BY <1>7, <1>13, <1>15, <1>16, <1>17 DEF StackOK
<1>19. {frames[1].at, frames'[1].at} \subseteq Up
  BY <1>3, <1>14 DEF Up
<1>20. ~At("irq1_handler") /\ ~At("store")' /\ Quiet
  BY <1>3, <1>14 DEF At, Quiet, Pending
<1> QED
  BY <1>1, <1>18, <1>19, <1>20, OnlyContexts

LEMMA ExecuteInitIInv ==
  ASSUME IInv, ExecuteInit
  PROVE  IInv' /\ Quiet
  BY EnterUserIInv DEF ExecuteInit

\* Where a program is, interrupts are enabled and everything is set up.
LEMMA AtUser ==
  ASSUME IInv, At("user")
  PROVE  /\ Top = 1 /\ intr = TRUE /\ frames[1].at \in Up
         /\ frames[Top].at \notin HandlerPlaces
<1>1. "user" \in Places /\ "user" \in Ground /\ "user" \in Open
  BY DEF Places, Ground, Open
<1>2. Top = 1 /\ intr = TRUE /\ frames[1].at = "user"
  BY <1>1, WhereItIs DEF IInv
<1> QED
  BY <1>2 DEF Up, HandlerPlaces

\* The same for whoever works for a program or the boot code.
LEMMA AtCall ==
  ASSUME IInv, NEW p \in {"syscall", "kgetc", "debug_loop"}, At(p)
  PROVE  /\ Top = 2 /\ intr = TRUE /\ frames[1].at \in Up
         /\ frames[Top].at \notin HandlerPlaces
<1>1. p \in Places /\ p \in Nested \ Deepest /\ p \in Open
  BY DEF Places, Nested, Deepest, HandlerPlaces, Open
<1>2. Top = 2 /\ intr = TRUE /\ frames[Top].at = p
  BY <1>1, WhereItIs DEF IInv
<1>3. frames[1].at \in Up
  BY <1>2 DEF IInv, StackOK, Levels, Up
<1> QED
  BY <1>2, <1>3 DEF HandlerPlaces

\* int n gets to a handler that takes no error code, to one that misses it,
\* or to the general protection fault's.
LEMMA MisreadIInv ==
  ASSUME IInv, At("user"), NEW v \in TakesCodeOf,
         frames' = Append(frames, [at |-> "misread", flag |-> intr, val |-> NUL]),
         intr' = (intr /\ idt[v].type = "trap"),
         UNCHANGED <<tables, pic, kbd>>
  PROVE  IInv' /\ Quiet
<1>1. /\ Top = 1 /\ frames[1].at \in Up
      /\ frames[Top].at \notin HandlerPlaces
  BY AtUser
<1>2. /\ "misread" \in Places /\ "misread" \in Nested
      /\ "misread" \notin Deaf /\ "misread" \notin Open
  BY DEF Places, Nested, Deaf, Open, HandlerPlaces
<1>3. StackOK /\ intr' \in BOOLEAN /\ NUL \in Char
  BY RingAssumption DEF IInv
<1>4. /\ frames' \in Seq(Context) /\ Top' = Top + 1
      /\ frames'[Top + 1].at = "misread" /\ frames'[Top + 1].flag = intr
      /\ \A k \in 1 .. Top : frames'[k] = frames[k]
  BY <1>2, <1>3, PushIs
<1>5. frames[1].at \in {"break", "execute_mod", "user"}
  BY <1>1 DEF Up
<1>6. Top < 3 /\ Top # 2
  BY <1>1
<1>7. StackOK'
  BY <1>1, <1>2, <1>3, <1>4, <1>5, <1>6, EnteredOK
<1>8. frames'[1] = frames[1] /\ frames'[Top'].at = "misread"
  <2>1. Top' = Top + 1 /\ frames'[Top + 1].at = "misread"
    BY <1>4
  <2>2. 1 \in 1 .. Top
    BY <1>1
  <2>3. frames'[1] = frames[1]
    BY <1>4, <2>2
  <2> QED
    BY <2>1, <2>3
<1>9. ~At("irq1_handler") /\ ~At("store")' /\ Quiet
  BY <1>1, <1>8 DEF At, Quiet, Pending, HandlerPlaces
<1> QED
  BY <1>7, <1>8, <1>9, OnlyContexts

LEMMA SoftwareIntIInv ==
  ASSUME IInv, NEW v \in Vectors, SoftwareInt(v)
  PROVE  IInv' /\ Quiet
<1>1. /\ At("user") /\ UNCHANGED <<tables, pic, kbd>>
      /\ \/ idt[v].dpl = 3 /\ ~Misread(v) /\ EnterFrom(frames, v, FALSE)
         \/ /\ Misread(v)
            /\ frames' = Append(frames,
                                [at |-> "misread", flag |-> intr, val |-> NUL])
            /\ intr' = (intr /\ idt[v].type = "trap")
         \/ EnterFrom(frames, 13, 13 \in PushesCode)
  BY DEF SoftwareInt, Enter
<1>2. /\ Top = 1 /\ intr = TRUE /\ frames[1].at \in Up
      /\ frames[Top].at \notin HandlerPlaces
  BY <1>1, AtUser
<1>3. CASE idt[v].dpl = 3 /\ ~Misread(v) /\ EnterFrom(frames, v, FALSE)
  <2>1. idt = Gates
    BY <1>2 DEF IInv, SetUp, Up
  <2>2. v \in Handled
    BY <1>3, <2>1 DEF Gates, Absent
  <2>3. Opens(v)
    BY <1>2, <2>2, GateOf DEF IInv
  <2>4. FALSE = (v \in TakesCodeOf)
    BY <1>3, <2>3 DEF Misread
  <2> QED
    BY <1>1, <1>2, <1>3, <2>2, <2>4, EnterIInv
<1>4. CASE /\ Misread(v)
           /\ frames' = Append(frames,
                               [at |-> "misread", flag |-> intr, val |-> NUL])
           /\ intr' = (intr /\ idt[v].type = "trap")
  <2>1. v \in TakesCodeOf
    BY <1>4 DEF Misread
  <2> QED
    BY <1>1, <1>4, <2>1, MisreadIInv
<1>5. CASE EnterFrom(frames, 13, 13 \in PushesCode)
  <2>1. 13 \in Handled /\ (13 \in PushesCode) = (13 \in TakesCodeOf)
    BY DEF Handled, PushesCode, TakesCodeOf
  <2> QED
    BY <1>1, <1>2, <1>5, <2>1, EnterIInv
<1> QED
  BY <1>1, <1>3, <1>4, <1>5

LEMMA SyscallIInv ==
  ASSUME IInv, Syscall
  PROVE  IInv' /\ Quiet
<1>1. 128 \in Vectors
  BY DEF Vectors
<1> QED
  BY <1>1, SoftwareIntIInv DEF Syscall

LEMMA SyscallReadIInv ==
  ASSUME IInv, SyscallRead
  PROVE  IInv' /\ Quiet
<1>1. /\ At("syscall") /\ frames' = Goto("kgetc") /\ intr' = intr
      /\ UNCHANGED <<tables, pic, kbd>>
  BY DEF SyscallRead
<1>2. /\ {"syscall", "kgetc"} \subseteq Nested \ Deepest
      /\ {"syscall", "kgetc"} \subseteq Places
      /\ "kgetc" \notin Deaf
  BY DEF Places, Nested, Deepest, HandlerPlaces, Deaf
<1>3. intr = TRUE /\ frames[Top].at \notin HandlerPlaces
  BY <1>1, AtCall
<1>4. intr' = TRUE /\ intr' \in BOOLEAN
  BY <1>1, <1>3
<1>5. StackOK' /\ At("kgetc")' /\ frames'[1] = frames[1]
  BY <1>1, <1>2, <1>4, GotoOK DEF IInv
<1>6. ~At("irq1_handler") /\ ~At("store")' /\ Quiet
  BY <1>3, <1>5 DEF At, Quiet, Pending, HandlerPlaces
<1> QED
  BY <1>1, <1>5, <1>6, OnlyContexts

LEMMA ExceptionIInv ==
  ASSUME IInv, NEW v \in 0 .. 21 \ {2, 3, 4, 9, 15}, Exception(v)
  PROVE  IInv' /\ Quiet
<1>1. /\ EnterFrom(frames, v, v \in PushesCode)
      /\ UNCHANGED <<tables, pic, kbd>>
      /\ At("user") \/ (v = 14 /\ (At("syscall") \/ Waiting))
  BY DEF Exception, Enter
<1>2. /\ v \in Handled /\ (v \in PushesCode) = (v \in TakesCodeOf)
      /\ v # 128
  BY DEF Handled, PushesCode, TakesCodeOf
<1>3. CASE At("user")
  BY <1>1, <1>2, <1>3, AtUser, EnterIInv
<1>4. CASE v = 14 /\ (At("syscall") \/ Waiting)
  <2>1. /\ Top = 2 /\ frames[1].at \in Up
        /\ frames[Top].at \notin HandlerPlaces
    BY <1>4, AtCall DEF Waiting
  <2>2. v \notin {3, 128}
    BY <1>4
  <2> QED
    BY <1>1, <1>2, <1>4, <2>1, <2>2, EnterIInv
<1> QED
  BY <1>1, <1>3, <1>4

\* What returns with iretq and is not the keyboard's handler.
LEMMA ReturnsIInv ==
  ASSUME IInv, SyscallReturn \/ KgetcReturn \/ Exception1Return
  PROVE  IInv' /\ Quiet
<1>1. {"syscall", "kgetc", "debug_loop", "exception1"} \subseteq Nested
  BY DEF Nested
<1>2. /\ Iret /\ UNCHANGED <<tables, pic, kbd>>
      /\ \E p \in {"syscall", "kgetc", "debug_loop", "exception1"} : At(p)
  BY DEF SyscallReturn, KgetcReturn, Exception1Return, Waiting
<1> QED
  BY <1>1, <1>2, ReturnIInv

LEMMA SyscallExecIInv ==
  ASSUME IInv, SyscallExec
  PROVE  IInv' /\ Quiet
  BY EnterUserIInv DEF SyscallExec

\* kgetc changes the ring only, and no handler runs when it does.
LEMMA KgetcIInv ==
  ASSUME IInv, Kgetc \/ KgetcCall
  PROVE  IInv' /\ Quiet
<1>1. Waiting /\ UNCHANGED <<tables, pic, cpu, kbd>>
  BY DEF Kgetc, KgetcCall
<1>2. UNCHANGED <<frames, intr>>
  BY <1>1 DEF cpu
<1>3. StackOK'
  BY <1>2 DEF IInv, StackOK, Levels, Flags, FlagOf, Top
<1>4. frames[Top].at \notin HandlerPlaces
  BY <1>1, AtCall DEF Waiting
<1>5. ~At("irq1_handler") /\ ~At("store")' /\ Quiet
  BY <1>2, <1>4 DEF At, Quiet, Pending, Top, HandlerPlaces
<1> QED
  BY <1>1, <1>2, <1>3, <1>5, OnlyContexts

-----------------------------------------------------------------------------
(***************************************************************************)
(* Delivery, the keyboard and the timer.                                   *)
(***************************************************************************)
\* Only the keyboard's requests are let through, from the end of the boot
\* code on, and not on top of a handler.
LEMMA DeliverIInv ==
  ASSUME IInv, NEW q \in IRQs, Deliver(q)
  PROVE  /\ IInv' /\ Quiet
         /\ q = 1 /\ At("irq1_handler")' /\ Top' = Top + 1
<1>1. /\ intr = TRUE /\ q \in irr \ imr
      /\ irr' = irr \ {q} /\ isr' = isr \cup {q}
      /\ EnterFrom(frames, base + q, FALSE)
      /\ UNCHANGED <<tables, base, imr, kbd>>
  BY DEF Deliver, IInv, StackOK
<1>2. Top \in 1 .. 2
  BY <1>1 DEF IInv, StackOK, Levels
<1>3. frames[Top].at \notin Deaf
  BY <1>1, <1>2 DEF IInv, StackOK, Flags, FlagOf
<1>4. frames[1].at \in Up
  <2>1. CASE Top = 1
    <3>1. frames[1].at \in Ground \ Deaf
      BY <1>3, <2>1 DEF IInv, StackOK, Levels
    <3>2. frames[1].at # "unmask"
      BY <1>1 DEF IInv, SetUp, IRQs
    <3> QED
      BY <3>1, <3>2 DEF Ground, Deaf, Up
  <2>2. CASE Top = 2
    BY <2>2 DEF IInv, StackOK, Levels, Up
  <2> QED
    BY <1>2, <2>1, <2>2
<1>5. q = 1 /\ base + q = 33
  BY <1>1, <1>4 DEF IInv, SetUp, IRQs, Up
<1>6. 33 \in Handled /\ 33 \notin TakesCodeOf /\ HandlerOf(33) = "irq1_handler"
  BY DEF Handled, TakesCodeOf, HandlerOf
<1>7. Passes(33, FALSE)
  <2>1. FALSE = (33 \in TakesCodeOf)
    BY <1>6
  <2> QED
    BY <1>4, <1>6, <2>1, GateOf DEF IInv, Passes
<1>8. EnterFrom(frames, 33, FALSE)
  BY <1>1, <1>5
<1>9. frames[Top].at \notin HandlerPlaces
  BY <1>3, PlacesKnown
<1>10. /\ StackOK' /\ At("irq1_handler")' /\ Top' = Top + 1
       /\ frames'[1] = frames[1]
  <2>1. StackOK /\ SetUp /\ FALSE \in BOOLEAN
    BY DEF IInv
  <2>2. Top = 1 \/ (Top = 2 /\ 33 \in {14, 33})
    BY <1>2
  <2>3. 33 \in {3, 128} => intr = TRUE
    OBVIOUS
  <2>4. /\ StackOK' /\ At(HandlerOf(33))' /\ Top' = Top + 1
        /\ frames'[1] = frames[1]
    BY <1>4, <1>6, <1>7, <1>8, <1>9, <2>1, <2>2, <2>3, EnterOK
  <2> QED
    BY <1>6, <2>4
<1>11. SetUp'
  <2>1. irr' \subseteq IRQs /\ isr' \subseteq IRQs
    BY <1>1 DEF IInv, SetUp
  <2> QED
    BY <1>1, <1>10, <2>1, SetUpKept DEF IInv
<1>12. PortOK'
  BY <1>1, <1>10 DEF IInv, PortOK, kbd
<1>13. RoomFound' /\ Quiet
  BY <1>9, <1>10 DEF RoomFound, At, Quiet, Pending, HandlerPlaces
<1> QED
  BY <1>5, <1>10, <1>11, <1>12, <1>13 DEF IInv

\* The keyboard and the timer only announce.
LEMMA DevicesIInv ==
  ASSUME IInv, Key \/ Load \/ Tick
  PROVE  IInv'
<1>1. UNCHANGED <<tables, base, imr, isr, intr, frames, early, ring>>
  BY DEF Key, Load, Tick, pic, kbd, cpu
<1>2. irr' \in {irr, irr \cup {0}, irr \cup {1}}
  BY DEF Key, Load, Tick, pic
<1>3. obf' = obf \/ 1 \in irr'
  BY DEF Key, Load, Tick, kbd
<1>4. obf' \in BOOLEAN
  BY DEF Key, Load, Tick, kbd, IInv, PortOK
<1>5. keys' \in 0 .. MaxKeys
  <2>1. keys \in 0 .. MaxKeys
    BY DEF IInv, PortOK
  <2>2. CASE Key
    <3>1. keys < MaxKeys /\ keys' = keys + 1
      BY <2>2 DEF Key
    <3> QED
      BY <2>1, <3>1, BoundAssumption
  <2>3. CASE Load
    <3>1. keys > 0 /\ keys' = keys - 1
      BY <2>3 DEF Load
    <3> QED
      BY <2>1, <3>1, BoundAssumption
  <2>4. CASE Tick
    BY <2>1, <2>4 DEF Tick, kbd
  <2> QED
    BY <2>2, <2>3, <2>4
<1>6. StackOK'
  BY <1>1 DEF IInv, StackOK, Levels, Flags, FlagOf, Top
<1>7. SetUp'
  <2>1. irr' \subseteq IRQs /\ isr' \subseteq IRQs
    BY <1>1, <1>2 DEF IInv, SetUp, IRQs
  <2> QED
    BY <1>1, <2>1, SetUpKept DEF IInv
<1>8. PortOK'
  <2>1. 1 \in irr => 1 \in irr'
    BY <1>2
  <2>2. obf' /\ ~early' => 1 \in irr' \/ At("irq1_handler")'
    BY <1>1, <1>3, <2>1 DEF IInv, PortOK, At, Top
  <2>3. early' \in BOOLEAN
    BY <1>1 DEF IInv, PortOK
  <2> QED
    BY <1>4, <1>5, <2>2, <2>3 DEF PortOK
<1>9. RoomFound'
  BY <1>1 DEF IInv, RoomFound, At, Top, ring, Ring!MaxedOut
<1> QED
  BY <1>6, <1>7, <1>8, <1>9 DEF IInv

-----------------------------------------------------------------------------
(***************************************************************************)
(* The keyboard's handler.                                                 *)
(***************************************************************************)
LEMMA AtHandler ==
  ASSUME IInv, NEW p \in HandlerPlaces, At(p)
  PROVE  /\ p \in Places /\ p \in Nested /\ Top > 1
         /\ intr = FALSE
<1>1. p \in Deaf /\ p \in Nested /\ p \in Places
  BY PlacesKnown DEF Nested
<1>2. Top \in 2 .. 3 /\ intr = FALSE
  BY <1>1, WhereItIs DEF IInv
<1> QED
  BY <1>1, <1>2

\* Its steps from one of its places to another.
LEMMA HandlerStep ==
  ASSUME IInv, NEW p \in HandlerPlaces, NEW q \in HandlerPlaces,
         At(p), frames' = Goto(q), UNCHANGED intr
  PROVE  /\ StackOK' /\ At(q)' /\ frames'[1] = frames[1] /\ Top' = Top
         /\ frames'[Top].val = frames[Top].val
<1>1. /\ p \in Places /\ q \in Places /\ p \in Nested /\ intr = FALSE
      /\ q \notin Open
  <2>1. q \in Nested /\ q \in Deaf
    BY PlacesKnown DEF Nested
  <2> QED
    BY <2>1, AtHandler, PlacesKnown
<1>2. intr' = FALSE /\ intr' \in BOOLEAN
  BY <1>1
<1> QED
  BY <1>1, <1>2, GotoOK DEF IInv

LEMMA Irq1ReadIInv ==
  ASSUME IInv, Irq1Read
  PROVE  IInv' /\ Quiet
<1>1. /\ At("irq1_handler") /\ obf' = FALSE
      /\ \/ \E ch \in Char :
              frames' = [frames EXCEPT ![Top].at = "write_char",
                                       ![Top].val = ch]
         \/ frames' = Goto("eoi")
      /\ UNCHANGED <<tables, pic, intr, keys, early, ring>>
  BY DEF Irq1Read, TakesCode
<1>2. {"irq1_handler", "write_char", "eoi"} \subseteq HandlerPlaces
  BY DEF HandlerPlaces
<1>3. StackOK' /\ frames'[1] = frames[1] /\ ~At("store")' /\ ~Pending'
  <2>1. CASE frames' = Goto("eoi")
    BY <1>1, <1>2, <2>1, HandlerStep DEF At, Pending
  <2>2. CASE \E ch \in Char :
               frames' = [frames EXCEPT ![Top].at = "write_char",
                                        ![Top].val = ch]
    <3>1. PICK ch \in Char :
            frames' = [frames EXCEPT ![Top].at = "write_char", ![Top].val = ch]
      BY <2>2
    <3> DEFINE g == [[frames[Top] EXCEPT !.at = "write_char"] EXCEPT !.val = ch]
    <3>2. /\ "write_char" \in Places /\ "write_char" \in Deepest
          /\ "write_char" \notin Open
      BY DEF Places, Deepest, HandlerPlaces, Open
    <3>3. Top > 1 /\ intr = FALSE
      BY <1>1, <1>2, AtHandler
    <3>4. /\ frames \in Seq(Context) /\ Len(frames) = Top /\ Top \in 1 .. 3
          /\ frames[Top] \in Context
      BY DEF IInv, StackOK, Top
    <3>5. /\ g \in Context /\ g.at = "write_char"
          /\ g.flag = frames[Top].flag
      <4>0. frames[Top] \in Context
        BY <3>4
      <4>1. PICK f \in Context : f = frames[Top]
        BY <4>0
      <4>2. g = [[f EXCEPT !.at = "write_char"] EXCEPT !.val = ch]
        BY <4>1
      <4> HIDE DEF g
      <4>3. g \in Context /\ g.at = "write_char" /\ g.flag = f.flag
        BY <3>2, <4>2 DEF Context
      <4> QED
        BY <4>1, <4>3
    <3>6. frames' = [frames EXCEPT ![Top] = g]
      BY <3>1, <3>4
    <3> HIDE DEF g
    <3>7. Top \in 1 .. Len(frames)
      BY <3>4
    <3>8. /\ frames' \in Seq(Context) /\ Len(frames') = Len(frames)
          /\ frames'[Top] = g
          /\ \A j \in 1 .. Len(frames) : j # Top => frames'[j] = frames[j]
      <4>1. g \in Context
        BY <3>5
      <4>2. /\ [frames EXCEPT ![Top] = g] \in Seq(Context)
            /\ Len([frames EXCEPT ![Top] = g]) = Len(frames)
            /\ [frames EXCEPT ![Top] = g][Top] = g
            /\ \A j \in 1 .. Len(frames) :
                  j # Top => [frames EXCEPT ![Top] = g][j] = frames[j]
        BY <3>4, <3>7, <4>1, SeqReplace
      <4> QED
        BY <3>6, <4>2
    <3>9. /\ Top' = Top /\ frames'[Top].at = "write_char"
          /\ frames'[Top].flag = frames[Top].flag
          /\ \A k \in 1 .. Top - 1 : frames'[k] = frames[k]
      BY <3>4, <3>5, <3>8 DEF Top
    <3>10. intr' = FALSE /\ intr' \in BOOLEAN
      BY <1>1, <3>3
    <3>11. "write_char" \in Nested
      BY <3>2, PlacesKnown
    <3>12. StackOK'
      <4>1. /\ StackOK
            /\ "write_char" \in Open => intr' = TRUE
            /\ Top = 1 => "write_char" \in Ground
        BY <3>2, <3>3 DEF IInv
      <4> QED
        BY <3>2, <3>8, <3>9, <3>10, <3>11, <4>1, GoneOnOK
    <3>13. frames'[1] = frames[1] /\ ~At("store")' /\ ~Pending'
      BY <3>3, <3>4, <3>9 DEF At, Pending
    <3> QED
      BY <3>12, <3>13
  <2> QED
    BY <1>1, <2>1, <2>2
<1>4. SetUp'
  BY <1>1, <1>3, SetUpKept DEF IInv, SetUp, pic
<1>5. PortOK'
  BY <1>1 DEF IInv, PortOK
<1>6. RoomFound'
  BY <1>3 DEF RoomFound
<1>7. Quiet
  BY <1>1, <1>3 DEF Quiet, Pending, At
<1> QED
  BY <1>3, <1>4, <1>5, <1>6, <1>7 DEF IInv

\* write_char goes on to its stores only when there is room.
LEMMA Irq1AcceptsIInv ==
  ASSUME IInv, Irq1Accepts
  PROVE  IInv' /\ Quiet
<1>1. /\ At("write_char") /\ ~Ring!MaxedOut /\ frames' = Goto("store")
      /\ UNCHANGED <<tables, pic, intr, kbd, ring>>
  BY DEF Irq1Accepts
<1>2. {"write_char", "store"} \subseteq HandlerPlaces
  BY DEF HandlerPlaces
<1>3. StackOK' /\ At("store")' /\ frames'[1] = frames[1]
  BY <1>1, <1>2, HandlerStep
<1>4. SetUp'
  BY <1>1, <1>3, SetUpKept DEF IInv, SetUp, pic
<1>5. PortOK'
  BY <1>1 DEF IInv, PortOK, At, kbd, pic
<1>6. RoomFound'
  BY <1>1 DEF RoomFound, ring, Ring!MaxedOut
<1>7. Quiet
  BY <1>1, <1>3 DEF Quiet, Pending, At
<1> QED
  BY <1>3, <1>4, <1>5, <1>6, <1>7 DEF IInv

\* The others leave the controllers and the keyboard alone,
LEMMA Irq1StoresIInv ==
  ASSUME IInv, Irq1Drops \/ Irq1Store \/ Irq1Count \/ Irq1Wrap
  PROVE  IInv'
<1>1. /\ UNCHANGED <<tables, pic, intr, kbd>>
      /\ \E p \in {"write_char", "store", "count", "wrap"},
            q \in {"count", "wrap", "eoi"} : At(p) /\ frames' = Goto(q)
  BY DEF Irq1Drops, Irq1Store, Irq1Count, Irq1Wrap
<1>2. PICK p \in {"write_char", "store", "count", "wrap"},
           q \in {"count", "wrap", "eoi"} : At(p) /\ frames' = Goto(q)
  BY <1>1
<1>3. p \in HandlerPlaces /\ q \in HandlerPlaces
  BY DEF HandlerPlaces
<1>4. StackOK' /\ At(q)' /\ frames'[1] = frames[1]
  BY <1>1, <1>2, <1>3, HandlerStep
<1>5. ~At("irq1_handler") /\ ~At("store")'
  BY <1>2, <1>4 DEF At
<1> QED
  BY <1>1, <1>4, <1>5, OnlyContexts

\* but for the acknowledgement.
LEMMA Irq1EoiIInv ==
  ASSUME IInv, Irq1Eoi
  PROVE  IInv' /\ Quiet
<1>1. /\ At("eoi") /\ isr' = isr \ {1} /\ frames' = Goto("iret")
      /\ UNCHANGED <<tables, base, imr, irr, intr, kbd>>
  BY DEF Irq1Eoi, Acknowledges
<1>2. {"eoi", "iret"} \subseteq HandlerPlaces
  BY DEF HandlerPlaces
<1>3. StackOK' /\ At("iret")' /\ frames'[1] = frames[1]
  BY <1>1, <1>2, HandlerStep
<1>4. SetUp'
  BY <1>1, <1>3, SetUpKept DEF IInv, SetUp
<1>5. PortOK'
  BY <1>1 DEF IInv, PortOK, At, kbd
<1>6. RoomFound' /\ Quiet
  BY <1>1, <1>3 DEF RoomFound, At, Quiet, Pending
<1> QED
  BY <1>3, <1>4, <1>5, <1>6 DEF IInv

LEMMA Irq1IretIInv ==
  ASSUME IInv, Irq1Iret
  PROVE  IInv' /\ Quiet
<1>1. /\ At("iret") /\ Iret /\ UNCHANGED <<tables, pic, kbd>>
  BY DEF Irq1Iret
<1>2. "iret" \in Nested
  BY DEF Nested, HandlerPlaces
<1> QED
  BY <1>1, <1>2, ReturnIInv

LEMMA NextIInv == IInv /\ [Next]_vars => IInv'
<1> SUFFICES ASSUME IInv, [Next]_vars PROVE IInv'
  OBVIOUS
<1>1. CASE Boot
  BY <1>1, GdtSetupIInv, IdtSetupIInv, PicRemapIInv, PicMaskIInv, StiIInv,
     UnmaskIInv, BreakIInv, ExecuteInitIInv DEF Boot
<1>2. CASE Program
  BY <1>2, SyscallIInv, SoftwareIntIInv, SyscallReadIInv, SyscallExecIInv,
     ReturnsIInv, KgetcIInv, ExceptionIInv DEF Program
<1>3. CASE Kgetc
  BY <1>3, KgetcIInv
<1>4. CASE Irq1
  BY <1>4, Irq1ReadIInv, Irq1AcceptsIInv, Irq1StoresIInv, Irq1EoiIInv,
     Irq1IretIInv DEF Irq1
<1>5. CASE Delivery
  BY <1>5, DeliverIInv DEF Delivery
<1>6. CASE Key \/ Load \/ Tick
  BY <1>6, DevicesIInv
<1>7. CASE UNCHANGED vars
  <2>1. UNCHANGED <<gdt, gdt_size, rsp0, idt, base, imr, irr, isr, intr, frames>>
    BY <1>7 DEF vars, tables, pic, cpu
  <2>2. UNCHANGED <<keys, obf, early, avail, readhead, writehead>>
    BY <1>7 DEF vars, kbd, ring
  <2>3. StackOK'
    BY <2>1 DEF IInv, StackOK, Levels, Flags, FlagOf, Top
  <2>4. SetUp'
    BY <2>1 DEF IInv, SetUp, Segment
  <2>5. PortOK'
    BY <2>1, <2>2 DEF IInv, PortOK, At, Top
  <2>6. RoomFound'
    <3>1. At("store")' <=> At("store")
      BY <2>1 DEF At, Top
    <3>2. Ring!MaxedOut' <=> Ring!MaxedOut
      BY <2>2 DEF Ring!MaxedOut
    <3> QED
      BY <3>1, <3>2 DEF IInv, RoomFound
  <2> QED
    BY <2>3, <2>4, <2>5, <2>6 DEF IInv
<1> QED
  BY <1>1, <1>2, <1>3, <1>4, <1>5, <1>6, <1>7 DEF Next

-----------------------------------------------------------------------------
(***************************************************************************)
(* The stack of contexts, the tables, the controllers and the keyboard     *)
(* stay as described.                                                      *)
(***************************************************************************)
THEOREM MachineInvariant == Spec => []IInv
<1>1. QED
  BY InitIInv, NextIInv, PTL DEF Spec

(***************************************************************************)
(* Every variable of the machine keeps to its range, and contexts nest at  *)
(* most three deep.                                                        *)
(***************************************************************************)
THEOREM MachineTyped == Spec => []TypeOK
<1>1. IInv => TypeOK
  BY DEF IInv, StackOK, SetUp, PortOK, TypeOK, Top, Context
<1> QED
  BY <1>1, MachineInvariant, PTL

(***************************************************************************)
(* Every interrupt and every exception that the hardware raises finds a    *)
(* handler that takes what was pushed; a program's int n finds one too,    *)
(* or one that takes an error code where none was pushed (idt.c:513).      *)
(***************************************************************************)
THEOREM MachineNoStray == Spec => []NoStray
<1>1. IInv => NoStray
  <2> SUFFICES ASSUME IInv PROVE frames[Top].at # "stray"
    BY DEF NoStray, At
  <2>1. Top \in 1 .. 3
    BY DEF IInv, StackOK
  <2> QED
    BY <2>1
    DEF IInv, StackOK, Levels, Ground, Nested, Deepest, HandlerPlaces
<1> QED
  BY <1>1, MachineInvariant, PTL

(***************************************************************************)
(* Whoever waits for a key can be interrupted by one.                      *)
(***************************************************************************)
THEOREM MachineWaitsListening == Spec => []WaitsListening
<1>1. IInv => WaitsListening
  BY AtCall DEF WaitsListening, Waiting
<1> QED
  BY <1>1, MachineInvariant, PTL

(***************************************************************************)
(* The keyboard's handler is never entered while it runs.                  *)
(***************************************************************************)
THEOREM MachineHandlerAlone == Spec => []HandlerAlone
<1>1. IInv => HandlerAlone
  <2> SUFFICES ASSUME IInv PROVE Cardinality(InHandler) <= 1
    BY DEF HandlerAlone
  <2>1. InHandler \subseteq {Top}
    BY HandlerOnTop DEF IInv, InHandler
  <2>2. InHandler = {} \/ InHandler = {Top}
    BY <2>1
  <2>3. Cardinality({}) = 0 /\ Cardinality({Top}) = 1
    BY FS_EmptySet, FS_Singleton
  <2> QED
    BY <2>2, <2>3
<1> QED
  BY <1>1, MachineInvariant, PTL

(***************************************************************************)
(* A scan code in the port is announced until the handler reads it, unless *)
(* it was there before the controller was reset.                           *)
(***************************************************************************)
THEOREM MachinePortAnnounced == Spec => []PortAnnounced
<1>1. IInv => PortAnnounced
  <2> SUFFICES ASSUME IInv, obf, ~early
               PROVE  \/ 1 \in irr
                      \/ \E k \in InHandler : frames[k].at = "irq1_handler"
    BY DEF PortAnnounced
  <2>1. CASE At("irq1_handler")
    <3>1. Top \in 1 .. Top
      BY DEF IInv, StackOK
    <3>2. Top \in InHandler
      BY <2>1, <3>1 DEF InHandler, At, HandlerPlaces
    <3> QED
      BY <2>1, <3>2 DEF At
  <2> QED
    BY <2>1 DEF IInv, PortOK
<1> QED
  BY <1>1, MachineInvariant, PTL

-----------------------------------------------------------------------------
(***************************************************************************)
(* The ring of the machine is the ring of KeyRing: write_char has done all *)
(* its stores at the first of them, and before the last nobody else looks. *)
(***************************************************************************)
LEMMA Behinds ==
  StackOK => /\ Behind("count") <=> At("count")
             /\ Behind("wrap") <=> At("wrap")
<1> SUFFICES ASSUME StackOK, NEW p \in {"count", "wrap"}
             PROVE  Behind(p) <=> At(p)
  OBVIOUS
<1>1. p \in HandlerPlaces /\ Top \in 1 .. Top
  BY DEF HandlerPlaces, StackOK
<1>2. Behind(p) => At(p)
  BY <1>1, HandlerOnTop DEF Behind, At
<1>3. At(p) => Behind(p)
  BY <1>1 DEF Behind, At
<1> QED
  BY <1>2, <1>3

LEMMA BehindsNext ==
  StackOK' => /\ Behind("count")' <=> At("count")'
              /\ Behind("wrap")' <=> At("wrap")'
  BY Behinds, PTL

LEMMA NothingPends ==
  ASSUME IInv, IInv', Quiet
  PROVE  /\ ~Behind("count") /\ ~Behind("wrap")
         /\ ~Behind("count")' /\ ~Behind("wrap")'
  BY Behinds, BehindsNext DEF IInv, Quiet, Pending

LEMMA InitRefines == Init => MachineRing!Init
<1> SUFFICES ASSUME Init PROVE MachineRing!Init
  OBVIOUS
<1>1. ~Behind("count") /\ ~Behind("wrap")
  BY DEF Init, Behind, Top
<1>2. Ring!Init
  BY DEF Init
<1> QED
  BY <1>1, <1>2 DEF Ring!Init, MachineRing!Init, Ring!Slots, MachineRing!Slots

\* Steps of neither kgetc nor write_char.
LEMMA QuietRefines ==
  ASSUME IInv, IInv', Quiet, UNCHANGED ring
  PROVE  UNCHANGED MachineRing!vars
  BY NothingPends DEF ring, MachineRing!vars

LEMMA KgetcRefines ==
  ASSUME IInv, Kgetc \/ KgetcCall
  PROVE  MachineRing!Next
<1>1. /\ ~Behind("count") /\ ~Behind("wrap")
      /\ ~Behind("count")' /\ ~Behind("wrap")'
  BY KgetcIInv, NothingPends
<1>2. CASE Ring!KgetcCall
  BY <1>1, <1>2
  DEF Ring!KgetcCall, Ring!ring, MachineRing!KgetcCall, MachineRing!ring,
      MachineRing!Next
<1>3. CASE Ring!KgetcStep
  <2>1. CASE Ring!KgetcSpin
    BY <1>1, <2>1
    DEF Ring!KgetcSpin, Ring!ring, MachineRing!KgetcSpin, MachineRing!ring,
        MachineRing!KgetcStep, MachineRing!Next
  <2>2. CASE Ring!KgetcLoad
    BY <1>1, <2>2
    DEF Ring!KgetcLoad, Ring!ring, MachineRing!KgetcLoad, MachineRing!ring,
        MachineRing!KgetcStep, MachineRing!Next
  <2>3. CASE Ring!KgetcClear
    BY <1>1, <2>3
    DEF Ring!KgetcClear, MachineRing!KgetcClear,
        MachineRing!KgetcStep, MachineRing!Next
  <2>4. CASE Ring!KgetcAdvance
    BY <1>1, <2>4
    DEF Ring!KgetcAdvance, MachineRing!KgetcAdvance,
        MachineRing!KgetcStep, MachineRing!Next
  <2>5. CASE Ring!KgetcCount
    BY <1>1, <2>5
    DEF Ring!KgetcCount, MachineRing!KgetcCount,
        MachineRing!KgetcStep, MachineRing!Next
  <2> QED
    BY <1>3, <2>1, <2>2, <2>3, <2>4, <2>5 DEF Ring!KgetcStep
<1> QED
  BY <1>2, <1>3 DEF Kgetc, KgetcCall

LEMMA DropsRefines ==
  ASSUME IInv, Irq1Drops
  PROVE  MachineRing!Next
<1>1. /\ At("write_char") /\ frames' = Goto("eoi") /\ UNCHANGED intr
      /\ Ring!MaxedOut /\ lostAt' = Ring!SlotsInUse
      /\ UNCHANGED <<buffer, readhead, writehead, avail, kpc, c, unread>>
  BY DEF Irq1Drops
<1>2. {"write_char", "eoi"} \subseteq HandlerPlaces
  BY DEF HandlerPlaces
<1>3. At("eoi")' /\ IInv'
  BY <1>1, <1>2, HandlerStep, Irq1StoresIInv
<1>4. /\ ~Behind("count") /\ ~Behind("wrap")
      /\ ~Behind("count")' /\ ~Behind("wrap")'
  BY <1>1, <1>3, NothingPends DEF Quiet, Pending, At
<1>5. MachineRing!write_char(NUL)
  BY <1>1, <1>4
  DEF MachineRing!write_char, Ring!MaxedOut, MachineRing!MaxedOut,
      Ring!SlotsInUse, Ring!Held, MachineRing!SlotsInUse, MachineRing!Held,
      MachineRing!ring
<1>6. MachineRing!Irq1
  BY <1>1, <1>5, RingAssumption DEF MachineRing!Irq1
<1> QED
  BY <1>6 DEF MachineRing!Next

\* The first of write_char's stores stands for all three.
LEMMA StoreRefines ==
  ASSUME IInv, Irq1Store
  PROVE  MachineRing!Next
<1>1. /\ At("store") /\ frames' = Goto("count") /\ UNCHANGED intr
      /\ buffer' = [buffer EXCEPT ![writehead] = frames[Top].val]
      /\ unread' = Append(unread, frames[Top].val)
      /\ UNCHANGED <<readhead, writehead, avail, kpc, c, lostAt>>
  BY DEF Irq1Store
<1>2. {"store", "count"} \subseteq HandlerPlaces
  BY DEF HandlerPlaces
<1>3. At("count")' /\ StackOK'
  BY <1>1, <1>2, HandlerStep
<1>4. ~Behind("count") /\ ~Behind("wrap") /\ Behind("count")'
  BY <1>1, <1>3, Behinds, BehindsNext DEF IInv, At
<1>5. ~Ring!MaxedOut
  BY <1>1 DEF IInv, RoomFound
<1>6. frames[Top].val \in Char
  <2>1. frames[Top] \in Context
    BY DEF IInv, StackOK, Top
  <2> QED
    BY <2>1 DEF Context
<1>7. MachineRing!write_char(frames[Top].val)
  <2>1. ~MachineRing!MaxedOut
    BY <1>4, <1>5 DEF Ring!MaxedOut, MachineRing!MaxedOut
  <2> DEFINE a == IF Behind("count") THEN (avail + 1) % 65536 ELSE avail
             w == IF Behind("count") \/ Behind("wrap")
                  THEN (writehead + 1) % BUFFER_LEN ELSE writehead
  <2>2. a = avail /\ w = writehead
    BY <1>4
  <2>3. /\ a' = (avail + 1) % 65536
        /\ w' = (writehead + 1) % BUFFER_LEN
    BY <1>1, <1>4
  <2> HIDE DEF a, w
  <2>4. a' = (a + 1) % 65536 /\ w' = (w + 1) % BUFFER_LEN
    BY <2>2, <2>3
  <2>5. buffer' = [buffer EXCEPT ![w] = frames[Top].val]
    BY <1>1, <2>2, Zenon
  <2>6. unread' = Append(unread, frames[Top].val) /\ UNCHANGED <<readhead, lostAt>>
    BY <1>1
  <2> USE DEF a, w
  <2> QED
    BY <2>1, <2>4, <2>5, <2>6 DEF MachineRing!write_char
<1>8. MachineRing!Irq1
  BY <1>1, <1>6, <1>7 DEF MachineRing!Irq1
<1> QED
  BY <1>8 DEF MachineRing!Next

LEMMA CountRefines ==
  ASSUME IInv, Irq1Count
  PROVE  UNCHANGED MachineRing!vars
<1>1. /\ At("count") /\ frames' = Goto("wrap") /\ UNCHANGED intr
      /\ avail' = (avail + 1) % 65536
      /\ UNCHANGED <<buffer, readhead, writehead, kpc, c, unread, lostAt>>
  BY DEF Irq1Count, Counted
<1>2. {"count", "wrap"} \subseteq HandlerPlaces
  BY DEF HandlerPlaces
<1>3. At("wrap")' /\ StackOK'
  BY <1>1, <1>2, HandlerStep
<1>4. Behind("count") /\ ~Behind("count")' /\ Behind("wrap")'
  BY <1>1, <1>3, Behinds, BehindsNext DEF IInv, At
<1> QED
  BY <1>1, <1>4 DEF MachineRing!vars

LEMMA WrapRefines ==
  ASSUME IInv, Irq1Wrap
  PROVE  UNCHANGED MachineRing!vars
<1>1. /\ At("wrap") /\ frames' = Goto("eoi") /\ UNCHANGED intr
      /\ writehead' = (writehead + 1) % BUFFER_LEN
      /\ UNCHANGED <<buffer, readhead, avail, kpc, c, unread, lostAt>>
  BY DEF Irq1Wrap, Wrapped
<1>2. {"wrap", "eoi"} \subseteq HandlerPlaces
  BY DEF HandlerPlaces
<1>3. At("eoi")' /\ StackOK'
  BY <1>1, <1>2, HandlerStep
<1>4. /\ Behind("wrap") /\ ~Behind("count")
      /\ ~Behind("count")' /\ ~Behind("wrap")'
  BY <1>1, <1>3, Behinds, BehindsNext DEF IInv, At
<1> QED
  BY <1>1, <1>4 DEF MachineRing!vars

LEMMA NextRefines ==
  IInv /\ [Next]_vars => [MachineRing!Next]_(MachineRing!vars)
<1> SUFFICES ASSUME IInv, [Next]_vars
             PROVE  MachineRing!Next \/ UNCHANGED MachineRing!vars
  OBVIOUS
<1>1. CASE Boot
  <2>1. IInv' /\ Quiet
    BY <1>1, GdtSetupIInv, IdtSetupIInv, PicRemapIInv, PicMaskIInv, StiIInv,
       UnmaskIInv, BreakIInv, ExecuteInitIInv DEF Boot
  <2>2. UNCHANGED ring
    BY <1>1 DEF Boot, GdtSetup, IdtSetup, PicRemap, PicMask, Sti, Unmask,
       Break, ExecuteInit
  <2> QED
    BY <2>1, <2>2, QuietRefines
<1>2. CASE Program /\ ~KgetcCall
  <2>1. IInv' /\ Quiet
    BY <1>2, SyscallIInv, SoftwareIntIInv, SyscallReadIInv, SyscallExecIInv,
       ReturnsIInv, ExceptionIInv DEF Program
  <2>2. UNCHANGED ring
    BY <1>2 DEF Program, Syscall, SoftwareInt, SyscallRead, SyscallReturn,
       SyscallExec, KgetcReturn, Exception, Exception1Return
  <2> QED
    BY <2>1, <2>2, QuietRefines
<1>3. CASE Kgetc \/ KgetcCall
  BY <1>3, KgetcRefines
<1>4. CASE Irq1Read \/ Irq1Accepts \/ Irq1Eoi \/ Irq1Iret
  <2>1. IInv' /\ Quiet
    BY <1>4, Irq1ReadIInv, Irq1AcceptsIInv, Irq1EoiIInv, Irq1IretIInv
  <2>2. UNCHANGED ring
    BY <1>4 DEF Irq1Read, Irq1Accepts, Irq1Eoi, Irq1Iret
  <2> QED
    BY <2>1, <2>2, QuietRefines
<1>5. CASE Irq1Drops
  BY <1>5, DropsRefines
<1>6. CASE Irq1Store
  BY <1>6, StoreRefines
<1>7. CASE Irq1Count
  BY <1>7, CountRefines
<1>8. CASE Irq1Wrap
  BY <1>8, WrapRefines
<1>9. CASE Delivery
  <2>1. IInv' /\ Quiet
    BY <1>9, DeliverIInv DEF Delivery
  <2>2. UNCHANGED ring
    BY <1>9 DEF Delivery, Deliver
  <2> QED
    BY <2>1, <2>2, QuietRefines
<1>10. CASE Key \/ Load \/ Tick \/ UNCHANGED vars
  <2>1. UNCHANGED <<frames, ring>>
    BY <1>10 DEF Key, Load, Tick, vars, cpu
  <2> QED
    BY <2>1 DEF ring, MachineRing!vars, Behind, Top
<1> QED
  BY <1>1, <1>2, <1>3, <1>4, <1>5, <1>6, <1>7, <1>8, <1>9, <1>10
  DEF Next, Program, Irq1

(***************************************************************************)
(* With its stores one at a time, in every context and whichever contexts  *)
(* are given up, write_char is a single step to kgetc.                     *)
(***************************************************************************)
THEOREM MachineImplementsRing == Spec => RingSpec
<1>1. QED
  BY InitRefines, NextRefines, MachineInvariant, PTL
  DEF Spec, RingSpec, MachineRing!Spec

-----------------------------------------------------------------------------
\* What KeyRingProofs proves of a ring, of the machine's.
RingFacts == INSTANCE KeyRingProofs WITH
  avail <- IF Behind("count") THEN (avail + 1) % 65536 ELSE avail,
  writehead <- IF Behind("count") \/ Behind("wrap")
               THEN (writehead + 1) % BUFFER_LEN ELSE writehead

LEMMA SameRing ==
  /\ MachineRing!Init => RingFacts!Init
  /\ [MachineRing!Next]_(MachineRing!vars) => [RingFacts!Next]_(RingFacts!vars)
  /\ RingFacts!RingMatches => MachineRing!RingMatches
<1>1. MachineRing!Init => RingFacts!Init
  BY DEF MachineRing!Init, RingFacts!Init, MachineRing!Slots, RingFacts!Slots
<1>2. [MachineRing!Next]_(MachineRing!vars) => [RingFacts!Next]_(RingFacts!vars)
  BY DEF MachineRing!Next, RingFacts!Next, MachineRing!vars, RingFacts!vars,
    MachineRing!ring, RingFacts!ring,
    MachineRing!KgetcCall, RingFacts!KgetcCall,
    MachineRing!KgetcStep, RingFacts!KgetcStep,
    MachineRing!KgetcSpin, RingFacts!KgetcSpin,
    MachineRing!KgetcLoad, RingFacts!KgetcLoad,
    MachineRing!KgetcClear, RingFacts!KgetcClear,
    MachineRing!KgetcAdvance, RingFacts!KgetcAdvance,
    MachineRing!KgetcCount, RingFacts!KgetcCount,
    MachineRing!Irq1, RingFacts!Irq1,
    MachineRing!write_char, RingFacts!write_char,
    MachineRing!MaxedOut, RingFacts!MaxedOut,
    MachineRing!SlotsInUse, RingFacts!SlotsInUse,
    MachineRing!Held, RingFacts!Held
<1>3. RingFacts!RingMatches => MachineRing!RingMatches
  BY DEF MachineRing!RingMatches, RingFacts!RingMatches,
    MachineRing!HeadsDelimit, RingFacts!HeadsDelimit,
    MachineRing!SlotsHoldUnread, RingFacts!SlotsHoldUnread,
    MachineRing!SlotsInUse, RingFacts!SlotsInUse,
    MachineRing!Held, RingFacts!Held,
    MachineRing!Ahead, RingFacts!Ahead
<1> QED
  BY <1>1, <1>2, <1>3

(***************************************************************************)
(* So in the running machine too, whatever is interrupted or given up,     *)
(* the ring of pic.c holds the keys that were stored and not yet handed    *)
(* out, all of them and in the order they were typed.                      *)
(***************************************************************************)
THEOREM MachineRingMatches == Spec => []MachineRing!RingMatches
<1>1. RingFacts!Spec => []RingFacts!RingMatches
  BY RingFacts!RingMatchesQueue, RingAssumption
<1> QED
  BY <1>1, SameRing, MachineImplementsRing, PTL
  DEF RingSpec, MachineRing!Spec, RingFacts!Spec

=============================================================================
