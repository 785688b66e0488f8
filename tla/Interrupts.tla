----------------------------- MODULE Interrupts -----------------------------
(***************************************************************************)
(* How an interrupt finds its way: the descriptors of kernel/gdt.c, the    *)
(* gates of kernel/idt.c, the interrupt controller as pic_init programs    *)
(* it, the interrupt flag, and the contexts that lie on the stack, from    *)
(* the boot code in kernel/boot.c to a program that calls the kernel.  The *)
(* keyboard's handler and kgetc share the ring of kernel/pic.c, whose      *)
(* state, and kgetc's steps, are those of KeyRing; the handler makes its   *)
(* stores one at a time here, and that nothing comes between them is a     *)
(* result (RingSpec).                                                      *)
(*                                                                         *)
(* A gate of type "interrupt" clears the flag on entry and a gate of type  *)
(* "trap" leaves it; iretq restores the flag that was pushed.  System      *)
(* calls and breakpoints wait for keys in kgetc, so they need the flag.    *)
(* Every gate may be used by a program (dpl 3, where the comment at        *)
(* idt.c:486 has 0): besides its system calls a program may execute int n  *)
(* for any n.                                                              *)
(*                                                                         *)
(* The processor and the controllers of interrupts (8259, edge-triggered)  *)
(* and of the keyboard (8042) are external: their model is what the code   *)
(* relies on.  What a scan code stands for is in Keyboard, what the        *)
(* debugger makes of characters in Debugger, and what read does with them  *)
(* in ReadSyscall.  early, unread and lostAt are history variables.        *)
(***************************************************************************)
EXTENDS Integers, Sequences, FiniteSets

CONSTANTS
  BUFFER_LEN, Char, NUL,   \* of KeyRing
  MaxKeys                  \* bound: scan codes waiting in the keyboard

ASSUME BoundAssumption == MaxKeys \in Nat \ {0}
ASSUME RingAssumption ==
  BUFFER_LEN \in Nat \ {0} /\ BUFFER_LEN < 65535 /\ NUL \in Char

VARIABLES
  gdt,        \* the access byte at each selector, 0 where there is none
  gdt_size,
  rsp0,       \* the task state has a stack for programs' interrupts
  idt,        \* for each vector its [handler, type, dpl], "absent" at first
  base,       \* vector of IRQ 0
  imr, irr, isr,   \* IRQs masked, requested and in service
  intr,       \* the interrupt flag, IF
  frames,     \* contexts, innermost last: [at |-> where, flag |-> intr to
              \* restore, val |-> the handler's character]
  keys,       \* scan codes in the keyboard
  obf,        \* a scan code waits to be read at port 0x60
  early,      \* history: one did when the interrupt controller was reset
  buffer, readhead, writehead, avail, kpc, c, unread, lostAt  \* of KeyRing

tables == <<gdt, gdt_size, rsp0, idt>>
pic == <<base, imr, irr, isr>>
cpu == <<intr, frames>>
kbd == <<keys, obf, early>>
ring == <<buffer, readhead, writehead, avail, kpc, c, unread, lostAt>>
vars == <<tables, pic, cpu, kbd, ring>>

Ring == INSTANCE KeyRing

IRQs == {0, 1}                   \* the timer and the keyboard
Vectors == 0 .. 33 \cup {128}
Absent == [handler |-> "none", type |-> "absent", dpl |-> 0]

\* Offsets into the descriptor table, eight bytes each; that of the task
\* state takes two.
KERNEL_CODE_SELECTOR == 40
KERNEL_DATA_SELECTOR == 48
USER_CODE_SELECTOR == 56
USER_DATA_SELECTOR == 64
TSS_SELECTOR == 72
Selectors == {8 * n : n \in 0 .. 10}

\* The bootloader hands over with interrupts disabled.
Init ==
  /\ Ring!Init
  /\ gdt = [s \in Selectors |-> 0]
  /\ gdt_size = 0
  /\ rsp0 = FALSE
  /\ idt = [v \in Vectors |-> Absent]
  /\ base = 8
  /\ imr \in SUBSET IRQs
  /\ irr = {}
  /\ isr = {}
  /\ intr = FALSE
  /\ frames = <<[at |-> "gdt_setup", flag |-> FALSE, val |-> NUL]>>
  /\ keys = 0
  /\ obf = FALSE
  /\ early = FALSE

Top == Len(frames)
At(p) == frames[Top].at = p
Goto(p) == [frames EXCEPT ![Top].at = p]

HandlerPlaces ==
  {"irq1_handler", "write_char", "store", "count", "wrap", "eoi", "iret"}

Waiting == At("kgetc") \/ At("debug_loop")
InHandler == {k \in 1 .. Top : frames[k].at \in HandlerPlaces}
Halted == At("halt") \/ At("misread") \/ At("stray")

-----------------------------------------------------------------------------
(***************************************************************************)
(* Mutants: definitions of this module with a mistake in them.  Nothing    *)
(* refers to them here; each shows that a property below can fail.         *)
(***************************************************************************)
\* System calls go through the type of gate that every other vector has.
TrapGatesBreakpoint == {3, 4}

\* The keyboard has the type of gate that system calls have.
TrapGatesKeyboard == {3, 4, 33, 128}

\* pic_init leaves the masks as initialization made them, all clear.
MaskAllNot == imr' = imr

\* A code the ring has no room for is not acknowledged.
AcknowledgesFull == avail < BUFFER_LEN

\* The handler leaves the code in the port when the ring is full.
TakesCodeFull == avail < BUFFER_LEN

\* The first character in an empty ring is not counted.
CountedNot == IF avail = 0 THEN 0 ELSE (avail + 1) % 65536

\* writehead runs off the end of the buffer.
WrappedNot == writehead + 1

-----------------------------------------------------------------------------
\* Access bytes: present (128), privilege (96), not a system segment (16),
\* code (8).
gdt_code_descriptor(user) == 154 + (IF user THEN 96 ELSE 0)
gdt_data_descriptor(user) == 146 + (IF user THEN 96 ELSE 0)
gdt_tss_descriptor == 137

\* The descriptors, the size, which grows with each, and the stack.
GdtSetup ==
  /\ At("gdt_setup")
  /\ gdt' = [gdt EXCEPT
               ![KERNEL_CODE_SELECTOR] = gdt_code_descriptor(FALSE),
               ![KERNEL_DATA_SELECTOR] = gdt_data_descriptor(FALSE),
               ![USER_CODE_SELECTOR] = gdt_code_descriptor(TRUE),
               ![USER_DATA_SELECTOR] = gdt_data_descriptor(TRUE),
               ![TSS_SELECTOR] = gdt_tss_descriptor]
  /\ gdt_size' = TSS_SELECTOR + 16
  /\ rsp0' = TRUE
  /\ frames' = Goto("idt_setup")
  /\ UNCHANGED <<idt, pic, intr, kbd, ring>>

\* The processor finds such a segment there.
Segment(s, code, privilege) ==
  /\ s + 8 <= gdt_size
  /\ gdt[s] \div 128 = 1
  /\ (gdt[s] \div 32) % 4 = privilege
  /\ (gdt[s] \div 8) % 4 = 2 + (IF code THEN 1 ELSE 0)

TrapGates == {3, 4, 128}

\* 0 to 20 are example_handler_ec before they get handlers of their own,
\* which 15 does not.
HandlerOf(v) ==
  CASE v = 1 -> "exception1"
    [] v = 3 -> "debug_loop"
    [] v = 33 -> "irq1_handler"
    [] v = 128 -> "syscall"
    [] OTHER -> "halt"

Handled == (0 .. 21) \cup (28 .. 30) \cup {33, 128}

\* The handlers that take an error code, and the exceptions that come with
\* one.
TakesCodeOf == {8} \cup (10 .. 15) \cup {17, 21, 29, 30}
PushesCode == {8} \cup (10 .. 14) \cup {17, 21, 29, 30}

IdtSetup ==
  /\ At("idt_setup")
  /\ idt' = [v \in Vectors |->
               IF v \in Handled
               THEN [handler |-> HandlerOf(v),
                     type |-> IF v \in TrapGates THEN "trap" ELSE "interrupt",
                     dpl |-> 3]
               ELSE Absent]
  /\ frames' = Goto("pic_init")
  /\ UNCHANGED <<gdt, gdt_size, rsp0, pic, intr, kbd, ring>>

-----------------------------------------------------------------------------
\* The initialization words clear the masks and forget every request.
PicRemap ==
  /\ At("pic_init")
  /\ base' = 32
  /\ imr' = {}
  /\ irr' = {}
  /\ isr' = {}
  /\ early' = obf
  /\ frames' = Goto("mask")
  /\ UNCHANGED <<tables, intr, keys, obf, ring>>

\* Mask all IRQs by default
MaskAll == imr' = IRQs

PicMask ==
  /\ At("mask")
  /\ MaskAll
  /\ frames' = Goto("sti")
  /\ UNCHANGED <<tables, intr, base, irr, isr, kbd, ring>>

Sti ==
  /\ At("sti")
  /\ intr' = TRUE
  /\ frames' = Goto("unmask")
  /\ UNCHANGED <<tables, pic, kbd, ring>>

\* pic_unmask_irq(1)
Unmask ==
  /\ At("unmask")
  /\ imr' = imr \ {1}
  /\ frames' = Goto("break")
  /\ UNCHANGED <<tables, intr, base, irr, isr, kbd, ring>>

-----------------------------------------------------------------------------
\* The processor gets through the gate: there is one, its code segment is the
\* kernel's and there is a stack,
Opens(v) ==
  /\ idt[v].type # "absent"
  /\ Segment(KERNEL_CODE_SELECTOR, TRUE, 0)
  /\ At("user") => rsp0

\* and the handler takes what is pushed.
Passes(v, pushed) == Opens(v) /\ pushed = (v \in TakesCodeOf)

\* Through the gate of a vector; the context interrupted is as in fs.
EnterFrom(fs, v, pushed) ==
  IF Passes(v, pushed)
  THEN /\ frames' = Append(fs, [at |-> idt[v].handler, flag |-> intr, val |-> NUL])
       /\ intr' = (intr /\ idt[v].type = "trap")
  ELSE /\ frames' = Append(fs, [at |-> "stray", flag |-> intr, val |-> NUL])
       /\ intr' = FALSE

\* An instruction that goes through a gate, or an exception.
Enter(v) == EnterFrom(frames, v, v \in PushesCode)

\* Back to the context below.
Iret ==
  /\ frames' = SubSeq(frames, 1, Top - 1)
  /\ intr' = frames[Top].flag

\* BREAK
Break ==
  /\ At("break")
  /\ EnterFrom(Goto("execute_mod"), 3, FALSE)
  /\ UNCHANGED <<tables, pic, kbd, ring>>

UserFrames == <<[at |-> "user", flag |-> FALSE, val |-> NUL]>>

\* usermode_entry: the stack starts afresh and the flag is what it was.
EnterUser ==
  /\ Segment(USER_CODE_SELECTOR, TRUE, 3) /\ Segment(USER_DATA_SELECTOR, FALSE, 3)
  /\ frames' = UserFrames
  /\ UNCHANGED intr

ExecuteInit ==
  /\ At("execute_mod")
  /\ EnterUser
  /\ UNCHANGED <<tables, pic, kbd, ring>>

-----------------------------------------------------------------------------
\* int n, in a program.  The processor lets it through a gate that has dpl 3
\* and pushes no error code; a handler that takes one all the same reads the
\* stack shifted, prints what it finds and halts.  Without such a gate there
\* is a general protection fault.
Misread(v) == Opens(v) /\ v \in TakesCodeOf

SoftwareInt(v) ==
  /\ At("user")
  /\ \/ /\ idt[v].dpl = 3
        /\ ~Misread(v)
        /\ EnterFrom(frames, v, FALSE)
     \/ /\ idt[v].dpl = 3
        /\ Misread(v)
        /\ frames' = Append(frames, [at |-> "misread", flag |-> intr, val |-> NUL])
        /\ intr' = (intr /\ idt[v].type = "trap")
     \/ /\ idt[v].dpl # 3
        /\ Enter(13)
  /\ UNCHANGED <<tables, pic, kbd, ring>>

\* int $0x80
Syscall == SoftwareInt(128)

SyscallRead ==
  /\ At("syscall")
  /\ frames' = Goto("kgetc")
  /\ UNCHANGED <<tables, pic, intr, kbd, ring>>

SyscallReturn ==
  /\ At("syscall")
  /\ Iret
  /\ UNCHANGED <<tables, pic, kbd, ring>>

\* exec: the new program does not return to the one that called it.
SyscallExec ==
  /\ At("syscall")
  /\ EnterUser
  /\ UNCHANGED <<tables, pic, kbd, ring>>

\* A character for the read call or for the debugger,
Kgetc ==
  /\ Waiting
  /\ Ring!KgetcStep
  /\ UNCHANGED <<tables, pic, cpu, kbd>>

\* which ask for another or have done.
KgetcCall ==
  /\ Waiting
  /\ Ring!KgetcCall
  /\ UNCHANGED <<tables, pic, cpu, kbd>>

KgetcReturn ==
  /\ Waiting
  /\ kpc = "out"
  /\ Iret
  /\ UNCHANGED <<tables, pic, kbd, ring>>

\* An exception of a program (3 and 4 are its own instructions); only a page
\* fault happens to the kernel, where it follows the program's or the
\* debugger's pointers.
Exception(v) ==
  /\ At("user") \/ (v = 14 /\ (At("syscall") \/ (Waiting /\ kpc = "out")))
  /\ Enter(v)
  /\ UNCHANGED <<tables, pic, kbd, ring>>

\* The handlers print and halt, but one, which prints and returns.
Exception1Return ==
  /\ At("exception1")
  /\ Iret
  /\ UNCHANGED <<tables, pic, kbd, ring>>

-----------------------------------------------------------------------------
\* The processor takes a request between two instructions.
Deliver(q) ==
  /\ intr
  /\ q \in irr \ imr
  /\ \A s \in isr : q < s
  /\ irr' = irr \ {q}
  /\ isr' = isr \cup {q}
  /\ EnterFrom(frames, base + q, FALSE)
  /\ UNCHANGED <<tables, base, imr, kbd, ring>>

TakesCode == TRUE

\* inb(0x60); the code stands for a character or does not.
Irq1Read ==
  /\ At("irq1_handler")
  /\ obf' = IF TakesCode THEN FALSE ELSE obf
  /\ \/ \E ch \in Char :
          frames' = [frames EXCEPT ![Top].at = "write_char", ![Top].val = ch]
     \/ frames' = Goto("eoi")
  /\ UNCHANGED <<tables, pic, intr, keys, early, ring>>

\* Maxed out?
Irq1Drops ==
  /\ At("write_char")
  /\ Ring!MaxedOut
  /\ lostAt' = Ring!SlotsInUse
  /\ frames' = Goto("eoi")
  /\ UNCHANGED <<tables, pic, intr, kbd, buffer, readhead, writehead, avail, kpc,
                 c, unread>>

Irq1Accepts ==
  /\ At("write_char")
  /\ ~Ring!MaxedOut
  /\ frames' = Goto("store")
  /\ UNCHANGED <<tables, pic, intr, kbd, ring>>

\* The three stores of write_char.
Irq1Store ==
  /\ At("store")
  /\ buffer' = [buffer EXCEPT ![writehead] = frames[Top].val]
  /\ unread' = Append(unread, frames[Top].val)
  /\ frames' = Goto("count")
  /\ UNCHANGED <<tables, pic, intr, kbd, readhead, writehead, avail, kpc, c, lostAt>>

Counted == (avail + 1) % 65536

Irq1Count ==
  /\ At("count")
  /\ avail' = Counted
  /\ frames' = Goto("wrap")
  /\ UNCHANGED <<tables, pic, intr, kbd, buffer, readhead, writehead, kpc, c,
                 unread, lostAt>>

Wrapped == (writehead + 1) % BUFFER_LEN

Irq1Wrap ==
  /\ At("wrap")
  /\ writehead' = Wrapped
  /\ frames' = Goto("eoi")
  /\ UNCHANGED <<tables, pic, intr, kbd, buffer, readhead, avail, kpc, c, unread,
                 lostAt>>

Acknowledges == TRUE

\* outb(PIC1_COMMAND, PIC_EOI)
Irq1Eoi ==
  /\ At("eoi")
  /\ isr' = IF Acknowledges THEN isr \ {1} ELSE isr
  /\ frames' = Goto("iret")
  /\ UNCHANGED <<tables, base, imr, irr, intr, kbd, ring>>

Irq1Iret ==
  /\ At("iret")
  /\ Iret
  /\ UNCHANGED <<tables, pic, kbd, ring>>

-----------------------------------------------------------------------------
\* A key is pressed or released.
Key ==
  /\ keys < MaxKeys
  /\ keys' = keys + 1
  /\ UNCHANGED <<tables, pic, cpu, obf, early, ring>>

\* The keyboard controller puts the next code in its port: an edge on IRQ 1.
Load ==
  /\ keys > 0
  /\ ~obf
  /\ keys' = keys - 1
  /\ obf' = TRUE
  /\ irr' = irr \cup {1}
  /\ UNCHANGED <<tables, base, imr, isr, cpu, early, ring>>

Tick ==
  /\ irr' = irr \cup {0}
  /\ UNCHANGED <<tables, base, imr, isr, cpu, kbd, ring>>

-----------------------------------------------------------------------------
Boot ==
  \/ GdtSetup
  \/ IdtSetup
  \/ PicRemap
  \/ PicMask
  \/ Sti
  \/ Unmask
  \/ Break
  \/ ExecuteInit

Program ==
  \/ Syscall
  \/ SyscallRead
  \/ SyscallReturn
  \/ SyscallExec
  \/ KgetcCall
  \/ KgetcReturn
  \/ \E v \in Vectors \ {128} : SoftwareInt(v)
  \/ \E v \in 0 .. 21 \ {2, 3, 4, 9, 15} : Exception(v)
  \/ Exception1Return

Irq1 ==
  \/ Irq1Read
  \/ Irq1Drops
  \/ Irq1Accepts
  \/ Irq1Store
  \/ Irq1Count
  \/ Irq1Wrap
  \/ Irq1Eoi
  \/ Irq1Iret

Delivery == \E q \in IRQs : Deliver(q)

Next == Boot \/ Program \/ Kgetc \/ Irq1 \/ Delivery \/ Key \/ Load \/ Tick

Spec == Init /\ [][Next]_vars

\* The processor looks for interrupts after every instruction, iretq
\* included, so a program that keeps causing exceptions does not put one off
\* for ever; handlers run to their end; the keyboard controller hands over
\* what it has.  Codes are slower than handlers: interrupts do not keep a
\* kgetc from its next instruction for ever.
FairSpec ==
  Spec /\ WF_vars(Irq1) /\ WF_vars(Boot) /\ WF_vars(Load)
       /\ WF_vars(Exception1Return)
       /\ SF_vars(Delivery) /\ SF_vars(Kgetc)

-----------------------------------------------------------------------------
Places ==
  {"gdt_setup", "idt_setup", "pic_init", "mask", "sti", "unmask", "break",
   "debug_loop", "execute_mod", "user", "kgetc", "syscall", "exception1",
   "halt", "misread", "stray"} \cup HandlerPlaces

\* Types, for proofs.  Contexts nest at most three deep: a program, its
\* system call, a key.
TypeOK ==
  /\ gdt \in [Selectors -> 0 .. 255]
  /\ gdt_size \in 0 .. 88
  /\ rsp0 \in BOOLEAN
  /\ DOMAIN idt = Vectors
  /\ base \in {8, 32}
  /\ imr \subseteq IRQs /\ irr \subseteq IRQs /\ isr \subseteq IRQs
  /\ intr \in BOOLEAN
  /\ frames \in Seq([at : Places, flag : BOOLEAN, val : Char])
  /\ Len(frames) \in 1 .. 3
  /\ keys \in 0 .. MaxKeys
  /\ obf \in BOOLEAN /\ early \in BOOLEAN

(***************************************************************************)
(* Every interrupt and every exception that the hardware raises gets       *)
(* through a gate to a handler that takes from the stack what the          *)
(* processor has put there: no interrupt comes before the controller is    *)
(* moved away from the exceptions' vectors, and none of the timer, which   *)
(* has no gate.  A program's own int n gets through too, but where the     *)
(* handler is one that takes an error code it finds none ("misread"),      *)
(* because all the gates have dpl 3 (idt.c:513, against idt.c:486).        *)
(***************************************************************************)
NoStray == ~At("stray")

(***************************************************************************)
(* Whoever waits for a key can be interrupted by one.                      *)
(***************************************************************************)
WaitsListening == Waiting => intr

(***************************************************************************)
(* irq1_handler is never entered while it runs: write_char may take itself *)
(* for the only writer of the ring.                                        *)
(***************************************************************************)
HandlerAlone == Cardinality(InHandler) <= 1

(***************************************************************************)
(* A scan code in the port has been announced and not been forgotten,      *)
(* unless it was already there when pic_init reset the controller.         *)
(***************************************************************************)
PortAnnounced ==
  obf /\ ~early /\ ~Halted =>
    1 \in irr \/ \E k \in InHandler : frames[k].at = "irq1_handler"

(***************************************************************************)
(* A key that the controller announces after the boot code has unmasked it *)
(* is handled, whatever the processor is doing, unless it has halted.      *)
(***************************************************************************)
KeyHandled == (1 \in irr \ imr) ~> (1 \notin irr \/ Halted)

(***************************************************************************)
(* With its stores one at a time, write_char (pic.c:66-80) still is a      *)
(* single step to kgetc, wherever in the machine the handler comes in and  *)
(* whichever contexts are given up: the ring of the running machine is the *)
(* ring of KeyRing.  A store that has been made counts for the others.     *)
(***************************************************************************)
Behind(p) == \E k \in 1 .. Top : frames[k].at = p

MachineRing == INSTANCE KeyRing WITH
  avail <- IF Behind("count") THEN (avail + 1) % 65536 ELSE avail,
  writehead <- IF Behind("count") \/ Behind("wrap")
               THEN (writehead + 1) % BUFFER_LEN ELSE writehead

RingSpec == MachineRing!Spec

(***************************************************************************)
(* A read call or a debugger that waits while a character is in the ring   *)
(* gets it, however many keys interrupt it.                                *)
(***************************************************************************)
ReaderServed == (kpc = "spin" /\ unread # <<>>) ~> (kpc = "out")

=============================================================================
