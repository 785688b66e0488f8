------------------------------ MODULE KeyRing ------------------------------
(***************************************************************************)
(* The character ring of kernel/pic.c.  irq1_handler is the only producer  *)
(* and runs behind an interrupt gate, so write_char is one step.  kgetc is *)
(* the only consumer and runs with interrupts enabled, so a character may  *)
(* arrive between any two of the stores it makes; each store is a step.    *)
(*                                                                         *)
(* The steps are the ones the kernel's -O2 build has: the two updates of   *)
(* readhead (pic.c:89-90) are one store, the slot is cleared before that   *)
(* store, and the decrement of avail is one read-modify-write instruction. *)
(*                                                                         *)
(* unread and lostAt are history variables: no guard reads them.           *)
(***************************************************************************)
EXTENDS Integers, Sequences

CONSTANTS
  BUFFER_LEN,   \* slots in the ring
  Char,         \* characters the keyboard map produces
  NUL           \* the character '\0': it fills unused slots, and is typed
                \* by keys the keyboard map has no character for

ASSUME LenAssumption == BUFFER_LEN \in Nat \ {0} /\ BUFFER_LEN < 65535
ASSUME CharAssumption == NUL \in Char

VARIABLES
  buffer, readhead, writehead,
  avail,        \* uint16_t
  kpc,          \* where the consumer is in kgetc, "out" when not in it
  c,            \* kgetc's local c
  unread,       \* history: characters stored and not yet taken, oldest first
  lostAt        \* history: slots in use when write_char last refused, or -1

ring == <<buffer, readhead, writehead, avail>>
vars == <<buffer, readhead, writehead, avail, kpc, c, unread, lostAt>>

Slots == 0 .. BUFFER_LEN - 1
Uint16 == {n \in Nat : n < 65536}

Init ==
  /\ buffer = [i \in Slots |-> NUL]
  /\ readhead = 0
  /\ writehead = 0
  /\ avail = 0
  /\ kpc = "out"
  /\ c = NUL
  /\ unread = <<>>
  /\ lostAt = -1

-----------------------------------------------------------------------------
\* Slots the consumer has not given back: those of the unread characters and
\* the one whose character is taken but which readhead still points to.
Held == IF kpc \in {"clear", "advance"} THEN 1 ELSE 0
SlotsInUse == Len(unread) + Held

-----------------------------------------------------------------------------
(***************************************************************************)
(* Mutants: definitions of this module with a mistake in them.  Nothing    *)
(* refers to them here; each shows that a property below can fail.         *)
(***************************************************************************)
\* The full test counts one character too many.
MaxedOutLate == readhead = writehead /\ avail > BUFFER_LEN

\* The full test cannot tell an empty ring from a full one.
MaxedOutEmpty == readhead = writehead

\* The decrement of kgetc is a load and a store, with this in between.
write_charLost(in) ==
  /\ ~(readhead = writehead /\ avail # 0)
  /\ buffer' = [buffer EXCEPT ![writehead] = in]
  /\ avail' = IF kpc = "count" THEN avail ELSE (avail + 1) % 65536
  /\ writehead' = (writehead + 1) % BUFFER_LEN
  /\ unread' = Append(unread, in)
  /\ UNCHANGED <<readhead, lostAt>>

\* The character is stored but not counted when the ring was empty.
write_charUncounted(in) ==
  /\ ~(readhead = writehead /\ avail # 0)
  /\ buffer' = [buffer EXCEPT ![writehead] = in]
  /\ avail' = IF avail = 0 THEN 0 ELSE (avail + 1) % 65536
  /\ writehead' = (writehead + 1) % BUFFER_LEN
  /\ unread' = Append(unread, in)
  /\ UNCHANGED <<readhead, lostAt>>

\* The slot is wiped after readhead has moved on.
KgetcClearNext ==
  /\ kpc = "clear"
  /\ kpc' = "advance"
  /\ buffer' = [buffer EXCEPT ![(readhead + 1) % BUFFER_LEN] = NUL]
  /\ UNCHANGED <<readhead, writehead, avail, c, unread, lostAt>>

\* readhead runs off the end of the buffer.
KgetcAdvanceOff ==
  /\ kpc = "advance"
  /\ kpc' = "count"
  /\ readhead' = readhead + 1
  /\ UNCHANGED <<buffer, writehead, avail, c, unread, lostAt>>

-----------------------------------------------------------------------------
\* pic.c:68, the test for a full ring.
MaxedOut == readhead = writehead /\ avail # 0

write_char(in) ==
  \/ /\ MaxedOut
     /\ lostAt' = SlotsInUse
     /\ UNCHANGED <<ring, unread>>
  \/ /\ ~MaxedOut
     /\ buffer' = [buffer EXCEPT ![writehead] = in]
     /\ avail' = (avail + 1) % 65536
     /\ writehead' = (writehead + 1) % BUFFER_LEN
     /\ unread' = Append(unread, in)
     /\ UNCHANGED <<readhead, lostAt>>

-----------------------------------------------------------------------------
KgetcCall ==
  /\ kpc = "out"
  /\ kpc' = "spin"
  /\ UNCHANGED <<ring, c, unread, lostAt>>

\* while (avail == 0) {}
KgetcSpin ==
  /\ kpc = "spin"
  /\ avail # 0
  /\ kpc' = "load"
  /\ UNCHANGED <<ring, c, unread, lostAt>>

\* char c = buffer[readhead];
KgetcLoad ==
  /\ kpc = "load"
  /\ kpc' = "clear"
  /\ c' = buffer[readhead]
  /\ unread' = Tail(unread)
  /\ UNCHANGED <<ring, lostAt>>

\* buffer[readhead] = 0;
KgetcClear ==
  /\ kpc = "clear"
  /\ kpc' = "advance"
  /\ buffer' = [buffer EXCEPT ![readhead] = NUL]
  /\ UNCHANGED <<readhead, writehead, avail, c, unread, lostAt>>

\* readhead = (readhead + 1) % BUFFER_LEN;
KgetcAdvance ==
  /\ kpc = "advance"
  /\ kpc' = "count"
  /\ readhead' = (readhead + 1) % BUFFER_LEN
  /\ UNCHANGED <<buffer, writehead, avail, c, unread, lostAt>>

\* avail--; return c;
KgetcCount ==
  /\ kpc = "count"
  /\ kpc' = "out"
  /\ avail' = (avail - 1) % 65536
  /\ UNCHANGED <<buffer, readhead, writehead, c, unread, lostAt>>

-----------------------------------------------------------------------------
Irq1 == \E in \in Char : write_char(in) /\ UNCHANGED <<kpc, c>>

KgetcStep ==
  \/ KgetcSpin
  \/ KgetcLoad
  \/ KgetcClear
  \/ KgetcAdvance
  \/ KgetcCount

Next == Irq1 \/ KgetcCall \/ KgetcStep

Spec == Init /\ [][Next]_vars

\* Interrupts return, so a kgetc that has an instruction to execute gets to
\* execute it.  Nobody promises that keys are pressed or that kgetc is called.
FairSpec == Spec /\ WF_vars(KgetcStep)

-----------------------------------------------------------------------------
\* No index leaves the buffer (pic.c:25-31), and every variable its range.
TypeOK ==
  /\ buffer \in [Slots -> Char]
  /\ readhead \in Slots
  /\ writehead \in Slots
  /\ avail \in Uint16
  /\ kpc \in {"out", "spin", "load", "clear", "advance", "count"}
  /\ c \in Char
  /\ unread \in Seq(Char)
  /\ lostAt \in -1 .. BUFFER_LEN

\* The slot k places after the slot i.
Ahead(i, k) == IF i + k < BUFFER_LEN THEN i + k ELSE i + k - BUFFER_LEN

(***************************************************************************)
(* The ring is never over-full: at every instant, whatever the consumer is *)
(* in the middle of, the slots in use fit in the buffer.                   *)
(***************************************************************************)
NeverOverfull == SlotsInUse <= BUFFER_LEN

(***************************************************************************)
(* avail agrees with the characters that wait: it counts the unread ones,  *)
(* and the one a kgetc has taken until that kgetc decrements it.  So it is *)
(* never decremented below zero and a kgetc that passed its spin loop has  *)
(* a character to take.                                                    *)
(***************************************************************************)
Taken == IF kpc \in {"clear", "advance", "count"} THEN 1 ELSE 0

AvailCounts ==
  /\ avail = Len(unread) + Taken
  /\ kpc = "load" => unread # <<>>

(***************************************************************************)
(* The two heads delimit the slots in use, and the slots hold the unread   *)
(* characters in the order they were typed: no key pressed in the middle   *)
(* of a kgetc overwrites another one or is wiped by the kgetc.             *)
(***************************************************************************)
HeadsDelimit == writehead = Ahead(readhead, SlotsInUse)

SlotsHoldUnread ==
  \A k \in 1 .. Len(unread) :
    buffer[Ahead(readhead, Held + k - 1)] = unread[k]

RingMatches == HeadsDelimit /\ SlotsHoldUnread

(***************************************************************************)
(* pic.c:67 says a character is turned away when the ring is "Maxed out".  *)
(***************************************************************************)
DropOnlyWhenFull == lostAt \in {-1, BUFFER_LEN}

(***************************************************************************)
(* A kgetc that waits while a typed character is in the ring returns.      *)
(***************************************************************************)
ReaderUnblocks == (kpc = "spin" /\ unread # <<>>) ~> (kpc = "out")

(***************************************************************************)
(* The ring implements the queue.                                          *)
(***************************************************************************)
Reader ==
  CASE kpc \in {"out", "spin", "load"} -> "idle"
    [] kpc \in {"clear", "advance"} -> "holding"
    [] kpc = "count" -> "released"

Queue == INSTANCE KeyQueue WITH
  Capacity <- BUFFER_LEN, got <- c, reader <- Reader

QueueSpec == Queue!Spec

=============================================================================
