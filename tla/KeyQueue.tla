------------------------------ MODULE KeyQueue ------------------------------
(***************************************************************************)
(* What the keyboard path of the kernel promises to the code that calls    *)
(* kgetc(): the characters come out in the order in which they were typed, *)
(* each one once, and the only characters that are missing are those that  *)
(* the interrupt handler turned away.                                      *)
(*                                                                         *)
(* A reader is "idle" outside kgetc(), "holding" once it has its character *)
(* but the slot of the character still counts as used, and "released" once *)
(* the slot is free but the call has not finished.  The last case is where *)
(* the code turns a character away although the queue has room.            *)
(***************************************************************************)
EXTENDS Integers, Sequences

CONSTANTS
  Char,       \* characters the keyboard map produces
  Capacity    \* characters the queue can hold

VARIABLES
  unread,     \* characters accepted and not yet read, oldest first
  got,        \* character the last kgetc() took
  reader,     \* "idle", "holding" or "released"
  lostAt      \* slots in use when a character was last turned away, or -1

vars == <<unread, got, reader, lostAt>>

SlotsInUse == Len(unread) + (IF reader = "holding" THEN 1 ELSE 0)

Init ==
  /\ unread = <<>>
  /\ got \in Char
  /\ reader = "idle"
  /\ lostAt = -1

\* A typed character joins the queue.
Accept(in) ==
  /\ SlotsInUse < Capacity
  /\ unread' = Append(unread, in)
  /\ UNCHANGED <<got, reader, lostAt>>

\* A typed character is turned away.
Refuse ==
  /\ \/ SlotsInUse = Capacity
     \/ SlotsInUse = 0 /\ reader = "released"
  /\ lostAt' = SlotsInUse
  /\ UNCHANGED <<unread, got, reader>>

Take ==
  /\ reader = "idle"
  /\ unread # <<>>
  /\ got' = Head(unread)
  /\ unread' = Tail(unread)
  /\ reader' = "holding"
  /\ UNCHANGED lostAt

Release ==
  /\ reader = "holding"
  /\ reader' = "released"
  /\ UNCHANGED <<unread, got, lostAt>>

Return ==
  /\ reader = "released"
  /\ reader' = "idle"
  /\ UNCHANGED <<unread, got, lostAt>>

Next ==
  \/ \E in \in Char : Accept(in)
  \/ Refuse
  \/ Take
  \/ Release
  \/ Return

Spec == Init /\ [][Next]_vars

=============================================================================
