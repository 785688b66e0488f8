--------------------------- MODULE KeyRingProofs ---------------------------
(***************************************************************************)
(* Proofs about KeyRing for a ring of any length below 65535 and any set   *)
(* of characters.                                                          *)
(***************************************************************************)
EXTENDS KeyRing, TLAPS

-----------------------------------------------------------------------------
(***************************************************************************)
(* (i + 1) % BUFFER_LEN is the next slot, wrapping at the end (pic.c:79    *)
(* and pic.c:90).                                                          *)
(***************************************************************************)
LEMMA NextSlot ==
  ASSUME NEW i \in Slots
  PROVE  (i + 1) % BUFFER_LEN = Ahead(i, 1) /\ Ahead(i, 1) \in Slots
<1>1. CASE i + 1 < BUFFER_LEN
  BY <1>1, LenAssumption DEF Slots, Ahead
<1>2. CASE i + 1 = BUFFER_LEN
  BY <1>2, LenAssumption DEF Slots, Ahead
<1>3. QED
  BY <1>1, <1>2, LenAssumption DEF Slots

(***************************************************************************)
(* A 16-bit counter that stays in range is not changed by its width.       *)
(***************************************************************************)
LEMMA Fits16 ==
  ASSUME NEW n \in Int, 0 <= n, n < 65536
  PROVE  n % 65536 = n
  OBVIOUS

LEMMA Uint16Member ==
  ASSUME NEW n \in Int, 0 <= n, n <= 65535
  PROVE  n \in Uint16
  BY DEF Uint16

(***************************************************************************)
(* Facts about Ahead: it stays in the ring, different distances below the  *)
(* length reach different slots, a full turn comes back, and distances     *)
(* add up.                                                                 *)
(***************************************************************************)
LEMMA AheadInRing ==
  ASSUME NEW i \in Slots, NEW k \in 0 .. BUFFER_LEN
  PROVE  Ahead(i, k) \in Slots
  BY LenAssumption DEF Slots, Ahead

LEMMA AheadInjective ==
  ASSUME NEW i \in Slots, NEW j \in 0 .. BUFFER_LEN - 1,
         NEW k \in 0 .. BUFFER_LEN - 1, j # k
  PROVE  Ahead(i, j) # Ahead(i, k)
  BY LenAssumption DEF Slots, Ahead

LEMMA AheadZero ==
  ASSUME NEW i \in Slots
  PROVE  Ahead(i, 0) = i /\ Ahead(i, BUFFER_LEN) = i
  BY LenAssumption DEF Slots, Ahead

LEMMA AheadAdds ==
  ASSUME NEW i \in Slots, NEW k \in 0 .. BUFFER_LEN - 1
  PROVE  /\ Ahead(Ahead(i, 1), k) = Ahead(i, k + 1)
         /\ Ahead(Ahead(i, k), 1) = Ahead(i, k + 1)
  BY LenAssumption DEF Slots, Ahead

-----------------------------------------------------------------------------
(***************************************************************************)
(* The inductive invariant is the conjunction of the four invariants that  *)
(* TLC checks: the full-ring test of write_char is right only because      *)
(* avail agrees with the heads, and the heads stay right only because that *)
(* test refuses a character the ring has no slot for.                      *)
(***************************************************************************)
Inv == TypeOK /\ NeverOverfull /\ AvailCounts /\ RingMatches

LEMMA InitInv == Init => Inv
<1> SUFFICES ASSUME Init PROVE Inv
  OBVIOUS
<1> USE LenAssumption, CharAssumption DEF Init
<1>1. TypeOK
  BY DEF TypeOK, Slots, Uint16
<1>2. NeverOverfull
  BY DEF NeverOverfull, SlotsInUse, Held
<1>3. AvailCounts
  BY DEF AvailCounts, Taken
<1>4. RingMatches
  BY DEF RingMatches, HeadsDelimit, SlotsHoldUnread, SlotsInUse, Held, Ahead
<1>5. QED
  BY <1>1, <1>2, <1>3, <1>4 DEF Inv

(***************************************************************************)
(* When the test for a full ring fails, a slot is free and writehead       *)
(* points to it.                                                           *)
(***************************************************************************)
LEMMA NotMaxedOutHasRoom ==
  ASSUME Inv, ~MaxedOut
  PROVE  SlotsInUse < BUFFER_LEN
<1>1. SUFFICES ASSUME SlotsInUse = BUFFER_LEN
               PROVE  FALSE
  BY LenAssumption DEF Inv, NeverOverfull, TypeOK, SlotsInUse, Held
<1>2. writehead = readhead
  BY <1>1, AheadZero DEF Inv, RingMatches, HeadsDelimit, TypeOK
<1>3. avail # 0
  BY <1>1, LenAssumption
     DEF Inv, TypeOK, AvailCounts, Taken, SlotsInUse, Held
<1>4. QED
  BY <1>2, <1>3 DEF MaxedOut

LEMMA WriteCharInv ==
  ASSUME Inv, Irq1
  PROVE  Inv'
<1>1. PICK in \in Char : write_char(in) /\ UNCHANGED <<kpc, c>>
  BY DEF Irq1
<1>2. CASE /\ MaxedOut
           /\ lostAt' = SlotsInUse
           /\ UNCHANGED <<ring, unread>>
  <2>1. lostAt' \in -1 .. BUFFER_LEN
    BY <1>2, LenAssumption DEF Inv, NeverOverfull, TypeOK, SlotsInUse, Held
  <2>2. QED
    BY <1>1, <1>2, <2>1
       DEF Inv, TypeOK, NeverOverfull, AvailCounts, RingMatches, HeadsDelimit,
           SlotsHoldUnread, SlotsInUse, Held, Taken, Ahead, ring
<1>3. CASE /\ ~MaxedOut
           /\ buffer' = [buffer EXCEPT ![writehead] = in]
           /\ avail' = (avail + 1) % 65536
           /\ writehead' = (writehead + 1) % BUFFER_LEN
           /\ unread' = Append(unread, in)
           /\ UNCHANGED <<readhead, lostAt>>
  <2>1. SlotsInUse < BUFFER_LEN
    BY <1>3, NotMaxedOutHasRoom
  <2>2. /\ SlotsInUse \in 0 .. BUFFER_LEN - 1
        /\ Len(unread) \in Nat /\ Held \in {0, 1} /\ Taken \in {0, 1}
        /\ Held <= Taken
        /\ Held' = Held /\ Taken' = Taken
    BY <1>1, <2>1, LenAssumption DEF Inv, TypeOK, SlotsInUse, Held, Taken
  <2>3. /\ unread' \in Seq(Char)
        /\ Len(unread') = Len(unread) + 1
        /\ unread'[Len(unread) + 1] = in
        /\ \A k \in 1 .. Len(unread) : unread'[k] = unread[k]
        /\ unread' # <<>>
    BY <1>3 DEF Inv, TypeOK
  <2>4. SlotsInUse' = SlotsInUse + 1
    BY <2>2, <2>3 DEF SlotsInUse
  <2>5. writehead' = Ahead(writehead, 1) /\ writehead' \in Slots
    BY <1>3, NextSlot DEF Inv, TypeOK
  <2>6. avail' = avail + 1 /\ avail' \in Uint16
    <3>1. avail = Len(unread) + Taken
      BY DEF Inv, AvailCounts
    <3>2. avail + 1 \in Int /\ 0 <= avail + 1 /\ avail + 1 < 65536
      BY <2>1, <2>2, <3>1, LenAssumption DEF SlotsInUse
    <3>3. (avail + 1) % 65536 = avail + 1
      BY <3>2, Fits16
    <3>4. avail' = avail + 1
      BY <1>3, <3>3
    <3>5. avail + 1 \in Uint16
      BY <3>2, Uint16Member
    <3>6. QED
      BY <3>4, <3>5
  <2>7. TypeOK'
    BY <1>1, <1>3, <2>3, <2>5, <2>6 DEF Inv, TypeOK, Slots
  <2>8. NeverOverfull'
    BY <2>1, <2>2, <2>4, LenAssumption DEF NeverOverfull
  <2>9. AvailCounts'
    BY <1>1, <2>2, <2>3, <2>6 DEF Inv, AvailCounts
  <2>10. HeadsDelimit'
    <3>1. writehead = Ahead(readhead, SlotsInUse)
      BY DEF Inv, RingMatches, HeadsDelimit
    <3>2. writehead' = Ahead(readhead, SlotsInUse + 1)
      BY <2>2, <2>5, <3>1, AheadAdds DEF Inv, TypeOK
    <3>3. QED
      BY <1>3, <2>4, <3>2 DEF HeadsDelimit, Ahead
  <2>11. SlotsHoldUnread'
    <3> SUFFICES ASSUME NEW k \in 1 .. Len(unread) + 1
                 PROVE  buffer'[Ahead(readhead, Held + k - 1)] = unread'[k]
      BY <1>3, <2>2, <2>3 DEF SlotsHoldUnread, Ahead
    <3>1. writehead = Ahead(readhead, SlotsInUse)
      BY DEF Inv, RingMatches, HeadsDelimit
    <3>2. CASE k = Len(unread) + 1
      <4>1. Held + k - 1 = SlotsInUse
        BY <2>2, <3>2 DEF SlotsInUse
      <4>2. buffer'[writehead] = in
        BY <1>3 DEF Inv, TypeOK
      <4>3. QED
        BY <2>3, <3>1, <3>2, <4>1, <4>2
    <3>3. CASE k \in 1 .. Len(unread)
      <4> DEFINE d == Held + k - 1
      <4>1. d \in 0 .. BUFFER_LEN - 1 /\ d # SlotsInUse
        BY <2>1, <2>2, <3>3, LenAssumption DEF SlotsInUse
      <4>2. Ahead(readhead, d) # writehead /\ Ahead(readhead, d) \in Slots
        BY <2>2, <3>1, <4>1, AheadInjective, AheadInRing, LenAssumption
           DEF Inv, TypeOK
      <4>3. buffer'[Ahead(readhead, d)] = buffer[Ahead(readhead, d)]
        BY <1>3, <4>2 DEF Inv, TypeOK
      <4>4. buffer[Ahead(readhead, d)] = unread[k]
        BY <3>3 DEF Inv, RingMatches, SlotsHoldUnread
      <4>5. QED
        BY <2>3, <3>3, <4>3, <4>4
    <3>4. QED
      BY <2>2, <3>2, <3>3
  <2>12. QED
    BY <2>7, <2>8, <2>9, <2>10, <2>11 DEF Inv, RingMatches
<1>4. QED
  BY <1>1, <1>2, <1>3 DEF write_char

-----------------------------------------------------------------------------
(***************************************************************************)
(* kgetc's steps, one lemma for each.                                      *)
(***************************************************************************)
LEMMA KgetcCallInv ==
  ASSUME Inv, KgetcCall
  PROVE  Inv'
  BY DEF Inv, TypeOK, NeverOverfull, AvailCounts, RingMatches, HeadsDelimit,
         SlotsHoldUnread, SlotsInUse, Held, Taken, Ahead, ring, KgetcCall

\* What lets the consumer leave its spin loop is what says that a character
\* waits: avail counts it.
LEMMA KgetcSpinInv ==
  ASSUME Inv, KgetcSpin
  PROVE  Inv'
<1>1. unread # <<>>
  BY DEF Inv, TypeOK, AvailCounts, Taken, KgetcSpin
<1>2. QED
  BY <1>1 DEF Inv, TypeOK, NeverOverfull, AvailCounts, RingMatches,
              HeadsDelimit, SlotsHoldUnread, SlotsInUse, Held, Taken, Ahead,
              ring, KgetcSpin

LEMMA KgetcLoadInv ==
  ASSUME Inv, KgetcLoad
  PROVE  Inv'
<1>1. /\ unread \in Seq(Char) /\ unread # <<>>
      /\ Held = 0 /\ Taken = 0 /\ Held' = 1 /\ Taken' = 1
  BY DEF Inv, TypeOK, AvailCounts, Held, Taken, KgetcLoad
<1>2. /\ unread' \in Seq(Char)
      /\ Len(unread) \in Nat \ {0}
      /\ Len(unread') = Len(unread) - 1
      /\ \A k \in 1 .. Len(unread') : unread'[k] = unread[k + 1]
  BY <1>1 DEF KgetcLoad
<1>3. SlotsInUse' = SlotsInUse
  BY <1>1, <1>2 DEF SlotsInUse
<1>4. buffer[readhead] \in Char
  BY DEF Inv, TypeOK
<1>5. TypeOK'
  BY <1>2, <1>4 DEF Inv, TypeOK, KgetcLoad, ring
<1>6. NeverOverfull'
  BY <1>3 DEF Inv, NeverOverfull
<1>7. AvailCounts'
  BY <1>1, <1>2 DEF Inv, AvailCounts, KgetcLoad, ring
<1>8. HeadsDelimit'
  BY <1>3 DEF Inv, RingMatches, HeadsDelimit, Ahead, KgetcLoad, ring
<1>9. SlotsHoldUnread'
  <2> SUFFICES ASSUME NEW k \in 1 .. Len(unread')
               PROVE  buffer[Ahead(readhead, k)] = unread'[k]
    BY <1>1, <1>2 DEF SlotsHoldUnread, Ahead, KgetcLoad, ring
  <2>1. k + 1 \in 1 .. Len(unread) /\ Held + (k + 1) - 1 = k
    BY <1>1, <1>2
  <2>2. buffer[Ahead(readhead, k)] = unread[k + 1]
    BY <2>1 DEF Inv, RingMatches, SlotsHoldUnread
  <2>3. QED
    BY <1>2, <2>2
<1>10. QED
  BY <1>5, <1>6, <1>7, <1>8, <1>9 DEF Inv, RingMatches

\* The slot that is wiped is the one held, and no unread character is in it.
LEMMA KgetcClearInv ==
  ASSUME Inv, KgetcClear
  PROVE  Inv'
<1>1. /\ unread \in Seq(Char) /\ Len(unread) \in Nat
      /\ Held = 1 /\ Held' = 1 /\ Taken = 1 /\ Taken' = 1
      /\ SlotsInUse = Len(unread) + 1 /\ SlotsInUse' = SlotsInUse
      /\ SlotsInUse <= BUFFER_LEN
  BY DEF Inv, TypeOK, NeverOverfull, SlotsInUse, Held, Taken, KgetcClear
<1>2. TypeOK'
  BY CharAssumption DEF Inv, TypeOK, KgetcClear
<1>3. NeverOverfull' /\ AvailCounts' /\ HeadsDelimit'
  BY <1>1 DEF Inv, NeverOverfull, AvailCounts, RingMatches, HeadsDelimit,
              Ahead, KgetcClear
<1>4. SlotsHoldUnread'
  <2> SUFFICES ASSUME NEW k \in 1 .. Len(unread)
               PROVE  buffer'[Ahead(readhead, k)] = unread[k]
    BY <1>1 DEF SlotsHoldUnread, Ahead, KgetcClear
  <2>1. k \in 0 .. BUFFER_LEN - 1 /\ k # 0 /\ 0 \in 0 .. BUFFER_LEN - 1
    BY <1>1, LenAssumption
  <2>2. Ahead(readhead, k) # Ahead(readhead, 0)
    BY <2>1, AheadInjective DEF Inv, TypeOK
  <2>3. Ahead(readhead, k) \in Slots /\ Ahead(readhead, 0) = readhead
    BY <2>1, AheadInRing, AheadZero, LenAssumption DEF Inv, TypeOK
  <2>4. buffer'[Ahead(readhead, k)] = buffer[Ahead(readhead, k)]
    BY <2>2, <2>3 DEF Inv, TypeOK, KgetcClear
  <2>5. buffer[Ahead(readhead, Held + k - 1)] = unread[k]
    BY DEF Inv, RingMatches, SlotsHoldUnread
  <2>6. QED
    BY <1>1, <2>4, <2>5
<1>5. QED
  BY <1>2, <1>3, <1>4 DEF Inv, RingMatches

LEMMA KgetcAdvanceInv ==
  ASSUME Inv, KgetcAdvance
  PROVE  Inv'
<1>1. /\ unread \in Seq(Char) /\ Len(unread) \in Nat
      /\ Held = 1 /\ Held' = 0 /\ Taken = 1 /\ Taken' = 1
      /\ SlotsInUse = Len(unread) + 1 /\ SlotsInUse' = Len(unread)
      /\ SlotsInUse <= BUFFER_LEN
  BY DEF Inv, TypeOK, NeverOverfull, SlotsInUse, Held, Taken, KgetcAdvance
<1>2. readhead' = Ahead(readhead, 1) /\ readhead' \in Slots
  BY NextSlot DEF Inv, TypeOK, KgetcAdvance
<1>3. TypeOK'
  BY <1>2 DEF Inv, TypeOK, KgetcAdvance
<1>4. NeverOverfull' /\ AvailCounts'
  BY <1>1, LenAssumption DEF Inv, NeverOverfull, AvailCounts, KgetcAdvance
<1>5. \A k \in 0 .. BUFFER_LEN - 1 :
        Ahead(readhead', k) = Ahead(readhead, k + 1)
  BY <1>2, AheadAdds DEF Inv, TypeOK
<1>6. HeadsDelimit'
  <2>1. Len(unread) \in 0 .. BUFFER_LEN - 1
    BY <1>1, LenAssumption
  <2>2. writehead = Ahead(readhead', Len(unread))
    BY <1>1, <1>5, <2>1 DEF Inv, RingMatches, HeadsDelimit
  <2>3. QED
    BY <1>1, <2>2 DEF HeadsDelimit, Ahead, KgetcAdvance
<1>7. SlotsHoldUnread'
  <2> SUFFICES ASSUME NEW k \in 1 .. Len(unread)
               PROVE  buffer[Ahead(readhead', k - 1)] = unread[k]
    BY <1>1 DEF SlotsHoldUnread, Ahead, KgetcAdvance
  <2>1. k - 1 \in 0 .. BUFFER_LEN - 1 /\ (k - 1) + 1 = Held + k - 1
    BY <1>1, LenAssumption
  <2>2. Ahead(readhead', k - 1) = Ahead(readhead, Held + k - 1)
    BY <1>5, <2>1
  <2>3. QED
    BY <2>2 DEF Inv, RingMatches, SlotsHoldUnread
<1>8. QED
  BY <1>3, <1>4, <1>6, <1>7 DEF Inv, RingMatches

\* avail counts the character being taken, so the decrement does not wrap.
LEMMA KgetcCountInv ==
  ASSUME Inv, KgetcCount
  PROVE  Inv'
<1>1. /\ unread \in Seq(Char) /\ Len(unread) \in Nat
      /\ Held = 0 /\ Held' = 0 /\ Taken = 1 /\ Taken' = 0
      /\ SlotsInUse' = SlotsInUse
      /\ avail = Len(unread) + 1
      /\ Len(unread) <= BUFFER_LEN
  BY DEF Inv, TypeOK, NeverOverfull, AvailCounts, SlotsInUse, Held, Taken,
         KgetcCount
<1>2. /\ avail - 1 = Len(unread) /\ avail - 1 \in Int
      /\ 0 <= avail - 1 /\ avail - 1 < 65536
  BY <1>1, LenAssumption
<1>3. (avail - 1) % 65536 = avail - 1 /\ avail - 1 \in Uint16
  BY <1>2, Fits16, Uint16Member
<1>4. avail' = Len(unread) /\ avail' \in Uint16
  BY <1>2, <1>3 DEF KgetcCount
<1>5. TypeOK'
  BY <1>4 DEF Inv, TypeOK, KgetcCount
<1>6. QED
  BY <1>1, <1>4, <1>5
     DEF Inv, NeverOverfull, AvailCounts, RingMatches, HeadsDelimit,
         SlotsHoldUnread, Ahead, KgetcCount

LEMMA StutterInv ==
  ASSUME Inv, UNCHANGED vars
  PROVE  Inv'
  BY DEF Inv, TypeOK, NeverOverfull, AvailCounts, RingMatches, HeadsDelimit,
         SlotsHoldUnread, SlotsInUse, Held, Taken, Ahead, vars

LEMMA NextInv == Inv /\ [Next]_vars => Inv'
<1> SUFFICES ASSUME Inv, [Next]_vars PROVE Inv'
  OBVIOUS
<1>1. CASE Irq1
  BY <1>1, WriteCharInv
<1>2. CASE KgetcCall
  BY <1>2, KgetcCallInv
<1>3. CASE KgetcSpin
  BY <1>3, KgetcSpinInv
<1>4. CASE KgetcLoad
  BY <1>4, KgetcLoadInv
<1>5. CASE KgetcClear
  BY <1>5, KgetcClearInv
<1>6. CASE KgetcAdvance
  BY <1>6, KgetcAdvanceInv
<1>7. CASE KgetcCount
  BY <1>7, KgetcCountInv
<1>8. CASE UNCHANGED vars
  BY <1>8, StutterInv
<1>9. QED
  BY <1>1, <1>2, <1>3, <1>4, <1>5, <1>6, <1>7, <1>8 DEF Next, KgetcStep

-----------------------------------------------------------------------------
(***************************************************************************)
(* Whatever keys arrive and whenever they do, the ring stays in a state in *)
(* which all four invariants hold.                                         *)
(***************************************************************************)
THEOREM RingInvariant == Spec => []Inv
<1>1. QED
  BY InitInv, NextInv, PTL DEF Spec

(***************************************************************************)
(* The variables of pic.c keep to their ranges: no index leaves the array. *)
(***************************************************************************)
THEOREM RingTyped == Spec => []TypeOK
<1>1. Inv => TypeOK
  BY DEF Inv
<1>2. QED
  BY <1>1, RingInvariant, PTL

(***************************************************************************)
(* The slots in use always fit in the buffer.                              *)
(***************************************************************************)
THEOREM RingNeverOverfull == Spec => []NeverOverfull
<1>1. Inv => NeverOverfull
  BY DEF Inv
<1>2. QED
  BY <1>1, RingInvariant, PTL

(***************************************************************************)
(* avail agrees with the characters in the ring, and never wraps.          *)
(***************************************************************************)
THEOREM RingAvailCounts == Spec => []AvailCounts
<1>1. Inv => AvailCounts
  BY DEF Inv
<1>2. QED
  BY <1>1, RingInvariant, PTL

(***************************************************************************)
(* The slots between the heads hold the unread characters in typing order. *)
(***************************************************************************)
THEOREM RingMatchesQueue == Spec => []RingMatches
<1>1. Inv => RingMatches
  BY DEF Inv
<1>2. QED
  BY <1>1, RingInvariant, PTL

-----------------------------------------------------------------------------
(***************************************************************************)
(* The ring implements KeyQueue.                                           *)
(***************************************************************************)
LEMMA SameSlots ==
  ASSUME Inv
  PROVE  /\ Queue!SlotsInUse = SlotsInUse
         /\ unread \in Seq(Char) /\ Len(unread) \in Nat
         /\ SlotsInUse \in 0 .. BUFFER_LEN
  BY LenAssumption
     DEF Queue!SlotsInUse, SlotsInUse, Held, Reader, Inv, TypeOK, NeverOverfull

\* When the full test succeeds every slot is in use, or the reader has given
\* back the only one and has not decremented avail yet.
LEMMA MaxedOutMeans ==
  ASSUME Inv, MaxedOut
  PROVE  \/ SlotsInUse = BUFFER_LEN
         \/ SlotsInUse = 0 /\ Reader = "released"
<1>1. readhead = Ahead(readhead, SlotsInUse)
  BY DEF Inv, RingMatches, HeadsDelimit, MaxedOut
<1>2. SlotsInUse \in {0, BUFFER_LEN}
  BY <1>1, SameSlots, LenAssumption DEF Inv, TypeOK, Slots, Ahead
<1>3. CASE SlotsInUse = 0
  <2>1. Len(unread) = 0 /\ Held = 0 /\ Taken # 0
    BY <1>3, SameSlots DEF MaxedOut, Inv, AvailCounts, SlotsInUse, Held, Taken
  <2>2. kpc = "count"
    BY <2>1 DEF Held, Taken
  <2>3. QED
    BY <1>3, <2>2 DEF Reader
<1>4. QED
  BY <1>2, <1>3

LEMMA InitRefines == Init => Queue!Init
  BY CharAssumption DEF Init, Queue!Init, Reader

LEMMA Irq1Refines ==
  ASSUME Inv, Irq1
  PROVE  Queue!Next
<1>1. PICK in \in Char : write_char(in) /\ UNCHANGED <<kpc, c>>
  BY DEF Irq1
<1>2. CASE MaxedOut
  <2>1. lostAt' = SlotsInUse /\ UNCHANGED unread
    BY <1>1, <1>2 DEF write_char
  <2>2. Reader' = Reader
    BY <1>1 DEF Reader
  <2>3. Queue!Refuse
    BY <1>1, <1>2, <2>1, <2>2, MaxedOutMeans, SameSlots DEF Queue!Refuse
  <2>4. QED
    BY <2>3 DEF Queue!Next
<1>3. CASE ~MaxedOut
  <2>1. Queue!Accept(in)
    BY <1>1, <1>3, NotMaxedOutHasRoom, SameSlots
       DEF write_char, Queue!Accept, Reader
  <2>2. QED
    BY <2>1 DEF Queue!Next
<1>4. QED
  BY <1>2, <1>3

LEMMA LoadRefines ==
  ASSUME Inv, KgetcLoad
  PROVE  Queue!Next
<1>1. unread # <<>> /\ Held = 0 /\ Len(unread) >= 1
  BY SameSlots DEF Inv, AvailCounts, Held, KgetcLoad
<1>2. buffer[Ahead(readhead, 0)] = unread[1]
  <2>1. 1 \in 1 .. Len(unread) /\ Held + 1 - 1 = 0
    BY <1>1, SameSlots
  <2>2. QED
    BY <2>1 DEF Inv, RingMatches, SlotsHoldUnread
<1>3. buffer[readhead] = Head(unread)
  BY <1>1, <1>2, AheadZero, SameSlots DEF Inv, TypeOK
<1>4. Queue!Take
  BY <1>1, <1>3 DEF KgetcLoad, Queue!Take, Reader
<1>5. QED
  BY <1>4 DEF Queue!Next

LEMMA NextRefines ==
  Inv /\ [Next]_vars => [Queue!Next]_(Queue!vars)
<1> SUFFICES ASSUME Inv, [Next]_vars PROVE [Queue!Next]_(Queue!vars)
  OBVIOUS
<1>1. CASE Irq1
  BY <1>1, Irq1Refines
<1>2. CASE KgetcLoad
  BY <1>2, LoadRefines
<1>3. CASE KgetcAdvance
  <2>1. Queue!Release
    BY <1>3 DEF KgetcAdvance, Queue!Release, Reader
  <2>2. QED
    BY <2>1 DEF Queue!Next
<1>4. CASE KgetcCount
  <2>1. Queue!Return
    BY <1>4 DEF KgetcCount, Queue!Return, Reader
  <2>2. QED
    BY <2>1 DEF Queue!Next
<1>5. CASE KgetcCall \/ KgetcSpin \/ KgetcClear \/ UNCHANGED vars
  BY <1>5 DEF KgetcCall, KgetcSpin, KgetcClear, vars, Queue!vars, Reader
<1>6. QED
  BY <1>1, <1>2, <1>3, <1>4, <1>5 DEF Next, KgetcStep

(***************************************************************************)
(* What kgetc returns is what was typed, in order and once each, except    *)
(* for the characters that write_char turns away.                          *)
(***************************************************************************)
THEOREM RingImplementsQueue == Spec => QueueSpec
<1>1. QED
  BY InitRefines, NextRefines, RingInvariant, PTL DEF Spec, Queue!Spec, QueueSpec

=============================================================================
