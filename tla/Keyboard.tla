------------------------------ MODULE Keyboard ------------------------------
(***************************************************************************)
(* From keys to characters: the scan codes a keyboard sends, and what      *)
(* irq1_handler with shift and is_shift of kernel/pic.c makes of them.     *)
(* Codes and characters are their numbers in the code.                     *)
(*                                                                         *)
(* The keyboard is external: it sends a code when a key goes down, another *)
(* when it goes up, and the first again while it stays down.  Some keys    *)
(* have a prefix before their codes, and print screen pretends that a      *)
(* shift key goes down with it, behind a prefix as well.                   *)
(*                                                                         *)
(* owed, wrong, prefixed and faked are history variables: a character is   *)
(* owed from the time its key goes down, with what the key types without   *)
(* and with shift, and whether a shift key was down.                       *)
(***************************************************************************)
EXTENDS Integers, Sequences

CONSTANTS
  Keys,       \* the keys of the keyboard, a subset of AllKeys
  MaxCodes    \* bound: codes on their way

\* One key of each kind, and the four symbol keys that shift changes.
Symbols == {"lbracket", "rbracket", "grave", "backslash"}
Typing == {"a", "1"} \cup Symbols
AllKeys == {"lshift", "rshift", "up", "print"} \cup Typing

ASSUME KeysAssumption == Keys \subseteq AllKeys
ASSUME MaxCodesAssumption == MaxCodes \in Nat

VARIABLES
  held,             \* keys that are down
  wire,             \* codes sent and not yet read
  shiftl, shiftr,
  owed,             \* what was typed and is not yet written, a sequence of
                    \* [plain, shifted, shift]
  wrong,            \* a character that was written for another, or -1
  prefixed,         \* the last code read was the prefix
  faked             \* shiftl has its value from a pretended shift key

flags == <<shiftl, shiftr>>
vars == <<held, wire, flags, owed, wrong, prefixed, faked>>

Prefix == 224
Shifts == {"lshift", "rshift"}

Init ==
  /\ held = {}
  /\ wire = <<>>
  /\ shiftl = FALSE
  /\ shiftr = FALSE
  /\ owed = <<>>
  /\ wrong = -1
  /\ prefixed = FALSE
  /\ faked = FALSE

Code(k) ==
  CASE k = "a" -> 30
    [] k = "1" -> 2
    [] k = "lbracket" -> 26
    [] k = "rbracket" -> 27
    [] k = "grave" -> 41
    [] k = "backslash" -> 43

\* The codes of a key that goes down while those in h are, one that stays
\* down, and one that goes up.
Down(k, h) ==
  CASE k = "lshift" -> <<42>>
    [] k = "rshift" -> <<54>>
    [] k \in Typing -> <<Code(k)>>
    [] k = "up" -> <<Prefix, 72>>
    [] k = "print" -> IF h \cap Shifts = {} THEN <<Prefix, 42, Prefix, 55>>
                                            ELSE <<Prefix, 55>>

Again(k) == IF k = "print" THEN <<Prefix, 55>> ELSE Down(k, held)

Up(k, h) ==
  CASE k = "lshift" -> <<170>>
    [] k = "rshift" -> <<182>>
    [] k \in Typing -> <<Code(k) + 128>>
    [] k = "up" -> <<Prefix, 200>>
    [] k = "print" -> IF h \cap Shifts = {} THEN <<Prefix, 183, Prefix, 170>>
                                            ELSE <<Prefix, 183>>

\* What a key types: a cursor key NUL, and print screen '*'.
Plain(k) ==
  CASE k = "a" -> 97
    [] k = "1" -> 49
    [] k = "lbracket" -> 91
    [] k = "rbracket" -> 93
    [] k = "grave" -> 96
    [] k = "backslash" -> 92
    [] k = "up" -> 0
    [] k = "print" -> 42

\* What it types with shift: a letter its capital, and the others what they
\* type without, for "shift + symbols" is "not implemented"
\* (self_evaluation.txt:5); but '[' types ';', ']' '=', '`' '@' and '\' '<',
\* because the handler takes 32 from them as from the letters.
Shifted(k) ==
  CASE k = "a" -> 65
    [] k = "lbracket" -> 59
    [] k = "rbracket" -> 61
    [] k = "grave" -> 64
    [] k = "backslash" -> 60
    [] OTHER -> Plain(k)

\* What is owed for a key that goes down while the keys in h are.
Meaning(k, h) ==
  IF k \in Shifts
  THEN <<>>
  ELSE <<[plain |-> Plain(k), shifted |-> Shifted(k), shift |-> h \cap Shifts # {}]>>

-----------------------------------------------------------------------------
is_shift == shiftl \/ shiftr

\* The part of the keyboard map that the keys of this model reach.
kbd_US(in) ==
  CASE in = 30 -> 97
    [] in = 2 -> 49
    [] in = 26 -> 91
    [] in = 27 -> 93
    [] in = 41 -> 96
    [] in = 43 -> 92
    [] in = 55 -> 42
    [] OTHER -> 0

-----------------------------------------------------------------------------
(***************************************************************************)
(* Mutants: definitions of this module with a mistake in them.  Nothing    *)
(* refers to them here; each shows that a property below can fail.         *)
(***************************************************************************)
\* One flag for the two shift keys.
ShiftKeysOne(in) ==
  /\ in \in {42, 54, 170, 182}
  /\ shiftl' = (in \in {42, 54})
  /\ UNCHANGED shiftr

-----------------------------------------------------------------------------
Press(k) ==
  /\ k \notin held
  /\ Len(wire) + Len(Down(k, held)) <= MaxCodes
  /\ held' = held \cup {k}
  /\ wire' = wire \o Down(k, held)
  /\ owed' = owed \o Meaning(k, held)
  /\ UNCHANGED <<flags, wrong, prefixed, faked>>

Repeat(k) ==
  /\ k \in held
  /\ Len(wire) + Len(Again(k)) <= MaxCodes
  /\ wire' = wire \o Again(k)
  /\ owed' = owed \o Meaning(k, held)
  /\ UNCHANGED <<held, flags, wrong, prefixed, faked>>

Release(k) ==
  /\ k \in held
  /\ Len(wire) + Len(Up(k, held)) <= MaxCodes
  /\ held' = held \ {k}
  /\ wire' = wire \o Up(k, held)
  /\ UNCHANGED <<flags, owed, wrong, prefixed, faked>>

-----------------------------------------------------------------------------
\* shift, for the codes it returns true for
ShiftKeys(in) ==
  /\ in \in {42, 54, 170, 182}
  /\ shiftl' = (in = 42 \/ (shiftl /\ in # 170))
  /\ shiftr' = (in = 54 \/ (shiftr /\ in # 182))

Value(in) ==
  IF is_shift /\ kbd_US(in) > 80 THEN kbd_US(in) - 32 ELSE kbd_US(in)

IsCharacter(in) == in < 127

\* What may be written for a key: the character its shift keys ask for, and
\* after a pretended shift key the key's other character as well, but no more.
Due(d) == IF d.shift THEN d.shifted ELSE d.plain

Settles(val, d, pretended) ==
  IF pretended THEN val \in {d.plain, d.shifted} ELSE val = Due(d)

\* write_char, which here settles what is owed.
write_char(val) ==
  /\ owed' = IF owed = <<>> THEN owed ELSE Tail(owed)
  /\ wrong' = IF owed # <<>> /\ Settles(val, Head(owed), faked) THEN wrong ELSE val

irq1_handler ==
  /\ wire # <<>>
  /\ LET in == Head(wire)
         isShift == in \in {42, 54, 170, 182}
     IN  /\ IF isShift THEN ShiftKeys(in) ELSE UNCHANGED flags
         /\ IF ~isShift /\ IsCharacter(in) THEN write_char(Value(in))
                                           ELSE UNCHANGED <<owed, wrong>>
         /\ prefixed' = (in = Prefix)
         /\ faked' = IF in \in {42, 170} THEN prefixed ELSE faked
  /\ wire' = Tail(wire)
  /\ UNCHANGED held

Next ==
  \/ \E k \in Keys : Press(k) \/ Repeat(k) \/ Release(k)
  \/ irq1_handler

Spec == Init /\ [][Next]_vars

-----------------------------------------------------------------------------
(***************************************************************************)
(* Every key types its character once, in the order of the presses and as  *)
(* the shift keys were at that time, however many keys have moved before   *)
(* the handler sees the code.  With shift that is the capital of a letter, *)
(* and for four symbol keys another symbol (Shifted).  The handler knows   *)
(* nothing of the prefix (pic.c:38): after print screen it may have the    *)
(* shift wrong, so that a key types the other one of its two characters    *)
(* and never a third, until the left shift key is used again, no longer.   *)
(***************************************************************************)
TypedAsMeant == wrong = -1 /\ (wire = <<>> => owed = <<>>)

=============================================================================
