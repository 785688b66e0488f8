---------------------------- MODULE InputProofs ----------------------------
(***************************************************************************)
(* Proofs about what is typed: Keyboard, for any keys and any number of    *)
(* codes on their way, and, behind it, ReadSyscall.                        *)
(*                                                                         *)
(* What the handler will know when it comes to a code is settled when the  *)
(* code is sent: the flags it has now, and the codes that lie between.     *)
(* Foreseen says that there are these states, one before each code on the  *)
(* wire and one behind the last, that lead from what the handler knows now *)
(* to what the keyboard knows now; and that each code that is a character  *)
(* finds the one that is owed for it.                                      *)
(***************************************************************************)
EXTENDS Keyboard, ReadSyscall, SequenceTheorems, TLAPS

\* What the handler knows, by the names of what is true: the flags, whether
\* the last code was the prefix, and whether a shift key was pretended.
Names == {"l", "r", "p", "f"}
States == SUBSET Names

Knows ==
  {x \in Names : \/ x = "l" /\ shiftl
                 \/ x = "r" /\ shiftr
                 \/ x = "p" /\ prefixed
                 \/ x = "f" /\ faked}

After(s, in) ==
  {x \in Names : \/ x = "l" /\ (in = 42 \/ ("l" \in s /\ in # 170))
                 \/ x = "r" /\ (in = 54 \/ ("r" \in s /\ in # 182))
                 \/ x = "p" /\ in = Prefix
                 \/ x = "f" /\ IF in \in {42, 170} THEN "p" \in s ELSE "f" \in s}

Writes(in) == IsCharacter(in) /\ in \notin {42, 54, 170, 182}

ValueIn(s, in) ==
  IF ("l" \in s \/ "r" \in s) /\ kbd_US(in) > 80 THEN kbd_US(in) - 32 ELSE kbd_US(in)

\* What is owed for a key, and that the handler settles it in state s.
Debts == [plain : Nat, shifted : Nat, shift : BOOLEAN]

Pays(s, in, d) == Settles(ValueIn(s, in), d, "f" \in s)

\* s are the states before the codes of w, and c the characters of o that are
\* written before each.
Path(w, o, s, c) ==
  /\ s \in [1 .. Len(w) + 1 -> States]
  /\ c \in [1 .. Len(w) + 1 -> 0 .. Len(o)]
  /\ c[1] = 0 /\ c[Len(w) + 1] = Len(o)
  /\ \A m, z \in 1 .. Len(w) + 1 : m <= z => c[m] <= c[z]
  /\ \A z \in 1 .. Len(w) : s[z + 1] = After(s[z], w[z])
  /\ \A z \in 1 .. Len(w) :
       IF Writes(w[z])
         THEN /\ c[z + 1] = c[z] + 1
              /\ Pays(s[z], w[z], o[c[z] + 1])
         ELSE c[z + 1] = c[z]

Foreseen(w, o, first, last) ==
  \E s, c : Path(w, o, s, c) /\ s[1] = first /\ s[Len(w) + 1] = last

\* The state that the keyboard leaves behind: no prefix without its code, and
\* the flags those of the shift keys.
Sent(s, h) ==
  /\ s \in States
  /\ "p" \notin s
  /\ "f" \in s \/ ("l" \in s <=> "lshift" \in h)
  /\ "r" \in s <=> "rshift" \in h

-----------------------------------------------------------------------------
\* A path along words of given lengths
Along(s, c, last, l) ==
  /\ s \in [1 .. last -> States] /\ c \in [1 .. last -> 0 .. l]
  /\ c[1] = 0 /\ c[last] = l
  /\ \A m, z \in 1 .. last : m <= z => c[m] <= c[z]
Steps(w, o, s, c, z) ==
  \A k \in 1 .. z :
    /\ s[k + 1] = After(s[k], w[k])
    /\ IF Writes(w[k])
         THEN /\ c[k + 1] = c[k] + 1
              /\ Pays(s[k], w[k], o[c[k] + 1])
         ELSE c[k + 1] = c[k]

LEMMA PathIs ==
  ASSUME NEW w, NEW o, NEW s, NEW c, NEW z, z = Len(w),
         NEW last, last = Len(w) + 1, NEW l, l = Len(o)
  PROVE  Path(w, o, s, c) <=> Along(s, c, last, l) /\ Steps(w, o, s, c, z)
  BY DEF Path, Along, Steps

\* The keyboard sends one code more, and with it a character or none.
LEMMA SendCode ==
  ASSUME NEW w \in Seq(Nat), NEW o \in Seq(Debts), NEW in \in Nat, NEW first, NEW last,
         Foreseen(w, o, first, last), ~Writes(in)
  PROVE  Foreseen(Append(w, in), o, first, After(last, in))
<1>1. PICK s, c : Path(w, o, s, c) /\ s[1] = first /\ s[Len(w) + 1] = last
  BY DEF Foreseen
<1>2. PICK z \in Nat : z = Len(w)
  OBVIOUS
<1>v. PICK v : v = Append(w, in)
  OBVIOUS
<1>3. v \in Seq(Nat) /\ Len(v) = z + 1 /\ v[z + 1] = in /\ \A k \in 1 .. z : v[k] = w[k]
  BY <1>2, <1>v
<1>4. PICK t : t = [k \in 1 .. z + 2 |-> IF k = z + 2 THEN After(last, in) ELSE s[k]]
  OBVIOUS
<1>5. PICK d : d = [k \in 1 .. z + 2 |-> IF k = z + 2 THEN Len(o) ELSE c[k]]
  OBVIOUS
<1>6. /\ t[z + 2] = After(last, in) /\ \A k \in 1 .. z + 1 : t[k] = s[k]
      /\ d[z + 2] = Len(o) /\ \A k \in 1 .. z + 1 : d[k] = c[k]
  BY <1>4, <1>5
<1>7. t \in [1 .. z + 2 -> States]
  BY <1>1, <1>2, <1>4 DEF Path, After, States
<1>8. d \in [1 .. z + 2 -> 0 .. Len(o)]
  BY <1>1, <1>2, <1>5 DEF Path
<1>9. \A m, k \in 1 .. z + 2 : m <= k => d[m] <= d[k]
  <2> TAKE m, k \in 1 .. z + 2
  <2> HAVE m <= k
  <2>1. CASE k = z + 2
    BY <1>6, <1>8, <2>1
  <2>2. CASE k # z + 2
    <3>1. m \in 1 .. z + 1 /\ k \in 1 .. z + 1
      BY <2>2
    <3>2. c[m] <= c[k]
      BY <1>1, <1>2, <3>1 DEF Path
    <3> QED
      BY <1>6, <3>1, <3>2
  <2> QED
    BY <2>1, <2>2
<1>10. \A k \in 1 .. z + 1 : t[k + 1] = After(t[k], v[k])
  <2> TAKE k \in 1 .. z + 1
  <2>1. CASE k = z + 1
    <3>1. v[k] = in /\ t[k] = last /\ t[k + 1] = After(last, in)
      <4>1. z + 1 \in 1 .. z + 1 /\ (z + 1) + 1 = z + 2
        OBVIOUS
      <4>2. t[z + 1] = s[z + 1] /\ t[(z + 1) + 1] = After(last, in)
        BY <1>6, <4>1
      <4>3. s[z + 1] = last
        BY <1>1, <1>2
      <4> QED
        BY <1>3, <2>1, <4>2, <4>3
    <3> QED
      BY <3>1
  <2>2. CASE k \in 1 .. z
    <3>1. v[k] = w[k] /\ t[k] = s[k] /\ t[k + 1] = s[k + 1]
      <4>1. k \in 1 .. z + 1 /\ k + 1 \in 1 .. z + 1
        BY <2>2
      <4> QED
        BY <1>3, <1>6, <2>2, <4>1
    <3> QED
      BY <1>1, <1>2, <2>2, <3>1 DEF Path
  <2> QED
    BY <2>1, <2>2
<1>11. \A k \in 1 .. z + 1 :
         IF Writes(v[k])
           THEN /\ d[k + 1] = d[k] + 1
                /\ Pays(t[k], v[k], o[d[k] + 1])
           ELSE d[k + 1] = d[k]
  <2> TAKE k \in 1 .. z + 1
  <2>1. CASE k = z + 1
    <3>1. v[k] = in /\ d[k + 1] = Len(o) /\ d[k] = Len(o)
      BY <1>1, <1>2, <1>3, <1>6, <2>1 DEF Path
    <3> QED
      BY <3>1
  <2>2. CASE k \in 1 .. z
    <3>1. v[k] = w[k] /\ t[k] = s[k] /\ d[k + 1] = c[k + 1] /\ d[k] = c[k]
      <4>1. k \in 1 .. z + 1 /\ k + 1 \in 1 .. z + 1
        BY <2>2
      <4> QED
        BY <1>3, <1>6, <2>2, <4>1
    <3> QED
      BY <1>1, <1>2, <2>2, <3>1 DEF Path
  <2> QED
    BY <2>1, <2>2
<1>12. Path(v, o, t, d)
  <2>1. c[1] = 0 /\ 1 \in 1 .. z + 1
    BY <1>1 DEF Path
  <2>2. d[1] = 0 /\ d[z + 2] = Len(o)
    BY <1>6, <2>1
  <2>3. Along(t, d, z + 2, Len(o))
    BY <1>7, <1>8, <1>9, <2>2 DEF Along
  <2>4. Steps(v, o, t, d, z + 1)
    BY <1>10, <1>11 DEF Steps
  <2>5. z + 1 = Len(v) /\ z + 2 = Len(v) + 1
    BY <1>3
  <2> QED
    BY <2>3, <2>4, <2>5, PathIs
<1>13. t[1] = first /\ t[Len(v) + 1] = After(last, in)
  BY <1>1, <1>2, <1>3, <1>6
<1> QED
  BY <1>v, <1>12, <1>13 DEF Foreseen

LEMMA SendCharacter ==
  ASSUME NEW w \in Seq(Nat), NEW o \in Seq(Debts), NEW in \in Nat, NEW first, NEW last,
         Foreseen(w, o, first, last), Writes(in), NEW val \in Debts,
         Pays(last, in, val)
  PROVE  Foreseen(Append(w, in), Append(o, val), first, After(last, in))
<1>1. PICK s, c : Path(w, o, s, c) /\ s[1] = first /\ s[Len(w) + 1] = last
  BY DEF Foreseen
<1>2. PICK z \in Nat : z = Len(w)
  OBVIOUS
<1>v. PICK v : v = Append(w, in)
  OBVIOUS
<1>a. PICK l \in Nat : l = Len(o)
  OBVIOUS
<1>q. PICK q : q = Append(o, val)
  OBVIOUS
<1>b. q \in Seq(Debts) /\ Len(q) = l + 1 /\ q[l + 1] = val /\ \A k \in 1 .. l : q[k] = o[k]
  BY <1>a, <1>q
<1>3. v \in Seq(Nat) /\ Len(v) = z + 1 /\ v[z + 1] = in /\ \A k \in 1 .. z : v[k] = w[k]
  BY <1>2, <1>v
<1>4. PICK t : t = [k \in 1 .. z + 2 |-> IF k = z + 2 THEN After(last, in) ELSE s[k]]
  OBVIOUS
<1>5. PICK d : d = [k \in 1 .. z + 2 |-> IF k = z + 2 THEN l + 1 ELSE c[k]]
  OBVIOUS
<1>6. /\ t[z + 2] = After(last, in) /\ \A k \in 1 .. z + 1 : t[k] = s[k]
      /\ d[z + 2] = l + 1 /\ \A k \in 1 .. z + 1 : d[k] = c[k]
  BY <1>4, <1>5
<1>7. t \in [1 .. z + 2 -> States]
  BY <1>1, <1>2, <1>4 DEF Path, After, States
<1>8. d \in [1 .. z + 2 -> 0 .. l + 1]
  BY <1>1, <1>2, <1>a, <1>5 DEF Path
<1>9. \A m, k \in 1 .. z + 2 : m <= k => d[m] <= d[k]
  <2> TAKE m, k \in 1 .. z + 2
  <2> HAVE m <= k
  <2>1. CASE k = z + 2
    BY <1>6, <1>8, <2>1
  <2>2. CASE k # z + 2
    <3>1. m \in 1 .. z + 1 /\ k \in 1 .. z + 1
      BY <2>2
    <3>2. c[m] <= c[k]
      BY <1>1, <1>2, <3>1 DEF Path
    <3> QED
      BY <1>6, <3>1, <3>2
  <2> QED
    BY <2>1, <2>2
<1>10. \A k \in 1 .. z + 1 : t[k + 1] = After(t[k], v[k])
  <2> TAKE k \in 1 .. z + 1
  <2>1. CASE k = z + 1
    <3>1. v[k] = in /\ t[k] = last /\ t[k + 1] = After(last, in)
      <4>1. z + 1 \in 1 .. z + 1 /\ (z + 1) + 1 = z + 2
        OBVIOUS
      <4>2. t[z + 1] = s[z + 1] /\ t[(z + 1) + 1] = After(last, in)
        BY <1>6, <4>1
      <4>3. s[z + 1] = last
        BY <1>1, <1>2
      <4> QED
        BY <1>3, <2>1, <4>2, <4>3
    <3> QED
      BY <3>1
  <2>2. CASE k \in 1 .. z
    <3>1. v[k] = w[k] /\ t[k] = s[k] /\ t[k + 1] = s[k + 1]
      <4>1. k \in 1 .. z + 1 /\ k + 1 \in 1 .. z + 1
        BY <2>2
      <4> QED
        BY <1>3, <1>6, <2>2, <4>1
    <3> QED
      BY <1>1, <1>2, <2>2, <3>1 DEF Path
  <2> QED
    BY <2>1, <2>2
<1>11. \A k \in 1 .. z + 1 :
         IF Writes(v[k])
           THEN /\ d[k + 1] = d[k] + 1
                /\ Pays(t[k], v[k], q[d[k] + 1])
           ELSE d[k + 1] = d[k]
  <2> TAKE k \in 1 .. z + 1
  <2>1. CASE k = z + 1
    <3>1. v[k] = in /\ t[k] = last /\ d[k + 1] = l + 1 /\ d[k] = l
      <4>1. z + 1 \in 1 .. z + 1 /\ (z + 1) + 1 = z + 2
        OBVIOUS
      <4>2. /\ t[z + 1] = s[z + 1]
            /\ d[(z + 1) + 1] = l + 1 /\ d[z + 1] = c[z + 1]
        BY <1>6, <4>1
      <4>3. s[z + 1] = last /\ c[z + 1] = l
        BY <1>1, <1>2, <1>a DEF Path
      <4> QED
        BY <1>3, <2>1, <4>2, <4>3
    <3> QED
      BY <1>b, <3>1
  <2>2. CASE k \in 1 .. z
    <3>1. v[k] = w[k] /\ t[k] = s[k] /\ d[k + 1] = c[k + 1] /\ d[k] = c[k]
      <4>1. k \in 1 .. z + 1 /\ k + 1 \in 1 .. z + 1
        BY <2>2
      <4> QED
        BY <1>3, <1>6, <2>2, <4>1
    <3>2. /\ c[k] \in 0 .. l /\ c[k + 1] \in 0 .. l
          /\ IF Writes(w[k])
               THEN /\ c[k + 1] = c[k] + 1
                    /\ Pays(s[k], w[k], o[c[k] + 1])
               ELSE c[k + 1] = c[k]
      <4>1. k \in 1 .. z + 1 /\ k + 1 \in 1 .. z + 1
        BY <2>2
      <4>2. c \in [1 .. z + 1 -> 0 .. l]
        BY <1>1, <1>2, <1>a DEF Path
      <4>3. c[k] \in 0 .. l /\ c[k + 1] \in 0 .. l
        BY <4>1, <4>2
      <4>4. IF Writes(w[k])
              THEN /\ c[k + 1] = c[k] + 1
                   /\ Pays(s[k], w[k], o[c[k] + 1])
              ELSE c[k + 1] = c[k]
        BY <1>1, <1>2, <2>2 DEF Path
      <4> QED
        BY <4>3, <4>4
    <3>3. ASSUME c[k + 1] = c[k] + 1 PROVE q[c[k] + 1] = o[c[k] + 1]
      <4>1. PICK e \in 0 .. l : e = c[k + 1]
        BY <3>2
      <4>2. PICK a \in 0 .. l : a = c[k]
        BY <3>2
      <4>3. e = a + 1 /\ e \in 1 .. l
        BY <3>3, <4>1, <4>2
      <4> QED
        BY <1>b, <4>2, <4>3
    <3> QED
      BY <3>1, <3>2, <3>3
  <2> QED
    BY <2>1, <2>2
<1>12. Path(v, q, t, d)
  <2>1. c[1] = 0 /\ 1 \in 1 .. z + 1
    BY <1>1 DEF Path
  <2>2. d[1] = 0 /\ d[z + 2] = l + 1
    BY <1>6, <2>1
  <2>3. Along(t, d, z + 2, l + 1)
    BY <1>7, <1>8, <1>9, <2>2 DEF Along
  <2>4. Steps(v, q, t, d, z + 1)
    BY <1>10, <1>11 DEF Steps
  <2>5. z + 1 = Len(v) /\ z + 2 = Len(v) + 1 /\ l + 1 = Len(q)
    BY <1>3, <1>b
  <2> QED
    BY <2>3, <2>4, <2>5, PathIs
<1>13. t[1] = first /\ t[Len(v) + 1] = After(last, in)
  BY <1>1, <1>2, <1>3, <1>6
<1> QED
  BY <1>v, <1>q, <1>12, <1>13 DEF Foreseen

\* The handler takes a code.
LEMMA TakeCode ==
  ASSUME NEW w \in Seq(Nat), NEW o \in Seq(Debts), NEW first, NEW last,
         Foreseen(w, o, first, last), w # <<>>
  PROVE  LET in == Head(w) IN
         IF Writes(in)
           THEN /\ o # <<>>
                /\ Pays(first, in, Head(o))
                /\ Foreseen(Tail(w), Tail(o), After(first, in), last)
           ELSE Foreseen(Tail(w), o, After(first, in), last)
<1>1. PICK s, c : Path(w, o, s, c) /\ s[1] = first /\ s[Len(w) + 1] = last
  BY DEF Foreseen
<1>w. PICK z \in Nat : Len(w) = z + 1
  <2>1. Len(w) - 1 \in Nat /\ Len(w) = (Len(w) - 1) + 1
    OBVIOUS
  <2> QED
    BY <2>1
<1>h. PICK v, in : v = Tail(w) /\ in = Head(w)
  OBVIOUS
<1>2. Len(w) = z + 1 /\ v = Tail(w) /\ in = Head(w)
  BY <1>w, <1>h
<1>3. v \in Seq(Nat) /\ Len(v) = z /\ w[1] = in /\ \A k \in 1 .. z : v[k] = w[k + 1]
  BY <1>2
<1>4. PICK l \in Nat : l = Len(o)
  OBVIOUS
<1>5. PICK t : t = [k \in 1 .. z + 1 |-> s[k + 1]]
  OBVIOUS
<1>6. /\ t \in [1 .. z + 1 -> States] /\ \A k \in 1 .. z + 1 : t[k] = s[k + 1]
      /\ \A k \in 1 .. z : t[k + 1] = After(t[k], v[k])
      /\ t[1] = After(first, in) /\ t[z + 1] = last
  BY <1>1, <1>2, <1>3, <1>5 DEF Path
<1>7. \A k \in 1 .. z + 2 : c[k] \in 0 .. l
  BY <1>1, <1>2, <1>4 DEF Path
<1>8. ASSUME Writes(in)
      PROVE  /\ o # <<>>
             /\ Pays(first, in, Head(o))
             /\ Foreseen(v, Tail(o), After(first, in), last)
  <2>1. /\ c[1] = 0 /\ c[2] = 1
        /\ Pays(first, in, o[1])
    BY <1>1, <1>2, <1>3, <1>8 DEF Path
  <2>2. PICK m \in Nat : l = m + 1
    <3>1. c[2] \in 0 .. l
      BY <1>7
    <3>2. l - 1 \in Nat /\ l = (l - 1) + 1
      BY <2>1, <3>1
    <3> QED
      BY <3>2
  <2>3. o # <<>> /\ Head(o) = o[1]
    <3>1. Len(o) # 0
      BY <1>4, <2>2
    <3> QED
      BY <3>1
  <2>4. PICK q : q = Tail(o)
    OBVIOUS
  <2>5. q \in Seq(Debts) /\ Len(q) = m /\ \A k \in 1 .. m : q[k] = o[k + 1]
    <3>1. Len(o) = m + 1
      BY <1>4, <2>2
    <3> QED
      BY <2>3, <2>4, <3>1
  <2>6. PICK d : d = [k \in 1 .. z + 1 |-> c[k + 1] - 1]
    OBVIOUS
  <2>7. \A k \in 1 .. z + 1 : c[k + 1] >= 1
    <3> TAKE k \in 1 .. z + 1
    <3>1. 2 \in 1 .. z + 2 /\ k + 1 \in 1 .. z + 2 /\ 2 <= k + 1
      OBVIOUS
    <3>2. c[2] <= c[k + 1]
      BY <1>1, <1>2, <3>1 DEF Path
    <3> QED
      BY <1>7, <2>1, <3>1, <3>2
  <2>8. \A k \in 1 .. z + 1 : d[k] = c[k + 1] - 1 /\ d[k] \in 0 .. m /\ c[k + 1] = d[k] + 1
    BY <1>7, <2>2, <2>6, <2>7
  <2>9. d \in [1 .. z + 1 -> 0 .. m]
    BY <2>6, <2>8
  <2>10. d[1] = 0 /\ d[z + 1] = m
    <3>1. 1 \in 1 .. z + 1 /\ z + 1 \in 1 .. z + 1 /\ 1 + 1 = 2 /\ (z + 1) + 1 = z + 2
      OBVIOUS
    <3>2. c[z + 2] = l
      <4>1. Len(w) + 1 = z + 2
        BY <1>2
      <4> QED
        BY <1>1, <1>4, <4>1 DEF Path
    <3>3. d[1] = c[2] - 1 /\ d[z + 1] = c[z + 2] - 1
      BY <2>8, <3>1
    <3> QED
      BY <2>1, <2>2, <3>2, <3>3
  <2>11. \A j, k \in 1 .. z + 1 : j <= k => d[j] <= d[k]
    <3> TAKE j, k \in 1 .. z + 1
    <3> HAVE j <= k
    <3>1. Len(w) + 1 = z + 2 /\ j + 1 \in 1 .. z + 2 /\ k + 1 \in 1 .. z + 2
      BY <1>2
    <3>2. j + 1 <= k + 1
      OBVIOUS
    <3>3. c[j + 1] <= c[k + 1]
      BY <1>1, <3>1, <3>2 DEF Path
    <3> QED
      BY <2>8, <3>3
  <2>12. \A k \in 1 .. z :
           IF Writes(v[k])
             THEN /\ d[k + 1] = d[k] + 1
                  /\ Pays(t[k], v[k], q[d[k] + 1])
             ELSE d[k + 1] = d[k]
    <3> TAKE k \in 1 .. z
    <3>1. IF Writes(w[k + 1])
            THEN /\ c[k + 2] = c[k + 1] + 1
                 /\ Pays(s[k + 1], w[k + 1], o[c[k + 1] + 1])
            ELSE c[k + 2] = c[k + 1]
      <4>1. k + 1 \in 1 .. Len(w) /\ (k + 1) + 1 = k + 2
        BY <1>2
      <4> QED
        BY <1>1, <4>1 DEF Path
    <3>2. v[k] = w[k + 1] /\ t[k] = s[k + 1]
      BY <1>3, <1>6
    <3>3. /\ c[k + 1] = d[k] + 1 /\ c[k + 2] = d[k + 1] + 1
          /\ d[k] \in 0 .. m /\ d[k + 1] \in 0 .. m
      <4>1. k \in 1 .. z + 1 /\ k + 1 \in 1 .. z + 1 /\ (k + 1) + 1 = k + 2
        OBVIOUS
      <4> QED
        BY <2>8, <4>1
    <3>4. ASSUME c[k + 2] = c[k + 1] + 1
          PROVE  d[k + 1] = d[k] + 1 /\ q[d[k] + 1] = o[c[k + 1] + 1]
      <4>1. d[k + 1] = d[k] + 1
        BY <3>3, <3>4
      <4>2. PICK j \in 1 .. m : j = d[k] + 1
        BY <3>3, <4>1
      <4>3. q[j] = o[j + 1] /\ j + 1 = c[k + 1] + 1
        BY <2>5, <3>3, <4>2
      <4> QED
        BY <4>1, <4>2, <4>3
    <3>5. ASSUME c[k + 2] = c[k + 1] PROVE d[k + 1] = d[k]
      <4>1. PICK a \in 0 .. m : a = d[k]
        BY <3>3
      <4>2. PICK b \in 0 .. m : b = d[k + 1]
        BY <3>3
      <4>3. a + 1 = b + 1
        BY <3>3, <3>5, <4>1, <4>2
      <4>4. a = b
        BY <4>3
      <4> QED
        BY <4>1, <4>2, <4>4
    <3> QED
      BY <3>1, <3>2, <3>4, <3>5
  <2>13. Path(v, q, t, d)
    BY <1>3, <1>6, <2>5, <2>9, <2>10, <2>11, <2>12 DEF Path
  <2> QED
    BY <1>3, <1>6, <2>1, <2>3, <2>4, <2>13 DEF Foreseen
<1>9. ASSUME ~Writes(in)
      PROVE  Foreseen(v, o, After(first, in), last)
  <2>1. c[1] = 0 /\ c[2] = 0
    BY <1>1, <1>2, <1>3, <1>9 DEF Path
  <2>2. PICK d : d = [k \in 1 .. z + 1 |-> c[k + 1]]
    OBVIOUS
  <2>3. /\ d \in [1 .. z + 1 -> 0 .. l] /\ d[1] = 0 /\ d[z + 1] = l
        /\ \A k \in 1 .. z + 1 : d[k] = c[k + 1]
    BY <1>1, <1>2, <1>4, <1>7, <2>1, <2>2 DEF Path
  <2>4. \A j, k \in 1 .. z + 1 : j <= k => d[j] <= d[k]
    BY <1>1, <1>2, <2>3 DEF Path
  <2>5. \A k \in 1 .. z :
          IF Writes(v[k])
            THEN /\ d[k + 1] = d[k] + 1
                 /\ Pays(t[k], v[k], o[d[k] + 1])
            ELSE d[k + 1] = d[k]
    <3> TAKE k \in 1 .. z
    <3>1. k + 1 \in 1 .. Len(w) /\ k \in 1 .. z + 1 /\ k + 1 \in 1 .. z + 1
      BY <1>2
    <3>2. /\ v[k] = w[k + 1] /\ t[k] = s[k + 1]
          /\ d[k] = c[k + 1] /\ d[k + 1] = c[(k + 1) + 1]
      BY <1>3, <1>6, <2>3, <3>1
    <3> QED
      BY <1>1, <3>1, <3>2 DEF Path
  <2>6. Path(v, o, t, d)
    BY <1>3, <1>4, <1>6, <2>3, <2>4, <2>5 DEF Path
  <2> QED
    BY <1>3, <1>6, <2>6 DEF Foreseen
<1> QED
  BY <1>2, <1>8, <1>9

-----------------------------------------------------------------------------
(***************************************************************************)
(* Codes with what they are to write: x is what the keyboard owes for the  *)
(* code in that the handler finds in state s.                              *)
(***************************************************************************)
Owes(s, in, x) ==
  IF Writes(in)
    THEN \E val \in Debts : x = <<val>> /\ Pays(s, in, val)
    ELSE x = <<>>

LEMMA SendOne ==
  ASSUME NEW w \in Seq(Nat), NEW o \in Seq(Debts), NEW in \in Nat, NEW x, NEW first, NEW last,
         Foreseen(w, o, first, last), Owes(last, in, x)
  PROVE  Foreseen(w \o <<in>>, o \o x, first, After(last, in))
<1>1. w \o <<in>> = Append(w, in)
  BY AppendProperties
<1>2. CASE Writes(in)
  <2>1. PICK val \in Debts : x = <<val>> /\ Pays(last, in, val)
    BY <1>2 DEF Owes
  <2>2. o \o x = Append(o, val)
    BY <2>1, AppendProperties
  <2> QED
    BY <1>1, <1>2, <2>1, <2>2, SendCharacter
<1>3. CASE ~Writes(in)
  <2>1. o \o x = o
    BY <1>3, ConcatEmptySeq DEF Owes
  <2> QED
    BY <1>1, <1>3, <2>1, SendCode
<1> QED
  BY <1>2, <1>3

LEMMA Owed ==
  ASSUME NEW s, NEW in, NEW x, Owes(s, in, x)
  PROVE  x \in Seq(Debts)
<1>1. CASE Writes(in)
  <2>1. PICK val \in Debts : x = <<val>>
    BY <1>1 DEF Owes
  <2> QED
    BY <2>1
<1>2. CASE ~Writes(in)
  BY <1>2 DEF Owes
<1> QED
  BY <1>1, <1>2

\* A code behind its prefix
LEMMA SendTwo ==
  ASSUME NEW w \in Seq(Nat), NEW o \in Seq(Debts), NEW in \in Nat, NEW x, NEW first, NEW last,
         Foreseen(w, o, first, last), Owes(After(last, Prefix), in, x)
  PROVE  Foreseen(w \o <<Prefix, in>>, o \o x, first, After(After(last, Prefix), in))
<1>1. PICK v : v = w \o <<Prefix>>
  OBVIOUS
<1>2. Prefix \in Nat /\ ~Writes(Prefix)
  BY DEF Prefix, Writes, IsCharacter
<1>3. v \in Seq(Nat)
  BY <1>1, <1>2
<1>4. Foreseen(v, o, first, After(last, Prefix))
  <2>1. Owes(last, Prefix, <<>>) /\ o \o <<>> = o
    BY <1>2, ConcatEmptySeq DEF Owes
  <2> QED
    BY <1>1, <1>2, <2>1, SendOne
<1>5. v \o <<in>> = w \o <<Prefix, in>>
  BY <1>1, <1>2
<1> QED
  BY <1>3, <1>4, <1>5, SendOne

LEMMA AfterIs ==
  ASSUME NEW s, NEW in
  PROVE  /\ After(s, in) \in States
         /\ "l" \in After(s, in) <=> (in = 42 \/ ("l" \in s /\ in # 170))
         /\ "r" \in After(s, in) <=> (in = 54 \/ ("r" \in s /\ in # 182))
         /\ "p" \in After(s, in) <=> in = Prefix
         /\ "f" \in After(s, in) <=> IF in \in {42, 170} THEN "p" \in s ELSE "f" \in s
  BY DEF After, States, Names

\* What the keyboard leaves behind, after a code of a key that is no shift key,
LEMMA SentPlain ==
  ASSUME NEW s, NEW h, NEW h2, Sent(s, h), h \cap Shifts = h2 \cap Shifts,
         NEW in, in \notin {42, 54, 170, 182, Prefix}
  PROVE  Sent(After(s, in), h2) /\ Sent(After(After(s, Prefix), in), h2)
<1>1. ("lshift" \in h <=> "lshift" \in h2) /\ ("rshift" \in h <=> "rshift" \in h2)
  BY DEF Shifts
<1>2. Sent(After(s, in), h2)
  BY <1>1, AfterIs DEF Sent
<1>3. PICK t : t = After(s, Prefix)
  OBVIOUS
<1>4. /\ "f" \in t <=> "f" \in s
      /\ "l" \in t <=> "l" \in s
      /\ "r" \in t <=> "r" \in s
  BY <1>3, AfterIs DEF Prefix
<1>5. Sent(After(t, in), h2)
  BY <1>1, <1>4, AfterIs DEF Sent
<1> QED
  BY <1>2, <1>3, <1>5

\* after a shift key,
ShiftsBy(in, h, h2) ==
  /\ "lshift" \in h2 <=> in = 42 \/ ("lshift" \in h /\ in # 170)
  /\ "rshift" \in h2 <=> in = 54 \/ ("rshift" \in h /\ in # 182)

LEMMA SentShift ==
  ASSUME NEW s, NEW h, Sent(s, h), NEW in \in {42, 54, 170, 182},
         NEW h2, ShiftsBy(in, h, h2)
  PROVE  Sent(After(s, in), h2)
  BY AfterIs DEF Sent, ShiftsBy, Prefix

\* and after a pretended one.
LEMMA SentFaked ==
  ASSUME NEW s, NEW h, Sent(s, h), NEW in \in {42, 170}
  PROVE  Sent(After(After(s, Prefix), in), h)
<1>1. PICK t : t = After(s, Prefix)
  OBVIOUS
<1>2. "p" \in t /\ ("r" \in t <=> "r" \in s)
  BY <1>1, AfterIs DEF Prefix
<1>3. Sent(After(t, in), h)
  BY <1>2, AfterIs DEF Sent, Prefix
<1> QED
  BY <1>1, <1>3

\* A key's codes and its character
LEMMA CodeIs ==
  ASSUME NEW k \in Typing
  PROVE  /\ Code(k) \in {30, 2, 26, 27, 41, 43}
         /\ Code(k) \in Nat /\ Code(k) + 128 \in Nat
         /\ Code(k) \notin {42, 54, 170, 182, Prefix}
         /\ Code(k) + 128 \notin {42, 54, 170, 182, Prefix}
         /\ Writes(Code(k)) /\ ~Writes(Code(k) + 128)
<1>1. Code(k) \in {30, 2, 26, 27, 41, 43}
  BY DEF Typing, Symbols, Code
<1> QED
  BY <1>1 DEF Prefix, Writes, IsCharacter

LEMMA DebtIs ==
  ASSUME NEW k \in Typing \cup {"up", "print"}, NEW h
  PROVE  \E d \in Debts :
           /\ Meaning(k, h) = <<d>>
           /\ d.plain = Plain(k) /\ d.shifted = Shifted(k)
           /\ d.shift <=> h \cap Shifts # {}
<1>1. Plain(k) \in Nat /\ Shifted(k) \in Nat
  BY DEF Typing, Symbols, Plain, Shifted
<1>2. k \notin Shifts
  BY DEF Typing, Symbols, Shifts
<1>3. PICK b \in BOOLEAN : b = (h \cap Shifts # {})
  OBVIOUS
<1>4. PICK d : d = [plain |-> Plain(k), shifted |-> Shifted(k), shift |-> b]
  OBVIOUS
<1>5. d \in Debts /\ d.plain = Plain(k) /\ d.shifted = Shifted(k) /\ d.shift = b
  BY <1>1, <1>4 DEF Debts
<1>6. Meaning(k, h) = <<d>>
  BY <1>2, <1>3, <1>4 DEF Meaning
<1> QED
  BY <1>3, <1>5, <1>6

\* What the handler makes of a code, with the flags and without.
LEMMA ValueOf ==
  ASSUME NEW s, NEW k \in Typing
  PROVE  ValueIn(s, Code(k)) = IF "l" \in s \/ "r" \in s THEN Shifted(k) ELSE Plain(k)
<1>1. kbd_US(Code(k)) = Plain(k)
  BY DEF kbd_US, Code, Plain, Typing, Symbols
<1>2. Shifted(k) = IF Plain(k) > 80 THEN Plain(k) - 32 ELSE Plain(k)
  BY DEF Shifted, Plain, Typing, Symbols
<1> QED
  BY <1>1, <1>2 DEF ValueIn

LEMMA KeyOwes ==
  ASSUME NEW s, NEW h, Sent(s, h)
  PROVE  /\ \A k \in Typing : Owes(s, Code(k), Meaning(k, h))
         /\ \A t : Owes(t, 72, Meaning("up", h)) /\ Owes(t, 55, Meaning("print", h))
         /\ Meaning("lshift", h) = <<>> /\ Meaning("rshift", h) = <<>>
<1>1. Meaning("lshift", h) = <<>> /\ Meaning("rshift", h) = <<>>
  BY DEF Meaning, Shifts
<1>2. "f" \in s \/ (("l" \in s \/ "r" \in s) <=> h \cap Shifts # {})
  BY DEF Sent, Shifts
<1>3. ASSUME NEW k \in Typing PROVE Owes(s, Code(k), Meaning(k, h))
  <2>1. PICK d \in Debts :
          /\ Meaning(k, h) = <<d>>
          /\ d.plain = Plain(k) /\ d.shifted = Shifted(k)
          /\ d.shift <=> h \cap Shifts # {}
    BY DebtIs
  <2>2. Settles(ValueIn(s, Code(k)), d, "f" \in s)
    BY <1>2, <2>1, ValueOf DEF Settles, Due
  <2> QED
    BY <2>1, <2>2, CodeIs DEF Owes, Pays
<1>4. ASSUME NEW t, NEW k \in {"up", "print"}, NEW in, in = IF k = "up" THEN 72 ELSE 55
      PROVE  Owes(t, in, Meaning(k, h))
  <2>1. PICK d \in Debts :
          /\ Meaning(k, h) = <<d>>
          /\ d.plain = Plain(k) /\ d.shifted = Shifted(k)
    BY DebtIs
  <2>2. kbd_US(in) = Plain(k) /\ Shifted(k) = Plain(k) /\ ~(Plain(k) > 80)
    BY <1>4 DEF kbd_US, Plain, Shifted
  <2>3. ValueIn(t, in) = Plain(k)
    BY <2>2 DEF ValueIn
  <2>4. Settles(ValueIn(t, in), d, "f" \in t)
    BY <2>1, <2>2, <2>3 DEF Settles, Due
  <2>5. Writes(in)
    BY <1>4 DEF Writes, IsCharacter
  <2> QED
    BY <2>1, <2>4, <2>5 DEF Owes, Pays
<1>5. \A t : Owes(t, 72, Meaning("up", h)) /\ Owes(t, 55, Meaning("print", h))
  BY <1>4
<1> QED
  BY <1>1, <1>3, <1>5

-----------------------------------------------------------------------------
(***************************************************************************)
(* What is on the wire, with the keys in h down and what is owed, after a  *)
(* code or two more.                                                       *)
(***************************************************************************)
Going(h, w, o) ==
  /\ w \in Seq(Nat) /\ o \in Seq(Debts)
  /\ \E last \in States : Sent(last, h) /\ Foreseen(w, o, Knows, last)

LEMMA GoPlain ==
  ASSUME NEW h, NEW h2, NEW w, NEW o, Going(h, w, o), h \cap Shifts = h2 \cap Shifts,
         NEW in \in Nat, in \notin {42, 54, 170, 182, Prefix}, NEW x,
         \A s : Sent(s, h) => Owes(s, in, x)
  PROVE  Going(h2, w \o <<in>>, o \o x)
<1>1. PICK last \in States : Sent(last, h) /\ Foreseen(w, o, Knows, last)
  BY DEF Going
<1>2. w \in Seq(Nat) /\ o \in Seq(Debts) /\ x \in Seq(Debts)
  BY <1>1, Owed DEF Going
<1>3. Foreseen(w \o <<in>>, o \o x, Knows, After(last, in))
  BY <1>1, <1>2, SendOne
<1>4. Sent(After(last, in), h2)
  BY <1>1, SentPlain
<1>5. w \o <<in>> \in Seq(Nat) /\ o \o x \in Seq(Debts)
  BY <1>2
<1> QED
  BY <1>3, <1>4, <1>5 DEF Going, Sent

LEMMA GoPrefixed ==
  ASSUME NEW h, NEW h2, NEW w, NEW o, Going(h, w, o), h \cap Shifts = h2 \cap Shifts,
         NEW in \in Nat, in \notin {42, 54, 170, 182, Prefix}, NEW x,
         \A s : Owes(s, in, x)
  PROVE  Going(h2, w \o <<Prefix, in>>, o \o x)
<1>1. PICK last \in States : Sent(last, h) /\ Foreseen(w, o, Knows, last)
  BY DEF Going
<1>2. w \in Seq(Nat) /\ o \in Seq(Debts) /\ x \in Seq(Debts) /\ Prefix \in Nat
  <2>1. x \in Seq(Debts)
    BY Owed
  <2>2. Prefix \in Nat
    BY DEF Prefix
  <2> QED
    BY <2>1, <2>2 DEF Going
<1>3. PICK t : t = After(After(last, Prefix), in)
  OBVIOUS
<1>4. Foreseen(w \o <<Prefix, in>>, o \o x, Knows, t)
  BY <1>1, <1>2, <1>3, SendTwo
<1>5. Sent(t, h2)
  BY <1>1, <1>3, SentPlain
<1>6. w \o <<Prefix, in>> \in Seq(Nat) /\ o \o x \in Seq(Debts)
  BY <1>2
<1> QED
  BY <1>4, <1>5, <1>6 DEF Going, Sent

LEMMA GoFaked ==
  ASSUME NEW h, NEW w, NEW o, Going(h, w, o), NEW in \in {42, 170}
  PROVE  Going(h, w \o <<Prefix, in>>, o)
<1>1. PICK last \in States : Sent(last, h) /\ Foreseen(w, o, Knows, last)
  BY DEF Going
<1>2. w \in Seq(Nat) /\ o \in Seq(Debts) /\ Prefix \in Nat /\ in \in Nat
  BY DEF Going, Prefix
<1>3. PICK t : t = After(After(last, Prefix), in)
  OBVIOUS
<1>4. Owes(After(last, Prefix), in, <<>>) /\ o \o <<>> = o
  BY <1>2, ConcatEmptySeq DEF Owes, Writes
<1>5. Foreseen(w \o <<Prefix, in>>, o, Knows, t)
  <2>1. Foreseen(w \o <<Prefix, in>>, o \o <<>>, Knows, t)
    BY <1>1, <1>2, <1>3, <1>4, SendTwo
  <2> QED
    BY <1>4, <2>1
<1>6. Sent(t, h)
  BY <1>1, <1>3, SentFaked
<1>7. w \o <<Prefix, in>> \in Seq(Nat)
  BY <1>2
<1> QED
  BY <1>2, <1>5, <1>6, <1>7 DEF Going, Sent

LEMMA GoShift ==
  ASSUME NEW h, NEW w, NEW o, Going(h, w, o), NEW in \in {42, 54, 170, 182},
         NEW h2, ShiftsBy(in, h, h2)
  PROVE  Going(h2, w \o <<in>>, o)
<1>1. PICK last \in States : Sent(last, h) /\ Foreseen(w, o, Knows, last)
  BY DEF Going
<1>2. w \in Seq(Nat) /\ o \in Seq(Debts)
  BY DEF Going
<1>3. Sent(After(last, in), h2)
  BY <1>1, SentShift
<1>4. Owes(last, in, <<>>) /\ o \o <<>> = o /\ in \in Nat
  BY <1>2, ConcatEmptySeq DEF Owes, Writes
<1>5. Foreseen(w \o <<in>>, o, Knows, After(last, in))
  <2>1. Foreseen(w \o <<in>>, o \o <<>>, Knows, After(last, in))
    BY <1>1, <1>2, <1>4, SendOne
  <2> QED
    BY <1>4, <2>1
<1>6. w \o <<in>> \in Seq(Nat)
  BY <1>2, <1>4
<1> QED
  BY <1>2, <1>3, <1>5, <1>6 DEF Going, Sent

-----------------------------------------------------------------------------
\* The keys
LEMMA FourCodes ==
  ASSUME NEW w \in Seq(Nat), NEW a \in Nat, NEW b \in Nat
  PROVE  (w \o <<Prefix, a>>) \o <<Prefix, b>> = w \o <<Prefix, a, Prefix, b>>
<1>1. PICK p \in Nat : p = Prefix
  BY DEF Prefix
<1>2. PICK ca : ca = <<p, a>>
  OBVIOUS
<1>3. PICK cb : cb = <<p, b>>
  OBVIOUS
<1>4. PICK cc : cc = <<p, a, p, b>>
  OBVIOUS
<1>5. /\ ca \in Seq(Nat) /\ Len(ca) = 2 /\ ca[1] = p /\ ca[2] = a
      /\ cb \in Seq(Nat) /\ Len(cb) = 2 /\ cb[1] = p /\ cb[2] = b
      /\ cc \in Seq(Nat) /\ Len(cc) = 4 /\ cc[1] = p /\ cc[2] = a /\ cc[3] = p /\ cc[4] = b
  BY <1>2, <1>3, <1>4
<1>x. PICK cd : cd = ca \o cb
  OBVIOUS
<1>6. cd = cc
  <2>1. /\ ca \o cb \in Seq(Nat) /\ Len(ca \o cb) = 4
        /\ \A j \in 1 .. 4 : (ca \o cb)[j] = IF j <= 2 THEN ca[j] ELSE cb[j - 2]
    <3>1. /\ ca \o cb \in Seq(Nat) /\ Len(ca \o cb) = Len(ca) + Len(cb)
          /\ \A j \in 1 .. Len(ca) + Len(cb) :
               (ca \o cb)[j] = IF j <= Len(ca) THEN ca[j] ELSE cb[j - Len(ca)]
      BY <1>5, ConcatProperties
    <3>2. Len(ca) + Len(cb) = 4
      BY <1>5
    <3> QED
      BY <1>5, <3>1, <3>2
  <2>2. \A j \in 1 .. 4 : (ca \o cb)[j] = cc[j]
    <3> TAKE j \in 1 .. 4
    <3>1. j = 1 \/ j = 2 \/ j = 3 \/ j = 4
      OBVIOUS
    <3> QED
      BY <1>5, <2>1, <3>1
  <2>3. Len(ca \o cb) = Len(cc) /\ \A j \in 1 .. Len(ca \o cb) : (ca \o cb)[j] = cc[j]
    BY <1>5, <2>1, <2>2
  <2>5. cd \in Seq(Nat) /\ Len(cd) = Len(cc) /\ \A j \in 1 .. Len(cd) : cd[j] = cc[j]
    BY <1>x, <2>1, <2>3
  <2> QED
    BY <1>5, <2>5, SeqEqual
<1>7. (w \o ca) \o cb = w \o cd
  <2>1. ca \in Seq(Nat) /\ cb \in Seq(Nat)
    BY <1>5
  <2>2. \A s, t, u \in Seq(Nat) : (s \o t) \o u = s \o (t \o u)
    BY ConcatAssociative
  <2> QED
    BY <1>x, <2>1, <2>2, Zenon
<1> QED
  BY <1>1, <1>2, <1>3, <1>4, <1>6, <1>7

LEMMA PressGoes ==
  ASSUME NEW h, NEW w, NEW o, Going(h, w, o), NEW k \in AllKeys, NEW h2, h2 = h \cup {k}
  PROVE  Going(h2, w \o Down(k, h), o \o Meaning(k, h))
<1>1. /\ \A s : Sent(s, h) =>
              \A key \in Typing : Owes(s, Code(key), Meaning(key, h))
      /\ Meaning("lshift", h) = <<>> /\ Meaning("rshift", h) = <<>>
      /\ \A t : Owes(t, 72, Meaning("up", h)) /\ Owes(t, 55, Meaning("print", h))
  <2>1. PICK last : Sent(last, h)
    BY DEF Going
  <2> QED
    BY <2>1, KeyOwes
<1>2. w \in Seq(Nat) /\ o \in Seq(Debts) /\ o \o <<>> = o
  BY ConcatEmptySeq DEF Going
<1>3. CASE k = "lshift"
  <2>1. PICK in \in {42, 54, 170, 182} : in = 42
    OBVIOUS
  <2>2. Down(k, h) = <<in>>
    BY <1>3, <2>1 DEF Down, Typing, Symbols
  <2>3. ShiftsBy(in, h, h2)
    BY <1>3, <2>1 DEF ShiftsBy
  <2>4. Going(h2, w \o <<in>>, o)
    BY <2>3, GoShift
  <2> QED
    BY <1>1, <1>2, <1>3, <2>2, <2>4
<1>4. CASE k = "rshift"
  <2>1. PICK in \in {42, 54, 170, 182} : in = 54
    OBVIOUS
  <2>2. Down(k, h) = <<in>>
    BY <1>4, <2>1 DEF Down, Typing, Symbols
  <2>3. ShiftsBy(in, h, h2)
    BY <1>4, <2>1 DEF ShiftsBy
  <2>4. Going(h2, w \o <<in>>, o)
    BY <2>3, GoShift
  <2> QED
    BY <1>1, <1>2, <1>4, <2>2, <2>4
<1>5. CASE k \in Typing
  <2>1. k \notin {"lshift", "rshift"} /\ h \cap Shifts = h2 \cap Shifts
    BY <1>5 DEF Typing, Symbols, Shifts
  <2>2. Down(k, h) = <<Code(k)>>
    BY <1>5, <2>1 DEF Down, Typing, Symbols
  <2>3. PICK in \in Nat : in = Code(k) /\ in \notin {42, 54, 170, 182, Prefix}
    BY <1>5, CodeIs
  <2>4. PICK x : x = Meaning(k, h)
    OBVIOUS
  <2>5. \A s : Sent(s, h) => Owes(s, in, x)
    BY <1>1, <1>5, <2>3, <2>4
  <2>6. Going(h2, w \o <<in>>, o \o x)
    BY <2>1, <2>3, <2>5, GoPlain
  <2> QED
    BY <2>2, <2>3, <2>4, <2>6
<1>7. CASE k = "up"
  <2>1. Down(k, h) = <<Prefix, 72>> /\ h \cap Shifts = h2 \cap Shifts
    BY <1>7 DEF Down, Shifts
  <2>2. 72 \in Nat /\ 72 \notin {42, 54, 170, 182, Prefix}
    BY DEF Prefix
  <2> QED
    BY <1>1, <1>7, <2>1, <2>2, GoPrefixed
<1>8. CASE k = "print"
  <2>1. h \cap Shifts = h2 \cap Shifts
    BY <1>8 DEF Shifts
  <2>2. 55 \in Nat /\ 55 \notin {42, 54, 170, 182, Prefix}
    BY DEF Prefix
  <2>3. CASE Down(k, h) = <<Prefix, 55>>
    BY <1>1, <1>8, <2>1, <2>2, <2>3, GoPrefixed
  <2>4. CASE Down(k, h) = <<Prefix, 42, Prefix, 55>>
    <3>1. PICK v : v = w \o <<Prefix, 42>>
      OBVIOUS
    <3>2. Going(h, v, o)
      BY <3>1, GoFaked
    <3>3. v \o <<Prefix, 55>> = w \o <<Prefix, 42, Prefix, 55>>
      <4>1. PICK a \in Nat, b \in Nat : a = 42 /\ b = 55
        OBVIOUS
      <4>2. (w \o <<Prefix, a>>) \o <<Prefix, b>> = w \o <<Prefix, a, Prefix, b>>
        BY <1>2, FourCodes
      <4> QED
        BY <3>1, <4>1, <4>2
    <3>4. Going(h2, v \o <<Prefix, 55>>, o \o Meaning("print", h))
      BY <1>1, <2>1, <2>2, <3>2, GoPrefixed
    <3> QED
      BY <1>8, <2>4, <3>3, <3>4
  <2> QED
    BY <1>8, <2>3, <2>4 DEF Down
<1> QED
  BY <1>3, <1>4, <1>5, <1>7, <1>8 DEF AllKeys

LEMMA RepeatGoes ==
  ASSUME Going(held, wire, owed), NEW k \in AllKeys, k \in held
  PROVE  Going(held, wire \o Again(k), owed \o Meaning(k, held))
<1>1. held = held \cup {k}
  OBVIOUS
<1>2. CASE k # "print"
  BY <1>1, <1>2, PressGoes DEF Again
<1>3. CASE k = "print"
  <2>1. \A t : Owes(t, 55, Meaning("print", held))
    <3>1. PICK last : Sent(last, held)
      BY DEF Going
    <3> QED
      BY <3>1, KeyOwes
  <2>2. 55 \in Nat /\ 55 \notin {42, 54, 170, 182, Prefix}
    BY DEF Prefix
  <2>3. Again(k) = <<Prefix, 55>>
    BY <1>3 DEF Again
  <2> QED
    BY <1>3, <2>1, <2>2, <2>3, GoPrefixed
<1> QED
  BY <1>2, <1>3

LEMMA ReleaseGoes ==
  ASSUME NEW h, NEW w, NEW o, Going(h, w, o), NEW k \in AllKeys, NEW h2, h2 = h \ {k}
  PROVE  Going(h2, w \o Up(k, h), o)
<1>1. \A s : \A in \in {200, 183} :
        Owes(s, in, <<>>) /\ in \in Nat /\ in \notin {42, 54, 170, 182, Prefix}
  BY DEF Owes, Writes, IsCharacter, Prefix
<1>2. w \in Seq(Nat) /\ o \in Seq(Debts) /\ o \o <<>> = o
  BY ConcatEmptySeq DEF Going
<1>3. CASE k = "lshift"
  <2>1. PICK in \in {42, 54, 170, 182} : in = 170
    OBVIOUS
  <2>2. Up(k, h) = <<in>>
    BY <1>3, <2>1 DEF Up, Typing, Symbols
  <2>3. ShiftsBy(in, h, h2)
    BY <1>3, <2>1 DEF ShiftsBy
  <2>4. Going(h2, w \o <<in>>, o)
    BY <2>3, GoShift
  <2> QED
    BY <2>2, <2>4
<1>4. CASE k = "rshift"
  <2>1. PICK in \in {42, 54, 170, 182} : in = 182
    OBVIOUS
  <2>2. Up(k, h) = <<in>>
    BY <1>4, <2>1 DEF Up, Typing, Symbols
  <2>3. ShiftsBy(in, h, h2)
    BY <1>4, <2>1 DEF ShiftsBy
  <2>4. Going(h2, w \o <<in>>, o)
    BY <2>3, GoShift
  <2> QED
    BY <2>2, <2>4
<1>5. CASE k \in Typing
  <2>2. k \notin {"lshift", "rshift"} /\ h \cap Shifts = h2 \cap Shifts
    BY <1>5 DEF Typing, Symbols, Shifts
  <2>4. Up(k, h) = <<Code(k) + 128>>
    BY <1>5, <2>2 DEF Up, Typing, Symbols
  <2>1. PICK in \in Nat : Up(k, h) = <<in>> /\ in = Code(k) + 128
    BY <1>5, <2>4, CodeIs
  <2>3. Going(h2, w \o <<in>>, o \o <<>>)
    <3>1. in \notin {42, 54, 170, 182, Prefix} /\ ~Writes(in)
      BY <1>5, <2>1, CodeIs
    <3>2. PICK x : x = <<>>
      OBVIOUS
    <3>3. \A s : Sent(s, h) => Owes(s, in, x)
      BY <3>1, <3>2 DEF Owes
    <3>4. Going(h2, w \o <<in>>, o \o x)
      BY <2>2, <3>1, <3>3, GoPlain
    <3> QED
      BY <3>2, <3>4
  <2> QED
    BY <1>2, <2>1, <2>3
<1>6. CASE k \in {"up", "print"}
  <2>1. h \cap Shifts = h2 \cap Shifts
    BY <1>6 DEF Shifts
  <2>2. ASSUME NEW in \in {200, 183} PROVE Going(h2, w \o <<Prefix, in>>, o)
    <3>1. Going(h2, w \o <<Prefix, in>>, o \o <<>>)
      <4>1. in \in Nat /\ in \notin {42, 54, 170, 182, Prefix}
        BY <1>1
      <4>2. PICK x : x = <<>>
        OBVIOUS
      <4>3. \A s : Owes(s, in, x)
        BY <1>1, <4>2
      <4>4. Going(h2, w \o <<Prefix, in>>, o \o x)
        BY <2>1, <4>1, <4>3, GoPrefixed
      <4> QED
        BY <4>2, <4>4
    <3> QED
      BY <1>2, <3>1
  <2>3. CASE Up(k, h) \in {<<Prefix, 200>>, <<Prefix, 183>>}
    BY <2>2, <2>3
  <2>4. CASE Up(k, h) = <<Prefix, 183, Prefix, 170>>
    <3>1. PICK v : v = w \o <<Prefix, 183>>
      OBVIOUS
    <3>2. Going(h2, v \o <<Prefix, 170>>, o)
      <4>1. Going(h2, v, o)
        BY <2>2, <3>1
      <4> QED
        BY <4>1, GoFaked
    <3>3. v \o <<Prefix, 170>> = w \o <<Prefix, 183, Prefix, 170>>
      <4>1. PICK a \in Nat, b \in Nat : a = 183 /\ b = 170
        OBVIOUS
      <4>2. (w \o <<Prefix, a>>) \o <<Prefix, b>> = w \o <<Prefix, a, Prefix, b>>
        BY <1>2, FourCodes
      <4> QED
        BY <3>1, <4>1, <4>2
    <3> QED
      BY <2>4, <3>2, <3>3
  <2>5. Up(k, h) \in {<<Prefix, 200>>, <<Prefix, 183>>, <<Prefix, 183, Prefix, 170>>}
    <3>1. CASE k = "up"
      BY <3>1 DEF Up
    <3>2. CASE k = "print"
      <4>1. Up(k, h) = IF h \cap Shifts = {} THEN <<Prefix, 183, Prefix, 170>>
                                            ELSE <<Prefix, 183>>
        BY <3>2 DEF Up
      <4> QED
        BY <4>1
    <3> QED
      BY <1>6, <3>1, <3>2
  <2> QED
    BY <2>3, <2>4, <2>5
<1> QED
  BY <1>3, <1>4, <1>5, <1>6 DEF AllKeys

-----------------------------------------------------------------------------
Flags ==
  /\ shiftl \in BOOLEAN /\ shiftr \in BOOLEAN /\ prefixed \in BOOLEAN /\ faked \in BOOLEAN
  /\ wrong = -1

KeysInv == Flags /\ Going(held, wire, owed)

LEMMA HandlerGoes ==
  ASSUME Flags, Going(held, wire, owed), irq1_handler
  PROVE  Flags' /\ Going(held, wire, owed)'
<1>1. PICK in, s, d : in = Head(wire) /\ s = Knows /\ d = Knows'
  OBVIOUS
<1>2. PICK last \in States : Sent(last, held) /\ Foreseen(wire, owed, s, last)
  BY <1>1 DEF Going
<1>3. wire \in Seq(Nat) /\ owed \in Seq(Debts) /\ wire # <<>> /\ wire' = Tail(wire) /\ held' = held
  BY DEF Going, irq1_handler
<1>4. /\ IF in \in {42, 54, 170, 182}
           THEN /\ shiftl' = (in = 42 \/ (shiftl /\ in # 170))
                /\ shiftr' = (in = 54 \/ (shiftr /\ in # 182))
           ELSE shiftl' = shiftl /\ shiftr' = shiftr
      /\ IF Writes(in) THEN write_char(Value(in)) ELSE owed' = owed /\ wrong' = wrong
      /\ prefixed' = (in = Prefix)
      /\ faked' = IF in \in {42, 170} THEN prefixed ELSE faked
  BY <1>1 DEF irq1_handler, ShiftKeys, Writes, flags
<1>5. /\ "l" \in s <=> shiftl
      /\ "r" \in s <=> shiftr
      /\ "p" \in s <=> prefixed
      /\ "f" \in s <=> faked
  BY <1>1 DEF Knows, Names
<1>6. d = After(s, in)
  <2>1. /\ d \subseteq Names
        /\ "l" \in d <=> shiftl'
        /\ "r" \in d <=> shiftr'
        /\ "p" \in d <=> prefixed'
        /\ "f" \in d <=> faked'
    BY <1>1 DEF Knows, Names
  <2>2. "l" \in d <=> (in = 42 \/ ("l" \in s /\ in # 170))
    BY <1>4, <1>5, <2>1
  <2>3. "r" \in d <=> (in = 54 \/ ("r" \in s /\ in # 182))
    BY <1>4, <1>5, <2>1
  <2>4. "p" \in d <=> in = Prefix
    BY <1>4, <2>1
  <2>5. "f" \in d <=> IF in \in {42, 170} THEN "p" \in s ELSE "f" \in s
    BY <1>4, <1>5, <2>1
  <2>6. PICK e : e = After(s, in)
    OBVIOUS
  <2>7. /\ e \subseteq Names
        /\ "l" \in e <=> (in = 42 \/ ("l" \in s /\ in # 170))
        /\ "r" \in e <=> (in = 54 \/ ("r" \in s /\ in # 182))
        /\ "p" \in e <=> in = Prefix
        /\ "f" \in e <=> IF in \in {42, 170} THEN "p" \in s ELSE "f" \in s
    BY <2>6, AfterIs DEF States
  <2>8. \A x \in Names : x \in d <=> x \in e
    BY <2>2, <2>3, <2>4, <2>5, <2>7 DEF Names
  <2> QED
    BY <2>1, <2>6, <2>7, <2>8
<1>7. IF Writes(in)
        THEN /\ owed # <<>>
             /\ Pays(s, in, Head(owed))
             /\ Foreseen(wire', Tail(owed), d, last)
        ELSE Foreseen(wire', owed, d, last)
  BY <1>1, <1>2, <1>3, <1>6, TakeCode
<1>8. Value(in) = ValueIn(s, in)
  BY <1>5 DEF Value, ValueIn, is_shift
<1>9. wrong' = -1 /\ owed' \in Seq(Debts) /\ Foreseen(wire', owed', d, last)
  <2>1. CASE Writes(in)
    <3>1. owed' = Tail(owed) /\ wrong' = wrong
      <4>1. faked = ("f" \in s)
        BY <1>5 DEF Flags
      <4>2. Settles(Value(in), Head(owed), faked)
        BY <1>7, <1>8, <2>1, <4>1 DEF Pays
      <4> QED
        BY <1>4, <1>7, <2>1, <4>2 DEF write_char
    <3> QED
      BY <1>3, <1>7, <2>1, <3>1 DEF Flags
  <2>2. CASE ~Writes(in)
    BY <1>3, <1>4, <1>7, <2>2 DEF Flags
  <2> QED
    BY <2>1, <2>2
<1>10. Flags'
  BY <1>4, <1>9 DEF Flags
<1>11. Going(held, wire, owed)'
  BY <1>1, <1>2, <1>3, <1>9 DEF Going
<1> QED
  BY <1>10, <1>11

LEMMA NextGoes ==
  ASSUME KeysInv, [Next]_vars PROVE KeysInv'
<1>1. Flags /\ Going(held, wire, owed)
  BY DEF KeysInv
<1>2. ASSUME UNCHANGED <<flags, prefixed, faked, wrong>>,
             NEW h, NEW w, NEW o, held' = h, wire' = w, owed' = o, Going(h, w, o)
      PROVE  KeysInv'
  <2>1. Knows' = Knows
    BY <1>2 DEF Knows, flags
  <2>2. Flags'
    BY <1>1, <1>2 DEF Flags, flags
  <2>3. PICK last \in States : Sent(last, h) /\ Foreseen(w, o, Knows, last)
    BY <1>2 DEF Going
  <2>4. Sent(last, held') /\ Foreseen(wire', owed', Knows', last)
    BY <1>2, <2>1, <2>3
  <2>5. wire' \in Seq(Nat) /\ owed' \in Seq(Debts)
    BY <1>2 DEF Going
  <2> QED
    BY <2>2, <2>4, <2>5 DEF KeysInv, Going
<1>3. ASSUME NEW k \in Keys, Press(k) PROVE KeysInv'
  <2>1. k \in AllKeys
    BY KeysAssumption
  <2>2. PICK h : h = held \cup {k}
    OBVIOUS
  <2>3. Going(h, wire \o Down(k, held), owed \o Meaning(k, held))
    BY <1>1, <2>1, <2>2, PressGoes
  <2> QED
    BY <1>2, <1>3, <2>2, <2>3 DEF Press
<1>4. ASSUME NEW k \in Keys, Repeat(k) PROVE KeysInv'
  <2>1. k \in AllKeys /\ k \in held
    BY <1>4, KeysAssumption DEF Repeat
  <2>2. Going(held, wire \o Again(k), owed \o Meaning(k, held))
    BY <1>1, <2>1, RepeatGoes
  <2> QED
    BY <1>2, <1>4, <2>2 DEF Repeat
<1>5. ASSUME NEW k \in Keys, Release(k) PROVE KeysInv'
  <2>1. k \in AllKeys
    BY KeysAssumption
  <2>2. PICK h : h = held \ {k}
    OBVIOUS
  <2>3. Going(h, wire \o Up(k, held), owed)
    BY <1>1, <2>1, <2>2, ReleaseGoes
  <2> QED
    BY <1>2, <1>5, <2>2, <2>3 DEF Release
<1>6. CASE irq1_handler
  BY <1>1, <1>6, HandlerGoes DEF KeysInv
<1>7. CASE UNCHANGED vars
  BY <1>1, <1>2, <1>7 DEF vars
<1> QED
  BY <1>3, <1>4, <1>5, <1>6, <1>7 DEF Next

LEMMA InitGoes == Init => KeysInv
<1> SUFFICES ASSUME Init PROVE KeysInv
  OBVIOUS
<1>1. Flags /\ wire = <<>> /\ owed = <<>> /\ held = {}
  BY DEF Init, Flags
<1>2. PICK w : w = <<>>
  OBVIOUS
<1>w. w \in Seq(Nat) /\ Len(w) = 0
  BY <1>2
<1>3. PICK s, c : s = [k \in 1 .. 1 |-> {}] /\ c = [k \in 1 .. 1 |-> 0]
  OBVIOUS
<1>4. s \in [1 .. 1 -> States] /\ s[1] = {} /\ c \in [1 .. 1 -> 0 .. 0] /\ c[1] = 0
  BY <1>3 DEF States
<1>5. Path(w, w, s, c)
  BY <1>w, <1>4 DEF Path
<1>6. Knows = {}
  BY DEF Init, Knows, Names
<1>7. Sent({}, held) /\ {} \in States
  BY <1>1 DEF Sent, States
<1>8. Foreseen(w, w, Knows, {})
  BY <1>w, <1>4, <1>5, <1>6 DEF Foreseen
<1> QED
  BY <1>1, <1>2, <1>w, <1>7, <1>8 DEF KeysInv, Going

(***************************************************************************)
(* The inductive invariant of the keyboard: what the handler will know at  *)
(* each code on the wire is foreseen, and what it will write is owed.      *)
(***************************************************************************)
THEOREM KeyboardInvariant == Spec => []KeysInv
  BY InitGoes, NextGoes, PTL DEF Spec

(***************************************************************************)
(* Every key types its character once, in order and as the shift keys were *)
(* when it went down, however many codes wait for irq1_handler             *)
(* (pic.c:35-64, idt.c); after a left shift key that print screen has      *)
(* pretended, one of the key's two characters.                             *)
(***************************************************************************)
THEOREM KeyboardTypedAsMeant == Spec => []TypedAsMeant
<1>1. ASSUME KeysInv PROVE TypedAsMeant
  <2>1. wrong = -1 /\ owed \in Seq(Debts)
    BY <1>1 DEF KeysInv, Flags, Going
  <2>2. ASSUME wire = <<>> PROVE owed = <<>>
    <3>1. PICK last, s, c : Path(wire, owed, s, c)
      BY <1>1 DEF KeysInv, Going, Foreseen
    <3>2. Len(wire) = 0
      BY <2>2
    <3>3. Len(owed) = 0
      BY <3>1, <3>2 DEF Path
    <3> QED
      BY <2>1, <3>3
  <2> QED
    BY <2>1, <2>2 DEF TypedAsMeant
<1> QED
  BY <1>1, KeyboardInvariant, PTL

-----------------------------------------------------------------------------
(***************************************************************************)
(* ReadSyscall, for buffers of any length and any characters.              *)
(*                                                                         *)
(* BufferIsEdited is inductive once the types are known, with one more     *)
(* fact: the count is -1 only when a '\b' has just been stored in the      *)
(* first byte and nothing is left of the line.                             *)
(***************************************************************************)
\* The states of a call and, after it, what it leaves behind.
GivenUp == accum = -1 => edited = <<>> /\ mem[0] = BS

Settled ==
  pc = "out" /\ ret = n => accum \notin 0 .. n - 1

InBuffer ==
  accum >= 0 =>
    /\ accum = Len(edited)
    /\ \A k \in 1 .. accum : mem[k - 1] = edited[k]

ReadInv == TypeOK /\ InBuffer /\ GivenUp /\ Settled

-----------------------------------------------------------------------------
\* Initially nothing has been typed.
LEMMA ReadInitInv == ReadInit => ReadInv
  BY MaxNAssumption DEF ReadInit, ReadInv, TypeOK, InBuffer, GivenUp, Settled, Memory

\* Erasing the last of the line, or nothing.
LEMMA Shorter ==
  ASSUME NEW S, NEW s \in Seq(S), NEW k \in Nat, k = Len(s)
  PROVE  LET t == SubSeq(s, 1, Len(s) - 1) IN
         /\ t \in Seq(S)
         /\ k = 0 => t = <<>>
         /\ k > 0 => Len(t) = k - 1
         /\ \A j \in 1 .. k - 1 : t[j] = s[j]
  OBVIOUS

\* A turn of the loop writes inside the buffer and keeps the invariant.
LEMMA ReadTakeInv ==
  ASSUME NEW ch \in Char, ReadInv, Take(ch)
  PROVE  ReadInv'
<1> USE CharAssumption, MaxNAssumption
<1>1. /\ accum \in 0 .. n - 1
      /\ n \in 0 .. MaxN
      /\ accum = Len(edited)
      /\ mem' = [mem EXCEPT ![accum] = ch]
      /\ pc' = "loop" /\ n' = n /\ ret' = ret
      /\ edited \in Seq(Char \ {BS})
      /\ mem \in [Memory -> Char]
      /\ \A k \in 1 .. accum : mem[k - 1] = edited[k]
  BY DEF Take, More, ReadInv, TypeOK, InBuffer
<1>2. /\ accum \in Memory
      /\ \A k \in 1 .. accum : k - 1 \in Memory /\ mem'[k - 1] = mem[k - 1]
      /\ mem'[accum] = ch
      /\ mem' \in [Memory -> Char]
  BY <1>1 DEF Memory
<1>3. CASE ch # BS
  <2>1. accum' = accum + 1 /\ edited' = Append(edited, ch)
    BY <1>3 DEF Take, Count
  <2>2. edited' \in Seq(Char \ {BS}) /\ accum' = Len(edited')
    BY <1>1, <1>3, <2>1
  <2>3. \A k \in 1 .. accum' : mem'[k - 1] = edited'[k]
    BY <1>1, <1>2, <2>1
  <2> QED
    BY <1>1, <1>2, <2>1, <2>2, <2>3 DEF ReadInv, TypeOK, InBuffer, GivenUp, Settled
<1>4. CASE ch = BS
  <2>1. accum' = accum - 1 /\ edited' = SubSeq(edited, 1, Len(edited) - 1)
    BY <1>4 DEF Take, Count
  <2>2. /\ edited' \in Seq(Char \ {BS})
        /\ accum = 0 => edited' = <<>>
        /\ accum > 0 => Len(edited') = accum - 1
        /\ \A k \in 1 .. accum - 1 : edited'[k] = edited[k]
    BY <1>1, <2>1, Shorter
  <2>3. accum' = -1 => edited' = <<>> /\ mem'[0] = BS
    BY <1>1, <1>2, <1>4, <2>1, <2>2
  <2>4. accum' >= 0 =>
          /\ accum' = Len(edited')
          /\ \A k \in 1 .. accum' : mem'[k - 1] = edited'[k]
    BY <1>1, <1>2, <2>1, <2>2
  <2> QED
    BY <1>1, <1>2, <2>1, <2>2, <2>3, <2>4
    DEF ReadInv, TypeOK, InBuffer, GivenUp, Settled
<1> QED
  BY <1>3, <1>4

\* So does every other step.
LEMMA ReadNextInv == ReadInv /\ [ReadNext]_readVars => ReadInv'
<1> SUFFICES ASSUME ReadInv, [ReadNext]_readVars PROVE ReadInv'
  OBVIOUS
<1> USE MaxNAssumption
<1>1. CASE Refuse
  BY <1>1 DEF Refuse, ReadInv, TypeOK, InBuffer, GivenUp, Settled
<1>2. CASE \E len \in 0 .. MaxN : Call(len)
  BY <1>2 DEF Call, ReadInv, TypeOK, InBuffer, GivenUp, Settled
<1>3. CASE \E ch \in Char : Take(ch)
  BY <1>3, ReadTakeInv
<1>4. CASE Finish
  BY <1>4 DEF Finish, More, ReadInv, TypeOK, InBuffer, GivenUp, Settled
<1>5. CASE UNCHANGED readVars
  BY <1>5 DEF readVars, ReadInv, TypeOK, InBuffer, GivenUp, Settled
<1> QED
  BY <1>1, <1>2, <1>3, <1>4, <1>5 DEF ReadNext

\* The invariant of every read.
THEOREM ReadInvariant == ReadSpec => []ReadInv
  BY ReadInitInv, ReadNextInv, PTL DEF ReadSpec

-----------------------------------------------------------------------------
(***************************************************************************)
(* The loop of syscall_read keeps in the buffer what its typist sees.      *)
(***************************************************************************)
THEOREM ReadBuffers == ReadSpec => []BufferIsEdited
<1>1. ReadInv => BufferIsEdited
  BY DEF ReadInv, InBuffer, BufferIsEdited
<1> QED
  BY ReadInvariant, <1>1, PTL

(***************************************************************************)
(* A read that returns its length is full, or was ended by a '\b' with     *)
(* nothing to erase.                                                       *)
(***************************************************************************)
THEOREM ReadFullOrGivenUp == ReadSpec => []FullOrGivenUp
<1>1. ReadInv => FullOrGivenUp
  <2> SUFFICES ASSUME ReadInv, pc = "out", ret = n
               PROVE  \/ Len(edited) = n /\ \A k \in 1 .. n : mem[k - 1] = edited[k]
                      \/ edited = <<>> /\ mem[0] = BS
    BY DEF FullOrGivenUp
  <2>1. accum = -1 \/ accum = n
    BY DEF ReadInv, Settled, TypeOK
  <2> QED
    BY <2>1 DEF ReadInv, InBuffer, GivenUp, TypeOK
<1> QED
  BY ReadInvariant, <1>1, PTL

(***************************************************************************)
(* No turn of the loop writes outside the buffer of the caller.            *)
(***************************************************************************)
THEOREM ReadOnlyTheBuffer == ReadSpec => OnlyTheBuffer
<1> DEFINE Kept == \A k \in Memory \ (0 .. n' - 1) : mem'[k] = mem[k]
<1>1. ReadInv /\ [ReadNext]_readVars => [Kept]_readVars
  <2> SUFFICES ASSUME ReadInv, ReadNext PROVE Kept
    OBVIOUS
  <2>1. CASE Refuse \/ Finish
    BY <2>1 DEF Refuse, Finish
  <2>2. CASE \E len \in 0 .. MaxN : Call(len)
    BY <2>2 DEF Call
  <2>3. CASE \E ch \in Char : Take(ch)
    BY <2>3 DEF Take, More, ReadInv, TypeOK
  <2> QED
    BY <2>1, <2>2, <2>3 DEF ReadNext
<1> QED
  BY ReadInvariant, <1>1, PTL DEF ReadSpec, OnlyTheBuffer

=============================================================================
