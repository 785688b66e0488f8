---------------------------- MODULE ShellProofs ----------------------------
(***************************************************************************)
(* Proofs about Shell and Heap, for lines, names and rings of any length,  *)
(* any set of programs, and heaps of any size.                             *)
(*                                                                         *)
(* The first part follows the line: what getline has stored of it is what  *)
(* it has taken from the ring, with NUL behind; the newline goes; exec's   *)
(* copy has the same name; and the comparison with the modules' names      *)
(* finds that one and no other.  The second part follows malloc: the bytes *)
(* it has left end where the memory that mmap has mapped ends.             *)
(***************************************************************************)
EXTENDS Shell, SequenceTheorems, WellFoundedInduction, TLAPS

\* The first n bytes of the line are the first n characters of s, the rest
\* of it is NUL.
Holds(s, n) ==
  /\ \A k \in 0 .. n - 1 : line[k] = s[k + 1]
  /\ \A k \in n .. Cap : line[k] = NUL

\* While getline reads; it has taken one character more than it has stored
\* between the read and the store.
Reading ==
  pc \in {"read", "got", "stored"} =>
    /\ Len(taken) = IF pc = "got" THEN i + 1 ELSE i
    /\ Holds(taken, i)
    /\ Len(taken) > 0 => curr = taken[Len(taken)]
    /\ pc = "read" /\ i > 0 => ~EndOfLine
    /\ pc = "stored" => i > 0

\* getline has returned,
Returned ==
  pc = "strip" => Len(taken) > 0 /\ Len(taken) <= Cap /\ Holds(taken, Len(taken))

\* and the shell has stripped the newline.
Stripped ==
  pc = "exec" /\ PlainLine =>
    Len(taken) > 0 /\ Len(taken) <= Cap /\ Holds(taken, Len(taken) - 1)

LineInv == TypeOK /\ Reading /\ Returned /\ Stripped

-----------------------------------------------------------------------------
(***************************************************************************)
(* The functions of mystring.c stop at the first byte of some kind.        *)
(***************************************************************************)
\* A set of numbers that is not empty has a first one.
LEMMA FirstOf ==
  ASSUME NEW T, T \subseteq Nat, T # {}
  PROVE  \E k \in T : \A j \in 0 .. k - 1 : j \notin T
<1>1. PICK k \in T : \A j \in T : <<j, k>> \notin OpToRel(<, Nat)
  BY NatLessThanWellFounded, WFMin
<1>2. ASSUME NEW j \in 0 .. k - 1, j \in T PROVE FALSE
  <2>1. j \in Nat /\ k \in Nat /\ j < k
    BY <1>2
  <2>2. <<j, k>> \in OpToRel(<, Nat)
    BY <2>1 DEF OpToRel
  <2> QED
    BY <1>1, <1>2, <2>2
<1> QED
  BY <1>2

\* strlen of a line whose first NUL is at n
LEMMA StrlenIs ==
  ASSUME NEW n \in 0 .. Cap, line[n] = NUL, \A j \in 0 .. n - 1 : line[j] # NUL
  PROVE  Strlen = n + 1
<1>1. \A k \in 0 .. Cap :
        line[k] = NUL /\ (\A j \in 0 .. k - 1 : line[j] # NUL) => k = n
  <2> TAKE k \in 0 .. Cap
  <2> HAVE line[k] = NUL /\ \A j \in 0 .. k - 1 : line[j] # NUL
  <2>1. ~(k < n) /\ ~(n < k)
    BY CapAssumption
  <2> QED
    BY <2>1, CapAssumption
<1> QED
  BY <1>1 DEF Strlen

\* The line of a plain line's name is as long as that.
LEMMA PlainStrlen ==
  ASSUME NEW n \in 0 .. Cap, n <= Len(taken), Holds(taken, n), PlainLine,
         taken \in Seq(Char)
  PROVE  Strlen = n + 1
<1>1. line[n] = NUL
  BY CapAssumption DEF Holds
<1>2. \A j \in 0 .. n - 1 : line[j] # NUL
  <2> TAKE j \in 0 .. n - 1
  <2>1. line[j] = taken[j + 1] /\ j + 1 \in DOMAIN taken
    BY CapAssumption DEF Holds
  <2> QED
    BY <2>1 DEF PlainLine, CharsIn
<1> QED
  BY <1>1, <1>2, StrlenIs

LEMMA Typedness ==
  ASSUME taken \in Seq(Char), Len(taken) > 0
  PROVE  /\ Typed \in Seq(Char) /\ Len(Typed) = Len(taken) - 1
         /\ \A k \in 1 .. Len(taken) - 1 : Typed[k] = taken[k]
         /\ PlainLine => Typed \in Seq(Char \ {NUL})
<1>1. /\ Typed \in Seq(Char) /\ Len(Typed) = Len(taken) - 1
      /\ \A k \in 1 .. Len(taken) - 1 : Typed[k] = taken[k]
  <2> DEFINE n == Len(taken) - 1
  <2>1. n \in Nat /\ n = Len(taken) - 1 /\ n <= Len(taken)
    OBVIOUS
  <2>2. Typed = SubSeq(taken, 1, n)
    BY <2>1 DEF Typed
  <2> HIDE DEF n
  <2>3. \A k \in 1 .. n : taken[k] \in Char
    BY <2>1
  <2>4. /\ SubSeq(taken, 1, n) \in Seq(Char) /\ Len(SubSeq(taken, 1, n)) = n
        /\ \A k \in 1 .. n : SubSeq(taken, 1, n)[k] = taken[k]
    <3>1. n <= Len(taken) + 1 /\ 1 \in 1 .. Len(taken) + 1
      BY <2>1
    <3> QED
      BY <2>1, <3>1, SubSeqProperties
  <2> QED
    BY <2>1, <2>2, <2>4
<1>2. ASSUME PlainLine PROVE Typed \in Seq(Char \ {NUL})
  <2>1. \A k \in 1 .. Len(Typed) : Typed[k] \in Char \ {NUL}
    BY <1>1, <1>2 DEF PlainLine, CharsIn
  <2>2. Typed \in [1 .. Len(Typed) -> Char \ {NUL}] /\ Len(Typed) \in Nat
    BY <1>1, <2>1
  <2> QED
    BY <2>2, SeqDef
<1> QED
  BY <1>1, <1>2

\* Where my_strcmp stops
Stop(s, t, k) == s[k] = NUL \/ t[k] = NUL \/ s[k] # t[k]
FirstStop(s, t, k) == Stop(s, t, k) /\ \A j \in 0 .. k - 1 : ~Stop(s, t, j)

LEMMA StrcmpIs ==
  ASSUME NEW s, NEW t, NEW n \in Nat, DOMAIN s = 0 .. n, NEW k \in 0 .. n,
         FirstStop(s, t, k)
  PROVE  my_strcmp(s, t) <=> s[k] = t[k]
<1>1. \A m \in DOMAIN s : FirstStop(s, t, m) => m = k
  <2> TAKE m \in DOMAIN s
  <2>1. m \in 0 .. n /\ (m < k => m \in 0 .. k - 1) /\ (k < m => k \in 0 .. m - 1)
    OBVIOUS
  <2> QED
    BY <2>1 DEF FirstStop
<1>2. k = CHOOSE m \in DOMAIN s : FirstStop(s, t, m)
  BY <1>1
<1> QED
  BY <1>2, Zenon DEF my_strcmp, FirstStop, Stop

-----------------------------------------------------------------------------
(***************************************************************************)
(* The line, from the prompt to exec.                                      *)
(***************************************************************************)
LEMMA InitLine == Init => LineInv
  BY CharAssumption, CapAssumption, ModulesAssumption
  DEF Init, LineInv, TypeOK, Reading, Returned, Stripped, FreshLine, Bytes

LEMMA TypeLine ==
  ASSUME LineInv, NEW ch \in Char, Type(ch) PROVE LineInv'
<1>1. /\ Len(unread) < Capacity /\ unread' = Append(unread, ch)
      /\ UNCHANGED <<running, pc, line, i, curr, result, taken>>
  BY DEF Type, getl
<1>2. TypeOK'
  BY <1>1, CapAssumption DEF LineInv, TypeOK
<1> QED
  BY <1>1, <1>2
  DEF LineInv, Reading, Returned, Stripped, Holds, EndOfLine, PlainLine, CharsIn

LEMMA PromptLine ==
  ASSUME LineInv, Prompt PROVE LineInv'
<1>1. /\ pc' = "read" /\ line' = FreshLine /\ i' = 0 /\ taken' = <<>>
      /\ UNCHANGED <<unread, running, curr, result>>
  BY DEF Prompt
<1>2. TypeOK'
  BY <1>1, CharAssumption, CapAssumption DEF LineInv, TypeOK, FreshLine, Bytes
<1> QED
  BY <1>1, <1>2, CapAssumption DEF LineInv, Reading, Returned, Stripped, Holds, FreshLine, Bytes

LEMMA ReadLine ==
  ASSUME LineInv, Read PROVE LineInv'
<1>1. /\ pc = "read" /\ i < Cap /\ unread # <<>> /\ pc' = "got"
      /\ curr' = Head(unread) /\ unread' = Tail(unread)
      /\ taken' = Append(taken, curr')
      /\ UNCHANGED <<running, line, i, result>>
  BY DEF Read, More
<1>2. /\ TypeOK /\ taken \in Seq(Char) /\ Len(taken) = i /\ i \in 0 .. Cap /\ Holds(taken, i)
  BY <1>1 DEF LineInv, TypeOK, Reading
<1>3. curr' \in Char /\ unread' \in Seq(Char) /\ Len(unread') < Len(unread)
  BY <1>1, <1>2 DEF TypeOK
<1>4. /\ taken' \in Seq(Char) /\ Len(taken') = i + 1 /\ taken'[i + 1] = curr'
      /\ \A k \in 1 .. i : taken'[k] = taken[k]
  BY <1>1, <1>2, <1>3
<1>5. TypeOK'
  BY <1>1, <1>2, <1>3, <1>4, CapAssumption DEF TypeOK
<1>6. Holds(taken, i)'
  BY <1>1, <1>2, <1>4, CapAssumption DEF Holds
<1>7. Reading'
  BY <1>1, <1>2, <1>4, <1>6 DEF Reading
<1> QED
  BY <1>1, <1>5, <1>7 DEF LineInv, Returned, Stripped

LEMMA StoreLine ==
  ASSUME LineInv, Store PROVE LineInv'
<1>1. /\ pc = "got" /\ line' = [line EXCEPT ![i] = curr] /\ i' = i + 1 /\ pc' = "stored"
      /\ UNCHANGED <<unread, running, curr, result, taken>>
  BY DEF Store
<1>2. /\ TypeOK /\ Len(taken) = i + 1 /\ i \in 0 .. Cap /\ i < Cap /\ Holds(taken, i)
      /\ curr = taken[i + 1] /\ curr \in Char /\ line \in [Bytes -> Char]
  BY <1>1 DEF LineInv, TypeOK, Reading
<1>3. line'[i] = curr /\ \A k \in 0 .. Cap : k # i => line'[k] = line[k]
  BY <1>1, <1>2, CapAssumption DEF Bytes
<1>4. TypeOK'
  <2>1. line' \in [Bytes -> Char]
    BY <1>1, <1>2
  <2>2. i' \in 0 .. Cap
    BY <1>1, <1>2, CapAssumption
  <2> QED
    BY <1>1, <1>2, <2>1, <2>2 DEF TypeOK
<1>5. Holds(taken, i)'
  BY <1>1, <1>2, <1>3, CapAssumption DEF Holds
<1>6. Reading'
  BY <1>1, <1>2, <1>5 DEF Reading
<1> QED
  BY <1>1, <1>4, <1>6 DEF LineInv, Returned, Stripped

LEMMA ContinueLine ==
  ASSUME LineInv, Continue PROVE LineInv'
<1>1. pc = "stored" /\ ~EndOfLine /\ pc' = "read" /\ UNCHANGED <<unread, running, getl>>
  BY DEF Continue
<1>2. TypeOK'
  BY <1>1 DEF LineInv, TypeOK, getl
<1>3. Reading'
  BY <1>1 DEF LineInv, Reading, getl, Holds, EndOfLine
<1> QED
  BY <1>1, <1>2, <1>3 DEF LineInv, Returned, Stripped

LEMMA ReturnLineLine ==
  ASSUME LineInv, ReturnLine PROVE LineInv'
<1>1. /\ pc = "stored" /\ EndOfLine /\ line' = [line EXCEPT ![i] = NUL]
      /\ result' = "p" /\ pc' = "strip"
      /\ UNCHANGED <<unread, running, i, curr, taken>>
  BY DEF ReturnLine
<1>2. /\ TypeOK /\ Len(taken) = i /\ i \in 1 .. Cap /\ Holds(taken, i) /\ line[i] = NUL
      /\ line \in [Bytes -> Char]
  BY <1>1, CapAssumption DEF LineInv, TypeOK, Reading, Holds
<1>3. line' = line
  BY <1>1, <1>2 DEF Bytes
<1>4. TypeOK'
  BY <1>1, <1>2, <1>3 DEF TypeOK
<1>5. Returned'
  BY <1>1, <1>2, <1>3 DEF Returned, Holds
<1> QED
  BY <1>1, <1>4, <1>5 DEF LineInv, Reading, Stripped

LEMMA RunOffLine ==
  ASSUME LineInv, RunOff PROVE LineInv'
<1>1. /\ pc = "read" /\ ~(i < Cap) /\ line' = [line EXCEPT ![Cap] = NUL]
      /\ result' \in {"p", "garbage"} /\ pc' = "strip"
      /\ UNCHANGED <<unread, running, i, curr, taken>>
  BY DEF RunOff, More
<1>2. /\ TypeOK /\ Len(taken) = Cap /\ i = Cap /\ Cap > 0 /\ Holds(taken, Cap)
      /\ line[Cap] = NUL /\ line \in [Bytes -> Char]
  BY <1>1, CapAssumption DEF LineInv, TypeOK, Reading, Holds
<1>3. line' = line
  BY <1>1, <1>2 DEF Bytes
<1>4. TypeOK'
  BY <1>1, <1>2, <1>3, CapAssumption DEF TypeOK
<1>5. Returned'
  BY <1>1, <1>2, <1>3, CapAssumption DEF Returned, Holds
<1> QED
  BY <1>1, <1>4, <1>5 DEF LineInv, Reading, Stripped

LEMMA StripLine ==
  ASSUME LineInv, Strip PROVE LineInv'
<1>1. /\ pc = "strip" /\ line' = [line EXCEPT ![StripAt] = NUL] /\ pc' = "exec"
      /\ UNCHANGED <<unread, running, i, curr, result, taken>>
  BY DEF Strip
<1>2. PICK n : n = Len(taken)
  OBVIOUS
<1>3. /\ TypeOK /\ n \in 1 .. Cap /\ Holds(taken, n) /\ line \in [Bytes -> Char]
      /\ taken \in Seq(Char)
  BY <1>1, <1>2, CapAssumption DEF LineInv, TypeOK, Returned
<1>4. TypeOK'
  <2>1. line' \in [Bytes -> Char]
    BY <1>1, <1>3, CharAssumption
  <2> QED
    BY <1>1, <1>3, <2>1 DEF TypeOK
<1>5. ASSUME PlainLine PROVE Holds(taken, n - 1)'
  <2>1. StripAt = n - 1
    <3>1. n \in 0 .. Cap /\ n <= Len(taken)
      BY <1>2, <1>3, CapAssumption
    <3>2. Strlen = n + 1
      BY <1>3, <1>5, <3>1, PlainStrlen
    <3> QED
      BY <1>3, <3>2 DEF StripAt
  <2>2. line'[n - 1] = NUL /\ \A k \in 0 .. Cap : k # n - 1 => line'[k] = line[k]
    <3>1. PICK m \in 0 .. Cap : m = n - 1
      BY <1>3, CapAssumption
    <3>2. line' = [line EXCEPT ![m] = NUL]
      BY <1>1, <2>1, <3>1
    <3>3. line'[m] = NUL /\ \A k \in 0 .. Cap : k # m => line'[k] = line[k]
      BY <1>3, <3>2, CapAssumption DEF Bytes
    <3> QED
      BY <3>1, <3>3
  <2> QED
    BY <1>1, <1>3, <2>2, CapAssumption DEF Holds
<1>6. Stripped'
  BY <1>1, <1>2, <1>3, <1>5 DEF Stripped, PlainLine, CharsIn
<1> QED
  BY <1>1, <1>4, <1>6 DEF LineInv, Reading, Returned

\* The steps that leave the line alone, and where getline is not under way
\* nor its line in use.
LEMMA LeaveLine ==
  ASSUME LineInv, UNCHANGED <<getl, running>>,
         unread' = unread \/ (unread # <<>> /\ unread' = Tail(unread)),
         pc' \in {"prompt", "program", "crashed", "smashed"}
  PROVE  LineInv'
<1>1. unread' \in Seq(Char) /\ Len(unread') <= Capacity
  <2>1. unread \in Seq(Char) /\ Len(unread) <= Capacity
    BY DEF LineInv, TypeOK
  <2>2. ASSUME unread # <<>>
        PROVE  Tail(unread) \in Seq(Char) /\ Len(Tail(unread)) <= Capacity
    BY <2>1, <2>2, CapAssumption
  <2> QED
    BY <2>1, <2>2
<1>2. TypeOK'
  BY <1>1 DEF LineInv, TypeOK, getl
<1> QED
  BY <1>2 DEF LineInv, Reading, Returned, Stripped

LEMMA ExecuteLine ==
  ASSUME LineInv, NEW name \in Modules, Execute(name)
  PROVE  LineInv'
<1>1. /\ running' = name /\ pc' \in {"prompt", "program"} /\ line' = FreshLine /\ i' = 0
      /\ curr' = NUL /\ result' = "p" /\ taken' = <<>> /\ unread' = unread
  BY DEF Execute
<1>2. TypeOK'
  BY <1>1, CharAssumption, CapAssumption DEF LineInv, TypeOK, FreshLine, Bytes
<1> QED
  BY <1>1, <1>2 DEF LineInv, Reading, Returned, Stripped

LEMMA NextLine ==
  ASSUME LineInv, [Next]_vars PROVE LineInv'
<1>1. ASSUME NEW ch \in Char, Type(ch) PROVE LineInv'
  BY <1>1, TypeLine
<1>2. CASE Prompt
  BY <1>2, PromptLine
<1>3. CASE Read
  BY <1>3, ReadLine
<1>4. CASE Store
  BY <1>4, StoreLine
<1>5. CASE Continue
  BY <1>5, ContinueLine
<1>6. CASE ReturnLine
  BY <1>6, ReturnLineLine
<1>7. CASE RunOff
  BY <1>7, RunOffLine
<1>8. CASE Strip
  BY <1>8, StripLine
<1>9. CASE StripFaults
  BY <1>9, LeaveLine DEF StripFaults
<1>10. CASE ExecSmashes
  BY <1>10, LeaveLine DEF ExecSmashes
<1>11. CASE ExecFails
  BY <1>11, LeaveLine DEF ExecFails
<1>12. CASE ExecFound
  BY <1>12, ExecuteLine DEF ExecFound, check_mod
<1>13. CASE InitExecs
  BY <1>13, ExecuteLine, ModulesAssumption DEF InitExecs
<1>14. ASSUME NEW sz \in Requests, ProgramMallocs(sz) PROVE LineInv'
  BY <1>14, LeaveLine DEF ProgramMallocs, Program
<1>15. CASE ProgramReads
  BY <1>15, LeaveLine DEF ProgramReads, Program
<1>16. CASE my_exit
  BY <1>16, ExecuteLine, ModulesAssumption DEF my_exit
<1>17. CASE UNCHANGED vars
  BY <1>17 DEF vars, getl, LineInv, TypeOK, Reading, Returned, Stripped, Holds,
               EndOfLine, PlainLine, CharsIn
<1> QED
  BY <1>1, <1>2, <1>3, <1>4, <1>5, <1>6, <1>7, <1>8, <1>9, <1>10, <1>11, <1>12,
     <1>13, <1>14, <1>15, <1>16, <1>17 DEF Next, ShellStep

-----------------------------------------------------------------------------
(***************************************************************************)
(* exec's copy of a plain line's name, and the module it finds.            *)
(***************************************************************************)
LEMMA LineInvNameIsTyped == LineInv => NameIsTyped
<1> SUFFICES ASSUME LineInv, pc = "exec", PlainLine
             PROVE  /\ Strlen = Len(taken)
                    /\ \A k \in 1 .. Len(Typed) : line[k - 1] = Typed[k]
  BY DEF NameIsTyped
<1>1. PICK n : n = Len(taken) - 1
  OBVIOUS
<1>2. /\ taken \in Seq(Char) /\ Len(taken) > 0 /\ Len(taken) <= Cap
      /\ Len(taken) = n + 1 /\ n \in 0 .. Cap /\ n <= Len(taken) /\ Holds(taken, n)
  BY <1>1, CapAssumption DEF LineInv, TypeOK, Stripped
<1>3. Strlen = n + 1
  BY <1>2, PlainStrlen
<1>4. Len(Typed) = n /\ \A k \in 1 .. n : Typed[k] = taken[k]
  BY <1>1, <1>2, Typedness
<1>5. \A k \in 1 .. n : line[k - 1] = taken[k]
  BY <1>2 DEF Holds
<1> QED
  BY <1>2, <1>3, <1>4, <1>5

LEMMA CopyIs ==
  ASSUME LineInv, pc = "exec", PlainLine, NEW n, n = Len(Typed), n <= COPY - 2
  PROVE  /\ n \in Nat /\ Typed \in Seq(Char \ {NUL})
         /\ CopyFits
         /\ \A k \in 0 .. n - 1 : Copy[k] = Typed[k + 1]
         /\ Copy[n] = NUL
<1>1. taken \in Seq(Char) /\ Len(taken) > 0
  BY DEF LineInv, TypeOK, Stripped
<1>2. /\ n \in Nat /\ Len(taken) = n + 1 /\ Typed \in Seq(Char \ {NUL})
      /\ COPY \in Nat
  BY <1>1, Typedness, ModulesAssumption
<1>3. Strlen = n + 1 /\ \A k \in 1 .. n : line[k - 1] = Typed[k]
  BY <1>2, LineInvNameIsTyped DEF NameIsTyped
<1>4. Copy = [k \in DOMAIN FreshCopy \cup (0 .. n - 1) \cup {n + 1} |->
                IF k < n THEN line[k] ELSE IF k = n + 1 THEN NUL ELSE FreshCopy[k]]
  <2>1. Strlen - 1 = n
    BY <1>2, <1>3
  <2> QED
    BY <2>1 DEF Copy, strcpy
<1>5. DOMAIN FreshCopy \cup (0 .. n - 1) \cup {n + 1} = 0 .. COPY - 1
  BY <1>2 DEF FreshCopy
<1>6. Copy = [k \in 0 .. COPY - 1 |->
                IF k < n THEN line[k] ELSE IF k = n + 1 THEN NUL ELSE FreshCopy[k]]
  BY <1>4, <1>5
<1>7. CopyFits
  BY <1>6 DEF CopyFits
<1>8. \A k \in 0 .. n - 1 : Copy[k] = Typed[k + 1]
  <2> TAKE k \in 0 .. n - 1
  <2>1. k \in 0 .. COPY - 1 /\ k < n /\ k + 1 \in 1 .. n /\ (k + 1) - 1 = k
    BY <1>2
  <2> QED
    BY <1>3, <1>6, <2>1
<1>9. Copy[n] = NUL
  <2>1. n \in 0 .. COPY - 1 /\ ~(n < n) /\ n # n + 1
    BY <1>2
  <2> QED
    BY <1>6, <2>1 DEF FreshCopy
<1> QED
  BY <1>2, <1>7, <1>8, <1>9

\* The comparison with a name finds the copy equal if it is that name.
LEMMA ComparesNames ==
  ASSUME NEW name \in Seq(Char \ {NUL}), NEW typed \in Seq(Char \ {NUL}),
         NEW n, n = Len(typed), NEW copy,
         \A k \in 0 .. n - 1 : copy[k] = typed[k + 1], copy[n] = NUL
  PROVE  my_strcmp(String(name), copy) <=> name = typed
<1> DEFINE l == Len(name)
           s == String(name)
           Stops == {k \in 0 .. l : s[k] = NUL \/ copy[k] = NUL \/ s[k] # copy[k]}
<1>1. /\ l \in Nat /\ n \in Nat /\ DOMAIN s = 0 .. l /\ s[l] = NUL
      /\ \A k \in 0 .. l - 1 : s[k] = name[k + 1] /\ s[k] # NUL
      /\ \A k \in 0 .. n - 1 : copy[k] # NUL
  <2>1. l \in Nat /\ n \in Nat /\ DOMAIN s = 0 .. l
    BY DEF String
  <2>2. s[l] = NUL
    BY <2>1 DEF String
  <2>3. ASSUME NEW k \in 0 .. l - 1 PROVE s[k] = name[k + 1] /\ s[k] # NUL
    <3>1. k \in 0 .. l /\ k < l /\ k + 1 \in 1 .. l
      BY <2>1
    <3>2. name[k + 1] \in Char \ {NUL}
      BY <3>1
    <3> QED
      BY <3>1, <3>2 DEF String
  <2>4. ASSUME NEW k \in 0 .. n - 1 PROVE copy[k] # NUL
    <3>1. k + 1 \in 1 .. n
      BY <2>1
    <3>2. typed[k + 1] \in Char \ {NUL}
      BY <3>1
    <3> QED
      BY <3>2
  <2> QED
    BY <2>1, <2>2, <2>3, <2>4
<1>2. PICK k \in Stops : \A j \in 0 .. k - 1 : j \notin Stops
  <2>1. l \in Stops /\ Stops \subseteq Nat
    BY <1>1
  <2> HIDE DEF Stops
  <2> QED
    BY <2>1, FirstOf
<1>3. /\ k \in 0 .. l /\ (s[k] = NUL \/ copy[k] = NUL \/ s[k] # copy[k])
      /\ \A j \in 0 .. k - 1 : s[j] # NUL /\ copy[j] # NUL /\ s[j] = copy[j]
  BY <1>1, <1>2
<1> HIDE DEF Stops, s, l
<1>4. my_strcmp(s, copy) <=> s[k] = copy[k]
  <2>1. FirstStop(s, copy, k)
    BY <1>3 DEF FirstStop, Stop
  <2> QED
    BY <1>1, <1>3, <2>1, StrcmpIs
<1>5. ASSUME s[k] = copy[k] PROVE name = typed
  <2>1. s[k] = NUL /\ copy[k] = NUL
    BY <1>3, <1>5
  <2>2. k = l
    BY <1>1, <1>3, <2>1
  <2>3. k = n
    <3>1. ~(k < n)
      BY <1>1, <1>3, <2>1
    <3>2. ~(n < k)
      BY <1>1, <1>3
    <3> QED
      BY <1>1, <1>3, <3>1, <3>2
  <2>4. \A j \in 1 .. n : name[j] = typed[j]
    <3> TAKE j \in 1 .. n
    <3>1. j - 1 \in 0 .. k - 1 /\ j - 1 \in 0 .. l - 1 /\ j - 1 \in 0 .. n - 1
          /\ (j - 1) + 1 = j
      BY <1>1, <2>2, <2>3
    <3> QED
      BY <1>1, <1>3, <3>1
  <2> QED
    BY <2>2, <2>3, <2>4, SeqEqual DEF l
<1>6. ASSUME name = typed PROVE s[k] = copy[k]
  <2>1. l = n
    BY <1>6 DEF l
  <2>2. CASE k = n
    BY <1>1, <2>1, <2>2
  <2>3. CASE k # n
    <3>1. k \in 0 .. l - 1 /\ k \in 0 .. n - 1
      BY <1>1, <1>3, <2>1, <2>3
    <3> QED
      BY <1>1, <1>6, <3>1
  <2> QED
    BY <2>2, <2>3
<1> QED
  BY <1>4, <1>5, <1>6 DEF s

LEMMA FoundIs ==
  ASSUME LineInv, pc = "exec", PlainLine, Len(Typed) <= COPY - 2
  PROVE  CopyFits /\ check_mod(Copy) = {Typed} \cap Modules
<1>1. PICK n : n = Len(Typed)
  OBVIOUS
<1>2. /\ Typed \in Seq(Char \ {NUL}) /\ CopyFits
      /\ \A k \in 0 .. n - 1 : Copy[k] = Typed[k + 1]
      /\ Copy[n] = NUL
  BY <1>1, CopyIs
<1>3. \A name \in Modules : my_strcmp(String(name), Copy) <=> name = Typed
  BY <1>1, <1>2, ComparesNames, ModulesAssumption
<1> QED
  BY <1>2, <1>3 DEF check_mod

StartsTyped ==
  pc = "exec" /\ pc' # "exec" /\ PlainLine /\ Len(Typed) <= COPY - 2 =>
    IF Typed \in Modules THEN running' = Typed /\ blocks' = <<>>
                         ELSE running' = running /\ blocks' = blocks
                              /\ pc' = "prompt"

LEMMA NextStartsTyped ==
  ASSUME LineInv, [Next]_vars PROVE StartsTyped
<1> SUFFICES ASSUME pc = "exec", pc' # "exec", PlainLine, Len(Typed) <= COPY - 2
             PROVE  IF Typed \in Modules THEN running' = Typed /\ blocks' = <<>>
                    ELSE running' = running /\ blocks' = blocks /\ pc' = "prompt"
  BY DEF StartsTyped
<1>1. CopyFits /\ check_mod(Copy) = {Typed} \cap Modules
  BY FoundIs
<1>2. ExecSmashes \/ ExecFails \/ ExecFound
  BY DEF Next, ShellStep, Type, Prompt, Read, Store, Continue, ReturnLine, RunOff,
         Strip, StripFaults, InitExecs, ProgramMallocs, Program, ProgramReads,
         my_exit, vars
<1>3. CASE ExecSmashes
  BY <1>1, <1>3 DEF ExecSmashes
<1>4. CASE ExecFails
  BY <1>1, <1>4 DEF ExecFails, heap
<1>5. CASE ExecFound
  BY <1>1, <1>5 DEF ExecFound, Execute, ReplaceHeap
<1> QED
  BY <1>2, <1>3, <1>4, <1>5

-----------------------------------------------------------------------------
(***************************************************************************)
(* The heap.  What malloc has left lies behind every block and below       *)
(* v_heap, in pages that are mapped.                                       *)
(***************************************************************************)
Block == [at : Nat, size : Nat]
InPages(pages, from, to) == \A x \in from .. to - 1 : PageOf(x) \in pages

LeftOK ==
  /\ bump \in Nat /\ space_remaining \in Nat /\ bump % QUANTUM = 0
  /\ bump + space_remaining <= v_heap
  /\ InPages(mapped, bump, bump + space_remaining)

BlocksOK ==
  /\ blocks \in Seq(Block)
  /\ \A j \in 1 .. Len(blocks) :
       /\ blocks[j].at % QUANTUM = 0
       /\ blocks[j].at + blocks[j].size <= bump
       /\ InPages(mapped, blocks[j].at, blocks[j].at + blocks[j].size)
  /\ \A j, k \in 1 .. Len(blocks) :
       j < k => blocks[j].at + blocks[j].size <= blocks[k].at

HeapInv ==
  /\ \E q \in Nat : v_heap = PAGE_SIZE * q
  /\ LeftOK
  /\ BlocksOK

\* Multiples of y
LEMMA Multiple ==
  ASSUME NEW y \in Nat \ {0}, NEW q \in Nat
  PROVE  (y * q) \in Nat /\ (y * q) % y = 0
<1>1. PICK r \in 0 .. y - 1 : r = 0
  OBVIOUS
<1>2. (y * q + r) % y = r
  OBVIOUS
<1>3. y * q \in Nat /\ y * q + r = y * q
  BY <1>1
<1> QED
  BY <1>1, <1>2, <1>3

LEMMA IsMultiple ==
  ASSUME NEW y \in Nat \ {0}, NEW x \in Nat, x % y = 0
  PROVE  x \div y \in Nat /\ x = y * (x \div y)
  OBVIOUS

LEMMA SumOfMultiples ==
  ASSUME NEW y \in Nat \ {0}, NEW a \in Nat, NEW b \in Nat, a % y = 0, b % y = 0
  PROVE  (a + b) % y = 0
<1>1. PICK p \in Nat : a = y * p
  BY IsMultiple
<1>2. PICK q \in Nat : b = y * q
  BY IsMultiple
<1>3. a + b = y * (p + q) /\ p + q \in Nat
  BY <1>1, <1>2
<1> QED
  BY <1>3, Multiple

\* RoundUp(x, y) is the first multiple of y from x on.
LEMMA RoundUpIs ==
  ASSUME NEW x \in Nat, NEW y \in Nat \ {0}
  PROVE  /\ RoundUp(x, y) \in Nat /\ x <= RoundUp(x, y) /\ RoundUp(x, y) % y = 0
         /\ \A m \in Nat : x <= m /\ m % y = 0 => RoundUp(x, y) <= m
<1>1. PICK q \in Nat, r \in 0 .. y - 1 : x = y * q + r /\ r = x % y /\ q = x \div y
  <2>1. x \div y \in Nat /\ x % y \in 0 .. y - 1 /\ x = y * (x \div y) + (x % y)
    OBVIOUS
  <2> QED
    BY <2>1
<1>2. \A m \in Nat : m % y = 0 => \E p \in Nat : m = y * p
  BY IsMultiple
<1>3. CASE r = 0
  BY <1>1, <1>3 DEF RoundUp
<1>4. CASE r # 0
  <2>1. RoundUp(x, y) = y * q + y /\ y * q + y = y * (q + 1)
    <3>1. RoundUp(x, y) = x + (y - r)
      BY <1>1, <1>4 DEF RoundUp
    <3>2. y * q + y = y * (q + 1)
      BY <1>1
    <3>3. PICK p \in Nat : p = y * q
      BY <1>1, Multiple
    <3>4. x + (y - r) = p + y
      BY <1>1, <3>3
    <3> QED
      BY <3>1, <3>2, <3>3, <3>4
  <2>2. ASSUME NEW p \in Nat, x <= y * p PROVE y * (q + 1) <= y * p
    <3>1. CASE p <= q
      <4>1. y * p <= y * q
        BY <3>1
      <4> QED
        BY <1>1, <1>4, <2>2, <4>1
    <3>2. CASE p >= q + 1
      <4>1. PICK d \in Nat : p = (q + 1) + d
        <5>1. p - (q + 1) \in Nat /\ p = (q + 1) + (p - (q + 1))
          BY <3>2
        <5> QED
          BY <5>1
      <4>2. y * p = y * (q + 1) + y * d /\ y * d \in Nat
        BY <4>1
      <4> QED
        BY <4>2
    <3> QED
      BY <3>1, <3>2
  <2>3. ASSUME NEW m \in Nat, x <= m, m % y = 0 PROVE RoundUp(x, y) <= m
    <3>1. PICK p \in Nat : m = y * p
      BY <1>2, <2>3
    <3>2. x <= y * p
      BY <2>3, <3>1
    <3>3. y * (q + 1) <= y * p
      BY <2>2, <3>2
    <3>4. PICK top : top = RoundUp(x, y)
      OBVIOUS
    <3>5. top = y * (q + 1)
      BY <2>1, <3>4
    <3>6. top <= m
      BY <3>1, <3>3, <3>5
    <3> QED
      BY <3>4, <3>6
  <2>4. RoundUp(x, y) \in Nat /\ RoundUp(x, y) % y = 0
    BY <2>1, Multiple
  <2>5. x <= RoundUp(x, y)
    BY <1>1, <2>1
  <2> QED
    BY <2>3, <2>4, <2>5
<1> QED
  BY <1>3, <1>4

\* PAGE_SIZE bytes from a multiple of PAGE_SIZE on are in one page.
LEMMA OnePage ==
  ASSUME NEW q \in Nat, NEW r \in 0 .. PAGE_SIZE - 1
  PROVE  PageOf(PAGE_SIZE * q + r) = PageOf(PAGE_SIZE * q)
<1> DEFINE page == 2 * PAGE_SIZE
<1>1. PICK h \in Nat, b \in {0, 1} : q = 2 * h + b
  <2>1. q \div 2 \in Nat /\ q % 2 \in {0, 1} /\ q = 2 * (q \div 2) + (q % 2)
    OBVIOUS
  <2> QED
    BY <2>1
<1>2. PAGE_SIZE \in Nat \ {0} /\ page \in Nat \ {0}
  BY SizesAssumption
<1>3. ASSUME NEW s \in 0 .. PAGE_SIZE - 1
      PROVE  (PAGE_SIZE * q + s) \div page = h
  <2>1. PICK t \in 0 .. page - 1 : t = PAGE_SIZE * b + s
    BY <1>2
  <2>2. PAGE_SIZE * q + s = page * h + t
    BY <1>1, <1>2, <2>1
  <2>3. (page * h + t) \div page = h
    BY <1>2
  <2> QED
    BY <2>2, <2>3
<1>4. 0 \in 0 .. PAGE_SIZE - 1 /\ PAGE_SIZE * q + 0 = PAGE_SIZE * q
  BY <1>2
<1> QED
  BY <1>3, <1>4 DEF PageOf

\* A request of at most PAGE_SIZE bytes fits into a region,
LEMMA SizeFits ==
  ASSUME NEW sz \in Nat, sz <= PAGE_SIZE
  PROVE  /\ RoundUp(sz, QUANTUM) \in Nat /\ RoundUp(sz, QUANTUM) <= PAGE_SIZE
         /\ RoundUp(sz, QUANTUM) % QUANTUM = 0
  BY RoundUpIs, SizesAssumption

\* and for it malloc asks for as many bytes as mmap maps.
LEMMA RegionIs ==
  ASSUME NEW size \in 1 .. PAGE_SIZE
  PROVE  Region(size) = PAGE_SIZE
<1>1. PICK r : r = Region(size)
  OBVIOUS
<1>2. PAGE_SIZE \in Nat \ {0} /\ PAGE_SIZE % PAGE_SIZE = 0
  <2>1. PAGE_SIZE \in Nat \ {0} /\ PAGE_SIZE * 1 = PAGE_SIZE
    BY SizesAssumption
  <2> QED
    BY <2>1, Multiple
<1>3. r \in Nat /\ r >= size /\ r % PAGE_SIZE = 0 /\ r <= PAGE_SIZE
  BY <1>1, <1>2, RoundUpIs DEF Region
<1>4. PICK q \in Nat : r = PAGE_SIZE * q
  BY <1>2, <1>3, IsMultiple
<1>5. q # 0
  BY <1>2, <1>3, <1>4
<1>6. PICK d \in Nat : q = 1 + d
  <2>1. q - 1 \in Nat /\ q = 1 + (q - 1)
    BY <1>5
  <2> QED
    BY <2>1
<1>7. r = PAGE_SIZE + PAGE_SIZE * d /\ PAGE_SIZE * d \in Nat
  BY <1>2, <1>4, <1>6
<1>8. r >= PAGE_SIZE
  BY <1>2, <1>7
<1> QED
  BY <1>1, <1>2, <1>3, <1>8

\* A block more, from what was left or from beyond it
LEMMA AppendBlock ==
  ASSUME BlocksOK, bump \in Nat, NEW at \in Nat, NEW size \in Nat,
         blocks' = Append(blocks, [at |-> at, size |-> size]),
         bump' = at + size, bump <= at, at % QUANTUM = 0, mapped \subseteq mapped',
         InPages(mapped', at, at + size)
  PROVE  BlocksOK'
<1>1. PICK b : b = [at |-> at, size |-> size]
  OBVIOUS
<1>2. b \in Block /\ b.at = at /\ b.size = size /\ blocks' = Append(blocks, b)
  BY <1>1 DEF Block
<1>3. PICK n \in Nat : n = Len(blocks)
  BY DEF BlocksOK
<1>4. /\ blocks' \in Seq(Block) /\ Len(blocks') = n + 1 /\ blocks'[n + 1] = b
      /\ \A j \in 1 .. n : blocks'[j] = blocks[j]
  BY <1>2, <1>3 DEF BlocksOK
<1>5. \A j \in 1 .. n : blocks[j].at \in Nat /\ blocks[j].size \in Nat
  <2> TAKE j \in 1 .. n
  <2>1. blocks[j] \in Block
    BY <1>3 DEF BlocksOK
  <2> QED
    BY <2>1 DEF Block
<1>6. \A j \in 1 .. n + 1 :
        /\ blocks'[j].at % QUANTUM = 0
        /\ blocks'[j].at + blocks'[j].size <= bump'
        /\ InPages(mapped', blocks'[j].at, blocks'[j].at + blocks'[j].size)
  <2> TAKE j \in 1 .. n + 1
  <2>1. CASE j = n + 1
    BY <1>2, <1>4, <2>1
  <2>2. CASE j \in 1 .. n
    <3>1. blocks'[j] = blocks[j] /\ blocks[j].at \in Nat /\ blocks[j].size \in Nat
      BY <1>4, <1>5, <2>2
    <3>2. /\ blocks[j].at % QUANTUM = 0 /\ blocks[j].at + blocks[j].size <= bump
          /\ InPages(mapped, blocks[j].at, blocks[j].at + blocks[j].size)
      BY <1>3, <2>2 DEF BlocksOK
    <3>3. InPages(mapped', blocks[j].at, blocks[j].at + blocks[j].size)
      BY <3>2 DEF InPages
    <3>4. blocks[j].at + blocks[j].size <= bump'
      BY <3>1, <3>2
    <3> QED
      BY <3>1, <3>2, <3>3, <3>4
  <2> QED
    BY <2>1, <2>2, <1>3
<1>7. \A j, k \in 1 .. n + 1 : j < k => blocks'[j].at + blocks'[j].size <= blocks'[k].at
  <2> TAKE j, k \in 1 .. n + 1
  <2> HAVE j < k
  <2>1. j \in 1 .. n /\ blocks'[j] = blocks[j]
    BY <1>4
  <2>2. CASE k = n + 1
    BY <1>2, <1>3, <1>4, <1>5, <2>1, <2>2 DEF BlocksOK
  <2>3. CASE k \in 1 .. n
    BY <1>3, <1>4, <2>1, <2>3 DEF BlocksOK
  <2> QED
    BY <1>3, <2>2, <2>3
<1> QED
  BY <1>4, <1>6, <1>7 DEF BlocksOK

LEMMA MallocHereHeap ==
  ASSUME HeapInv, NEW sz \in Nat, sz <= PAGE_SIZE, MallocHere(sz)
  PROVE  HeapInv'
<1>1. PICK size : size = RoundUp(sz, QUANTUM)
  OBVIOUS
<1>2. /\ space_remaining >= size /\ bump' = bump + size
      /\ space_remaining' = space_remaining - size
      /\ blocks' = Append(blocks, [at |-> bump, size |-> size])
      /\ UNCHANGED <<v_heap, mapped>>
  BY <1>1 DEF MallocHere
<1>3. size \in Nat /\ size % QUANTUM = 0 /\ QUANTUM \in Nat \ {0}
  BY <1>1, SizeFits, SizesAssumption
<1>4. /\ bump \in Nat /\ space_remaining \in Nat /\ bump % QUANTUM = 0
      /\ bump + space_remaining <= v_heap /\ v_heap \in Nat
      /\ \E q \in Nat : v_heap = PAGE_SIZE * q
      /\ InPages(mapped, bump, bump + space_remaining)
  <2>1. PICK q \in Nat : v_heap = PAGE_SIZE * q
    BY DEF HeapInv
  <2>2. v_heap \in Nat
    BY <2>1, Multiple, SizesAssumption
  <2> QED
    BY <2>1, <2>2 DEF HeapInv, LeftOK
<1>5. bump' % QUANTUM = 0
  BY <1>2, <1>3, <1>4, SumOfMultiples
<1>6. /\ bump' \in Nat /\ space_remaining' \in Nat
      /\ bump' + space_remaining' = bump + space_remaining
  BY <1>2, <1>3, <1>4
<1>7. InPages(mapped', bump', bump' + space_remaining') /\ InPages(mapped', bump, bump + size)
  BY <1>2, <1>3, <1>4 DEF InPages
<1>8. LeftOK'
  BY <1>2, <1>4, <1>5, <1>6, <1>7 DEF LeftOK
<1>9. BlocksOK'
  BY <1>2, <1>3, <1>4, <1>7, AppendBlock DEF HeapInv
<1> QED
  BY <1>2, <1>4, <1>8, <1>9 DEF HeapInv

LEMMA MallocMoreHeap ==
  ASSUME HeapInv, NEW sz \in Nat, sz <= PAGE_SIZE, MallocMore(sz)
  PROVE  HeapInv'
<1>1. PICK size : size = RoundUp(sz, QUANTUM)
  OBVIOUS
<1>2. /\ space_remaining < size /\ mapped' = mapped \cup {PageOf(v_heap)}
      /\ v_heap' = v_heap + PAGE_SIZE
      /\ bump' = v_heap + size
      /\ space_remaining' = Region(size) - size
      /\ blocks' = Append(blocks, [at |-> v_heap, size |-> size])
  BY <1>1 DEF MallocMore
<1>3. PICK q \in Nat : v_heap = PAGE_SIZE * q
  BY DEF HeapInv
<1>4. PAGE_SIZE \in Nat \ {0} /\ QUANTUM \in Nat \ {0} /\ PAGE_SIZE % QUANTUM = 0
  BY SizesAssumption
<1>5. /\ bump \in Nat /\ space_remaining \in Nat /\ bump <= v_heap /\ v_heap \in Nat
      /\ size \in Nat /\ size % QUANTUM = 0 /\ size <= PAGE_SIZE
  <2>1. v_heap \in Nat
    BY <1>3, <1>4, Multiple
  <2>2. size \in Nat /\ size % QUANTUM = 0 /\ size <= PAGE_SIZE
    BY <1>1, SizeFits
  <2>3. bump \in Nat /\ space_remaining \in Nat /\ bump + space_remaining <= v_heap
    BY DEF HeapInv, LeftOK
  <2> QED
    BY <2>1, <2>2, <2>3
<1>6. Region(size) = PAGE_SIZE
  BY <1>2, <1>4, <1>5, RegionIs
<1>7. v_heap % QUANTUM = 0
  <2>1. PICK p \in Nat : PAGE_SIZE = QUANTUM * p
    BY <1>4, IsMultiple
  <2>2. v_heap = QUANTUM * (p * q) /\ p * q \in Nat
    BY <1>3, <1>4, <2>1
  <2> QED
    BY <1>4, <2>2, Multiple
<1>8. bump' % QUANTUM = 0
  BY <1>2, <1>4, <1>5, <1>7, SumOfMultiples
<1>9. \A x \in v_heap .. v_heap + PAGE_SIZE - 1 : PageOf(x) \in mapped'
  <2> TAKE x \in v_heap .. v_heap + PAGE_SIZE - 1
  <2>1. PICK r \in 0 .. PAGE_SIZE - 1 : x = v_heap + r
    <3>1. x - v_heap \in 0 .. PAGE_SIZE - 1 /\ x = v_heap + (x - v_heap)
      BY <1>4, <1>5
    <3> QED
      BY <3>1
  <2>2. PageOf(x) = PageOf(v_heap)
    BY <1>3, <2>1, OnePage
  <2> QED
    BY <1>2, <2>2
<1>10. /\ bump' \in Nat /\ space_remaining' \in Nat
       /\ bump' + space_remaining' = v_heap + PAGE_SIZE
  BY <1>2, <1>4, <1>5, <1>6
<1>11. InPages(mapped', bump', bump' + space_remaining')
  BY <1>2, <1>4, <1>5, <1>9, <1>10 DEF InPages
<1>12. LeftOK'
  BY <1>2, <1>4, <1>5, <1>8, <1>10, <1>11 DEF LeftOK
<1>13. BlocksOK'
  <2>1. InPages(mapped', v_heap, v_heap + size)
    BY <1>4, <1>5, <1>9 DEF InPages
  <2> QED
    BY <1>2, <1>5, <1>7, <2>1, AppendBlock DEF HeapInv
<1>14. v_heap' = PAGE_SIZE * (q + 1)
  BY <1>2, <1>3, <1>4
<1> QED
  BY <1>12, <1>13, <1>14 DEF HeapInv

LEMMA EmptyHeap ==
  /\ HeapInit => HeapInv
  /\ ReplaceHeap => HeapInv'
<1>1. PAGE_SIZE \in Nat \ {0} /\ QUANTUM \in Nat \ {0} /\ Start = PAGE_SIZE * 8 /\ Start \in Nat
  BY SizesAssumption DEF Start
<1>2. 0 % QUANTUM = 0
  BY <1>1
<1>3. \A p : InPages(p, 0, 0)
  BY DEF InPages
<1>4. ASSUME HeapInit PROVE HeapInv
  BY <1>1, <1>2, <1>3, <1>4 DEF HeapInit, HeapInv, LeftOK, BlocksOK, NULL
<1>5. ASSUME ReplaceHeap PROVE HeapInv'
  BY <1>1, <1>2, <1>3, <1>5 DEF ReplaceHeap, HeapInv, LeftOK, BlocksOK, NULL
<1> QED
  BY <1>4, <1>5

\* Nobody asks for more than mmap maps.
SmallRequests == \A sz \in Requests : sz <= PAGE_SIZE

LEMMA NextHeap ==
  ASSUME SmallRequests, HeapInv, [Next]_vars PROVE HeapInv'
<1>1. ASSUME UNCHANGED heap PROVE HeapInv'
  BY <1>1 DEF heap, HeapInv, LeftOK, BlocksOK
<1>2. ASSUME NEW sz \in Nat, sz <= PAGE_SIZE, MallocHere(sz) \/ MallocMore(sz)
      PROVE  HeapInv'
  BY <1>2, MallocHereHeap, MallocMoreHeap
<1>3. CASE Prompt
  <2>1. Cap + 1 \in Nat
    BY CapAssumption
  <2> QED
    BY <1>2, <1>3, <2>1, LineAssumption DEF Prompt
<1>4. ASSUME NEW sz \in Requests, ProgramMallocs(sz) PROVE HeapInv'
  <2>1. sz \in Nat /\ sz <= PAGE_SIZE
    BY SizesAssumption DEF SmallRequests
  <2> QED
    BY <1>2, <1>4, <2>1 DEF ProgramMallocs
<1>5. ASSUME NEW name, Execute(name) PROVE HeapInv'
  BY <1>5, EmptyHeap DEF Execute
<1>6. CASE ExecFound \/ InitExecs \/ my_exit
  BY <1>5, <1>6 DEF ExecFound, InitExecs, my_exit
<1>7. CASE \/ \E ch \in Char : Type(ch)
           \/ Read \/ Store \/ Continue \/ ReturnLine \/ RunOff \/ Strip \/ StripFaults
           \/ ExecSmashes \/ ExecFails \/ ProgramReads \/ UNCHANGED vars
  BY <1>1, <1>7 DEF Type, Read, Store, Continue, ReturnLine, RunOff, Strip, StripFaults,
                    ExecSmashes, ExecFails, ProgramReads, vars
<1> QED
  BY <1>3, <1>4, <1>6, <1>7 DEF Next, ShellStep

LEMMA HeapInvBlocksApart == HeapInv => BlocksApart
<1> SUFFICES ASSUME HeapInv PROVE BlocksApart
  OBVIOUS
<1>1. PICK n \in Nat : n = Len(blocks)
  BY DEF HeapInv, BlocksOK
<1>2. \A j \in 1 .. n : blocks[j].at \in Nat /\ blocks[j].size \in Nat
  <2> TAKE j \in 1 .. n
  <2>1. blocks[j] \in Block
    BY <1>1 DEF HeapInv, BlocksOK
  <2> QED
    BY <2>1 DEF Block
<1>3. \A j \in 1 .. n :
        /\ blocks[j].at % QUANTUM = 0
        /\ \A x \in BlockBytes(blocks[j]) : PageOf(x) \in mapped
  <2>1. \A j \in 1 .. n :
          /\ blocks[j].at % QUANTUM = 0
          /\ InPages(mapped, blocks[j].at, blocks[j].at + blocks[j].size)
    BY <1>1 DEF HeapInv, BlocksOK
  <2> QED
    BY <1>2, <2>1 DEF InPages, BlockBytes
<1>4. ASSUME NEW j \in 1 .. n, NEW k \in 1 .. n, j < k,
             NEW x, x \in BlockBytes(blocks[j]), x \in BlockBytes(blocks[k])
      PROVE  FALSE
  <2>1. blocks[j].at + blocks[j].size <= blocks[k].at
    BY <1>1, <1>4 DEF HeapInv, BlocksOK
  <2> QED
    BY <1>2, <1>4, <2>1 DEF BlockBytes
<1>5. \A j, k \in 1 .. n :
        j # k => BlockBytes(blocks[j]) \cap BlockBytes(blocks[k]) = {}
  <2> TAKE j, k \in 1 .. n
  <2> HAVE j # k
  <2>1. j < k \/ k < j
    BY <1>1
  <2> QED
    BY <1>4, <2>1
<1> QED
  BY <1>1, <1>3, <1>5 DEF BlocksApart

-----------------------------------------------------------------------------
(***************************************************************************)
(* The inductive invariant of the line: what getline has stored, returned  *)
(* and the shell stripped is what was typed.                               *)
(***************************************************************************)
THEOREM ShellInvariant == Spec => []LineInv
  BY InitLine, NextLine, PTL DEF Spec

(***************************************************************************)
(* getline's index stays in the line, whatever is typed, and strlen always *)
(* finds a NUL in it (myio.c:23-38, mystring.c:5).                         *)
(***************************************************************************)
THEOREM ShellTyped == Spec => []TypeOK
<1>1. LineInv => TypeOK
  BY DEF LineInv
<1> QED
  BY <1>1, ShellInvariant, PTL

(***************************************************************************)
(* The name that the shell asks exec for is the line that was typed,       *)
(* without its newline (shell.c:15-20).                                    *)
(***************************************************************************)
THEOREM ShellNameIsTyped == Spec => []NameIsTyped
  BY LineInvNameIsTyped, ShellInvariant, PTL

(***************************************************************************)
(* exec starts the module of that name, or none if there is none, for      *)
(* names that leave two bytes of its copy free (idt.c:432-447).            *)
(***************************************************************************)
THEOREM ShellStartsWhatIsTyped == Spec => StartsWhatIsTyped
<1>1. ASSUME LineInv, [Next]_vars PROVE [StartsTyped]_vars
  BY <1>1, NextStartsTyped
<1>2. [][StartsTyped]_vars => StartsWhatIsTyped
  BY PTL DEF StartsWhatIsTyped, StartsTyped
<1> QED
  BY <1>1, <1>2, ShellInvariant, PTL DEF Spec

(***************************************************************************)
(* The blocks that malloc hands out are aligned, mapped and share no byte  *)
(* (mem.c:43-73), as long as no program asks for more at a time than what  *)
(* mmap maps whatever it is asked for (idt.c:421-425).                     *)
(***************************************************************************)
THEOREM HeapBlocksApart ==
  ASSUME SmallRequests
  PROVE  Spec => []BlocksApart
<1>1. Init => HeapInv
  BY EmptyHeap DEF Init
<1>2. HeapInv /\ [Next]_vars => HeapInv'
  BY NextHeap
<1> QED
  BY <1>1, <1>2, HeapInvBlocksApart, PTL DEF Spec

=============================================================================
