-------------------------------- MODULE Shell --------------------------------
(***************************************************************************)
(* Programs and what they share: the shell (shell/shell.c) with getline,   *)
(* strlen and malloc of the run-time library, init (init/init.c), programs *)
(* like echo (echo/echo.c), and exec, the system call by which one takes   *)
(* the place of another (kernel/idt.c, kernel/proc.c).  They read from the *)
(* kernel's character ring, which keeps what is typed ahead; a read of one *)
(* character hands it over as it is, '\b' included (ReadSyscall with a     *)
(* length of 1).  What execute_mod does with a program's file is in Loader.*)
(*                                                                         *)
(* A line is fresh memory, all NUL.  The byte before the first line of a   *)
(* program belongs to a page nobody mapped; before a later line there is   *)
(* an unused byte of the line before it.                                   *)
(*                                                                         *)
(* taken is a history variable: what getline has read of the line.         *)
(***************************************************************************)
EXTENDS Heap

CONSTANTS
  Char,         \* the characters the keyboard produces
  NUL, LF,      \* '\0' and '\n', two of them
  Cap,          \* the 254 of getline
  Capacity,     \* characters the ring holds
  COPY,         \* bytes of exec's copy of a name (20)
  Modules,      \* the names of the programs the bootloader has loaded
  InitName, ShellName   \* two of them, "init" and "shell"

ASSUME CharAssumption == {NUL, LF} \subseteq Char
ASSUME CapAssumption == Cap \in Nat \ {0} /\ Capacity \in Nat \ {0}
ASSUME PaddingAssumption == (Cap + 1) % QUANTUM # 0
ASSUME LineAssumption == Cap + 1 <= PAGE_SIZE
ASSUME ModulesAssumption ==
  /\ InitName \in Modules /\ ShellName \in Modules /\ InitName # ShellName
  /\ Modules \subseteq Seq(Char \ {NUL})
  /\ COPY \in Nat

VARIABLES
  unread,     \* characters in the ring
  running,    \* the program
  pc,         \* "prompt", "read", "got", "stored", "strip", "exec": where the
              \* shell is; "program": another one runs; "crashed", "smashed":
              \* a page fault, or exec has written past its copy of the name
  line,       \* the bytes at p, with the one before them
  i, curr,    \* of getline
  result,     \* what getline returned: "p", or "garbage" without a return
  taken

getl == <<line, i, curr, result, taken>>
vars == <<unread, running, pc, getl, heap>>

Bytes == -1 .. Cap

FreshLine == [k \in Bytes |-> NUL]

Init ==
  /\ HeapInit
  /\ line = FreshLine
  /\ i = 0
  /\ curr = NUL
  /\ result = "p"
  /\ taken = <<>>
  /\ unread = <<>>
  /\ running = InitName
  /\ pc = "program"

\* strlen, which counts the NUL too
Strlen ==
  1 + CHOOSE k \in 0 .. Cap :
        line[k] = NUL /\ \A j \in 0 .. k - 1 : line[j] # NUL

-----------------------------------------------------------------------------
(***************************************************************************)
(* Mutants: definitions of this module with a mistake in them.  Nothing    *)
(* refers to them here; each shows that a property below can fail.         *)
(***************************************************************************)
\* The last character of the name goes with the newline.
StripAtShort == Strlen - 3

\* getline has room for one character more than the line.
MoreLate == i <= Cap

\* A newline ends the line only if it is alone.
EndOfLineAlone == curr = LF /\ i = 1

\* exec's copy is not cleared: a name begins on it that was there before.
FreshCopyOld == [k \in 0 .. COPY - 1 |-> IF k = 1 THEN ShellName[1] ELSE NUL]

-----------------------------------------------------------------------------
\* A key; the ring is modelled in KeyRing.
Type(ch) ==
  /\ pc \notin {"crashed", "smashed"}
  /\ Len(unread) < Capacity
  /\ unread' = Append(unread, ch)
  /\ UNCHANGED <<running, pc, getl, heap>>

\* The prompt, and getline's malloc.
Prompt ==
  /\ pc = "prompt"
  /\ MallocHere(Cap + 1) \/ MallocMore(Cap + 1)
  /\ pc' = "read"
  /\ line' = FreshLine
  /\ i' = 0
  /\ taken' = <<>>
  /\ UNCHANGED <<unread, running, curr, result>>

\* while (i < 254)
More == i < Cap

\* my_read(0, &curr, 1)
Read ==
  /\ pc = "read"
  /\ More
  /\ unread # <<>>
  /\ curr' = Head(unread)
  /\ unread' = Tail(unread)
  /\ taken' = Append(taken, curr')
  /\ pc' = "got"
  /\ UNCHANGED <<running, line, i, result, heap>>

\* p[i] = curr; i++;
Store ==
  /\ pc = "got"
  /\ line' = [line EXCEPT ![i] = curr]
  /\ i' = i + 1
  /\ pc' = "stored"
  /\ UNCHANGED <<unread, running, curr, result, taken, heap>>

EndOfLine == curr = LF

Continue ==
  /\ pc = "stored"
  /\ ~EndOfLine
  /\ pc' = "read"
  /\ UNCHANGED <<unread, running, getl, heap>>

\* p[i] = '\0'; return p;
ReturnLine ==
  /\ pc = "stored"
  /\ EndOfLine
  /\ line' = [line EXCEPT ![i] = NUL]
  /\ result' = "p"
  /\ pc' = "strip"
  /\ UNCHANGED <<unread, running, i, curr, taken, heap>>

\* The end of getline: p[254] = '\0' and no return statement.  What its
\* caller finds in the register for the result is whatever was there.
RunOff ==
  /\ pc = "read"
  /\ ~More
  /\ line' = [line EXCEPT ![Cap] = NUL]
  /\ result' \in {"p", "garbage"}
  /\ pc' = "strip"
  /\ UNCHANGED <<unread, running, i, curr, taken, heap>>

StripAt == Strlen - 2

\* line[-1] where the heap begins, or a pointer that points nowhere
StripAstray ==
  result = "garbage" \/ (StripAt < 0 /\ blocks[Len(blocks)].at = Start)

\* line[strlen(line)-2] = '\0'
Strip ==
  /\ pc = "strip"
  /\ ~StripAstray
  /\ line' = [line EXCEPT ![StripAt] = NUL]
  /\ pc' = "exec"
  /\ UNCHANGED <<unread, running, i, curr, result, taken, heap>>

\* A page fault stops the machine.
StripFaults ==
  /\ pc = "strip"
  /\ StripAstray
  /\ pc' = "crashed"
  /\ UNCHANGED <<unread, running, getl, heap>>

-----------------------------------------------------------------------------
\* Two strings with their NULs are equal up to the first of them.
my_strcmp(str1, str2) ==
  LET Stops(k) == str1[k] = NUL \/ str2[k] = NUL \/ str1[k] # str2[k]
      k == CHOOSE n \in DOMAIN str1 : Stops(n) /\ \A j \in 0 .. n - 1 : ~Stops(j)
  IN  str1[k] = str2[k]

\* The string of a module of that name, names of which no two are equal.
String(name) ==
  [k \in 0 .. Len(name) |-> IF k < Len(name) THEN name[k + 1] ELSE NUL]

check_mod(mod) == {name \in Modules : my_strcmp(String(name), mod)}

\* char copy[20] = { 0 };
FreshCopy == [k \in 0 .. COPY - 1 |-> NUL]

\* strcpy puts the NUL one place after the end, and leaves the place before.
strcpy(buf) ==
  LET len == Strlen - 1
  IN  [k \in DOMAIN buf \cup (0 .. len - 1) \cup {len + 1} |->
         IF k < len THEN line[k] ELSE IF k = len + 1 THEN NUL ELSE buf[k]]

Copy == strcpy(FreshCopy)
CopyFits == DOMAIN Copy = 0 .. COPY - 1

\* The lower half is unmapped, and with it what the old program had.
Execute(name) ==
  /\ running' = name
  /\ pc' = IF name = ShellName THEN "prompt" ELSE "program"
  /\ line' = FreshLine
  /\ i' = 0
  /\ curr' = NUL
  /\ result' = "p"
  /\ taken' = <<>>
  /\ ReplaceHeap
  /\ UNCHANGED unread

ExecSmashes ==
  /\ pc = "exec"
  /\ ~CopyFits
  /\ pc' = "smashed"
  /\ UNCHANGED <<unread, running, getl, heap>>

\* exec returns -1, and the shell says so.
ExecFails ==
  /\ pc = "exec"
  /\ CopyFits
  /\ check_mod(Copy) = {}
  /\ pc' = "prompt"
  /\ UNCHANGED <<unread, running, getl, heap>>

\* exec replaces the shell by the program of that name.
ExecFound ==
  /\ pc = "exec"
  /\ CopyFits
  /\ \E name \in check_mod(Copy) : Execute(name)

\* init starts the shell,
InitExecs ==
  /\ pc = "program"
  /\ running = InitName
  /\ Execute(ShellName)

Program == pc = "program" /\ running # InitName

\* and any other program asks for memory, reads what it likes,
ProgramMallocs(sz) ==
  /\ Program
  /\ MallocHere(sz) \/ MallocMore(sz)
  /\ UNCHANGED <<unread, running, pc, getl>>

ProgramReads ==
  /\ Program
  /\ unread # <<>>
  /\ unread' = Tail(unread)
  /\ UNCHANGED <<running, pc, getl, heap>>

\* and exits, which is to execute init.
my_exit == Program /\ Execute(InitName)

-----------------------------------------------------------------------------
ShellStep ==
  \/ Prompt
  \/ Read
  \/ Store
  \/ Continue
  \/ ReturnLine
  \/ RunOff
  \/ Strip
  \/ StripFaults
  \/ ExecSmashes
  \/ ExecFails
  \/ ExecFound

Next ==
  \/ \E ch \in Char : Type(ch)
  \/ ShellStep
  \/ InitExecs
  \/ \E sz \in Requests : ProgramMallocs(sz)
  \/ ProgramReads
  \/ my_exit

Spec == Init /\ [][Next]_vars

\* The shell runs whenever it has something to do; nobody has to type, and a
\* program may run for ever.
FairSpec == Spec /\ WF_vars(ShellStep)

-----------------------------------------------------------------------------
\* The line's index stays in the line, and there is always a NUL to find.
TypeOK ==
  /\ unread \in Seq(Char)
  /\ Len(unread) <= Capacity
  /\ running \in Modules
  /\ pc \in {"prompt", "read", "got", "stored", "strip", "exec", "program",
             "crashed", "smashed"}
  /\ line \in [Bytes -> Char]
  /\ i \in 0 .. Cap
  /\ pc = "got" => i < Cap
  /\ pc = "strip" => \E k \in 0 .. Cap : line[k] = NUL
  /\ curr \in Char
  /\ result \in {"p", "garbage"}
  /\ taken \in Seq(Char)

(***************************************************************************)
(* The program the shell asks for has the name that was typed: a line      *)
(* without NUL characters, of any length getline has room for, loses its   *)
(* newline and nothing else.                                               *)
(***************************************************************************)
CharsIn(s) == {s[k] : k \in DOMAIN s}

PlainLine == NUL \notin CharsIn(taken) /\ curr = LF
Typed == SubSeq(taken, 1, Len(taken) - 1)

NameIsTyped ==
  pc = "exec" /\ PlainLine =>
    /\ Strlen = Len(taken)
    /\ \A k \in 1 .. Len(Typed) : line[k - 1] = Typed[k]

(***************************************************************************)
(* What runs next is what was typed: if the name is a module's, that       *)
(* module, on an empty heap; if it is not, the shell goes on, with the     *)
(* memory it has.  exec writes past its copy (idt.c:432) for no name that  *)
(* leaves two of the copy's bytes free.                                    *)
(***************************************************************************)
StartsWhatIsTyped ==
  [][pc = "exec" /\ pc' # "exec" /\ PlainLine /\ Len(Typed) <= COPY - 2 =>
       IF Typed \in Modules THEN running' = Typed /\ blocks' = <<>>
                            ELSE running' = running /\ blocks' = blocks
                                 /\ pc' = "prompt"]_vars

(***************************************************************************)
(* Return gets an answer: a newline in the ring while the shell is at its  *)
(* prompt leads to an exec, unless the shell has crashed.                  *)
(***************************************************************************)
ReturnAnswered ==
  (pc = "read" /\ LF \in CharsIn(unread)) ~> (pc \in {"exec", "crashed"})

=============================================================================
