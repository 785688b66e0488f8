---------------------------- MODULE LoaderProofs ----------------------------
(***************************************************************************)
(* Proofs about Loader, for any modules whose segments have pages of their *)
(* own, and pages and chunks of any size of which two make one.            *)
(*                                                                         *)
(* The invariant follows execute_mod through its loops: what it has passed *)
(* has its file and its permissions, what it is filling has its file and   *)
(* is on the page it opened, and the program's part of memory holds no     *)
(* other page.                                                             *)
(***************************************************************************)
EXTENDS Loader, TLAPS

Perms == [user : BOOLEAN, write : BOOLEAN, exec : BOOLEAN, by : Names \cup {"boot"}]
Holdings == {Clear} \cup (Names \X Nat)

Types ==
  /\ modules \in [Names -> Layouts]
  /\ wp \in BOOLEAN
  /\ pc \in {"user", "check", "unmap", "segment", "chunk", "copy", "protect",
             "stack", "faulted"}
  /\ arg \in Names \cup {"none"}
  /\ pc = "unmap" => arg \in Names
  /\ current \in Names
  /\ s \in Nat \ {0}
  /\ vaddr \in Nat /\ offset \in Nat /\ size \in Nat /\ k \in Nat /\ v_heap \in Nat
  /\ pages \in [Pages -> Perms \cup {Absent}]
  /\ cells \in [Units -> Holdings]

Turning == {"chunk", "copy", "protect"}
Filling == {"copy", "protect"}

\* Where turn m of segment n starts
From(n, m) == Segments[n].vaddr + m * CHUNK

\* The turn that the loop is in
TurnOK ==
  /\ pc \in Turning =>
       /\ s \in LoadsOf(current)
       /\ \E m \in 0 .. MaxUnit :
            /\ vaddr = From(s, m)
            /\ offset = Segments[s].offset + m * CHUNK
            /\ size + m * CHUNK = Segments[s].memsz
  /\ pc \in Filling => size > 0 /\ k <= Part
  /\ pc = "protect" => k = Part
  /\ pc \in {"stack", "user", "check"} => s > Len(Segments)

\* What is at an address of a segment
Filled(n, x) == cells[x] = File(current, Segments[n].offset + (x - Segments[n].vaddr))

Permitted(n, p) ==
  /\ Mapped(p)
  /\ pages[p].user = Segments[n].read
  /\ pages[p].write = Segments[n].write
  /\ pages[p].exec = Segments[n].exec

\* The address x of segment n is in a turn that is over; or it has been
\* filled in one that is not.
Passed(n, x) == n < s \/ (n = s /\ pc \in Turning /\ x < vaddr)
Open(n, x) == n = s /\ pc \in Filling /\ vaddr <= x /\ x < vaddr + k

FilledOK ==
  \A n \in LoadsOf(current) : \A x \in UnitsOf(Segments[n]) :
    /\ Passed(n, x) => Permitted(n, PageOf(x)) /\ Filled(n, x)
    /\ Open(n, x) => PageOf(x) = PageOf(vaddr) /\ Filled(n, x)

\* The page that is being filled can be written, unless a turn that is over
\* has closed it.
OpenOK ==
  pc \in Filling =>
    /\ Mapped(PageOf(vaddr))
    /\ \/ pages[PageOf(vaddr)].write
       \/ \E m \in Turns(Segments[s]) :
            From(s, m) < vaddr /\ PageOf(From(s, m)) = PageOf(vaddr)

\* Where programs are linked, only pages of segments are mapped that the loop
\* has come to.
TheirsOnly ==
  pc \in Turning \cup {"segment"} =>
    \A p \in ProgramPages : Mapped(p) =>
      \/ \E n \in LoadsOf(current) : n < s /\ \E x \in UnitsOf(Segments[n]) : PageOf(x) = p
      \/ pc \in Turning /\ \E m \in Turns(Segments[s]) :
                              From(s, m) < vaddr /\ PageOf(From(s, m)) = p
      \/ pc \in Filling /\ PageOf(vaddr) = p

OwnedOK ==
  /\ \A p \in Pages : Mapped(p) =>
       pages[p].by = current \/ (p = BootPage /\ current = "init")
  /\ \A x \in Units : Mapped(PageOf(x)) => cells[x] = Clear \/ cells[x][1] = current

LoaderInv ==
  Types /\ TurnOK /\ FilledOK /\ OpenOK /\ TheirsOnly /\ OwnedOK /\ CopesOrFaults

-----------------------------------------------------------------------------
(***************************************************************************)
(* Pages and turns.                                                        *)
(***************************************************************************)
LEMMA PageBetween ==
  ASSUME NEW x \in Nat, NEW y \in Nat, x <= y
  PROVE  PageOf(x) \in Nat /\ PageOf(y) \in Nat /\ PageOf(x) <= PageOf(y)
<1>1. PAGE \in Nat \ {0}
  BY PageAssumption
<1>2. PICK a \in Nat, r \in 0 .. PAGE - 1 : x = PAGE * a + r /\ a = x \div PAGE
  <2>1. x \div PAGE \in Nat /\ x % PAGE \in 0 .. PAGE - 1 /\ x = PAGE * (x \div PAGE) + (x % PAGE)
    BY <1>1
  <2> QED
    BY <2>1
<1>3. PICK b \in Nat, t \in 0 .. PAGE - 1 : y = PAGE * b + t /\ b = y \div PAGE
  <2>1. y \div PAGE \in Nat /\ y % PAGE \in 0 .. PAGE - 1 /\ y = PAGE * (y \div PAGE) + (y % PAGE)
    BY <1>1
  <2> QED
    BY <2>1
<1>4. ASSUME b < a PROVE FALSE
  <2>1. PICK d \in Nat : a = b + 1 + d
    <3>1. a - b - 1 \in Nat /\ a = b + 1 + (a - b - 1)
      BY <1>4
    <3> QED
      BY <3>1
  <2>2. PAGE * a = PAGE * b + PAGE + PAGE * d /\ PAGE * d \in Nat /\ PAGE * b \in Nat
    BY <1>1, <2>1
  <2> QED
    BY <1>1, <1>2, <1>3, <2>2
<1> QED
  BY <1>2, <1>3, <1>4 DEF PageOf

\* What does not reach the end of a page stays in it.
LEMMA SamePage ==
  ASSUME NEW x \in Nat, NEW d \in Nat, (x % PAGE) + d < PAGE
  PROVE  PageOf(x + d) = PageOf(x)
<1>1. PAGE \in Nat \ {0}
  BY PageAssumption
<1>2. PICK a \in Nat, r \in 0 .. PAGE - 1 : x = PAGE * a + r /\ a = x \div PAGE /\ r = x % PAGE
  <2>1. x \div PAGE \in Nat /\ x % PAGE \in 0 .. PAGE - 1 /\ x = PAGE * (x \div PAGE) + (x % PAGE)
    BY <1>1
  <2> QED
    BY <2>1
<1>3. PICK t \in 0 .. PAGE - 1 : t = r + d
  <2>1. r + d < PAGE
    BY <1>2
  <2>2. r + d \in 0 .. PAGE - 1
    BY <1>1, <2>1
  <2> QED
    BY <2>2
<1>4. x + d = PAGE * a + t
  <2>1. PICK b \in Nat : b = PAGE * a
    BY <1>1
  <2> QED
    BY <1>2, <1>3, <2>1
<1>5. (PAGE * a + t) \div PAGE = a
  BY <1>1
<1> QED
  BY <1>2, <1>4, <1>5 DEF PageOf

LEMMA ProgramPage ==
  ASSUME NEW x \in Units
  PROVE  /\ x \in Nat /\ PageOf(x) \in ProgramPages /\ PageOf(x) \in Pages
         /\ PageOf(x) \notin HeapPages \cup StackPages \cup TestPages \cup {BootPage}
<1>1. x \in Nat /\ x <= MaxUnit - 1 /\ MaxUnit \in Nat /\ PAGE \in Nat \ {0}
  BY PageAssumption DEF Units
<1>2. PageOf(x) \in Nat /\ PageOf(x) < MaxUnit \div PAGE
  <2>1. PICK a \in Nat, r \in 0 .. PAGE - 1 : x = PAGE * a + r /\ a = x \div PAGE
    <3>1. x \div PAGE \in Nat /\ x % PAGE \in 0 .. PAGE - 1 /\ x = PAGE * (x \div PAGE) + (x % PAGE)
      BY <1>1
    <3> QED
      BY <3>1
  <2>2. PICK q \in Nat : MaxUnit = PAGE * q /\ q = MaxUnit \div PAGE
    <3>1. MaxUnit \div PAGE \in Nat /\ MaxUnit = PAGE * (MaxUnit \div PAGE) + (MaxUnit % PAGE)
      BY <1>1
    <3>2. PAGE * (MaxUnit \div PAGE) \in Nat
      BY <1>1, <3>1
    <3>3. MaxUnit = PAGE * (MaxUnit \div PAGE)
      BY <3>1, <3>2, PageAssumption
    <3> QED
      BY <3>1, <3>3
  <2>3. ASSUME q <= a PROVE FALSE
    <3>1. PICK d \in Nat : a = q + d
      <4>1. a - q \in Nat /\ a = q + (a - q)
        BY <2>3
      <4> QED
        BY <4>1
    <3>2. PAGE * a = PAGE * q + PAGE * d /\ PAGE * d \in Nat
      BY <1>1, <3>1
    <3> QED
      BY <1>1, <2>1, <2>2, <3>2
  <2> QED
    BY <2>1, <2>2, <2>3 DEF PageOf
<1>3. MaxUnit \div PAGE <= 1000 /\ MaxUnit \div PAGE \in Nat
  BY <1>1, AddressAssumption
<1>4. PageOf(x) \in ProgramPages /\ PageOf(x) < 1000
  BY <1>2, <1>3 DEF ProgramPages
<1>5. \A p \in HeapPages \cup StackPages \cup TestPages \cup {BootPage} : p >= 1000
  BY DEF HeapPages, StackPages, TestPages, BootPage
<1>6. PageOf(x) \notin HeapPages \cup StackPages \cup TestPages \cup {BootPage}
  BY <1>2, <1>4, <1>5
<1>7. PageOf(x) \in Pages
  BY <1>4 DEF Pages
<1> QED
  BY <1>1, <1>4, <1>6, <1>7

\* Segments and their units
LEMMA SegmentIs ==
  ASSUME Types, NEW n \in LoadsOf(current)
  PROVE  /\ Segments[n] \in SegmentType /\ Segments[n].load
         /\ n \in 1 .. Len(Segments) /\ Len(Segments) \in Nat
         /\ \A x \in UnitsOf(Segments[n]) : x \in Units
<1>1. Segments \in Layouts
  BY DEF Types, Segments
<1>2. Segments \in Seq(SegmentType) /\ n \in Loads(Segments)
  BY <1>1, LayoutsAssumption DEF LoadsOf, Segments
<1>3. UnitsOf(Segments[n]) \subseteq 0 .. MaxUnit - 1
  BY <1>1, <1>2, LayoutsAssumption
<1> QED
  BY <1>2, <1>3 DEF Loads, Units

LEMMA SegmentsApart ==
  ASSUME Types, NEW m \in LoadsOf(current), NEW n \in LoadsOf(current), m # n,
         NEW x \in UnitsOf(Segments[m]), NEW y \in UnitsOf(Segments[n])
  PROVE  PageOf(x) # PageOf(y)
<1>1. Segments \in Layouts
  BY DEF Types, Segments
<1> QED
  BY <1>1, LayoutsAssumption DEF LoadsOf, Segments

\* The turns of a segment start in it, and there are no more of them than
\* there are units.
LEMMA TurnIn ==
  ASSUME Types, NEW n \in LoadsOf(current), NEW m \in Nat, m * CHUNK < Segments[n].memsz
  PROVE  m \in Turns(Segments[n]) /\ From(n, m) \in UnitsOf(Segments[n]) /\ From(n, m) \in Nat
<1>1. PICK seg \in SegmentType : seg = Segments[n]
  BY SegmentIs
<1>2. seg.vaddr \in Nat /\ seg.memsz \in Nat
  BY DEF SegmentType
<1>3. PICK t \in Nat : t = m * CHUNK /\ m <= t
  BY PageAssumption
<1>4. From(n, m) \in UnitsOf(seg) /\ From(n, m) \in Nat
  BY <1>1, <1>2, <1>3 DEF From, UnitsOf
<1>5. seg.vaddr + seg.memsz - 1 \in Units
  <2>1. seg.vaddr + seg.memsz - 1 \in UnitsOf(seg)
    BY <1>1, <1>2, <1>3 DEF UnitsOf
  <2> QED
    BY <1>1, <2>1, SegmentIs
<1>6. m \in 0 .. MaxUnit
  BY <1>1, <1>2, <1>3, <1>5, PageAssumption DEF Units
<1> QED
  BY <1>1, <1>4, <1>6 DEF Turns

-----------------------------------------------------------------------------
(***************************************************************************)
(* What steps leave alone.                                                 *)
(***************************************************************************)
LEMMA MapEffect ==
  ASSUME Types, NEW P, NEW user \in BOOLEAN, NEW write \in BOOLEAN, NEW exec \in BOOLEAN,
         Map(P, user, write, exec)
  PROVE  /\ pages' \in [Pages -> Perms \cup {Absent}]
         /\ cells' \in [Units -> Holdings]
         /\ \A p \in Pages : Mapped(p) \/ p \notin P => pages'[p] = pages[p]
         /\ \A p \in Pages : ~Mapped(p) /\ p \in P =>
              /\ pages'[p] = [user |-> user, write |-> write, exec |-> exec, by |-> current]
              /\ Mapped(p)'
         /\ \A x \in Units : Mapped(PageOf(x)) \/ PageOf(x) \notin P => cells'[x] = cells[x]
         /\ \A x \in Units : ~Mapped(PageOf(x)) /\ PageOf(x) \in P => cells'[x] = Clear
<1>1. PICK new : new = [user |-> user, write |-> write, exec |-> exec, by |-> current]
  OBVIOUS
<1>2. new \in Perms /\ new # Absent
  <2>1. new.by = current /\ current \in Names /\ new \in Perms
    BY <1>1 DEF Types, Perms
  <2>2. Absent.by = "nobody" /\ current # "nobody"
    BY <2>1, NamesAssumption DEF Absent
  <2> QED
    BY <2>1, <2>2
<1>3. pages' = [p \in Pages |-> IF p \in P /\ ~Mapped(p) THEN new ELSE pages[p]]
  BY <1>1 DEF Map
<1>4. pages' \in [Pages -> Perms \cup {Absent}]
  BY <1>2, <1>3 DEF Types
<1>5. \A p \in Pages : ~Mapped(p) /\ p \in P => pages'[p] = new /\ Mapped(p)'
  BY <1>2, <1>3 DEF Mapped
<1>6. \A p \in Pages : Mapped(p) \/ p \notin P => pages'[p] = pages[p]
  BY <1>3
<1>7. cells' \in [Units -> Holdings]
  BY DEF Map, Types, Holdings
<1>8. \A x \in Units : Mapped(PageOf(x)) \/ PageOf(x) \notin P => cells'[x] = cells[x]
  BY DEF Map
<1>9. \A x \in Units : ~Mapped(PageOf(x)) /\ PageOf(x) \in P => cells'[x] = Clear
  BY DEF Map
<1> QED
  BY <1>1, <1>4, <1>5, <1>6, <1>7, <1>8, <1>9

LEMMA SameProgram ==
  ASSUME modules' = modules, current' = current
  PROVE  /\ Segments' = Segments /\ LoadsOf(current)' = LoadsOf(current)
         /\ \A n, m : From(n, m)' = From(n, m)
         /\ \A n, x : cells'[x] = cells[x] => (Filled(n, x)' <=> Filled(n, x))
         /\ \A n, p : pages'[p] = pages[p] => (Permitted(n, p)' <=> Permitted(n, p))
  BY DEF Segments, LoadsOf, From, Filled, Permitted, Mapped

\* Mapped pages and what is on them stay, and no more of the program is done
\* than was.
KeepsMapped ==
  \A x \in Units : Mapped(PageOf(x)) =>
    cells'[x] = cells[x] /\ pages'[PageOf(x)] = pages[PageOf(x)]

LEMMA KeepFilled ==
  ASSUME Types, FilledOK, OpenOK, modules' = modules, current' = current, KeepsMapped, vaddr' \in Nat,
         \A n \in LoadsOf(current) : \A x \in UnitsOf(Segments[n]) :
           Passed(n, x)' => Passed(n, x),
         pc' \in Filling => k' = 0 \/ (pc \in Filling /\ <<s, vaddr, k>>' = <<s, vaddr, k>>)
  PROVE  FilledOK'
<1>1. SUFFICES ASSUME NEW n \in LoadsOf(current), NEW x \in UnitsOf(Segments[n])
               PROVE  /\ Passed(n, x)' => Permitted(n, PageOf(x))' /\ Filled(n, x)'
                      /\ Open(n, x)' => PageOf(x) = PageOf(vaddr') /\ Filled(n, x)'
  BY SameProgram DEF FilledOK
<1>2. x \in Units
  BY SegmentIs
<1>3. ASSUME Passed(n, x)' PROVE Permitted(n, PageOf(x))' /\ Filled(n, x)'
  <2>1. Permitted(n, PageOf(x)) /\ Filled(n, x)
    BY <1>3 DEF FilledOK
  <2>2. cells'[x] = cells[x] /\ pages'[PageOf(x)] = pages[PageOf(x)]
    BY <1>2, <2>1 DEF KeepsMapped, Permitted
  <2> QED
    BY <2>1, <2>2, SameProgram
<1>4. ASSUME Open(n, x)' PROVE PageOf(x) = PageOf(vaddr') /\ Filled(n, x)'
  <2>1. Open(n, x) /\ vaddr' = vaddr
    <3>1. n = s' /\ pc' \in Filling /\ vaddr' <= x /\ x < vaddr' + k'
      BY <1>4 DEF Open
    <3>2. pc \in Filling /\ <<s, vaddr, k>>' = <<s, vaddr, k>>
      <4>1. ASSUME k' = 0, ~(pc \in Filling /\ <<s, vaddr, k>>' = <<s, vaddr, k>>) PROVE FALSE
        <5>1. PICK v \in Nat, y \in Nat : v = vaddr' /\ y = x
          BY <1>2, ProgramPage
        <5>2. v <= y /\ y < v + 0
          BY <3>1, <4>1, <5>1
        <5> QED
          BY <5>2
      <4> QED
        BY <3>1, <4>1
    <3> QED
      BY <3>1, <3>2 DEF Open
  <2>2. PageOf(x) = PageOf(vaddr) /\ Filled(n, x)
    BY <2>1 DEF FilledOK
  <2>3. Mapped(PageOf(x))
    BY <2>1, <2>2 DEF OpenOK, Open
  <2>4. cells'[x] = cells[x]
    BY <1>2, <2>3 DEF KeepsMapped
  <2> QED
    BY <2>1, <2>2, <2>4, SameProgram
<1> QED
  BY <1>3, <1>4

-----------------------------------------------------------------------------
(***************************************************************************)
(* The steps.                                                              *)
(***************************************************************************)
\* Steps outside of the loops that touch no memory
LEMMA QuietStep ==
  ASSUME LoaderInv, Types',
         UNCHANGED <<modules, wp, current, load, pages, cells>>,
         pc \notin Turning, pc' \in {"stack", "user", "check", "unmap"},
         pc' # "unmap" => s > Len(Segments)
  PROVE  LoaderInv'
<1> USE DEF load
<1>1. TurnOK'
  BY SameProgram DEF TurnOK, Turning, Filling
<1>2. FilledOK'
  <2>1. \A n \in LoadsOf(current) : \A x \in UnitsOf(Segments[n]) :
          Passed(n, x)' => Passed(n, x)
    BY DEF Passed, Turning
  <2>2. KeepsMapped
    BY DEF KeepsMapped
  <2>3. pc' \notin Filling /\ vaddr' \in Nat
    BY DEF Filling, LoaderInv, Types
  <2> QED
    BY <2>1, <2>2, <2>3, KeepFilled DEF LoaderInv
<1>3. OpenOK' /\ TheirsOnly' /\ CopesOrFaults'
  BY DEF OpenOK, TheirsOnly, CopesOrFaults, Turning, Filling
<1>4. OwnedOK'
  BY DEF LoaderInv, OwnedOK, Mapped
<1> QED
  BY <1>1, <1>2, <1>3, <1>4 DEF LoaderInv

LEMMA MmapStep ==
  ASSUME LoaderInv, Mmap PROVE LoaderInv'
<1>1. PICK P : P = {1000 + v_heap \div PAGE}
  OBVIOUS
<1>2. /\ Map(P, TRUE, TRUE, TRUE)
      /\ v_heap' = v_heap + CHUNK
      /\ UNCHANGED <<modules, wp, pc, arg, current, load>>
      /\ pc = "user"
  BY <1>1 DEF Mmap
<1>3. Types
  BY DEF LoaderInv
<1>4. /\ pages' \in [Pages -> Perms \cup {Absent}]
      /\ cells' \in [Units -> Holdings]
      /\ \A p \in Pages : Mapped(p) \/ p \notin P => pages'[p] = pages[p]
      /\ \A p \in Pages : ~Mapped(p) /\ p \in P => pages'[p].by = current
      /\ \A x \in Units : Mapped(PageOf(x)) \/ PageOf(x) \notin P => cells'[x] = cells[x]
      /\ \A x \in Units : ~Mapped(PageOf(x)) /\ PageOf(x) \in P => cells'[x] = Clear
  <2>1. /\ pages' \in [Pages -> Perms \cup {Absent}]
        /\ cells' \in [Units -> Holdings]
        /\ \A p \in Pages : Mapped(p) \/ p \notin P => pages'[p] = pages[p]
        /\ \A p \in Pages : ~Mapped(p) /\ p \in P => pages'[p] =
             [user |-> TRUE, write |-> TRUE, exec |-> TRUE, by |-> current]
        /\ \A x \in Units : Mapped(PageOf(x)) \/ PageOf(x) \notin P => cells'[x] = cells[x]
        /\ \A x \in Units : ~Mapped(PageOf(x)) /\ PageOf(x) \in P => cells'[x] = Clear
    BY <1>2, <1>3, MapEffect
  <2> QED
    BY <2>1
<1>5. Types'
  <2>1. v_heap' \in Nat
    BY <1>2, <1>3, PageAssumption DEF Types
  <2> QED
    BY <1>2, <1>3, <1>4, <2>1 DEF Types, load
<1>6. TurnOK'
  BY <1>2, SameProgram DEF LoaderInv, TurnOK, Turning, Filling, load
<1>7. FilledOK'
  <2>1. \A n \in LoadsOf(current) : \A x \in UnitsOf(Segments[n]) :
          Passed(n, x)' => Passed(n, x)
    BY <1>2 DEF Passed, Turning, load
  <2>2. KeepsMapped
    BY <1>4, ProgramPage DEF KeepsMapped
  <2>3. pc' \notin Filling /\ vaddr' \in Nat
    BY <1>2, <1>3 DEF Filling, Types, load
  <2> QED
    BY <1>2, <2>1, <2>2, <2>3, KeepFilled DEF LoaderInv
<1>8. OpenOK' /\ TheirsOnly' /\ CopesOrFaults'
  BY <1>2 DEF OpenOK, TheirsOnly, CopesOrFaults, Turning, Filling
<1>9. OwnedOK'
  <2>1. \A p \in Pages : Mapped(p)' =>
          pages'[p].by = current' \/ (p = BootPage /\ current' = "init")
    <3> TAKE p \in Pages
    <3> HAVE Mapped(p)'
    <3>1. CASE ~Mapped(p) /\ p \in P
      BY <1>2, <1>4, <3>1
    <3>2. CASE Mapped(p) \/ p \notin P
      <4>1. pages'[p] = pages[p] /\ Mapped(p)
        BY <1>4, <3>2 DEF Mapped
      <4> QED
        BY <1>2, <4>1 DEF LoaderInv, OwnedOK
    <3> QED
      BY <3>1, <3>2
  <2>2. \A x \in Units : Mapped(PageOf(x))' => cells'[x] = Clear \/ cells'[x][1] = current'
    <3> TAKE x \in Units
    <3> HAVE Mapped(PageOf(x))'
    <3>1. CASE ~Mapped(PageOf(x)) /\ PageOf(x) \in P
      BY <1>4, <3>1
    <3>2. CASE Mapped(PageOf(x)) \/ PageOf(x) \notin P
      <4>1. cells'[x] = cells[x] /\ Mapped(PageOf(x))
        BY <1>4, <3>2, ProgramPage DEF Mapped
      <4> QED
        BY <1>2, <4>1 DEF LoaderInv, OwnedOK
    <3> QED
      BY <3>1, <3>2
  <2> QED
    BY <2>1, <2>2 DEF OwnedOK
<1> QED
  BY <1>5, <1>6, <1>7, <1>8, <1>9 DEF LoaderInv

LEMMA UnmapLowerHalfStep ==
  ASSUME LoaderInv, UnmapLowerHalf PROVE LoaderInv'
<1>1. /\ pages' = [p \in Pages |-> Absent]
      /\ v_heap' = 0 /\ current' = arg /\ s' = 1 /\ pc' = "segment"
      /\ UNCHANGED <<modules, wp, arg, vaddr, offset, size, k, cells>>
      /\ arg \in Names
  BY DEF UnmapLowerHalf, LetGo, LoaderInv, Types
<1>2. \A p \in Pages : ~Mapped(p)'
  BY <1>1 DEF Mapped
<1>3. Types'
  BY <1>1 DEF LoaderInv, Types
<1>4. TurnOK' /\ OpenOK' /\ CopesOrFaults'
  BY <1>1 DEF TurnOK, OpenOK, CopesOrFaults, Turning, Filling
<1>5. FilledOK'
  <2>1. \A n \in LoadsOf(current)' : n \in Nat /\ n >= 1
    BY DEF LoadsOf, Loads
  <2> QED
    BY <1>1, <2>1 DEF FilledOK, Passed, Open, Turning, Filling
<1>6. OwnedOK'
  BY <1>2, ProgramPage DEF OwnedOK
<1>7. TheirsOnly'
  BY <1>2 DEF TheirsOnly, Pages
<1> QED
  BY <1>3, <1>4, <1>5, <1>6, <1>7 DEF LoaderInv

LEMMA StartStep ==
  ASSUME LoaderInv, Start PROVE LoaderInv'
<1>1. PICK P : P = StackPages \cup TestPages
  OBVIOUS
<1>2. /\ pages' = [p \in Pages |->
           IF p \in P /\ ~Mapped(p)
           THEN [user |-> p # 3001, write |-> TRUE, exec |-> FALSE, by |-> current]
           ELSE pages[p]]
      /\ pc = "stack" /\ pc' = "user"
      /\ UNCHANGED <<modules, wp, arg, current, load, cells, v_heap>>
  BY <1>1 DEF Start
<1>3. Types /\ current \in Names
  BY DEF LoaderInv, Types
<1>4. /\ \A p \in Pages : Mapped(p) \/ p \notin P => pages'[p] = pages[p]
      /\ \A p \in Pages : ~Mapped(p) /\ p \in P => pages'[p].by = current
      /\ \A x \in Units : pages'[PageOf(x)] = pages[PageOf(x)]
  BY <1>1, <1>2, ProgramPage
<1>5. Types'
  <2>1. \A p \in Pages : pages'[p] \in Perms \cup {Absent}
    <3> TAKE p \in Pages
    <3>1. CASE p \in P /\ ~Mapped(p)
      <4>1. pages'[p] = [user |-> p # 3001, write |-> TRUE, exec |-> FALSE, by |-> current]
        BY <1>2, <3>1
      <4>2. (p # 3001) \in BOOLEAN
        OBVIOUS
      <4> QED
        BY <1>3, <4>1, <4>2 DEF Perms
    <3>2. CASE ~(p \in P /\ ~Mapped(p))
      BY <1>2, <1>3, <3>2 DEF Types
    <3> QED
      BY <3>1, <3>2
  <2>2. pages' \in [Pages -> Perms \cup {Absent}]
    BY <1>2, <2>1
  <2> QED
    BY <1>2, <1>3, <2>2 DEF Types, load
<1>6. TurnOK'
  BY <1>2, SameProgram DEF LoaderInv, TurnOK, Turning, Filling, load
<1>7. FilledOK'
  <2>1. \A n \in LoadsOf(current) : \A x \in UnitsOf(Segments[n]) :
          Passed(n, x)' => Passed(n, x)
    BY <1>2 DEF Passed, Turning, load
  <2>2. KeepsMapped
    BY <1>2, <1>4 DEF KeepsMapped
  <2>3. pc' \notin Filling /\ vaddr' \in Nat
    BY <1>2, <1>3 DEF Filling, Types, load
  <2> QED
    BY <1>2, <2>1, <2>2, <2>3, KeepFilled DEF LoaderInv
<1>8. OpenOK' /\ TheirsOnly' /\ CopesOrFaults'
  BY <1>2 DEF OpenOK, TheirsOnly, CopesOrFaults, Turning, Filling
<1>9. OwnedOK'
  <2>1. \A p \in Pages : Mapped(p)' =>
          pages'[p].by = current' \/ (p = BootPage /\ current' = "init")
    <3> TAKE p \in Pages
    <3> HAVE Mapped(p)'
    <3>1. CASE ~Mapped(p) /\ p \in P
      BY <1>2, <1>4, <3>1
    <3>2. CASE Mapped(p) \/ p \notin P
      <4>1. pages'[p] = pages[p] /\ Mapped(p)
        BY <1>4, <3>2 DEF Mapped
      <4> QED
        BY <1>2, <4>1 DEF LoaderInv, OwnedOK
    <3> QED
      BY <3>1, <3>2
  <2>2. \A x \in Units : Mapped(PageOf(x))' => cells'[x] = Clear \/ cells'[x][1] = current'
    <3> TAKE x \in Units
    <3> HAVE Mapped(PageOf(x))'
    <3>1. Mapped(PageOf(x))
      BY <1>4 DEF Mapped
    <3>2. cells'[x] = cells[x] /\ current' = current
      BY <1>2
    <3> QED
      BY <3>1, <3>2 DEF LoaderInv, OwnedOK
  <2> QED
    BY <2>1, <2>2 DEF OwnedOK
<1> QED
  BY <1>5, <1>6, <1>7, <1>8, <1>9 DEF LoaderInv

LEMMA SkipSegmentStep ==
  ASSUME LoaderInv, SkipSegment PROVE LoaderInv'
<1>1. /\ pc = "segment" /\ pc' = "segment" /\ s' = s + 1
      /\ UNCHANGED <<modules, wp, arg, current, vaddr, offset, size, k, pages, cells, v_heap>>
      /\ s \in Nat \ {0} /\ Types
  BY DEF SkipSegment, LoaderInv, Types
<1>2. \A n \in LoadsOf(current) : n \in Nat /\ (n < s + 1 <=> n < s)
  <2>1. s \notin LoadsOf(current)
    BY DEF SkipSegment, LoadsOf, Loads, Segments
  <2>2. \A n \in LoadsOf(current) : n \in Nat /\ n # s
    BY <2>1 DEF LoadsOf, Loads
  <2> QED
    BY <1>1, <2>2
<1>3. Types'
  BY <1>1 DEF Types
<1>4. TurnOK' /\ OpenOK' /\ CopesOrFaults'
  BY <1>1 DEF TurnOK, OpenOK, CopesOrFaults, Turning, Filling
<1>5. FilledOK'
  <2>1. \A n \in LoadsOf(current) : \A x \in UnitsOf(Segments[n]) :
          Passed(n, x)' => Passed(n, x)
    BY <1>1, <1>2 DEF Passed, Turning
  <2>2. KeepsMapped
    BY <1>1 DEF KeepsMapped
  <2>3. pc' \notin Filling /\ vaddr' \in Nat
    BY <1>1 DEF Filling, Types
  <2> QED
    BY <1>1, <2>1, <2>2, <2>3, KeepFilled DEF LoaderInv
<1>6. OwnedOK'
  BY <1>1 DEF LoaderInv, OwnedOK, Mapped
<1>7. TheirsOnly'
  <2>1. SUFFICES ASSUME NEW p \in ProgramPages, Mapped(p)
                 PROVE  \E n \in LoadsOf(current) : n < s + 1 /\
                          \E x \in UnitsOf(Segments[n]) : PageOf(x) = p
    BY <1>1, SameProgram DEF TheirsOnly, Mapped
  <2>2. \E n \in LoadsOf(current) : n < s /\ \E x \in UnitsOf(Segments[n]) : PageOf(x) = p
    BY <1>1, <2>1 DEF LoaderInv, TheirsOnly, Turning, Filling
  <2> QED
    BY <1>2, <2>2
<1> QED
  BY <1>3, <1>4, <1>5, <1>6, <1>7 DEF LoaderInv

LEMMA StartSegmentStep ==
  ASSUME LoaderInv, StartSegment PROVE LoaderInv'
<1>1. /\ pc = "segment" /\ pc' = "chunk"
      /\ size' = Segments[s].memsz /\ offset' = Segments[s].offset /\ vaddr' = Segments[s].vaddr
      /\ UNCHANGED <<modules, wp, arg, current, s, k, pages, cells, v_heap>>
      /\ s \in Nat \ {0} /\ Types
  BY DEF StartSegment, LoaderInv, Types
<1>2. s \in LoadsOf(current)
  BY <1>1 DEF StartSegment, LoadsOf, Loads, Segments
<1>3. size' \in Nat /\ offset' \in Nat /\ vaddr' \in Nat
  BY <1>1, <1>2, SegmentIs DEF SegmentType
<1>4. Types'
  BY <1>1, <1>3 DEF Types
<1>5. TurnOK'
  <2>1. 0 \in 0 .. MaxUnit /\ 0 * CHUNK = 0
    BY PageAssumption
  <2>2. vaddr' = From(s, 0) /\ offset' = Segments[s].offset + 0 * CHUNK
        /\ size' + 0 * CHUNK = Segments[s].memsz
    BY <1>1, <1>3, <2>1 DEF From
  <2> QED
    BY <1>1, <1>2, <2>1, <2>2, SameProgram DEF TurnOK, Turning, Filling
<1>6. OpenOK' /\ CopesOrFaults'
  BY <1>1 DEF OpenOK, CopesOrFaults, Filling
<1>7. FilledOK'
  <2>1. \A n \in LoadsOf(current) : \A x \in UnitsOf(Segments[n]) :
          Passed(n, x)' => Passed(n, x)
    <3>1. \A x \in UnitsOf(Segments[s]) : ~(x < Segments[s].vaddr)
      BY <1>1, <1>3 DEF UnitsOf
    <3> QED
      BY <1>1, <3>1 DEF Passed, Turning
  <2>2. KeepsMapped
    BY <1>1 DEF KeepsMapped
  <2>3. pc' \notin Filling /\ vaddr' \in Nat
    BY <1>1, <1>3 DEF Filling
  <2> QED
    BY <1>1, <2>1, <2>2, <2>3, KeepFilled DEF LoaderInv
<1>8. OwnedOK'
  BY <1>1 DEF LoaderInv, OwnedOK, Mapped
<1>9. TheirsOnly'
  <2>1. SUFFICES ASSUME NEW p \in ProgramPages, Mapped(p)
                 PROVE  \E n \in LoadsOf(current) : n < s /\
                          \E x \in UnitsOf(Segments[n]) : PageOf(x) = p
    BY <1>1, SameProgram DEF TheirsOnly, Mapped
  <2> QED
    BY <1>1, <2>1 DEF LoaderInv, TheirsOnly, Turning, Filling
<1> QED
  BY <1>4, <1>5, <1>6, <1>7, <1>8, <1>9 DEF LoaderInv

\* Where the loop is in its segment
LEMMA InTurn ==
  ASSUME LoaderInv, pc \in Turning
  PROVE  /\ s \in LoadsOf(current) /\ Segments[s] \in SegmentType
         /\ vaddr \in Nat /\ size \in Nat /\ offset \in Nat
         /\ vaddr + size = Segments[s].vaddr + Segments[s].memsz
         /\ vaddr >= Segments[s].vaddr
         /\ offset = Segments[s].offset + (vaddr - Segments[s].vaddr)
         /\ \A d \in 0 .. size - 1 : vaddr + d \in UnitsOf(Segments[s])
         /\ size > 0 => \E m \in Turns(Segments[s]) :
              vaddr = From(s, m) /\ size + m * CHUNK = Segments[s].memsz
<1>1. Types /\ s \in LoadsOf(current)
  BY DEF LoaderInv, TurnOK
<1>2. PICK seg \in SegmentType : seg = Segments[s]
  BY <1>1, SegmentIs
<1>3. PICK m \in 0 .. MaxUnit :
        /\ vaddr = From(s, m)
        /\ offset = Segments[s].offset + m * CHUNK
        /\ size + m * CHUNK = Segments[s].memsz
  BY DEF LoaderInv, TurnOK
<1>4. PICK t \in Nat : t = m * CHUNK
  BY PageAssumption
<1>5. /\ vaddr = seg.vaddr + t /\ offset = seg.offset + t /\ size + t = seg.memsz
      /\ seg.vaddr \in Nat /\ seg.offset \in Nat /\ seg.memsz \in Nat
      /\ vaddr \in Nat /\ size \in Nat /\ offset \in Nat
  BY <1>1, <1>2, <1>3, <1>4 DEF From, SegmentType, Types
<1>6. \A d \in 0 .. size - 1 : vaddr + d \in UnitsOf(seg)
  BY <1>5 DEF UnitsOf
<1>7. size > 0 => m \in Turns(Segments[s])
  <2>1. size > 0 => m * CHUNK < Segments[s].memsz
    BY <1>2, <1>4, <1>5
  <2>2. m \in Nat
    BY PageAssumption
  <2> QED
    BY <1>1, <2>1, <2>2, TurnIn
<1>8. /\ vaddr + size = seg.vaddr + seg.memsz
      /\ vaddr >= seg.vaddr
      /\ offset = seg.offset + (vaddr - seg.vaddr)
  BY <1>5
<1> QED
  BY <1>1, <1>2, <1>3, <1>5, <1>6, <1>7, <1>8

LEMMA SegmentDoneStep ==
  ASSUME LoaderInv, SegmentDone PROVE LoaderInv'
<1>1. /\ pc = "chunk" /\ size = 0 /\ pc' = "segment" /\ s' = s + 1
      /\ UNCHANGED <<modules, wp, arg, current, vaddr, offset, size, k, pages, cells, v_heap>>
      /\ s \in Nat \ {0} /\ Types
  BY DEF SegmentDone, LoaderInv, Types
<1>2. /\ s \in LoadsOf(current) /\ Segments[s] \in SegmentType
      /\ vaddr \in Nat /\ vaddr = Segments[s].vaddr + Segments[s].memsz
  BY <1>1, InTurn DEF Turning
<1>3. Types'
  BY <1>1 DEF Types
<1>4. TurnOK' /\ OpenOK' /\ CopesOrFaults'
  BY <1>1 DEF TurnOK, OpenOK, CopesOrFaults, Turning, Filling
<1>5. \A n \in LoadsOf(current) : n \in Nat
  BY DEF LoadsOf, Loads
<1>6. FilledOK'
  <2>1. \A n \in LoadsOf(current) : \A x \in UnitsOf(Segments[n]) :
          Passed(n, x)' => Passed(n, x)
    <3>1. \A x \in UnitsOf(Segments[s]) : x < vaddr
      BY <1>2 DEF UnitsOf, SegmentType
    <3>2. \A n \in LoadsOf(current) : n < s + 1 => n < s \/ n = s
      BY <1>1, <1>5
    <3> QED
      BY <1>1, <3>1, <3>2 DEF Passed, Turning
  <2>2. KeepsMapped
    BY <1>1 DEF KeepsMapped
  <2>3. pc' \notin Filling /\ vaddr' \in Nat
    BY <1>1, <1>2 DEF Filling
  <2> QED
    BY <1>1, <2>1, <2>2, <2>3, KeepFilled DEF LoaderInv
<1>7. OwnedOK'
  BY <1>1 DEF LoaderInv, OwnedOK, Mapped
<1>8. TheirsOnly'
  <2>1. SUFFICES ASSUME NEW p \in ProgramPages, Mapped(p)
                 PROVE  \E n \in LoadsOf(current) : n < s + 1 /\
                          \E x \in UnitsOf(Segments[n]) : PageOf(x) = p
    BY <1>1, SameProgram DEF TheirsOnly, Mapped
  <2>2. CASE \E n \in LoadsOf(current) : n < s /\ \E x \in UnitsOf(Segments[n]) : PageOf(x) = p
    BY <1>1, <1>5, <2>2
  <2>3. CASE \E m \in Turns(Segments[s]) : From(s, m) < vaddr /\ PageOf(From(s, m)) = p
    <3>1. PICK m \in Turns(Segments[s]) : PageOf(From(s, m)) = p
      BY <2>3
    <3>2. From(s, m) \in UnitsOf(Segments[s])
      <4>1. m \in Nat /\ m * CHUNK < Segments[s].memsz
        BY PageAssumption DEF Turns
      <4> QED
        BY <1>1, <1>2, <4>1, TurnIn
    <3> QED
      BY <1>1, <1>2, <3>1, <3>2
  <2> QED
    BY <1>1, <2>1, <2>2, <2>3 DEF LoaderInv, TheirsOnly, Turning, Filling
<1> QED
  BY <1>3, <1>4, <1>6, <1>7, <1>8 DEF LoaderInv

LEMMA CopyDoneStep ==
  ASSUME LoaderInv, CopyDone PROVE LoaderInv'
<1>1. /\ pc = "copy" /\ k = Part /\ pc' = "protect"
      /\ UNCHANGED <<modules, wp, arg, current, s, vaddr, offset, size, k, pages, cells, v_heap>>
      /\ Types
  BY DEF CopyDone, LoaderInv, load
<1>2. Types'
  BY <1>1 DEF Types
<1>3. TurnOK'
  BY <1>1, SameProgram DEF LoaderInv, TurnOK, Turning, Filling, Part
<1>4. OpenOK' /\ CopesOrFaults'
  BY <1>1, SameProgram DEF LoaderInv, OpenOK, CopesOrFaults, Filling, Mapped
<1>5. FilledOK'
  <2>1. \A n \in LoadsOf(current) : \A x \in UnitsOf(Segments[n]) :
          Passed(n, x)' => Passed(n, x)
    BY <1>1 DEF Passed, Turning
  <2>2. KeepsMapped
    BY <1>1 DEF KeepsMapped
  <2>3. vaddr' \in Nat /\ pc \in Filling /\ <<s, vaddr, k>>' = <<s, vaddr, k>>
    BY <1>1 DEF Filling, Types
  <2> QED
    BY <1>1, <2>1, <2>2, <2>3, KeepFilled DEF LoaderInv
<1>6. OwnedOK'
  BY <1>1 DEF LoaderInv, OwnedOK, Mapped
<1>7. TheirsOnly'
  BY <1>1, SameProgram DEF LoaderInv, TheirsOnly, Turning, Filling, Mapped
<1> QED
  BY <1>2, <1>3, <1>4, <1>5, <1>6, <1>7 DEF LoaderInv

LEMMA MapChunkStep ==
  ASSUME LoaderInv, MapChunk PROVE LoaderInv'
<1>1. PICK here : here = PageOf(vaddr)
  OBVIOUS
<1>2. /\ Map({here}, TRUE, TRUE, TRUE)
      /\ pc = "chunk" /\ size > 0 /\ pc' = "copy" /\ k' = 0
      /\ UNCHANGED <<modules, wp, arg, current, s, vaddr, offset, size, v_heap>>
      /\ Types
  BY <1>1 DEF MapChunk, MapPart, LoaderInv
<1>3. /\ \A p \in Pages : Mapped(p) \/ p # here => pages'[p] = pages[p]
      /\ \A p \in Pages : ~Mapped(p) /\ p = here =>
           /\ Mapped(p)'
           /\ pages'[p] = [user |-> TRUE, write |-> TRUE, exec |-> TRUE, by |-> current]
      /\ \A x \in Units : Mapped(PageOf(x)) \/ PageOf(x) # here => cells'[x] = cells[x]
      /\ \A x \in Units : ~Mapped(PageOf(x)) /\ PageOf(x) = here => cells'[x] = Clear
      /\ pages' \in [Pages -> Perms \cup {Absent}]
      /\ cells' \in [Units -> Holdings]
  <2>1. PICK P : P = {here}
    OBVIOUS
  <2>2. Map(P, TRUE, TRUE, TRUE) /\ Types
    BY <1>2, <2>1
  <2>3. /\ \A p \in Pages : Mapped(p) \/ p \notin P => pages'[p] = pages[p]
        /\ \A p \in Pages : ~Mapped(p) /\ p \in P =>
             /\ Mapped(p)'
             /\ pages'[p] = [user |-> TRUE, write |-> TRUE, exec |-> TRUE, by |-> current]
        /\ \A x \in Units : Mapped(PageOf(x)) \/ PageOf(x) \notin P => cells'[x] = cells[x]
        /\ \A x \in Units : ~Mapped(PageOf(x)) /\ PageOf(x) \in P => cells'[x] = Clear
        /\ pages' \in [Pages -> Perms \cup {Absent}]
        /\ cells' \in [Units -> Holdings]
    BY <2>2, MapEffect
  <2>4. \A p : p \in P <=> p = here
    BY <2>1
  <2> QED
    BY <2>3, <2>4
<1>4. /\ s \in LoadsOf(current) /\ vaddr \in UnitsOf(Segments[s])
      /\ size \in Nat /\ vaddr \in Nat
  <2>1. /\ s \in LoadsOf(current) /\ vaddr \in Nat /\ size \in Nat
        /\ \A d \in 0 .. size - 1 : vaddr + d \in UnitsOf(Segments[s])
    BY <1>2, InTurn DEF Turning
  <2>2. 0 \in 0 .. size - 1 /\ vaddr + 0 = vaddr
    BY <1>2, <2>1
  <2>3. vaddr + 0 \in UnitsOf(Segments[s])
    BY <2>1, <2>2
  <2> QED
    BY <2>1, <2>2, <2>3
<1>5. vaddr \in Units /\ here \in Pages /\ here \in ProgramPages
  BY <1>1, <1>2, <1>4, SegmentIs, ProgramPage
<1>6. Types'
  BY <1>2, <1>3 DEF Types
<1>7. TurnOK'
  <2>1. k' <= Part' /\ size' > 0
    BY <1>2, <1>4, PageAssumption DEF Part
  <2> QED
    BY <1>2, <2>1, SameProgram DEF LoaderInv, TurnOK, Turning, Filling
<1>8. FilledOK'
  <2>1. \A n \in LoadsOf(current) : \A x \in UnitsOf(Segments[n]) :
          Passed(n, x)' => Passed(n, x)
    BY <1>2 DEF Passed, Turning
  <2>2. KeepsMapped
    BY <1>3, ProgramPage DEF KeepsMapped
  <2>3. vaddr' \in Nat
    BY <1>2, <1>4
  <2> QED
    BY <1>2, <2>1, <2>2, <2>3, KeepFilled DEF LoaderInv
<1>9. Mapped(here)'
  BY <1>3, <1>5 DEF Mapped
<1>10. OpenOK'
  <2>1. CASE ~Mapped(here)
    <3>1. pages'[here].write
      BY <1>3, <1>5, <2>1
    <3> QED
      BY <1>1, <1>2, <1>9, <3>1 DEF OpenOK
  <2>2. CASE Mapped(here)
    <3>1. \/ \E n \in LoadsOf(current) :
               n < s /\ \E x \in UnitsOf(Segments[n]) : PageOf(x) = here
          \/ \E m \in Turns(Segments[s]) : From(s, m) < vaddr /\ PageOf(From(s, m)) = here
      BY <1>2, <1>5, <2>2 DEF LoaderInv, TheirsOnly, Turning, Filling
    <3>2. ASSUME NEW n \in LoadsOf(current), n < s, NEW x \in UnitsOf(Segments[n]),
                 PageOf(x) = here
          PROVE  FALSE
      <4>1. n # s
        BY <3>2 DEF LoadsOf, Loads
      <4> QED
        BY <1>1, <1>2, <1>4, <3>2, <4>1, SegmentsApart
    <3>3. PICK m \in Turns(Segments[s]) : From(s, m) < vaddr /\ PageOf(From(s, m)) = here
      BY <3>1, <3>2
    <3> QED
      BY <1>1, <1>2, <1>9, <3>3, SameProgram DEF OpenOK
  <2> QED
    BY <2>1, <2>2
<1>11. TheirsOnly'
  <2>1. SUFFICES ASSUME NEW p \in ProgramPages, Mapped(p)', p # here
                 PROVE  \/ \E n \in LoadsOf(current) :
                             n < s /\ \E x \in UnitsOf(Segments[n]) : PageOf(x) = p
                        \/ \E m \in Turns(Segments[s]) :
                             From(s, m) < vaddr /\ PageOf(From(s, m)) = p
    BY <1>1, <1>2, SameProgram DEF TheirsOnly, Turning, Filling
  <2>2. Mapped(p)
    BY <1>3, <2>1 DEF Mapped, Pages
  <2> QED
    BY <1>2, <2>1, <2>2 DEF LoaderInv, TheirsOnly, Turning, Filling
<1>12. OwnedOK'
  <2>1. \A p \in Pages : Mapped(p)' =>
          pages'[p].by = current' \/ (p = BootPage /\ current' = "init")
    <3> TAKE p \in Pages
    <3> HAVE Mapped(p)'
    <3>1. CASE ~Mapped(p) /\ p = here
      <4>1. pages'[p] = [user |-> TRUE, write |-> TRUE, exec |-> TRUE, by |-> current]
        BY <1>3, <3>1
      <4> QED
        BY <1>2, <4>1
    <3>2. CASE Mapped(p) \/ p # here
      <4>1. pages'[p] = pages[p] /\ Mapped(p)
        BY <1>3, <3>2 DEF Mapped
      <4> QED
        BY <1>2, <4>1 DEF LoaderInv, OwnedOK
    <3> QED
      BY <3>1, <3>2
  <2>2. \A x \in Units : Mapped(PageOf(x))' => cells'[x] = Clear \/ cells'[x][1] = current'
    <3> TAKE x \in Units
    <3> HAVE Mapped(PageOf(x))'
    <3>1. CASE ~Mapped(PageOf(x)) /\ PageOf(x) = here
      BY <1>3, <3>1
    <3>2. CASE Mapped(PageOf(x)) \/ PageOf(x) # here
      <4>1. cells'[x] = cells[x] /\ Mapped(PageOf(x))
        BY <1>3, <3>2, ProgramPage DEF Mapped
      <4> QED
        BY <1>2, <4>1 DEF LoaderInv, OwnedOK
    <3> QED
      BY <3>1, <3>2
  <2> QED
    BY <2>1, <2>2 DEF OwnedOK
<1>13. CopesOrFaults'
  BY <1>2 DEF CopesOrFaults
<1> QED
  BY <1>6, <1>7, <1>8, <1>10, <1>11, <1>12, <1>13 DEF LoaderInv

\* A unit that the copy reaches is on the page that was opened for it, or on
\* none.
LEMMA CopyReaches ==
  ASSUME LoaderInv, pc = "copy", k < Part
  PROVE  /\ s \in LoadsOf(current) /\ k \in Nat /\ vaddr \in Nat /\ Part \in Nat
         /\ vaddr + k \in UnitsOf(Segments[s]) /\ vaddr + k \in Units
         /\ Mapped(PageOf(vaddr + k)) => PageOf(vaddr + k) = PageOf(vaddr)
<1>1. Types /\ k \in Nat
  BY DEF LoaderInv, Types
<1>2. /\ s \in LoadsOf(current) /\ vaddr \in Nat /\ size \in Nat
      /\ \A d \in 0 .. size - 1 : vaddr + d \in UnitsOf(Segments[s])
  BY InTurn DEF Turning
<1>3. Part \in Nat /\ Part <= size
  BY <1>2, PageAssumption DEF Part
<1>4. k \in 0 .. size - 1
  BY <1>1, <1>2, <1>3
<1>5. PICK x : x = vaddr + k
  OBVIOUS
<1>6. x \in UnitsOf(Segments[s]) /\ x \in Units /\ x \in Nat /\ vaddr <= x
  BY <1>1, <1>2, <1>4, <1>5, SegmentIs
<1>7. ASSUME Mapped(PageOf(x)) PROVE PageOf(x) = PageOf(vaddr)
  <2>1. PageOf(x) \in ProgramPages
    BY <1>6, ProgramPage
  <2>2. \/ \E n \in LoadsOf(current) : n < s /\ \E y \in UnitsOf(Segments[n]) : PageOf(y) = PageOf(x)
        \/ \E m \in Turns(Segments[s]) : From(s, m) < vaddr /\ PageOf(From(s, m)) = PageOf(x)
        \/ PageOf(vaddr) = PageOf(x)
    BY <1>7, <2>1 DEF LoaderInv, TheirsOnly, Turning, Filling
  <2>3. ASSUME NEW n \in LoadsOf(current), n < s, NEW y \in UnitsOf(Segments[n]),
               PageOf(y) = PageOf(x)
        PROVE  FALSE
    <3>1. n # s
      BY <2>3 DEF LoadsOf, Loads
    <3> QED
      BY <1>1, <1>2, <1>6, <2>3, <3>1, SegmentsApart
  <2>4. ASSUME NEW m \in Turns(Segments[s]), From(s, m) < vaddr, PageOf(From(s, m)) = PageOf(x)
        PROVE  PageOf(x) = PageOf(vaddr)
    <3>1. PICK y \in Nat : y = From(s, m)
      <4>1. m \in Nat /\ m * CHUNK < Segments[s].memsz
        BY PageAssumption DEF Turns
      <4> QED
        BY <1>1, <1>2, <4>1, TurnIn
    <3>2. y <= vaddr
      BY <1>2, <2>4, <3>1
    <3>3. PageOf(y) <= PageOf(vaddr) /\ PageOf(vaddr) <= PageOf(x) /\ PageOf(y) = PageOf(x)
      BY <1>2, <1>6, <2>4, <3>1, <3>2, PageBetween
    <3>4. PageOf(x) \in Nat /\ PageOf(vaddr) \in Nat
      BY <1>2, <1>6, PageBetween
    <3> QED
      BY <3>3, <3>4
  <2> QED
    BY <2>2, <2>3, <2>4
<1> QED
  BY <1>1, <1>2, <1>3, <1>5, <1>6, <1>7

\* The copy faults only where a program does that the loader cannot cope with.
LEMMA FaultIsItsOwn ==
  ASSUME LoaderInv, pc = "copy", k < Part, ~Writable(vaddr + k)
  PROVE  ~Copes(current)
<1> SUFFICES ASSUME Copes(current) PROVE FALSE
  OBVIOUS
<1>1. /\ Types /\ s \in LoadsOf(current) /\ k \in Nat /\ vaddr \in Nat /\ Part \in Nat
  BY CopyReaches DEF LoaderInv
<1>2. size \in Nat /\ size > 0
  BY InTurn DEF LoaderInv, TurnOK, Turning, Filling
<1>3. PICK m \in Turns(Segments[s]) : vaddr = From(s, m) /\ size + m * CHUNK = Segments[s].memsz
  BY <1>2, InTurn DEF Turning
<1>4. Fits(Segments[s]) /\ (wp => Segments[s].write \/ OnceAPage(Segments[s]))
  BY <1>1 DEF Copes, Segments
<1>5. PageOf(vaddr + k) = PageOf(vaddr)
  <2>1. PICK rest \in Nat : rest = Segments[s].memsz - m * CHUNK /\ rest = size
    <3>1. m * CHUNK \in Nat
      BY PageAssumption DEF Turns
    <3> QED
      BY <1>2, <1>3, <3>1
  <2>2. (vaddr % PAGE) + (IF rest < CHUNK THEN rest ELSE CHUNK) <= PAGE
    BY <1>3, <1>4, <2>1 DEF Fits, From
  <2>3. (vaddr % PAGE) + Part <= PAGE
    BY <2>1, <2>2 DEF Part
  <2>4. PICK r \in Nat : r = vaddr % PAGE
    BY <1>1, PageAssumption
  <2>5. r + k < PAGE
    BY <1>1, <2>3, <2>4, PageAssumption
  <2> QED
    BY <1>1, <2>4, <2>5, SamePage
<1>6. Mapped(PageOf(vaddr)) /\ wp /\ ~pages[PageOf(vaddr)].write
  BY <1>5 DEF Writable, LoaderInv, OpenOK, Filling
<1>7. PICK j \in Turns(Segments[s]) : From(s, j) < vaddr /\ PageOf(From(s, j)) = PageOf(vaddr)
  BY <1>6 DEF LoaderInv, OpenOK, Filling
<1>8. From(s, j) \in UnitsOf(Segments[s])
  <2>1. j \in Nat /\ j * CHUNK < Segments[s].memsz
    BY PageAssumption DEF Turns
  <2> QED
    BY <1>1, <2>1, TurnIn
<1>9. Permitted(s, PageOf(vaddr))
  <2>1. Passed(s, From(s, j))
    BY <1>7 DEF Passed, Turning
  <2> QED
    BY <1>1, <1>7, <1>8, <2>1 DEF LoaderInv, FilledOK
<1>10. ~Segments[s].write
  BY <1>6, <1>9 DEF Permitted
<1>11. OnceAPage(Segments[s])
  BY <1>4, <1>6, <1>10
<1>12. j = m
  BY <1>3, <1>7, <1>11 DEF OnceAPage, From
<1> QED
  BY <1>1, <1>3, <1>7, <1>12

LEMMA CopyUnitStep ==
  ASSUME LoaderInv, CopyUnit PROVE LoaderInv'
<1>1. /\ pc = "copy" /\ k < Part
      /\ UNCHANGED <<modules, wp, arg, current, s, vaddr, offset, size, pages, v_heap>>
      /\ Types
  BY DEF CopyUnit, LoaderInv
<1>2. /\ s \in LoadsOf(current) /\ k \in Nat /\ vaddr \in Nat /\ Part \in Nat
      /\ vaddr + k \in UnitsOf(Segments[s]) /\ vaddr + k \in Units
      /\ Mapped(PageOf(vaddr + k)) => PageOf(vaddr + k) = PageOf(vaddr)
  BY <1>1, CopyReaches
<1>3. /\ Segments[s] \in SegmentType /\ vaddr >= Segments[s].vaddr
      /\ offset = Segments[s].offset + (vaddr - Segments[s].vaddr)
      /\ Segments[s].vaddr \in Nat /\ Segments[s].offset \in Nat
  BY <1>1, InTurn DEF Turning, SegmentType
<1>4. CASE ~Writable(vaddr + k)
  <2>1. pc' = "faulted" /\ cells' = cells /\ k' = k
    BY <1>4 DEF CopyUnit
  <2>2. Types'
    BY <1>1, <2>1 DEF Types
  <2>3. TurnOK' /\ OpenOK' /\ TheirsOnly'
    BY <2>1 DEF TurnOK, OpenOK, TheirsOnly, Turning, Filling
  <2>4. CopesOrFaults'
    <3>1. ~Copes(current)
      BY <1>1, <1>4, FaultIsItsOwn
    <3>2. modules' = modules /\ current' = current /\ wp' = wp
      BY <1>1
    <3> QED
      BY <3>1, <3>2 DEF CopesOrFaults, Copes, LoadsOf
  <2>5. FilledOK'
    <3>1. \A n \in LoadsOf(current) : \A x \in UnitsOf(Segments[n]) :
            Passed(n, x)' => Passed(n, x)
      BY <1>1, <2>1 DEF Passed, Turning
    <3>2. KeepsMapped
      BY <1>1, <2>1 DEF KeepsMapped
    <3>3. pc' \notin Filling /\ vaddr' \in Nat
      BY <1>1, <1>2, <2>1 DEF Filling
    <3> QED
      BY <1>1, <3>1, <3>2, <3>3, KeepFilled DEF LoaderInv
  <2>6. OwnedOK'
    BY <1>1, <2>1 DEF LoaderInv, OwnedOK, Mapped
  <2> QED
    BY <2>2, <2>3, <2>4, <2>5, <2>6 DEF LoaderInv
<1>5. CASE Writable(vaddr + k)
  <2>1. PICK at \in Units : at = vaddr + k
    BY <1>2
  <2>2. PICK file : file = File(current, offset + k)
    OBVIOUS
  <2>3. /\ pc' = "copy" /\ k' = k + 1
        /\ cells' = [cells EXCEPT ![at] = file]
    BY <1>1, <1>5, <2>1, <2>2 DEF CopyUnit
  <2>4. file \in Holdings /\ file[1] = current
    BY <1>1, <1>2, <2>2 DEF File, Holdings, Types
  <2>5. /\ cells' \in [Units -> Holdings] /\ cells'[at] = file
        /\ \A x \in Units \ {at} : cells'[x] = cells[x]
    BY <1>1, <2>3, <2>4 DEF Types
  <2>6. Mapped(PageOf(at)) /\ PageOf(at) = PageOf(vaddr)
    BY <1>2, <1>5, <2>1 DEF Writable
  <2>7. Types'
    BY <1>1, <1>2, <2>3, <2>5 DEF Types
  <2>8. TurnOK'
    <3>1. k' <= Part' /\ size' > 0
      BY <1>1, <1>2, <2>3 DEF Part, LoaderInv, TurnOK, Filling
    <3> QED
      BY <1>1, <2>3, <3>1, SameProgram DEF LoaderInv, TurnOK, Turning, Filling
  <2>9. OpenOK' /\ TheirsOnly' /\ CopesOrFaults'
    BY <1>1, <2>3, SameProgram
       DEF LoaderInv, OpenOK, TheirsOnly, CopesOrFaults, Turning, Filling, Mapped
  <2>10. OwnedOK'
    <3>1. \A x \in Units : Mapped(PageOf(x)) => cells'[x] = Clear \/ cells'[x][1] = current
      BY <2>4, <2>5 DEF LoaderInv, OwnedOK
    <3>2. pages' = pages /\ current' = current
      BY <1>1
    <3>3. \A p \in Pages : Mapped(p) => pages[p].by = current \/ (p = BootPage /\ current = "init")
      BY DEF LoaderInv, OwnedOK
    <3> QED
      BY <3>1, <3>2, <3>3 DEF OwnedOK, Mapped
  <2>11. FilledOK'
    <3>1. SUFFICES ASSUME NEW n \in LoadsOf(current), NEW x \in UnitsOf(Segments[n])
                   PROVE  /\ Passed(n, x)' => Permitted(n, PageOf(x))' /\ Filled(n, x)'
                          /\ Open(n, x)' => PageOf(x) = PageOf(vaddr') /\ Filled(n, x)'
      BY <1>1, SameProgram DEF FilledOK
    <3>2. x \in Units /\ x \in Nat
      BY <1>1, SegmentIs, ProgramPage
    <3>3. x = at => n = s
      BY <1>1, <1>2, <2>1, SegmentsApart
    <3>4. ASSUME x = at PROVE Filled(n, x)'
      <4>1. file = File(current, Segments[n].offset + (x - Segments[n].vaddr))
        <5>1. offset + k = Segments[s].offset + ((vaddr + k) - Segments[s].vaddr)
          BY <1>2, <1>3
        <5> QED
          BY <2>1, <2>2, <3>3, <3>4, <5>1
      <4> QED
        BY <1>1, <2>5, <3>4, <4>1, SameProgram DEF Filled
    <3>5. ASSUME x # at, Filled(n, x) PROVE Filled(n, x)'
      BY <1>1, <2>5, <3>2, <3>5, SameProgram
    <3>6. ASSUME Passed(n, x)' PROVE Permitted(n, PageOf(x))' /\ Filled(n, x)'
      <4>1. Passed(n, x)
        BY <1>1, <2>3, <3>6 DEF Passed, Turning
      <4>2. Permitted(n, PageOf(x)) /\ Filled(n, x)
        BY <4>1 DEF LoaderInv, FilledOK
      <4> QED
        BY <1>1, <3>4, <3>5, <4>2, SameProgram
    <3>7. ASSUME Open(n, x)' PROVE PageOf(x) = PageOf(vaddr') /\ Filled(n, x)'
      <4>1. n = s /\ vaddr <= x /\ x < vaddr + (k + 1)
        BY <1>1, <2>3, <3>7 DEF Open
      <4>2. CASE x = at
        BY <1>1, <2>6, <3>4, <4>2
      <4>3. CASE x # at
        <5>1. x < vaddr + k
          BY <1>2, <2>1, <3>2, <4>1, <4>3
        <5>2. Open(n, x)
          BY <1>1, <4>1, <5>1 DEF Open, Filling
        <5>3. PageOf(x) = PageOf(vaddr) /\ Filled(n, x)
          BY <5>2 DEF LoaderInv, FilledOK
        <5> QED
          BY <1>1, <3>5, <4>3, <5>3
      <4> QED
        BY <4>2, <4>3
    <3> QED
      BY <3>6, <3>7
  <2> QED
    BY <2>7, <2>8, <2>9, <2>10, <2>11 DEF LoaderInv
<1> QED
  BY <1>4, <1>5

LEMMA ProtectChunkStep ==
  ASSUME LoaderInv, ProtectChunk PROVE LoaderInv'
<1>1. /\ pc = "protect" /\ k = Part /\ size > 0
      /\ UNCHANGED <<modules, wp, arg, current, k, cells, v_heap>>
      /\ Types
  BY DEF ProtectChunk, LoaderInv, TurnOK, Filling
<1>2. /\ s \in LoadsOf(current) /\ Segments[s] \in SegmentType
      /\ vaddr \in Nat /\ size \in Nat /\ offset \in Nat
      /\ vaddr + size = Segments[s].vaddr + Segments[s].memsz
      /\ \A d \in 0 .. size - 1 : vaddr + d \in UnitsOf(Segments[s])
  BY <1>1, InTurn DEF Turning
<1>3. PICK m \in Turns(Segments[s]) : vaddr = From(s, m) /\ size + m * CHUNK = Segments[s].memsz
  BY <1>1, InTurn DEF Turning
<1>4. vaddr \in UnitsOf(Segments[s])
  <2>1. 0 \in 0 .. size - 1 /\ vaddr + 0 = vaddr
    BY <1>1, <1>2
  <2> QED
    BY <1>2, <2>1
<1>5. PICK here \in Pages : here = PageOf(vaddr) /\ Mapped(here)
  <2>1. PageOf(vaddr) \in Pages
    BY <1>1, <1>2, <1>4, SegmentIs, ProgramPage
  <2>2. Mapped(PageOf(vaddr))
    BY <1>1 DEF LoaderInv, OpenOK, Filling
  <2> QED
    BY <2>1, <2>2
<1>6. PICK new : new = [user |-> Segments[s].read, write |-> Segments[s].write,
                        exec |-> Segments[s].exec, by |-> pages[here].by]
  OBVIOUS
<1>7. new \in Perms /\ new # Absent /\ pages[here] \in Perms
  <2>1. pages[here] \in Perms
    BY <1>1, <1>5 DEF Types, Mapped
  <2>2. pages[here].by \in Names \cup {"boot"}
    BY <2>1 DEF Perms
  <2>3. new \in Perms
    BY <1>2, <1>6, <2>2 DEF Perms, SegmentType
  <2>4. new.by # "nobody" /\ Absent.by = "nobody"
    BY <1>6, <2>2, NamesAssumption DEF Absent
  <2> QED
    BY <2>1, <2>3, <2>4
<1>8. /\ pages' \in [Pages -> Perms \cup {Absent}] /\ pages'[here] = new
      /\ \A p \in Pages \ {here} : pages'[p] = pages[p]
  <2>1. pages' = [pages EXCEPT ![here] = new]
    BY <1>5, <1>6 DEF ProtectChunk
  <2> QED
    BY <1>1, <1>7, <2>1 DEF Types
<1>9. \A p \in Pages : Mapped(p)' <=> Mapped(p)
  BY <1>5, <1>7, <1>8 DEF Mapped
<1>c. PICK c \in LoadsOf(current) : c = s
  BY <1>2
<1>10. Permitted(c, here)'
  <2>1. new.user = Segments[s].read /\ new.write = Segments[s].write /\ new.exec = Segments[s].exec
    BY <1>6
  <2> QED
    BY <1>1, <1>5, <1>8, <1>9, <1>c, <2>1, SameProgram DEF Permitted
\* A unit of the segment that the loop has passed or filled, and one of
\* another segment
<1>11. ASSUME NEW x \in UnitsOf(Segments[c]), x < vaddr + Part
       PROVE  Permitted(c, PageOf(x))' /\ Filled(c, x)'
  <2>1. x \in Units /\ x \in Nat /\ PageOf(x) \in Pages
    BY <1>1, <1>c, SegmentIs, ProgramPage
  <2>2. CASE x < vaddr
    <3>1. Passed(c, x)
      BY <1>1, <1>c, <2>2 DEF Passed, Turning
    <3>2. Permitted(c, PageOf(x)) /\ Filled(c, x)
      BY <3>1 DEF LoaderInv, FilledOK
    <3>3. Filled(c, x)'
      BY <1>1, <3>2, SameProgram
    <3>4. CASE PageOf(x) = here
      BY <1>10, <3>3, <3>4
    <3>5. CASE PageOf(x) # here
      <4>1. pages'[PageOf(x)] = pages[PageOf(x)]
        BY <1>8, <2>1, <3>5
      <4> QED
        BY <1>1, <3>2, <3>3, <4>1, SameProgram
    <3> QED
      BY <3>4, <3>5
  <2>3. CASE vaddr <= x
    <3>1. Open(c, x)
      BY <1>1, <1>11, <1>c, <2>3 DEF Open, Filling
    <3>2. PageOf(x) = here /\ Filled(c, x)
      BY <1>5, <3>1 DEF LoaderInv, FilledOK
    <3> QED
      BY <1>1, <1>10, <3>2, SameProgram
  <2> QED
    BY <1>2, <2>1, <2>2, <2>3
<1>12. ASSUME NEW n \in LoadsOf(current), n < s, NEW x \in UnitsOf(Segments[n])
       PROVE  Permitted(n, PageOf(x))' /\ Filled(n, x)'
  <2>1. Permitted(n, PageOf(x)) /\ Filled(n, x)
    BY <1>12 DEF LoaderInv, FilledOK, Passed
  <2>2. PageOf(x) \in Pages
    BY <1>1, <1>12, SegmentIs, ProgramPage
  <2>3. n # s
    BY <1>12 DEF LoadsOf, Loads
  <2>4. PageOf(x) # here
    BY <1>1, <1>2, <1>4, <1>5, <2>3, SegmentsApart
  <2>5. pages'[PageOf(x)] = pages[PageOf(x)]
    BY <1>8, <2>2, <2>4
  <2> QED
    BY <1>1, <2>1, <2>5, SameProgram
<1>13. OwnedOK'
  <2>1. new.by = pages[here].by
    BY <1>6
  <2>2. \A p \in Pages : Mapped(p)' =>
          pages'[p].by = current' \/ (p = BootPage /\ current' = "init")
    <3> TAKE p \in Pages
    <3> HAVE Mapped(p)'
    <3>1. Mapped(p) /\ pages'[p].by = pages[p].by
      BY <1>5, <1>8, <1>9, <2>1
    <3> QED
      BY <1>1, <3>1 DEF LoaderInv, OwnedOK
  <2>3. \A x \in Units : Mapped(PageOf(x))' => cells'[x] = Clear \/ cells'[x][1] = current'
    <3> TAKE x \in Units
    <3> HAVE Mapped(PageOf(x))'
    <3>1. Mapped(PageOf(x)) /\ cells' = cells /\ current' = current
      BY <1>1, <1>9, ProgramPage
    <3> QED
      BY <3>1 DEF LoaderInv, OwnedOK
  <2> QED
    BY <2>2, <2>3 DEF OwnedOK
<1>14. CopesOrFaults' /\ OpenOK'
  BY DEF ProtectChunk, CopesOrFaults, OpenOK, Filling
<1>15. \A n \in LoadsOf(current) : n \in Nat
  BY DEF LoadsOf, Loads
<1>16. s \in Nat \ {0}
  BY <1>1 DEF Types
<1>17. \A p \in ProgramPages : Mapped(p)' =>
         \/ \E n \in LoadsOf(current) : n < s /\ \E x \in UnitsOf(Segments[n]) : PageOf(x) = p
         \/ \E j \in Turns(Segments[s]) : From(s, j) <= vaddr /\ PageOf(From(s, j)) = p
  <2> TAKE p \in ProgramPages
  <2> HAVE Mapped(p)'
  <2>1. Mapped(p)
    BY <1>9 DEF Pages
  <2>2. CASE PageOf(vaddr) = p
    BY <1>2, <1>3, <2>2
  <2>3. CASE \E j \in Turns(Segments[s]) : From(s, j) < vaddr /\ PageOf(From(s, j)) = p
    <3>1. PICK j \in Turns(Segments[s]) : From(s, j) < vaddr /\ PageOf(From(s, j)) = p
      BY <2>3
    <3>2. From(s, j) \in Nat
      <4>1. j \in Nat /\ j * CHUNK < Segments[s].memsz
        BY PageAssumption DEF Turns
      <4> QED
        BY <1>1, <1>2, <4>1, TurnIn
    <3>3. From(s, j) <= vaddr
      BY <1>2, <3>1, <3>2
    <3> QED
      BY <3>1, <3>3
  <2> QED
    BY <1>1, <2>1, <2>2, <2>3 DEF LoaderInv, TheirsOnly, Turning, Filling
<1>18. CASE LastPart
  <2>1. /\ s' = s + 1 /\ pc' = "segment" /\ UNCHANGED <<vaddr, offset, size>>
        /\ Part = size
    BY <1>18 DEF ProtectChunk, LastPart, Part
  <2>2. Types'
    BY <1>1, <1>8, <1>16, <2>1 DEF Types
  <2>3. TurnOK'
    BY <2>1 DEF TurnOK, Turning, Filling
  <2>4. \A n \in LoadsOf(current) : n < s + 1 => n < s \/ n = s
    BY <1>15, <1>16
  <2>5. \A x \in UnitsOf(Segments[s]) : x < vaddr + Part
    BY <1>2, <2>1 DEF UnitsOf, SegmentType
  <2>6. FilledOK'
    <3>1. SUFFICES ASSUME NEW n \in LoadsOf(current), NEW x \in UnitsOf(Segments[n]), n < s + 1
                   PROVE  Permitted(n, PageOf(x))' /\ Filled(n, x)'
      BY <1>1, <1>15, <1>16, <2>1, SameProgram DEF FilledOK, Passed, Open, Turning, Filling
    <3> QED
      BY <1>11, <1>12, <1>c, <2>4, <2>5, <3>1
  <2>7. TheirsOnly'
    <3>1. SUFFICES ASSUME NEW p \in ProgramPages, Mapped(p)'
                   PROVE  \E n \in LoadsOf(current) : n < s + 1 /\
                            \E x \in UnitsOf(Segments[n]) : PageOf(x) = p
      BY <1>1, <2>1, SameProgram DEF TheirsOnly
    <3>2. CASE \E n \in LoadsOf(current) : n < s /\ \E x \in UnitsOf(Segments[n]) : PageOf(x) = p
      BY <1>15, <1>16, <3>2
    <3>3. CASE \E j \in Turns(Segments[s]) : From(s, j) <= vaddr /\ PageOf(From(s, j)) = p
      <4>1. PICK j \in Turns(Segments[s]) : PageOf(From(s, j)) = p
        BY <3>3
      <4>2. From(s, j) \in UnitsOf(Segments[s])
        <5>1. j \in Nat /\ j * CHUNK < Segments[s].memsz
          BY PageAssumption DEF Turns
        <5> QED
          BY <1>1, <1>2, <5>1, TurnIn
      <4>3. s < s + 1
        BY <1>16
      <4> QED
        BY <1>2, <4>1, <4>2, <4>3
    <3> QED
      BY <1>17, <3>1, <3>2, <3>3
  <2> QED
    BY <1>13, <1>14, <2>2, <2>3, <2>6, <2>7 DEF LoaderInv
<1>19. CASE ~LastPart
  <2>1. /\ vaddr' = vaddr + CHUNK /\ offset' = offset + CHUNK /\ size' = size - CHUNK
        /\ pc' = "chunk" /\ s' = s /\ Part = CHUNK /\ size >= CHUNK
    BY <1>2, <1>19, PageAssumption DEF ProtectChunk, LastPart, Part, NextOffset
  <2>2. vaddr' \in Nat /\ offset' \in Nat /\ size' \in Nat
    BY <1>2, <2>1, PageAssumption
  <2>3. Types'
    BY <1>1, <1>8, <2>1, <2>2 DEF Types
  <2>4. TurnOK'
    <3>1. PICK j \in 0 .. MaxUnit :
            /\ vaddr = From(s, j)
            /\ offset = Segments[s].offset + j * CHUNK
            /\ size + j * CHUNK = Segments[s].memsz
      BY <1>1 DEF LoaderInv, TurnOK, Turning
    <3>2. PICK t \in Nat : t = j * CHUNK /\ j \in Nat /\ (j + 1) * CHUNK = t + CHUNK
      BY PageAssumption
    <3>3. PICK a \in Nat, o \in Nat, z \in Nat :
            a = Segments[s].vaddr /\ o = Segments[s].offset /\ z = Segments[s].memsz
      BY <1>2 DEF SegmentType
    <3>4. vaddr = a + t /\ offset = o + t /\ size + t = z
      BY <3>1, <3>2, <3>3 DEF From
    <3>5. vaddr' = a + (t + CHUNK) /\ offset' = o + (t + CHUNK) /\ size' + (t + CHUNK) = z
      BY <1>2, <2>1, <3>2, <3>4, PageAssumption
    <3>6. vaddr' = From(s, j + 1) /\ offset' = Segments[s].offset + (j + 1) * CHUNK
          /\ size' + (j + 1) * CHUNK = Segments[s].memsz
      BY <3>2, <3>3, <3>5 DEF From
    <3>7. j + 1 \in 0 .. MaxUnit
      <4>1. j \in Turns(Segments[s])
        <5>1. j * CHUNK < Segments[s].memsz
          BY <1>1, <1>2, <3>2, <3>3, <3>4
        <5> QED
          BY <1>1, <1>2, <3>2, <5>1, TurnIn
      <4>2. PICK last \in Units : last = a + z - 1
        <5>1. a + z - 1 \in UnitsOf(Segments[s])
          BY <1>1, <1>2, <3>2, <3>3, <3>4 DEF UnitsOf
        <5> QED
          BY <1>1, <1>2, <5>1, SegmentIs
      <4>3. z <= MaxUnit
        BY <3>3, <4>2, PageAssumption DEF Units
      <4>4. j <= t
        BY <3>2, PageAssumption
      <4>5. t < z
        BY <1>1, <1>2, <3>2, <3>3, <3>4
      <4> QED
        BY <3>2, <3>3, <4>3, <4>4, <4>5, PageAssumption
    <3> QED
      BY <1>1, <1>2, <2>1, <3>6, <3>7, SameProgram DEF TurnOK, Turning, Filling
  <2>5. FilledOK'
    <3>1. SUFFICES ASSUME NEW n \in LoadsOf(current), NEW x \in UnitsOf(Segments[n]),
                          n < s \/ (n = s /\ x < vaddr + CHUNK)
                   PROVE  Permitted(n, PageOf(x))' /\ Filled(n, x)'
      BY <1>1, <2>1, SameProgram DEF FilledOK, Passed, Open, Turning, Filling
    <3> QED
      BY <1>11, <1>12, <1>c, <2>1, <3>1
  <2>6. TheirsOnly'
    <3>1. SUFFICES ASSUME NEW p \in ProgramPages, Mapped(p)'
                   PROVE  \/ \E n \in LoadsOf(current) :
                               n < s /\ \E x \in UnitsOf(Segments[n]) : PageOf(x) = p
                          \/ \E j \in Turns(Segments[s]) :
                               From(s, j) < vaddr + CHUNK /\ PageOf(From(s, j)) = p
      BY <1>1, <2>1, SameProgram DEF TheirsOnly, Turning
    <3>2. CASE \E j \in Turns(Segments[s]) : From(s, j) <= vaddr /\ PageOf(From(s, j)) = p
      <4>1. PICK j \in Turns(Segments[s]) : From(s, j) <= vaddr /\ PageOf(From(s, j)) = p
        BY <3>2
      <4>2. PICK y \in Nat : y = From(s, j)
        <5>1. j \in Nat /\ j * CHUNK < Segments[s].memsz
          BY PageAssumption DEF Turns
        <5> QED
          BY <1>1, <1>2, <5>1, TurnIn
      <4>3. y < vaddr + CHUNK
        BY <1>2, <4>1, <4>2, PageAssumption
      <4> QED
        BY <4>1, <4>2, <4>3
    <3> QED
      BY <1>17, <3>1, <3>2
  <2> QED
    BY <1>13, <1>14, <2>3, <2>4, <2>5, <2>6 DEF LoaderInv
<1> QED
  BY <1>18, <1>19

-----------------------------------------------------------------------------
LEMMA LoaderInit == Init => LoaderInv
<1> SUFFICES ASSUME Init PROVE LoaderInv
  OBVIOUS
<1>1. PICK boot : boot = [user |-> TRUE, write |-> TRUE, exec |-> TRUE, by |-> "boot"]
  OBVIOUS
<1>2. boot \in Perms /\ boot.by = "boot" /\ boot # Absent
  <2>1. Absent.by = "nobody" /\ boot.by = "boot"
    BY <1>1 DEF Absent
  <2> QED
    BY <1>1, <2>1 DEF Perms
<1>3. pages = [p \in Pages |-> IF p = BootPage THEN boot ELSE Absent]
  BY <1>1 DEF Init
<1>4. \A p \in Pages : Mapped(p) <=> p = BootPage
  BY <1>2, <1>3 DEF Mapped
<1>5. Types
  <2>1. pages \in [Pages -> Perms \cup {Absent}]
    BY <1>2, <1>3
  <2>2. cells \in [Units -> Holdings]
    BY DEF Init, Holdings
  <2> QED
    BY <2>1, <2>2, NamesAssumption DEF Init, Types
<1>6. TurnOK /\ OpenOK /\ CopesOrFaults
  BY DEF Init, TurnOK, OpenOK, CopesOrFaults, Turning, Filling
<1>7. \A p \in ProgramPages : ~Mapped(p)
  <2> TAKE p \in ProgramPages
  <2>1. p \in Pages
    BY DEF Pages
  <2>2. p # BootPage
    <3>1. MaxUnit \div PAGE \in Nat
      BY PageAssumption
    <3> QED
      BY <3>1, AddressAssumption DEF ProgramPages, BootPage
  <2> QED
    BY <1>4, <2>1, <2>2
<1>8. FilledOK /\ TheirsOnly
  <2>1. \A n \in LoadsOf(current) : n \in Nat /\ n >= 1
    BY DEF LoadsOf, Loads
  <2>2. FilledOK
    BY <2>1 DEF Init, FilledOK, Passed, Open, Turning, Filling
  <2> QED
    BY <1>7, <2>2 DEF TheirsOnly
<1>9. OwnedOK
  BY <1>4, <1>7, ProgramPage DEF Init, OwnedOK
<1> QED
  BY <1>5, <1>6, <1>8, <1>9 DEF LoaderInv

LEMMA LoaderNext == LoaderInv /\ [Next]_vars => LoaderInv'
<1> SUFFICES ASSUME LoaderInv, [Next]_vars PROVE LoaderInv'
  OBVIOUS
<1>1. Types
  BY DEF LoaderInv
<1>2. ASSUME NEW name \in Names \cup {"none"}, Exec(name) PROVE LoaderInv'
  <2>1. Types' /\ UNCHANGED <<modules, wp, current, load, pages, cells>>
        /\ pc \notin Turning /\ pc' = "check" /\ s > Len(Segments)
    BY <1>1, <1>2 DEF Exec, Types, load, Turning, LoaderInv, TurnOK
  <2> QED
    BY <2>1, QuietStep
<1>3. CASE Exit
  <2>1. Types' /\ UNCHANGED <<modules, wp, current, load, pages, cells>>
        /\ pc \notin Turning /\ pc' = "unmap"
    BY <1>1, <1>3, NamesAssumption DEF Exit, Types, load, Turning
  <2> QED
    BY <2>1, QuietStep
<1>4. CASE CheckMod
  <2>1. Types' /\ UNCHANGED <<modules, wp, current, load, pages, cells>>
        /\ pc \notin Turning /\ pc' \in {"user", "unmap"} /\ s > Len(Segments)
    BY <1>1, <1>4 DEF CheckMod, Types, load, Turning, LoaderInv, TurnOK
  <2> QED
    BY <2>1, QuietStep
<1>5. CASE LoadDone
  <2>1. Types' /\ UNCHANGED <<modules, wp, current, load, pages, cells>>
        /\ pc \notin Turning /\ pc' = "stack" /\ s > Len(Segments)
    BY <1>1, <1>5 DEF LoadDone, Types, load, Turning
  <2> QED
    BY <2>1, QuietStep
<1>6. CASE UNCHANGED vars
  BY <1>6
     DEF vars, LoaderInv, Types, TurnOK, FilledOK, OpenOK, TheirsOnly, OwnedOK, CopesOrFaults,
         Segments, LoadsOf, Copes, From, Part, Passed, Open, Permitted, Filled, Mapped
<1> QED
  BY <1>2, <1>3, <1>4, <1>5, <1>6, MmapStep, UnmapLowerHalfStep, SkipSegmentStep,
     StartSegmentStep, MapChunkStep, SegmentDoneStep, CopyUnitStep, CopyDoneStep,
     ProtectChunkStep, StartStep
     DEF Next, LoadStep

(***************************************************************************)
(* The inductive invariant of the loader: wherever its loops are, what     *)
(* they have passed is in place.                                           *)
(***************************************************************************)
THEOREM LoaderInvariant == Spec => []LoaderInv
  BY LoaderInit, LoaderNext, PTL DEF Spec

(***************************************************************************)
(* execute_mod (proc.c:30-100) faults with no program that it can cope     *)
(* with: one no turn of whose loop reaches into the next page, and none of *)
(* whose read-only pages takes two turns if the kernel must respect them.  *)
(***************************************************************************)
THEOREM LoaderCopes == Spec => []CopesOrFaults
  BY LoaderInvariant, PTL DEF LoaderInv

(***************************************************************************)
(* A program that runs is all there, each unit of its segments on a page   *)
(* with the segment's permissions (proc.c:45-85), also after an exec that  *)
(* failed.                                                                 *)
(***************************************************************************)
THEOREM LoaderProgramWhole == Spec => []ProgramWhole
<1>1. LoaderInv => ProgramWhole
  <2> SUFFICES ASSUME LoaderInv, pc = "user", NEW n \in LoadsOf(current),
                      NEW u \in 0 .. Segments[n].memsz - 1
               PROVE  /\ Mapped(PageOf(Segments[n].vaddr + u))
                      /\ cells[Segments[n].vaddr + u] = File(current, Segments[n].offset + u)
                      /\ LET p == pages[PageOf(Segments[n].vaddr + u)]
                         IN  <<p.user, p.write, p.exec>> =
                               <<Segments[n].read, Segments[n].write, Segments[n].exec>>
    BY DEF ProgramWhole
  <2>1. PICK seg \in SegmentType : seg = Segments[n]
    BY SegmentIs DEF LoaderInv
  <2>2. PICK x : x = seg.vaddr + u
    OBVIOUS
  <2>3. x \in UnitsOf(seg) /\ x - seg.vaddr = u
    BY <2>1, <2>2 DEF UnitsOf, SegmentType
  <2>4. Passed(n, x)
    <3>1. n \in 1 .. Len(Segments) /\ Len(Segments) \in Nat
      BY SegmentIs DEF LoaderInv
    <3>2. s > Len(Segments) /\ s \in Nat
      BY DEF LoaderInv, TurnOK, Types
    <3> QED
      BY <3>1, <3>2 DEF Passed
  <2>5. Permitted(n, PageOf(x)) /\ Filled(n, x)
    BY <2>1, <2>3, <2>4 DEF LoaderInv, FilledOK
  <2> QED
    BY <2>1, <2>2, <2>3, <2>5 DEF Permitted, Filled
<1> QED
  BY <1>1, LoaderInvariant, PTL

(***************************************************************************)
(* Nothing of another program can be reached from a program that runs:     *)
(* exec and exit let go of every page before they load (idt.c, proc.c).    *)
(***************************************************************************)
THEOREM LoaderNothingLeft == Spec => []NothingLeft
<1>1. LoaderInv => NothingLeft
  BY DEF LoaderInv, OwnedOK, NothingLeft
<1> QED
  BY <1>1, LoaderInvariant, PTL

=============================================================================
