------------------------------- MODULE Loader -------------------------------
(***************************************************************************)
(* Loading and replacing programs: execute_mod of kernel/proc.c, called by *)
(* the boot code and by the exec system call of kernel/idt.c, over the     *)
(* address space that Paging provides (a fresh page is clear, vm_map       *)
(* leaves a page that is mapped alone, unmap_lower_half lets go of all).   *)
(*                                                                         *)
(* Memory is counted in units of which CHUNK make the 2048 bytes that      *)
(* proc.c calls PAGE_SIZE and PAGE the 4096 bytes of a page.  What a unit  *)
(* holds is named: a unit of a module's file, or Clear; what a program     *)
(* writes to its own memory later is left out.                             *)
(***************************************************************************)
EXTENDS Integers, Sequences

CONSTANTS
  Names,       \* names of the bootloader's modules, "init" among them
  Layouts,     \* the lists of segments that a module may have
  CHUNK, PAGE,
  MaxUnit,     \* bound: units that programs are linked into
  MaxHeap      \* bound: units given out by mmap

ASSUME NamesAssumption == "init" \in Names /\ {"none", "nobody"} \cap Names = {}
ASSUME PageAssumption ==
  /\ CHUNK \in Nat \ {0} /\ PAGE = 2 * CHUNK
  /\ MaxUnit \in Nat /\ MaxUnit % PAGE = 0 /\ MaxHeap \in Nat

\* Programs are linked apart from the heap, the stack and the other pages.
ASSUME AddressAssumption == MaxUnit \div PAGE <= 1000

PageOf(u) == u \div PAGE
SegmentType ==
  [load : BOOLEAN, vaddr : Nat, offset : Nat, filesz : Nat, memsz : Nat,
   read : BOOLEAN, write : BOOLEAN, exec : BOOLEAN]
Loads(layout) == {n \in 1 .. Len(layout) : layout[n].load}
UnitsOf(seg) == seg.vaddr .. seg.vaddr + seg.memsz - 1

\* The linker scripts of the programs give every segment pages of its own.
ASSUME LayoutsAssumption ==
  \A layout \in Layouts :
    /\ layout \in Seq(SegmentType)
    /\ \A n \in Loads(layout) : UnitsOf(layout[n]) \subseteq 0 .. MaxUnit - 1
    /\ \A m, n \in Loads(layout) : m # n =>
         \A x \in UnitsOf(layout[m]), y \in UnitsOf(layout[n]) : PageOf(x) # PageOf(y)

VARIABLES
  modules,     \* the segments of each module
  wp,          \* whether the kernel must respect read-only pages (CR0.WP)
  pc,          \* "user", "check", "unmap", "segment", "chunk", "copy",
               \* "protect", "stack" or "faulted"
  arg,         \* the kernel's copy of the name exec was given
  current,     \* the module that is loaded or runs
  s,           \* index of the segment
  vaddr, offset, size,
  k,           \* units memcpy has copied
  pages,       \* [user, write, exec, by] for the pages that are mapped
  cells,       \* what the units of mapped pages hold
  v_heap

load == <<s, vaddr, offset, size, k>>
vars == <<modules, wp, pc, arg, current, s, vaddr, offset, size, k, pages,
          cells, v_heap>>

ProgramPages == 0 .. MaxUnit \div PAGE - 1
HeapPages == 1000 .. 1000 + MaxHeap \div PAGE
StackPages == 2000 .. 2000 + (8 * CHUNK) \div PAGE - 1
TestPages == {3000, 3001}
BootPage == 4000
Pages == ProgramPages \cup HeapPages \cup StackPages \cup TestPages \cup {BootPage}
Units == 0 .. MaxUnit - 1

Absent == [by |-> "nobody"]
Clear == <<"clear">>
Mapped(p) == pages[p] # Absent
File(name, o) == <<name, o>>

Segments == modules[current]

\* The boot code has mapped a page of its own before it loads init.
Init ==
  /\ modules \in [Names -> Layouts]
  /\ wp \in BOOLEAN
  /\ pc = "segment"
  /\ arg = "none"
  /\ current = "init"
  /\ s = 1
  /\ vaddr = 0 /\ offset = 0 /\ size = 0 /\ k = 0
  /\ pages = [p \in Pages |->
       IF p = BootPage
       THEN [user |-> TRUE, write |-> TRUE, exec |-> TRUE, by |-> "boot"]
       ELSE Absent]
  /\ cells = [u \in Units |-> Clear]
  /\ v_heap = 0

\* vm_map on the pages P.
Map(P, user, write, exec) ==
  /\ pages' = [p \in Pages |->
       IF p \in P /\ ~Mapped(p)
       THEN [user |-> user, write |-> write, exec |-> exec, by |-> current]
       ELSE pages[p]]
  /\ cells' = [u \in Units |->
       IF PageOf(u) \in P /\ ~Mapped(PageOf(u)) THEN Clear ELSE cells[u]]

-----------------------------------------------------------------------------
(***************************************************************************)
(* Mutants: definitions of this module with a mistake in them.  Nothing    *)
(* refers to them here; each shows that a property below can fail.         *)
(***************************************************************************)
\* The old program is let go before the name is looked up.
CheckModLate ==
  /\ pc = "check"
  /\ IF arg \in Names THEN pc' = "unmap" ELSE pc' = "user"
  /\ pages' = [p \in Pages |-> Absent]
  /\ UNCHANGED <<modules, wp, arg, current, load, cells, v_heap>>

\* The program's heap stays mapped.
LetGoProgram == [p \in Pages |-> IF p \in HeapPages THEN pages[p] ELSE Absent]

\* The parts of a segment start where the last one started in the file.
NextOffsetSame == offset

\* A page gets the permissions of its segment before it is filled.
MapPartFinal ==
  LET seg == Segments[s]
  IN  Map({PageOf(vaddr)}, seg.read, seg.write, seg.exec)

-----------------------------------------------------------------------------
\* exec: the name is copied into the kernel
Exec(name) ==
  /\ pc = "user"
  /\ arg' = name
  /\ pc' = "check"
  /\ UNCHANGED <<modules, wp, current, load, pages, cells, v_heap>>

\* and looked up; a name that is not found returns to the caller.
CheckMod ==
  /\ pc = "check"
  /\ IF arg \in Names THEN pc' = "unmap" ELSE pc' = "user"
  /\ UNCHANGED <<modules, wp, arg, current, load, pages, cells, v_heap>>

\* exit starts init over, without a look at the modules.
Exit ==
  /\ pc = "user"
  /\ arg' = "init"
  /\ pc' = "unmap"
  /\ UNCHANGED <<modules, wp, current, load, pages, cells, v_heap>>

LetGo == [p \in Pages |-> Absent]

\* unmap_lower_half, and the start of execute_mod.
UnmapLowerHalf ==
  /\ pc = "unmap"
  /\ pages' = LetGo
  /\ v_heap' = 0
  /\ current' = arg
  /\ s' = 1
  /\ pc' = "segment"
  /\ UNCHANGED <<modules, wp, arg, vaddr, offset, size, k, cells>>

SkipSegment ==
  /\ pc = "segment"
  /\ s <= Len(Segments)
  /\ ~Segments[s].load
  /\ s' = s + 1
  /\ UNCHANGED <<modules, wp, pc, arg, current, vaddr, offset, size, k, pages,
                 cells, v_heap>>

StartSegment ==
  /\ pc = "segment"
  /\ s <= Len(Segments)
  /\ Segments[s].load
  /\ size' = Segments[s].memsz
  /\ offset' = Segments[s].offset
  /\ vaddr' = Segments[s].vaddr
  /\ pc' = "chunk"
  /\ UNCHANGED <<modules, wp, arg, current, s, k, pages, cells, v_heap>>

\* What the loop copies in one turn.
Part == IF size < CHUNK THEN size ELSE CHUNK

\* The page is open to the copy until it is filled.
MapPart == Map({PageOf(vaddr)}, TRUE, TRUE, TRUE)

MapChunk ==
  /\ pc = "chunk"
  /\ size > 0
  /\ MapPart
  /\ k' = 0
  /\ pc' = "copy"
  /\ UNCHANGED <<modules, wp, arg, current, s, vaddr, offset, size, v_heap>>

SegmentDone ==
  /\ pc = "chunk"
  /\ size = 0
  /\ s' = s + 1
  /\ pc' = "segment"
  /\ UNCHANGED <<modules, wp, arg, current, vaddr, offset, size, k, pages,
                 cells, v_heap>>

\* May the kernel write the unit?
Writable(u) == Mapped(PageOf(u)) /\ (wp => pages[PageOf(u)].write)

CopyUnit ==
  /\ pc = "copy"
  /\ k < Part
  /\ IF Writable(vaddr + k)
     THEN /\ cells' = [cells EXCEPT ![vaddr + k] = File(current, offset + k)]
          /\ k' = k + 1
          /\ pc' = pc
     ELSE /\ pc' = "faulted"
          /\ UNCHANGED <<cells, k>>
  /\ UNCHANGED <<modules, wp, arg, current, s, vaddr, offset, size, pages,
                 v_heap>>

CopyDone ==
  /\ pc = "copy"
  /\ k = Part
  /\ pc' = "protect"
  /\ UNCHANGED <<modules, wp, arg, current, load, pages, cells, v_heap>>

NextOffset == offset + CHUNK

LastPart == size < CHUNK

\* vm_protect, and the end of the turn.
ProtectChunk ==
  /\ pc = "protect"
  /\ pages' = [pages EXCEPT ![PageOf(vaddr)] =
       [user |-> Segments[s].read, write |-> Segments[s].write,
        exec |-> Segments[s].exec, by |-> @.by]]
  /\ IF LastPart
     THEN /\ s' = s + 1
          /\ pc' = "segment"
          /\ UNCHANGED <<vaddr, offset, size>>
     ELSE /\ vaddr' = vaddr + CHUNK
          /\ offset' = NextOffset
          /\ size' = size - CHUNK
          /\ pc' = "chunk"
          /\ UNCHANGED s
  /\ UNCHANGED <<modules, wp, arg, current, k, cells, v_heap>>

LoadDone ==
  /\ pc = "segment"
  /\ s > Len(Segments)
  /\ pc' = "stack"
  /\ UNCHANGED <<modules, wp, arg, current, load, pages, cells, v_heap>>

\* The stack and the two test pages, one of them for the kernel only; then
\* the program starts.
Start ==
  /\ pc = "stack"
  /\ pages' = [p \in Pages |->
       IF p \in StackPages \cup TestPages /\ ~Mapped(p)
       THEN [user |-> p # 3001, write |-> TRUE, exec |-> FALSE, by |-> current]
       ELSE pages[p]]
  /\ pc' = "user"
  /\ UNCHANGED <<modules, wp, arg, current, load, cells, v_heap>>

\* mmap
Mmap ==
  /\ pc = "user"
  /\ v_heap < MaxHeap
  /\ Map({1000 + v_heap \div PAGE}, TRUE, TRUE, TRUE)
  /\ v_heap' = v_heap + CHUNK
  /\ UNCHANGED <<modules, wp, pc, arg, current, load>>

-----------------------------------------------------------------------------
LoadStep ==
  \/ CheckMod
  \/ UnmapLowerHalf
  \/ SkipSegment
  \/ StartSegment
  \/ MapChunk
  \/ SegmentDone
  \/ CopyUnit
  \/ CopyDone
  \/ ProtectChunk
  \/ LoadDone
  \/ Start

Next ==
  \/ \E name \in Names \cup {"none"} : Exec(name)
  \/ Exit
  \/ Mmap
  \/ LoadStep

Spec == Init /\ [][Next]_vars

-----------------------------------------------------------------------------
(***************************************************************************)
(* Programs the loader can cope with: no turn of its loop reaches into the *)
(* next page and, if the kernel must respect read-only pages, no page of a *)
(* read-only segment is filled in two turns.                               *)
(***************************************************************************)
Turns(seg) == {n \in 0 .. MaxUnit : n * CHUNK < seg.memsz}

Fits(seg) ==
  \A n \in Turns(seg) :
    LET start == seg.vaddr + n * CHUNK
        rest == seg.memsz - n * CHUNK
    IN  (start % PAGE) + (IF rest < CHUNK THEN rest ELSE CHUNK) <= PAGE

OnceAPage(seg) ==
  \A m, n \in Turns(seg) :
    PageOf(seg.vaddr + m * CHUNK) = PageOf(seg.vaddr + n * CHUNK) => m = n

LoadsOf(name) == Loads(modules[name])

Copes(name) ==
  \A n \in LoadsOf(name) :
    LET seg == modules[name][n]
    IN  Fits(seg) /\ (wp => seg.write \/ OnceAPage(seg))

(***************************************************************************)
(* The loader faults with no program it can cope with.                     *)
(***************************************************************************)
CopesOrFaults == pc = "faulted" => ~Copes(current)

(***************************************************************************)
(* A program that runs is all there, after an exec that failed as well:    *)
(* each unit of its segments is on a page with the permissions of the      *)
(* segment, and holds its place in the file if it has one there.           *)
(***************************************************************************)
ProgramWhole ==
  pc = "user" =>
    \A n \in LoadsOf(current) :
      LET seg == Segments[n]
      IN  \A u \in 0 .. seg.memsz - 1 :
            /\ Mapped(PageOf(seg.vaddr + u))
            /\ u < seg.filesz =>
                 cells[seg.vaddr + u] = File(current, seg.offset + u)
            /\ LET p == pages[PageOf(seg.vaddr + u)]
               IN  <<p.user, p.write, p.exec>> = <<seg.read, seg.write, seg.exec>>

(***************************************************************************)
(* Nothing of another program can be reached from a program that runs:     *)
(* every page was mapped for it, and holds its file or nothing.            *)
(***************************************************************************)
NothingLeft ==
  pc = "user" =>
    /\ \A p \in Pages : Mapped(p) =>
         pages[p].by = current \/ (p = BootPage /\ current = "init")
    /\ \A u \in Units : Mapped(PageOf(u)) =>
         cells[u] = Clear \/ cells[u][1] = current

(***************************************************************************)
(* self_evaluation.txt says that the loader loads the segments of an elf   *)
(* file with the correct permissions.                                      *)
(***************************************************************************)
EveryProgramLoads == pc # "faulted"

=============================================================================
