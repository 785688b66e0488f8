------------------------------- MODULE Paging -------------------------------
(***************************************************************************)
(* kernel/paging.c: the free list of page frames and the four-level page   *)
(* tables, as the code works on them: the frames are memory, a table and a *)
(* link of the free list are words in it, and each iteration of a loop is  *)
(* a step.  One processor runs all of it and the interrupt handlers touch  *)
(* none of it, so calls do not overlap; what can go wrong is what a step   *)
(* finds in the memory that an earlier one left there.                     *)
(*                                                                         *)
(* A physical address, and the same address seen through the higher-half   *)
(* direct map, are the same frame here (ptov and "+ hhdm" are identities). *)
(*                                                                         *)
(* free and given are history variables: no guard reads them.              *)
(***************************************************************************)
EXTENDS Integers, Sequences

CONSTANTS
  ENTRIES,     \* words in a table (512)
  HALF,        \* root entries that lead to the lower half (256)
  Frame,       \* the page frames of the machine
  NULL,        \* physical page 0, or a null pointer: not a frame
  Root,        \* frame of the level 4 table, which cr3 points to
  KernelFrame, \* frames of the tables that map the upper half
  BootMem,     \* what the bootloader left in memory
  Usable,      \* frames of the memory map's usable regions, in its order
  HeapAddr,    \* the pages from 0x10000 on, in order
  SegAddr,     \* pages of segments and stacks
  Perm         \* permissions callers ask for

Index == 0 .. ENTRIES - 1
Lower == 0 .. HALF - 1
Addr == SegAddr \cup {HeapAddr[k] : k \in 1 .. Len(HeapAddr)}

ASSUME SizeAssumption == ENTRIES \in Nat \ {0} /\ HALF \in 1 .. ENTRIES - 1
ASSUME FrameAssumption ==
  /\ Root \in Frame /\ NULL \notin Frame
  /\ KernelFrame \subseteq Frame \ {Root}
  /\ Usable \in Seq(Frame \ (KernelFrame \cup {Root}))
  /\ \A j, k \in 1 .. Len(Usable) : Usable[j] = Usable[k] => j = k
ASSUME AddrAssumption ==
  /\ HeapAddr \in Seq([0 .. 3 -> Index])
  /\ SegAddr \subseteq [0 .. 3 -> Index]
  /\ \A a \in Addr : a[3] \in Lower
  /\ \A k \in 1 .. Len(HeapAddr) : HeapAddr[k] \notin SegAddr
ASSUME PermAssumption ==
  Perm \subseteq [user : BOOLEAN, writable : BOOLEAN, executable : BOOLEAN]

\* struct pte, without the fields that the kernel never sets or reads.
Word == [present : BOOLEAN, user : BOOLEAN, writable : BOOLEAN,
         page_size : BOOLEAN, no_execute : BOOLEAN, address : Frame \cup {NULL}]

Zero == [present |-> FALSE, user |-> FALSE, writable |-> FALSE,
         page_size |-> FALSE, no_execute |-> FALSE, address |-> NULL]

\* A struct node seen as a table word: a pointer into the direct map has its
\* top bit set and its low twelve bits clear.
Link(f) == [Zero EXCEPT !.address = f, !.no_execute = f # NULL]

\* The words of the bootloader's tables that lead to tables of the lower half,
\* and the tables they lead to.
BootHeld ==
  [t \in Frame |->
     {k \in Index : BootMem[t][k].present
                    /\ IF t = Root THEN k \in Lower ELSE ~BootMem[t][k].page_size}]

BootBelow(tables) ==
  {f \in Frame : \E t \in tables : \E k \in BootHeld[t] : BootMem[t][k].address = f}

\* The bootloader's tables of the lower half form a tree, apart from the
\* kernel's and from the memory that it calls usable, and the root forbids
\* execution nowhere in the lower half: vm_map leaves the root's bit alone.
ASSUME BootAssumption ==
  LET L3 == BootBelow({Root})
      L2 == BootBelow(L3)
      Elsewhere == KernelFrame \cup {Root} \cup {Usable[k] : k \in 1 .. Len(Usable)}
  IN /\ BootMem \in [Frame -> [Index -> Word]]
     /\ \A t \in {Root} \cup L3 \cup L2 : \A k \in BootHeld[t] :
          BootMem[t][k].address \in Frame \ Elsewhere
     /\ \A t, u \in {Root} \cup L3 \cup L2 : \A k \in BootHeld[t], j \in BootHeld[u] :
          BootMem[t][k].address = BootMem[u][j].address => t = u /\ k = j
     /\ \A k \in Lower : ~BootMem[Root][k].no_execute

VARIABLES
  mem,         \* frame -> the words in it
  free_list,
  tlb,         \* address -> the translation the processor has cached, if any
  v_heap,      \* idt.c's v_heap, counted in PAGE_SIZE from 0x10000
  call,        \* the function that is running and its local variables
  result,      \* what the last call returned
  free,        \* history: the frames of the free list, first one first
  given        \* history: frames that vm_map ever put behind an address

vars == <<mem, free_list, tlb, v_heap, call, result, free, given>>
history == <<free, given>>

-----------------------------------------------------------------------------
\* The translation of an address by the tables, as the processor walks them:
\* a large page ends the walk.
Unmapped == [frame |-> NULL]

Through(path, last) ==
  [frame |-> last.address,
   user |-> \A e \in path : e.user,
   writable |-> \A e \in path : e.writable,
   executable |-> \A e \in path : ~e.no_execute]

Walk(a) ==
  LET e4 == mem[Root][a[3]]
      e3 == mem[e4.address][a[2]]
      e2 == mem[e3.address][a[1]]
      e1 == mem[e2.address][a[0]]
  IN  IF ~e4.present \/ ~e3.present THEN Unmapped
      ELSE IF e3.page_size THEN Through({e4, e3}, e3)
      ELSE IF ~e2.present THEN Unmapped
      ELSE IF e2.page_size THEN Through({e4, e3, e2}, e2)
      ELSE IF ~e1.present THEN Unmapped
      ELSE Through({e4, e3, e2, e1}, e1)

\* invlpg
Invalidate(a) == tlb' = [tlb EXCEPT ![a] = Unmapped]

\* The processor may cache a translation whenever it is there.
TlbFill ==
  \E a \in Addr :
    /\ Walk(a) # Unmapped
    /\ tlb' = [tlb EXCEPT ![a] = Walk(a)]
    /\ UNCHANGED <<mem, free_list, v_heap, call, result, history>>

-----------------------------------------------------------------------------
Idle == [fn |-> "none"]

\* Back to the caller.  The mmap system call moves v_heap on whatever vm_map
\* returned.
Return(r) ==
  /\ call' = Idle
  /\ result' = r
  /\ v_heap' = IF "mmap" \in DOMAIN call THEN v_heap + 1 ELSE v_heap

pmem_free(p) ==
  /\ mem' = [mem EXCEPT ![p][0] = Link(free_list)]
  /\ free_list' = p
  /\ free' = <<p>> \o free

-----------------------------------------------------------------------------
\* unmap_lower_half: the locals of its three nested loops.
UnmapLowerHalf == [fn |-> "unmap_lower_half", loop |-> 4, l4_index |-> 0,
                   l3_table |-> NULL, l3_index |-> 0,
                   l2_table |-> NULL, l2_index |-> 0]

InLoop(n) == call.fn = "unmap_lower_half" /\ call.loop = n

\* The word that the walk of a running vm_map, vm_protect or vm_unmap is at.
Entry == mem[call.table][call.va[call.i]]

Descend == call' = [call EXCEPT !.i = @ - 1, !.table = Entry.address]

-----------------------------------------------------------------------------
(***************************************************************************)
(* Mutants: definitions of this module with a mistake in them.  Nothing    *)
(* refers to them here; each shows that a property below can fail.         *)
(***************************************************************************)
\* The loop over the root goes on into the kernel's half.
L4PresentAll ==
  /\ InLoop(4) /\ call.l4_index < ENTRIES
  /\ mem[Root][call.l4_index].present
  /\ mem' = [mem EXCEPT ![Root][call.l4_index].present = FALSE]
  /\ call' = [call EXCEPT !.loop = 3, !.l3_index = 0,
                          !.l3_table = mem[Root][call.l4_index].address]
  /\ UNCHANGED <<free_list, tlb, v_heap, result, history>>

\* reset_v_heap() is forgotten.
L4DoneHeapKept ==
  /\ InLoop(4) /\ call.l4_index = HALF
  /\ call' = Idle
  /\ result' = TRUE
  /\ tlb' = [a \in Addr |-> Unmapped]
  /\ UNCHANGED <<mem, free_list, v_heap, history>>

\* Large pages are taken for tables.
IsTableLarge(e) == e.present

\* The level 2 table is freed before the loop over it, not after.
L3TableFreed ==
  /\ InLoop(3) /\ call.l3_index < ENTRIES
  /\ LET e == mem[call.l3_table][call.l3_index] IN
       /\ e.present /\ ~e.page_size
       /\ pmem_free(e.address)
       /\ call' = [call EXCEPT !.loop = 2, !.l2_index = 0,
                               !.l2_table = e.address]
  /\ UNCHANGED <<tlb, v_heap, result, given>>

\* The level 1 tables are not freed.
L2TableKept ==
  /\ InLoop(2) /\ call.l2_index < ENTRIES
  /\ mem[call.l2_table][call.l2_index].present
  /\ ~mem[call.l2_table][call.l2_index].page_size
  /\ call' = [call EXCEPT !.l2_index = @ + 1]
  /\ UNCHANGED <<mem, free_list, tlb, v_heap, result, history>>

\* The new frame is not zeroed.
AllocateDirty(e) ==
  /\ free_list # NULL
  /\ mem' = [mem EXCEPT ![call.table][call.va[call.i]] = e]
  /\ free_list' = mem[free_list][0].address
  /\ free' = Tail(free)

\* A new table is not opened to the user.
MapTableKernel ==
  /\ call.fn = "vm_map" /\ ~Entry.present /\ call.i > 0
  /\ free_list # NULL
  /\ mem' = [mem EXCEPT ![free_list] = [k \in Index |-> Zero],
                        ![call.table][call.va[call.i]] =
                          [@ EXCEPT !.present = TRUE, !.writable = TRUE,
                                    !.address = free_list]]
  /\ free_list' = mem[free_list][0].address
  /\ free' = Tail(free)
  /\ call' = [call EXCEPT !.i = @ - 1, !.table = free_list]
  /\ UNCHANGED <<tlb, v_heap, result, given>>

\* vm_protect leaves the cached translation alone.
ProtectPageCached ==
  /\ call.fn = "vm_protect" /\ Entry.present /\ call.i = 0
  /\ mem' = [mem EXCEPT ![call.table][call.va[0]] =
               [@ EXCEPT !.user = call.perm.user,
                         !.writable = call.perm.writable,
                         !.no_execute = ~call.perm.executable]]
  /\ Return(TRUE)
  /\ UNCHANGED <<free_list, tlb, history>>

-----------------------------------------------------------------------------
\* unmap_lower_half: its steps.
L4Present ==
  /\ InLoop(4) /\ call.l4_index < HALF
  /\ mem[Root][call.l4_index].present
  /\ mem' = [mem EXCEPT ![Root][call.l4_index].present = FALSE]
  /\ call' = [call EXCEPT !.loop = 3, !.l3_index = 0,
                          !.l3_table = mem[Root][call.l4_index].address]
  /\ UNCHANGED <<free_list, tlb, v_heap, result, history>>

L4Absent ==
  /\ InLoop(4) /\ call.l4_index < HALF
  /\ ~mem[Root][call.l4_index].present
  /\ call' = [call EXCEPT !.l4_index = @ + 1]
  /\ UNCHANGED <<mem, free_list, tlb, v_heap, result, history>>

\* reset_v_heap() and the reload of cr3.
L4Done ==
  /\ InLoop(4) /\ call.l4_index = HALF
  /\ call' = Idle
  /\ result' = TRUE
  /\ v_heap' = 0
  /\ tlb' = [a \in Addr |-> Unmapped]
  /\ UNCHANGED <<mem, free_list, history>>

IsTable(e) == e.present /\ ~e.page_size

L3Table ==
  /\ InLoop(3) /\ call.l3_index < ENTRIES
  /\ LET e == mem[call.l3_table][call.l3_index] IN
       /\ IsTable(e)
       /\ call' = [call EXCEPT !.loop = 2, !.l2_index = 0,
                               !.l2_table = e.address]
  /\ UNCHANGED <<mem, free_list, tlb, v_heap, result, history>>

L3Other ==
  /\ InLoop(3) /\ call.l3_index < ENTRIES
  /\ ~IsTable(mem[call.l3_table][call.l3_index])
  /\ call' = [call EXCEPT !.l3_index = @ + 1]
  /\ UNCHANGED <<mem, free_list, tlb, v_heap, result, history>>

L3Done ==
  /\ InLoop(3) /\ call.l3_index = ENTRIES
  /\ pmem_free(mem[Root][call.l4_index].address)
  /\ call' = [call EXCEPT !.loop = 4, !.l4_index = @ + 1]
  /\ UNCHANGED <<tlb, v_heap, result, given>>

L2Table ==
  /\ InLoop(2) /\ call.l2_index < ENTRIES
  /\ LET e == mem[call.l2_table][call.l2_index] IN
       IsTable(e) /\ pmem_free(e.address)
  /\ call' = [call EXCEPT !.l2_index = @ + 1]
  /\ UNCHANGED <<tlb, v_heap, result, given>>

L2Other ==
  /\ InLoop(2) /\ call.l2_index < ENTRIES
  /\ ~IsTable(mem[call.l2_table][call.l2_index])
  /\ call' = [call EXCEPT !.l2_index = @ + 1]
  /\ UNCHANGED <<mem, free_list, tlb, v_heap, result, history>>

L2Done ==
  /\ InLoop(2) /\ call.l2_index = ENTRIES
  /\ pmem_free(mem[call.l3_table][call.l3_index].address)
  /\ call' = [call EXCEPT !.loop = 3, !.l3_index = @ + 1]
  /\ UNCHANGED <<tlb, v_heap, result, given>>

UnmapStep ==
  \/ L4Present \/ L4Absent \/ L4Done
  \/ L3Table \/ L3Other \/ L3Done
  \/ L2Table \/ L2Other \/ L2Done

-----------------------------------------------------------------------------
\* init_list, called first thing by _start, which later calls
\* unmap_lower_half before anything else is mapped.
InitListFrame ==
  /\ call.fn = "init_list" /\ call.j <= Len(Usable)
  /\ pmem_free(Usable[call.j])
  /\ call' = [call EXCEPT !.j = @ + 1]
  /\ UNCHANGED <<tlb, v_heap, result, given>>

InitListDone ==
  /\ call.fn = "init_list" /\ call.j > Len(Usable)
  /\ call' = UnmapLowerHalf
  /\ UNCHANGED <<mem, free_list, tlb, v_heap, result, history>>

-----------------------------------------------------------------------------
\* vm_map: an iteration of its loop.
MapPresent ==
  /\ call.fn = "vm_map" /\ Entry.present
  /\ \/ call.i = 0 /\ Return(FALSE)
     \/ call.i > 0 /\ Descend /\ UNCHANGED <<result, v_heap>>
  /\ UNCHANGED <<mem, free_list, tlb, history>>

\* pmem_alloc returns 0 and memset writes there: a page fault, which halts.
MapNoMemory ==
  /\ call.fn = "vm_map" /\ ~Entry.present
  /\ free_list = NULL
  /\ call' = [fn |-> "halted"]
  /\ UNCHANGED <<mem, free_list, tlb, v_heap, result, history>>

\* The first frame of the free list, zeroed, becomes what the word points to.
Allocate(e) ==
  /\ free_list # NULL
  /\ mem' = [mem EXCEPT ![free_list] = [k \in Index |-> Zero],
                        ![call.table][call.va[call.i]] = e]
  /\ free_list' = mem[free_list][0].address
  /\ free' = Tail(free)

MapTable ==
  /\ call.fn = "vm_map" /\ ~Entry.present /\ call.i > 0
  /\ Allocate([Entry EXCEPT !.present = TRUE, !.user = TRUE,
                            !.writable = TRUE, !.address = free_list])
  /\ call' = [call EXCEPT !.i = @ - 1, !.table = free_list]
  /\ UNCHANGED <<tlb, v_heap, result, given>>

MapPage ==
  /\ call.fn = "vm_map" /\ ~Entry.present /\ call.i = 0
  /\ Allocate([Entry EXCEPT !.present = TRUE, !.user = call.perm.user,
                            !.writable = call.perm.writable,
                            !.no_execute = ~call.perm.executable,
                            !.address = free_list])
  /\ Invalidate(call.va)
  /\ Return(TRUE)
  /\ given' = given \cup {free_list}

\* vm_protect: an iteration of its loop.
ProtectAbsent ==
  /\ call.fn = "vm_protect" /\ ~Entry.present
  /\ Return(FALSE)
  /\ UNCHANGED <<mem, free_list, tlb, history>>

ProtectTable ==
  /\ call.fn = "vm_protect" /\ Entry.present /\ call.i > 0
  /\ Descend
  /\ UNCHANGED <<mem, free_list, tlb, v_heap, result, history>>

ProtectPage ==
  /\ call.fn = "vm_protect" /\ Entry.present /\ call.i = 0
  /\ mem' = [mem EXCEPT ![call.table][call.va[0]] =
               [@ EXCEPT !.user = call.perm.user,
                         !.writable = call.perm.writable,
                         !.no_execute = ~call.perm.executable]]
  /\ Invalidate(call.va)
  /\ Return(TRUE)
  /\ UNCHANGED <<free_list, history>>

\* vm_unmap: an iteration of its loop, which never looks at present.
UnmapTable ==
  /\ call.fn = "vm_unmap" /\ call.i > 0
  /\ Descend
  /\ UNCHANGED <<mem, free_list, tlb, v_heap, result, history>>

UnmapPage ==
  /\ call.fn = "vm_unmap" /\ call.i = 0
  /\ mem' = [mem EXCEPT ![call.table][call.va[0]].present = FALSE]
  /\ Invalidate(call.va)
  /\ Return(TRUE)
  /\ UNCHANGED <<free_list, history>>

WalkStep ==
  \/ MapPresent \/ MapNoMemory \/ MapTable \/ MapPage
  \/ ProtectAbsent \/ ProtectTable \/ ProtectPage
  \/ UnmapTable \/ UnmapPage

-----------------------------------------------------------------------------
\* The callers: the loader in proc.c and the system calls in idt.c.
Start(c) ==
  /\ call = Idle
  /\ call' = c
  /\ UNCHANGED <<mem, free_list, tlb, v_heap, result, history>>

VmMapCall ==
  \E a \in SegAddr, p \in Perm :
    Start([fn |-> "vm_map", va |-> a, perm |-> p, i |-> 3, table |-> Root])

VmProtectCall ==
  \E a \in SegAddr, p \in Perm :
    Start([fn |-> "vm_protect", va |-> a, perm |-> p, i |-> 3, table |-> Root])

\* Nobody calls vm_unmap; here it is called for pages that have a level 1
\* table, whether or not they are mapped.
HasTable(a) ==
  LET e4 == mem[Root][a[3]]
      e3 == mem[e4.address][a[2]]
  IN  e4.present /\ e3.present /\ mem[e3.address][a[1]].present

VmUnmapCall ==
  \E a \in SegAddr :
    /\ HasTable(a)
    /\ Start([fn |-> "vm_unmap", va |-> a, i |-> 3, table |-> Root])

UserPage == [user |-> TRUE, writable |-> TRUE, executable |-> TRUE]

\* System call 2: two steps of v_heap to a page.
MmapCall ==
  /\ v_heap < 2 * Len(HeapAddr)
  /\ Start([fn |-> "vm_map", va |-> HeapAddr[v_heap \div 2 + 1],
            perm |-> UserPage, i |-> 3, table |-> Root, mmap |-> TRUE])

UnmapLowerHalfCall == Start(UnmapLowerHalf)

Client ==
  VmMapCall \/ VmProtectCall \/ VmUnmapCall \/ MmapCall \/ UnmapLowerHalfCall

Step == InitListFrame \/ InitListDone \/ UnmapStep \/ WalkStep

Init ==
  /\ mem = BootMem
  /\ free_list = NULL
  /\ tlb = [a \in Addr |-> Unmapped]
  /\ v_heap = 0
  /\ call = [fn |-> "init_list", j |-> 1]
  /\ result = TRUE
  /\ free = <<>>
  /\ given = {}

Next == Step \/ Client \/ TlbFill

Spec == Init /\ [][Next]_vars

-----------------------------------------------------------------------------
\* Types, for proofs.
TypeOK ==
  /\ mem \in [Frame -> [Index -> Word]]
  /\ free_list \in Frame \cup {NULL}
  /\ \A a \in Addr : tlb[a].frame \in Frame \cup {NULL}
  /\ v_heap \in 0 .. 2 * Len(HeapAddr)
  /\ call.fn \in {"none", "halted", "init_list", "unmap_lower_half",
                 "vm_map", "vm_protect", "vm_unmap"}
  /\ result \in BOOLEAN
  /\ free \in Seq(Frame)
  /\ given \subseteq Frame

Free == {free[k] : k \in 1 .. Len(free)}

(***************************************************************************)
(* The links of the free list are intact whatever runs: following next     *)
(* from free_list visits the frames freed and not allocated since, each    *)
(* once, and then ends.  Nothing the kernel writes through a stale pointer *)
(* into a freed table reaches a link, and no frame is freed twice.         *)
(***************************************************************************)
FreeListIntact ==
  /\ free_list = IF free = <<>> THEN NULL ELSE free[1]
  /\ \A k \in 1 .. Len(free) :
       mem[free[k]][0] = Link(IF k = Len(free) THEN NULL ELSE free[k + 1])
  /\ \A j, k \in 1 .. Len(free) : free[j] = free[k] => j = k

(***************************************************************************)
(* No call reads or writes a table that is on the free list: the frees in  *)
(* unmap_lower_half come after the last use of the table they free.        *)
(***************************************************************************)
TablesLive ==
  /\ call.fn = "unmap_lower_half" =>
       /\ call.loop < 4 => call.l3_table \notin Free
       /\ call.loop < 3 => call.l2_table \notin Free
  /\ call.fn \in {"vm_map", "vm_protect", "vm_unmap"} => call.table \notin Free

-----------------------------------------------------------------------------
\* The bootloader's mappings are gone, and unmap_lower_half does not run.
Booted == call.fn \notin {"init_list", "unmap_lower_half"}

\* The tables of the lower half, level by level.
LowerWord(t, k) == t # Root \/ k \in Lower

Present(tables) ==
  {r \in tables \X Index : mem[r[1]][r[2]].present /\ LowerWord(r[1], r[2])}

Children(tables) == {mem[r[1]][r[2]].address : r \in Present(tables)}

L3Tables == Children({Root})
L2Tables == Children(L3Tables)
L1Tables == Children(L2Tables)
Tables == {Root} \cup L3Tables \cup L2Tables \cup L1Tables

\* The present words of those tables.
Refs == Present(Tables)

(***************************************************************************)
(* No frame has two owners.  Every present word of the lower half points   *)
(* to a frame of its own, which is not free and is no table of the kernel  *)
(* half: no two pages share a frame, no page shows a table, and pmem_alloc *)
(* will not hand a page or a table out again.  This is so between calls,   *)
(* at every iteration of vm_map, vm_protect and vm_unmap, and when memory  *)
(* has run out in the middle of a walk, after tables were linked in        *)
(* (paging.c:259).                                                         *)
(***************************************************************************)
OneOwner ==
  Booted =>
    \A r \in Refs :
      LET f == mem[r[1]][r[2]].address IN
        /\ f \notin Free \cup KernelFrame \cup {Root, NULL}
        /\ \A q \in Refs : mem[q[1]][q[2]].address = f => q = r

(***************************************************************************)
(* But while unmap_lower_half runs, every frame the kernel was given is    *)
(* accounted for: it is free, it is a table in use, or it was put behind   *)
(* an address.  Only the mapped pages are lost when the lower half goes    *)
(* (paging.c:66), never a table, and none by a walk that finds no memory   *)
(* for its next level.                                                     *)
(***************************************************************************)
NoTableLost ==
  Booted =>
    {Usable[k] : k \in 1 .. Len(Usable)} \subseteq Free \cup Tables \cup given

(***************************************************************************)
(* But while unmap_lower_half runs, the processor has no stale             *)
(* translation: what it cached is what the tables say.                     *)
(***************************************************************************)
TlbCoherent ==
  Booted => \A a \in Addr : tlb[a] \in {Unmapped, Walk(a)}

(***************************************************************************)
(* Every address that mmap returned to the running program is mapped, for  *)
(* the user and writable, although the system call never looks at what     *)
(* vm_map returns and moves v_heap by half a page at a time.               *)
(***************************************************************************)
HeapMapped ==
  Booted =>
    \A h \in 0 .. v_heap - 1 :
      LET t == Walk(HeapAddr[h \div 2 + 1]) IN
        t # Unmapped /\ t.user /\ t.writable

(***************************************************************************)
(* No call changes what maps the kernel's half of the address space.       *)
(***************************************************************************)
KernelHalf ==
  <<[i \in Index \ Lower |-> mem[Root][i]], [f \in KernelFrame |-> mem[f]]>>

KernelHalfKept == [][KernelHalf' = KernelHalf]_vars

(***************************************************************************)
(* The tables implement the abstract address space, which has what         *)
(* paging.c does where paging.h promises otherwise: AddrSpace says where.  *)
(***************************************************************************)
Asked ==
  CASE call.fn = "init_list" -> [fn |-> "unmap_lower_half"]
    [] call.fn = "unmap_lower_half" -> [fn |-> call.fn]
    [] call.fn \in {"vm_map", "vm_protect"} ->
         [fn |-> call.fn, va |-> call.va, perm |-> call.perm]
    [] call.fn = "vm_unmap" -> [fn |-> call.fn, va |-> call.va]
    [] OTHER -> call

Space == INSTANCE AddrSpace WITH
  space <- [a \in Addr |-> Walk(a)], req <- Asked, Perm <- Perm \cup {UserPage},
  BootFrame <- Frame \cup {NULL}

SpaceSpec == Space!Spec

=============================================================================
