---------------------------- MODULE PagingProofs ----------------------------
(***************************************************************************)
(* Proofs about Paging, for tables of any size, any number of frames and   *)
(* any addresses and permissions.                                          *)
(*                                                                         *)
(* The tables of the lower half are a tree: there is a level for each      *)
(* frame, 4 for the root, 3 to 1 for the tables below, 0 for every other   *)
(* frame, such that a word that holds a table holds one of the next level, *)
(* no two words hold the same, and every table is held.  In the middle of  *)
(* unmap_lower_half the loops hold tables whose words are no longer        *)
(* present, and words they have been through are present but hold nothing. *)
(*                                                                         *)
(* The first part is about frames, and the second about what the tables    *)
(* translate addresses to.                                                 *)
(***************************************************************************)
EXTENDS Paging, SequenceTheorems, TLAPS

Memory == [Frame -> [Index -> Word]]
Holdings == [Frame -> SUBSET Index]

\* M[t][k] holds a table for every k in H[t].
Tree(lev, H, M) ==
  /\ lev \in [Frame -> 0 .. 4]
  /\ \A f \in Frame : lev[f] = 4 <=> f = Root
  /\ \A t \in Frame : \A k \in H[t] :
       M[t][k].address \in Frame /\ lev[M[t][k].address] + 1 = lev[t] /\ lev[t] >= 2
  /\ \A t, u \in Frame : \A k \in H[t], j \in H[u] :
       M[t][k].address = M[u][j].address => t = u /\ k = j
  /\ \A f \in Frame : lev[f] \in 1 .. 3 =>
       \E t \in Frame : \E k \in H[t] : M[t][k].address = f

\* unmap_lower_half is below its loop over the root: the entry it has cleared
\* still holds the table it is at, and the entries behind it hold nothing.
Below == call.fn = "unmap_lower_half" /\ call.loop < 4

Cleared(k) == Below /\ k = call.l4_index

Behind(t, k) ==
  /\ Below
  /\ \/ t = call.l3_table /\ k < call.l3_index
     \/ call.loop < 3 /\ t = call.l2_table /\ k < call.l2_index

HoldsTable(lev, t, k) ==
  /\ lev[t] >= 2
  /\ IF t = Root THEN k \in Lower /\ (mem[Root][k].present \/ Cleared(k))
                 ELSE IsTable(mem[t][k]) /\ ~Behind(t, k)

Held(lev) == [t \in Frame |-> {k \in Index : HoldsTable(lev, t, k)}]

\* No table is free, and no table and no free frame is the kernel's or was ever
\* given away as a page.
Apart(lev) ==
  \A f \in Frame : lev[f] >= 1 \/ f \in Free => f \notin KernelFrame \cup given
                   /\ ~(lev[f] >= 1 /\ f \in Free)

FreeOK == free \in Seq(Frame) /\ FreeListIntact

\* The frames that init_list has come to.
Reached(k) == call.fn = "init_list" => k < call.j

Accounted(lev) ==
  \A k \in 1 .. Len(Usable) :
    Reached(k) => Usable[k] \in Free \cup given \/ lev[Usable[k]] >= 1

\* Pages, once the bootloader's are gone.
PageOf(lev, t, k) == lev[t] = 1 /\ mem[t][k].present

PagesOK(lev) ==
  /\ \A t \in Frame \ {Root}, k \in Index : lev[t] >= 1 => ~mem[t][k].page_size
  /\ \A t \in Frame, k \in Index : PageOf(lev, t, k) =>
       LET f == mem[t][k].address IN
         /\ f \in Frame /\ lev[f] = 0 /\ f \notin Free \cup KernelFrame
         /\ \A u \in Frame, j \in Index :
              PageOf(lev, u, j) /\ mem[u][j].address = f => u = t /\ j = k

InitListOK(lev) ==
  call.fn = "init_list" =>
    /\ "j" \in DOMAIN call /\ call.j \in 1 .. Len(Usable) + 1
    /\ given = {}
    /\ Free \subseteq {Usable[k] : k \in 1 .. call.j - 1}
    /\ \A k \in 1 .. Len(Usable) : lev[Usable[k]] = 0

Locals == {"loop", "l4_index", "l3_table", "l3_index", "l2_table", "l2_index"}

UnmapOK(lev) ==
  call.fn = "unmap_lower_half" =>
    /\ Locals \subseteq DOMAIN call
    /\ call.loop \in 2 .. 4 /\ call.l4_index \in 0 .. HALF
    /\ \A k \in Lower : k < call.l4_index => ~mem[Root][k].present
    /\ call.loop < 4 =>
         /\ call.l4_index \in Lower /\ ~mem[Root][call.l4_index].present
         /\ call.l3_table = mem[Root][call.l4_index].address
         /\ call.l3_index \in 0 .. ENTRIES
    /\ call.loop < 3 =>
         /\ call.l3_index \in Index
         /\ IsTable(mem[call.l3_table][call.l3_index])
         /\ call.l2_table = mem[call.l3_table][call.l3_index].address
         /\ call.l2_table # call.l3_table
         /\ call.l2_index \in 0 .. ENTRIES

Walks == {"vm_map", "vm_protect", "vm_unmap"}
Permission == [user : BOOLEAN, writable : BOOLEAN, executable : BOOLEAN]

WalkOK(lev) ==
  call.fn \in Walks =>
    /\ {"va", "i", "table"} \subseteq DOMAIN call
    /\ call.va \in Addr /\ call.i \in 0 .. 3
    /\ call.table \in Frame /\ lev[call.table] = call.i + 1
    /\ call.fn # "vm_unmap" => "perm" \in DOMAIN call /\ call.perm \in Permission

\* vm_unmap does not look whether the tables are there.
PathOK ==
  call.fn = "vm_unmap" =>
    LET e3 == mem[call.table][call.va[2]] IN
    /\ call.i = 3 => HasTable(call.va)
    /\ call.i = 2 => e3.present /\ mem[e3.address][call.va[1]].present
    /\ call.i = 1 => mem[call.table][call.va[1]].present

CallOK(lev) == InitListOK(lev) /\ UnmapOK(lev) /\ WalkOK(lev) /\ PathOK

Inv(lev) ==
  /\ mem \in Memory
  /\ Tree(lev, Held(lev), mem)
  /\ Apart(lev)
  /\ FreeOK
  /\ Accounted(lev)
  /\ Booted => PagesOK(lev)
  /\ CallOK(lev)

IInv == \E lev \in [Frame -> 0 .. 4] : Inv(lev)

-----------------------------------------------------------------------------
(***************************************************************************)
(* What happens to a tree of tables when a word lets its table go, and     *)
(* when a word takes a new one.                                            *)
(***************************************************************************)
\* The words that hold tables, and what they hold, are the same.
LEMMA TreeSame ==
  ASSUME NEW lev, NEW H \in Holdings, NEW J \in Holdings, NEW M, NEW N,
         Tree(lev, H, M),
         \A t \in Frame : J[t] = H[t],
         \A t \in Frame : \A k \in H[t] : N[t][k].address = M[t][k].address
  PROVE  Tree(lev, J, N)
  BY SMTT(30) DEF Tree

\* Word b of table a lets go of table p, which holds nothing.
Removes(lev, lev2, H, J, M, N, a, b, p) ==
  /\ lev2 \in [Frame -> 0 .. 4]
  /\ a \in Frame /\ b \in H[a] /\ p \in Frame /\ M[a][b].address = p /\ H[p] = {}
  /\ lev2[p] = 0 /\ \A f \in Frame \ {p} : lev2[f] = lev[f]
  /\ J[p] = {}
  /\ \A t \in Frame \ {p}, k \in Index : k \in J[t] <=> k \in H[t] /\ ~(t = a /\ k = b)
  /\ \A t \in Frame \ {p} : \A k \in H[t] : N[t][k].address = M[t][k].address

LEMMA TreeRemove ==
  ASSUME NEW lev, NEW lev2, NEW H \in Holdings, NEW J \in Holdings, NEW M, NEW N,
         NEW a, NEW b, NEW p,
         Tree(lev, H, M), Removes(lev, lev2, H, J, M, N, a, b, p)
  PROVE  Tree(lev2, J, N)
  <1>1. /\ lev \in [Frame -> 0 .. 4] /\ lev2 \in [Frame -> 0 .. 4]
        /\ lev2[p] = 0 /\ \A f \in Frame \ {p} : lev2[f] = lev[f]
    BY DEF Tree, Removes
  <1>2. lev[p] + 1 = lev[a] /\ lev[a] <= 4 /\ p # Root
    BY <1>1, FrameAssumption DEF Tree, Removes
  <1>3. \A t \in Frame : \A k \in J[t] :
          t # p /\ k \in H[t] /\ N[t][k].address = M[t][k].address /\ M[t][k].address # p
    BY DEF Tree, Removes, Holdings
  <1>4. \A f \in Frame : lev2[f] = 4 <=> f = Root
    BY <1>1, <1>2 DEF Tree, Removes
  <1>5. \A t \in Frame : \A k \in J[t] :
          N[t][k].address \in Frame /\ lev2[N[t][k].address] + 1 = lev2[t] /\ lev2[t] >= 2
    BY <1>1, <1>3 DEF Tree, Removes
  <1>6. \A t, u \in Frame : \A k \in J[t], j \in J[u] :
          N[t][k].address = N[u][j].address => t = u /\ k = j
    BY <1>3 DEF Tree, Removes
  <1>7. ASSUME NEW f \in Frame, lev2[f] \in 1 .. 3
        PROVE  \E t \in Frame : \E k \in J[t] : N[t][k].address = f
    <2>1. f # p /\ lev[f] \in 1 .. 3
      BY <1>1, <1>7
    <2>2. PICK t \in Frame : \E k \in H[t] : M[t][k].address = f
      BY <2>1 DEF Tree, Removes
    <2>3. PICK k \in H[t] : M[t][k].address = f
      BY <2>2
    <2>4. t # p /\ ~(t = a /\ k = b) /\ k \in Index
      BY <2>1, <2>3 DEF Holdings, Removes
    <2> QED
      BY <2>3, <2>4 DEF Removes
  <1> QED
    BY <1>1, <1>4, <1>5, <1>6, <1>7 DEF Tree, Removes

\* Word b of table a, which held nothing, takes p, which was no table.
Adds(lev, lev2, H, J, M, N, a, b, p) ==
  /\ lev2 \in [Frame -> 0 .. 4]
  /\ a \in Frame /\ b \in Index /\ lev[a] >= 2 /\ b \notin H[a]
  /\ p \in Frame /\ lev[p] = 0
  /\ lev2[p] = lev[a] - 1 /\ \A f \in Frame \ {p} : lev2[f] = lev[f]
  /\ \A t \in Frame, k \in Index : k \in J[t] <=> k \in H[t] \/ (t = a /\ k = b)
  /\ N[a][b].address = p
  /\ \A t \in Frame : \A k \in H[t] : N[t][k].address = M[t][k].address

LEMMA TreeAdd ==
  ASSUME NEW lev, NEW lev2, NEW H \in Holdings, NEW J \in Holdings, NEW M, NEW N,
         NEW a, NEW b, NEW p,
         Tree(lev, H, M), Adds(lev, lev2, H, J, M, N, a, b, p)
  PROVE  Tree(lev2, J, N)
  <1>1. /\ lev \in [Frame -> 0 .. 4] /\ lev[a] \in 2 .. 4
        /\ \A f \in Frame \ {p} : lev2[f] = lev[f]
        /\ a # p /\ p # Root
    BY FrameAssumption DEF Tree, Adds
  <1>2. lev2[p] = lev[a] - 1 /\ lev2 \in [Frame -> 0 .. 4] /\ lev2[a] = lev[a]
    BY <1>1 DEF Tree, Adds
  <1>3. \A t \in Frame : \A k \in J[t] :
          \/ t = a /\ k = b
          \/ /\ k \in H[t] /\ N[t][k].address = M[t][k].address
             /\ M[t][k].address # p /\ t # p
    BY <1>1 DEF Tree, Adds, Holdings
  <1>4. \A f \in Frame : lev2[f] = 4 <=> f = Root
    BY <1>1, <1>2 DEF Tree, Adds
  <1>5. \A t \in Frame : \A k \in J[t] :
          N[t][k].address \in Frame /\ lev2[N[t][k].address] + 1 = lev2[t] /\ lev2[t] >= 2
    BY <1>1, <1>2, <1>3 DEF Tree, Adds
  <1>6. \A t, u \in Frame : \A k \in J[t], j \in J[u] :
          N[t][k].address = N[u][j].address => t = u /\ k = j
    BY <1>3 DEF Tree, Adds
  <1>7. ASSUME NEW f \in Frame, lev2[f] \in 1 .. 3
        PROVE  \E t \in Frame : \E k \in J[t] : N[t][k].address = f
    <2>1. CASE f = p
      BY <2>1 DEF Adds
    <2>2. CASE f # p
      <3>1. lev[f] \in 1 .. 3
        BY <1>1, <1>7, <2>2
      <3>2. PICK t \in Frame : \E k \in H[t] : M[t][k].address = f
        BY <3>1 DEF Tree, Adds
      <3>3. PICK k \in H[t] : M[t][k].address = f
        BY <3>2
      <3>4. k \in Index
        BY DEF Holdings
      <3> QED
        BY <3>3, <3>4 DEF Adds
    <2> QED
      BY <2>1, <2>2
  <1> QED
    BY <1>1, <1>2, <1>4, <1>5, <1>6, <1>7 DEF Tree, Adds

-----------------------------------------------------------------------------
(***************************************************************************)
(* The free list: a frame put at its front, and the first one taken off.   *)
(***************************************************************************)
LEMMA Links ==
  ASSUME NEW f \in Frame \cup {NULL}
  PROVE  Link(f) \in Word /\ Link(f).address = f /\ Zero \in Word
  BY DEF Link, Zero, Word

LEMMA FirstIndex == 0 \in Index /\ ENTRIES \in Nat /\ HALF \in Nat /\ HALF < ENTRIES
  BY SizeAssumption DEF Index

\* free_list is NULL or the first of the free frames.
LEMMA FreeListHead ==
  ASSUME FreeOK
  PROVE  /\ free = <<>> => free_list = NULL
         /\ free # <<>> => free_list = free[1] /\ free_list \in Free /\ Len(free) >= 1
         /\ free_list \in Frame \cup {NULL}
         /\ Free \subseteq Frame
         /\ Len(free) \in Nat
  <1>1. Len(free) \in Nat /\ free \in [1 .. Len(free) -> Frame]
    BY LenProperties DEF FreeOK
  <1>2. free # <<>> => Len(free) >= 1
    BY <1>1, EmptySeq DEF FreeOK
  <1>3. Free \subseteq Frame
    BY <1>1 DEF Free
  <1>4. free # <<>> => free[1] \in Free
    BY <1>1, <1>2 DEF Free
  <1>5. free_list = IF free = <<>> THEN NULL ELSE free[1]
    BY DEF FreeOK, FreeListIntact
  <1> QED
    BY <1>1, <1>2, <1>3, <1>4, <1>5

LEMMA FreeFrame ==
  ASSUME mem \in Memory, FreeOK, NEW p \in Frame, p \notin Free, pmem_free(p)
  PROVE  /\ mem' \in Memory
         /\ \A f \in Frame \ {p} : mem'[f] = mem[f]
         /\ FreeOK'
         /\ Free' = Free \cup {p}
  <1>1. free_list \in Frame \cup {NULL} /\ Len(free) \in Nat
    BY FreeListHead
  <1>2. /\ mem' \in Memory /\ mem'[p][0] = Link(free_list)
        /\ \A f \in Frame \ {p} : mem'[f] = mem[f]
    BY <1>1, Links, FirstIndex DEF pmem_free, Memory
  <1>3. /\ free' \in Seq(Frame) /\ Len(free') = Len(free) + 1
        /\ free'[1] = p
        /\ \A k \in 1 .. Len(free) : free'[k + 1] = free[k] /\ free[k] \in Frame
    BY <1>1 DEF pmem_free, FreeOK
  <1>4. \A k \in 1 .. Len(free') : k = 1 \/ (k - 1 \in 1 .. Len(free) /\ free'[k] = free[k - 1])
    <2> TAKE k \in 1 .. Len(free')
    <2> SUFFICES ASSUME k # 1 PROVE k - 1 \in 1 .. Len(free) /\ free'[k] = free[k - 1]
      OBVIOUS
    <2>1. k - 1 \in 1 .. Len(free) /\ (k - 1) + 1 = k
      BY <1>1, <1>3
    <2> QED
      BY <1>3, <2>1
  <1>5. Free' = Free \cup {p}
    <2>1. Free' \subseteq Free \cup {p}
      BY <1>3, <1>4 DEF Free
    <2>2. p \in Free'
      <3>1. 1 \in 1 .. Len(free')
        BY <1>1, <1>3
      <3> QED
        BY <1>3, <3>1 DEF Free
    <2>3. ASSUME NEW k \in 1 .. Len(free) PROVE free[k] \in Free'
      <3>1. k + 1 \in 1 .. Len(free')
        BY <1>1, <1>3
      <3> QED
        BY <1>3, <3>1 DEF Free
    <2> QED
      BY <2>1, <2>2, <2>3 DEF Free
  <1>6. \A k \in 1 .. Len(free) : free[k] # p
    BY DEF Free
  <1>7. free_list' = p /\ free' # <<>>
    BY <1>1, <1>3, EmptySeq DEF pmem_free
  <1>8. ASSUME NEW k \in 1 .. Len(free')
        PROVE  mem'[free'[k]][0] = Link(IF k = Len(free') THEN NULL ELSE free'[k + 1])
    <2>1. CASE k = 1
      <3>1. CASE Len(free) = 0
        BY <1>2, <1>3, <2>1, <3>1, LenProperties DEF FreeOK, FreeListIntact
      <3>2. CASE Len(free) # 0
        <4>1. free # <<>> /\ free'[2] = free[1] /\ Len(free') # 1
          BY <1>1, <1>3, <3>2
        <4> QED
          BY <1>2, <1>3, <2>1, <4>1, FreeListHead
      <3> QED
        BY <3>1, <3>2
    <2>2. CASE k # 1
      <3>1. k - 1 \in 1 .. Len(free) /\ free'[k] = free[k - 1]
        BY <1>4, <2>2
      <3>2. mem'[free'[k]] = mem[free[k - 1]]
        BY <1>2, <1>3, <1>6, <3>1
      <3>3. mem[free[k - 1]][0] = Link(IF k - 1 = Len(free) THEN NULL ELSE free[(k - 1) + 1])
        BY <3>1 DEF FreeOK, FreeListIntact
      <3>4. k - 1 = Len(free) <=> k = Len(free')
        BY <1>1, <1>3
      <3>5. k # Len(free') => free'[k + 1] = free[(k - 1) + 1]
        <4> SUFFICES ASSUME k # Len(free') PROVE free'[k + 1] = free[(k - 1) + 1]
          OBVIOUS
        <4>1. k \in 1 .. Len(free) /\ (k - 1) + 1 = k
          BY <1>1, <1>3
        <4> QED
          BY <1>3, <4>1
      <3> QED
        BY <3>2, <3>3, <3>4, <3>5
    <2> QED
      BY <2>1, <2>2
  <1>9. ASSUME NEW j \in 1 .. Len(free'), NEW k \in 1 .. Len(free'), free'[j] = free'[k]
        PROVE  j = k
    <2>1. CASE j = 1 \/ k = 1
      BY <1>3, <1>4, <1>6, <1>9, <2>1
    <2>2. CASE j # 1 /\ k # 1
      <3>1. /\ j - 1 \in 1 .. Len(free) /\ k - 1 \in 1 .. Len(free)
            /\ free[j - 1] = free[k - 1]
        BY <1>4, <1>9, <2>2
      <3>2. j - 1 = k - 1
        BY <3>1 DEF FreeOK, FreeListIntact
      <3> QED
        BY <1>1, <1>3, <3>2
    <2> QED
      BY <2>1, <2>2
  <1> QED
    BY <1>2, <1>3, <1>5, <1>7, <1>8, <1>9 DEF FreeOK, FreeListIntact

\* The first free frame, zeroed, becomes what word k of table t holds.
LEMMA TakeFrame ==
  ASSUME mem \in Memory, FreeOK, free_list # NULL,
         NEW t \in Frame, t \notin Free, NEW k \in Index, NEW e \in Word,
         mem' = [mem EXCEPT ![free_list] = [n \in Index |-> Zero], ![t][k] = e],
         free_list' = mem[free_list][0].address,
         free' = Tail(free)
  PROVE  /\ mem' \in Memory
         /\ free_list \in Free /\ free_list \in Frame
         /\ mem'[free_list] = [n \in Index |-> Zero]
         /\ mem'[t][k] = e
         /\ \A f \in Frame \ {free_list}, n \in Index :
              ~(f = t /\ n = k) => mem'[f][n] = mem[f][n]
         /\ FreeOK'
         /\ Free' = Free \ {free_list}
  <1>1. /\ free # <<>> /\ free_list = free[1] /\ free_list \in Free /\ free_list \in Frame
        /\ Len(free) \in Nat /\ Len(free) >= 1 /\ Free \subseteq Frame
    BY FreeListHead
  <1>2. /\ mem' \in Memory /\ mem'[free_list] = [n \in Index |-> Zero]
        /\ mem'[t][k] = e
        /\ \A f \in Frame \ {free_list}, n \in Index :
             ~(f = t /\ n = k) => mem'[f][n] = mem[f][n]
        /\ \A f \in Frame \ {free_list, t} : mem'[f] = mem[f]
    <2>1. [n \in Index |-> Zero] \in [Index -> Word] /\ t # free_list
      BY <1>1, Links
    <2> QED
      BY <1>1, <2>1 DEF Memory
  <1>3. /\ free' \in Seq(Frame) /\ Len(free') = Len(free) - 1
        /\ \A j \in 1 .. Len(free') : free'[j] = free[j + 1]
    BY <1>1 DEF FreeOK
  <1>4. /\ \A j \in 1 .. Len(free') : j + 1 \in 1 .. Len(free)
        /\ \A j \in 2 .. Len(free) : j - 1 \in 1 .. Len(free') /\ free'[j - 1] = free[j]
        /\ 1 \in 1 .. Len(free)
    <2>1. \A j \in 2 .. Len(free) : j - 1 \in 1 .. Len(free') /\ (j - 1) + 1 = j
      BY <1>1, <1>3
    <2> QED
      BY <1>1, <1>3, <2>1
  <1>5. \A j \in 2 .. Len(free) : free[j] # free_list /\ free[j] # t /\ free[j] \in Frame
    BY <1>1 DEF FreeOK, FreeListIntact, Free
  <1>6. Free' = Free \ {free_list}
    <2>1. Free' \subseteq Free \ {free_list}
      <3>1. \A j \in 1 .. Len(free') : j + 1 \in 2 .. Len(free)
        BY <1>1, <1>3
      <3> QED
        BY <1>3, <1>4, <1>5, <3>1 DEF Free
    <2>2. ASSUME NEW j \in 1 .. Len(free), free[j] # free_list PROVE free[j] \in Free'
      <3>1. j \in 2 .. Len(free)
        BY <1>1, <2>2
      <3> QED
        BY <1>4, <3>1 DEF Free
    <2> QED
      BY <2>1, <2>2 DEF Free
  <1>7. ASSUME NEW j \in 1 .. Len(free')
        PROVE  mem'[free'[j]][0] = Link(IF j = Len(free') THEN NULL ELSE free'[j + 1])
    <2>1. /\ j + 1 \in 2 .. Len(free) /\ free'[j] = free[j + 1]
          /\ j + 1 = Len(free) <=> j = Len(free')
          /\ j # Len(free') => free'[j + 1] = free[(j + 1) + 1]
      BY <1>1, <1>3
    <2>2. mem'[free'[j]] = mem[free[j + 1]]
      BY <1>2, <1>5, <2>1
    <2>3. mem[free[j + 1]][0] = Link(IF j + 1 = Len(free) THEN NULL ELSE free[(j + 1) + 1])
      BY <1>4, <2>1 DEF FreeOK, FreeListIntact
    <2> QED
      BY <2>1, <2>2, <2>3
  <1>8. ASSUME NEW j \in 1 .. Len(free'), NEW n \in 1 .. Len(free'), free'[j] = free'[n]
        PROVE  j = n
    <2>1. j + 1 = n + 1
      BY <1>3, <1>4, <1>8 DEF FreeOK, FreeListIntact
    <2> QED
      BY <1>3, <2>1
  <1>9. free_list' = IF free' = <<>> THEN NULL ELSE free'[1]
    <2>1. mem[free[1]][0] = Link(IF 1 = Len(free) THEN NULL ELSE free[2])
      <3>1. mem[free[1]][0] = Link(IF 1 = Len(free) THEN NULL ELSE free[1 + 1])
        BY <1>4 DEF FreeOK, FreeListIntact
      <3> QED
        BY <3>1
    <2>2. CASE Len(free) = 1
      <3>1. free' = <<>>
        BY <1>3, <2>2, EmptySeq, SeqEqual
      <3> QED
        BY <1>1, <2>1, <2>2, <3>1, Links
    <2>3. CASE Len(free) # 1
      <3>1. /\ Len(free') # 0 /\ 1 \in 1 .. Len(free') /\ 2 \in 2 .. Len(free)
            /\ free'[1] = free[1 + 1]
        BY <1>1, <1>3, <2>3
      <3>2. free' # <<>>
        BY <3>1, EmptySeq
      <3>3. free'[1] = free[2]
        BY <3>1
      <3>4. free[2] \in Frame
        BY <1>5, <3>1
      <3> QED
        BY <1>1, <2>1, <2>3, <3>2, <3>3, <3>4, Links
    <2> QED
      BY <2>2, <2>3
  <1> QED
    BY <1>1, <1>2, <1>3, <1>6, <1>7, <1>8, <1>9 DEF FreeOK, FreeListIntact

\* A word is written in a frame that is not free.
Written(t, k, e) == mem' = [mem EXCEPT ![t][k] = e]

LEMMA WordWritten ==
  ASSUME mem \in Memory, FreeOK, NEW t \in Frame, t \notin Free, NEW k \in Index,
         NEW e \in Word, Written(t, k, e), UNCHANGED <<free_list, free>>
  PROVE  /\ mem' \in Memory
         /\ mem'[t][k] = e
         /\ \A f \in Frame, n \in Index : ~(f = t /\ n = k) => mem'[f][n] = mem[f][n]
         /\ FreeOK'
         /\ Free' = Free
  <1>1. /\ mem' \in Memory /\ mem'[t][k] = e
        /\ \A f \in Frame, n \in Index : ~(f = t /\ n = k) => mem'[f][n] = mem[f][n]
        /\ \A f \in Frame \ {t} : mem'[f] = mem[f]
    BY DEF Memory, Written
  <1>2. \A n \in 1 .. Len(free) : free[n] \in Frame \ {t}
    BY FreeListHead DEF Free
  <1>3. Free' = Free
    BY DEF Free
  <1>4. FreeOK'
    BY <1>1, <1>2 DEF FreeOK, FreeListIntact
  <1> QED
    BY <1>1, <1>3, <1>4

-----------------------------------------------------------------------------
(***************************************************************************)
(* Steps that leave the memory alone.                                      *)
(***************************************************************************)
LEMMA HeldWords ==
  ASSUME NEW lev
  PROVE  /\ Held(lev) \in Holdings
         /\ \A t \in Frame, k \in Index : k \in Held(lev)[t] <=> HoldsTable(lev, t, k)
         /\ \A t \in Frame : \A k \in Held(lev)[t] : k \in Index /\ HoldsTable(lev, t, k)
  BY DEF Held, Holdings

LEMMA Levels ==
  ASSUME NEW lev \in [Frame -> 0 .. 4], Inv(lev)
  PROVE  /\ \A f \in Frame : lev[f] \in 0 .. 4
         /\ Root \in Frame /\ \A f \in Frame : lev[f] = 4 <=> f = Root
         /\ \A t \in Frame, k \in Index : HoldsTable(lev, t, k) =>
              /\ mem[t][k].address \in Frame
              /\ lev[mem[t][k].address] + 1 = lev[t] /\ lev[t] >= 2
         /\ \A f \in Frame : lev[f] >= 1 \/ f \in Free => f \notin KernelFrame
         /\ \A f \in Frame : lev[f] >= 1 \/ f \in Free => f \notin given
         /\ \A f \in Frame : lev[f] >= 1 => f \notin Free
  BY HeldWords, FrameAssumption DEF Inv, Tree, Apart

\* No two words hold the same table.
LEMMA OneHolder ==
  ASSUME NEW lev \in [Frame -> 0 .. 4], Inv(lev),
         NEW t \in Frame, NEW u \in Frame, NEW k \in Index, NEW j \in Index,
         HoldsTable(lev, t, k), HoldsTable(lev, u, j),
         mem[t][k].address = mem[u][j].address
  PROVE  t = u /\ k = j
  BY HeldWords DEF Inv, Tree

LEMMA SameHeld ==
  ASSUME NEW lev \in [Frame -> 0 .. 4], Inv(lev),
         mem' \in Memory,
         \A t \in Frame, k \in Index : HoldsTable(lev, t, k)' <=> HoldsTable(lev, t, k),
         \A t \in Frame, k \in Index :
           HoldsTable(lev, t, k) => mem'[t][k].address = mem[t][k].address
  PROVE  Tree(lev, Held(lev), mem)'
  <1>1. Held(lev)' \in Holdings
    BY DEF Held, Holdings
  <1>2. \A t \in Frame : Held(lev)'[t] = Held(lev)[t]
    BY DEF Held
  <1>3. \A t \in Frame : \A k \in Held(lev)[t] : mem'[t][k].address = mem[t][k].address
    BY HeldWords
  <1>4. Tree(lev, Held(lev), mem) /\ Held(lev) \in Holdings
    BY HeldWords DEF Inv
  <1>5. Tree(lev, Held(lev)', mem')
    BY <1>1, <1>2, <1>3, <1>4, TreeSame
  <1> QED
    BY <1>5 DEF Tree

LEMMA MemorySame ==
  ASSUME NEW lev \in [Frame -> 0 .. 4], Inv(lev),
         UNCHANGED <<mem, free_list, free, given>>,
         \A t \in Frame, k \in Index : HoldsTable(lev, t, k)' <=> HoldsTable(lev, t, k),
         call.fn = "init_list" => call.j > Len(Usable),
         Booted' => Booted,
         CallOK(lev)'
  PROVE  IInv'
  <1>1. mem' \in Memory /\ Tree(lev, Held(lev), mem)'
    BY SameHeld DEF Inv
  <1>2. Free' = Free /\ FreeOK' /\ Apart(lev)'
    BY DEF Inv, Apart, FreeOK, FreeListIntact, Free
  <1>3. Accounted(lev)'
    <2>1. \A k \in 1 .. Len(Usable) : Reached(k)
      <3>1. Len(Usable) \in Nat
        BY LenProperties, FrameAssumption
      <3>2. call.fn = "init_list" => call.j \in 1 .. Len(Usable) + 1
        BY DEF Inv, CallOK, InitListOK
      <3> QED
        BY <3>1, <3>2 DEF Reached
    <2>2. \A k \in 1 .. Len(Usable) : Usable[k] \in Free \cup given \/ lev[Usable[k]] >= 1
      BY <2>1 DEF Inv, Accounted
    <2> QED
      BY <1>2, <2>2 DEF Accounted
  <1>4. Booted' => PagesOK(lev)'
    BY <1>2 DEF Inv, PagesOK, PageOf
  <1>5. Inv(lev)'
    BY <1>1, <1>2, <1>3, <1>4 DEF Inv
  <1> QED
    BY <1>5 DEF IInv

\* The walk of a call that is not unmap_lower_half: no loop holds anything.
LEMMA NoLoop ==
  ASSUME NEW lev, call.fn # "unmap_lower_half" \/ call.loop = 4
  PROVE  \A t \in Frame, k \in Index :
           HoldsTable(lev, t, k) <=>
             /\ lev[t] >= 2
             /\ t = Root => k \in Lower /\ mem[t][k].present
             /\ t # Root => IsTable(mem[t][k])
  BY DEF HoldsTable, Cleared, Behind, Below

LEMMA WalkSame ==
  ASSUME NEW lev \in [Frame -> 0 .. 4], Inv(lev),
         UNCHANGED <<mem, free_list, free, given>>,
         call.fn \in Walks, call'.fn \in Walks \cup {"none", "halted"},
         CallOK(lev)'
  PROVE  IInv'
  <1>1. /\ call.fn # "unmap_lower_half" /\ call'.fn # "unmap_lower_half"
        /\ call.fn # "init_list" /\ call'.fn # "init_list"
    BY DEF Walks
  <1>2. \A t \in Frame, k \in Index : HoldsTable(lev, t, k)' <=> HoldsTable(lev, t, k)
    BY <1>1 DEF HoldsTable, Cleared, Behind, Below
  <1> QED
    BY <1>1, <1>2, MemorySame DEF Booted

\* Nothing is asked of the local variables of a call that has returned.
LEMMA NotCalled ==
  ASSUME NEW lev, call'.fn \in {"none", "halted"}
  PROVE  CallOK(lev)'
  BY DEF CallOK, InitListOK, UnmapOK, WalkOK, PathOK, Walks

LEMMA Indices ==
  \A a \in Addr : a \in [0 .. 3 -> Index] /\ a[3] \in Lower
  <1>1. \A k \in 1 .. Len(HeapAddr) : HeapAddr[k] \in [0 .. 3 -> Index]
    BY AddrAssumption, ElementOfSeq
  <1> QED
    BY <1>1, AddrAssumption DEF Addr

\* A walk is at a word of a table, which holds a table if it is present and
\* the walk goes on.
LEMMA WalkAt ==
  ASSUME NEW lev \in [Frame -> 0 .. 4], Inv(lev), call.fn \in Walks
  PROVE  /\ call.va \in Addr /\ call.i \in 0 .. 3 /\ call.va[call.i] \in Index
         /\ call.table \in Frame /\ lev[call.table] = call.i + 1
         /\ call.table = Root <=> call.i = 3
         /\ call.table = Root => call.va[call.i] \in Lower
         /\ call.table \notin Free /\ call.table \notin KernelFrame
         /\ Entry \in Word
         /\ HoldsTable(lev, call.table, call.va[call.i]) <=> call.i > 0 /\ Entry.present
  <1>1. /\ call.va \in Addr /\ call.i \in 0 .. 3
        /\ call.table \in Frame /\ lev[call.table] = call.i + 1
    BY DEF Inv, CallOK, WalkOK
  <1>2. call.va[call.i] \in Index /\ call.va[3] \in Lower
    BY <1>1, Indices
  <1>3. call.table = Root <=> call.i = 3
    BY <1>1, Levels
  <1>4. call.table \notin Free /\ call.table \notin KernelFrame
    BY <1>1, Levels
  <1>5. Entry \in Word
    BY <1>1, <1>2 DEF Inv, Memory, Entry
  <1>6. call.table # Root => ~Entry.page_size
    <2>1. PagesOK(lev)
      BY DEF Inv, Booted, Walks
    <2> QED
      BY <1>1, <1>2, <2>1 DEF PagesOK, Entry
  <1>7. HoldsTable(lev, call.table, call.va[call.i]) <=> call.i > 0 /\ Entry.present
    <2>1. HoldsTable(lev, call.table, call.va[call.i]) <=>
            /\ lev[call.table] >= 2
            /\ call.table = Root => call.va[call.i] \in Lower /\ Entry.present
            /\ call.table # Root => IsTable(Entry)
      BY <1>1, <1>2, NoLoop DEF Entry, Walks
    <2>2. lev[call.table] >= 2 <=> call.i > 0
      BY <1>1
    <2> QED
      BY <1>2, <1>3, <1>6, <2>1, <2>2 DEF IsTable
  <1> QED
    BY <1>1, <1>2, <1>3, <1>4, <1>5, <1>7

-----------------------------------------------------------------------------
(***************************************************************************)
(* vm_map, vm_protect and vm_unmap, step by step.                          *)
(***************************************************************************)
\* The walk goes down: the word it leaves is present.
LEMMA DescendStep ==
  ASSUME NEW lev \in [Frame -> 0 .. 4], Inv(lev), call.fn \in Walks, call.i > 0,
         Entry.present, Descend, UNCHANGED <<mem, free_list, free, given>>
  PROVE  IInv'
  <1> DEFINE c == [call EXCEPT !.i = @ - 1, !.table = Entry.address]
  <1>1. {"va", "i", "table"} \subseteq DOMAIN call
    BY DEF Inv, CallOK, WalkOK
  <1>2. /\ call'.fn = call.fn /\ call'.va = call.va
        /\ call'.i = call.i - 1 /\ call'.table = Entry.address
        /\ {"va", "i", "table"} \subseteq DOMAIN call'
        /\ "perm" \in DOMAIN call => "perm" \in DOMAIN call' /\ call'.perm = call.perm
    BY <1>1 DEF Descend, Walks
  <1>3. Entry.address \in Frame /\ lev[Entry.address] = call.i
    <2>1. PICK t : t = call.table
      OBVIOUS
    <2>2. PICK k : k = call.va[call.i]
      OBVIOUS
    <2>3. Entry = mem[t][k]
      BY <2>1, <2>2 DEF Entry
    <2>4. t \in Frame /\ k \in Index /\ lev[t] = call.i + 1 /\ call.i \in 0 .. 3
      BY <2>1, <2>2, WalkAt
    <2>5. HoldsTable(lev, t, k)
      BY <2>1, <2>2, WalkAt
    <2>6. PICK f : f = mem[t][k].address
      OBVIOUS
    <2>7. f \in Frame /\ lev[f] + 1 = lev[t]
      BY <2>4, <2>5, <2>6, Levels
    <2>8. lev[f] \in 0 .. 4
      BY <2>7, Levels
    <2> QED
      BY <2>3, <2>4, <2>6, <2>7, <2>8
  <1>4. InitListOK(lev)' /\ UnmapOK(lev)'
    <2>1. call'.fn # "init_list" /\ call'.fn # "unmap_lower_half"
      BY <1>2 DEF Walks
    <2> QED
      BY <2>1 DEF InitListOK, UnmapOK
  <1>5. WalkOK(lev)'
    <2>1. call.fn # "vm_unmap" => "perm" \in DOMAIN call /\ call.perm \in Permission
      BY DEF Inv, CallOK, WalkOK
    <2> QED
      BY <1>2, <1>3, <2>1, WalkAt DEF WalkOK
  <1>6. PathOK'
    <2> SUFFICES ASSUME call.fn = "vm_unmap"
                 PROVE  /\ call'.i # 3
                        /\ call'.i = 2 =>
                             /\ mem[call'.table][call.va[2]].present
                             /\ mem[mem[call'.table][call.va[2]].address][call.va[1]].present
                        /\ call'.i = 1 => mem[call'.table][call.va[1]].present
      BY <1>2 DEF PathOK
    <2>1. call'.i # 3
      BY <1>2, WalkAt
    <2>2. ASSUME call'.i = 2
          PROVE  /\ mem[call'.table][call.va[2]].present
                 /\ mem[mem[call'.table][call.va[2]].address][call.va[1]].present
      <3>1. call.i = 3 /\ call.table = Root /\ call'.table = mem[Root][call.va[3]].address
        BY <1>2, <2>2, WalkAt DEF Entry
      <3>2. HasTable(call.va)
        BY <3>1 DEF Inv, CallOK, PathOK
      <3> QED
        BY <3>1, <3>2 DEF HasTable
    <2>3. ASSUME call'.i = 1
          PROVE  mem[call'.table][call.va[1]].present
      <3>1. call.i = 2 /\ call'.table = mem[call.table][call.va[2]].address
        BY <1>2, <2>3, WalkAt DEF Entry
      <3> QED
        BY <3>1 DEF Inv, CallOK, PathOK
    <2> QED
      BY <2>1, <2>2, <2>3
  <1>7. CallOK(lev)'
    BY <1>4, <1>5, <1>6 DEF CallOK
  <1> QED
    BY <1>2, <1>7, WalkSame

\* The call returns, or halts, without having written.
LEMMA ReturnStep ==
  ASSUME NEW lev \in [Frame -> 0 .. 4], Inv(lev), call.fn \in Walks,
         call'.fn \in {"none", "halted"}, UNCHANGED <<mem, free_list, free, given>>
  PROVE  IInv'
  BY NotCalled, WalkSame

LEMMA MapPresentIInv ==
  ASSUME NEW lev \in [Frame -> 0 .. 4], Inv(lev), MapPresent PROVE IInv'
  <1>1. call.fn \in Walks /\ UNCHANGED <<mem, free_list, free, given>>
    BY DEF MapPresent, Walks, history
  <1>2. CASE call.i = 0 /\ Return(FALSE)
    BY <1>1, <1>2, ReturnStep DEF Return, Idle
  <1>3. CASE call.i > 0 /\ Descend
    BY <1>1, <1>3, DescendStep DEF MapPresent
  <1> QED
    BY <1>2, <1>3 DEF MapPresent

LEMMA MapNoMemoryIInv ==
  ASSUME NEW lev \in [Frame -> 0 .. 4], Inv(lev), MapNoMemory PROVE IInv'
  BY ReturnStep DEF MapNoMemory, Walks, history

LEMMA ProtectAbsentIInv ==
  ASSUME NEW lev \in [Frame -> 0 .. 4], Inv(lev), ProtectAbsent PROVE IInv'
  BY ReturnStep DEF ProtectAbsent, Walks, history, Return, Idle

LEMMA ProtectTableIInv ==
  ASSUME NEW lev \in [Frame -> 0 .. 4], Inv(lev), ProtectTable PROVE IInv'
  BY DescendStep DEF ProtectTable, Walks, history

\* vm_unmap is called for addresses that have a table.
LEMMA UnmapTablePresent ==
  ASSUME NEW lev \in [Frame -> 0 .. 4], Inv(lev), UnmapTable PROVE Entry.present
  <1>1. /\ call.fn \in Walks /\ call.i > 0
        /\ PathOK /\ call.fn = "vm_unmap"
    BY DEF UnmapTable, Walks, Inv, CallOK
  <1>2. call.i \in 1 .. 3
    BY <1>1, WalkAt
  <1>3. CASE call.i = 3
    BY <1>1, <1>3, WalkAt DEF PathOK, HasTable, Entry
  <1>4. CASE call.i = 2
    BY <1>1, <1>4 DEF PathOK, Entry
  <1>5. CASE call.i = 1
    BY <1>1, <1>5 DEF PathOK, Entry
  <1> QED
    BY <1>2, <1>3, <1>4, <1>5

LEMMA UnmapTableIInv ==
  ASSUME NEW lev \in [Frame -> 0 .. 4], Inv(lev), UnmapTable PROVE IInv'
  BY UnmapTablePresent, DescendStep DEF UnmapTable, Walks, history

\* A frame is taken for the word that the walk is at.
LEMMA AllocateAt ==
  ASSUME NEW lev \in [Frame -> 0 .. 4], Inv(lev), call.fn \in Walks,
         NEW e \in Word, Allocate(e)
  PROVE  /\ mem' \in Memory
         /\ free_list \in Frame /\ free_list \in Free /\ lev[free_list] = 0
         /\ free_list # call.table /\ free_list \notin KernelFrame
         /\ \A n \in Index : mem'[free_list][n] = Zero
         /\ mem'[call.table][call.va[call.i]] = e
         /\ \A f \in Frame \ {free_list}, n \in Index :
              ~(f = call.table /\ n = call.va[call.i]) => mem'[f][n] = mem[f][n]
         /\ FreeOK'
         /\ Free' = Free \ {free_list}
  <1>1. /\ call.table \in Frame /\ call.table \notin Free /\ call.va[call.i] \in Index
    BY WalkAt
  <1>2. mem \in Memory /\ FreeOK
    BY DEF Inv
  <1>3. /\ free_list # NULL
        /\ mem' = [mem EXCEPT ![free_list] = [n \in Index |-> Zero],
                              ![call.table][call.va[call.i]] = e]
        /\ free_list' = mem[free_list][0].address
        /\ free' = Tail(free)
    BY DEF Allocate
  <1>4. /\ mem' \in Memory
        /\ free_list \in Free /\ free_list \in Frame
        /\ mem'[free_list] = [n \in Index |-> Zero]
        /\ mem'[call.table][call.va[call.i]] = e
        /\ \A f \in Frame \ {free_list}, n \in Index :
             ~(f = call.table /\ n = call.va[call.i]) => mem'[f][n] = mem[f][n]
        /\ FreeOK'
        /\ Free' = Free \ {free_list}
    BY <1>1, <1>2, <1>3, TakeFrame
  <1>5. lev[free_list] = 0 /\ free_list # call.table /\ free_list \notin KernelFrame
    <2>1. lev[free_list] \in 0 .. 4 /\ ~(lev[free_list] >= 1)
      BY <1>4, Levels
    <2> QED
      BY <1>1, <1>4, <2>1, Levels
  <1> QED
    BY <1>4, <1>5

LEMMA MapTableIInv ==
  ASSUME NEW lev \in [Frame -> 0 .. 4], Inv(lev), MapTable PROVE IInv'
  <1> DEFINE e == [Entry EXCEPT !.present = TRUE, !.user = TRUE,
                                !.writable = TRUE, !.address = free_list]
  <1>p. PICK p : p = free_list
    OBVIOUS
  <1>t. PICK t : t = call.table
    OBVIOUS
  <1>k. PICK k : k = call.va[call.i]
    OBVIOUS
  <1>l. PICK lev2 : lev2 = [lev EXCEPT ![p] = lev[t] - 1]
    OBVIOUS
  <1>1. /\ call.fn = "vm_map" /\ call.fn \in Walks /\ ~Entry.present /\ call.i > 0
        /\ Allocate(e) /\ given' = given
    BY DEF MapTable, Walks
  <1>2. /\ t \in Frame /\ k \in Index /\ call.i \in 1 .. 3 /\ lev[t] = call.i + 1
        /\ t = Root <=> call.i = 3
        /\ t = Root => k \in Lower
        /\ Entry \in Word /\ Entry = mem[t][k]
        /\ ~HoldsTable(lev, t, k)
    <2>1. Entry = mem[t][k]
      BY <1>t, <1>k DEF Entry
    <2>2. call.i \in 0 .. 3 /\ lev[t] = call.i + 1 /\ t \in Frame /\ k \in Index
      BY <1>1, <1>t, <1>k, WalkAt
    <2>3. /\ t = Root <=> call.i = 3
          /\ t = Root => k \in Lower
          /\ Entry \in Word
          /\ HoldsTable(lev, t, k) <=> call.i > 0 /\ Entry.present
      BY <1>1, <1>t, <1>k, WalkAt
    <2>4. call.i \in 1 .. 3
      BY <1>1, <2>2
    <2> QED
      BY <1>1, <2>1, <2>2, <2>3, <2>4
  <1>3. /\ e \in Word /\ e.present /\ e.address = p /\ e.page_size = Entry.page_size
    <2>1. p \in Frame \cup {NULL}
      BY <1>p, FreeListHead DEF Inv
    <2> QED
      BY <1>2, <1>p, <2>1 DEF Word
  <1> HIDE DEF e
  <1>4. /\ mem' \in Memory
        /\ p \in Frame /\ p \in Free /\ lev[p] = 0 /\ p # t /\ p \notin KernelFrame
        /\ \A n \in Index : mem'[p][n] = Zero
        /\ mem'[t][k] = e
        /\ \A f \in Frame \ {p}, n \in Index : ~(f = t /\ n = k) => mem'[f][n] = mem[f][n]
        /\ FreeOK'
        /\ Free' = Free \ {p}
    BY <1>1, <1>3, <1>p, <1>t, <1>k, AllocateAt
  <1>5. /\ call'.fn = "vm_map" /\ call'.i = call.i - 1 /\ call'.table = p
        /\ call'.va = call.va /\ {"va", "i", "table"} \subseteq DOMAIN call'
        /\ "perm" \in DOMAIN call' /\ call'.perm \in Permission
    <2>1. {"va", "i", "table", "perm"} \subseteq DOMAIN call /\ call.perm \in Permission
      BY <1>1 DEF Inv, CallOK, WalkOK
    <2> QED
      BY <1>1, <1>p, <2>1 DEF MapTable
  <1>6. /\ lev2 \in [Frame -> 0 .. 4] /\ lev2[p] = lev[t] - 1
        /\ \A f \in Frame \ {p} : lev2[f] = lev[f]
    BY <1>2, <1>4, <1>l, Levels
  <1>7. PagesOK(lev)
    BY <1>1 DEF Inv, Booted
  <1>8. \A u \in Frame, n \in Index :
          HoldsTable(lev2, u, n)' <=> HoldsTable(lev, u, n) \/ (u = t /\ n = k)
    <2> SUFFICES ASSUME NEW u \in Frame, NEW n \in Index
                 PROVE  HoldsTable(lev2, u, n)' <=>
                          HoldsTable(lev, u, n) \/ (u = t /\ n = k)
      OBVIOUS
    <2>1. HoldsTable(lev2, u, n)' <=>
            /\ lev2[u] >= 2
            /\ u = Root => n \in Lower /\ mem'[u][n].present
            /\ u # Root => IsTable(mem'[u][n])
      BY <1>5 DEF HoldsTable, Cleared, Behind, Below
    <2>2. HoldsTable(lev, u, n) <=>
            /\ lev[u] >= 2
            /\ u = Root => n \in Lower /\ mem[u][n].present
            /\ u # Root => IsTable(mem[u][n])
      BY <1>1, NoLoop
    <2>3. CASE u = p
      <3>1. ~HoldsTable(lev, u, n)
        BY <1>4, <2>2, <2>3
      <3>2. ~mem'[u][n].present
        BY <1>4, <2>3 DEF Zero
      <3> QED
        BY <1>4, <2>1, <2>3, <3>1, <3>2 DEF IsTable
    <2>4. CASE u = t /\ n = k
      <3>1. lev2[u] >= 2 /\ mem'[u][n] = e
        BY <1>2, <1>4, <1>6, <2>4
      <3>2. u # Root => ~e.page_size
        BY <1>2, <1>3, <1>7, <2>4 DEF PagesOK
      <3> QED
        BY <1>2, <1>3, <2>1, <2>4, <3>1, <3>2 DEF IsTable
    <2>5. CASE u # p /\ ~(u = t /\ n = k)
      <3>1. lev2[u] = lev[u] /\ mem'[u][n] = mem[u][n]
        BY <1>4, <1>6, <2>5
      <3> QED
        BY <2>1, <2>2, <2>5, <3>1
    <2> QED
      BY <2>3, <2>4, <2>5
  <1>9. Tree(lev2, Held(lev2), mem)'
    <2> DEFINE J == Held(lev2)'
    <2>1. J \in Holdings /\ \A u \in Frame, n \in Index : n \in J[u] <=> HoldsTable(lev2, u, n)'
      BY DEF Held, Holdings
    <2>2. Tree(lev, Held(lev), mem) /\ Held(lev) \in Holdings
      BY HeldWords DEF Inv
    <2>3. \A u \in Frame, n \in Index : n \in J[u] <=> n \in Held(lev)[u] \/ (u = t /\ n = k)
      BY <1>8, <2>1, HeldWords
    <2>4. k \notin Held(lev)[t] /\ lev[t] >= 2
      BY <1>2, HeldWords
    <2>5. \A u \in Frame : \A n \in Held(lev)[u] : mem'[u][n].address = mem[u][n].address
      <3> SUFFICES ASSUME NEW u \in Frame, NEW n \in Held(lev)[u]
                   PROVE  mem'[u][n].address = mem[u][n].address
        OBVIOUS
      <3>1. n \in Index /\ HoldsTable(lev, u, n)
        BY HeldWords
      <3>2. u # p /\ ~(u = t /\ n = k)
        BY <1>2, <1>4, <3>1 DEF HoldsTable
      <3> QED
        BY <1>4, <3>1, <3>2
    <2>6. mem'[t][k].address = p
      BY <1>3, <1>4
    <2> HIDE DEF J
    <2>7. Adds(lev, lev2, Held(lev), J, mem, mem', t, k, p)
      BY <1>2, <1>4, <1>6, <2>3, <2>4, <2>5, <2>6 DEF Adds
    <2>8. Tree(lev2, J, mem')
      BY <2>1, <2>2, <2>7, TreeAdd
    <2> QED
      BY <2>8 DEF Tree, J
  <1>10. Apart(lev2)'
    BY <1>1, <1>2, <1>4, <1>6, Levels DEF Apart
  <1>11. Accounted(lev2)'
    <2>1. \A n \in 1 .. Len(Usable) : Usable[n] \in Free \cup given \/ lev[Usable[n]] >= 1
      BY <1>1 DEF Inv, Accounted, Reached
    <2>2. \A n \in 1 .. Len(Usable) : Usable[n] \in Frame
      BY FrameAssumption, ElementOfSeq
    <2>3. ASSUME NEW n \in 1 .. Len(Usable)
          PROVE  Usable[n] \in Free' \cup given' \/ lev2[Usable[n]] >= 1
      <3>1. CASE Usable[n] = p
        BY <1>2, <1>6, <3>1
      <3>2. CASE Usable[n] # p
        BY <1>1, <1>4, <1>6, <2>1, <2>2, <3>2
      <3> QED
        BY <3>1, <3>2
    <2> QED
      BY <2>3 DEF Accounted
  <1>12. PagesOK(lev2)'
    <2>1. ASSUME NEW u \in Frame \ {Root}, NEW n \in Index, lev2[u] >= 1
          PROVE  ~mem'[u][n].page_size
      <3>1. CASE u = p
        BY <1>4, <3>1 DEF Zero
      <3>2. CASE u = t /\ n = k
        BY <1>2, <1>3, <1>4, <1>7, <3>2 DEF PagesOK
      <3>3. CASE u # p /\ ~(u = t /\ n = k)
        <4>1. lev[u] >= 1 /\ mem'[u][n] = mem[u][n]
          BY <1>4, <1>6, <2>1, <3>3
        <4> QED
          BY <1>7, <4>1 DEF PagesOK
      <3> QED
        BY <3>1, <3>2, <3>3
    <2>2. \A u \in Frame, n \in Index : PageOf(lev2, u, n)' =>
            PageOf(lev, u, n) /\ mem'[u][n] = mem[u][n]
      <3> SUFFICES ASSUME NEW u \in Frame, NEW n \in Index, lev2[u] = 1, mem'[u][n].present
                   PROVE  lev[u] = 1 /\ mem[u][n].present /\ mem'[u][n] = mem[u][n]
        BY DEF PageOf
      <3>1. u # p
        BY <1>4 DEF Zero
      <3>2. lev[u] = 1 /\ u # t
        BY <1>2, <1>6, <3>1
      <3> QED
        BY <1>4, <3>1, <3>2
    <2>3. ASSUME NEW u \in Frame, NEW n \in Index, PageOf(lev2, u, n)',
                 NEW f, f = mem'[u][n].address
          PROVE  /\ f \in Frame /\ lev2[f] = 0 /\ f \notin Free' \cup KernelFrame
                 /\ \A v \in Frame, j \in Index :
                      PageOf(lev2, v, j)' /\ mem'[v][j].address = f => v = u /\ j = n
      <3>1. PageOf(lev, u, n) /\ f = mem[u][n].address
        BY <2>2, <2>3
      <3>2. f \in Frame /\ lev[f] = 0 /\ f \notin Free \cup KernelFrame
        BY <1>7, <3>1 DEF PagesOK
      <3>3. f # p
        BY <1>4, <3>2
      <3>4. \A v \in Frame, j \in Index :
              PageOf(lev, v, j) /\ mem[v][j].address = f => v = u /\ j = n
        BY <1>7, <3>1 DEF PagesOK
      <3> QED
        BY <1>4, <1>6, <2>2, <3>2, <3>3, <3>4
    <2> QED
      BY <2>1, <2>3 DEF PagesOK
  <1>13. CallOK(lev2)'
    <2>1. WalkOK(lev2)'
      BY <1>1, <1>2, <1>4, <1>5, <1>6, WalkAt DEF WalkOK
    <2> QED
      BY <1>5, <2>1 DEF CallOK, InitListOK, UnmapOK, PathOK
  <1>14. Inv(lev2)'
    BY <1>4, <1>9, <1>10, <1>11, <1>12, <1>13 DEF Inv
  <1> QED
    BY <1>6, <1>14 DEF IInv

\* The walk ends at a word of a level 1 table, and the call with a write to it:
\* the page it holds after that, if any, is the one it held or was free.
LEMMA PageWritten ==
  ASSUME NEW lev \in [Frame -> 0 .. 4], Inv(lev), call.fn \in Walks, call.i = 0,
         call' = Idle, mem' \in Memory, FreeOK', Free' \subseteq Free,
         Free \subseteq Free' \cup given', given \subseteq given',
         given' \subseteq given \cup (Free \ Free'),
         NEW t, t = call.table, NEW k, k = call.va[0],
         \A f \in Frame, n \in Index :
           lev[f] >= 1 /\ ~(f = t /\ n = k) => mem'[f][n] = mem[f][n],
         ~mem[t][k].page_size => ~mem'[t][k].page_size,
         mem'[t][k].present =>
           \/ mem'[t][k].address \in Free \ Free'
           \/ mem[t][k].present /\ mem'[t][k].address = mem[t][k].address
  PROVE  IInv'
  <1>1. t \in Frame /\ k \in Index /\ lev[t] = 1 /\ t # Root
    <2>1. /\ call.va[call.i] \in Index /\ call.table \in Frame
          /\ lev[call.table] = call.i + 1 /\ (call.table = Root <=> call.i = 3)
      BY WalkAt
    <2>2. k \in Index /\ t \in Frame /\ lev[t] = 0 + 1 /\ (t = Root <=> 0 = 3)
      BY <2>1
    <2> QED
      BY <2>2
  <1>2. PagesOK(lev)
    BY DEF Inv, Booted, Walks
  <1>3. Tree(lev, Held(lev), mem)'
    <2>1. \A f \in Frame, n \in Index : lev[f] >= 2 => mem'[f][n] = mem[f][n]
      <3> SUFFICES ASSUME NEW f \in Frame, NEW n \in Index, lev[f] >= 2
                   PROVE  mem'[f][n] = mem[f][n]
        OBVIOUS
      <3>1. f # t /\ lev[f] >= 1
        BY <1>1, Levels
      <3> QED
        BY <3>1
    <2>2. \A f \in Frame, n \in Index : HoldsTable(lev, f, n)' <=> HoldsTable(lev, f, n)
      <3> SUFFICES ASSUME NEW f \in Frame, NEW n \in Index
                   PROVE  HoldsTable(lev, f, n)' <=> HoldsTable(lev, f, n)
        OBVIOUS
      <3>1. HoldsTable(lev, f, n) <=>
              /\ lev[f] >= 2
              /\ f = Root => n \in Lower /\ mem[f][n].present
              /\ f # Root => IsTable(mem[f][n])
        BY NoLoop DEF Walks
      <3>2. HoldsTable(lev, f, n)' <=>
              /\ lev[f] >= 2
              /\ f = Root => n \in Lower /\ mem'[f][n].present
              /\ f # Root => IsTable(mem'[f][n])
        BY DEF HoldsTable, Cleared, Behind, Below, Idle
      <3> QED
        BY <2>1, <3>1, <3>2
    <2>3. \A f \in Frame, n \in Index :
            HoldsTable(lev, f, n) => mem'[f][n].address = mem[f][n].address
      BY <2>1 DEF HoldsTable
    <2> QED
      BY <2>2, <2>3, SameHeld
  <1>4. Apart(lev)'
    <2>1. \A f \in Frame : lev[f] >= 1 \/ f \in Free' => f \notin given'
      BY Levels
    <2> QED
      BY <2>1, Levels DEF Apart
  <1>5. Accounted(lev)'
    <2>1. \A n \in 1 .. Len(Usable) : Usable[n] \in Free \cup given \/ lev[Usable[n]] >= 1
      BY DEF Inv, Accounted, Reached, Walks
    <2> QED
      BY <2>1 DEF Accounted
  <1>6. PagesOK(lev)'
    <2>1. \A u \in Frame \ {Root}, n \in Index : lev[u] >= 1 => ~mem'[u][n].page_size
      <3> SUFFICES ASSUME NEW u \in Frame \ {Root}, NEW n \in Index, lev[u] >= 1
                   PROVE  ~mem'[u][n].page_size
        OBVIOUS
      <3>1. ~mem[u][n].page_size
        BY <1>2 DEF PagesOK
      <3>2. CASE u = t /\ n = k
        BY <3>1, <3>2
      <3>3. CASE ~(u = t /\ n = k)
        BY <3>1, <3>3
      <3> QED
        BY <3>2, <3>3
    <2>2. \A u \in Frame, n \in Index : PageOf(lev, u, n)' =>
            /\ lev[u] = 1
            /\ \/ PageOf(lev, u, n) /\ mem'[u][n].address = mem[u][n].address
               \/ u = t /\ n = k /\ mem'[u][n].address \in Free \ Free'
      <3> SUFFICES ASSUME NEW u \in Frame, NEW n \in Index, lev[u] = 1, mem'[u][n].present
                   PROVE  \/ mem[u][n].present /\ mem'[u][n].address = mem[u][n].address
                          \/ u = t /\ n = k /\ mem'[u][n].address \in Free \ Free'
        BY DEF PageOf
      <3>1. CASE u = t /\ n = k
        BY <3>1
      <3>2. CASE ~(u = t /\ n = k)
        BY <3>2
      <3> QED
        BY <3>1, <3>2
    <2>3. Free \subseteq Frame
      BY FreeListHead DEF Inv
    <2>4. ASSUME NEW u \in Frame, NEW n \in Index, PageOf(lev, u, n)',
                 NEW f, f = mem'[u][n].address
          PROVE  /\ f \in Frame /\ lev[f] = 0 /\ f \notin Free' \cup KernelFrame
                 /\ \A v \in Frame, j \in Index :
                      PageOf(lev, v, j)' /\ mem'[v][j].address = f => v = u /\ j = n
      <3>1. CASE PageOf(lev, u, n) /\ f = mem[u][n].address
        <4>1. /\ f \in Frame /\ lev[f] = 0 /\ f \notin Free \cup KernelFrame
              /\ \A v \in Frame, j \in Index :
                   PageOf(lev, v, j) /\ mem[v][j].address = f => v = u /\ j = n
          <5>1. PICK x : x = mem[u][n].address
            OBVIOUS
          <5>2. /\ x \in Frame /\ lev[x] = 0 /\ x \notin Free \cup KernelFrame
                /\ \A v \in Frame, j \in Index :
                     PageOf(lev, v, j) /\ mem[v][j].address = x => v = u /\ j = n
            BY <1>2, <3>1, <5>1 DEF PagesOK
          <5> QED
            BY <3>1, <5>1, <5>2
        <4>2. f \notin Free' \cup KernelFrame
          BY <4>1
        <4>3. ASSUME NEW v \in Frame, NEW j \in Index,
                     PageOf(lev, v, j)', mem'[v][j].address = f
              PROVE  v = u /\ j = n
          <5>1. CASE PageOf(lev, v, j) /\ mem'[v][j].address = mem[v][j].address
            BY <4>1, <4>3, <5>1
          <5>2. CASE v = t /\ j = k /\ mem'[v][j].address \in Free \ Free'
            BY <4>1, <4>3, <5>2
          <5> QED
            BY <2>2, <4>3, <5>1, <5>2
        <4> QED
          BY <4>1, <4>2, <4>3
      <3>2. CASE u = t /\ n = k /\ f \in Free \ Free'
        <4>1. f \in Frame /\ lev[f] = 0 /\ f \notin Free' \cup KernelFrame
          <5>1. f \in Frame /\ f \in Free /\ lev[f] \in 0 .. 4
            BY <2>3, <3>2
          <5> QED
            BY <3>2, <5>1, Levels
        <4>2. \A v \in Frame, j \in Index : PageOf(lev, v, j) => mem[v][j].address \notin Free
          BY <1>2 DEF PagesOK
        <4> QED
          BY <2>2, <3>2, <4>1, <4>2
      <3> QED
        BY <2>2, <2>4, <3>1, <3>2
    <2> QED
      BY <2>1, <2>4 DEF PagesOK
  <1>7. CallOK(lev)'
    BY NotCalled DEF Idle
  <1>8. Inv(lev)'
    BY <1>3, <1>4, <1>5, <1>6, <1>7 DEF Inv
  <1> QED
    BY <1>8 DEF IInv

LEMMA MapPageIInv ==
  ASSUME NEW lev \in [Frame -> 0 .. 4], Inv(lev), MapPage PROVE IInv'
  <1> DEFINE e == [Entry EXCEPT !.present = TRUE, !.user = call.perm.user,
                                !.writable = call.perm.writable,
                                !.no_execute = ~call.perm.executable,
                                !.address = free_list]
  <1>t. PICK t : t = call.table
    OBVIOUS
  <1>k. PICK k : k = call.va[0]
    OBVIOUS
  <1>1. /\ call.fn \in Walks /\ call.i = 0 /\ ~Entry.present
        /\ Allocate(e) /\ given' = given \cup {free_list} /\ call' = Idle
    BY DEF MapPage, Return, Walks
  <1>2. e \in Word /\ e.address = free_list /\ e.page_size = Entry.page_size
    <2>1. /\ call.perm.user \in BOOLEAN /\ call.perm.writable \in BOOLEAN
          /\ call.perm.executable \in BOOLEAN
      BY DEF Inv, CallOK, WalkOK, MapPage, Walks, Permission
    <2>2. (~call.perm.executable) \in BOOLEAN
      OBVIOUS
    <2>3. free_list \in Frame \cup {NULL} /\ Entry \in Word
      BY <1>1, FreeListHead, WalkAt DEF Inv
    <2> QED
      BY <2>1, <2>2, <2>3 DEF Word
  <1> HIDE DEF e
  <1>3. /\ mem' \in Memory /\ free_list \in Free /\ lev[free_list] = 0
        /\ mem'[t][k] = e /\ Entry = mem[t][k]
        /\ \A f \in Frame \ {free_list}, n \in Index :
             ~(f = t /\ n = k) => mem'[f][n] = mem[f][n]
        /\ FreeOK'
        /\ Free' = Free \ {free_list}
    BY <1>1, <1>2, <1>t, <1>k, AllocateAt DEF Entry
  <1>4. \A f \in Frame, n \in Index :
          lev[f] >= 1 /\ ~(f = t /\ n = k) => mem'[f][n] = mem[f][n]
    BY <1>3
  <1>5. ~mem[t][k].page_size => ~mem'[t][k].page_size
    BY <1>2, <1>3
  <1>6. mem'[t][k].address \in Free \ Free'
    BY <1>2, <1>3
  <1>7. /\ Free' \subseteq Free /\ Free \subseteq Free' \cup given' /\ given \subseteq given'
        /\ given' \subseteq given \cup (Free \ Free')
    BY <1>1, <1>3
  <1> QED
    BY <1>1, <1>3, <1>4, <1>5, <1>6, <1>7, <1>t, <1>k, PageWritten

LEMMA ProtectPageIInv ==
  ASSUME NEW lev \in [Frame -> 0 .. 4], Inv(lev), ProtectPage PROVE IInv'
  <1> DEFINE e == [Entry EXCEPT !.user = call.perm.user,
                                !.writable = call.perm.writable,
                                !.no_execute = ~call.perm.executable]
  <1>t. PICK t : t = call.table
    OBVIOUS
  <1>k. PICK k : k = call.va[0]
    OBVIOUS
  <1>1. /\ call.fn \in Walks /\ call.i = 0 /\ call.fn # "vm_unmap" /\ call' = Idle
        /\ UNCHANGED <<free_list, free, given>>
    BY DEF ProtectPage, Return, Walks, history
  <1>2. t \in Frame /\ k \in Index /\ t \notin Free /\ Entry \in Word /\ Entry = mem[t][k]
    BY <1>1, <1>t, <1>k, WalkAt DEF Entry
  <1>3. e \in Word /\ e.address = Entry.address /\ e.page_size = Entry.page_size
        /\ e.present = Entry.present
    <2>1. /\ call.perm.user \in BOOLEAN /\ call.perm.writable \in BOOLEAN
          /\ call.perm.executable \in BOOLEAN
      BY <1>1 DEF Inv, CallOK, WalkOK, Permission
    <2>2. (~call.perm.executable) \in BOOLEAN
      OBVIOUS
    <2> QED
      BY <1>2, <2>1, <2>2 DEF Word
  <1>4. Written(t, k, e)
    BY <1>1, <1>2, <1>t, <1>k DEF ProtectPage, Written
  <1> HIDE DEF e
  <1>5. /\ mem' \in Memory /\ mem'[t][k] = e /\ FreeOK' /\ Free' = Free
        /\ \A f \in Frame, n \in Index : ~(f = t /\ n = k) => mem'[f][n] = mem[f][n]
    <2>1. mem \in Memory /\ FreeOK
      BY DEF Inv
    <2> QED
      BY <1>1, <1>2, <1>3, <1>4, <2>1, WordWritten
  <1>6. ~mem[t][k].page_size => ~mem'[t][k].page_size
    BY <1>2, <1>3, <1>5
  <1>7. mem'[t][k].present =>
          mem[t][k].present /\ mem'[t][k].address = mem[t][k].address
    BY <1>2, <1>3, <1>5
  <1>8. /\ Free' \subseteq Free /\ Free \subseteq Free' \cup given' /\ given \subseteq given'
        /\ given' \subseteq given \cup (Free \ Free')
    BY <1>1, <1>5
  <1> QED
    BY <1>1, <1>5, <1>6, <1>7, <1>8, <1>t, <1>k, PageWritten

LEMMA UnmapPageIInv ==
  ASSUME NEW lev \in [Frame -> 0 .. 4], Inv(lev), UnmapPage PROVE IInv'
  <1> DEFINE e == [Entry EXCEPT !.present = FALSE]
  <1>t. PICK t : t = call.table
    OBVIOUS
  <1>k. PICK k : k = call.va[0]
    OBVIOUS
  <1>1. /\ call.fn \in Walks /\ call.i = 0 /\ call' = Idle
        /\ UNCHANGED <<free_list, free, given>>
    BY DEF UnmapPage, Return, Walks, history
  <1>2. t \in Frame /\ k \in Index /\ t \notin Free /\ Entry \in Word /\ Entry = mem[t][k]
    BY <1>1, <1>t, <1>k, WalkAt DEF Entry
  <1>3. e \in Word /\ e.address = Entry.address /\ e.page_size = Entry.page_size
        /\ ~e.present
    BY <1>2 DEF Word
  <1>4. Written(t, k, e)
    BY <1>1, <1>2, <1>t, <1>k DEF UnmapPage, Written
  <1> HIDE DEF e
  <1>5. /\ mem' \in Memory /\ mem'[t][k] = e /\ FreeOK' /\ Free' = Free
        /\ \A f \in Frame, n \in Index : ~(f = t /\ n = k) => mem'[f][n] = mem[f][n]
    <2>1. mem \in Memory /\ FreeOK
      BY DEF Inv
    <2> QED
      BY <1>1, <1>2, <1>3, <1>4, <2>1, WordWritten
  <1>6. ~mem[t][k].page_size => ~mem'[t][k].page_size
    BY <1>2, <1>3, <1>5
  <1>7. mem'[t][k].present =>
          mem[t][k].present /\ mem'[t][k].address = mem[t][k].address
    BY <1>2, <1>3, <1>5
  <1>8. /\ Free' \subseteq Free /\ Free \subseteq Free' \cup given' /\ given \subseteq given'
        /\ given' \subseteq given \cup (Free \ Free')
    BY <1>1, <1>5
  <1> QED
    BY <1>1, <1>5, <1>6, <1>7, <1>8, <1>t, <1>k, PageWritten

LEMMA WalkStepIInv ==
  ASSUME NEW lev \in [Frame -> 0 .. 4], Inv(lev), WalkStep PROVE IInv'
  BY MapPresentIInv, MapNoMemoryIInv, MapTableIInv, MapPageIInv, ProtectAbsentIInv,
     ProtectTableIInv, ProtectPageIInv, UnmapTableIInv, UnmapPageIInv DEF WalkStep

-----------------------------------------------------------------------------
(***************************************************************************)
(* The calls, and the processor's own step.                                *)
(***************************************************************************)
LEMMA StartStep ==
  ASSUME NEW lev \in [Frame -> 0 .. 4], Inv(lev), NEW c, Start(c),
         c.fn \in Walks \/ (c.fn = "unmap_lower_half" /\ c.loop = 4),
         CallOK(lev)'
  PROVE  IInv'
  <1>1. /\ call.fn = "none" /\ call' = c /\ UNCHANGED <<mem, free_list, free, given>>
    BY DEF Start, Idle, history
  <1>2. \A t \in Frame, k \in Index : HoldsTable(lev, t, k)' <=> HoldsTable(lev, t, k)
    BY <1>1 DEF HoldsTable, Cleared, Behind, Below, Walks
  <1>3. call.fn # "init_list" /\ (Booted' => Booted)
    BY <1>1 DEF Booted, Walks
  <1> QED
    BY <1>1, <1>2, <1>3, MemorySame

LEMMA WalkStart ==
  ASSUME NEW lev \in [Frame -> 0 .. 4], Inv(lev), NEW c, Start(c),
         {"va", "i", "table"} \subseteq DOMAIN c, c.fn \in Walks,
         c.va \in Addr, c.i = 3, c.table = Root,
         c.fn # "vm_unmap" => "perm" \in DOMAIN c /\ c.perm \in Permission,
         c.fn = "vm_unmap" => HasTable(c.va)
  PROVE  IInv'
  <1>1. call' = c /\ mem' = mem
    BY DEF Start
  <1>2. lev[Root] = 4 /\ Root \in Frame
    BY Levels
  <1>3. WalkOK(lev)'
    BY <1>1, <1>2 DEF WalkOK
  <1>4. PathOK'
    <2> SUFFICES ASSUME call'.fn = "vm_unmap"
                 PROVE  /\ call'.i # 2 /\ call'.i # 1
                        /\ mem[Root][call'.va[3]].present
                        /\ mem[mem[Root][call'.va[3]].address][call'.va[2]].present
                        /\ mem[mem[mem[Root][call'.va[3]].address][call'.va[2]].address]
                              [call'.va[1]].present
      BY <1>1 DEF PathOK, HasTable
    <2>1. HasTable(c.va)
      BY <1>1
    <2>2. /\ mem[Root][c.va[3]].present
          /\ mem[mem[Root][c.va[3]].address][c.va[2]].present
          /\ mem[mem[mem[Root][c.va[3]].address][c.va[2]].address][c.va[1]].present
      BY <2>1 DEF HasTable
    <2>3. call'.va = c.va
      BY <1>1
    <2>4. call'.i # 2 /\ call'.i # 1
      BY <1>1
    <2> QED
      BY <2>2, <2>3, <2>4
  <1>5. CallOK(lev)'
    BY <1>1, <1>3, <1>4 DEF CallOK, InitListOK, UnmapOK, Walks
  <1> QED
    BY <1>5, StartStep

LEMMA ClientIInv ==
  ASSUME NEW lev \in [Frame -> 0 .. 4], Inv(lev), v_heap \in Nat, Client PROVE IInv'
  <1>1. Perm \subseteq Permission /\ UserPage \in Permission
    BY PermAssumption DEF Permission, UserPage
  <1>2. SegAddr \subseteq Addr
    BY DEF Addr
  <1>3. CASE VmMapCall
    <2>1. PICK a \in SegAddr, p \in Perm :
            Start([fn |-> "vm_map", va |-> a, perm |-> p, i |-> 3, table |-> Root])
      BY <1>3 DEF VmMapCall
    <2> QED
      BY <1>1, <1>2, <2>1, WalkStart DEF Walks
  <1>4. CASE VmProtectCall
    <2>1. PICK a \in SegAddr, p \in Perm :
            Start([fn |-> "vm_protect", va |-> a, perm |-> p, i |-> 3, table |-> Root])
      BY <1>4 DEF VmProtectCall
    <2> QED
      BY <1>1, <1>2, <2>1, WalkStart DEF Walks
  <1>5. CASE VmUnmapCall
    <2>1. PICK a \in SegAddr :
            HasTable(a) /\ Start([fn |-> "vm_unmap", va |-> a, i |-> 3, table |-> Root])
      BY <1>5 DEF VmUnmapCall
    <2> QED
      BY <1>2, <2>1, WalkStart DEF Walks
  <1>6. CASE MmapCall
    <2>1. PICK a : a = HeapAddr[v_heap \div 2 + 1]
      OBVIOUS
    <2>2. Start([fn |-> "vm_map", va |-> a, perm |-> UserPage, i |-> 3, table |-> Root,
                 mmap |-> TRUE])
      BY <1>6, <2>1 DEF MmapCall
    <2>3. a \in Addr
      <3>1. Len(HeapAddr) \in Nat
        BY AddrAssumption, LenProperties
      <3>2. v_heap \div 2 + 1 \in 1 .. Len(HeapAddr)
        BY <1>6, <3>1 DEF MmapCall
      <3> QED
        BY <2>1, <3>2 DEF Addr
    <2> QED
      BY <1>1, <2>2, <2>3, WalkStart DEF Walks
  <1>7. CASE UnmapLowerHalfCall
    <2>1. call' = UnmapLowerHalf /\ Start(UnmapLowerHalf)
      BY <1>7 DEF UnmapLowerHalfCall, Start
    <2>2. UnmapOK(lev)'
      BY <2>1, FirstIndex DEF UnmapOK, UnmapLowerHalf, Locals, Lower
    <2>3. CallOK(lev)'
      BY <2>1, <2>2 DEF CallOK, InitListOK, WalkOK, PathOK, UnmapLowerHalf, Walks
    <2> QED
      BY <2>1, <2>3, StartStep DEF UnmapLowerHalf
  <1> QED
    BY <1>3, <1>4, <1>5, <1>6, <1>7 DEF Client

\* The invariant says nothing of what the processor caches, of results and of
\* v_heap.
LEMMA ElsewhereIInv ==
  ASSUME NEW lev \in [Frame -> 0 .. 4], Inv(lev),
         UNCHANGED <<mem, free_list, call, free, given>>
  PROVE  IInv'
  <1>1. \A t \in Frame, k \in Index : HoldsTable(lev, t, k)' <=> HoldsTable(lev, t, k)
    BY DEF HoldsTable, Cleared, Behind, Below
  <1>2. Tree(lev, Held(lev), mem)'
    BY <1>1, SameHeld DEF Inv
  <1>3. Free' = Free /\ FreeOK' /\ Apart(lev)'
    BY DEF Inv, Apart, FreeOK, FreeListIntact, Free
  <1>4. Accounted(lev)'
    BY <1>3 DEF Inv, Accounted, Reached
  <1>5. Booted' => PagesOK(lev)'
    BY <1>3 DEF Inv, PagesOK, PageOf, Booted
  <1>6. CallOK(lev)'
    BY <1>3 DEF Inv, CallOK, InitListOK, UnmapOK, WalkOK, PathOK, HasTable
  <1>7. Inv(lev)'
    BY <1>2, <1>3, <1>4, <1>5, <1>6 DEF Inv
  <1> QED
    BY <1>7 DEF IInv

-----------------------------------------------------------------------------
(***************************************************************************)
(* unmap_lower_half, step by step.                                         *)
(***************************************************************************)
\* The tables that the loops are at, and the words that hold them.
LEMMA Loops ==
  ASSUME NEW lev \in [Frame -> 0 .. 4], Inv(lev), call.fn = "unmap_lower_half"
  PROVE  /\ Locals \subseteq DOMAIN call
         /\ call.loop \in 2 .. 4 /\ call.l4_index \in 0 .. HALF
         /\ \A k \in Lower : k < call.l4_index => ~mem[Root][k].present
         /\ call.loop < 4 =>
              /\ call.l4_index \in Lower /\ call.l4_index \in Index
              /\ ~mem[Root][call.l4_index].present
              /\ call.l3_table = mem[Root][call.l4_index].address
              /\ HoldsTable(lev, Root, call.l4_index)
              /\ call.l3_table \in Frame /\ lev[call.l3_table] = 3 /\ call.l3_table # Root
              /\ call.l3_index \in 0 .. ENTRIES
         /\ call.loop < 3 =>
              /\ call.l3_index \in Index
              /\ IsTable(mem[call.l3_table][call.l3_index])
              /\ call.l2_table = mem[call.l3_table][call.l3_index].address
              /\ HoldsTable(lev, call.l3_table, call.l3_index)
              /\ call.l2_table \in Frame /\ lev[call.l2_table] = 2 /\ call.l2_table # Root
              /\ call.l2_index \in 0 .. ENTRIES
  <1>1. UnmapOK(lev)
    BY DEF Inv, CallOK
  <1>2. /\ Locals \subseteq DOMAIN call
        /\ call.loop \in 2 .. 4 /\ call.l4_index \in 0 .. HALF
        /\ \A k \in Lower : k < call.l4_index => ~mem[Root][k].present
    BY <1>1 DEF UnmapOK
  <1>3. ASSUME call.loop < 4
        PROVE  /\ call.l4_index \in Lower /\ call.l4_index \in Index
               /\ ~mem[Root][call.l4_index].present
               /\ call.l3_table = mem[Root][call.l4_index].address
               /\ HoldsTable(lev, Root, call.l4_index)
               /\ call.l3_table \in Frame /\ lev[call.l3_table] = 3 /\ call.l3_table # Root
               /\ call.l3_index \in 0 .. ENTRIES
    <2>1. /\ call.l4_index \in Lower /\ ~mem[Root][call.l4_index].present
          /\ call.l3_table = mem[Root][call.l4_index].address
          /\ call.l3_index \in 0 .. ENTRIES
      BY <1>1, <1>3 DEF UnmapOK
    <2>2. call.l4_index \in Index
      BY <2>1, SizeAssumption DEF Lower, Index
    <2>3. lev[Root] = 4 /\ Root \in Frame
      BY Levels
    <2>4. HoldsTable(lev, Root, call.l4_index)
      BY <1>3, <2>1, <2>3 DEF HoldsTable, Cleared, Below
    <2>5. call.l3_table \in Frame /\ lev[call.l3_table] + 1 = 4
      BY <2>1, <2>2, <2>3, <2>4, Levels
    <2>6. lev[call.l3_table] = 3
      BY <2>5, Levels
    <2> QED
      BY <2>1, <2>2, <2>3, <2>4, <2>5, <2>6
  <1>4. ASSUME call.loop < 3
        PROVE  /\ call.l3_index \in Index
               /\ IsTable(mem[call.l3_table][call.l3_index])
               /\ call.l2_table = mem[call.l3_table][call.l3_index].address
               /\ HoldsTable(lev, call.l3_table, call.l3_index)
               /\ call.l2_table \in Frame /\ lev[call.l2_table] = 2 /\ call.l2_table # Root
               /\ call.l2_index \in 0 .. ENTRIES
    <2>1. /\ call.l3_index \in Index
          /\ IsTable(mem[call.l3_table][call.l3_index])
          /\ call.l2_table = mem[call.l3_table][call.l3_index].address
          /\ call.l2_index \in 0 .. ENTRIES
      BY <1>1, <1>4 DEF UnmapOK
    <2>2. call.loop < 4 /\ call.l3_table \in Frame /\ lev[call.l3_table] = 3
          /\ call.l3_table # Root
      BY <1>2, <1>3, <1>4
    <2>3. HoldsTable(lev, call.l3_table, call.l3_index)
      <3>1. ~Behind(call.l3_table, call.l3_index)
        <4>1. ~(call.l3_index < call.l3_index)
          BY <2>1 DEF Index
        <4>2. call.l2_table # call.l3_table
          BY <1>1, <1>4 DEF UnmapOK
        <4> QED
          BY <4>1, <4>2 DEF Behind
      <3> QED
        BY <2>1, <2>2, <3>1 DEF HoldsTable
    <2>4. call.l2_table \in Frame /\ lev[call.l2_table] + 1 = 3
      BY <2>1, <2>2, <2>3, Levels
    <2>5. lev[call.l2_table] = 2 /\ call.l2_table # Root
      BY <2>4, Levels
    <2> QED
      BY <2>1, <2>3, <2>4, <2>5
  <1> QED
    BY <1>2, <1>3, <1>4

\* What is left to show of a step of unmap_lower_half.
LEMMA UnmapInv ==
  ASSUME NEW lev \in [Frame -> 0 .. 4],
         mem' \in Memory, Tree(lev, Held(lev), mem)', Apart(lev)', FreeOK', Accounted(lev)',
         call'.fn = "unmap_lower_half", UnmapOK(lev)'
  PROVE  IInv'
  <1>1. CallOK(lev)'
    BY DEF CallOK, InitListOK, WalkOK, PathOK, Walks
  <1>2. Inv(lev)'
    BY <1>1 DEF Inv, Booted
  <1> QED
    BY <1>2 DEF IInv

\* A table that is held and holds nothing goes to the free list.
LEMMA TableFreed ==
  ASSUME NEW lev \in [Frame -> 0 .. 4], Inv(lev),
         NEW a \in Frame, NEW b \in Index, HoldsTable(lev, a, b),
         NEW p, p = mem[a][b].address, pmem_free(p)
  PROVE  /\ mem' \in Memory /\ p \in Frame /\ p # a /\ p # Root /\ lev[p] + 1 = lev[a]
         /\ p \notin KernelFrame
         /\ \A f \in Frame \ {p} : mem'[f] = mem[f]
         /\ FreeOK'
         /\ Free' = Free \cup {p}
  <1>1. p \in Frame /\ lev[p] + 1 = lev[a] /\ lev[a] >= 2
    BY Levels
  <1>2. /\ lev[p] \in 0 .. 4 /\ lev[a] \in 0 .. 4 /\ lev[p] >= 1 /\ lev[p] # 4 /\ p # a
    BY <1>1, Levels
  <1>3. p \notin Free /\ p \notin KernelFrame /\ p # Root
    BY <1>1, <1>2, Levels
  <1>4. mem \in Memory /\ FreeOK
    BY DEF Inv
  <1> QED
    BY <1>1, <1>2, <1>3, <1>4, FreeFrame

NoTableAt(lev, p) == [lev EXCEPT ![p] = 0]

LEMMA FreeTable ==
  ASSUME NEW lev \in [Frame -> 0 .. 4], Inv(lev), call.fn = "unmap_lower_half",
         NEW a \in Frame, NEW b \in Index, HoldsTable(lev, a, b),
         NEW p, p = mem[a][b].address, pmem_free(p), given' = given,
         \A k \in Index : ~HoldsTable(lev, p, k),
         NEW lev2, lev2 = NoTableAt(lev, p),
         \A t \in Frame \ {p}, k \in Index :
           HoldsTable(lev2, t, k)' <=> HoldsTable(lev, t, k) /\ ~(t = a /\ k = b),
         call'.fn = "unmap_lower_half",
         UnmapOK(lev2)'
  PROVE  IInv'
  <1>1. /\ mem' \in Memory /\ p \in Frame /\ p # a /\ p # Root /\ p \notin KernelFrame
        /\ \A f \in Frame \ {p} : mem'[f] = mem[f]
        /\ FreeOK'
        /\ Free' = Free \cup {p}
    BY TableFreed
  <1>2. /\ lev2 \in [Frame -> 0 .. 4] /\ lev2[p] = 0
        /\ \A f \in Frame \ {p} : lev2[f] = lev[f]
    BY <1>1 DEF NoTableAt
  <1>3. Tree(lev2, Held(lev2), mem)'
    <2> DEFINE J == Held(lev2)'
    <2>1. J \in Holdings /\ \A t \in Frame, k \in Index : k \in J[t] <=> HoldsTable(lev2, t, k)'
      BY DEF Held, Holdings
    <2> HIDE DEF J
    <2>2. Tree(lev, Held(lev), mem) /\ Held(lev) \in Holdings
      BY HeldWords DEF Inv
    <2>3. \A t \in Frame \ {p}, k \in Index :
            k \in J[t] <=> k \in Held(lev)[t] /\ ~(t = a /\ k = b)
      BY <2>1, HeldWords
    <2>4. \A k \in Index : ~HoldsTable(lev2, p, k)'
      BY <1>1, <1>2 DEF HoldsTable
    <2>5. J[p] = {} /\ Held(lev)[p] = {}
      <3>1. \A k \in Index : k \notin J[p]
        BY <1>1, <2>1, <2>4
      <3>2. \A k \in Index : k \notin Held(lev)[p]
        BY <1>1, HeldWords
      <3>3. J[p] \subseteq Index /\ Held(lev)[p] \subseteq Index
        BY <1>1, <2>1, <2>2 DEF Holdings
      <3> QED
        BY <3>1, <3>2, <3>3
    <2>6. b \in Held(lev)[a]
      BY HeldWords
    <2>7. Removes(lev, lev2, Held(lev), J, mem, mem', a, b, p)
      BY <1>1, <1>2, <2>3, <2>5, <2>6 DEF Removes
    <2>8. Tree(lev2, J, mem')
      BY <2>1, <2>2, <2>7, TreeRemove
    <2> QED
      BY <2>8 DEF Tree, J
  <1>4. Apart(lev2)'
    BY <1>1, <1>2, Levels DEF Apart
  <1>5. Accounted(lev2)'
    <2>1. \A n \in 1 .. Len(Usable) : Usable[n] \in Free \cup given \/ lev[Usable[n]] >= 1
      BY DEF Inv, Accounted, Reached
    <2>2. \A n \in 1 .. Len(Usable) : Usable[n] \in Frame
      BY FrameAssumption, ElementOfSeq
    <2>3. \A n \in 1 .. Len(Usable) :
            Usable[n] \in Free' \cup given' \/ lev2[Usable[n]] >= 1
      BY <1>1, <1>2, <2>1, <2>2
    <2> QED
      BY <2>3 DEF Accounted
  <1> QED
    BY <1>1, <1>2, <1>3, <1>4, <1>5, UnmapInv

LEMMA L4PresentIInv ==
  ASSUME NEW lev \in [Frame -> 0 .. 4], Inv(lev), L4Present PROVE IInv'
  <1>k. PICK k : k = call.l4_index
    OBVIOUS
  <1>e. PICK e : e = [mem[Root][k] EXCEPT !.present = FALSE]
    OBVIOUS
  <1>1. /\ call.fn = "unmap_lower_half" /\ call.loop = 4 /\ mem[Root][k].present
        /\ UNCHANGED <<free_list, free, given>>
    BY <1>k DEF L4Present, InLoop, history
  <1>2. k \in Lower /\ k \in Index /\ Locals \subseteq DOMAIN call
    <2>1. Locals \subseteq DOMAIN call /\ k \in 0 .. HALF /\ k < HALF
      BY <1>1, <1>k, Loops DEF L4Present
    <2> QED
      BY <2>1, SizeAssumption DEF Lower, Index
  <1>3. Root \in Frame /\ Root \notin Free /\ lev[Root] = 4 /\ mem[Root][k] \in Word
        /\ mem \in Memory /\ FreeOK
    <2>1. Root \in Frame /\ lev[Root] = 4 /\ Root \notin Free
      BY Levels
    <2> QED
      BY <1>2, <2>1 DEF Inv, Memory
  <1>4. e \in Word /\ ~e.present /\ e.address = mem[Root][k].address
    BY <1>3, <1>e DEF Word
  <1>5. Written(Root, k, e)
    BY <1>2, <1>3, <1>k, <1>e DEF L4Present, Written
  <1>6. /\ mem' \in Memory /\ mem'[Root][k] = e /\ FreeOK' /\ Free' = Free
        /\ \A f \in Frame, n \in Index : ~(f = Root /\ n = k) => mem'[f][n] = mem[f][n]
    BY <1>1, <1>2, <1>3, <1>4, <1>5, WordWritten
  <1>7. /\ call'.fn = "unmap_lower_half" /\ call'.loop = 3 /\ call'.l4_index = k
        /\ call'.l3_index = 0 /\ call'.l3_table = mem[Root][k].address
        /\ Locals \subseteq DOMAIN call'
    BY <1>1, <1>2, <1>k DEF L4Present, Locals
  <1>8. \A t \in Frame, n \in Index : HoldsTable(lev, t, n)' <=> HoldsTable(lev, t, n)
    <2> SUFFICES ASSUME NEW t \in Frame, NEW n \in Index
                 PROVE  HoldsTable(lev, t, n)' <=> HoldsTable(lev, t, n)
      OBVIOUS
    <2>1. HoldsTable(lev, t, n) <=>
            /\ lev[t] >= 2
            /\ t = Root => n \in Lower /\ mem[t][n].present
            /\ t # Root => IsTable(mem[t][n])
      BY <1>1, NoLoop
    <2>2. ~(n < 0)
      BY DEF Index
    <2>3. HoldsTable(lev, t, n)' <=>
            /\ lev[t] >= 2
            /\ t = Root => n \in Lower /\ (mem'[t][n].present \/ n = k)
            /\ t # Root => IsTable(mem'[t][n])
      BY <1>7, <2>2 DEF HoldsTable, Cleared, Behind, Below
    <2>4. CASE t = Root /\ n = k
      BY <1>1, <1>2, <2>1, <2>3, <2>4
    <2>5. CASE ~(t = Root /\ n = k)
      <3>1. mem'[t][n] = mem[t][n]
        BY <1>6, <2>5
      <3> QED
        BY <2>1, <2>3, <2>5, <3>1
    <2> QED
      BY <2>4, <2>5
  <1>9. \A t \in Frame, n \in Index :
          HoldsTable(lev, t, n) => mem'[t][n].address = mem[t][n].address
    BY <1>4, <1>6
  <1>10. Tree(lev, Held(lev), mem)'
    BY <1>6, <1>8, <1>9, SameHeld
  <1>11. Apart(lev)' /\ Accounted(lev)'
    BY <1>1, <1>6 DEF Inv, Apart, Accounted, Reached
  <1>12. UnmapOK(lev)'
    <2>1. \A n \in Lower : n \in Index
      BY SizeAssumption DEF Lower, Index
    <2>2. \A n \in Lower : n < k => ~mem'[Root][n].present
      BY <1>1, <1>3, <1>4, <1>6, <1>k, <2>1, Loops
    <2>3. ~mem'[Root][k].present /\ mem'[Root][k].address = mem[Root][k].address
      BY <1>4, <1>6
    <2>4. k \in 0 .. HALF /\ 0 \in 0 .. ENTRIES
      BY <1>2, SizeAssumption DEF Lower
    <2>5. /\ call'.loop \in 2 .. 4 /\ ~(call'.loop < 3) /\ call'.l4_index \in 0 .. HALF
          /\ call'.l3_index \in 0 .. ENTRIES
      BY <1>7, <2>4
    <2>6. /\ call'.l3_table = mem'[Root][call'.l4_index].address
          /\ ~mem'[Root][call'.l4_index].present
          /\ \A n \in Lower : n < call'.l4_index => ~mem'[Root][n].present
      BY <1>7, <2>2, <2>3
    <2>7. Locals \subseteq DOMAIN call' /\ call'.l4_index \in Lower
      BY <1>2, <1>7
    <2> QED
      BY <2>5, <2>6, <2>7 DEF UnmapOK
  <1> QED
    BY <1>6, <1>7, <1>10, <1>11, <1>12, UnmapInv

LEMMA L4AbsentIInv ==
  ASSUME NEW lev \in [Frame -> 0 .. 4], Inv(lev), L4Absent PROVE IInv'
  <1>1. /\ call.fn = "unmap_lower_half" /\ call.loop = 4 /\ call.l4_index < HALF
        /\ ~mem[Root][call.l4_index].present
        /\ UNCHANGED <<mem, free_list, free, given>>
    BY DEF L4Absent, InLoop, history
  <1>2. /\ call.l4_index \in 0 .. HALF /\ Locals \subseteq DOMAIN call
        /\ \A k \in Lower : k < call.l4_index => ~mem[Root][k].present
    BY <1>1, Loops
  <1>3. /\ call'.fn = "unmap_lower_half" /\ call'.loop = 4
        /\ call'.l4_index = call.l4_index + 1 /\ Locals \subseteq DOMAIN call'
    BY <1>1, <1>2 DEF L4Absent, Locals
  <1>4. \A t \in Frame, n \in Index : HoldsTable(lev, t, n)' <=> HoldsTable(lev, t, n)
    BY <1>1, <1>3 DEF HoldsTable, Cleared, Behind, Below
  <1>5. UnmapOK(lev)'
    <2>1. call'.l4_index \in 0 .. HALF
      BY <1>1, <1>2, <1>3, FirstIndex
    <2>2. \A k \in Lower : k < call'.l4_index => k < call.l4_index \/ k = call.l4_index
      BY <1>2, <1>3 DEF Lower
    <2>3. \A k \in Lower : k < call'.l4_index => ~mem'[Root][k].present
      BY <1>1, <1>2, <2>2
    <2> QED
      BY <1>3, <2>1, <2>3 DEF UnmapOK
  <1>6. CallOK(lev)' /\ ~Booted'
    BY <1>3, <1>5 DEF CallOK, InitListOK, WalkOK, PathOK, Walks, Booted
  <1> QED
    BY <1>1, <1>4, <1>6, MemorySame

\* Nothing of the lower half is left when the loop over the root ends.
LEMMA NoTables ==
  ASSUME NEW lev \in [Frame -> 0 .. 4], Inv(lev),
         call.fn = "unmap_lower_half", call.loop = 4, call.l4_index = HALF
  PROVE  \A f \in Frame : lev[f] >= 1 <=> f = Root
  <1>1. \A k \in Lower : ~mem[Root][k].present
    <2>1. \A k \in Lower : k < HALF
      BY SizeAssumption DEF Lower
    <2> QED
      BY <2>1, Loops
  <1>2. \A k \in Index : ~HoldsTable(lev, Root, k)
    BY <1>1, NoLoop, FrameAssumption
  <1>3. Tree(lev, Held(lev), mem)
    BY DEF Inv
  <1>4. \A f \in Frame : lev[f] \in 0 .. 4 /\ (lev[f] = 4 <=> f = Root)
    BY Levels
  <1>5. \A f \in Frame : lev[f] \in 1 .. 3 =>
          \E t \in Frame : lev[t] = lev[f] + 1 /\ \E k \in Index : HoldsTable(lev, t, k)
    <2> SUFFICES ASSUME NEW f \in Frame, lev[f] \in 1 .. 3
                 PROVE  \E t \in Frame : lev[t] = lev[f] + 1
                                        /\ \E k \in Index : HoldsTable(lev, t, k)
      OBVIOUS
    <2>1. PICK t \in Frame : \E k \in Held(lev)[t] : mem[t][k].address = f
      BY <1>3 DEF Tree
    <2>2. PICK k \in Held(lev)[t] : mem[t][k].address = f
      BY <2>1
    <2>3. k \in Index /\ HoldsTable(lev, t, k)
      BY HeldWords
    <2>4. lev[f] + 1 = lev[t]
      BY <2>2, <2>3, Levels
    <2> QED
      BY <2>3, <2>4
  <1>6. \A f \in Frame : lev[f] # 3
    <2> SUFFICES ASSUME NEW f \in Frame, lev[f] = 3 PROVE FALSE
      OBVIOUS
    <2>1. PICK t \in Frame : lev[t] = lev[f] + 1 /\ \E k \in Index : HoldsTable(lev, t, k)
      BY <1>5
    <2> QED
      BY <1>2, <1>4, <2>1
  <1>7. \A f \in Frame : lev[f] # 2
    <2> SUFFICES ASSUME NEW f \in Frame, lev[f] = 2 PROVE FALSE
      OBVIOUS
    <2>1. PICK t \in Frame : lev[t] = lev[f] + 1
      BY <1>5
    <2> QED
      BY <1>6, <2>1
  <1>8. \A f \in Frame : lev[f] # 1
    <2> SUFFICES ASSUME NEW f \in Frame, lev[f] = 1 PROVE FALSE
      OBVIOUS
    <2>1. PICK t \in Frame : lev[t] = lev[f] + 1
      BY <1>5
    <2> QED
      BY <1>7, <2>1
  <1> QED
    BY <1>4, <1>6, <1>7, <1>8

LEMMA L4DoneIInv ==
  ASSUME NEW lev \in [Frame -> 0 .. 4], Inv(lev), L4Done PROVE IInv'
  <1>1. /\ call.fn = "unmap_lower_half" /\ call.loop = 4 /\ call.l4_index = HALF
        /\ call' = Idle /\ UNCHANGED <<mem, free_list, free, given>>
    BY DEF L4Done, InLoop, history
  <1>2. \A f \in Frame : lev[f] >= 1 <=> f = Root
    BY <1>1, NoTables
  <1>3. mem' \in Memory /\ Tree(lev, Held(lev), mem)'
    <2>1. \A t \in Frame, n \in Index : HoldsTable(lev, t, n)' <=> HoldsTable(lev, t, n)
      BY <1>1 DEF HoldsTable, Cleared, Behind, Below, Idle
    <2>2. /\ mem' \in Memory
          /\ \A t \in Frame, n \in Index :
               HoldsTable(lev, t, n) => mem'[t][n].address = mem[t][n].address
      BY <1>1 DEF Inv
    <2>3. Tree(lev, Held(lev), mem)'
      BY <2>1, <2>2, SameHeld
    <2> QED
      BY <2>2, <2>3
  <1>4. Apart(lev)' /\ Accounted(lev)' /\ FreeOK'
    BY <1>1 DEF Inv, Apart, Accounted, Reached, Free, FreeOK, FreeListIntact
  <1>5. PagesOK(lev)'
    <2>1. lev[Root] = 4 /\ Root \in Frame
      BY Levels
    <2>2. \A f \in Frame : lev[f] # 1
      BY <1>2, <2>1, Levels
    <2> QED
      BY <1>2, <2>2 DEF PagesOK, PageOf
  <1>6. CallOK(lev)'
    BY <1>1, NotCalled DEF Idle
  <1>7. Inv(lev)'
    BY <1>3, <1>4, <1>5, <1>6 DEF Inv
  <1> QED
    BY <1>7 DEF IInv

LEMMA L3TableIInv ==
  ASSUME NEW lev \in [Frame -> 0 .. 4], Inv(lev), L3Table PROVE IInv'
  <1>1. /\ call.fn = "unmap_lower_half" /\ call.loop = 3 /\ call.l3_index < ENTRIES
        /\ IsTable(mem[call.l3_table][call.l3_index])
        /\ UNCHANGED <<mem, free_list, free, given>>
    BY DEF L3Table, InLoop, history
  <1>2. /\ call.l4_index \in Lower /\ call.l4_index \in 0 .. HALF
        /\ ~mem[Root][call.l4_index].present
        /\ call.l3_table = mem[Root][call.l4_index].address
        /\ call.l3_table \in Frame /\ lev[call.l3_table] = 3 /\ call.l3_table # Root
        /\ call.l3_index \in 0 .. ENTRIES
        /\ Locals \subseteq DOMAIN call
        /\ \A k \in Lower : k < call.l4_index => ~mem[Root][k].present
    BY <1>1, Loops
  <1>3. /\ call'.fn = "unmap_lower_half" /\ call'.loop = 2 /\ call'.l2_index = 0
        /\ call'.l2_table = mem[call.l3_table][call.l3_index].address
        /\ call'.l4_index = call.l4_index /\ call'.l3_table = call.l3_table
        /\ call'.l3_index = call.l3_index /\ Locals \subseteq DOMAIN call'
    <2>1. PICK x : x = mem[call.l3_table][call.l3_index].address
      OBVIOUS
    <2>2. PICK r : r = call
      OBVIOUS
    <2>3. call' = [r EXCEPT !.loop = 2, !.l2_index = 0, !.l2_table = x]
      BY <2>1, <2>2 DEF L3Table
    <2>4. {"fn"} \subseteq DOMAIN r => call'.fn = r.fn
      BY <2>3
    <2>5. Locals \subseteq DOMAIN r
      BY <1>2, <2>2
    <2>6. /\ call'.loop = 2 /\ call'.l2_index = 0 /\ call'.l2_table = x
          /\ call'.l4_index = r.l4_index /\ call'.l3_table = r.l3_table
          /\ call'.l3_index = r.l3_index /\ Locals \subseteq DOMAIN call'
      BY <2>3, <2>5 DEF Locals
    <2>7. call'.fn = r.fn
      BY <2>3
    <2> QED
      BY <1>1, <2>1, <2>2, <2>6, <2>7
  <1>4. \A t \in Frame, n \in Index : HoldsTable(lev, t, n)' <=> HoldsTable(lev, t, n)
    <2>1. \A n \in Index : ~(n < 0)
      BY DEF Index
    <2> SUFFICES ASSUME NEW t \in Frame, NEW n \in Index
                 PROVE  HoldsTable(lev, t, n)' <=> HoldsTable(lev, t, n)
      OBVIOUS
    <2>2. Below /\ Below'
      BY <1>1, <1>3 DEF Below
    <2>3. Cleared(n)' <=> Cleared(n)
      BY <1>3, <2>2 DEF Cleared
    <2>4. Behind(t, n)' <=> Behind(t, n)
      BY <1>1, <1>3, <2>1, <2>2 DEF Behind
    <2> QED
      BY <1>1, <2>3, <2>4 DEF HoldsTable
  <1>5. call'.l3_index \in Index /\ ~(call.l3_index < call.l3_index)
    <2>1. PICK n \in 0 .. ENTRIES : n = call.l3_index
      BY <1>2
    <2>2. n < ENTRIES
      BY <1>1, <2>1
    <2>3. n \in Index /\ ~(n < n)
      BY <2>2, FirstIndex DEF Index
    <2> QED
      BY <1>3, <2>1, <2>3
  <1>6. call'.l2_table # call'.l3_table
    <2>1. PICK b : b = call.l3_table
      OBVIOUS
    <2>2. PICK n : n = call.l3_index
      OBVIOUS
    <2>3. n \in Index /\ ~(n < n)
      BY <1>3, <1>5, <2>2
    <2>4. b \in Frame /\ lev[b] = 3 /\ b # Root /\ IsTable(mem[b][n])
      BY <1>1, <1>2, <2>1, <2>2
    <2>5. ~Behind(b, n)
      BY <1>1, <2>1, <2>2, <2>3 DEF Behind
    <2>6. HoldsTable(lev, b, n)
      BY <2>4, <2>5 DEF HoldsTable
    <2>7. PICK x : x = mem[b][n].address
      OBVIOUS
    <2>8. lev[x] + 1 = 3
      BY <2>3, <2>4, <2>6, <2>7, Levels
    <2>9. call'.l2_table = x /\ call'.l3_table = b
      BY <1>3, <2>1, <2>2, <2>7
    <2> QED
      BY <2>4, <2>8, <2>9
  <1>7. UnmapOK(lev)'
    <2>1. 0 \in 0 .. ENTRIES
      BY FirstIndex
    <2>2. mem' = mem
      BY <1>1
    <2>3. \A k \in Lower : k < call'.l4_index => ~mem'[Root][k].present
      BY <1>2, <1>3, <2>2
    <2>4. /\ call'.l4_index \in Lower /\ call'.l4_index \in 0 .. HALF
          /\ ~mem'[Root][call'.l4_index].present
          /\ call'.l3_table = mem'[Root][call'.l4_index].address
          /\ call'.l3_index \in 0 .. ENTRIES
      BY <1>2, <1>3, <2>2
    <2>5. /\ call'.l3_index \in Index
          /\ IsTable(mem'[call'.l3_table][call'.l3_index])
          /\ call'.l2_table = mem'[call'.l3_table][call'.l3_index].address
          /\ call'.l2_index \in 0 .. ENTRIES
      BY <1>1, <1>3, <1>5, <2>1, <2>2
    <2>6. Locals \subseteq DOMAIN call' /\ call'.loop \in 2 .. 4
      BY <1>3
    <2> QED
      BY <1>6, <2>3, <2>4, <2>5, <2>6 DEF UnmapOK
  <1>8. CallOK(lev)' /\ ~Booted'
    BY <1>3, <1>7 DEF CallOK, InitListOK, WalkOK, PathOK, Walks, Booted
  <1> QED
    BY <1>1, <1>4, <1>8, MemorySame

LEMMA L3OtherIInv ==
  ASSUME NEW lev \in [Frame -> 0 .. 4], Inv(lev), L3Other PROVE IInv'
  <1>1. /\ call.fn = "unmap_lower_half" /\ call.loop = 3 /\ call.l3_index < ENTRIES
        /\ ~IsTable(mem[call.l3_table][call.l3_index])
        /\ UNCHANGED <<mem, free_list, free, given>>
    BY DEF L3Other, InLoop, history
  <1>2. /\ call.l4_index \in Lower /\ call.l4_index \in 0 .. HALF
        /\ ~mem[Root][call.l4_index].present
        /\ call.l3_table = mem[Root][call.l4_index].address
        /\ call.l3_table # Root
        /\ call.l3_index \in 0 .. ENTRIES
        /\ Locals \subseteq DOMAIN call
        /\ \A k \in Lower : k < call.l4_index => ~mem[Root][k].present
    BY <1>1, Loops
  <1>3. /\ call'.fn = "unmap_lower_half" /\ call'.loop = 3
        /\ call'.l4_index = call.l4_index /\ call'.l3_table = call.l3_table
        /\ call'.l3_index = call.l3_index + 1 /\ Locals \subseteq DOMAIN call'
    BY <1>1, <1>2 DEF L3Other, Locals
  <1>4. \A n \in Index : n < call'.l3_index <=> n < call.l3_index \/ n = call.l3_index
    BY <1>2, <1>3, FirstIndex DEF Index
  <1>5. \A t \in Frame, n \in Index : HoldsTable(lev, t, n)' <=> HoldsTable(lev, t, n)
    BY <1>1, <1>2, <1>3, <1>4 DEF HoldsTable, Cleared, Behind, Below
  <1>6. UnmapOK(lev)'
    <2>1. call'.l3_index \in 0 .. ENTRIES
      BY <1>1, <1>2, <1>3, FirstIndex
    <2> QED
      BY <1>1, <1>2, <1>3, <2>1 DEF UnmapOK
  <1>7. CallOK(lev)' /\ ~Booted'
    BY <1>3, <1>6 DEF CallOK, InitListOK, WalkOK, PathOK, Walks, Booted
  <1> QED
    BY <1>1, <1>5, <1>7, MemorySame

LEMMA L2OtherIInv ==
  ASSUME NEW lev \in [Frame -> 0 .. 4], Inv(lev), L2Other PROVE IInv'
  <1>1. /\ call.fn = "unmap_lower_half" /\ call.loop = 2 /\ call.l2_index < ENTRIES
        /\ ~IsTable(mem[call.l2_table][call.l2_index])
        /\ UNCHANGED <<mem, free_list, free, given>>
    BY DEF L2Other, InLoop, history
  <1>2. /\ Locals \subseteq DOMAIN call /\ call.l2_index \in 0 .. ENTRIES
        /\ call.l2_table # Root
    BY <1>1, Loops
  <1>3. /\ call'.fn = "unmap_lower_half" /\ call'.loop = 2
        /\ call'.l4_index = call.l4_index /\ call'.l3_table = call.l3_table
        /\ call'.l3_index = call.l3_index /\ call'.l2_table = call.l2_table
        /\ call'.l2_index = call.l2_index + 1 /\ Locals \subseteq DOMAIN call'
    BY <1>1, <1>2 DEF L2Other, Locals
  <1>4. \A n \in Index : n < call'.l2_index <=> n < call.l2_index \/ n = call.l2_index
    BY <1>2, <1>3, FirstIndex DEF Index
  <1>5. \A t \in Frame, n \in Index : HoldsTable(lev, t, n)' <=> HoldsTable(lev, t, n)
    BY <1>1, <1>2, <1>3, <1>4 DEF HoldsTable, Cleared, Behind, Below
  <1>6. UnmapOK(lev)'
    <2>1. call'.l2_index \in 0 .. ENTRIES
      BY <1>1, <1>2, <1>3, FirstIndex
    <2>2. UnmapOK(lev)
      BY DEF Inv, CallOK
    <2> QED
      BY <1>1, <1>3, <2>1, <2>2 DEF UnmapOK
  <1>7. CallOK(lev)' /\ ~Booted'
    BY <1>3, <1>6 DEF CallOK, InitListOK, WalkOK, PathOK, Walks, Booted
  <1> QED
    BY <1>1, <1>5, <1>7, MemorySame

\* The level 1 table goes, and the loop over the level 2 table moves on.
LEMMA L2TableIInv ==
  ASSUME NEW lev \in [Frame -> 0 .. 4], Inv(lev), L2Table PROVE IInv'
  <1>a. PICK a : a = call.l2_table
    OBVIOUS
  <1>b. PICK b : b = call.l2_index
    OBVIOUS
  <1>p. PICK p : p = mem[a][b].address
    OBVIOUS
  <1>l. PICK lev2 : lev2 = NoTableAt(lev, p)
    OBVIOUS
  <1>1. /\ call.fn = "unmap_lower_half" /\ call.loop = 2 /\ b < ENTRIES
        /\ IsTable(mem[a][b]) /\ pmem_free(p) /\ given' = given
    BY <1>a, <1>b, <1>p DEF L2Table, InLoop
  <1>2. /\ Locals \subseteq DOMAIN call /\ b \in 0 .. ENTRIES
        /\ a \in Frame /\ lev[a] = 2 /\ a # Root
        /\ call.l3_table \in Frame /\ lev[call.l3_table] = 3
        /\ UnmapOK(lev)
    BY <1>1, <1>a, <1>b, Loops DEF Inv, CallOK
  <1>3. /\ call'.fn = "unmap_lower_half" /\ call'.loop = 2
        /\ call'.l4_index = call.l4_index /\ call'.l3_table = call.l3_table
        /\ call'.l3_index = call.l3_index /\ call'.l2_table = a
        /\ call'.l2_index = b + 1 /\ Locals \subseteq DOMAIN call'
    BY <1>1, <1>2, <1>a, <1>b DEF L2Table, Locals
  <1>4. /\ b \in Index /\ call'.l2_index \in 0 .. ENTRIES /\ ~(b < b)
        /\ \A n \in Index : n < call'.l2_index <=> n < b \/ n = b
    BY <1>1, <1>2, <1>3, FirstIndex DEF Index
  <1>5. HoldsTable(lev, a, b)
    <2>1. a # call.l3_table
      BY <1>2
    <2>2. ~Behind(a, b)
      BY <1>4, <1>b, <2>1 DEF Behind
    <2> QED
      BY <1>1, <1>2, <2>2 DEF HoldsTable
  <1>6. /\ mem' \in Memory /\ p \in Frame /\ p # a /\ p # Root /\ lev[p] = 1
        /\ \A f \in Frame \ {p} : mem'[f] = mem[f]
    <2>1. /\ mem' \in Memory /\ p \in Frame /\ p # a /\ p # Root /\ lev[p] + 1 = lev[a]
          /\ \A f \in Frame \ {p} : mem'[f] = mem[f]
      BY <1>1, <1>2, <1>4, <1>5, <1>p, TableFreed
    <2>2. lev[p] = 1
      BY <1>2, <2>1
    <2> QED
      BY <2>1, <2>2
  <1>7. \A k \in Index : ~HoldsTable(lev, p, k)
    BY <1>6 DEF HoldsTable
  <1>8. ASSUME NEW t \in Frame \ {p}, NEW k \in Index
        PROVE  HoldsTable(lev2, t, k)' <=> HoldsTable(lev, t, k) /\ ~(t = a /\ k = b)
    <2>1. lev2[t] = lev[t] /\ mem'[t] = mem[t] /\ mem'[Root] = mem[Root]
      BY <1>6, <1>l, FrameAssumption DEF NoTableAt
    <2>2. Cleared(k)' <=> Cleared(k)
      BY <1>1, <1>3 DEF Cleared, Below
    <2>3. Behind(t, k)' <=> Behind(t, k) \/ (t = a /\ k = b)
      BY <1>1, <1>3, <1>4, <1>a, <1>b DEF Behind, Below
    <2> QED
      BY <1>2, <2>1, <2>2, <2>3 DEF HoldsTable
  <1>9. UnmapOK(lev2)'
    <2>1. p # call.l3_table
      BY <1>2, <1>6
    <2>2. mem'[Root] = mem[Root] /\ mem'[call.l3_table] = mem[call.l3_table]
      BY <1>2, <1>6, <2>1, FrameAssumption
    <2> QED
      BY <1>1, <1>2, <1>3, <1>4, <1>a, <2>2 DEF UnmapOK
  <1> QED
    BY <1>1, <1>2, <1>3, <1>4, <1>5, <1>7, <1>8, <1>9, <1>p, <1>l, FreeTable

\* The loop over the level 2 table has ended: it holds nothing and goes.
LEMMA L2DoneIInv ==
  ASSUME NEW lev \in [Frame -> 0 .. 4], Inv(lev), L2Done PROVE IInv'
  <1>a. PICK a : a = call.l3_table
    OBVIOUS
  <1>b. PICK b : b = call.l3_index
    OBVIOUS
  <1>p. PICK p : p = mem[a][b].address
    OBVIOUS
  <1>l. PICK lev2 : lev2 = NoTableAt(lev, p)
    OBVIOUS
  <1>1. /\ call.fn = "unmap_lower_half" /\ call.loop = 2 /\ call.l2_index = ENTRIES
        /\ pmem_free(p) /\ given' = given
    BY <1>a, <1>b, <1>p DEF L2Done, InLoop
  <1>2. /\ Locals \subseteq DOMAIN call /\ b \in Index
        /\ a \in Frame /\ lev[a] = 3 /\ a # Root
        /\ p = call.l2_table /\ lev[p] = 2
        /\ HoldsTable(lev, a, b)
        /\ call.l4_index \in Lower /\ call.l4_index \in 0 .. HALF
        /\ ~mem[Root][call.l4_index].present /\ a = mem[Root][call.l4_index].address
        /\ \A k \in Lower : k < call.l4_index => ~mem[Root][k].present
    BY <1>1, <1>a, <1>b, <1>p, Loops
  <1>3. /\ call'.fn = "unmap_lower_half" /\ call'.loop = 3
        /\ call'.l4_index = call.l4_index /\ call'.l3_table = a
        /\ call'.l3_index = b + 1 /\ Locals \subseteq DOMAIN call'
    BY <1>1, <1>2, <1>a, <1>b DEF L2Done, Locals
  <1>4. /\ call'.l3_index \in 0 .. ENTRIES
        /\ \A n \in Index : n < call'.l3_index <=> n < b \/ n = b
        /\ \A n \in Index : n < call.l2_index
    BY <1>1, <1>2, <1>3, FirstIndex DEF Index
  <1>5. /\ mem' \in Memory /\ p \in Frame /\ p # a /\ p # Root
        /\ \A f \in Frame \ {p} : mem'[f] = mem[f]
    <2>1. a \in Frame /\ b \in Index /\ HoldsTable(lev, a, b) /\ pmem_free(p)
      BY <1>1, <1>2
    <2> QED
      BY <2>1, <1>p, TableFreed
  <1>6. \A k \in Index : ~HoldsTable(lev, p, k)
    <2>1. \A k \in Index : Behind(p, k)
      BY <1>1, <1>2, <1>4 DEF Behind, Below
    <2> QED
      BY <1>5, <2>1 DEF HoldsTable
  <1>7. ASSUME NEW t \in Frame \ {p}, NEW k \in Index
        PROVE  HoldsTable(lev2, t, k)' <=> HoldsTable(lev, t, k) /\ ~(t = a /\ k = b)
    <2>1. lev2[t] = lev[t] /\ mem'[t] = mem[t] /\ mem'[Root] = mem[Root]
      BY <1>5, <1>l, FrameAssumption DEF NoTableAt
    <2>2. Cleared(k)' <=> Cleared(k)
      BY <1>1, <1>3 DEF Cleared, Below
    <2>3. Behind(t, k)' <=> Behind(t, k) \/ (t = a /\ k = b)
      BY <1>1, <1>2, <1>3, <1>4, <1>a, <1>b DEF Behind, Below
    <2> QED
      BY <1>2, <2>1, <2>2, <2>3 DEF HoldsTable
  <1>8. UnmapOK(lev2)'
    <2>1. mem'[Root] = mem[Root]
      BY <1>5, FrameAssumption
    <2> QED
      BY <1>2, <1>3, <1>4, <2>1 DEF UnmapOK
  <1> QED
    <2>1. /\ a \in Frame /\ b \in Index /\ HoldsTable(lev, a, b) /\ pmem_free(p)
          /\ call.fn = "unmap_lower_half" /\ call'.fn = "unmap_lower_half"
          /\ given' = given
      BY <1>1, <1>2, <1>3
    <2> QED
      BY <2>1, <1>6, <1>7, <1>8, <1>p, <1>l, FreeTable

\* The loop over the level 3 table has ended.
LEMMA L3DoneIInv ==
  ASSUME NEW lev \in [Frame -> 0 .. 4], Inv(lev), L3Done PROVE IInv'
  <1>b. PICK b : b = call.l4_index
    OBVIOUS
  <1>p. PICK p : p = mem[Root][b].address
    OBVIOUS
  <1>l. PICK lev2 : lev2 = NoTableAt(lev, p)
    OBVIOUS
  <1>1. /\ call.fn = "unmap_lower_half" /\ call.loop = 3 /\ call.l3_index = ENTRIES
        /\ pmem_free(p) /\ given' = given
    BY <1>b, <1>p DEF L3Done, InLoop
  <1>2. /\ Locals \subseteq DOMAIN call /\ b \in Index /\ b \in Lower
        /\ p = call.l3_table /\ lev[p] = 3
        /\ HoldsTable(lev, Root, b)
        /\ ~mem[Root][b].present
        /\ \A k \in Lower : k < b => ~mem[Root][k].present
    BY <1>1, <1>b, <1>p, Loops
  <1>3. /\ call'.fn = "unmap_lower_half" /\ call'.loop = 4
        /\ call'.l4_index = b + 1 /\ Locals \subseteq DOMAIN call'
    BY <1>1, <1>2, <1>b DEF L3Done, Locals
  <1>4. /\ call'.l4_index \in 0 .. HALF
        /\ \A n \in Lower : n < call'.l4_index => n < b \/ n = b
        /\ \A n \in Index : n < call.l3_index
    BY <1>1, <1>2, <1>3, FirstIndex DEF Index, Lower
  <1>5. /\ mem' \in Memory /\ p \in Frame /\ p # Root
        /\ \A f \in Frame \ {p} : mem'[f] = mem[f]
    BY <1>1, <1>2, <1>p, TableFreed, FrameAssumption
  <1>6. \A k \in Index : ~HoldsTable(lev, p, k)
    <2>1. \A k \in Index : Behind(p, k)
      BY <1>1, <1>2, <1>4 DEF Behind, Below
    <2> QED
      BY <1>5, <2>1 DEF HoldsTable
  <1>7. ASSUME NEW t \in Frame \ {p}, NEW k \in Index
        PROVE  HoldsTable(lev2, t, k)' <=> HoldsTable(lev, t, k) /\ ~(t = Root /\ k = b)
    <2>1. lev2[t] = lev[t] /\ mem'[t] = mem[t] /\ mem'[Root] = mem[Root]
      BY <1>5, <1>l, FrameAssumption DEF NoTableAt
    <2>2. ~Cleared(k)' /\ (Cleared(k) <=> k = b)
      BY <1>1, <1>3, <1>b DEF Cleared, Below
    <2>3. ~Behind(t, k)' /\ ~Behind(t, k)
      BY <1>1, <1>2, <1>3 DEF Behind, Below
    <2>4. CASE t = Root
      BY <1>2, <2>1, <2>2, <2>4 DEF HoldsTable
    <2>5. CASE t # Root
      BY <2>1, <2>3, <2>5 DEF HoldsTable
    <2> QED
      BY <2>4, <2>5
  <1>8. UnmapOK(lev2)'
    <2>1. mem'[Root] = mem[Root]
      BY <1>5, FrameAssumption
    <2>2. \A k \in Lower : k < call'.l4_index => ~mem'[Root][k].present
      BY <1>2, <1>4, <2>1
    <2> QED
      BY <1>3, <1>4, <2>2 DEF UnmapOK
  <1> QED
    BY <1>1, <1>2, <1>3, <1>6, <1>7, <1>8, <1>p, <1>l, FreeTable, FrameAssumption

LEMMA UnmapStepIInv ==
  ASSUME NEW lev \in [Frame -> 0 .. 4], Inv(lev), UnmapStep PROVE IInv'
  BY L4PresentIInv, L4AbsentIInv, L4DoneIInv, L3TableIInv, L3OtherIInv, L3DoneIInv,
     L2TableIInv, L2OtherIInv, L2DoneIInv DEF UnmapStep

-----------------------------------------------------------------------------
(***************************************************************************)
(* init_list and the initial state.                                        *)
(***************************************************************************)
LEMMA UsableFrames ==
  /\ Len(Usable) \in Nat
  /\ \A k \in 1 .. Len(Usable) :
       Usable[k] \in Frame /\ Usable[k] \notin KernelFrame /\ Usable[k] # Root
  BY FrameAssumption, ElementOfSeq, LenProperties

LEMMA InitListFrameIInv ==
  ASSUME NEW lev \in [Frame -> 0 .. 4], Inv(lev), InitListFrame PROVE IInv'
  <1>j. PICK j : j = call.j
    OBVIOUS
  <1>p. PICK p : p = Usable[j]
    OBVIOUS
  <1>1. /\ call.fn = "init_list" /\ j <= Len(Usable) /\ pmem_free(p) /\ given' = given
    BY <1>j, <1>p DEF InitListFrame
  <1>2. /\ "j" \in DOMAIN call /\ j \in 1 .. Len(Usable) + 1
        /\ Free \subseteq {Usable[k] : k \in 1 .. j - 1}
        /\ \A k \in 1 .. Len(Usable) : lev[Usable[k]] = 0
        /\ given = {}
    BY <1>1, <1>j DEF Inv, CallOK, InitListOK
  <1>3. call'.fn = "init_list" /\ call'.j = j + 1 /\ "j" \in DOMAIN call'
    BY <1>1, <1>2, <1>j DEF InitListFrame
  <1>4. /\ j \in 1 .. Len(Usable) /\ p \in Frame /\ p \notin KernelFrame /\ p # Root
        /\ lev[p] = 0
    BY <1>1, <1>2, <1>p, UsableFrames
  <1>5. p \notin Free
    <2>1. \A k \in 1 .. j - 1 : k \in 1 .. Len(Usable) /\ k # j
      BY <1>4, UsableFrames
    <2> QED
      BY <1>2, <1>4, <1>p, <2>1, FrameAssumption
  <1>6. /\ mem' \in Memory /\ FreeOK' /\ Free' = Free \cup {p}
        /\ \A f \in Frame \ {p} : mem'[f] = mem[f]
    <2>1. mem \in Memory /\ FreeOK
      BY DEF Inv
    <2> QED
      BY <1>1, <1>4, <1>5, <2>1, FreeFrame
  <1>7. Tree(lev, Held(lev), mem)'
    <2>1. \A t \in Frame, n \in Index : lev[t] >= 2 => mem'[t] = mem[t]
      BY <1>4, <1>6
    <2>2. \A t \in Frame, n \in Index : HoldsTable(lev, t, n)' <=> HoldsTable(lev, t, n)
      BY <1>1, <1>3, <2>1 DEF HoldsTable, Cleared, Behind, Below
    <2>3. \A t \in Frame, n \in Index :
            HoldsTable(lev, t, n) => mem'[t][n].address = mem[t][n].address
      BY <2>1 DEF HoldsTable
    <2> QED
      BY <1>6, <2>2, <2>3, SameHeld
  <1>8. Apart(lev)'
    BY <1>1, <1>2, <1>4, <1>6, Levels DEF Apart
  <1>9. Accounted(lev)'
    <2>1. \A k \in 1 .. Len(Usable) : k < j + 1 => k < j \/ k = j
      BY <1>4, UsableFrames
    <2>2. \A k \in 1 .. Len(Usable) :
            k < j => Usable[k] \in Free \cup given \/ lev[Usable[k]] >= 1
      BY <1>1, <1>j DEF Inv, Accounted, Reached
    <2>3. \A k \in 1 .. Len(Usable) :
            k < j + 1 => Usable[k] \in Free' \cup given' \/ lev[Usable[k]] >= 1
      BY <1>1, <1>6, <1>p, <2>1, <2>2
    <2> QED
      BY <1>3, <2>3 DEF Accounted, Reached
  <1>10. InitListOK(lev)'
    <2>1. j + 1 \in 1 .. Len(Usable) + 1
      BY <1>4, UsableFrames
    <2>2. Free' \subseteq {Usable[k] : k \in 1 .. (j + 1) - 1}
      <3>1. j \in 1 .. (j + 1) - 1 /\ \A k \in 1 .. j - 1 : k \in 1 .. (j + 1) - 1
        BY <1>4, UsableFrames
      <3> QED
        BY <1>2, <1>6, <1>p, <3>1
    <2> QED
      BY <1>1, <1>2, <1>3, <2>1, <2>2 DEF InitListOK
  <1>11. CallOK(lev)' /\ ~Booted'
    BY <1>3, <1>10 DEF CallOK, UnmapOK, WalkOK, PathOK, Walks, Booted
  <1>12. Inv(lev)'
    BY <1>6, <1>7, <1>8, <1>9, <1>11 DEF Inv
  <1> QED
    BY <1>12 DEF IInv

LEMMA InitListDoneIInv ==
  ASSUME NEW lev \in [Frame -> 0 .. 4], Inv(lev), InitListDone PROVE IInv'
  <1>1. /\ call.fn = "init_list" /\ call.j > Len(Usable) /\ call' = UnmapLowerHalf
        /\ UNCHANGED <<mem, free_list, free, given>>
    BY DEF InitListDone, history
  <1>2. \A t \in Frame, k \in Index : HoldsTable(lev, t, k)' <=> HoldsTable(lev, t, k)
    BY <1>1 DEF HoldsTable, Cleared, Behind, Below, UnmapLowerHalf
  <1>3. UnmapOK(lev)'
    BY <1>1, FirstIndex DEF UnmapOK, UnmapLowerHalf, Locals, Lower
  <1>4. CallOK(lev)' /\ ~Booted'
    BY <1>1, <1>3 DEF CallOK, InitListOK, WalkOK, PathOK, UnmapLowerHalf, Walks, Booted
  <1> QED
    BY <1>1, <1>2, <1>4, MemorySame

\* The levels of the bootloader's tables.
L3Boot == BootBelow({Root})
L2Boot == BootBelow(L3Boot)
L1Boot == BootBelow(L2Boot)

BootLevel ==
  [f \in Frame |-> IF f = Root THEN 4 ELSE IF f \in L3Boot THEN 3
                   ELSE IF f \in L2Boot THEN 2 ELSE IF f \in L1Boot THEN 1 ELSE 0]

Leading == {Root} \cup L3Boot \cup L2Boot

LEMMA BootTree ==
  /\ BootMem \in Memory
  /\ \A t \in Leading : t \in Frame
  /\ \A t \in Leading : \A k \in BootHeld[t] :
       LET f == BootMem[t][k].address IN
         /\ f \in Frame /\ f \notin KernelFrame /\ f # Root
         /\ \A j \in 1 .. Len(Usable) : f # Usable[j]
  /\ \A t, u \in Leading : \A k \in BootHeld[t], j \in BootHeld[u] :
       BootMem[t][k].address = BootMem[u][j].address => t = u /\ k = j
  /\ \A f \in L3Boot : f \in Frame /\ \E k \in BootHeld[Root] : BootMem[Root][k].address = f
  /\ \A f \in L2Boot : f \in Frame /\ \E t \in L3Boot : \E k \in BootHeld[t] :
                                          BootMem[t][k].address = f
  /\ \A f \in L1Boot : f \in Frame /\ \E t \in L2Boot : \E k \in BootHeld[t] :
                                          BootMem[t][k].address = f
  <1>1. \A t \in Leading : t \in Frame
    BY FrameAssumption DEF Leading, L3Boot, L2Boot, BootBelow
  <1>2. BootMem \in Memory
    BY BootAssumption DEF Memory
  <1>3. \A t \in Leading : \A k \in BootHeld[t] :
          BootMem[t][k].address \in
            Frame \ (KernelFrame \cup {Root} \cup {Usable[n] : n \in 1 .. Len(Usable)})
    BY BootAssumption DEF Leading, L3Boot, L2Boot
  <1>4. \A t, u \in Leading : \A k \in BootHeld[t], j \in BootHeld[u] :
          BootMem[t][k].address = BootMem[u][j].address => t = u /\ k = j
    BY BootAssumption DEF Leading, L3Boot, L2Boot
  <1>5. \A f \in L3Boot : f \in Frame /\ \E k \in BootHeld[Root] :
                                          BootMem[Root][k].address = f
    BY DEF L3Boot, BootBelow
  <1>6. \A f \in L2Boot : f \in Frame /\ \E t \in L3Boot : \E k \in BootHeld[t] :
                                          BootMem[t][k].address = f
    BY DEF L2Boot, BootBelow
  <1>7. \A f \in L1Boot : f \in Frame /\ \E t \in L2Boot : \E k \in BootHeld[t] :
                                          BootMem[t][k].address = f
    BY DEF L1Boot, BootBelow
  <1>8. \A t \in Leading : \A k \in BootHeld[t] :
          LET f == BootMem[t][k].address IN
            /\ f \in Frame /\ f \notin KernelFrame /\ f # Root
            /\ \A j \in 1 .. Len(Usable) : f # Usable[j]
    BY <1>3
  <1> QED
    BY <1>1, <1>2, <1>4, <1>5, <1>6, <1>7, <1>8

LEMMA BootLevels ==
  /\ BootLevel \in [Frame -> 0 .. 4]
  /\ \A f \in Frame : BootLevel[f] = 4 <=> f = Root
  /\ \A f \in Frame : BootLevel[f] = 3 <=> f \in L3Boot
  /\ \A f \in Frame : BootLevel[f] = 2 <=> f \in L2Boot
  /\ \A f \in Frame : BootLevel[f] = 1 <=> f \in L1Boot
  /\ \A f \in Frame : BootLevel[f] >= 1 => f = Root \/
       (f \notin KernelFrame /\ \A j \in 1 .. Len(Usable) : f # Usable[j])
  <1>1. \A f \in L3Boot \cup L2Boot \cup L1Boot :
          f \in Frame /\ f # Root /\ f \notin KernelFrame
          /\ \A j \in 1 .. Len(Usable) : f # Usable[j]
    BY BootTree DEF Leading
  <1>2. \A f \in L3Boot : f \notin L2Boot
    <2> SUFFICES ASSUME NEW f \in L3Boot, f \in L2Boot PROVE FALSE
      OBVIOUS
    <2>1. PICK k \in BootHeld[Root] : BootMem[Root][k].address = f
      BY BootTree
    <2>2. PICK t \in L3Boot : \E j \in BootHeld[t] : BootMem[t][j].address = f
      BY BootTree
    <2>3. t = Root
      BY <2>1, <2>2, BootTree DEF Leading
    <2> QED
      BY <1>1, <2>2, <2>3
  <1>3. \A f \in L3Boot : f \notin L1Boot
    <2> SUFFICES ASSUME NEW f \in L3Boot, f \in L1Boot PROVE FALSE
      OBVIOUS
    <2>1. PICK k \in BootHeld[Root] : BootMem[Root][k].address = f
      BY BootTree
    <2>2. PICK t \in L2Boot : \E j \in BootHeld[t] : BootMem[t][j].address = f
      BY BootTree
    <2>3. t = Root
      BY <2>1, <2>2, BootTree DEF Leading
    <2> QED
      BY <1>1, <2>2, <2>3
  <1>4. \A f \in L2Boot : f \notin L1Boot
    <2> SUFFICES ASSUME NEW f \in L2Boot, f \in L1Boot PROVE FALSE
      OBVIOUS
    <2>1. PICK u \in L3Boot : \E k \in BootHeld[u] : BootMem[u][k].address = f
      BY BootTree
    <2>2. PICK t \in L2Boot : \E j \in BootHeld[t] : BootMem[t][j].address = f
      BY BootTree
    <2>3. t = u
      BY <2>1, <2>2, BootTree DEF Leading
    <2> QED
      BY <1>2, <2>1, <2>2, <2>3
  <1>5. BootLevel \in [Frame -> 0 .. 4]
    BY DEF BootLevel
  <1>6. ASSUME NEW f \in Frame
        PROVE  /\ BootLevel[f] = 4 <=> f = Root
               /\ BootLevel[f] = 3 <=> f \in L3Boot
               /\ BootLevel[f] = 2 <=> f \in L2Boot
               /\ BootLevel[f] = 1 <=> f \in L1Boot
    BY <1>1, <1>2, <1>3, <1>4 DEF BootLevel
  <1>7. \A f \in Frame : BootLevel[f] >= 1 =>
          f = Root \/ f \in L3Boot \cup L2Boot \cup L1Boot
    BY DEF BootLevel
  <1> QED
    BY <1>1, <1>5, <1>6, <1>7

LEMMA InitIInv == Init => IInv
  <1> SUFFICES ASSUME Init PROVE IInv
    OBVIOUS
  <1>l. PICK lev : lev = BootLevel
    OBVIOUS
  <1>1. /\ mem = BootMem /\ free_list = NULL /\ call.fn = "init_list" /\ call.j = 1
        /\ "j" \in DOMAIN call /\ free = <<>> /\ given = {}
    BY DEF Init
  <1>2. /\ lev \in [Frame -> 0 .. 4]
        /\ \A f \in Frame : lev[f] = 4 <=> f = Root
        /\ \A f \in Frame : lev[f] = 3 <=> f \in L3Boot
        /\ \A f \in Frame : lev[f] = 2 <=> f \in L2Boot
        /\ \A f \in Frame : lev[f] = 1 <=> f \in L1Boot
    BY <1>l, BootLevels
  <1>3. \A t \in Frame : lev[t] >= 2 <=> t \in Leading
    BY <1>2 DEF Leading
  <1>4. ASSUME NEW t \in Frame
        PROVE  \A k : k \in Held(lev)[t] <=> t \in Leading /\ k \in BootHeld[t]
    <2>1. \A k \in Index : HoldsTable(lev, t, k) <=>
            /\ lev[t] >= 2
            /\ t = Root => k \in Lower /\ mem[t][k].present
            /\ t # Root => IsTable(mem[t][k])
      BY <1>1, NoLoop
    <2>2. \A k \in Index : k \in BootHeld[t] <=>
            /\ t = Root => k \in Lower /\ mem[t][k].present
            /\ t # Root => IsTable(mem[t][k])
      BY <1>1 DEF BootHeld, IsTable
    <2>3. \A k : k \in BootHeld[t] => k \in Index
      BY DEF BootHeld
    <2> QED
      BY <1>3, <2>1, <2>2, <2>3, HeldWords
  <1>5. Tree(lev, Held(lev), mem)
    <2>1. ASSUME NEW t \in Frame, NEW k \in Held(lev)[t]
          PROVE  mem[t][k].address \in Frame /\ lev[mem[t][k].address] + 1 = lev[t]
                 /\ lev[t] >= 2
      <3>1. t \in Leading /\ k \in BootHeld[t] /\ lev[t] >= 2
        BY <1>3, <1>4
      <3>2. mem[t][k].address \in Frame
        BY <1>1, <3>1, BootTree
      <3>3. CASE t = Root
        BY <1>1, <1>2, <3>1, <3>2, <3>3 DEF L3Boot, BootBelow
      <3>4. CASE t \in L3Boot
        BY <1>1, <1>2, <3>1, <3>2, <3>4 DEF L2Boot, BootBelow
      <3>5. CASE t \in L2Boot
        BY <1>1, <1>2, <3>1, <3>2, <3>5 DEF L1Boot, BootBelow
      <3> QED
        BY <3>1, <3>2, <3>3, <3>4, <3>5 DEF Leading
    <2>2. \A t, u \in Frame : \A k \in Held(lev)[t], j \in Held(lev)[u] :
            mem[t][k].address = mem[u][j].address => t = u /\ k = j
      BY <1>1, <1>4, BootTree
    <2>3. ASSUME NEW f \in Frame, lev[f] \in 1 .. 3
          PROVE  \E t \in Frame : \E k \in Held(lev)[t] : mem[t][k].address = f
      <3>1. f \in L3Boot \/ f \in L2Boot \/ f \in L1Boot
        BY <1>2, <2>3
      <3>2. \E t \in Leading : t \in Frame /\ \E k \in BootHeld[t] : BootMem[t][k].address = f
        BY <3>1, BootTree DEF Leading
      <3> QED
        BY <1>1, <1>4, <3>2
    <2> QED
      BY <1>2, <2>1, <2>2, <2>3 DEF Tree
  <1>6. Len(free) = 0 /\ free \in Seq(Frame) /\ Free = {}
    <2>1. Len(free) = 0 /\ free \in Seq(Frame)
      BY <1>1
    <2>2. 1 .. Len(free) = {}
      BY <2>1
    <2> QED
      BY <2>1, <2>2 DEF Free
  <1>7. FreeOK
    BY <1>1, <1>6 DEF FreeOK, FreeListIntact
  <1>8. Apart(lev)
    BY <1>1, <1>6, <1>l, BootLevels, FrameAssumption DEF Apart
  <1>9. Accounted(lev)
    BY <1>1 DEF Accounted, Reached
  <1>10. CallOK(lev)
    <2>1. \A k \in 1 .. Len(Usable) : lev[Usable[k]] = 0
      <3> TAKE k \in 1 .. Len(Usable)
      <3>1. Usable[k] \in Frame /\ Usable[k] # Root /\ lev[Usable[k]] \in 0 .. 4
        BY <1>2, UsableFrames
      <3>2. ~(lev[Usable[k]] >= 1)
        BY <1>l, <3>1, BootLevels
      <3> QED
        BY <3>1, <3>2
    <2>2. 1 \in 1 .. Len(Usable) + 1
      BY UsableFrames
    <2>3. InitListOK(lev)
      BY <1>1, <1>6, <2>1, <2>2 DEF InitListOK
    <2> QED
      BY <1>1, <2>3 DEF CallOK, UnmapOK, WalkOK, PathOK, Walks
  <1>11. mem \in Memory /\ ~Booted
    BY <1>1, BootTree DEF Booted
  <1> QED
    BY <1>2, <1>5, <1>7, <1>8, <1>9, <1>10, <1>11 DEF IInv, Inv

-----------------------------------------------------------------------------
LEMMA HeapCounted ==
  ASSUME v_heap \in Nat, [Next]_vars
  PROVE  v_heap' \in Nat
  <1>1. v_heap' = v_heap \/ v_heap' = v_heap + 1 \/ v_heap' = 0
    BY DEF Next, vars, Step, InitListFrame, InitListDone,
           UnmapStep, L4Present, L4Absent, L4Done, L3Table, L3Other, L3Done, L2Table,
           L2Other, L2Done, WalkStep, MapPresent, MapNoMemory, MapTable, MapPage,
           ProtectAbsent, ProtectTable, ProtectPage, UnmapTable, UnmapPage, Return,
           Client, VmMapCall, VmProtectCall, VmUnmapCall, MmapCall, UnmapLowerHalfCall,
           Start, TlbFill
  <1> QED
    BY <1>1

LEMMA NextIInv == IInv /\ v_heap \in Nat /\ [Next]_vars => IInv' /\ v_heap' \in Nat
  <1> SUFFICES ASSUME IInv, v_heap \in Nat, [Next]_vars PROVE IInv' /\ v_heap' \in Nat
    OBVIOUS
  <1>1. PICK lev \in [Frame -> 0 .. 4] : Inv(lev)
    BY DEF IInv
  <1>2. CASE InitListFrame
    BY <1>1, <1>2, InitListFrameIInv, HeapCounted
  <1>3. CASE InitListDone
    BY <1>1, <1>3, InitListDoneIInv, HeapCounted
  <1>4. CASE UnmapStep
    BY <1>1, <1>4, UnmapStepIInv, HeapCounted
  <1>5. CASE WalkStep
    BY <1>1, <1>5, WalkStepIInv, HeapCounted
  <1>6. CASE Client
    BY <1>1, <1>6, ClientIInv, HeapCounted
  <1>7. CASE TlbFill
    BY <1>1, <1>7, ElsewhereIInv, HeapCounted DEF TlbFill, history
  <1>8. CASE UNCHANGED vars
    BY <1>1, <1>8, ElsewhereIInv, HeapCounted DEF vars
  <1> QED
    BY <1>2, <1>3, <1>4, <1>5, <1>6, <1>7, <1>8 DEF Next, Step

(***************************************************************************)
(* The tables of the lower half are a tree at every step of every call:    *)
(* see the head of this module.                                            *)
(***************************************************************************)
THEOREM PagingInvariant == Spec => [](IInv /\ v_heap \in Nat)
  <1>1. Init => IInv /\ v_heap \in Nat
    BY InitIInv DEF Init
  <1>2. (IInv /\ v_heap \in Nat) /\ [Next]_vars => (IInv /\ v_heap \in Nat)'
    BY NextIInv
  <1> QED
    BY <1>1, <1>2, PTL DEF Spec

(***************************************************************************)
(* Whatever runs, the links of the free list visit the free frames, each   *)
(* once, and end: pmem_free never frees a frame twice, and no write of     *)
(* paging.c falls into a free frame.                                       *)
(***************************************************************************)
THEOREM PagingFreeList == Spec => []FreeListIntact
  <1>1. IInv => FreeListIntact
    BY DEF IInv, Inv, FreeOK
  <1> QED
    BY <1>1, PagingInvariant, PTL

(***************************************************************************)
(* No call works on a table that is on the free list, in the middle of     *)
(* unmap_lower_half included.                                              *)
(***************************************************************************)
THEOREM PagingTablesLive == Spec => []TablesLive
  <1>1. IInv => TablesLive
    <2> SUFFICES ASSUME NEW lev \in [Frame -> 0 .. 4], Inv(lev) PROVE TablesLive
      BY DEF IInv
    <2>1. \A f \in Frame : lev[f] >= 1 => f \notin Free
      BY Levels
    <2>2. ASSUME call.fn = "unmap_lower_half"
          PROVE  /\ call.loop < 4 => call.l3_table \notin Free
                 /\ call.loop < 3 => call.l2_table \notin Free
      BY <2>1, <2>2, Loops
    <2>3. ASSUME call.fn \in Walks
          PROVE  call.table \notin Free
      BY <2>3, WalkAt
    <2> QED
      BY <2>2, <2>3 DEF TablesLive, Walks
  <1> QED
    BY <1>1, PagingInvariant, PTL

-----------------------------------------------------------------------------
(***************************************************************************)
(* But in unmap_lower_half the levels are what a walk from the root finds. *)
(***************************************************************************)
LEMMA BootedHolds ==
  ASSUME NEW lev \in [Frame -> 0 .. 4], Inv(lev), Booted
  PROVE  /\ PagesOK(lev)
         /\ \A t \in Frame, k \in Index :
              HoldsTable(lev, t, k) <=> lev[t] >= 2 /\ mem[t][k].present /\ LowerWord(t, k)
  <1>1. PagesOK(lev) /\ call.fn # "unmap_lower_half"
    BY DEF Inv, Booted
  <1>2. ASSUME NEW t \in Frame, NEW k \in Index
        PROVE  HoldsTable(lev, t, k) <=>
                 lev[t] >= 2 /\ mem[t][k].present /\ LowerWord(t, k)
    <2>1. HoldsTable(lev, t, k) <=>
            /\ lev[t] >= 2
            /\ t = Root => k \in Lower /\ mem[t][k].present
            /\ t # Root => IsTable(mem[t][k])
      BY <1>1, NoLoop
    <2>2. CASE t = Root
      BY <2>1, <2>2 DEF LowerWord
    <2>3. CASE t # Root /\ lev[t] >= 2
      <3>1. lev[t] >= 1
        BY <2>3, Levels
      <3>2. ~mem[t][k].page_size
        BY <1>1, <2>3, <3>1 DEF PagesOK
      <3> QED
        BY <2>1, <2>3, <3>2 DEF LowerWord, IsTable
    <2> QED
      BY <2>1, <2>2, <2>3
  <1> QED
    BY <1>1, <1>2

LEMMA ChildLevel ==
  ASSUME NEW lev \in [Frame -> 0 .. 4], Inv(lev), Booted,
         NEW n \in 2 .. 4, NEW S, \A f : f \in S <=> f \in Frame /\ lev[f] = n
  PROVE  \A f : f \in Children(S) <=> f \in Frame /\ lev[f] = n - 1
  <1>1. \A f : f \in Children(S) <=>
          \E t \in S, k \in Index :
            mem[t][k].present /\ LowerWord(t, k) /\ f = mem[t][k].address
    <2>1. \A t \in S, k \in Index :
            mem[t][k].present /\ LowerWord(t, k) => <<t, k>> \in Present(S)
      BY DEF Present
    <2>2. \A r \in Present(S) :
            /\ r[1] \in S /\ r[2] \in Index
            /\ mem[r[1]][r[2]].present /\ LowerWord(r[1], r[2])
      BY DEF Present
    <2>3. \A f : f \in Children(S) <=> \E r \in Present(S) : f = mem[r[1]][r[2]].address
      BY DEF Children
    <2> SUFFICES ASSUME NEW f
                 PROVE  f \in Children(S) <=>
                          \E t \in S, k \in Index :
                            mem[t][k].present /\ LowerWord(t, k) /\ f = mem[t][k].address
      OBVIOUS
    <2>4. ASSUME NEW t \in S, NEW k \in Index, mem[t][k].present, LowerWord(t, k),
                 f = mem[t][k].address
          PROVE  f \in Children(S)
      <3>1. <<t, k>> \in Present(S) /\ <<t, k>>[1] = t /\ <<t, k>>[2] = k
        BY <2>1, <2>4
      <3> QED
        BY <2>3, <2>4, <3>1
    <2> QED
      BY <2>2, <2>3, <2>4
  <1>2. \A f : f \in Children(S) <=>
          \E t \in Frame, k \in Index :
            lev[t] = n /\ HoldsTable(lev, t, k) /\ f = mem[t][k].address
    <2>1. \A t \in Frame, k \in Index : lev[t] = n =>
            (HoldsTable(lev, t, k) <=> mem[t][k].present /\ LowerWord(t, k))
      BY BootedHolds
    <2> QED
      BY <1>1, <2>1
  <1>3. ASSUME NEW f \in Frame, lev[f] = n - 1
        PROVE  \E t \in Frame, k \in Index :
                 lev[t] = n /\ HoldsTable(lev, t, k) /\ f = mem[t][k].address
    <2>1. lev[f] \in 1 .. 3
      BY <1>3
    <2>2. PICK t \in Frame : \E k \in Held(lev)[t] : mem[t][k].address = f
      BY <2>1 DEF Inv, Tree
    <2>3. PICK k \in Held(lev)[t] : mem[t][k].address = f
      BY <2>2
    <2>4. k \in Index /\ HoldsTable(lev, t, k)
      BY HeldWords
    <2>5. lev[f] + 1 = lev[t]
      BY <2>3, <2>4, Levels
    <2>6. lev[t] = n
      BY <1>3, <2>5
    <2> QED
      BY <2>3, <2>4, <2>6
  <1>4. ASSUME NEW t \in Frame, NEW k \in Index, lev[t] = n, HoldsTable(lev, t, k)
        PROVE  mem[t][k].address \in Frame /\ lev[mem[t][k].address] = n - 1
    <2>1. mem[t][k].address \in Frame /\ lev[mem[t][k].address] + 1 = n
      BY <1>4, Levels
    <2> QED
      BY <2>1
  <1> QED
    BY <1>2, <1>3, <1>4

LEMMA TableLevels ==
  ASSUME NEW lev \in [Frame -> 0 .. 4], Inv(lev), Booted
  PROVE  \A f : f \in Tables <=> f \in Frame /\ lev[f] >= 1
  <1>1. \A f : f \in {Root} <=> f \in Frame /\ lev[f] = 4
    BY Levels
  <1>2. \A f : f \in L3Tables <=> f \in Frame /\ lev[f] = 4 - 1
    BY <1>1, ChildLevel DEF L3Tables
  <1>3. \A f : f \in L3Tables <=> f \in Frame /\ lev[f] = 3
    BY <1>2
  <1>4. \A f : f \in L2Tables <=> f \in Frame /\ lev[f] = 3 - 1
    BY <1>3, ChildLevel DEF L2Tables
  <1>5. \A f : f \in L2Tables <=> f \in Frame /\ lev[f] = 2
    BY <1>4
  <1>6. \A f : f \in L1Tables <=> f \in Frame /\ lev[f] = 2 - 1
    BY <1>5, ChildLevel DEF L1Tables
  <1>7. \A f : f \in L1Tables <=> f \in Frame /\ lev[f] = 1
    BY <1>6
  <1>8. \A f \in Frame : lev[f] >= 1 <=>
          lev[f] = 4 \/ lev[f] = 3 \/ lev[f] = 2 \/ lev[f] = 1
    BY Levels
  <1> QED
    BY <1>1, <1>3, <1>5, <1>7, <1>8 DEF Tables

(***************************************************************************)
(* No frame has two owners, whether a call is under way, has returned or   *)
(* has run out of memory: see Paging.                                      *)
(***************************************************************************)
THEOREM PagingOneOwner == Spec => []OneOwner
  <1>1. IInv => OneOwner
    <2> SUFFICES ASSUME NEW lev \in [Frame -> 0 .. 4], Inv(lev), Booted,
                        NEW r \in Refs, NEW f, f = mem[r[1]][r[2]].address
                 PROVE  /\ f \notin Free \cup KernelFrame \cup {Root, NULL}
                        /\ \A q \in Refs : mem[q[1]][q[2]].address = f => q = r
      BY DEF IInv, OneOwner
    <2>1. \A q \in Refs :
            /\ q[1] \in Frame /\ q[2] \in Index /\ q = <<q[1], q[2]>>
            /\ mem[q[1]][q[2]].present /\ LowerWord(q[1], q[2])
            /\ lev[q[1]] >= 1
      BY TableLevels DEF Refs, Present
    <2>2. \A q \in Refs :
            \/ HoldsTable(lev, q[1], q[2])
            \/ PageOf(lev, q[1], q[2])
      <3> SUFFICES ASSUME NEW q \in Refs, ~PageOf(lev, q[1], q[2])
                   PROVE  HoldsTable(lev, q[1], q[2])
        OBVIOUS
      <3>1. lev[q[1]] # 1
        BY <2>1 DEF PageOf
      <3>2. lev[q[1]] >= 2
        BY <2>1, <3>1, Levels
      <3> QED
        BY <2>1, <3>2, BootedHolds
    <2>3. \A q \in Refs : HoldsTable(lev, q[1], q[2]) =>
            LET g == mem[q[1]][q[2]].address IN
              /\ g \in Frame /\ lev[g] >= 1 /\ lev[g] # 4
      <3> SUFFICES ASSUME NEW q \in Refs, HoldsTable(lev, q[1], q[2]),
                          NEW g, g = mem[q[1]][q[2]].address
                   PROVE  g \in Frame /\ lev[g] >= 1 /\ lev[g] # 4
        OBVIOUS
      <3>1. /\ g \in Frame /\ lev[g] + 1 = lev[q[1]] /\ lev[q[1]] >= 2
            /\ lev[q[1]] \in 0 .. 4 /\ lev[g] \in 0 .. 4
        BY <2>1, Levels
      <3> QED
        BY <3>1
    <2>4. \A q \in Refs : PageOf(lev, q[1], q[2]) =>
            LET g == mem[q[1]][q[2]].address IN
              /\ g \in Frame /\ lev[g] = 0 /\ g \notin Free \cup KernelFrame
      BY <2>1, BootedHolds DEF PagesOK
    <2>5. NULL \notin Frame /\ lev[Root] = 4
      BY Levels, FrameAssumption
    <2>6. f \notin Free \cup KernelFrame \cup {Root, NULL}
      <3>1. CASE HoldsTable(lev, r[1], r[2])
        <4>1. f \in Frame /\ lev[f] >= 1 /\ lev[f] # 4
          BY <2>3, <3>1
        <4> QED
          BY <2>5, <4>1, Levels
      <3>2. CASE PageOf(lev, r[1], r[2])
        <4>1. f \in Frame /\ lev[f] = 0 /\ f \notin Free \cup KernelFrame
          BY <2>4, <3>2
        <4> QED
          BY <2>5, <4>1
      <3> QED
        BY <2>2, <3>1, <3>2
    <2>7. ASSUME NEW q \in Refs, mem[q[1]][q[2]].address = f
          PROVE  q = r
      <3>1. CASE HoldsTable(lev, q[1], q[2]) /\ HoldsTable(lev, r[1], r[2])
        <4>1. q[1] = r[1] /\ q[2] = r[2]
          BY <2>1, <2>7, <3>1, OneHolder
        <4> QED
          BY <2>1, <4>1
      <3>2. CASE PageOf(lev, q[1], q[2]) /\ PageOf(lev, r[1], r[2])
        <4>1. q[1] = r[1] /\ q[2] = r[2]
          BY <2>1, <2>7, <3>2, BootedHolds DEF PagesOK
        <4> QED
          BY <2>1, <4>1
      <3>3. CASE HoldsTable(lev, q[1], q[2]) /\ PageOf(lev, r[1], r[2])
        <4>1. lev[f] >= 1 /\ lev[f] = 0
          BY <2>3, <2>4, <2>7, <3>3
        <4> QED
          BY <4>1
      <3>4. CASE PageOf(lev, q[1], q[2]) /\ HoldsTable(lev, r[1], r[2])
        <4>1. lev[f] >= 1 /\ lev[f] = 0
          BY <2>3, <2>4, <2>7, <3>4
        <4> QED
          BY <4>1
      <3> QED
        BY <2>2, <3>1, <3>2, <3>3, <3>4
    <2> QED
      BY <2>6, <2>7
  <1> QED
    BY <1>1, PagingInvariant, PTL

(***************************************************************************)
(* No frame that the kernel was given is lost, but for the pages of        *)
(* programs that are gone, and a walk without memory for its next level    *)
(* loses none.                                                             *)
(***************************************************************************)
THEOREM PagingNoTableLost == Spec => []NoTableLost
  <1>1. IInv => NoTableLost
    <2> SUFFICES ASSUME NEW lev \in [Frame -> 0 .. 4], Inv(lev), Booted,
                        NEW k \in 1 .. Len(Usable)
                 PROVE  Usable[k] \in Free \cup Tables \cup given
      BY DEF IInv, NoTableLost
    <2>1. Usable[k] \in Free \cup given \/ lev[Usable[k]] >= 1
      BY DEF Inv, Accounted, Reached, Booted
    <2> QED
      BY <2>1, TableLevels, UsableFrames
  <1> QED
    BY <1>1, PagingInvariant, PTL

-----------------------------------------------------------------------------
(***************************************************************************)
(* What no call writes: the kernel's tables and the upper half of the      *)
(* root.                                                                   *)
(***************************************************************************)
KernelWord(f, n) == f \in KernelFrame \/ (f = Root /\ n \notin Lower)

LEMMA KernelWords ==
  ASSUME mem \in Memory, mem' \in Memory,
         \A f \in Frame, n \in Index : KernelWord(f, n) => mem'[f][n] = mem[f][n]
  PROVE  KernelHalf' = KernelHalf
  <1>1. \A f \in KernelFrame : mem'[f] = mem[f]
    <2> SUFFICES ASSUME NEW f \in KernelFrame PROVE mem'[f] = mem[f]
      OBVIOUS
    <2>1. f \in Frame
      BY FrameAssumption
    <2>2. \A n \in Index : mem'[f][n] = mem[f][n]
      BY <2>1 DEF KernelWord
    <2>3. mem[f] \in [Index -> Word] /\ mem'[f] \in [Index -> Word]
      BY <2>1 DEF Memory
    <2> QED
      BY <2>2, <2>3
  <1>2. \A n \in Index \ Lower : mem'[Root][n] = mem[Root][n]
    BY FrameAssumption DEF KernelWord
  <1> QED
    BY <1>1, <1>2 DEF KernelHalf

\* The frames and words that calls write are not the kernel's.
LEMMA FreedNotKernel ==
  ASSUME NEW lev \in [Frame -> 0 .. 4], Inv(lev),
         NEW a \in Frame, NEW b \in Index, HoldsTable(lev, a, b),
         NEW p, p = mem[a][b].address, pmem_free(p)
  PROVE  KernelHalf' = KernelHalf
  <1>1. /\ mem' \in Memory /\ p \in Frame /\ p # Root /\ p \notin KernelFrame
        /\ \A f \in Frame \ {p} : mem'[f] = mem[f]
    BY TableFreed
  <1>2. mem \in Memory
    BY DEF Inv
  <1>3. \A f \in Frame, n \in Index : KernelWord(f, n) => mem'[f][n] = mem[f][n]
    BY <1>1 DEF KernelWord
  <1> QED
    BY <1>1, <1>2, <1>3, KernelWords

LEMMA TakenNotKernel ==
  ASSUME NEW lev \in [Frame -> 0 .. 4], Inv(lev), call.fn \in Walks,
         NEW e \in Word, Allocate(e)
  PROVE  KernelHalf' = KernelHalf
  <1>1. /\ mem' \in Memory /\ lev[free_list] = 0 /\ free_list \notin KernelFrame
        /\ \A f \in Frame \ {free_list}, n \in Index :
             ~(f = call.table /\ n = call.va[call.i]) => mem'[f][n] = mem[f][n]
    BY AllocateAt
  <1>2. /\ free_list # Root /\ mem \in Memory
        /\ call.table \notin KernelFrame
        /\ call.table = Root => call.va[call.i] \in Lower
    BY <1>1, WalkAt, Levels DEF Inv
  <1>3. \A f \in Frame, n \in Index : KernelWord(f, n) => mem'[f][n] = mem[f][n]
    BY <1>1, <1>2 DEF KernelWord
  <1> QED
    BY <1>1, <1>2, <1>3, KernelWords

LEMMA WordNotKernel ==
  ASSUME NEW lev \in [Frame -> 0 .. 4], Inv(lev),
         NEW t \in Frame, NEW k \in Index, ~KernelWord(t, k), NEW e,
         mem' \in Memory, Written(t, k, e)
  PROVE  KernelHalf' = KernelHalf
  <1>1. mem \in Memory
    BY DEF Inv
  <1>2. \A f \in Frame, n \in Index : ~(f = t /\ n = k) => mem'[f][n] = mem[f][n]
    BY <1>1 DEF Written, Memory
  <1> QED
    BY <1>1, <1>2, KernelWords

LEMMA KernelStep ==
  ASSUME NEW lev \in [Frame -> 0 .. 4], Inv(lev), [Next]_vars, mem' \in Memory
  PROVE  KernelHalf' = KernelHalf
  <1>1. ASSUME mem' = mem
        PROVE  KernelHalf' = KernelHalf
    BY <1>1 DEF KernelHalf
  <1>m. mem \in Memory
    BY DEF Inv
  <1>2. CASE InitListFrame
    <2>p. PICK p : p = Usable[call.j]
      OBVIOUS
    <2>1. pmem_free(p) /\ call.fn = "init_list" /\ call.j <= Len(Usable)
      BY <1>2, <2>p DEF InitListFrame
    <2>2. call.j \in 1 .. Len(Usable) + 1
      BY <2>1 DEF Inv, CallOK, InitListOK
    <2>3. p \in Frame /\ p \notin KernelFrame /\ p # Root
      BY <2>p, <2>1, <2>2, UsableFrames
    <2>4. Written(p, 0, Link(free_list)) /\ ~KernelWord(p, 0) /\ 0 \in Index
      BY <2>1, <2>3, FirstIndex DEF pmem_free, Written, KernelWord
    <2> QED
      BY <2>3, <2>4, WordNotKernel
  <1>3. CASE L4Present
    <2>k. PICK k : k = call.l4_index
      OBVIOUS
    <2>1. call.fn = "unmap_lower_half" /\ k \in Lower /\ k \in Index
      <3>1. call.fn = "unmap_lower_half" /\ k < HALF
        BY <1>3, <2>k DEF L4Present, InLoop
      <3>2. k \in 0 .. HALF
        BY <2>k, <3>1, Loops
      <3> QED
        BY <3>1, <3>2, FirstIndex DEF Lower, Index
    <2>2. Written(Root, k, [mem[Root][k] EXCEPT !.present = FALSE])
      BY <1>3, <1>m, <2>k, <2>1, FrameAssumption DEF L4Present, Written, Memory
    <2>3. Root \in Frame /\ ~KernelWord(Root, k)
      BY <2>1, FrameAssumption DEF KernelWord
    <2> QED
      BY <2>1, <2>2, <2>3, WordNotKernel
  <1>4. CASE L3Done
    <2>1. /\ call.fn = "unmap_lower_half" /\ call.loop = 3
          /\ pmem_free(mem[Root][call.l4_index].address)
      BY <1>4 DEF L3Done, InLoop
    <2>2. call.l4_index \in Index /\ HoldsTable(lev, Root, call.l4_index) /\ Root \in Frame
      BY <2>1, Loops, FrameAssumption
    <2> QED
      BY <2>1, <2>2, FreedNotKernel
  <1>5. CASE L2Table
    <2>1. /\ call.fn = "unmap_lower_half" /\ call.loop = 2 /\ call.l2_index < ENTRIES
          /\ IsTable(mem[call.l2_table][call.l2_index])
          /\ pmem_free(mem[call.l2_table][call.l2_index].address)
      BY <1>5 DEF L2Table, InLoop
    <2>2. /\ call.l2_table \in Frame /\ call.l2_table # Root /\ lev[call.l2_table] = 2
          /\ lev[call.l3_table] = 3 /\ call.l2_index \in 0 .. ENTRIES
      BY <2>1, Loops
    <2>3. call.l2_index \in Index /\ ~(call.l2_index < call.l2_index)
      BY <2>1, <2>2, FirstIndex DEF Index
    <2>4. ~Behind(call.l2_table, call.l2_index)
      <3>1. call.l2_table # call.l3_table
        BY <2>2
      <3> QED
        BY <2>3, <3>1 DEF Behind
    <2>5. HoldsTable(lev, call.l2_table, call.l2_index)
      BY <2>1, <2>2, <2>4 DEF HoldsTable
    <2> QED
      BY <2>1, <2>2, <2>3, <2>5, FreedNotKernel
  <1>6. CASE L2Done
    <2>1. /\ call.fn = "unmap_lower_half" /\ call.loop = 2
          /\ pmem_free(mem[call.l3_table][call.l3_index].address)
      BY <1>6 DEF L2Done, InLoop
    <2>2. /\ call.l3_index \in Index /\ HoldsTable(lev, call.l3_table, call.l3_index)
          /\ call.l3_table \in Frame
      BY <2>1, Loops
    <2> QED
      BY <2>1, <2>2, FreedNotKernel
  <1>7. CASE MapTable
    <2>e. PICK e : e = [Entry EXCEPT !.present = TRUE, !.user = TRUE, !.writable = TRUE,
                                     !.address = free_list]
      OBVIOUS
    <2>1. Allocate(e) /\ call.fn \in Walks
      BY <1>7, <2>e DEF MapTable, Walks
    <2>2. e \in Word
      <3>1. Entry \in Word /\ free_list \in Frame \cup {NULL}
        BY <2>1, WalkAt, FreeListHead DEF Inv
      <3> QED
        BY <2>e, <3>1 DEF Word
    <2> QED
      BY <2>1, <2>2, TakenNotKernel
  <1>8. CASE MapPage
    <2>e. PICK e : e = [Entry EXCEPT !.present = TRUE, !.user = call.perm.user,
                                     !.writable = call.perm.writable,
                                     !.no_execute = ~call.perm.executable,
                                     !.address = free_list]
      OBVIOUS
    <2>1. Allocate(e) /\ call.fn \in Walks
      BY <1>8, <2>e DEF MapPage, Walks
    <2>2. e \in Word
      <3>1. /\ call.perm.user \in BOOLEAN /\ call.perm.writable \in BOOLEAN
            /\ call.perm.executable \in BOOLEAN
        BY <1>8 DEF Inv, CallOK, WalkOK, MapPage, Walks, Permission
      <3>2. (~call.perm.executable) \in BOOLEAN
        OBVIOUS
      <3>3. free_list \in Frame \cup {NULL} /\ Entry \in Word
        BY <2>1, WalkAt, FreeListHead DEF Inv
      <3> QED
        BY <2>e, <3>1, <3>2, <3>3 DEF Word
    <2> QED
      BY <2>1, <2>2, TakenNotKernel
  <1>9. ASSUME NEW t, t = call.table, NEW k, k = call.va[0], NEW e, Written(t, k, e),
               call.fn \in Walks, call.i = 0
        PROVE  KernelHalf' = KernelHalf
    <2>1. t \in Frame /\ k \in Index /\ t # Root /\ t \notin KernelFrame
      BY <1>9, WalkAt
    <2>2. ~KernelWord(t, k)
      BY <2>1 DEF KernelWord
    <2> QED
      BY <1>9, <2>1, <2>2, WordNotKernel
  <1>10. CASE ProtectPage \/ UnmapPage
    <2>1. call.fn \in Walks /\ call.i = 0
      BY <1>10 DEF ProtectPage, UnmapPage, Walks
    <2>2. \E e : Written(call.table, call.va[0], e)
      <3>1. call.table \in Frame /\ call.va[0] \in Index
        BY <2>1, WalkAt
      <3>2. CASE ProtectPage
        BY <3>1, <3>2, <1>m DEF ProtectPage, Written, Memory
      <3>3. CASE UnmapPage
        BY <3>1, <3>3, <1>m DEF UnmapPage, Written, Memory
      <3> QED
        BY <1>10, <3>2, <3>3
    <2> QED
      BY <1>9, <2>1, <2>2
  <1>11. CASE \/ InitListDone \/ L4Absent \/ L4Done \/ L3Table \/ L3Other \/ L2Other
              \/ MapPresent \/ MapNoMemory \/ ProtectAbsent \/ ProtectTable \/ UnmapTable
              \/ Client \/ TlbFill \/ UNCHANGED vars
    BY <1>1, <1>11 DEF InitListDone, L4Absent, L4Done, L3Table, L3Other, L2Other,
         MapPresent, MapNoMemory, ProtectAbsent, ProtectTable, UnmapTable, Client,
         VmMapCall, VmProtectCall, VmUnmapCall, MmapCall, UnmapLowerHalfCall, Start,
         TlbFill, vars
  <1> QED
    BY <1>2, <1>3, <1>4, <1>5, <1>6, <1>7, <1>8, <1>9, <1>10, <1>11
       DEF Next, Step, UnmapStep, WalkStep

(***************************************************************************)
(* No call changes what maps the kernel's half of the address space.       *)
(***************************************************************************)
THEOREM PagingKernelHalfKept == Spec => KernelHalfKept
  <1>1. IInv /\ IInv' /\ [Next]_vars => [KernelHalf' = KernelHalf]_vars
    BY KernelStep DEF IInv, Inv
  <1> QED
    BY <1>1, PagingInvariant, PTL DEF Spec, KernelHalfKept

-----------------------------------------------------------------------------
(***************************************************************************)
(* What the tables say: which step changes the translation of which        *)
(* address, and from this that nothing cached is stale, that the pages of  *)
(* mmap are mapped, and that Paging implements AddrSpace.                  *)
(*                                                                         *)
(* A walk reads one word of a table of each level, and two walks that read *)
(* the same word have come to it through the same words, as each table is  *)
(* held by one word only.                                                  *)
(***************************************************************************)
\* The words on the way of an address.
E4(a) == mem[Root][a[3]]
E3(a) == mem[E4(a).address][a[2]]
E2(a) == mem[E3(a).address][a[1]]
E1(a) == mem[E2(a).address][a[0]]

Leads4(a) == E4(a).present
Leads3(a) == Leads4(a) /\ IsTable(E3(a))
Leads2(a) == Leads3(a) /\ IsTable(E2(a))

\* The walk of a reads word n of frame f.
Reads(a, f, n) ==
  \/ f = Root /\ n = a[3]
  \/ Leads4(a) /\ f = E4(a).address /\ n = a[2]
  \/ Leads3(a) /\ f = E3(a).address /\ n = a[1]
  \/ Leads2(a) /\ f = E2(a).address /\ n = a[0]

LEMMA WalkWords ==
  ASSUME NEW a
  PROVE  Walk(a) = IF ~Leads4(a) \/ ~E3(a).present THEN Unmapped
                   ELSE IF E3(a).page_size THEN Through({E4(a), E3(a)}, E3(a))
                   ELSE IF ~E2(a).present THEN Unmapped
                   ELSE IF E2(a).page_size THEN Through({E4(a), E3(a), E2(a)}, E2(a))
                   ELSE IF ~E1(a).present THEN Unmapped
                   ELSE Through({E4(a), E3(a), E2(a), E1(a)}, E1(a))
  BY DEF Walk, Leads4, E4, E3, E2, E1

\* A walk depends on the words that it reads.
LEMMA WalkKept ==
  ASSUME NEW a,
         \A f, n : Reads(a, f, n) => mem'[f][n] = mem[f][n]
  PROVE  Walk(a)' = Walk(a)
  <1>1. E4(a)' = E4(a)
    BY DEF E4, Reads
  <1>2. Leads4(a) => E3(a)' = E3(a)
    BY <1>1 DEF E3, Reads
  <1>3. Leads3(a) => E2(a)' = E2(a)
    BY <1>2 DEF E2, Reads, Leads3
  <1>4. Leads2(a) => E1(a)' = E1(a)
    BY <1>3 DEF E1, Reads, Leads2, Leads3
  <1>5. Walk(a)' = IF ~E4(a)'.present \/ ~E3(a)'.present THEN Unmapped
                   ELSE IF E3(a)'.page_size THEN Through({E4(a)', E3(a)'}, E3(a)')
                   ELSE IF ~E2(a)'.present THEN Unmapped
                   ELSE IF E2(a)'.page_size THEN Through({E4(a)', E3(a)', E2(a)'}, E2(a)')
                   ELSE IF ~E1(a)'.present THEN Unmapped
                   ELSE Through({E4(a)', E3(a)', E2(a)', E1(a)'}, E1(a)')
    BY DEF Walk, E4, E3, E2, E1, Unmapped, Through
  <1>6. CASE ~Leads4(a) \/ ~E3(a).present
    BY <1>1, <1>2, <1>5, <1>6, WalkWords DEF Leads4
  <1>7. CASE Leads4(a) /\ E3(a).present /\ E3(a).page_size
    BY <1>1, <1>2, <1>5, <1>7, WalkWords DEF Leads4
  <1>8. CASE Leads3(a) /\ (~E2(a).present \/ E2(a).page_size)
    BY <1>1, <1>2, <1>3, <1>5, <1>8, WalkWords DEF Leads3, Leads4, IsTable
  <1>9. CASE Leads2(a)
    BY <1>1, <1>2, <1>3, <1>4, <1>5, <1>9, WalkWords DEF Leads2, Leads3, Leads4, IsTable
  <1> QED
    BY <1>6, <1>7, <1>8, <1>9 DEF Leads2, Leads3, IsTable

\* A walk goes through tables, level by level, even while unmap_lower_half
\* takes other tables apart.
LEMMA WayTables ==
  ASSUME NEW lev \in [Frame -> 0 .. 4], Inv(lev), NEW a \in Addr
  PROVE  /\ a[3] \in Lower /\ a[3] \in Index /\ a[2] \in Index /\ a[1] \in Index /\ a[0] \in Index
         /\ Leads4(a) => /\ HoldsTable(lev, Root, a[3])
                         /\ E4(a).address \in Frame /\ lev[E4(a).address] = 3
         /\ Leads3(a) => /\ HoldsTable(lev, E4(a).address, a[2])
                         /\ E3(a).address \in Frame /\ lev[E3(a).address] = 2
         /\ Leads2(a) => /\ HoldsTable(lev, E3(a).address, a[1])
                         /\ E2(a).address \in Frame /\ lev[E2(a).address] = 1
         /\ call.fn = "unmap_lower_half" =>
              /\ Leads4(a) /\ call.loop < 4 => E4(a).address # call.l3_table
              /\ Leads3(a) /\ call.loop < 3 => E3(a).address # call.l2_table
  <1>1. a[3] \in Lower /\ a[3] \in Index /\ a[2] \in Index /\ a[1] \in Index /\ a[0] \in Index
    BY Indices
  <1>2. Root \in Frame /\ lev[Root] = 4
    BY Levels
  <1>3. ASSUME Leads4(a)
        PROVE  /\ HoldsTable(lev, Root, a[3])
               /\ E4(a).address \in Frame /\ lev[E4(a).address] = 3
    <2>1. HoldsTable(lev, Root, a[3])
      BY <1>1, <1>2, <1>3 DEF HoldsTable, Leads4, E4
    <2>2. E4(a).address \in Frame /\ lev[E4(a).address] + 1 = 4
      BY <1>1, <1>2, <2>1, Levels DEF E4
    <2> QED
      BY <2>1, <2>2, Levels
  <1>4. ASSUME Leads4(a), call.fn = "unmap_lower_half", call.loop < 4
        PROVE  E4(a).address # call.l3_table
    <2>1. /\ call.l4_index \in Index /\ HoldsTable(lev, Root, call.l4_index)
          /\ call.l3_table = mem[Root][call.l4_index].address
          /\ ~mem[Root][call.l4_index].present
      BY <1>4, Loops
    <2>2. E4(a).address = call.l3_table => a[3] = call.l4_index
      BY <1>1, <1>2, <1>3, <1>4, <2>1, OneHolder DEF E4
    <2> QED
      BY <1>4, <2>1, <2>2 DEF Leads4, E4
  <1>5. ASSUME Leads3(a)
        PROVE  /\ HoldsTable(lev, E4(a).address, a[2])
               /\ E3(a).address \in Frame /\ lev[E3(a).address] = 2
    <2>1. Leads4(a) /\ IsTable(E3(a))
      BY <1>5 DEF Leads3
    <2>2. E4(a).address \in Frame /\ lev[E4(a).address] = 3 /\ E4(a).address # Root
      BY <1>2, <1>3, <2>1
    <2>3. ~Behind(E4(a).address, a[2])
      <3>1. ASSUME Below
            PROVE  E4(a).address # call.l3_table
        BY <1>4, <2>1, <3>1 DEF Below
      <3>2. ASSUME Below, call.loop < 3
            PROVE  E4(a).address # call.l2_table
        <4>1. lev[call.l2_table] = 2
          BY <3>2, Loops DEF Below
        <4> QED
          BY <2>2, <4>1
      <3> QED
        BY <3>1, <3>2 DEF Behind
    <2>4. HoldsTable(lev, E4(a).address, a[2])
      <3>1. lev[E4(a).address] >= 2
        BY <2>2
      <3> QED
        BY <2>1, <2>2, <2>3, <3>1 DEF HoldsTable, E3
    <2>5. E3(a).address \in Frame /\ lev[E3(a).address] + 1 = 3
      BY <1>1, <2>2, <2>4, Levels DEF E3
    <2> QED
      BY <2>4, <2>5, Levels
  <1>6. ASSUME Leads3(a), call.fn = "unmap_lower_half", call.loop < 3
        PROVE  E3(a).address # call.l2_table
    <2>1. /\ call.l3_index \in Index /\ HoldsTable(lev, call.l3_table, call.l3_index)
          /\ call.l2_table = mem[call.l3_table][call.l3_index].address
          /\ call.l3_table \in Frame /\ call.loop < 4
      BY <1>6, Loops
    <2>2. Leads4(a)
      BY <1>6 DEF Leads3
    <2>3. E3(a).address = call.l2_table => E4(a).address = call.l3_table
      BY <1>1, <1>3, <1>5, <1>6, <2>1, <2>2, OneHolder DEF E3
    <2> QED
      BY <1>4, <1>6, <2>1, <2>2, <2>3
  <1>7. ASSUME Leads2(a)
        PROVE  /\ HoldsTable(lev, E3(a).address, a[1])
               /\ E2(a).address \in Frame /\ lev[E2(a).address] = 1
    <2>1. Leads3(a) /\ IsTable(E2(a))
      BY <1>7 DEF Leads2
    <2>2. E3(a).address \in Frame /\ lev[E3(a).address] = 2 /\ E3(a).address # Root
      BY <1>2, <1>5, <2>1
    <2>3. ~Behind(E3(a).address, a[1])
      <3>1. ASSUME Below
            PROVE  E3(a).address # call.l3_table
        <4>1. lev[call.l3_table] = 3
          BY <3>1, Loops DEF Below
        <4> QED
          BY <2>2, <4>1
      <3>2. ASSUME Below, call.loop < 3
            PROVE  E3(a).address # call.l2_table
        BY <1>6, <2>1, <3>2 DEF Below
      <3> QED
        BY <3>1, <3>2 DEF Behind
    <2>4. HoldsTable(lev, E3(a).address, a[1])
      <3>1. lev[E3(a).address] >= 2
        BY <2>2
      <3> QED
        BY <2>1, <2>2, <2>3, <3>1 DEF HoldsTable, E2
    <2>5. E2(a).address \in Frame /\ lev[E2(a).address] + 1 = 2
      BY <1>1, <2>2, <2>4, Levels DEF E2
    <2> QED
      BY <2>4, <2>5, Levels
  <1> QED
    BY <1>1, <1>3, <1>4, <1>5, <1>6, <1>7

\* So it reads words of tables, and which word of them is known by the level.
LEMMA ReadsWhere ==
  ASSUME NEW lev \in [Frame -> 0 .. 4], Inv(lev), NEW a \in Addr, NEW f, NEW n, Reads(a, f, n)
  PROVE  /\ f \in Frame /\ n \in Index /\ lev[f] \in 1 .. 4
         /\ lev[f] = 4 => f = Root /\ n = a[3]
         /\ lev[f] = 3 => Leads4(a) /\ f = E4(a).address /\ n = a[2]
         /\ lev[f] = 2 => Leads3(a) /\ f = E3(a).address /\ n = a[1]
         /\ lev[f] = 1 => Leads2(a) /\ f = E2(a).address /\ n = a[0]
  <1>1. Root \in Frame /\ lev[Root] = 4
    BY Levels
  <1>2. CASE f = Root /\ n = a[3]
    BY <1>1, <1>2, WayTables
  <1>3. CASE Leads4(a) /\ f = E4(a).address /\ n = a[2]
    BY <1>3, WayTables
  <1>4. CASE Leads3(a) /\ f = E3(a).address /\ n = a[1]
    BY <1>4, WayTables
  <1>5. CASE Leads2(a) /\ f = E2(a).address /\ n = a[0]
    BY <1>5, WayTables
  <1> QED
    BY <1>2, <1>3, <1>4, <1>5 DEF Reads

-----------------------------------------------------------------------------
(***************************************************************************)
(* init_list and unmap_lower_half: every translation stays but those below *)
(* the root's entry that is cleared.                                       *)
(***************************************************************************)
Stays == \A a \in Addr : Walk(a)' = Walk(a)

LEMMA MemoryStays == ASSUME UNCHANGED mem PROVE Stays
  BY WalkKept DEF Stays

LEMMA FreedUnread ==
  ASSUME NEW lev \in [Frame -> 0 .. 4], Inv(lev), NEW p, pmem_free(p),
         \A a \in Addr : \A n : ~Reads(a, p, n)
  PROVE  Stays
  <1>1. mem' = [mem EXCEPT ![p][0] = Link(free_list)]
    BY DEF pmem_free
  <1>2. \A f \in Frame \ {p} : mem'[f] = mem[f]
    BY <1>1 DEF Inv, Memory
  <1>3. ASSUME NEW a \in Addr
        PROVE  Walk(a)' = Walk(a)
    <2>1. \A f, n : Reads(a, f, n) => f \in Frame \ {p}
      BY ReadsWhere
    <2>2. \A f, n : Reads(a, f, n) => mem'[f][n] = mem[f][n]
      BY <1>2, <2>1
    <2> QED
      BY <2>2, WalkKept
  <1> QED
    BY <1>3 DEF Stays

LEMMA InitListFrameStays ==
  ASSUME NEW lev \in [Frame -> 0 .. 4], Inv(lev), InitListFrame PROVE Stays
  <1>p. PICK p : p = Usable[call.j]
    OBVIOUS
  <1>1. call.fn = "init_list" /\ call.j <= Len(Usable) /\ pmem_free(p)
    BY <1>p DEF InitListFrame
  <1>2. call.j \in 1 .. Len(Usable)
    <2>1. call.j \in 1 .. Len(Usable) + 1
      BY <1>1 DEF Inv, CallOK, InitListOK
    <2> QED
      BY <1>1, <2>1, UsableFrames
  <1>3. lev[p] = 0
    BY <1>1, <1>2, <1>p DEF Inv, CallOK, InitListOK
  <1>4. \A a \in Addr : \A n : ~Reads(a, p, n)
    <2> SUFFICES ASSUME NEW a \in Addr, NEW n, Reads(a, p, n) PROVE FALSE
      OBVIOUS
    <2>1. lev[p] \in 1 .. 4
      BY ReadsWhere
    <2> QED
      BY <1>3, <2>1
  <1> QED
    BY <1>1, <1>4, FreedUnread

LEMMA L3DoneStays ==
  ASSUME NEW lev \in [Frame -> 0 .. 4], Inv(lev), L3Done PROVE Stays
  <1>p. PICK p : p = call.l3_table
    OBVIOUS
  <1>1. call.fn = "unmap_lower_half" /\ call.loop = 3
    BY DEF L3Done, InLoop
  <1>2. p = mem[Root][call.l4_index].address /\ lev[p] = 3
    BY <1>1, <1>p, Loops
  <1>3. pmem_free(p)
    BY <1>2 DEF L3Done
  <1>4. ASSUME NEW a \in Addr, NEW n, Reads(a, p, n)
        PROVE  FALSE
    <2>1. Leads4(a) /\ p = E4(a).address
      BY <1>2, <1>4, ReadsWhere
    <2> QED
      BY <1>1, <1>p, <2>1, WayTables
  <1> QED
    BY <1>3, <1>4, FreedUnread

LEMMA L2DoneStays ==
  ASSUME NEW lev \in [Frame -> 0 .. 4], Inv(lev), L2Done PROVE Stays
  <1>p. PICK p : p = call.l2_table
    OBVIOUS
  <1>1. call.fn = "unmap_lower_half" /\ call.loop = 2
    BY DEF L2Done, InLoop
  <1>2. p = mem[call.l3_table][call.l3_index].address /\ lev[p] = 2
    BY <1>1, <1>p, Loops
  <1>3. pmem_free(p)
    BY <1>2 DEF L2Done
  <1>4. ASSUME NEW a \in Addr, NEW n, Reads(a, p, n)
        PROVE  FALSE
    <2>1. Leads3(a) /\ p = E3(a).address
      BY <1>2, <1>4, ReadsWhere
    <2> QED
      BY <1>1, <1>p, <2>1, WayTables
  <1> QED
    BY <1>3, <1>4, FreedUnread

LEMMA L2TableHolds ==
  ASSUME NEW lev \in [Frame -> 0 .. 4], Inv(lev), L2Table,
         NEW t, t = call.l2_table, NEW k, k = call.l2_index,
         NEW p, p = mem[t][k].address
  PROVE  /\ call.fn = "unmap_lower_half" /\ call.loop = 2
         /\ t \in Frame /\ k \in Index /\ HoldsTable(lev, t, k)
         /\ p \in Frame /\ lev[p] = 1 /\ p # Root /\ pmem_free(p)
  <1>1. /\ call.fn = "unmap_lower_half" /\ call.loop = 2 /\ k < ENTRIES
        /\ IsTable(mem[t][k]) /\ pmem_free(p)
    BY DEF L2Table, InLoop
  <1>2. t \in Frame /\ t # Root /\ lev[t] = 2 /\ lev[call.l3_table] = 3 /\ k \in 0 .. ENTRIES
    BY <1>1, Loops
  <1>3. k \in Index /\ ~(k < k)
    BY <1>1, <1>2, FirstIndex DEF Index
  <1>4. HoldsTable(lev, t, k)
    <2>1. ~Behind(t, k)
      <3>1. t # call.l3_table
        BY <1>2
      <3> QED
        BY <1>3, <3>1 DEF Behind
    <2>2. lev[t] >= 2
      BY <1>2
    <2> QED
      BY <1>1, <1>2, <2>1, <2>2 DEF HoldsTable
  <1>5. p \in Frame /\ lev[p] + 1 = 2
    BY <1>2, <1>3, <1>4, Levels
  <1>6. lev[p] = 1 /\ p # Root
    BY <1>5, Levels
  <1> QED
    BY <1>1, <1>2, <1>3, <1>4, <1>5, <1>6

LEMMA L2TableStays ==
  ASSUME NEW lev \in [Frame -> 0 .. 4], Inv(lev), L2Table PROVE Stays
  <1>t. PICK t : t = call.l2_table
    OBVIOUS
  <1>k. PICK k : k = call.l2_index
    OBVIOUS
  <1>p. PICK p : p = mem[t][k].address
    OBVIOUS
  <1>1. /\ call.fn = "unmap_lower_half" /\ call.loop = 2
        /\ t \in Frame /\ k \in Index /\ HoldsTable(lev, t, k)
        /\ lev[p] = 1 /\ pmem_free(p)
    BY <1>t, <1>k, <1>p, L2TableHolds
  <1>2. ASSUME NEW a \in Addr, NEW n, Reads(a, p, n)
        PROVE  FALSE
    <2>1. Leads2(a) /\ Leads3(a) /\ p = E2(a).address
      BY <1>1, <1>2, ReadsWhere DEF Leads2
    <2>2. /\ HoldsTable(lev, E3(a).address, a[1]) /\ E3(a).address \in Frame
          /\ a[1] \in Index /\ E3(a).address # t
      BY <1>1, <1>t, <2>1, WayTables
    <2> QED
      BY <1>1, <1>p, <2>1, <2>2, OneHolder DEF E2
  <1> QED
    BY <1>1, <1>2, FreedUnread

\* An entry of the root is cleared: what was below it is mapped no longer.
LEMMA L4PresentWalks ==
  ASSUME NEW lev \in [Frame -> 0 .. 4], Inv(lev), L4Present, NEW a \in Addr
  PROVE  Walk(a)' = IF a[3] = call.l4_index THEN Unmapped ELSE Walk(a)
  <1>k. PICK k : k = call.l4_index
    OBVIOUS
  <1>1. mem' = [mem EXCEPT ![Root][k].present = FALSE]
    BY <1>k DEF L4Present
  <1>2. mem \in Memory /\ Root \in Frame /\ a[3] \in Index
    BY WayTables, FrameAssumption DEF Inv
  <1>3. CASE a[3] = k
    <2>1. ~mem'[Root][a[3]].present
      BY <1>1, <1>2, <1>3 DEF Memory, Word
    <2> QED
      BY <1>3, <1>k, <2>1 DEF Walk, Unmapped
  <1>4. CASE a[3] # k
    <2>1. \A f \in Frame, n \in Index : ~(f = Root /\ n = k) => mem'[f][n] = mem[f][n]
      BY <1>1, <1>2 DEF Memory
    <2>2. \A f, n : Reads(a, f, n) =>
            /\ f \in Frame /\ n \in Index
            /\ f = Root => n = a[3]
      <3> SUFFICES ASSUME NEW f, NEW n, Reads(a, f, n)
                   PROVE  f \in Frame /\ n \in Index /\ (f = Root => n = a[3])
        OBVIOUS
      <3>1. lev[Root] = 4
        BY <1>2, Levels
      <3> QED
        BY <3>1, ReadsWhere
    <2>3. \A f, n : Reads(a, f, n) => mem'[f][n] = mem[f][n]
      BY <1>4, <2>1, <2>2
    <2> QED
      BY <1>4, <1>k, <2>3, WalkKept
  <1> QED
    BY <1>3, <1>4, <1>k

\* When the root has been gone through, nothing is mapped.
LEMMA L4DoneWalks ==
  ASSUME NEW lev \in [Frame -> 0 .. 4], Inv(lev), L4Done, NEW a \in Addr
  PROVE  Walk(a) = Unmapped /\ ~Leads4(a)
  <1>1. call.fn = "unmap_lower_half" /\ call.l4_index = HALF
    BY DEF L4Done, InLoop
  <1>2. a[3] \in Lower /\ a[3] < HALF
    BY WayTables, FirstIndex DEF Lower
  <1>3. ~E4(a).present
    BY <1>1, <1>2, Loops DEF E4
  <1> QED
    BY <1>3, WalkWords DEF Leads4

-----------------------------------------------------------------------------
(***************************************************************************)
(* The walk of a call: how it has come to its table, and what the words    *)
(* of tables allow.                                                        *)
(***************************************************************************)
OnPath ==
  call.fn \in Walks =>
    /\ call.i = 2 => Leads4(call.va) /\ call.table = E4(call.va).address
    /\ call.i = 1 => Leads3(call.va) /\ call.table = E3(call.va).address
    /\ call.i = 0 => Leads2(call.va) /\ call.table = E2(call.va).address

Open(e) == ~e.no_execute /\ (e.present => e.user /\ e.writable)

WayOpen(a) ==
  /\ Open(E4(a))
  /\ Leads4(a) => Open(E3(a))
  /\ Leads3(a) => Open(E2(a))

OpenOK == \A a \in Addr : ~E4(a).no_execute /\ (Booted => WayOpen(a))

\* Once booted there are no large pages.
LEMMA NoLargePage ==
  ASSUME NEW lev \in [Frame -> 0 .. 4], Inv(lev), Booted, NEW a \in Addr
  PROVE  /\ Leads4(a) => ~E3(a).page_size
         /\ Leads3(a) => ~E2(a).page_size
         /\ Leads2(a) => ~E1(a).page_size
         /\ Walk(a) = IF Leads2(a) /\ E1(a).present
                      THEN Through({E4(a), E3(a), E2(a), E1(a)}, E1(a)) ELSE Unmapped
  <1>1. \A t \in Frame, k \in Index : lev[t] >= 1 /\ lev[t] < 4 => ~mem[t][k].page_size
    <2>1. \A t \in Frame \ {Root}, k \in Index : lev[t] >= 1 => ~mem[t][k].page_size
      BY DEF Inv, PagesOK
    <2> QED
      BY <2>1, Levels
  <1>2. Leads4(a) => ~E3(a).page_size
    BY <1>1, WayTables DEF E3
  <1>3. Leads3(a) => ~E2(a).page_size
    BY <1>1, WayTables DEF E2
  <1>4. Leads2(a) => ~E1(a).page_size
    BY <1>1, WayTables DEF E1
  <1> QED
    BY <1>2, <1>3, <1>4, WalkWords DEF Leads2, Leads3, IsTable

\* The words on the way of a call's address down to the one it is at, and
\* which other walks read that.
LEMMA CallWay ==
  ASSUME NEW lev \in [Frame -> 0 .. 4], Inv(lev), OnPath, call.fn \in Walks,
         NEW va, va = call.va, NEW i, i = call.i
  PROVE  /\ va \in Addr /\ i \in 0 .. 3 /\ Booted
         /\ i = 3 => call.table = Root /\ Entry = E4(va)
         /\ i = 2 => Leads4(va) /\ call.table = E4(va).address /\ Entry = E3(va)
         /\ i = 1 => Leads3(va) /\ call.table = E3(va).address /\ Entry = E2(va)
         /\ i = 0 => Leads2(va) /\ call.table = E2(va).address /\ Entry = E1(va)
         /\ Reads(va, call.table, va[i])
  <1>1. va \in Addr /\ i \in 0 .. 3 /\ Booted /\ (i = 3 => call.table = Root)
    BY WalkAt DEF Booted, Walks
  <1>2. CASE i = 3
    BY <1>1, <1>2 DEF Entry, E4, Reads
  <1>3. CASE i = 2
    BY <1>1, <1>3 DEF Entry, E3, Reads, OnPath
  <1>4. CASE i = 1
    BY <1>1, <1>4 DEF Entry, E2, Reads, OnPath
  <1>5. CASE i = 0
    BY <1>1, <1>5 DEF Entry, E1, Reads, OnPath
  <1> QED
    BY <1>1, <1>2, <1>3, <1>4, <1>5

LEMMA SameWay ==
  ASSUME NEW lev \in [Frame -> 0 .. 4], Inv(lev), OnPath, call.fn \in Walks,
         NEW va, va = call.va, NEW i, i = call.i, NEW a \in Addr,
         Reads(a, call.table, va[i])
  PROVE  /\ i = 3 => Entry = E4(a)
         /\ i = 2 => Leads4(a) /\ call.table = E4(a).address /\ Entry = E3(a)
         /\ i = 1 => Leads3(a) /\ call.table = E3(a).address /\ Entry = E2(a)
         /\ i = 0 => a = va
  <1>1. /\ lev[call.table] = i + 1 /\ call.table \in Frame /\ i \in 0 .. 3 /\ va \in Addr
        /\ Root \in Frame
    BY WalkAt, FrameAssumption
  <1>2. CASE i = 3
    <2>1. va[i] = a[3] /\ call.table = Root
      BY <1>1, <1>2, ReadsWhere
    <2> QED
      BY <1>2, <2>1 DEF Entry, E4
  <1>3. CASE i = 2
    <2>1. Leads4(a) /\ call.table = E4(a).address /\ va[i] = a[2]
      BY <1>1, <1>3, ReadsWhere
    <2> QED
      BY <1>3, <2>1 DEF Entry, E3
  <1>4. CASE i = 1
    <2>1. Leads3(a) /\ call.table = E3(a).address /\ va[i] = a[1]
      BY <1>1, <1>4, ReadsWhere
    <2> QED
      BY <1>4, <2>1 DEF Entry, E2
  <1>5. CASE i = 0
    <2>1. Leads2(a) /\ E2(va).address = E2(a).address /\ va[0] = a[0] /\ Leads2(va)
      BY <1>1, <1>5, ReadsWhere, CallWay
    <2>2. Leads3(a) /\ Leads3(va) /\ Leads4(a) /\ Leads4(va)
      BY <2>1 DEF Leads2, Leads3
    <2>3. va[1] = a[1] /\ E3(va).address = E3(a).address
      <3>1. /\ HoldsTable(lev, E3(va).address, va[1]) /\ E3(va).address \in Frame
            /\ HoldsTable(lev, E3(a).address, a[1]) /\ E3(a).address \in Frame
            /\ va[1] \in Index /\ a[1] \in Index
        BY <1>1, <2>1, <2>2, WayTables
      <3>2. mem[E3(va).address][va[1]].address = mem[E3(a).address][a[1]].address
        BY <2>1 DEF E2
      <3> QED
        BY <3>1, <3>2, OneHolder
    <2>4. va[2] = a[2] /\ E4(va).address = E4(a).address
      <3>1. /\ HoldsTable(lev, E4(va).address, va[2]) /\ E4(va).address \in Frame
            /\ HoldsTable(lev, E4(a).address, a[2]) /\ E4(a).address \in Frame
            /\ va[2] \in Index /\ a[2] \in Index
        BY <1>1, <2>2, WayTables
      <3>2. mem[E4(va).address][va[2]].address = mem[E4(a).address][a[2]].address
        BY <2>3 DEF E3
      <3> QED
        BY <3>1, <3>2, OneHolder
    <2>5. va[3] = a[3]
      BY <1>1, <2>2, <2>4, WayTables, OneHolder DEF E4
    <2>6. \A n \in 0 .. 3 : n = 0 \/ n = 1 \/ n = 2 \/ n = 3
      OBVIOUS
    <2>7. va \in [0 .. 3 -> Index] /\ a \in [0 .. 3 -> Index]
      BY <1>1, Indices
    <2>8. a = va
      BY <2>1, <2>3, <2>4, <2>5, <2>6, <2>7
    <2> QED
      BY <1>5, <2>8
  <1> QED
    BY <1>1, <1>2, <1>3, <1>4, <1>5

-----------------------------------------------------------------------------
(***************************************************************************)
(* vm_map, vm_protect and vm_unmap: a step writes the word that its walk   *)
(* is at, and no other word of a table.                                    *)
(***************************************************************************)
Changes(lev, t, k) ==
  \A f \in Frame, n \in Index : lev[f] >= 1 /\ ~(f = t /\ n = k) => mem'[f][n] = mem[f][n]

\* The words of other levels are the same, and so are those of a walk that
\* does not read the word.
LEMMA WayKept ==
  ASSUME NEW lev \in [Frame -> 0 .. 4], Inv(lev), call.fn \in Walks,
         NEW t, t = call.table, NEW k, k = call.va[call.i], NEW i, i = call.i,
         Changes(lev, t, k), NEW a \in Addr
  PROVE  /\ i # 3 \/ ~Reads(a, t, k) => E4(a)' = E4(a)
         /\ (i # 2 \/ ~Reads(a, t, k)) /\ E4(a)' = E4(a) /\ Leads4(a) => E3(a)' = E3(a)
         /\ (i # 1 \/ ~Reads(a, t, k)) /\ E3(a)' = E3(a) /\ Leads3(a) => E2(a)' = E2(a)
         /\ ~Reads(a, t, k) => Walk(a)' = Walk(a)
  <1>1. lev[t] = i + 1 /\ t \in Frame /\ i \in 0 .. 3 /\ Root \in Frame /\ lev[Root] = 4
    BY WalkAt, Levels
  <1>2. \A f, n : Reads(a, f, n) => f \in Frame /\ n \in Index /\ lev[f] >= 1
    BY ReadsWhere
  <1>3. \A f, n : Reads(a, f, n) /\ ~(f = t /\ n = k) => mem'[f][n] = mem[f][n]
    BY <1>2 DEF Changes
  <1>4. /\ Reads(a, Root, a[3])
        /\ Leads4(a) => Reads(a, E4(a).address, a[2]) /\ lev[E4(a).address] = 3
        /\ Leads3(a) => Reads(a, E3(a).address, a[1]) /\ lev[E3(a).address] = 2
    BY WayTables DEF Reads
  <1>5. i # 3 \/ ~Reads(a, t, k) => E4(a)' = E4(a)
    <2>1. i # 3 => t # Root
      BY <1>1
    <2> QED
      BY <1>3, <1>4, <2>1 DEF E4
  <1>6. (i # 2 \/ ~Reads(a, t, k)) /\ E4(a)' = E4(a) /\ Leads4(a) => E3(a)' = E3(a)
    <2>1. i # 2 /\ Leads4(a) => t # E4(a).address
      BY <1>1, <1>4
    <2>2. Leads4(a) /\ (i # 2 \/ ~Reads(a, t, k)) =>
            mem'[E4(a).address][a[2]] = mem[E4(a).address][a[2]]
      BY <1>3, <1>4, <2>1
    <2> QED
      BY <2>2 DEF E3
  <1>7. (i # 1 \/ ~Reads(a, t, k)) /\ E3(a)' = E3(a) /\ Leads3(a) => E2(a)' = E2(a)
    <2>1. i # 1 /\ Leads3(a) => t # E3(a).address
      BY <1>1, <1>4
    <2>2. Leads3(a) /\ (i # 1 \/ ~Reads(a, t, k)) =>
            mem'[E3(a).address][a[1]] = mem[E3(a).address][a[1]]
      BY <1>3, <1>4, <2>1
    <2> QED
      BY <2>2 DEF E2
  <1>8. ~Reads(a, t, k) => Walk(a)' = Walk(a)
    BY <1>3, WalkKept
  <1> QED
    BY <1>5, <1>6, <1>7, <1>8

\* A new table maps nothing, and leaves everything open.
LEMMA MapTableWay ==
  ASSUME NEW lev \in [Frame -> 0 .. 4], Inv(lev), OnPath, OpenOK, MapTable
  PROVE  /\ \A a \in Addr : Walk(a)' = Walk(a) /\ WayOpen(a)'
         /\ OnPath'
         /\ free_list \notin given
  <1> DEFINE e == [Entry EXCEPT !.present = TRUE, !.user = TRUE,
                                !.writable = TRUE, !.address = free_list]
  <1>p. PICK p : p = free_list
    OBVIOUS
  <1>t. PICK t : t = call.table
    OBVIOUS
  <1>k. PICK k : k = call.va[call.i]
    OBVIOUS
  <1>i. PICK i : i = call.i
    OBVIOUS
  <1>1. /\ call.fn = "vm_map" /\ call.fn \in Walks /\ ~Entry.present /\ i > 0
        /\ Allocate(e) /\ Booted
    BY <1>i DEF MapTable, Walks, Booted
  <1>2. /\ t \in Frame /\ k \in Index /\ i \in 1 .. 3 /\ lev[t] = i + 1
        /\ Entry \in Word /\ Entry = mem[t][k]
    <2>1. Entry = mem[t][k]
      BY <1>t, <1>k DEF Entry
    <2>2. i \in 0 .. 3 /\ lev[t] = i + 1 /\ t \in Frame /\ k \in Index
      BY <1>1, <1>t, <1>k, <1>i, WalkAt
    <2>3. Entry \in Word
      BY <1>1, WalkAt
    <2> QED
      BY <1>1, <2>1, <2>2, <2>3
  <1>3. /\ e \in Word /\ e.present /\ e.address = p /\ e.page_size = Entry.page_size
        /\ e.user /\ e.writable /\ e.no_execute = Entry.no_execute
    <2>1. p \in Frame \cup {NULL}
      BY <1>p, FreeListHead DEF Inv
    <2> QED
      BY <1>2, <1>p, <2>1 DEF Word
  <1> HIDE DEF e
  <1>4. /\ p \in Free /\ lev[p] = 0
        /\ \A n \in Index : mem'[p][n] = Zero
        /\ mem'[t][k] = e
        /\ Changes(lev, t, k)
    BY <1>1, <1>3, <1>p, <1>t, <1>k, AllocateAt DEF Changes
  <1>5. \A a \in Addr : Reads(a, t, k) =>
          /\ i = 3 => Entry = E4(a) /\ E4(a)' = e /\ E3(a)' = Zero
          /\ i = 2 => Leads4(a) /\ Entry = E3(a) /\ E4(a)' = E4(a) /\ E3(a)' = e
                      /\ E2(a)' = Zero
          /\ i = 1 => Leads3(a) /\ Entry = E2(a) /\ E4(a)' = E4(a) /\ E3(a)' = E3(a)
                      /\ E2(a)' = e /\ E1(a)' = Zero
    <2> SUFFICES ASSUME NEW a \in Addr, Reads(a, t, k)
                 PROVE  /\ i = 3 => Entry = E4(a) /\ E4(a)' = e /\ E3(a)' = Zero
                        /\ i = 2 => Leads4(a) /\ Entry = E3(a) /\ E4(a)' = E4(a)
                                    /\ E3(a)' = e /\ E2(a)' = Zero
                        /\ i = 1 => Leads3(a) /\ Entry = E2(a) /\ E4(a)' = E4(a)
                                    /\ E3(a)' = E3(a) /\ E2(a)' = e /\ E1(a)' = Zero
      OBVIOUS
    <2>1. a[3] \in Index /\ a[2] \in Index /\ a[1] \in Index /\ a[0] \in Index
      BY Indices, WayTables
    <2>2. /\ i = 3 => Entry = E4(a) /\ t = Root /\ k = a[3]
          /\ i = 2 => Leads4(a) /\ t = E4(a).address /\ Entry = E3(a) /\ k = a[2]
          /\ i = 1 => Leads3(a) /\ t = E3(a).address /\ Entry = E2(a) /\ k = a[1]
      <3>1. /\ i = 3 => Entry = E4(a)
            /\ i = 2 => Leads4(a) /\ t = E4(a).address /\ Entry = E3(a)
            /\ i = 1 => Leads3(a) /\ t = E3(a).address /\ Entry = E2(a)
        BY <1>1, <1>t, <1>k, <1>i, SameWay
      <3>2. /\ lev[t] = 4 => t = Root /\ k = a[3]
            /\ lev[t] = 3 => k = a[2]
            /\ lev[t] = 2 => k = a[1]
        BY ReadsWhere
      <3>3. (i = 3 => lev[t] = 4) /\ (i = 2 => lev[t] = 3) /\ (i = 1 => lev[t] = 2)
        BY <1>2
      <3> QED
        BY <3>1, <3>2, <3>3
    <2>3. CASE i = 3
      <3>1. E4(a)' = e
        BY <1>4, <2>2, <2>3 DEF E4
      <3>2. E3(a)' = mem'[e.address][a[2]]
        BY <3>1 DEF E3
      <3> QED
        BY <1>3, <1>4, <2>1, <2>2, <2>3, <3>1, <3>2
    <2>4. CASE i = 2
      <3>1. E4(a)' = E4(a)
        BY <1>1, <1>4, <1>t, <1>k, <1>i, <2>4, WayKept
      <3>2. E3(a)' = e
        BY <1>4, <2>2, <2>4, <3>1 DEF E3
      <3>3. E2(a)' = mem'[e.address][a[1]]
        BY <3>2 DEF E2
      <3> QED
        BY <1>3, <1>4, <2>1, <2>2, <2>4, <3>1, <3>2, <3>3
    <2>5. CASE i = 1
      <3>1. Leads4(a) /\ Leads3(a)
        BY <2>2, <2>5 DEF Leads3
      <3>2. E4(a)' = E4(a) /\ E3(a)' = E3(a)
        BY <1>1, <1>4, <1>t, <1>k, <1>i, <2>5, <3>1, WayKept
      <3>3. E2(a)' = e
        BY <1>4, <2>2, <2>5, <3>2 DEF E2
      <3>4. E1(a)' = mem'[e.address][a[0]]
        BY <3>3 DEF E1
      <3> QED
        BY <1>3, <1>4, <2>1, <2>2, <2>5, <3>1, <3>2, <3>3, <3>4
    <2> QED
      BY <2>3, <2>4, <2>5
  <1>6. ~Zero.present /\ ~Zero.no_execute
    BY DEF Zero
  <1>7. ASSUME NEW a \in Addr
        PROVE  Walk(a)' = Walk(a)
    <2>1. CASE ~Reads(a, t, k)
      BY <1>1, <1>4, <1>t, <1>k, <2>1, WayKept
    <2>2. CASE Reads(a, t, k)
      <3>1. Walk(a) = Unmapped
        <4>1. ~Leads2(a) \/ ~Leads4(a)
          BY <1>1, <1>2, <1>5, <2>2 DEF Leads2, Leads3, Leads4, IsTable
        <4> QED
          BY <1>1, <4>1, NoLargePage DEF Leads2, Leads3
      <3>2. Walk(a)' = Unmapped
        <4>1. Walk(a)' = IF ~E4(a)'.present \/ ~E3(a)'.present THEN Unmapped
                         ELSE IF E3(a)'.page_size THEN Through({E4(a)', E3(a)'}, E3(a)')
                         ELSE IF ~E2(a)'.present THEN Unmapped
                         ELSE IF E2(a)'.page_size
                              THEN Through({E4(a)', E3(a)', E2(a)'}, E2(a)')
                         ELSE IF ~E1(a)'.present THEN Unmapped
                         ELSE Through({E4(a)', E3(a)', E2(a)', E1(a)'}, E1(a)')
          BY DEF Walk, E4, E3, E2, E1, Unmapped, Through
        <4>2. CASE i = 3
          BY <1>5, <1>6, <2>2, <4>1, <4>2
        <4>3. CASE i = 2
          <5>1. E3(a)' = e /\ E2(a)' = Zero /\ ~e.page_size
            BY <1>1, <1>3, <1>5, <2>2, <4>3, NoLargePage
          <5> QED
            BY <1>6, <4>1, <5>1
        <4>4. CASE i = 1
          <5>1. /\ E3(a)' = E3(a) /\ E2(a)' = e /\ E1(a)' = Zero
                /\ ~e.page_size /\ ~E3(a).page_size
            BY <1>1, <1>3, <1>5, <2>2, <4>4, NoLargePage DEF Leads3
          <5> QED
            BY <1>6, <4>1, <5>1
        <4> QED
          BY <1>2, <4>2, <4>3, <4>4
      <3> QED
        BY <3>1, <3>2
    <2> QED
      BY <2>1, <2>2
  <1>8. ASSUME NEW a \in Addr
        PROVE  WayOpen(a)'
    <2>1. WayOpen(a)
      BY <1>1 DEF OpenOK
    <2>2. CASE ~Reads(a, t, k)
      <3>1. /\ E4(a)' = E4(a)
            /\ Leads4(a) => E3(a)' = E3(a)
            /\ Leads3(a) => E2(a)' = E2(a)
        BY <1>1, <1>4, <1>t, <1>k, <2>2, WayKept DEF Leads3
      <3> QED
        BY <2>1, <3>1 DEF WayOpen, Leads4, Leads3, Open
    <2>3. CASE Reads(a, t, k)
      <3>1. Open(Entry) => Open(e)
        BY <1>3 DEF Open
      <3>2. Open(Zero)
        BY <1>6 DEF Open
      <3>3. CASE i = 3
        BY <1>5, <1>6, <2>1, <2>3, <3>1, <3>2, <3>3 DEF WayOpen, Leads4, Leads3, Open, IsTable
      <3>4. CASE i = 2
        BY <1>5, <1>6, <2>1, <2>3, <3>1, <3>2, <3>4 DEF WayOpen, Leads4, Leads3, Open, IsTable
      <3>5. CASE i = 1
        BY <1>5, <1>6, <2>1, <2>3, <3>1, <3>2, <3>5 DEF WayOpen, Leads4, Leads3, Open, IsTable
      <3> QED
        BY <1>2, <3>3, <3>4, <3>5
    <2> QED
      BY <2>2, <2>3
  <1>9. OnPath'
    <2>v. PICK va : va = call.va
      OBVIOUS
    <2>1. call'.i = i - 1 /\ call'.table = p /\ call'.va = va /\ va \in Addr
      <3>1. {"va", "i", "table"} \subseteq DOMAIN call
        BY <1>1 DEF Inv, CallOK, WalkOK
      <3> QED
        BY <1>1, <1>p, <1>i, <2>v, <3>1, WalkAt DEF MapTable
    <2>2. Reads(va, t, k)
      BY <1>1, <1>t, <1>k, <1>i, <2>v, CallWay
    <2>3. CASE i = 3
      BY <1>3, <1>5, <2>1, <2>2, <2>3 DEF OnPath, Leads4
    <2>4. CASE i = 2
      <3>1. E4(va)' = E4(va) /\ E3(va)' = e /\ Leads4(va) /\ ~e.page_size
        BY <1>1, <1>3, <1>5, <2>1, <2>2, <2>4, NoLargePage
      <3> QED
        BY <1>3, <2>1, <2>4, <3>1 DEF OnPath, Leads3, Leads4, IsTable
    <2>5. CASE i = 1
      <3>1. E4(va)' = E4(va) /\ E3(va)' = E3(va) /\ E2(va)' = e /\ Leads3(va) /\ ~e.page_size
        BY <1>1, <1>3, <1>5, <2>1, <2>2, <2>5, NoLargePage
      <3> QED
        BY <1>3, <2>1, <2>5, <3>1 DEF OnPath, Leads2, Leads3, Leads4, IsTable
    <2> QED
      BY <1>2, <2>3, <2>4, <2>5
  <1>10. free_list \notin given
    <2>1. p \in Frame
      BY <1>4, FreeListHead DEF Inv
    <2> QED
      BY <1>4, <1>p, <2>1, Levels
  <1> QED
    BY <1>7, <1>8, <1>9, <1>10

\* What an open path to a word grants is what the word grants.
Granted(f, perm) ==
  [frame |-> f, user |-> perm.user, writable |-> perm.writable,
   executable |-> perm.executable]

LEMMA ThroughOpen ==
  ASSUME NEW x, NEW y, NEW z, NEW e \in Word, NEW perm \in Permission,
         Open(x), Open(y), Open(z), x.present, y.present, z.present,
         e.user = perm.user, e.writable = perm.writable, e.no_execute = ~perm.executable
  PROVE  Through({x, y, z, e}, e) = Granted(e.address, perm)
  <1>1. /\ perm.user \in BOOLEAN /\ perm.writable \in BOOLEAN /\ perm.executable \in BOOLEAN
        /\ e.user \in BOOLEAN /\ e.writable \in BOOLEAN /\ e.no_execute \in BOOLEAN
    BY DEF Permission, Word
  <1>2. (\A w \in {x, y, z, e} : w.user) = perm.user
    BY <1>1 DEF Open
  <1>3. (\A w \in {x, y, z, e} : w.writable) = perm.writable
    BY <1>1 DEF Open
  <1>4. (\A w \in {x, y, z, e} : ~w.no_execute) = perm.executable
    BY <1>1 DEF Open
  <1> QED
    BY <1>2, <1>3, <1>4 DEF Through, Granted

\* A call ends with a write to the word of its page: no other address is
\* concerned, and no table.
LEMMA PageWay ==
  ASSUME NEW lev \in [Frame -> 0 .. 4], Inv(lev), OnPath, OpenOK,
         call.fn \in Walks, call.i = 0, call' = Idle,
         NEW t, t = call.table, NEW k, k = call.va[0], Changes(lev, t, k),
         NEW va, va = call.va, NEW e, e = mem'[t][k]
  PROVE  /\ \A a \in Addr : a # va => Walk(a)' = Walk(a)
         /\ \A a \in Addr : WayOpen(a)'
         /\ OnPath'
         /\ Walk(va) = IF ~Entry.present THEN Unmapped
                            ELSE Through({E4(va), E3(va), E2(va), Entry}, Entry)
         /\ ~Entry.page_size
         /\ ~e.page_size =>
              Walk(va)' = IF ~e.present THEN Unmapped
                          ELSE Through({E4(va), E3(va), E2(va), e}, e)
  <1>1. Booted /\ va \in Addr /\ Leads2(va) /\ t = E2(va).address /\ Entry = E1(va)
        /\ Reads(va, t, k)
    BY CallWay
  <1>2. \A a \in Addr :
          /\ E4(a)' = E4(a)
          /\ Leads4(a) => E3(a)' = E3(a)
          /\ Leads3(a) => E2(a)' = E2(a)
          /\ ~Reads(a, t, k) => Walk(a)' = Walk(a)
    BY WayKept DEF Leads3
  <1>3. \A a \in Addr : a # va => ~Reads(a, t, k)
    BY SameWay
  <1>4. \A a \in Addr : WayOpen(a)'
    <2> SUFFICES ASSUME NEW a \in Addr PROVE WayOpen(a)'
      OBVIOUS
    <2>1. WayOpen(a)
      BY <1>1 DEF OpenOK
    <2> QED
      BY <1>2, <2>1 DEF WayOpen, Leads4, Leads3, Open
  <1>5. OnPath'
    BY DEF OnPath, Walks, Idle
  <1>6. Walk(va) = IF ~Entry.present THEN Unmapped
                   ELSE Through({E4(va), E3(va), E2(va), Entry}, Entry)
    BY <1>1, NoLargePage
  <1>7. ~Entry.page_size
    BY <1>1, NoLargePage
  <1>8. ASSUME ~e.page_size
        PROVE  Walk(va)' = IF ~e.present THEN Unmapped
                           ELSE Through({E4(va), E3(va), E2(va), e}, e)
    <2>1. Leads4(va) /\ Leads3(va) /\ IsTable(E2(va))
      BY <1>1 DEF Leads2, Leads3
    <2>2. E4(va)' = E4(va) /\ E3(va)' = E3(va) /\ E2(va)' = E2(va)
      BY <1>1, <1>2, <2>1
    <2>3. va[0] = k
      OBVIOUS
    <2>4. E1(va)' = e
      BY <1>1, <2>2, <2>3 DEF E1
    <2>5. Walk(va)' = IF ~E4(va)'.present \/ ~E3(va)'.present THEN Unmapped
                      ELSE IF E3(va)'.page_size THEN Through({E4(va)', E3(va)'}, E3(va)')
                      ELSE IF ~E2(va)'.present THEN Unmapped
                      ELSE IF E2(va)'.page_size
                           THEN Through({E4(va)', E3(va)', E2(va)'}, E2(va)')
                      ELSE IF ~E1(va)'.present THEN Unmapped
                      ELSE Through({E4(va)', E3(va)', E2(va)', E1(va)'}, E1(va)')
      BY DEF Walk, E4, E3, E2, E1, Unmapped, Through
    <2> QED
      BY <2>1, <2>2, <2>4, <2>5 DEF Leads3, Leads4, IsTable
  <1> QED
    BY <1>2, <1>3, <1>4, <1>5, <1>6, <1>7, <1>8

LEMMA MapPageWay ==
  ASSUME NEW lev \in [Frame -> 0 .. 4], Inv(lev), OnPath, OpenOK, MapPage,
         NEW va, va = call.va
  PROVE  /\ \A a \in Addr : a # va => Walk(a)' = Walk(a)
         /\ Walk(va) = Unmapped
         /\ Walk(va)' = Granted(free_list, call.perm)
         /\ free_list \in Frame \ given
         /\ \A a \in Addr : WayOpen(a)'
         /\ OnPath'
  <1> DEFINE e == [Entry EXCEPT !.present = TRUE, !.user = call.perm.user,
                                !.writable = call.perm.writable,
                                !.no_execute = ~call.perm.executable,
                                !.address = free_list]
  <1>t. PICK t : t = call.table
    OBVIOUS
  <1>k. PICK k : k = call.va[0]
    OBVIOUS
  <1>1. /\ call.fn \in Walks /\ call.fn = "vm_map" /\ call.i = 0 /\ ~Entry.present
        /\ Allocate(e) /\ call' = Idle
    BY DEF MapPage, Return, Walks
  <1>2. call.perm \in Permission
    BY <1>1 DEF Inv, CallOK, WalkOK
  <1>3. /\ e \in Word /\ e.address = free_list /\ e.page_size = Entry.page_size /\ e.present
        /\ e.user = call.perm.user /\ e.writable = call.perm.writable
        /\ e.no_execute = ~call.perm.executable
    <2>1. /\ call.perm.user \in BOOLEAN /\ call.perm.writable \in BOOLEAN
          /\ (~call.perm.executable) \in BOOLEAN
      BY <1>2 DEF Permission
    <2>2. free_list \in Frame \cup {NULL} /\ Entry \in Word
      BY <1>1, FreeListHead, WalkAt DEF Inv
    <2> QED
      BY <2>1, <2>2 DEF Word
  <1> HIDE DEF e
  <1>4. /\ free_list \in Free /\ mem'[t][k] = e /\ Changes(lev, t, k)
        /\ free_list \in Frame
    BY <1>1, <1>3, <1>t, <1>k, AllocateAt DEF Changes
  <1>5. free_list \in Frame \ given
    BY <1>4, Levels
  <1>6. /\ \A a \in Addr : a # va => Walk(a)' = Walk(a)
        /\ \A a \in Addr : WayOpen(a)'
        /\ OnPath'
        /\ Walk(va) = Unmapped
        /\ ~e.page_size =>
             Walk(va)' = IF ~e.present THEN Unmapped
                         ELSE Through({E4(va), E3(va), E2(va), e}, e)
        /\ ~Entry.page_size
    BY <1>1, <1>4, <1>t, <1>k, PageWay
  <1>7. /\ Open(E4(va)) /\ Open(E3(va)) /\ Open(E2(va))
        /\ E4(va).present /\ E3(va).present /\ E2(va).present
    <2>1. Leads2(va) /\ Booted /\ va \in Addr
      BY <1>1, CallWay
    <2> QED
      BY <2>1 DEF OpenOK, WayOpen, Leads2, Leads3, Leads4, IsTable
  <1>8. Walk(va)' = Granted(free_list, call.perm)
    BY <1>2, <1>3, <1>6, <1>7, ThroughOpen
  <1> QED
    BY <1>5, <1>6, <1>8

LEMMA ProtectPageWay ==
  ASSUME NEW lev \in [Frame -> 0 .. 4], Inv(lev), OnPath, OpenOK, ProtectPage,
         NEW va, va = call.va
  PROVE  /\ \A a \in Addr : a # va => Walk(a)' = Walk(a)
         /\ Walk(va) # Unmapped
         /\ Walk(va)' = Granted(Walk(va).frame, call.perm)
         /\ \A a \in Addr : WayOpen(a)'
         /\ OnPath'
  <1> DEFINE e == [Entry EXCEPT !.user = call.perm.user,
                                !.writable = call.perm.writable,
                                !.no_execute = ~call.perm.executable]
  <1>t. PICK t : t = call.table
    OBVIOUS
  <1>k. PICK k : k = call.va[0]
    OBVIOUS
  <1>1. /\ call.fn \in Walks /\ call.fn = "vm_protect" /\ call.i = 0 /\ Entry.present
        /\ call' = Idle
    BY DEF ProtectPage, Return, Walks
  <1>2. call.perm \in Permission
    BY <1>1 DEF Inv, CallOK, WalkOK
  <1>3. t \in Frame /\ k \in Index /\ Entry \in Word /\ Entry = mem[t][k] /\ lev[t] = 1
    BY <1>1, <1>t, <1>k, WalkAt DEF Entry
  <1>4. /\ e \in Word /\ e.address = Entry.address /\ e.page_size = Entry.page_size
        /\ e.present = Entry.present
        /\ e.user = call.perm.user /\ e.writable = call.perm.writable
        /\ e.no_execute = ~call.perm.executable
    <2>1. /\ call.perm.user \in BOOLEAN /\ call.perm.writable \in BOOLEAN
          /\ (~call.perm.executable) \in BOOLEAN
      BY <1>2 DEF Permission
    <2> QED
      BY <1>3, <2>1 DEF Word
  <1>5. mem' = [mem EXCEPT ![t][k] = e]
    BY <1>1, <1>3, <1>t, <1>k DEF ProtectPage
  <1> HIDE DEF e
  <1>6. mem'[t][k] = e /\ Changes(lev, t, k)
    <2>1. mem \in Memory
      BY DEF Inv
    <2> QED
      BY <1>3, <1>5, <2>1 DEF Memory, Changes
  <1>7. /\ \A a \in Addr : a # va => Walk(a)' = Walk(a)
        /\ \A a \in Addr : WayOpen(a)'
        /\ OnPath'
        /\ Walk(va) = Through({E4(va), E3(va), E2(va), Entry}, Entry)
        /\ ~e.page_size =>
             Walk(va)' = IF ~e.present THEN Unmapped
                         ELSE Through({E4(va), E3(va), E2(va), e}, e)
        /\ ~Entry.page_size
    <2>1. PICK w : w = mem'[t][k]
      OBVIOUS
    <2>2. /\ \A a \in Addr : a # va => Walk(a)' = Walk(a)
          /\ \A a \in Addr : WayOpen(a)'
          /\ OnPath'
          /\ Walk(va) = IF ~Entry.present THEN Unmapped
                        ELSE Through({E4(va), E3(va), E2(va), Entry}, Entry)
          /\ ~Entry.page_size
          /\ ~w.page_size =>
               Walk(va)' = IF ~w.present THEN Unmapped
                           ELSE Through({E4(va), E3(va), E2(va), w}, w)
      BY <1>1, <1>6, <1>t, <1>k, <2>1, PageWay
    <2>3. w = e
      BY <1>6, <2>1
    <2> QED
      BY <1>1, <2>2, <2>3
  <1>8. Walk(va).frame = Entry.address /\ Entry.address # NULL
    <2>1. PagesOK(lev) /\ NULL \notin Frame
      BY <1>1, FrameAssumption DEF Inv, Booted, Walks
    <2>2. Entry.address \in Frame
      BY <1>1, <1>3, <2>1 DEF PagesOK, PageOf
    <2> QED
      BY <1>7, <2>1, <2>2 DEF Through
  <1>9. /\ Open(E4(va)) /\ Open(E3(va)) /\ Open(E2(va))
        /\ E4(va).present /\ E3(va).present /\ E2(va).present
    <2>1. Leads2(va) /\ Booted /\ va \in Addr
      BY <1>1, CallWay
    <2> QED
      BY <2>1 DEF OpenOK, WayOpen, Leads2, Leads3, Leads4, IsTable
  <1>10. Walk(va)' = Granted(e.address, call.perm)
    BY <1>1, <1>2, <1>4, <1>7, <1>9, ThroughOpen
  <1>11. Walk(va) # Unmapped
    BY <1>8 DEF Unmapped
  <1> QED
    BY <1>4, <1>7, <1>8, <1>10, <1>11

LEMMA UnmapPageWay ==
  ASSUME NEW lev \in [Frame -> 0 .. 4], Inv(lev), OnPath, OpenOK, UnmapPage,
         NEW va, va = call.va
  PROVE  /\ \A a \in Addr : a # va => Walk(a)' = Walk(a)
         /\ Walk(va)' = Unmapped
         /\ \A a \in Addr : WayOpen(a)'
         /\ OnPath'
  <1>e. PICK e : e = [Entry EXCEPT !.present = FALSE]
    OBVIOUS
  <1>t. PICK t : t = call.table
    OBVIOUS
  <1>k. PICK k : k = call.va[0]
    OBVIOUS
  <1>1. call.fn \in Walks /\ call.i = 0 /\ call' = Idle
    BY DEF UnmapPage, Return, Walks
  <1>3. t \in Frame /\ k \in Index /\ Entry \in Word /\ Entry = mem[t][k] /\ lev[t] = 1
    BY <1>1, <1>t, <1>k, WalkAt DEF Entry
  <1>4. e.page_size = Entry.page_size /\ ~e.present
    BY <1>3, <1>e DEF Word
  <1>5. mem' = [mem EXCEPT ![t][k] = e]
    BY <1>1, <1>3, <1>e, <1>t, <1>k DEF UnmapPage
  <1>6. mem'[t][k] = e /\ Changes(lev, t, k)
    <2>1. mem \in Memory
      BY DEF Inv
    <2> QED
      BY <1>3, <1>5, <2>1 DEF Memory, Changes
  <1>7. /\ \A a \in Addr : a # va => Walk(a)' = Walk(a)
        /\ \A a \in Addr : WayOpen(a)'
        /\ OnPath'
        /\ Walk(va) = IF ~Entry.present THEN Unmapped
                      ELSE Through({E4(va), E3(va), E2(va), Entry}, Entry)
        /\ ~e.page_size =>
             Walk(va)' = IF ~e.present THEN Unmapped
                         ELSE Through({E4(va), E3(va), E2(va), e}, e)
        /\ ~Entry.page_size
    <2>1. PICK w : w = mem'[t][k]
      OBVIOUS
    <2>2. /\ \A a \in Addr : a # va => Walk(a)' = Walk(a)
          /\ \A a \in Addr : WayOpen(a)'
          /\ OnPath'
          /\ Walk(va) = IF ~Entry.present THEN Unmapped
                        ELSE Through({E4(va), E3(va), E2(va), Entry}, Entry)
          /\ ~Entry.page_size
          /\ ~w.page_size =>
               Walk(va)' = IF ~w.present THEN Unmapped
                           ELSE Through({E4(va), E3(va), E2(va), w}, w)
      BY <1>1, <1>6, <1>t, <1>k, <2>1, PageWay
    <2>3. w = e
      BY <1>6, <2>1
    <2> QED
      BY <1>1, <2>2, <2>3
  <1>8. ~e.page_size
    BY <1>4, <1>7
  <1>9. Walk(va)' = Unmapped
    BY <1>4, <1>7, <1>8
  <1> QED
    BY <1>7, <1>9

-----------------------------------------------------------------------------
(***************************************************************************)
(* What holds of the translations at every step.  tlb[a] may be stale only *)
(* while unmap_lower_half runs, which ends with the reload of cr3; a page  *)
(* of mmap is mapped by mmap alone, and no call that may change it is for  *)
(* its address.                                                            *)
(***************************************************************************)
TlbOK ==
  /\ tlb \in [Addr -> Space!Translation \cup {Unmapped}]
  /\ Booted => \A a \in Addr : tlb[a] \in {Unmapped, Walk(a)}

HeapPage(k) ==
  LET t == Walk(HeapAddr[k]) IN
    /\ t = Unmapped \/ (t.user /\ t.writable)
    /\ 2 * (k - 1) < v_heap => t # Unmapped

HeapOK ==
  /\ v_heap \in 0 .. 2 * Len(HeapAddr)
  /\ Booted => \A k \in 1 .. Len(HeapAddr) : HeapPage(k)

MmapOK ==
  call.fn \in Walks =>
    IF "mmap" \in DOMAIN call
      THEN /\ call.fn = "vm_map" /\ call.perm = UserPage
           /\ v_heap < 2 * Len(HeapAddr)
           /\ call.va = HeapAddr[v_heap \div 2 + 1]
      ELSE call.va \in SegAddr

SpaceInv == OnPath /\ OpenOK /\ TlbOK /\ HeapOK /\ MmapOK

LEMMA WalkTyped ==
  ASSUME NEW lev \in [Frame -> 0 .. 4], Inv(lev), NEW a \in Addr
  PROVE  Walk(a) \in Space!Translation \cup {Unmapped}
  <1>1. /\ E4(a) \in Word
        /\ Leads4(a) => E3(a) \in Word
        /\ Leads3(a) => E2(a) \in Word
        /\ Leads2(a) => E1(a) \in Word
    <2>1. mem \in Memory /\ Root \in Frame
      BY FrameAssumption DEF Inv
    <2>2. \A f \in Frame, n \in Index : mem[f][n] \in Word
      BY <2>1 DEF Memory
    <2> QED
      BY <2>1, <2>2, WayTables DEF E4, E3, E2, E1
  <1>2. \A path, e : e \in Word => Through(path, e) \in Space!Translation
    BY DEF Through, Word, Space!Translation
  <1> QED
    BY <1>1, <1>2, WalkWords DEF Leads2, Leads3, IsTable

\* Two steps of v_heap to a page.
LEMMA Halved ==
  \A n \in Nat : /\ n \div 2 \in Nat
                 /\ 2 * (n \div 2) <= n /\ n <= 2 * (n \div 2) + 1
  OBVIOUS

LEMMA HeapAddrs ==
  /\ Len(HeapAddr) \in Nat
  /\ \A k \in 1 .. Len(HeapAddr) : HeapAddr[k] \in Addr /\ HeapAddr[k] \notin SegAddr
  BY AddrAssumption, LenProperties DEF Addr

\* Where mmap is, there is a page.
LEMMA MmapPage ==
  ASSUME v_heap \in Nat, v_heap < 2 * Len(HeapAddr)
  PROVE  /\ v_heap \div 2 + 1 \in 1 .. Len(HeapAddr)
         /\ \A k \in 1 .. Len(HeapAddr) :
              2 * (k - 1) < v_heap + 1 => 2 * (k - 1) < v_heap \/ k = v_heap \div 2 + 1
  <1>1. PICK n : n = v_heap \div 2
    OBVIOUS
  <1>2. n \in Nat /\ 2 * n <= v_heap /\ v_heap <= 2 * n + 1
    BY <1>1, Halved
  <1>3. Len(HeapAddr) \in Nat
    BY HeapAddrs
  <1>4. n + 1 \in 1 .. Len(HeapAddr)
    BY <1>2, <1>3
  <1>5. \A k \in 1 .. Len(HeapAddr) :
          2 * (k - 1) < v_heap + 1 => 2 * (k - 1) < v_heap \/ k = n + 1
    BY <1>2, <1>3
  <1> QED
    BY <1>1, <1>4, <1>5

-----------------------------------------------------------------------------
(***************************************************************************)
(* init_list and unmap_lower_half.                                         *)
(***************************************************************************)
RootKept == \A n \in Lower : mem'[Root][n].no_execute = mem[Root][n].no_execute

LEMMA BootSpaceInv ==
  ASSUME SpaceInv, ~Booted', RootKept, UNCHANGED <<tlb, v_heap>>
  PROVE  SpaceInv'
  <1>1. OnPath' /\ MmapOK'
    BY DEF OnPath, MmapOK, Booted, Walks
  <1>2. OpenOK'
    <2>1. \A a \in Addr : ~E4(a).no_execute /\ a[3] \in Lower
      BY AddrAssumption DEF SpaceInv, OpenOK
    <2> QED
      BY <2>1 DEF OpenOK, RootKept, E4
  <1>3. TlbOK' /\ HeapOK'
    BY DEF SpaceInv, TlbOK, HeapOK
  <1> QED
    BY <1>1, <1>2, <1>3 DEF SpaceInv

LEMMA FreedRoot ==
  ASSUME mem \in Memory, NEW p, pmem_free(p), p # Root
  PROVE  RootKept
  BY FrameAssumption DEF pmem_free, Memory, RootKept

LEMMA InitListSpaceInv ==
  ASSUME IInv, SpaceInv, InitListFrame \/ InitListDone
  PROVE  SpaceInv'
  <1>i. PICK lev \in [Frame -> 0 .. 4] : Inv(lev)
    BY DEF IInv
  <1>1. call.fn = "init_list" /\ UNCHANGED <<tlb, v_heap>>
    BY DEF InitListFrame, InitListDone
  <1>2. CASE InitListFrame
    <2>1. call' = [call EXCEPT !.j = @ + 1] /\ call.j <= Len(Usable) /\ pmem_free(Usable[call.j])
      BY <1>2 DEF InitListFrame
    <2>2. call.j \in 1 .. Len(Usable) + 1
      BY <1>i, <1>1 DEF Inv, CallOK, InitListOK
    <2>3. call.j \in 1 .. Len(Usable)
      BY <2>1, <2>2, UsableFrames
    <2>4. RootKept
      BY <1>i, <2>1, <2>3, UsableFrames, FreedRoot DEF Inv
    <2> QED
      BY <1>1, <2>1, <2>4, BootSpaceInv DEF Booted
  <1>3. CASE InitListDone
    BY <1>1, <1>3, BootSpaceInv DEF Booted, InitListDone, UnmapLowerHalf, RootKept
  <1> QED
    BY <1>2, <1>3

LEMMA L4PresentRoot ==
  ASSUME mem \in Memory, L4Present PROVE RootKept
  <1>k. PICK k : k = call.l4_index
    OBVIOUS
  <1>1. mem' = [mem EXCEPT ![Root][k].present = FALSE]
    BY <1>k DEF L4Present
  <1>2. Root \in Frame /\ \A n \in Lower : n \in Index
    BY FrameAssumption, FirstIndex DEF Lower, Index
  <1>3. ASSUME NEW n \in Lower
        PROVE  mem'[Root][n].no_execute = mem[Root][n].no_execute
    BY <1>1, <1>2 DEF Memory, Word
  <1> QED
    BY <1>3 DEF RootKept

LEMMA LoopGoesOn ==
  ASSUME NEW lev \in [Frame -> 0 .. 4], Inv(lev), UnmapStep, ~L4Done
  PROVE  call'.fn = "unmap_lower_half"
  <1>l. call.fn = "unmap_lower_half" /\ Locals \subseteq DOMAIN call
    <2>1. call.fn = "unmap_lower_half"
      BY DEF UnmapStep, L4Present, L4Absent, L3Table, L3Other, L3Done,
             L2Table, L2Other, L2Done, InLoop
    <2> QED
      BY <2>1, Loops
  <1>1. CASE L4Present
    BY <1>l, <1>1 DEF L4Present, Locals
  <1>2. CASE L4Absent
    BY <1>l, <1>2 DEF L4Absent, Locals
  <1>3. CASE L3Table
    BY <1>l, <1>3 DEF L3Table, Locals
  <1>4. CASE L3Other
    BY <1>l, <1>4 DEF L3Other, Locals
  <1>5. CASE L3Done
    BY <1>l, <1>5 DEF L3Done, Locals
  <1>6. CASE L2Table
    BY <1>l, <1>6 DEF L2Table, Locals
  <1>7. CASE L2Other
    BY <1>l, <1>7 DEF L2Other, Locals
  <1>8. CASE L2Done
    BY <1>l, <1>8 DEF L2Done, Locals
  <1> QED
    BY <1>1, <1>2, <1>3, <1>4, <1>5, <1>6, <1>7, <1>8 DEF UnmapStep

LEMMA UnmapLoopSpaceInv ==
  ASSUME IInv, SpaceInv, UnmapStep, ~L4Done
  PROVE  SpaceInv'
  <1>i. PICK lev \in [Frame -> 0 .. 4] : Inv(lev)
    BY DEF IInv
  <1>1. /\ call.fn = "unmap_lower_half" /\ UNCHANGED <<tlb, v_heap>>
    BY DEF UnmapStep, L4Present, L4Absent, L3Table, L3Other, L3Done,
           L2Table, L2Other, L2Done, InLoop
  <1>2. mem \in Memory /\ Root \in Frame /\ lev[Root] = 4
    BY <1>i, Levels DEF Inv
  <1>3. ASSUME L4Present PROVE RootKept
    BY <1>2, <1>3, L4PresentRoot
  <1>4. ASSUME L4Absent \/ L3Table \/ L3Other \/ L2Other PROVE RootKept
    <2>1. UNCHANGED mem
      BY <1>4 DEF L4Absent, L3Table, L3Other, L2Other
    <2> QED
      BY <2>1 DEF RootKept
  <1>5. ASSUME L3Done PROVE RootKept
    <2>1. call.loop = 3 /\ pmem_free(mem[Root][call.l4_index].address)
      BY <1>5 DEF L3Done, InLoop
    <2>2. mem[Root][call.l4_index].address # Root
      BY <1>i, <1>1, <1>2, <2>1, Loops
    <2> QED
      BY <1>2, <2>1, <2>2, FreedRoot
  <1>6. ASSUME L2Done PROVE RootKept
    <2>1. call.loop = 2 /\ pmem_free(mem[call.l3_table][call.l3_index].address)
      BY <1>6 DEF L2Done, InLoop
    <2>2. mem[call.l3_table][call.l3_index].address # Root
      BY <1>i, <1>1, <1>2, <2>1, Loops
    <2> QED
      BY <1>2, <2>1, <2>2, FreedRoot
  <1>7. ASSUME L2Table PROVE RootKept
    BY <1>i, <1>2, <1>7, L2TableHolds, FreedRoot
  <1>8. RootKept
    BY <1>3, <1>4, <1>5, <1>6, <1>7 DEF UnmapStep
  <1>9. call'.fn = "unmap_lower_half"
    BY <1>i, LoopGoesOn
  <1> QED
    BY <1>1, <1>8, <1>9, BootSpaceInv DEF Booted

\* cr3 is loaded again when nothing is mapped any more.
LEMMA L4DoneSpaceInv ==
  ASSUME IInv, SpaceInv, L4Done
  PROVE  SpaceInv'
  <1>i. PICK lev \in [Frame -> 0 .. 4] : Inv(lev)
    BY DEF IInv
  <1>1. /\ call' = Idle /\ UNCHANGED mem /\ v_heap' = 0
        /\ tlb' = [a \in Addr |-> Unmapped]
    BY DEF L4Done
  <1>2. ASSUME NEW a \in Addr
        PROVE  /\ Walk(a)' = Unmapped /\ ~E4(a)'.no_execute
               /\ WayOpen(a)'
    <2>1. Walk(a) = Unmapped /\ ~Leads4(a) /\ ~E4(a).no_execute
      BY <1>i, L4DoneWalks DEF SpaceInv, OpenOK
    <2>2. Walk(a)' = Walk(a)
      BY <1>1, MemoryStays DEF Stays
    <2>3. E4(a)' = E4(a)
      BY <1>1 DEF E4
    <2>4. ~Leads4(a)' /\ ~Leads3(a)' /\ Open(E4(a)')
      BY <2>1, <2>3 DEF Leads4, Leads3, Open
    <2> QED
      BY <2>1, <2>2, <2>3, <2>4 DEF WayOpen
  <1>3. OnPath' /\ MmapOK'
    BY <1>1 DEF OnPath, MmapOK, Idle, Walks
  <1>4. OpenOK'
    BY <1>2 DEF OpenOK
  <1>5. TlbOK'
    BY <1>1 DEF TlbOK
  <1>6. HeapOK'
    <2>1. \A k \in 1 .. Len(HeapAddr) : Walk(HeapAddr[k])' = Unmapped /\ ~(2 * (k - 1) < 0)
      BY <1>2, HeapAddrs
    <2>2. \A k \in 1 .. Len(HeapAddr) : HeapPage(k)'
      BY <1>1, <2>1 DEF HeapPage
    <2> QED
      BY <1>1, <2>2, HeapAddrs DEF HeapOK
  <1> QED
    BY <1>3, <1>4, <1>5, <1>6 DEF SpaceInv

-----------------------------------------------------------------------------
(***************************************************************************)
(* The calls.                                                              *)
(***************************************************************************)
\* A step that changes no translation.
LEMMA QuietSpaceInv ==
  ASSUME SpaceInv, Booted, \A a \in Addr : Walk(a)' = Walk(a) /\ WayOpen(a)',
         UNCHANGED <<tlb, v_heap>>, OnPath', MmapOK'
  PROVE  SpaceInv'
  <1>1. OpenOK'
    BY DEF OpenOK, WayOpen, Open
  <1>2. TlbOK'
    BY DEF SpaceInv, TlbOK
  <1>3. HeapOK'
    <2>1. \A k \in 1 .. Len(HeapAddr) : HeapPage(k) /\ HeapAddr[k] \in Addr
      BY HeapAddrs DEF SpaceInv, HeapOK
    <2>2. \A k \in 1 .. Len(HeapAddr) : HeapPage(k)'
      BY <2>1 DEF HeapPage
    <2> QED
      BY <2>2 DEF SpaceInv, HeapOK
  <1> QED
    BY <1>1, <1>2, <1>3 DEF SpaceInv

LEMMA UnwrittenSpaceInv ==
  ASSUME SpaceInv, Booted, UNCHANGED <<mem, tlb, v_heap>>, OnPath', MmapOK'
  PROVE  SpaceInv'
  <1>1. \A a \in Addr : Walk(a)' = Walk(a)
    BY MemoryStays DEF Stays
  <1>2. ASSUME NEW a \in Addr
        PROVE  WayOpen(a)'
    <2>1. WayOpen(a)
      BY DEF SpaceInv, OpenOK
    <2>2. WayOpen(a)' = WayOpen(a)
      BY DEF WayOpen, Leads4, Leads3, E4, E3, E2, Open, IsTable
    <2> QED
      BY <2>1, <2>2
  <1> QED
    BY <1>1, <1>2, QuietSpaceInv

\* A step down: the call is the same.
LEMMA SameCall ==
  ASSUME MmapOK, NEW i, NEW t, call' = [call EXCEPT !.i = i, !.table = t],
         call.fn \in Walks, UNCHANGED v_heap
  PROVE  MmapOK'
  <1>1. /\ call'.fn = call.fn /\ call'.va = call.va /\ call'.perm = call.perm
        /\ DOMAIN call' = DOMAIN call
    OBVIOUS
  <1> QED
    BY <1>1 DEF MmapOK

LEMMA DescendSpaceInv ==
  ASSUME NEW lev \in [Frame -> 0 .. 4], Inv(lev), SpaceInv, call.fn \in Walks, call.i > 0,
         Entry.present, Descend, UNCHANGED <<mem, tlb, v_heap>>
  PROVE  SpaceInv'
  <1>va. PICK va : va = call.va
    OBVIOUS
  <1>i. PICK i : i = call.i
    OBVIOUS
  <1>1. OnPath /\ MmapOK
    BY DEF SpaceInv
  <1>2. /\ call'.fn = call.fn /\ call'.va = va
        /\ call'.i = i - 1 /\ call'.table = Entry.address
    <2>1. {"va", "i", "table"} \subseteq DOMAIN call
      BY DEF Inv, CallOK, WalkOK
    <2> QED
      BY <1>va, <1>i, <2>1 DEF Descend, Walks
  <1>3. /\ va \in Addr /\ i \in 0 .. 3 /\ Booted
        /\ i = 3 => Entry = E4(va)
        /\ i = 2 => Leads4(va) /\ Entry = E3(va)
        /\ i = 1 => Leads3(va) /\ Entry = E2(va)
    BY <1>va, <1>i, <1>1, CallWay
  <1>4. /\ E4(va)' = E4(va) /\ E3(va)' = E3(va) /\ E2(va)' = E2(va)
    BY DEF E4, E3, E2
  <1>5. /\ i = 3 => Leads4(va)
        /\ i = 2 => Leads3(va)
        /\ i = 1 => Leads2(va)
    BY <1>3, NoLargePage DEF Leads4, Leads3, Leads2, IsTable
  <1>6. (Leads4(va)' <=> Leads4(va)) /\ (Leads3(va)' <=> Leads3(va))
        /\ (Leads2(va)' <=> Leads2(va))
    BY <1>4 DEF Leads4, Leads3, Leads2
  <1>7. OnPath'
    <2>1. i \in 1 .. 3
      BY <1>3, <1>i
    <2>2. CASE i = 3
      BY <1>2, <1>3, <1>4, <1>5, <1>6, <2>2 DEF OnPath
    <2>3. CASE i = 2
      BY <1>2, <1>3, <1>4, <1>5, <1>6, <2>3 DEF OnPath
    <2>4. CASE i = 1
      BY <1>2, <1>3, <1>4, <1>5, <1>6, <2>4 DEF OnPath
    <2> QED
      BY <2>1, <2>2, <2>3, <2>4
  <1>8. MmapOK'
    BY <1>1, SameCall DEF Descend
  <1> QED
    BY <1>3, <1>7, <1>8, UnwrittenSpaceInv

LEMMA MapTableSpaceInv ==
  ASSUME NEW lev \in [Frame -> 0 .. 4], Inv(lev), SpaceInv, MapTable
  PROVE  SpaceInv'
  <1>1. OnPath /\ OpenOK /\ MmapOK
    BY DEF SpaceInv
  <1>2. /\ \A a \in Addr : Walk(a)' = Walk(a) /\ WayOpen(a)'
        /\ OnPath'
    BY <1>1, MapTableWay
  <1>3. call.fn \in Walks /\ Booted /\ UNCHANGED <<tlb, v_heap>>
    BY DEF MapTable, Walks, Booted
  <1>4. MmapOK'
    <2>1. PICK i, t : call' = [call EXCEPT !.i = i, !.table = t]
      BY DEF MapTable
    <2> QED
      BY <1>1, <1>3, <2>1, SameCall
  <1> QED
    BY <1>2, <1>3, <1>4, QuietSpaceInv

\* The page of a call that returns is mmap's, or not one of the heap.
LEMMA ReturnHeap ==
  ASSUME HeapOK, MmapOK, call.fn \in Walks, NEW r, Return(r), NEW va, va = call.va,
         \A a \in Addr : a # va => Walk(a)' = Walk(a),
         Walk(va)' = Walk(va) \/ (Walk(va)'.user /\ Walk(va)'.writable)
           \/ "mmap" \notin DOMAIN call,
         "mmap" \in DOMAIN call => Walk(va)' # Unmapped
  PROVE  HeapOK'
  <1>1. /\ Len(HeapAddr) \in Nat /\ v_heap \in 0 .. 2 * Len(HeapAddr)
        /\ \A k \in 1 .. Len(HeapAddr) :
             HeapAddr[k] \in Addr /\ HeapAddr[k] \notin SegAddr /\ HeapPage(k)
    BY HeapAddrs DEF HeapOK, Booted, Walks
  <1>2. CASE "mmap" \in DOMAIN call
    <2>1. /\ v_heap < 2 * Len(HeapAddr) /\ va = HeapAddr[v_heap \div 2 + 1]
          /\ v_heap' = v_heap + 1 /\ v_heap \in Nat
      BY <1>1, <1>2 DEF MmapOK, Return
    <2>2. v_heap \div 2 + 1 \in 1 .. Len(HeapAddr)
          /\ \A k \in 1 .. Len(HeapAddr) :
               2 * (k - 1) < v_heap + 1 => 2 * (k - 1) < v_heap \/ k = v_heap \div 2 + 1
      BY <2>1, MmapPage
    <2>3. ASSUME NEW k \in 1 .. Len(HeapAddr)
          PROVE  HeapPage(k)'
      <3>1. HeapPage(k) /\ HeapAddr[k] \in Addr
        BY <1>1
      <3>2. CASE HeapAddr[k] = va
        <4>1. Walk(va)' # Unmapped
          BY <1>2
        <4>2. Walk(va)'.user /\ Walk(va)'.writable
          BY <1>2, <3>1, <3>2, <4>1 DEF HeapPage
        <4>3. Walk(HeapAddr[k])' = Walk(va)'
          BY <3>2
        <4> QED
          BY <4>1, <4>2, <4>3 DEF HeapPage
      <3>3. CASE HeapAddr[k] # va
        <4>1. Walk(HeapAddr[k])' = Walk(HeapAddr[k])
          BY <3>1, <3>3
        <4>2. 2 * (k - 1) < v_heap' => 2 * (k - 1) < v_heap
          BY <2>1, <2>2, <3>3
        <4> QED
          BY <3>1, <4>1, <4>2 DEF HeapPage
      <3> QED
        BY <3>2, <3>3
    <2> QED
      BY <1>1, <2>1, <2>3 DEF HeapOK
  <1>3. CASE "mmap" \notin DOMAIN call
    <2>1. v_heap' = v_heap /\ va \in SegAddr
      BY <1>3 DEF Return, MmapOK
    <2>2. ASSUME NEW k \in 1 .. Len(HeapAddr)
          PROVE  HeapPage(k)'
      <3>1. Walk(HeapAddr[k])' = Walk(HeapAddr[k]) /\ HeapPage(k)
        BY <1>1, <2>1
      <3> QED
        BY <2>1, <3>1 DEF HeapPage
    <2> QED
      BY <1>1, <2>1, <2>2 DEF HeapOK
  <1> QED
    BY <1>2, <1>3

LEMMA ReturnSpaceInv ==
  ASSUME SpaceInv, call.fn \in Walks, NEW r, Return(r), NEW va, va = call.va,
         \A a \in Addr : a # va => Walk(a)' = Walk(a),
         \A a \in Addr : WayOpen(a)',
         \/ Invalidate(va)
         \/ UNCHANGED tlb /\ Walk(va)' = Walk(va),
         Walk(va)' = Walk(va) \/ (Walk(va)'.user /\ Walk(va)'.writable)
           \/ "mmap" \notin DOMAIN call,
         "mmap" \in DOMAIN call => Walk(va)' # Unmapped
  PROVE  SpaceInv'
  <1>1. OnPath' /\ MmapOK'
    BY DEF Return, Idle, OnPath, MmapOK, Walks
  <1>2. OpenOK'
    BY DEF OpenOK, WayOpen, Open
  <1>3. TlbOK'
    <2>1. /\ tlb \in [Addr -> Space!Translation \cup {Unmapped}]
          /\ \A a \in Addr : tlb[a] \in {Unmapped, Walk(a)}
      BY DEF SpaceInv, TlbOK, Booted, Walks
    <2>2. CASE Invalidate(va)
      <3>1. /\ tlb' \in [Addr -> Space!Translation \cup {Unmapped}]
            /\ \A a \in Addr : tlb'[a] = IF a = va THEN Unmapped ELSE tlb[a]
        BY <2>1, <2>2 DEF Invalidate
      <3>2. \A a \in Addr : tlb'[a] \in {Unmapped, Walk(a)'}
        BY <2>1, <3>1
      <3> QED
        BY <3>1, <3>2 DEF TlbOK
    <2>3. CASE UNCHANGED tlb /\ Walk(va)' = Walk(va)
      BY <2>1, <2>3 DEF TlbOK
    <2> QED
      BY <2>2, <2>3
  <1>4. HeapOK'
    BY ReturnHeap DEF SpaceInv
  <1> QED
    BY <1>1, <1>2, <1>3, <1>4 DEF SpaceInv

\* A call that returns and has changed nothing.
LEMMA NoWriteSpaceInv ==
  ASSUME SpaceInv, call.fn \in Walks, NEW r, Return(r), UNCHANGED <<mem, tlb>>,
         "mmap" \in DOMAIN call => Walk(call.va) # Unmapped
  PROVE  SpaceInv'
  <1>va. PICK va : va = call.va
    OBVIOUS
  <1>1. \A a : Walk(a)' = Walk(a)
    BY WalkKept
  <1>2. ASSUME NEW a \in Addr
        PROVE  WayOpen(a)'
    <2>1. WayOpen(a)
      BY DEF SpaceInv, OpenOK, Booted, Walks
    <2>2. WayOpen(a)' = WayOpen(a)
      BY DEF WayOpen, Leads4, Leads3, E4, E3, E2, Open, IsTable
    <2> QED
      BY <2>1, <2>2
  <1>3. UNCHANGED tlb /\ Walk(va)' = Walk(va)
    BY <1>1
  <1>4. "mmap" \in DOMAIN call => Walk(va)' # Unmapped
    BY <1>1, <1>va
  <1> QED
    BY <1>va, <1>1, <1>2, <1>3, <1>4, ReturnSpaceInv

\* What a page word that is present, or is not, says of the address.
LEMMA PageWord ==
  ASSUME NEW lev \in [Frame -> 0 .. 4], Inv(lev), OnPath, call.fn \in Walks, call.i = 0,
         NEW va, va = call.va
  PROVE  Walk(va) # Unmapped <=> Entry.present
  <1>1. Booted /\ va \in Addr /\ Leads2(va) /\ Entry = E1(va)
    BY CallWay
  <1>2. Walk(va) = IF E1(va).present THEN Through({E4(va), E3(va), E2(va), E1(va)}, E1(va))
                   ELSE Unmapped
    BY <1>1, NoLargePage
  <1>3. ASSUME E1(va).present
        PROVE  E1(va).address # NULL
    <2>1. PageOf(lev, call.table, va[0])
      BY <1>1, <1>3, WalkAt DEF PageOf, Entry
    <2>2. PagesOK(lev) /\ call.table \in Frame /\ va[0] \in Index
      BY <1>1, WalkAt DEF Inv
    <2>3. mem[call.table][va[0]].address \in Frame
      BY <2>1, <2>2 DEF PagesOK
    <2>4. E1(va) = mem[call.table][va[0]]
      BY <1>1 DEF Entry
    <2> QED
      BY <2>3, <2>4, FrameAssumption
  <1>4. E1(va).present => Walk(va) # Unmapped
    <2>1. Unmapped.frame = NULL
      BY DEF Unmapped
    <2>2. E1(va).present => Walk(va).frame = E1(va).address
      BY <1>2 DEF Through
    <2> QED
      BY <1>3, <2>1, <2>2
  <1> QED
    BY <1>1, <1>2, <1>4

LEMMA MapPresentSpaceInv ==
  ASSUME NEW lev \in [Frame -> 0 .. 4], Inv(lev), SpaceInv, MapPresent
  PROVE  SpaceInv'
  <1>1. call.fn \in Walks /\ Entry.present /\ UNCHANGED <<mem, tlb>>
    BY DEF MapPresent, Walks
  <1>2. CASE call.i = 0 /\ Return(FALSE)
    <2>1. Walk(call.va) # Unmapped
      <3>1. PICK va : va = call.va
        OBVIOUS
      <3> QED
        BY <1>1, <1>2, <3>1, PageWord DEF SpaceInv
    <2> QED
      BY <1>1, <1>2, <2>1, NoWriteSpaceInv
  <1>3. CASE call.i > 0 /\ Descend /\ UNCHANGED v_heap
    BY <1>1, <1>3, DescendSpaceInv
  <1> QED
    BY <1>2, <1>3 DEF MapPresent

LEMMA MapNoMemorySpaceInv ==
  ASSUME SpaceInv, MapNoMemory
  PROVE  SpaceInv'
  <1>1. Booted /\ call'.fn = "halted" /\ UNCHANGED <<mem, tlb, v_heap>>
    BY DEF MapNoMemory, Booted
  <1>2. OnPath' /\ MmapOK'
    BY <1>1 DEF OnPath, MmapOK, Walks
  <1> QED
    BY <1>1, <1>2, UnwrittenSpaceInv

LEMMA ProtectAbsentSpaceInv ==
  ASSUME SpaceInv, ProtectAbsent
  PROVE  SpaceInv'
  <1>1. call.fn = "vm_protect" /\ Return(FALSE) /\ UNCHANGED <<mem, tlb>>
    BY DEF ProtectAbsent
  <1>2. call.fn \in Walks /\ "mmap" \notin DOMAIN call
    BY <1>1 DEF Walks, SpaceInv, MmapOK
  <1> QED
    BY <1>1, <1>2, NoWriteSpaceInv

LEMMA ProtectTableSpaceInv ==
  ASSUME NEW lev \in [Frame -> 0 .. 4], Inv(lev), SpaceInv, ProtectTable
  PROVE  SpaceInv'
  BY DescendSpaceInv DEF ProtectTable, Walks

LEMMA UnmapTableSpaceInv ==
  ASSUME NEW lev \in [Frame -> 0 .. 4], Inv(lev), SpaceInv, UnmapTable
  PROVE  SpaceInv'
  BY UnmapTablePresent, DescendSpaceInv DEF UnmapTable, Walks

LEMMA MapPageSpaceInv ==
  ASSUME NEW lev \in [Frame -> 0 .. 4], Inv(lev), SpaceInv, MapPage
  PROVE  SpaceInv'
  <1>va. PICK va : va = call.va
    OBVIOUS
  <1>1. call.fn \in Walks /\ Return(TRUE) /\ Invalidate(va) /\ OnPath /\ OpenOK
    BY <1>va DEF MapPage, Walks, SpaceInv
  <1>2. /\ \A a \in Addr : a # va => Walk(a)' = Walk(a)
        /\ Walk(va)' = Granted(free_list, call.perm)
        /\ free_list \in Frame
        /\ \A a \in Addr : WayOpen(a)'
    BY <1>va, <1>1, MapPageWay
  <1>3. "mmap" \in DOMAIN call => Walk(va)'.user /\ Walk(va)'.writable
    <2>1. "mmap" \in DOMAIN call => call.perm = UserPage
      BY <1>1 DEF SpaceInv, MmapOK
    <2> QED
      BY <1>2, <2>1 DEF Granted, UserPage
  <1>4. Walk(va)' # Unmapped
    <2>1. Walk(va)'.frame = free_list /\ Unmapped.frame = NULL
      BY <1>2 DEF Granted, Unmapped
    <2> QED
      BY <1>2, <2>1, FrameAssumption
  <1> QED
    BY <1>va, <1>1, <1>2, <1>3, <1>4, ReturnSpaceInv

LEMMA ProtectPageSpaceInv ==
  ASSUME NEW lev \in [Frame -> 0 .. 4], Inv(lev), SpaceInv, ProtectPage
  PROVE  SpaceInv'
  <1>va. PICK va : va = call.va
    OBVIOUS
  <1>1. /\ call.fn = "vm_protect" /\ call.fn \in Walks
        /\ Return(TRUE) /\ Invalidate(va) /\ OnPath /\ OpenOK /\ MmapOK
    BY <1>va DEF ProtectPage, Walks, SpaceInv
  <1>2. /\ \A a \in Addr : a # va => Walk(a)' = Walk(a)
        /\ \A a \in Addr : WayOpen(a)'
    BY <1>va, <1>1, ProtectPageWay
  <1>3. "mmap" \notin DOMAIN call
    BY <1>1 DEF MmapOK
  <1> QED
    BY <1>va, <1>1, <1>2, <1>3, ReturnSpaceInv

LEMMA UnmapPageSpaceInv ==
  ASSUME NEW lev \in [Frame -> 0 .. 4], Inv(lev), SpaceInv, UnmapPage
  PROVE  SpaceInv'
  <1>va. PICK va : va = call.va
    OBVIOUS
  <1>1. /\ call.fn = "vm_unmap" /\ call.fn \in Walks
        /\ Return(TRUE) /\ Invalidate(va) /\ OnPath /\ OpenOK /\ MmapOK
    BY <1>va DEF UnmapPage, Walks, SpaceInv
  <1>2. /\ \A a \in Addr : a # va => Walk(a)' = Walk(a)
        /\ \A a \in Addr : WayOpen(a)'
    BY <1>va, <1>1, UnmapPageWay
  <1>3. "mmap" \notin DOMAIN call
    BY <1>1 DEF MmapOK
  <1> QED
    BY <1>va, <1>1, <1>2, <1>3, ReturnSpaceInv

LEMMA StartSpaceInv ==
  ASSUME SpaceInv, NEW c, Start(c), c.fn \in Walks, c.i = 3, MmapOK'
  PROVE  SpaceInv'
  <1>1. Booted /\ call' = c /\ UNCHANGED <<mem, tlb, v_heap>>
    BY DEF Start, Idle, Booted
  <1>2. OnPath'
    BY <1>1 DEF OnPath
  <1> QED
    BY <1>1, <1>2, UnwrittenSpaceInv

LEMMA ClientSpaceInv ==
  ASSUME SpaceInv, Client
  PROVE  SpaceInv'
  <1>1. CASE VmMapCall
    <2>1. PICK a \in SegAddr, p \in Perm :
            Start([fn |-> "vm_map", va |-> a, perm |-> p, i |-> 3, table |-> Root])
      BY <1>1 DEF VmMapCall
    <2>2. MmapOK'
      BY <2>1 DEF Start, MmapOK
    <2> QED
      BY <2>1, <2>2, StartSpaceInv DEF Walks
  <1>2. CASE VmProtectCall
    <2>1. PICK a \in SegAddr, p \in Perm :
            Start([fn |-> "vm_protect", va |-> a, perm |-> p, i |-> 3, table |-> Root])
      BY <1>2 DEF VmProtectCall
    <2>2. MmapOK'
      BY <2>1 DEF Start, MmapOK
    <2> QED
      BY <2>1, <2>2, StartSpaceInv DEF Walks
  <1>3. CASE VmUnmapCall
    <2>1. PICK a \in SegAddr :
            Start([fn |-> "vm_unmap", va |-> a, i |-> 3, table |-> Root])
      BY <1>3 DEF VmUnmapCall
    <2>2. MmapOK'
      BY <2>1 DEF Start, MmapOK
    <2> QED
      BY <2>1, <2>2, StartSpaceInv DEF Walks
  <1>4. CASE MmapCall
    <2>1. /\ v_heap < 2 * Len(HeapAddr) /\ v_heap' = v_heap
          /\ Start([fn |-> "vm_map", va |-> HeapAddr[v_heap \div 2 + 1],
                    perm |-> UserPage, i |-> 3, table |-> Root, mmap |-> TRUE])
      BY <1>4 DEF MmapCall, Start
    <2>2. PICK a : a = HeapAddr[v_heap \div 2 + 1]
      OBVIOUS
    <2>3. call' = [fn |-> "vm_map", va |-> a, perm |-> UserPage, i |-> 3, table |-> Root,
                   mmap |-> TRUE]
      BY <2>1, <2>2 DEF Start
    <2>4. MmapOK'
      BY <2>1, <2>2, <2>3 DEF MmapOK
    <2> QED
      BY <2>1, <2>4, StartSpaceInv DEF Walks
  <1>5. CASE UnmapLowerHalfCall
    BY <1>5, BootSpaceInv
       DEF UnmapLowerHalfCall, Start, UnmapLowerHalf, Booted, RootKept
  <1> QED
    BY <1>1, <1>2, <1>3, <1>4, <1>5 DEF Client

LEMMA TlbFillSpaceInv ==
  ASSUME NEW lev \in [Frame -> 0 .. 4], Inv(lev), SpaceInv, TlbFill
  PROVE  SpaceInv'
  <1>1. PICK b \in Addr : /\ tlb' = [tlb EXCEPT ![b] = Walk(b)]
                          /\ UNCHANGED <<mem, v_heap, call>>
    BY DEF TlbFill
  <1>2. \A a : Walk(a)' = Walk(a)
    BY <1>1, WalkKept
  <1>3. Walk(b) \in Space!Translation \cup {Unmapped}
    BY WalkTyped
  <1>4. TlbOK'
    <2>1. /\ tlb \in [Addr -> Space!Translation \cup {Unmapped}]
          /\ Booted => \A a \in Addr : tlb[a] \in {Unmapped, Walk(a)}
      BY DEF SpaceInv, TlbOK
    <2>2. /\ tlb' \in [Addr -> Space!Translation \cup {Unmapped}]
          /\ \A a \in Addr : tlb'[a] = IF a = b THEN Walk(b) ELSE tlb[a]
      BY <1>1, <1>3, <2>1
    <2>3. Booted' => Booted
      BY <1>1 DEF Booted
    <2>4. Booted' => \A a \in Addr : tlb'[a] \in {Unmapped, Walk(a)'}
      BY <1>2, <2>1, <2>2, <2>3
    <2> QED
      BY <2>2, <2>4 DEF TlbOK
  <1>5. OnPath' = OnPath /\ MmapOK' = MmapOK
    BY <1>1 DEF OnPath, MmapOK, Leads4, Leads3, Leads2, E4, E3, E2, IsTable
  <1>6. OpenOK' = OpenOK
    BY <1>1 DEF OpenOK, Booted, WayOpen, Leads4, Leads3, E4, E3, E2, IsTable, Open
  <1>7. HeapOK'
    <2>1. \A k \in 1 .. Len(HeapAddr) : HeapPage(k)' <=> HeapPage(k)
      BY <1>1, <1>2 DEF HeapPage
    <2>2. Booted' => Booted
      BY <1>1 DEF Booted
    <2> QED
      BY <1>1, <2>1, <2>2 DEF SpaceInv, HeapOK
  <1> QED
    BY <1>4, <1>5, <1>6, <1>7 DEF SpaceInv

LEMMA NextSpaceInv ==
  ASSUME IInv, SpaceInv, [Next]_vars
  PROVE  SpaceInv'
  <1>i. PICK lev \in [Frame -> 0 .. 4] : Inv(lev)
    BY DEF IInv
  <1>1. CASE InitListFrame \/ InitListDone
    BY <1>1, InitListSpaceInv
  <1>2. CASE UnmapStep
    BY <1>2, UnmapLoopSpaceInv, L4DoneSpaceInv
  <1>3. CASE WalkStep
    BY <1>i, <1>3, MapPresentSpaceInv, MapNoMemorySpaceInv, MapTableSpaceInv,
       MapPageSpaceInv, ProtectAbsentSpaceInv, ProtectTableSpaceInv, ProtectPageSpaceInv,
       UnmapTableSpaceInv, UnmapPageSpaceInv DEF WalkStep
  <1>4. CASE Client
    BY <1>4, ClientSpaceInv
  <1>5. CASE TlbFill
    BY <1>i, <1>5, TlbFillSpaceInv
  <1>6. CASE UNCHANGED vars
    <2>1. UNCHANGED <<mem, tlb, v_heap, call>>
      BY <1>6 DEF vars
    <2>2. OnPath' = OnPath /\ MmapOK' = MmapOK
      BY <2>1 DEF OnPath, MmapOK, Leads4, Leads3, Leads2, E4, E3, E2, IsTable
    <2>3. OpenOK' = OpenOK
      BY <2>1 DEF OpenOK, Booted, WayOpen, Leads4, Leads3, E4, E3, E2, IsTable, Open
    <2>4. \A a : Walk(a)' = Walk(a)
      BY <2>1, WalkKept
    <2>5. TlbOK' /\ HeapOK'
      BY <2>1, <2>4 DEF SpaceInv, TlbOK, HeapOK, HeapPage, Booted
    <2> QED
      BY <2>2, <2>3, <2>5 DEF SpaceInv
  <1> QED
    BY <1>1, <1>2, <1>3, <1>4, <1>5, <1>6 DEF Next, Step

LEMMA InitSpaceInv ==
  ASSUME Init PROVE SpaceInv
  <1>1. /\ call.fn = "init_list" /\ mem = BootMem /\ v_heap = 0
        /\ tlb = [a \in Addr |-> Unmapped] /\ ~Booted
    BY DEF Init, Booted
  <1>2. OnPath /\ MmapOK
    BY <1>1 DEF OnPath, MmapOK, Walks
  <1>3. OpenOK
    <2>1. \A k \in Lower : ~BootMem[Root][k].no_execute
      BY BootAssumption
    <2> QED
      BY <1>1, <2>1, AddrAssumption DEF OpenOK, E4
  <1>4. TlbOK
    BY <1>1 DEF TlbOK
  <1>5. HeapOK
    BY <1>1, HeapAddrs DEF HeapOK
  <1> QED
    BY <1>2, <1>3, <1>4, <1>5 DEF SpaceInv

-----------------------------------------------------------------------------
(***************************************************************************)
(* Paging implements AddrSpace: most steps change nothing that it speaks   *)
(* of, and the last step of a call is the request being served.            *)
(***************************************************************************)
SpaceNow == [a \in Addr |-> Walk(a)]

LEMMA SameSpace ==
  ASSUME \A a \in Addr : Walk(a)' = Walk(a), UNCHANGED <<given, result>>, Asked' = Asked
  PROVE  UNCHANGED Space!vars
  <1>1. SpaceNow' = SpaceNow
    BY DEF SpaceNow
  <1> QED
    BY <1>1 DEF SpaceNow, Space!vars

LEMMA AskedWalk ==
  ASSUME call.fn \in Walks
  PROVE  Asked = IF call.fn = "vm_unmap" THEN [fn |-> call.fn, va |-> call.va]
                 ELSE [fn |-> call.fn, va |-> call.va, perm |-> call.perm]
  BY DEF Walks, Asked

LEMMA AskedUnmap ==
  ASSUME call.fn \in {"init_list", "unmap_lower_half"}
  PROVE  Asked = [fn |-> "unmap_lower_half"]
  BY DEF Asked

LEMMA Answered ==
  ASSUME NEW r, Return(r)
  PROVE  Space!Answer(r)
  <1>1. Asked' = Idle
    BY DEF Return, Idle, Asked
  <1> QED
    BY <1>1 DEF Return, Idle, Space!Answer, Space!NoRequest

\* A walk that ends at a word that is not present finds nothing.
LEMMA AbsentWord ==
  ASSUME NEW lev \in [Frame -> 0 .. 4], Inv(lev), OnPath, call.fn \in Walks, ~Entry.present,
         NEW va, va = call.va
  PROVE  Walk(va) = Unmapped /\ va \in Addr
  <1>i. PICK i : i = call.i
    OBVIOUS
  <1>1. /\ va \in Addr /\ i \in 0 .. 3 /\ Booted
        /\ i = 3 => Entry = E4(va)
        /\ i = 2 => Leads4(va) /\ Entry = E3(va)
        /\ i = 1 => Leads3(va) /\ Entry = E2(va)
        /\ i = 0 => Leads2(va) /\ Entry = E1(va)
    BY <1>i, CallWay
  <1>2. ~(Leads2(va) /\ E1(va).present)
    BY <1>1 DEF Leads2, Leads3, Leads4, IsTable
  <1> QED
    BY <1>1, <1>2, NoLargePage

LEMMA InitListSpace ==
  ASSUME IInv, InitListFrame \/ InitListDone
  PROVE  UNCHANGED Space!vars
  <1>i. PICK lev \in [Frame -> 0 .. 4] : Inv(lev)
    BY DEF IInv
  <1>1. \A a \in Addr : Walk(a)' = Walk(a)
    BY <1>i, InitListFrameStays, MemoryStays DEF Stays, InitListDone
  <1>2. UNCHANGED <<given, result>>
    BY DEF InitListFrame, InitListDone, history
  <1>3. call.fn = "init_list" /\ call'.fn \in {"init_list", "unmap_lower_half"}
    <2>1. call.fn = "init_list"
      BY DEF InitListFrame, InitListDone
    <2>2. "j" \in DOMAIN call
      BY <1>i, <2>1 DEF Inv, CallOK, InitListOK
    <2>3. CASE InitListFrame
      BY <2>1, <2>2, <2>3 DEF InitListFrame
    <2>4. CASE InitListDone
      BY <2>1, <2>4 DEF InitListDone, UnmapLowerHalf
    <2> QED
      BY <2>1, <2>3, <2>4
  <1>4. Asked' = Asked
    BY <1>3 DEF Asked
  <1> QED
    BY <1>1, <1>2, <1>4, SameSpace

LEMMA UnmapLoopSpace ==
  ASSUME IInv, UnmapStep, ~L4Done
  PROVE  UNCHANGED Space!vars \/ Space!LetGo
  <1>i. PICK lev \in [Frame -> 0 .. 4] : Inv(lev)
    BY DEF IInv
  <1>1. call.fn = "unmap_lower_half" /\ UNCHANGED <<given, result>>
    BY DEF UnmapStep, L4Present, L4Absent, L3Table, L3Other, L3Done,
           L2Table, L2Other, L2Done, InLoop, history
  <1>2. call'.fn = "unmap_lower_half"
    BY <1>i, <1>1, LoopGoesOn
  <1>3. Asked = [fn |-> "unmap_lower_half"] /\ Asked' = Asked
    BY <1>1, <1>2 DEF Asked
  <1>4. CASE L4Present
    <2>1. PICK S : S = {a \in Addr : a[3] = call.l4_index}
      OBVIOUS
    <2>2. SpaceNow' = [a \in Addr |-> IF a \in S THEN Unmapped ELSE SpaceNow[a]]
      BY <1>i, <1>4, <2>1, L4PresentWalks DEF SpaceNow
    <2>3. S \in SUBSET Addr
      BY <2>1
    <2>4. Space!LetGo
      BY <1>1, <1>3, <2>2, <2>3 DEF Space!LetGo, SpaceNow
    <2> QED
      BY <2>4
  <1>5. CASE ~L4Present
    <2>1. \A a \in Addr : Walk(a)' = Walk(a)
      <3>1. UNCHANGED mem \/ L3Done \/ L2Done \/ L2Table
        BY <1>5 DEF UnmapStep, L4Absent, L3Table, L3Other, L2Other
      <3> QED
        BY <1>i, <3>1, MemoryStays, L3DoneStays, L2DoneStays, L2TableStays DEF Stays
    <2> QED
      BY <1>1, <1>3, <2>1, SameSpace
  <1> QED
    BY <1>4, <1>5

LEMMA L4DoneSpace ==
  ASSUME IInv, L4Done
  PROVE  Space!AllGone
  <1>i. PICK lev \in [Frame -> 0 .. 4] : Inv(lev)
    BY DEF IInv
  <1>1. /\ call.fn = "unmap_lower_half" /\ call' = Idle /\ result' = TRUE
        /\ UNCHANGED <<mem, given>>
    BY DEF L4Done, InLoop, history
  <1>2. \A a \in Addr : Walk(a) = Unmapped /\ Walk(a)' = Walk(a)
    BY <1>i, <1>1, L4DoneWalks, MemoryStays DEF Stays
  <1>3. SpaceNow' = SpaceNow /\ \A a \in Addr : SpaceNow[a] = Unmapped
    BY <1>2 DEF SpaceNow
  <1>4. Asked.fn = "unmap_lower_half" /\ Asked' = Idle
    BY <1>1 DEF Asked, Idle
  <1> QED
    BY <1>1, <1>3, <1>4
       DEF Space!AllGone, Space!IsMapped, Space!Answer, Space!NoRequest, SpaceNow, Idle

LEMMA DescendSpace ==
  ASSUME NEW lev \in [Frame -> 0 .. 4], Inv(lev), call.fn \in Walks, Descend,
         UNCHANGED <<mem, given, result>>
  PROVE  UNCHANGED Space!vars
  <1>1. /\ call'.fn = call.fn /\ call'.va = call.va
        /\ call.fn # "vm_unmap" => call'.perm = call.perm
    <2>1. {"va", "i", "table"} \subseteq DOMAIN call
      BY DEF Inv, CallOK, WalkOK
    <2> QED
      BY <2>1 DEF Descend, Walks
  <1>2. Asked' = Asked
    BY <1>1 DEF Walks, Asked
  <1>3. \A a \in Addr : Walk(a)' = Walk(a)
    BY MemoryStays DEF Stays
  <1> QED
    BY <1>2, <1>3, SameSpace

LEMMA MapPresentSpace ==
  ASSUME NEW lev \in [Frame -> 0 .. 4], Inv(lev), OnPath, MapPresent
  PROVE  UNCHANGED Space!vars \/ Space!AlreadyMapped
  <1>1. /\ call.fn = "vm_map" /\ call.fn \in Walks /\ Entry.present
        /\ UNCHANGED <<mem, given>>
    BY DEF MapPresent, Walks, history
  <1>2. CASE call.i = 0 /\ Return(FALSE)
    <2>1. PICK va : va = call.va
      OBVIOUS
    <2>2. Walk(va) # Unmapped /\ va \in Addr
      BY <1>1, <1>2, <2>1, PageWord, WalkAt
    <2>3. Asked.fn = "vm_map" /\ Asked.va = va
      BY <1>1, <2>1, AskedWalk
    <2>4. SpaceNow' = SpaceNow /\ SpaceNow[va] # Unmapped
      BY <1>1, <2>2, MemoryStays DEF SpaceNow, Stays
    <2> QED
      BY <1>1, <1>2, <2>3, <2>4, Answered
         DEF Space!AlreadyMapped, Space!IsMapped, SpaceNow
  <1>3. CASE call.i > 0 /\ Descend /\ UNCHANGED result
    BY <1>1, <1>3, DescendSpace
  <1> QED
    BY <1>2, <1>3 DEF MapPresent

LEMMA MapNoMemorySpace ==
  ASSUME NEW lev \in [Frame -> 0 .. 4], Inv(lev), OnPath, MapNoMemory
  PROVE  Space!OutOfMemory
  <1>1. /\ call.fn = "vm_map" /\ call.fn \in Walks /\ ~Entry.present
        /\ call' = [fn |-> "halted"] /\ UNCHANGED <<mem, given, result>>
    BY DEF MapNoMemory, Walks, history
  <1>2. PICK va : va = call.va
    OBVIOUS
  <1>3. Walk(va) = Unmapped /\ va \in Addr
    BY <1>1, <1>2, AbsentWord
  <1>4. Asked.fn = "vm_map" /\ Asked.va = va
    BY <1>1, <1>2, AskedWalk
  <1>5. SpaceNow' = SpaceNow /\ SpaceNow[va] = Unmapped
    BY <1>1, <1>3, MemoryStays DEF SpaceNow, Stays
  <1>6. Asked' = [fn |-> "halted"]
    BY <1>1 DEF Asked
  <1> QED
    BY <1>1, <1>4, <1>5, <1>6
       DEF Space!OutOfMemory, Space!IsMapped, Space!Halted, SpaceNow

LEMMA MapTableSpace ==
  ASSUME NEW lev \in [Frame -> 0 .. 4], Inv(lev), OnPath, OpenOK, MapTable
  PROVE  UNCHANGED Space!vars
  <1>1. \A a \in Addr : Walk(a)' = Walk(a)
    BY MapTableWay
  <1>2. /\ call.fn = "vm_map" /\ UNCHANGED <<given, result>>
        /\ call' = [call EXCEPT !.i = @ - 1, !.table = free_list]
    BY DEF MapTable
  <1>3. call'.fn = call.fn /\ call'.va = call.va /\ call'.perm = call.perm
    <2>1. {"va", "i", "table", "perm"} \subseteq DOMAIN call
      BY <1>2 DEF Inv, CallOK, WalkOK, Walks
    <2> QED
      BY <1>2, <2>1
  <1>4. Asked' = Asked
    BY <1>2, <1>3 DEF Asked
  <1> QED
    BY <1>1, <1>2, <1>4, SameSpace

\* Only the address of the call is mapped otherwise.
LEMMA OneChanged ==
  ASSUME NEW va \in Addr, \A a \in Addr : a # va => Walk(a)' = Walk(a)
  PROVE  SpaceNow' = [SpaceNow EXCEPT ![va] = Walk(va)']
  BY DEF SpaceNow

LEMMA MapPageSpace ==
  ASSUME NEW lev \in [Frame -> 0 .. 4], Inv(lev), OnPath, OpenOK, MapPage
  PROVE  Space!Map
  <1>1. PICK va : va = call.va
    OBVIOUS
  <1>p. PICK f, p : f = free_list /\ p = call.perm
    OBVIOUS
  <1>2. /\ call.fn = "vm_map" /\ call.fn \in Walks /\ Return(TRUE)
        /\ given' = given \cup {f}
    BY <1>p DEF MapPage, Walks
  <1>3. /\ \A a \in Addr : a # va => Walk(a)' = Walk(a)
        /\ Walk(va) = Unmapped
        /\ Walk(va)' = Granted(f, p)
        /\ f \in Frame \ given
    BY <1>1, <1>p, MapPageWay
  <1>4. va \in Addr
    BY <1>1, <1>2, WalkAt
  <1>5. Asked.fn = "vm_map" /\ Asked.va = va /\ Asked.perm = p
    BY <1>1, <1>p, <1>2, AskedWalk
  <1>6. Walk(va)' = Space!Grant(f, p)
    BY <1>3 DEF Granted, Space!Grant
  <1>7. SpaceNow' = [SpaceNow EXCEPT ![va] = Space!Grant(f, p)] /\ SpaceNow[va] = Unmapped
    <2>1. SpaceNow' = [SpaceNow EXCEPT ![va] = Walk(va)']
      BY <1>3, <1>4, OneChanged
    <2> QED
      BY <1>3, <1>4, <1>6, <2>1 DEF SpaceNow
  <1>8. Space!Answer(TRUE)
    BY <1>2, Answered
  <1> QED
    BY <1>2, <1>3, <1>5, <1>7, <1>8 DEF Space!Map, Space!IsMapped, SpaceNow

LEMMA ProtectPageSpace ==
  ASSUME NEW lev \in [Frame -> 0 .. 4], Inv(lev), OnPath, OpenOK, ProtectPage
  PROVE  Space!Protect
  <1>1. PICK va : va = call.va
    OBVIOUS
  <1>p. PICK p : p = call.perm
    OBVIOUS
  <1>2. /\ call.fn = "vm_protect" /\ call.fn \in Walks /\ Return(TRUE)
        /\ given' = given
    BY <1>p DEF ProtectPage, Walks, history
  <1>3. /\ \A a \in Addr : a # va => Walk(a)' = Walk(a)
        /\ Walk(va) # Unmapped
        /\ Walk(va)' = Granted(Walk(va).frame, p)
    BY <1>1, <1>p, ProtectPageWay
  <1>4. va \in Addr
    BY <1>1, <1>2, WalkAt
  <1>5. Asked.fn = "vm_protect" /\ Asked.va = va /\ Asked.perm = p
    BY <1>1, <1>p, <1>2, AskedWalk
  <1>6. SpaceNow[va] = Walk(va)
    BY <1>4 DEF SpaceNow
  <1>7. Walk(va)' = Space!Grant(SpaceNow[va].frame, p)
    BY <1>3, <1>6 DEF Granted, Space!Grant
  <1>8. SpaceNow' = [SpaceNow EXCEPT ![va] = Space!Grant(SpaceNow[va].frame, p)]
        /\ SpaceNow[va] # Unmapped
    <2>1. SpaceNow' = [SpaceNow EXCEPT ![va] = Walk(va)']
      BY <1>3, <1>4, OneChanged
    <2> QED
      BY <1>3, <1>6, <1>7, <2>1
  <1>9. Space!Answer(TRUE)
    BY <1>2, Answered
  <1> QED
    BY <1>2, <1>5, <1>8, <1>9 DEF Space!Protect, Space!IsMapped, SpaceNow

LEMMA ProtectAbsentSpace ==
  ASSUME NEW lev \in [Frame -> 0 .. 4], Inv(lev), OnPath, ProtectAbsent
  PROVE  Space!NothingToProtect
  <1>1. /\ call.fn = "vm_protect" /\ call.fn \in Walks /\ ~Entry.present /\ Return(FALSE)
        /\ UNCHANGED <<mem, given>>
    BY DEF ProtectAbsent, Walks, history
  <1>2. PICK va : va = call.va
    OBVIOUS
  <1>3. Walk(va) = Unmapped /\ va \in Addr
    BY <1>1, <1>2, AbsentWord
  <1>4. Asked.fn = "vm_protect" /\ Asked.va = va
    BY <1>1, <1>2, AskedWalk
  <1>5. SpaceNow' = SpaceNow /\ SpaceNow[va] = Unmapped
    BY <1>1, <1>3, MemoryStays DEF SpaceNow, Stays
  <1> QED
    BY <1>1, <1>4, <1>5, Answered
       DEF Space!NothingToProtect, Space!IsMapped, SpaceNow

LEMMA UnmapPageSpace ==
  ASSUME NEW lev \in [Frame -> 0 .. 4], Inv(lev), OnPath, OpenOK, UnmapPage
  PROVE  Space!Unmap \/ Space!UnmapNothing
  <1>1. PICK va : va = call.va
    OBVIOUS
  <1>2. /\ call.fn = "vm_unmap" /\ call.fn \in Walks /\ Return(TRUE) /\ given' = given
    BY DEF UnmapPage, Walks, history
  <1>3. /\ \A a \in Addr : a # va => Walk(a)' = Walk(a)
        /\ Walk(va)' = Unmapped
    BY <1>1, UnmapPageWay
  <1>4. va \in Addr
    BY <1>1, <1>2, WalkAt
  <1>5. Asked.fn = "vm_unmap" /\ Asked.va = va
    BY <1>1, <1>2, AskedWalk
  <1>6. SpaceNow' = [SpaceNow EXCEPT ![va] = Unmapped]
    <2>1. SpaceNow' = [SpaceNow EXCEPT ![va] = Walk(va)']
      BY <1>3, <1>4, OneChanged
    <2> QED
      BY <1>3, <2>1
  <1>7. Space!Answer(TRUE)
    BY <1>2, Answered
  <1>8. CASE SpaceNow[va] # Unmapped
    BY <1>2, <1>5, <1>6, <1>7, <1>8 DEF Space!Unmap, Space!IsMapped, SpaceNow
  <1>9. CASE SpaceNow[va] = Unmapped
    <2>1. SpaceNow' = SpaceNow
      BY <1>6, <1>9 DEF SpaceNow
    <2> QED
      BY <1>2, <1>5, <1>7, <1>9, <2>1 DEF Space!UnmapNothing, Space!IsMapped, SpaceNow
  <1> QED
    BY <1>8, <1>9

LEMMA ClientSpace ==
  ASSUME NEW lev \in [Frame -> 0 .. 4], Inv(lev), Client, v_heap \in Nat
  PROVE  Space!Ask
  <1>1. /\ call = Idle /\ UNCHANGED <<mem, given, result>>
    BY DEF Client, VmMapCall, VmProtectCall, VmUnmapCall, MmapCall, UnmapLowerHalfCall,
           Start, history
  <1>2. SpaceNow' = SpaceNow
    BY <1>1, MemoryStays DEF SpaceNow, Stays
  <1>3. Asked = Space!NoRequest
    BY <1>1 DEF Asked, Idle, Space!NoRequest
  <1>4. SegAddr \subseteq Addr
    BY DEF Addr
  <1>5. Asked' \in Space!Request
    <2>1. CASE VmMapCall
      <3>1. PICK a \in SegAddr, p \in Perm :
              call' = [fn |-> "vm_map", va |-> a, perm |-> p, i |-> 3, table |-> Root]
        BY <2>1 DEF VmMapCall, Start
      <3>2. Asked' = [fn |-> "vm_map", va |-> a, perm |-> p]
        BY <3>1 DEF Asked
      <3> QED
        BY <1>4, <3>2 DEF Space!Request
    <2>2. CASE VmProtectCall
      <3>1. PICK a \in SegAddr, p \in Perm :
              call' = [fn |-> "vm_protect", va |-> a, perm |-> p, i |-> 3, table |-> Root]
        BY <2>2 DEF VmProtectCall, Start
      <3>2. Asked' = [fn |-> "vm_protect", va |-> a, perm |-> p]
        BY <3>1 DEF Asked
      <3> QED
        BY <1>4, <3>2 DEF Space!Request
    <2>3. CASE VmUnmapCall
      <3>1. PICK a \in SegAddr :
              call' = [fn |-> "vm_unmap", va |-> a, i |-> 3, table |-> Root]
        BY <2>3 DEF VmUnmapCall, Start
      <3>2. Asked' = [fn |-> "vm_unmap", va |-> a]
        BY <3>1 DEF Asked
      <3> QED
        BY <1>4, <3>2 DEF Space!Request
    <2>4. CASE MmapCall
      <3>1. PICK a : a = HeapAddr[v_heap \div 2 + 1]
        OBVIOUS
      <3>2. call' = [fn |-> "vm_map", va |-> a, perm |-> UserPage, i |-> 3, table |-> Root,
                     mmap |-> TRUE] /\ v_heap < 2 * Len(HeapAddr)
        BY <2>4, <3>1 DEF MmapCall, Start
      <3>3. a \in Addr
        BY <3>1, <3>2, MmapPage, HeapAddrs
      <3>4. Asked' = [fn |-> "vm_map", va |-> a, perm |-> UserPage]
        BY <3>2 DEF Asked
      <3> QED
        BY <3>3, <3>4 DEF Space!Request
    <2>5. CASE UnmapLowerHalfCall
      <3>1. Asked' = [fn |-> "unmap_lower_half"]
        BY <2>5 DEF UnmapLowerHalfCall, Start, UnmapLowerHalf, Asked
      <3> QED
        BY <3>1 DEF Space!Request
    <2> QED
      BY <2>1, <2>2, <2>3, <2>4, <2>5 DEF Client
  <1> QED
    BY <1>1, <1>2, <1>3, <1>5 DEF Space!Ask, SpaceNow

LEMMA NextSpace ==
  ASSUME IInv, SpaceInv, v_heap \in Nat, [Next]_vars
  PROVE  [Space!Next]_(Space!vars)
  <1>i. PICK lev \in [Frame -> 0 .. 4] : Inv(lev)
    BY DEF IInv
  <1>o. OnPath /\ OpenOK
    BY DEF SpaceInv
  <1>1. CASE InitListFrame \/ InitListDone
    BY <1>1, InitListSpace
  <1>2. CASE UnmapStep
    <2>1. UNCHANGED Space!vars \/ Space!LetGo \/ Space!AllGone
      BY <1>2, UnmapLoopSpace, L4DoneSpace
    <2> QED
      BY <2>1 DEF Space!Next
  <1>3. CASE WalkStep
    <2>1. CASE MapPresent
      BY <1>i, <1>o, <2>1, MapPresentSpace DEF Space!Next
    <2>2. CASE MapNoMemory
      BY <1>i, <1>o, <2>2, MapNoMemorySpace DEF Space!Next
    <2>3. CASE MapTable
      BY <1>i, <1>o, <2>3, MapTableSpace
    <2>4. CASE MapPage
      BY <1>i, <1>o, <2>4, MapPageSpace DEF Space!Next
    <2>5. CASE ProtectAbsent
      BY <1>i, <1>o, <2>5, ProtectAbsentSpace DEF Space!Next
    <2>6. CASE ProtectTable
      BY <1>i, <2>6, DescendSpace DEF ProtectTable, Walks, history
    <2>7. CASE ProtectPage
      BY <1>i, <1>o, <2>7, ProtectPageSpace DEF Space!Next
    <2>8. CASE UnmapTable
      BY <1>i, <2>8, DescendSpace DEF UnmapTable, Walks, history
    <2>9. CASE UnmapPage
      BY <1>i, <1>o, <2>9, UnmapPageSpace DEF Space!Next
    <2> QED
      BY <1>3, <2>1, <2>2, <2>3, <2>4, <2>5, <2>6, <2>7, <2>8, <2>9 DEF WalkStep
  <1>4. CASE Client
    <2>1. Space!Ask
      BY <1>i, <1>4, ClientSpace
    <2> QED
      BY <2>1 DEF Space!Next
  <1>5. CASE TlbFill \/ UNCHANGED vars
    <2>1. UNCHANGED <<mem, call, given, result>>
      BY <1>5 DEF TlbFill, vars, history
    <2>2. \A a \in Addr : Walk(a)' = Walk(a)
      BY <2>1, MemoryStays DEF Stays
    <2>3. Asked' = Asked
      BY <2>1 DEF Asked
    <2> QED
      BY <2>1, <2>2, <2>3, SameSpace
  <1> QED
    BY <1>1, <1>2, <1>3, <1>4, <1>5 DEF Next, Step

LEMMA InitSpace ==
  ASSUME Init PROVE Space!Init
  <1>1. IInv
    BY InitIInv
  <1>i. PICK lev \in [Frame -> 0 .. 4] : Inv(lev)
    BY <1>1 DEF IInv
  <1>2. SpaceNow \in [Addr -> Space!Translation \cup {Unmapped}]
    BY <1>i, WalkTyped DEF SpaceNow
  <1>3. Asked = [fn |-> "unmap_lower_half"]
    BY DEF Init, Asked
  <1> QED
    BY <1>2, <1>3 DEF Init, Space!Init, SpaceNow

-----------------------------------------------------------------------------
(***************************************************************************)
(* What the tables grant and what the processor caches, at every step: the *)
(* inductive invariant behind the theorems below.                          *)
(***************************************************************************)
THEOREM PagingSpaceInvariant == Spec => [](IInv /\ SpaceInv /\ v_heap \in Nat)
  <1>1. Init => IInv /\ SpaceInv /\ v_heap \in Nat
    BY InitIInv, InitSpaceInv DEF Init
  <1>2. (IInv /\ SpaceInv /\ v_heap \in Nat) /\ [Next]_vars
          => (IInv /\ SpaceInv /\ v_heap \in Nat)'
    BY NextIInv, NextSpaceInv
  <1> QED
    BY <1>1, <1>2, PTL DEF Spec

Functions == {"none", "halted", "init_list", "unmap_lower_half"} \cup Walks

RestTyped == call.fn \in Functions /\ result \in BOOLEAN /\ given \subseteq Frame

LEMMA NextRestTyped ==
  ASSUME IInv, RestTyped, [Next]_vars
  PROVE  RestTyped'
  <1>i. PICK lev \in [Frame -> 0 .. 4] : Inv(lev)
    BY DEF IInv
  <1>1. CASE InitListFrame \/ InitListDone
    <2>1. call.fn = "init_list" /\ UNCHANGED <<given, result>>
      BY <1>1 DEF InitListFrame, InitListDone, history
    <2>2. "j" \in DOMAIN call
      BY <1>i, <2>1 DEF Inv, CallOK, InitListOK
    <2>3. call'.fn \in Functions
      <3>1. CASE InitListFrame
        BY <2>1, <2>2, <3>1 DEF InitListFrame, Functions
      <3>2. CASE InitListDone
        BY <3>2 DEF InitListDone, UnmapLowerHalf, Functions
      <3> QED
        BY <1>1, <3>1, <3>2
    <2> QED
      BY <2>1, <2>3 DEF RestTyped
  <1>2. CASE UnmapStep /\ ~L4Done
    <2>1. call'.fn = "unmap_lower_half"
      BY <1>i, <1>2, LoopGoesOn
    <2>2. UNCHANGED <<given, result>>
      BY <1>2 DEF UnmapStep, L4Present, L4Absent, L3Table, L3Other, L3Done,
                  L2Table, L2Other, L2Done, history
    <2> QED
      BY <2>1, <2>2 DEF RestTyped, Functions
  <1>3. CASE L4Done
    BY <1>3 DEF L4Done, RestTyped, Functions, Idle, history
  <1>4. CASE WalkStep
    <2>1. ASSUME Descend, call.fn \in Walks
          PROVE  call'.fn \in Functions
      <3>1. {"va", "i", "table"} \subseteq DOMAIN call
        BY <1>i, <2>1 DEF Inv, CallOK, WalkOK
      <3> QED
        BY <2>1, <3>1 DEF Descend, Functions, Walks
    <2>2. CASE MapPresent
      <3>1. call.fn \in Walks /\ UNCHANGED given
        BY <2>2 DEF MapPresent, Walks, history
      <3>2. CASE Return(FALSE)
        BY <3>1, <3>2 DEF Return, Idle, Functions, RestTyped
      <3>3. CASE Descend /\ UNCHANGED result
        BY <2>1, <3>1, <3>3 DEF RestTyped
      <3> QED
        BY <2>2, <3>2, <3>3 DEF MapPresent
    <2>3. CASE MapTable
      <3>1. {"va", "i", "table"} \subseteq DOMAIN call /\ call.fn = "vm_map"
        BY <1>i, <2>3 DEF MapTable, Inv, CallOK, WalkOK, Walks
      <3>2. call'.fn = "vm_map"
        BY <2>3, <3>1 DEF MapTable
      <3> QED
        BY <2>3, <3>2 DEF MapTable, Functions, Walks, RestTyped
    <2>4. CASE MapPage
      <3>1. free_list \in Frame
        BY <1>i, <2>4, FreeListHead DEF MapPage, Allocate, Inv
      <3>2. call' = Idle /\ result' = TRUE /\ given' = given \cup {free_list}
        BY <2>4 DEF MapPage, Return
      <3> QED
        BY <3>1, <3>2 DEF Idle, Functions, RestTyped
    <2>5. CASE MapNoMemory
      BY <2>5 DEF MapNoMemory, Functions, RestTyped, history
    <2>6. CASE ProtectTable \/ UnmapTable
      BY <2>1, <2>6 DEF ProtectTable, UnmapTable, Walks, RestTyped, history
    <2>7. CASE ProtectAbsent \/ ProtectPage \/ UnmapPage
      <3>1. call' = Idle /\ result' \in BOOLEAN /\ UNCHANGED given
        BY <2>7 DEF ProtectAbsent, ProtectPage, UnmapPage, Return, history
      <3> QED
        BY <3>1 DEF Idle, Functions, RestTyped
    <2> QED
      BY <1>4, <2>2, <2>3, <2>4, <2>5, <2>6, <2>7 DEF WalkStep
  <1>5. CASE Client
    BY <1>5 DEF Client, VmMapCall, VmProtectCall, VmUnmapCall, MmapCall, UnmapLowerHalfCall,
                Start, UnmapLowerHalf, RestTyped, Functions, Walks, history
  <1>6. CASE TlbFill \/ UNCHANGED vars
    BY <1>6 DEF TlbFill, vars, RestTyped, history
  <1> QED
    BY <1>1, <1>2, <1>3, <1>4, <1>5, <1>6 DEF Next, Step, UnmapStep

(***************************************************************************)
(* The types of Paging's variables.                                        *)
(***************************************************************************)
THEOREM PagingTyped == Spec => []TypeOK
  <1>1. Init => RestTyped
    BY DEF Init, RestTyped, Functions
  <1>2. IInv /\ RestTyped /\ [Next]_vars => RestTyped'
    BY NextRestTyped
  <1>3. IInv /\ SpaceInv /\ RestTyped => TypeOK
    <2> SUFFICES ASSUME IInv, SpaceInv, RestTyped PROVE TypeOK
      OBVIOUS
    <2>1. PICK lev \in [Frame -> 0 .. 4] : Inv(lev)
      BY DEF IInv
    <2>2. /\ mem \in [Frame -> [Index -> Word]] /\ free_list \in Frame \cup {NULL}
          /\ free \in Seq(Frame)
      BY <2>1, FreeListHead DEF Inv, Memory, FreeOK
    <2>3. \A a \in Addr : tlb[a].frame \in Frame \cup {NULL}
      BY DEF SpaceInv, TlbOK, Space!Translation, Unmapped
    <2>4. v_heap \in 0 .. 2 * Len(HeapAddr)
      BY DEF SpaceInv, HeapOK
    <2> QED
      BY <2>2, <2>3, <2>4 DEF RestTyped, TypeOK, Functions, Walks
  <1> QED
    BY <1>1, <1>2, <1>3, PagingSpaceInvariant, PTL DEF Spec

(***************************************************************************)
(* No cached translation is stale but in unmap_lower_half: vm_map,         *)
(* vm_protect and vm_unmap change one translation each and invalidate it,  *)
(* new tables map nothing, and unmap_lower_half ends with the reload of    *)
(* cr3.                                                                    *)
(***************************************************************************)
THEOREM PagingTlbCoherent == Spec => []TlbCoherent
  <1>1. SpaceInv => TlbCoherent
    BY DEF SpaceInv, TlbOK, TlbCoherent
  <1> QED
    BY <1>1, PagingSpaceInvariant, PTL

(***************************************************************************)
(* Every address that mmap returned is mapped, for the user and writable.  *)
(***************************************************************************)
THEOREM PagingHeapMapped == Spec => []HeapMapped
  <1>1. SpaceInv => HeapMapped
    <2> SUFFICES ASSUME SpaceInv, Booted, NEW h \in 0 .. v_heap - 1
                 PROVE  LET t == Walk(HeapAddr[h \div 2 + 1]) IN
                          t # Unmapped /\ t.user /\ t.writable
      BY DEF HeapMapped
    <2>1. PICK k : k = h \div 2 + 1
      OBVIOUS
    <2>2. v_heap \in 0 .. 2 * Len(HeapAddr) /\ Len(HeapAddr) \in Nat
      BY HeapAddrs DEF SpaceInv, HeapOK
    <2>3. k \in 1 .. Len(HeapAddr) /\ 2 * (k - 1) < v_heap
      <3>1. h \in Nat /\ h < v_heap
        BY <2>2
      <3>2. PICK n : n = h \div 2
        OBVIOUS
      <3>3. n \in Nat /\ 2 * n <= h
        BY <3>1, <3>2, Halved
      <3> QED
        BY <2>1, <2>2, <3>1, <3>2, <3>3
    <2>4. HeapPage(k)
      BY <2>3 DEF SpaceInv, HeapOK
    <2> QED
      BY <2>1, <2>3, <2>4 DEF HeapPage
  <1> QED
    BY <1>1, PagingSpaceInvariant, PTL

(***************************************************************************)
(* The tables implement the abstract address space of AddrSpace, where     *)
(* vm_map without memory does not return and vm_unmap says it succeeded    *)
(* whatever was there.                                                     *)
(***************************************************************************)
THEOREM PagingImplementsSpace == Spec => SpaceSpec
  <1>1. Init => Space!Init
    BY InitSpace
  <1>2. (IInv /\ SpaceInv /\ v_heap \in Nat) /\ [Next]_vars => [Space!Next]_(Space!vars)
    BY NextSpace
  <1> QED
    BY <1>1, <1>2, PagingSpaceInvariant, PTL DEF Spec, SpaceSpec, Space!Spec

=============================================================================
