-------------------------------- MODULE Heap --------------------------------
(***************************************************************************)
(* A program's heap: malloc of stdlib/mem.c, which hands out the memory it *)
(* gets from the mmap system call of kernel/idt.c front to back, and the   *)
(* end of the program, after which the next one starts over.  free does    *)
(* nothing.                                                                *)
(*                                                                         *)
(* mmap maps the page that v_heap is in and moves v_heap by PAGE_SIZE,     *)
(* which is half of a page; that there is memory to map it to is taken for *)
(* granted here (Paging has the other case), and so is that a program's    *)
(* variables without an initial value start as zero.  Shell has the        *)
(* programs that ask for memory and are replaced by one another.           *)
(***************************************************************************)
EXTENDS Integers, Sequences

CONSTANTS
  QUANTUM,     \* bytes that a request is rounded up to (16)
  PAGE_SIZE,   \* bytes that v_heap moves by (2048)
  Requests,    \* bytes that programs ask malloc for
  MaxChunks,   \* bound: calls of mmap by one program
  MaxBlocks    \* bound: blocks, which may be empty, a program asks for

ASSUME SizesAssumption ==
  /\ QUANTUM \in Nat \ {0} /\ PAGE_SIZE \in Nat \ {0}
  /\ (PAGE_SIZE % QUANTUM) = 0
  /\ Requests \subseteq Nat
  /\ MaxChunks \in Nat /\ MaxBlocks \in Nat

VARIABLES
  v_heap,            \* the next address that mmap returns
  mapped,            \* the pages that are mapped for the program's heap
  bump,
  space_remaining,
  blocks             \* history: [at, size] of the blocks handed out, in order

heap == <<v_heap, mapped, bump, space_remaining, blocks>>

NULL == 0
Start == 8 * PAGE_SIZE           \* 0x10000, the start of a page
PageOf(a) == a \div (2 * PAGE_SIZE)

RoundUp(x, y) == IF x % y = 0 THEN x ELSE x + (y - (x % y))

HeapInit ==
  /\ v_heap = Start
  /\ mapped = {}
  /\ bump = NULL
  /\ space_remaining = 0
  /\ blocks = <<>>

-----------------------------------------------------------------------------
\* A mutant of Region, which nothing refers to: malloc takes what it gets for
\* a whole page, as the processor has them.
RegionWhole(size) == RoundUp(size, 2 * PAGE_SIZE)

-----------------------------------------------------------------------------
\* What malloc asks mmap for, and believes to get.
Region(size) == RoundUp(size, PAGE_SIZE)

\* There is enough space left.
MallocHere(sz) ==
  LET size == RoundUp(sz, QUANTUM)
  IN  /\ space_remaining >= size
      /\ Len(blocks) < MaxBlocks
      /\ bump' = bump + size
      /\ space_remaining' = space_remaining - size
      /\ blocks' = Append(blocks, [at |-> bump, size |-> size])
      /\ UNCHANGED <<v_heap, mapped>>

\* There is not: what is left is given up for a new region.
MallocMore(sz) ==
  LET size == RoundUp(sz, QUANTUM)
  IN  /\ space_remaining < size
      /\ v_heap < Start + MaxChunks * PAGE_SIZE
      /\ mapped' = mapped \cup {PageOf(v_heap)}
      /\ v_heap' = v_heap + PAGE_SIZE
      /\ bump' = v_heap + size
      /\ space_remaining' = Region(size) - size
      /\ blocks' = Append(blocks, [at |-> v_heap, size |-> size])

\* exec and exit: unmap_lower_half resets v_heap, and the variables are those
\* of another program.  bump and space_remaining start as mem.c has them, at
\* zero: this is assumed, for execute_mod fills their place with what the file
\* has there (p_memsz bytes, proc.c:52) and clears nothing.
ReplaceHeap ==
  /\ v_heap' = Start
  /\ mapped' = {}
  /\ bump' = NULL
  /\ space_remaining' = 0
  /\ blocks' = <<>>

-----------------------------------------------------------------------------
BlockBytes(b) == b.at .. b.at + b.size - 1

(***************************************************************************)
(* malloc, which believes its regions to be as large as it asked for, and  *)
(* mmap, which ignores what it was asked for, agree for requests of at     *)
(* most PAGE_SIZE bytes: the blocks of a program start at multiples of     *)
(* QUANTUM, are mapped to their last byte, and no two share a byte.        *)
(***************************************************************************)
BlocksApart ==
  /\ \A j \in 1 .. Len(blocks) :
       /\ blocks[j].at % QUANTUM = 0
       /\ \A x \in BlockBytes(blocks[j]) : PageOf(x) \in mapped
  /\ \A j, k \in 1 .. Len(blocks) :
       j # k => BlockBytes(blocks[j]) \cap BlockBytes(blocks[k]) = {}

=============================================================================
