# aos_kernel in TLA+

A verification development of the kernel in `kernel/`, the run-time library in
`stdlib/` and the programs that run on it: TLA+ modules translated from the C
code, TLC runs on small instances, and TLAPS proofs of what matters most.
`PROJECT.json` lists the components, the runs, the source lines each definition
stands for, a mutant for every property, the hazards and the theorems.

    tlc -workers 2 -config MCKeyRing.cfg MCKeyRing      # a run
    tlapm KeyRingProofs.tla                             # a proof

Contents: [the system](#the-system) · [modules](#modules-and-code) ·
[runs](#runs-bounds-and-what-they-show) · [fairness](#fairness-and-deadlock) ·
[proofs](#what-is-proved) · [modelling choices](#modelling-choices) ·
[divergences seen](#divergences-seen) · [not modelled](#what-is-not-modelled) ·
[plan](#plan)

## The system

A single-processor x86_64 kernel, started by a stivale2 bootloader, that runs
one user program at a time.  `_start` (`kernel/boot.c`) builds the free list,
installs the gates, unmaps the bootloader's lower half, programs the interrupt
controller, enters the debugger at a `BREAK`, and starts `init`, which executes
`shell`.  There are no threads and no scheduler: what runs concurrently is the
keyboard's interrupt handler, with everything else.

### Inventory

| component | state | operations | what makes it correct |
|---|---|---|---|
| character ring, `kernel/pic.c` | `buffer`, `readhead`, `writehead`, `avail` | `write_char`, in the interrupt handler; `kgetc`, which spins until there is a character | first in, first out, each character once; the count agrees with the heads whatever the interleaving; a waiting reader gets what is there |
| keyboard decoding, `kernel/pic.c`, `kernel/idt.c` | `shiftl`, `shiftr`, the map `kbd_US` | `shift`, `irq1_handler` | every key types its character, in order, as the shift keys were when it was pressed |
| interrupts and boot, `kernel/idt.c`, `kernel/gdt.c`, `kernel/pic.c`, `kernel/boot.c`, `*_entry.s` | the descriptors and the task state, the gates, the controller's masks, the interrupt flag, the contexts on the stack | `gdt_setup`, `idt_setup`, `pic_init`, `pic_unmask_irq`, the entry and exit of interrupts, exceptions and system calls | no interrupt or exception without a handler that takes what the processor pushes; whoever waits for a key can be interrupted; the handler never nests; no key kills the keyboard |
| physical memory and page tables, `kernel/paging.c` | free list, tables, the processor's cached translations | `init_list`, `pmem_alloc`, `pmem_free`, `vm_map`, `vm_protect`, `vm_unmap`, `unmap_lower_half` | the free list and the live tables never share a frame; no frame has two owners; no stale translation; the kernel's half is untouched |
| loader, `kernel/proc.c`, `kernel/elf.h` | the program's segments, pages and permissions | `execute_mod`, `check_mod`, the exec, exit and mmap system calls | a program that runs is complete, alone, and has its segments' permissions |
| read and write system calls, `kernel/idt.c` | a count and the caller's buffer | `syscall_read`, `syscall_write` | only the buffer is written; it holds the line as edited |
| terminal, `kernel/term.c` | cells, row, column, cursor | `term_putchar`, `term_init`, `term_clear` | the screen shows the end of what was printed; the cursor is where writing goes on |
| shell and line input, programs, `shell/shell.c`, `stdlib/myio.c`, `stdlib/mystring.c`, `init/init.c`, `echo/echo.c` | the line, the index, what `getline` returns, which program runs | the shell's loop, `getline`, `strlen`, `strcpy`, `my_strcmp`, exec, exit | the program executed is the one typed; return is answered |
| user heap, `stdlib/mem.c`, `kernel/idt.c` | `bump`, `space_remaining`, `v_heap` | `malloc`, mmap, exec, exit | blocks are mapped, aligned, and share no byte |
| debugger, `kernel/debug.c` | the line, its words, an address's digits | `debug_loop`, `words`, `conv_addr`, `get_addr`, `dump_mem` and its callers | the command and the address taken are the ones typed, the memory shown is that of the address |
| formatted output, `kernel/kprint.c`, `stdlib/myio.c` | the place in the format, the flag, a number's buffer | `kprintf`, `printf`, their conversions | what is printed is what the format means; digits stay in the buffer; it ends |
| not modelled: the page fault report, system call stubs, build files; in part: boot code | | | see [below](#what-is-not-modelled) |

### How the parts interact

    keys -> 8042 -> 8259 -> irq1_handler -> shift / kbd_US -> write_char -> ring
                   (Interrupts)             (Keyboard)                   (KeyRing)
    ring -> kgetc -> syscall_read -> getline -> shell -> exec
                     (ReadSyscall)   (Shell)           |
                  -> debug_loop (Debugger)             v
    printf -> syscall_write -> term_putchar     check_mod, unmap_lower_half,
    (Printf)                   (Terminal)       execute_mod (Loader)
    malloc -> mmap (Heap) ----------------------------> vm_map, vm_protect (Paging)

The connection between two parts is a call in every case but one, the ring,
which the interrupt handler shares with whoever calls `kgetc`.

### What is hard here

* *Interleaving.*  A key may interrupt `kgetc` between any two of its stores,
  and the handler makes three stores of its own.
* *Nested contexts.*  A key arrives in the boot code, in a program, in its
  system call; `exec` and `exit` abandon the contexts below them.
* *State left behind.*  Frames come back as tables, pages as other programs'
  pages, characters typed ahead as another program's input, and the processor's
  cached translations outlive the tables they came from.
* *Boundaries.*  A full row, a full ring, a signed count against an unsigned
  length, a part of a segment at the end of a page, `strlen` that counts the NUL.
* *Partial failure.*  Memory may run out between two levels of a walk; an exec
  may fail after the name has been copied.

The hazards in `PROJECT.json` list each of these at its line, with the
properties that guard it or the reason why none does.

## Modules and code

Names of variables and operations are the source's where TLA+ allows it.
Every module that models code has a block "Mutants", which nothing refers to:
each is a plausible mistake in one definition that makes a property fail.

| module | models | actions and the code they stand for |
|---|---|---|
| `KeyRing` | `pic.c` ring | `write_char` is the handler's whole effect; `KgetcSpin`, `KgetcLoad`, `KgetcClear`, `KgetcAdvance`, `KgetcCount` are the accesses of `kgetc` in order |
| `KeyQueue` | what the ring promises (abstract) | `Accept`, `Refuse`, `Take`, `Release`, `Return` |
| `Keyboard` | `shift`, `is_shift`, `irq1_handler` | `Press`, `Repeat`, `Release` are the keyboard (external); `irq1_handler` the handler |
| `Interrupts` | descriptors, gates, exceptions, controller, flag, contexts, and the ring | one action per step of the boot code, per entry to and exit from a handler, and per store of `write_char`; `SoftwareInt` is a program's `int n`, for every *n*; `Kgetc` is a step of `KeyRing`; `Deliver`, `Key`, `Load`, `Tick` are the hardware |
| `Paging` | `paging.c` | one action per iteration and outcome of each loop: `Map*`, `Protect*`, `Unmap*`, `L4*`/`L3*`/`L2*` of `unmap_lower_half`, `InitList*`; the mmap system call is a caller |
| `AddrSpace` | what callers of `paging.c` get (abstract), less than `paging.h` promises | a request is served in one step; `OutOfMemory` and `UnmapNothing` are where the promise is broken |
| `Loader` | `proc.c`, exec, exit, mmap | `StartSegment`, `MapChunk`, `CopyUnit`, `ProtectChunk` are the turns of the loop; `CheckMod`, `UnmapLowerHalf`, `Start` what is around it |
| `ReadSyscall` | `syscall_read` | `Refuse`, `Call`, `Take`, `Finish` |
| `Transcript`, `Terminal` | `term.c` with `memcpy` | `Return`, `Backspace`, `Place`, `CopyCell`, `CopyDone`, `ClearLastRow`, `Write`; `Transcript` says what a page of text looks like after a character, without a screen |
| `Heap` | `malloc`, mmap | `MallocHere`, `MallocMore`, `ReplaceHeap`, which the programs of `Shell` take |
| `Shell`, which extends `Heap` | `shell.c`, `getline`, `strlen`, exec's copy and comparison of names, `init.c`, programs like `echo.c` | `Prompt` to `ExecFound`, a step per statement that touches the line; `InitExecs`; `ProgramMallocs`, `ProgramReads`, `my_exit` |
| `Debugger` | `debug.c`, `words` | the line, the command, the two ways of reading an address, the dumps of memory |
| `Printf` | `kprintf`, `printf` | a step per character of the format and per digit of a number |

Three pairs are refinements, checked and proved.  `KeyRing` implements `KeyQueue`
(`QueueSpec`).  `Interrupts`, the whole machine, implements `KeyRing` (`RingSpec`): there
the handler makes its three stores one at a time, and the mapping counts those
that have been made as all; so what is proved of `KeyRing`, whose handler is
one step, is true of the ring in the machine.  `Paging` implements
`AddrSpace` (`SpaceSpec`; the mapping is the walk of the tables, so the four
levels, the free list and the loops disappear).  `AddrSpace` describes the code, not the
header: `vm_map` without memory never returns where `paging.h:52` promises false, and
`vm_unmap` of an address that is not mapped answers true where `paging.h:60` promises
false.  Each is an action of its own in `AddrSpace`, and a row of the
[divergences](#divergences-seen).  The other modules rest on
these: `Shell` takes the ring as a bounded queue, `Loader` and `Heap` take what
`AddrSpace` says of mapping and of unmapping the lower half.

## Runs, bounds and what they show

| run | bounds | distinct states | shows |
|---|---|---|---|
| `key_ring` | 3 slots, 3 characters (one NUL) | 5.0 k | `TypeOK`; `NeverOverfull`, `AvailCounts`, `RingMatches` at every point of `kgetc`; `ReaderUnblocks`; `QueueSpec` |
| `key_ring_drop` | the same | | **violation** of `DropOnlyWhenFull` |
| `paging` | tables of 3 words, 4 levels, 6 usable frames, 4 addresses, 2 permissions | 301 k | `FreeListIntact`, `TablesLive`, `OneOwner`, `NoTableLost`, `TlbCoherent`, `HeapMapped`, `KernelHalfKept`, `SpaceSpec` |
| `terminal` | 3 × 3 screen, 5 rows printed, 2 characters and `\r`, `\b`, `\n` | 722 k | `ScreenShows`, `CursorFollows` |
| `read` | lengths up to 3, 3 characters (one `\b`) | 11 k | `BufferIsEdited`, `FullOrGivenUp`, `OnlyTheBuffer` |
| `interrupts` | a ring of 2 slots, 2 characters (one NUL), a code in the port and one behind it; `int n` for each of 256 vectors | 293 k | `NoStray`, `WaitsListening`, `HandlerAlone`, `PortAnnounced`, `KeyHandled`, `RingSpec`, `ReaderServed` |
| `keyboard` | two shifts, a letter, a digit, `[`, a cursor key, print screen; 5 codes on their way | 4.87 M | `TypedAsMeant` |
| `shell` | lines of up to 4, 2 typed ahead, 4 characters, 3 modules, a copy of 4 bytes; 3 regions of 12 bytes, 5 blocks | 109 k | `TypeOK`, `NameIsTyped`, `StartsWhatIsTyped`, `BlocksApart`, `ReturnAnswered` |
| `loader` | two programs of 48 layouts each, with and without CR0.WP | 427 k | `CopesOrFaults`, `ProgramWhole`, `NothingLeft` |
| `loader_cross` | the same | | **violation** of `EveryProgramLoads` |
| `debugger` | lines of up to 7, three words, binary addresses of up to 3 digits, 7 bytes of memory | 5.75 M | `AddressShown`, `OnlyTheLineSmashes` |
| `printf` | all formats of up to 4 of 7 characters; 16 words, 8 ints, 4 shorts, bases 3 and 4 | 93 k | `DigitsFit`, `PrintsAsMeant`, `Returns` |

Why these bounds are enough to be worth something:

* *Ring.*  Three slots is the smallest ring with an empty, a partly full and a
  full state and a head that wraps over a slot that is neither; NUL is among the
  characters, so a cleared slot and a typed NUL can be confused.  For all other
  lengths there is the proof.
* *Paging.*  Three words a table leave room for a present entry, an absent one
  and a large page in one table; six frames are enough for every table of two
  addresses that share some levels, and few enough that memory runs out between
  any two levels.  Four addresses share no, one and three levels.  The words of
  usable frames look present at first, so a table that is not cleared shows.
  The invariants about frames, translations and the heap hold at every iteration of
  `vm_map`, `vm_protect` and `vm_unmap`, and in the state in which memory ran out in the
  middle of a walk; only `init_list` and `unmap_lower_half`, which take tables apart,
  are exempt while they run (`Booted`).
* *Terminal.*  A 3 × 3 screen has a first, a middle and a last row and column.
  Five rows make it scroll twice; no state tells a third scroll from the second.
* *Read.*  Length 3 has `\b` at the start, in the middle and at the end of the
  buffer, and twice in succession.  For longer reads there is the proof.
* *Interrupts.*  One code waits behind the one in the port, so a key arrives
  while its handler runs; a ring of two slots is empty, partly full, full and
  wrapped, and makes the handler drop characters.  Every exception but those that
  no instruction here raises happens in every context it can happen in, and a
  program may execute `int n` for any vector.
* *Keyboard.*  Five codes hold both shifts and a letter between them in every
  order, with the prefix of a cursor key, and the four codes of print screen
  with a letter behind them.  `[` stands for the four symbol keys whose characters are
  above 80, so that shift changes them too; the proof is about all four.
* *Shell.*  A line of four holds a name of two letters and its newline, a name
  that is too long for exec's copy, and one too long for the line.  NUL may be
  anywhere.  Names are such that one begins another.  Programs ask for every
  size from nothing to half a page (12 bytes, of a quantum of 6), up to the
  second page of the heap; two lines fill a region.
* *Loader.*  A chunk of 2 units and a page of 4: the sizes make parts end before, at
  and behind the end of a chunk and of a page.  The layouts follow the linker
  scripts: text from a page's start, read-only data a page behind its end, data
  a page further.
* *Debugger.*  Commands of no or one character leave room in a line of seven for
  `print`, `string` and the largest address that `nums` has room for, for `print` and an
  address of full length, which overruns it, for erasing, and for overrunning the buffer and
  the words.  Memory has strings of lengths 0 to 2, and some that end where memory does.
* *Printf.*  The widths are such that the largest number fills its buffer
  exactly, as 2^64 - 1 does 21 bytes in base 10, and every value of each width
  is printed.  Four characters hold two conversions, or one between others.

Names of the bounds: `MaxRows`, `MaxN`, `MaxKeys`, `MaxCodes`, `Cap`
(254 in the code), `COPY` (20), `Capacity`, `MaxUnit`, `MaxHeap`, `MaxChunks`, `MaxBlocks`,
`MCUsableFrames`; the debugger's one bound without a name, on `\b` below the
start of the line, is at `Backspace`.

The two violations:

* `key_ring_drop`: the code says that a character is dropped when the ring is
  "Maxed out" (`pic.c:67`).  A key that arrives when `kgetc` has taken the only
  character and moved `readhead` but not yet decremented `avail` finds equal
  heads and a count of one, and is dropped although the ring is empty.
  `QueueSpec` shows that this is the only such case.
* `loader_cross`: `self_evaluation.txt:30` says that the loader loads the
  segments of an ELF file.  Each turn of its loop maps the page of its first byte
  and copies up to 2048 bytes; a segment that does not start at a multiple of
  2048 has a turn that reaches into a page that may not be mapped.
  `CopesOrFaults` says that only layouts with such a turn, or (if the kernel
  respects read-only pages) with a read-only page filled in two turns, fault.

## Fairness and deadlock

Fairness is assumed only for what cannot stop of itself:

* `KeyRing`: weak fairness of the steps of a `kgetc` that has begun.  Interrupt
  handlers return, so the interrupted code goes on.  Not that keys are pressed,
  nor that `kgetc` is called.
* `Shell`: weak fairness of the shell's steps, as the only program.  Not that
  anybody types, nor that another program ever exits.
* `Interrupts`: weak fairness of the handler's steps, of the boot code, of the
  return from a debug exception and of the keyboard controller handing over
  what it has, all of which nothing but themselves can delay.  *Strong* fairness
  of the delivery of a request, which a gate that clears the flag disables over and
  over while a program keeps causing exceptions (the processor looks after every
  `iretq`), and of `kgetc`'s next step, which every key disables while its handler
  runs (codes come at the pace of a keyboard, milliseconds apart).  Not of
  programs, of the call of `kgetc`, or of the end of the debugger.
* `Printf`: weak fairness; nothing waits in it.

`CHECK_DEADLOCK FALSE` stands in six configurations, where the machine may
stop: `paging` (out of memory: halted), `shell` (a page fault halts, exec's copy is overrun),
`loader` and `loader_cross` (a fault), `debugger` (smashed stack, unmapped
address), `printf` (it is over when it has returned).  All other runs check that there is no deadlock.

## What is proved

`KeyRingProofs`, for every `BUFFER_LEN` from 1 to 65534 and every set of
characters that contains NUL (`LenAssumption`, `CharAssumption`):

| theorem | states |
|---|---|
| `RingInvariant` | the inductive invariant `Inv == TypeOK /\ NeverOverfull /\ AvailCounts /\ RingMatches` always holds |
| `RingTyped`, `RingNeverOverfull`, `RingAvailCounts`, `RingMatchesQueue` | its four parts, each an invariant that TLC checks |
| `RingImplementsQueue` | `Spec => QueueSpec`, the refinement |

None of the four is inductive alone.  The full test of `write_char` compares
heads and count; it refuses the character that would overrun only because the
count agrees with the heads (`AvailCounts`), the heads delimit the slots in use
only because there are never more of these than slots (`NeverOverfull`), and the
16-bit count does not wrap only because of both.  The length is below 65535
because `avail` counts the character being taken as well.  The lemmas are about
`Ahead`, the slot *k* places further round the ring.

`InputProofs`, first part, for every `MaxN` and character set with `\b` in it:
`ReadBuffers`, `ReadFullOrGivenUp` and `ReadOnlyTheBuffer`, which are `BufferIsEdited`,
`FullOrGivenUp` and `OnlyTheBuffer`.  The invariant `IInv` adds to the types that
the bytes counted are the line (`InBuffer`), that a count of -1 means an empty
line and a `\b` in the first byte (`GivenUp`), and that a call that has ended
has left its loop (`Settled`); without `GivenUp` the second way of ending a call
in `FullOrGivenUp` cannot be shown, and without `Settled` nothing of the last
call is known once it has returned.

`InterruptsProofs`, for every `BUFFER_LEN`, character set and stream of codes:

| theorem | states |
|---|---|
| `MachineInvariant` | the inductive invariant |
| `MachineTyped` | types; contexts nest at most three deep |
| `MachineNoStray`, `MachineWaitsListening`, `MachineHandlerAlone`, `MachinePortAnnounced` | the four invariants that TLC checks |
| `MachineImplementsRing` | `Spec => RingSpec`: the machine implements `KeyRing` |
| `MachineRingMatches` | `RingMatches` and the other parts of `KeyRing`'s invariant, in the machine |

`MachineNoStray` is about `int n` of programs too: the gates have dpl 3, so it never ends in
a general protection fault at a gate that is present, and at the vectors whose handlers take
an error code, and only there, the handler takes one that nobody pushed (`"misread"`).

The invariant says which stacks of contexts there are, which interrupt flag each
place runs with, how far the tables and controllers are set up when the boot code
has got to some place, that a code in the port has its request, and that the room
that `write_char` found is still there when it stores.  `NoStray` cannot be
inductive: whether a gate is there depends on where the boot code is.
`MachineRingMatches` is the proof of `KeyRing`, not done again but instantiated
and carried over by the refinement.

`TerminalProofs`, for a screen of any size and any characters that contain the
control characters: `TerminalInvariant`, `TerminalTyped`, `TerminalShows`
(`ScreenShows`) and `TerminalCursorFollows` (`CursorFollows`).  The invariant says
of a half-finished scroll what each cell shows: those that the copy has passed
what the page shows one row further down, the others what they showed before.  It needs
no induction over the transcript, because `Transcript` is a state of its own that
moves with the screen.

`PagingProofs`, for tables of any number of words, any frames, addresses,
permissions, memory map and whatever is in the frames nobody cleared:

| theorem | states |
|---|---|
| `PagingInvariant` | the inductive invariant `IInv` |
| `PagingFreeList`, `PagingTablesLive`, `PagingOneOwner`, `PagingNoTableLost` | the four invariants about frames that TLC checks |
| `PagingKernelHalfKept` | `KernelHalfKept`, the action property |

`IInv` says that there are levels, one for each frame, for which the tables of the lower half
are a tree (`Tree`): 4 for the root, 3 to 1 for tables, 0 for all else.  In the middle of
`unmap_lower_half` the tree is not what a walk from the root finds: the root's
word is cleared before its tables are freed, and the words of a table that the loops have
been through are still present.  `Held` says which words hold a table all the same,
from the loops' locals.  `OneOwner` and `NoTableLost`, which speak of what a walk
finds, follow at all other times, in the middle of a `vm_map` and after it has run out of
memory too, because then the two agree (`TableLevels`).  The
lemmas are about trees: a leaf let go (`TreeRemove`), a leaf added (`TreeAdd`), and
words that are not in it (`TreeSame`).  `BootAssumption` is about the bootloader:
its tables of the lower half are a tree, outside the usable memory and the kernel's
tables.  Without it `unmap_lower_half` would free a frame twice.

The second part of `PagingProofs` goes on from the frames to what a walk of the
tables translates addresses to, for the same constants:

| theorem | states |
|---|---|
| `PagingSpaceInvariant` | the second inductive invariant, which rests on `IInv` |
| `PagingTyped` | `TypeOK` |
| `PagingTlbCoherent`, `PagingHeapMapped` | the two invariants about translations that TLC checks |
| `PagingImplementsSpace` | `Spec => SpaceSpec`: `Paging` implements `AddrSpace` |

Its parts: a call that is under way stands at a table of its address's own
path from the root (`OnPath`); the words above a page's restrict nothing, so that its
permissions are those of its own word (`OpenOK`); the processor caches nothing that the tables do not say (`TlbOK`), but while
`unmap_lower_half` runs, whose write of `cr3` comes last; the heap below `v_heap`
is mapped as mmap mapped it (`HeapOK`, `MmapOK`).  The lemmas are about
walks: the words a walk reads are those of the tables of its level (`WayTables`,
`ReadsWhere`), a word that no walk of another address reads changes that
address's translation only (`SameWay`, `PageWay`).  So a table that a walk of
`vm_map` hangs in, cleared, translates nothing, and is a stutter of `AddrSpace`.
Two assumptions more are needed here.  `BootAssumption` says also that no word of
the root's lower half forbids execution, because `vm_map` leaves that bit of a present
word of an upper level alone (`paging.c:237-277`), and `AddrAssumption` that no program is linked
to addresses of the mmap heap.  Without the first a page could be mapped for execution and not be
executable; without the second mmap would replace a segment's page.

`ShellProofs`, for lines, pages, quanta and sets of modules of any size:

| theorem | states |
|---|---|
| `ShellInvariant` | the inductive invariant `LineInv` of the line |
| `ShellTyped`, `ShellNameIsTyped` | `TypeOK`, `NameIsTyped` |
| `ShellStartsWhatIsTyped` | `StartsWhatIsTyped`, the action property |
| `HeapBlocksApart` | `BlocksApart` of `Heap`, in the programs of `Shell` |

`LineInv` says at each place of `getline` and of the shell's loop that the line holds
what was taken from the ring, with NUL behind.  `strlen` and `my_strcmp` are the first
place of some kind; that there is one, the lemmas `StrlenIs` and `StrcmpIs`
take from the line's NUL.  `LineAssumption` is
that the line with its NUL fits into a page, as `my_getline`'s 255 bytes do: `malloc`
asks mmap for as much as it needs, and mmap maps one page whatever it is asked for
(`idt.c:421-427`), so a larger block would not be mapped.  For the same reason `HeapBlocksApart`
has the hypothesis `SmallRequests`, that the programs ask for no more than a page at a
time; the only caller of `malloc` in the repository is the line's.  The heap's
invariant, `HeapInv`, is that what `malloc` has left ends below `v_heap`, in
mapped pages, and that the blocks lie one behind the other below it.

`InputProofs`, second part, for any of the modelled keys and any number of codes on their way:
`KeyboardInvariant` and `KeyboardTypedAsMeant` (`TypedAsMeant`).  What the
handler will know when it comes to a code is settled when the code is sent.  The
invariant says that states exist, one before each code on the wire and one
behind the last, that lead from what the handler knows now to what the keyboard
knows now (`Foreseen`), and that every code that is a character finds the one owed
for it: its character with or without shift as in the state there and, while the shift is a
pretended one, in any case one of the key's two (`KeyOwes`).  The states are a sequence that exists,
not one that is computed, so that no induction over the wire is needed.

`LoaderProofs`, for any modules, places, sizes and permissions of segments, either `CR0.WP`,
and chunks of any size of which two make a page:

| theorem | states |
|---|---|
| `LoaderInvariant` | the inductive invariant `LoaderInv` |
| `LoaderCopes`, `LoaderProgramWhole`, `LoaderNothingLeft` | `CopesOrFaults`, `ProgramWhole`, `NothingLeft` |

`LoaderInv` follows `execute_mod` through its three loops.  Units that it has passed hold
their file and are on pages with the segment's permissions; units that it is filling hold
their file and are on the page opened for them (`FilledOK`); that page can be
written, unless a turn that is over has closed it (`OpenOK`); and where programs are linked,
only pages are mapped that the loop has come to (`TheirsOnly`).  From the last it
follows that a turn that reaches into the next page faults there and fills nothing that it
should not, so that `ProgramWhole` needs no hypothesis that the loader can cope with
the program.  `LayoutsAssumption` is that no two segments share a page, as the
linker scripts see to (`. += CONSTANT(MAXPAGESIZE)`): `vm_map` leaves a page
that is there alone and the last `vm_protect` of a page wins (`proc.c:72-82`), so
of two segments on a page one would have the permissions of the other.
`AddressAssumption` is that programs are linked apart from the heap, the stack and the
test pages, as 0x500000000 is.

`OutputProofs`, for formats, lines and words of any length, integers and buffers of any
width, and any memory:

| theorem | states |
|---|---|
| `DigitsAlwaysFit` | `DigitsFit` of `Printf` |
| `AlwaysPrintsAsMeant` | `PrintsAsMeant`: what is printed is what a reading of the whole format says |
| `DebuggerOnlyTheLineSmashes` | `OnlyTheLineSmashes` of `Debugger`: an overrun is always the line's, and a full address is one |
| `DebuggerAddressShown` | `AddressShown` of `Debugger`, the zero that a short prompted address gets included |

`DigitsFit` needs `NumberInv`: what is left of a number is below the base to the power of
the places that are left.  `NumbersAssumption` says what makes that true at the
start, that 64-bit values have no more decimal digits than the buffer has room
for (`Power` is the table of the powers of ten), and that the widths divide each other, as
powers of two do; a hexadecimal number has no more digits than a decimal one.

`PrintsAsMeant` compares what `printf` has printed with `Reading`, which reads the format in pairs.
The two are never at the same place for long: after a `%` the
code has read half of a pair, and in the loop of a number it has printed nothing of it.
`Follows`, the heart of `MeantInv`, says that the reading comes to the place where
`printf` is, less an open `%`, with what has been printed and what is due: the
digits stored behind `curr` and, before them, the numeral of what is left (`Due`).  The arguments are
taken one at a time while the reading has all of them, so `Follows` is about
every list of arguments that begins with those taken (`Continues`).  `Numeral` chooses the digits that
stand for a number; that there are some, and only one such sequence without
leading zeros, are the lemmas `NumeralExists` and `OneNumeral`.

`EditInv` says that the debugger's buffer starts with the line as edited, and has a NUL behind
it when it is taken for a command, so that what was erased is not read again (`LineIs`).
A smash is traced to the word that was taken for an address (`ConvertedKeeps`, `CommandKeeps`).
`ShownInv` adds that the array of digits holds what the keys typed at the prompt count, and
zeros behind (`Prompted`), the first of which `get_addr` takes for a digit.
That an address is shown as its digits are is `HexDigitsAre`: what
`kprint_x` has left after *k* divisions is what all but the last *k* digits stand for
(`LeftOfAddress`), and that is zero as soon as only leading zeros are
left (`ZerosBefore`, `WorthFrom`).  `StringAtIs` finds the place where `print_string` stops: memory is
finite, so a string without NUL comes to an address that cannot be read.

These proofs need induction on numbers, over tables that are filled from their
beginning (the sums, `Left`, `WordStart`, `Reading`).  The library's
induction theorems take a predicate as a parameter, which no backend
instantiates.  `EveryNumber` says the same of sets (a set that contains 0 and,
with a number, the next one contains all of `Nat`) and follows from the library's
theorem that every nonempty set of numbers has a minimal element;
`TableExists` gives from it that a function defined by recursion on `0 .. n`
exists, without which nothing could be said of one.

Assumptions on constants are named and stand in the module that declares the
constant; TLC evaluates each for the values of the runs.

Every invariant and every action property that a run checks is proved, and so are
the three refinements.  Only model-checked: liveness (`ReaderUnblocks`, `ReaderServed`,
`KeyHandled`, `ReturnAnswered`, `Returns`), which the prover does not treat under
fairness.

## Modelling choices

* *Order of `kgetc`'s accesses.*  `pic.c:89-90` writes `readhead++` and then
  `readhead = readhead % BUFFER_LEN`.  `buffer` and the heads are not `volatile`;
  `avail` is.  The modelled steps are those of the `-O2` build that
  `kernel/Makefile` asks for: the slot is cleared, `readhead` is stored once,
  reduced, and `avail--` is one read-modify-write instruction, which an interrupt
  on the same processor cannot split.  A build that stored `readhead` twice
  would have one more state, a head of 500, that a full test could see.
* *One processor.*  The kernel starts no other.  Interrupt 33 has an interrupt
  gate, so `irq1_handler`, and in it `write_char`, is one step of `KeyRing`;
  `Interrupts`, with the handler's stores one at a time, checks the premise
  (`HandlerAlone`, `RingSpec`).
* *Software interrupts.*  A program's `int n` is `SoftwareInt(n)`, the system call among
  them.  The gates have dpl 3 (`idt.c:512-513`), so all that are present let it in.  The handlers of
  vectors 8, 10 to 15, 17, 21, 29 and 30 then take the return address for an error code; they print and
  halt, and the model halts there (`"misread"`).  `int 33` enters `irq1_handler` as a key does: it
  reads the port, may write a character, and acknowledges nothing; `PortAnnounced`, `KeyHandled` and
  `RingSpec` hold in spite of it.  The vectors without a gate have dpl 0 and raise exception 13.
* *Exceptions.*  Every one but 2, 9 and 15 happens to a program (3 and 4 as its own `int`), as only a program's
  instructions are unknown; to the kernel, only the page fault, where it follows
  pointers of programs and of the debugger's user.  Of the handlers only that of
  the debug exception returns.  The bases and limits of descriptors are left out,
  but for the table's size, which must reach each of them.
* *Direct map.*  `ptov` and `+ hhdm` are identities: a frame is a value, and its
  address and arithmetic on it are left out.
* *Bootloader's tables.*  Large pages occur only there.  The lower half shares no
  table with the upper half; were it otherwise, `unmap_lower_half` would free
  kernel tables, so this is an assumption on the bootloader.  The boot frames are
  outside the memory map's usable regions.
* *Cached translations.*  The processor may cache any translation that is there,
  at any time; `invlpg` drops one, writing `cr3` all.
* *Page 0.*  The bootloader may map it, but `pmem_alloc` never hands it out:
  `AddrSpace` knows the frames that may be mapped at first by a name of their own (`BootFrame`).
* *`vm_unmap` has no caller.*  It is called in the model for any address that has
  a level 1 table, the only ones for which its walk stays in tables.
* *Terminal.*  Colours are left out, the cursor's port writes are one value, and the scroll's
  `memcpy` is modelled cell by cell because its ranges overlap.
* *External parts.*  The 8259 is edge-triggered, delivers by priority, and
  forgets requests when initialized; the 8042 holds one code until it is read.
  A keyboard sends make, break and repeat codes, some behind a prefix; print screen
  pretends to press and release the left shift key if no shift key is down.  Between
  such a pretence and the next true use of the left shift key (`faked`) `TypedAsMeant` allows
  either of the key's two characters, and no third.  The keyboard is the one that emulators have;
  some real ones also pretend to release shift around a cursor key.  Pause, whose six codes the
  handler takes for those of other keys, is not among the keys.
* *CR0.WP.*  Whether the kernel must respect read-only pages is up to the
  bootloader: a choice in `Loader`'s initial states.
* *`getline` without a return.*  A full line runs off the end of the function; the caller
  gets the line or garbage, either way.
* *Arrays overrun* in the debugger, and exec's copy of a name.  The write may do
  anything; the model stops in `"smashed"`.  `OnlyTheLineSmashes` says which lines do
  it, those with a full address of sixteen digits among them, and `StartsWhatIsTyped` that no name two bytes shorter than the copy does.
* *Programs' writes* to their own memory are left out of `Loader`; `Heap` takes
  for granted that variables without a value start as zero (see `.bss` below) and
  that there is memory.
* *Formats.*  An argument is any value of its type; `va_arg` of a `char` is what `clang`
  makes of it, the low byte of the argument.

## Divergences seen

Two disagreements have runs (above).  These were met while modelling; the
models do what the code does, and none of them has a run of its own:

| code | what it does | what is said of it |
|---|---|---|
| `idt.c:372` | a `\b` on an empty line makes the count -1, which is larger than any unsigned length: the read ends and returns `n` although the buffer holds a `\b` and nothing else.  `FullOrGivenUp` has both cases | `test.c:11`: "Now we'll read in your next five characters" |
| `paging.c:309-323` | `vm_unmap` returns true always, and goes through entries that are not present (`UnmapNothing`) | `paging.h:60`: "true if successful, or false if anything goes wrong" |
| `paging.c:259` | without memory, `vm_map` clears the page at address 0, a fault, and does not return (`OutOfMemory`); `pmem_alloc` itself returns the 0 that `paging.h:35` promises | `paging.h:52`: "or false if there was an error" |
| `pic.c:38` | the prefix `0xE0` is dropped: codes behind it are read as keys without prefix, so print screen's simulated left shift makes a letter upper-case | `self_evaluation.txt:6`: "Shift + letters works just fine" |
| `idt.c:349-350` | 32 is taken from every character above 80 while shift is down: `[`, `]`, `` ` `` and `\` type `;`, `=`, `@` and `<` (`Shifted`) | `self_evaluation.txt:5`: shift and symbols is "not implemented", so the symbol itself would be expected |
| `idt.c:512-513` | all gates have dpl 3: `int 8`, `int 13`, `int 14` of a program enter handlers that take an error code nobody pushed, and `int 33` the keyboard's handler.  `NoStray` has both (`SoftwareInt`) | `idt.c:486`: "dpl=0" |
| `shell.c:18` | in a line with a NUL, `strlen - 2` is not the newline; if the line starts with one, it is -1 | `shell.c:17`: "strip newline" |
| `myio.c:37-38` | a line of 254 characters is terminated, but not returned | `myio.c:19`: "Cap line length at 255" |
| `proc.c:52` | `p_memsz` bytes are copied from the file, not `p_filesz`: `.bss` holds what follows in the file | `mem.c:43-44` counts on `bump` and `space_remaining` being zero |
| `idt.c:310-328` | the bits are taken with the masks 3, 4, 5, 6, 7 and 15 and compared with 1: "CPL=3" is printed for a protection violation by a read, whoever read, and for nothing else; masks 4 and 6 never give 1 | the comments name one bit each, `idt.c:309` "bit 3: user" |
| `kprint.c:123` | the kernel's `%x` shows the low 16 bits: the modules' addresses of `boot.c:84` and the 64-bit values of other calls are cut | `boot.c:84` prints them as a range `0x%x-0x%x` |
| `idt.c:160-162` | exceptions 10 to 13 name the table from two bits of the error code: the tests never name the GDT, and name the IDT for the LDT as well | |
| `debug.c:80-88` | `get_addr` takes the place behind the last digit for the last: an address of fewer than 16 digits comes out sixteen times as large, which `AddressShown` states as what happens | the prompt, `debug.c:58`; `README.md:25-26` |
| `debug.c:29-36` | `conv_addr` stores a value for the NUL as well: a full address of 16 digits overruns `nums`, which `OnlyTheLineSmashes` states | `README.md:24`: "`print [address]`, where the address is preceded by `0x`"; `%p` prints such addresses |
| `debug.c:180-195` | nothing stops a line at 70 characters, a command at five words, or `\b` at the start | `README.md` admits that `\b` at the start of a line "can cause some errors" |
| `mem.c:54`, `idt.c:421` | mmap ignores the size: a request over 2048 bytes gets 2048, and a later region overlaps it | `mem.c` believes it gets `rounded_up` |
| `mystring.c:38-46` | `strcpy` puts the terminator one byte too far | harmless in exec, whose copy is zeroed |
| `idt.c:433` | the copy of a program's name has 20 bytes and no bound; the shell's lines have up to 254 characters.  With `strcpy`'s habit above, a name of 19 characters is too long already (`StartsWhatIsTyped`) | |
| `pic.c:105` | a key pressed before `pic_init` may stay in the port with its request forgotten; the keyboard says nothing more until somebody reads it.  `PortAnnounced` leaves this case out by `early` | |

## What is not modelled

* *The page fault report* (`idt.c:301-335`): a pure function of the error code,
  after which the machine halts.  `Interrupts` has the fault and the halt; what
  the function prints for which bits is in the table above, found by reading.
* *The boot code's reports* (the bootloader's tags, memory map and modules) and what
  follows `execute_mod("init")`, which does not return.  The order of its
  calls is in `Interrupts`, `Paging` and `Loader`.
* *`lookup_symbol` and `init_tables`* (`debug.c:100-160`): the second has no caller (its
  call is commented out), so the first searches an empty table.
* *`hello` and `test`*: straight lines of calls, each of which has its module.
* *`syscall_write`*: it hands a buffer's characters to `term_putchar` one by one and has no
  state of its own; `Terminal` takes any character at any time.
* *The arithmetic on physical addresses*: a frame is a value.  `4096 * j`
  (`paging.c:195`) is an `int`, which a usable region of 2 GB or more overflows.
* *System call stubs, build files.*

## Plan

Done: inventory, every component that keeps state, the three refinements, the
composition of the machine's interrupts with the ring and of the shell with
programs and their heap; the proofs of the three refinements and of every invariant
and action property of the runs.

Next: *`ReadSyscall` over `KeyRing`*, so that a read's buffer is related to what was
typed, and with it the ring's `kgetc` as the debugger's input.

The abstract specifications worth having beyond the three that exist are a *line
discipline* (what the typist sees, what the program gets) over `ReadSyscall`,
`Shell` and `Terminal`, and a *process image* (one program, its segments, its heap)
over `Loader`, `Paging` and `Heap`.
