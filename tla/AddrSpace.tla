----------------------------- MODULE AddrSpace -----------------------------
(***************************************************************************)
(* What the callers of kernel/paging.c get, without its tables and free    *)
(* lists: each address of the lower half is unmapped or is mapped to a     *)
(* frame with a set of permissions, vm_map gives an unmapped address a     *)
(* frame that nobody was ever given before, and unmap_lower_half leaves    *)
(* nothing mapped.                                                         *)
(*                                                                         *)
(* This is less than kernel/paging.h promises, in two places.  "false if   *)
(* there was an error" (paging.h:52) is not what vm_map does when there is *)
(* no memory: it never returns (OutOfMemory).  And vm_unmap never answers  *)
(* "false if anything goes wrong" (paging.h:60): of an address that is not *)
(* mapped it says that it was successful (UnmapNothing).                   *)
(*                                                                         *)
(* A request is served in one step, except that unmap_lower_half lets      *)
(* mappings go a few at a time.                                            *)
(***************************************************************************)
CONSTANTS
  Addr,       \* page-aligned virtual addresses
  Frame,      \* physical page frames
  BootFrame,  \* frames that the bootloader may map, page 0 among them
  Perm,       \* [user, writable, executable : BOOLEAN]
  Unmapped    \* the translation of an address that has none

VARIABLES
  space,      \* address -> its translation
  given,      \* frames that vm_map ever put behind an address
  req,        \* the request being served
  result      \* what the last request returned

vars == <<space, given, req, result>>

Translation == [frame : BootFrame, user : BOOLEAN, writable : BOOLEAN,
                executable : BOOLEAN]

Request == [fn : {"vm_map", "vm_protect"}, va : Addr, perm : Perm]
             \cup [fn : {"vm_unmap"}, va : Addr]
             \cup [fn : {"unmap_lower_half"}]

NoRequest == [fn |-> "none"]
Halted == [fn |-> "halted"]

IsMapped(a) == space[a] # Unmapped

Grant(f, p) == [frame |-> f, user |-> p.user, writable |-> p.writable,
                executable |-> p.executable]

\* The bootloader's own mappings are in place when the kernel starts, and the
\* first thing that happens to the lower half is that it is unmapped.
Init ==
  /\ space \in [Addr -> Translation \cup {Unmapped}]
  /\ given = {}
  /\ req = [fn |-> "unmap_lower_half"]
  /\ result = TRUE

Ask ==
  /\ req = NoRequest
  /\ req' \in Request
  /\ UNCHANGED <<space, given, result>>

Answer(r) == req' = NoRequest /\ result' = r

Map ==
  /\ req.fn = "vm_map"
  /\ ~IsMapped(req.va)
  /\ \E f \in Frame \ given :
       /\ space' = [space EXCEPT ![req.va] = Grant(f, req.perm)]
       /\ given' = given \cup {f}
  /\ Answer(TRUE)

AlreadyMapped ==
  /\ req.fn = "vm_map"
  /\ IsMapped(req.va)
  /\ Answer(FALSE)
  /\ UNCHANGED <<space, given>>

\* There is no memory left for the page or for the tables that lead to it:
\* pmem_alloc's 0 is taken for a page and written to, which halts the machine
\* (not the error that paging.h promises).
OutOfMemory ==
  /\ req.fn = "vm_map"
  /\ ~IsMapped(req.va)
  /\ req' = Halted
  /\ UNCHANGED <<space, given, result>>

Protect ==
  /\ req.fn = "vm_protect"
  /\ IsMapped(req.va)
  /\ space' = [space EXCEPT ![req.va] = Grant(@.frame, req.perm)]
  /\ Answer(TRUE)
  /\ UNCHANGED given

NothingToProtect ==
  /\ req.fn = "vm_protect"
  /\ ~IsMapped(req.va)
  /\ Answer(FALSE)
  /\ UNCHANGED <<space, given>>

Unmap ==
  /\ req.fn = "vm_unmap"
  /\ IsMapped(req.va)
  /\ space' = [space EXCEPT ![req.va] = Unmapped]
  /\ Answer(TRUE)
  /\ UNCHANGED given

\* vm_unmap looks at nothing: here too it says that it was successful (not
\* the false that paging.h promises).
UnmapNothing ==
  /\ req.fn = "vm_unmap"
  /\ ~IsMapped(req.va)
  /\ Answer(TRUE)
  /\ UNCHANGED <<space, given>>

LetGo ==
  /\ req.fn = "unmap_lower_half"
  /\ \E S \in SUBSET Addr :
       space' = [a \in Addr |-> IF a \in S THEN Unmapped ELSE space[a]]
  /\ UNCHANGED <<given, req, result>>

AllGone ==
  /\ req.fn = "unmap_lower_half"
  /\ \A a \in Addr : ~IsMapped(a)
  /\ Answer(TRUE)
  /\ UNCHANGED <<space, given>>

Next ==
  \/ Ask
  \/ Map \/ AlreadyMapped \/ OutOfMemory
  \/ Protect \/ NothingToProtect
  \/ Unmap \/ UnmapNothing
  \/ LetGo \/ AllGone

Spec == Init /\ [][Next]_vars

=============================================================================
