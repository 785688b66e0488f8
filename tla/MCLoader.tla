------------------------------ MODULE MCLoader ------------------------------
(***************************************************************************)
(* Two modules, linked as the linker scripts of the programs link them: a  *)
(* null segment, the text from the start of a page, the read-only data a   *)
(* page further than its end and the data a page further again.  The sizes *)
(* are such that parts end at, before and behind the end of a page.        *)
(***************************************************************************)
EXTENDS Loader

Null ==
  [load |-> FALSE, vaddr |-> 0, offset |-> 0, filesz |-> 0, memsz |-> 0,
   read |-> FALSE, write |-> FALSE, exec |-> FALSE]

Segment(at, filesz, memsz, w, x) ==
  [load |-> TRUE, vaddr |-> at, offset |-> at + 100, filesz |-> filesz,
   memsz |-> memsz, read |-> TRUE, write |-> w, exec |-> x]

Linked(text, rodata, data, bss) ==
  LET at2 == text + PAGE
      at3 == at2 + rodata + PAGE
  IN  <<Null, Segment(0, text, text, FALSE, TRUE),
        Segment(at2, rodata, rodata, FALSE, FALSE),
        Segment(at3, data, data + bss, TRUE, FALSE)>>

MCLayouts ==
  {Linked(text, rodata, data, bss) :
     text \in {1, 2, 4, 5}, rodata \in {1, 2, 3}, data \in {1, 3}, bss \in {0, 1}}

=============================================================================
