------------------------------- MODULE MemLib -------------------------------
(***************************************************************************)
(* libmem/mem.c, the arena under every allocator: MAX_HEAP bytes from      *)
(* mem_init to mem_deinit, of which the first mem_brk are the heap.  Its   *)
(* state belongs to the allocator that calls it, so mem_sbrk is written as *)
(* a function of the break.  Addresses are offsets from mem_heap, which    *)
(* mmap aligns to a page.                                                  *)
(***************************************************************************)
EXTENDS Integers

CONSTANTS
  MAX_HEAP,   \* bytes of the arena
  INT_SPAN    \* number of values of a C int, 2^32 in the program

ASSUME MemLibAssumption ==
  /\ MAX_HEAP \in Nat \ {0}
  /\ INT_SPAN \in Nat \ {0} /\ INT_SPAN % 2 = 0

\* The conversion of a size_t argument to the int parameter of mem_sbrk.
AsInt(size) ==
  LET low == size % INT_SPAN
  IN  IF low >= INT_SPAN \div 2 THEN low - INT_SPAN ELSE low

\* The break moves by incr and the old one is returned, or nothing happens.
mem_sbrk(brk, size) ==
  LET incr == AsInt(size)
      fails == incr < 0 \/ brk + incr > MAX_HEAP
  IN  [ok |-> ~fails, brk |-> IF fails THEN brk ELSE brk + incr, at |-> brk]
=============================================================================
