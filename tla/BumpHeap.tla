------------------------------ MODULE BumpHeap ------------------------------
(***************************************************************************)
(* The bump allocator, memory_allocator/bumpAllocator/mm.c: a pointer that *)
(* only moves forward, a count of the bytes believed to be left, no        *)
(* freeing (mm_free is empty, so it is no action here).  Sizes are size_t: *)
(* the count wraps when more is taken from it than it holds.               *)
(***************************************************************************)
EXTENDS MemLib, Sequences

CONSTANTS
  PAGE_SIZE,
  SIZE_SPAN,    \* number of values of a size_t, 2^64 in the program
  BumpRequests, \* sizes the program asks for
  MaxBlocks     \* bound: blocks handed out in one behaviour

DWORD_SIZE == 16
NoHeap == -1

ASSUME BumpAssumption ==
  /\ PAGE_SIZE \in Nat \ {0} /\ PAGE_SIZE % DWORD_SIZE = 0 /\ PAGE_SIZE <= MAX_HEAP
  /\ PAGE_SIZE < SIZE_SPAN /\ 2 * PAGE_SIZE < INT_SPAN \div 2
  /\ SIZE_SPAN \in Nat \ {0} /\ BumpRequests \subseteq Nat /\ MaxBlocks \in Nat

VARIABLES
  heap_ptr,        \* where the next block starts, or NoHeap before mm_init
  remaining_heap,  \* the count of bytes left
  bump_brk,        \* end of the heap
  exited,          \* the process called exit(1)
  given,           \* blocks handed out, in order: where, asked for, taken
  extensions,      \* times the heap grew after mm_init
  abandoned        \* bytes left behind by those moves of heap_ptr

bumpVars == <<heap_ptr, remaining_heap, bump_brk, exited, given, extensions, abandoned>>

BumpInit ==
  /\ heap_ptr = NoHeap /\ remaining_heap = 0 /\ bump_brk = 0 /\ exited = FALSE
  /\ given = <<>> /\ extensions = 0 /\ abandoned = 0

\* Seeded bug: above a double word the request is not rounded.
BumpSizeUnaligned(size) ==
  IF size <= DWORD_SIZE THEN 2 * DWORD_SIZE ELSE size + DWORD_SIZE

BumpSize(size) ==
  IF size <= DWORD_SIZE THEN 2 * DWORD_SIZE
  ELSE DWORD_SIZE * ((size + DWORD_SIZE + (DWORD_SIZE - 1)) \div DWORD_SIZE)

BumpGrowth(asize, left) ==
  IF asize - left <= PAGE_SIZE THEN PAGE_SIZE ELSE 2 * PAGE_SIZE

\* heap_ptr and remaining_heap when mm_malloc starts its work: mm_init makes
\* one page if nobody has called it.
Begun == IF heap_ptr = NoHeap THEN [ptr |-> 0, left |-> PAGE_SIZE, brk |-> PAGE_SIZE]
         ELSE [ptr |-> heap_ptr, left |-> remaining_heap, brk |-> bump_brk]

\* Also what mm_malloc(0) amounts to.
mm_init ==
  /\ heap_ptr = NoHeap /\ ~exited
  /\ heap_ptr' = Begun.ptr /\ remaining_heap' = Begun.left /\ bump_brk' = Begun.brk
  /\ UNCHANGED <<exited, given, extensions, abandoned>>

\* Seeded bug: the pointer moves by the minimum block only.
BumpBySize(size, ptr, left) ==
  LET asize == BumpSize(size) IN
  /\ heap_ptr' = ptr + 2 * DWORD_SIZE
  /\ remaining_heap' = (left - asize) % SIZE_SPAN
  /\ given' = Append(given, [at |-> ptr, bytes |-> size, taken |-> asize])

\* Seeded bug: the count is not lowered.
BumpNoCount(size, ptr, left) ==
  LET asize == BumpSize(size) IN
  /\ heap_ptr' = ptr + asize
  /\ remaining_heap' = left
  /\ given' = Append(given, [at |-> ptr, bytes |-> size, taken |-> asize])

\* The block starts at heap_ptr and the count drops by its size.
Bump(size, ptr, left) ==
  LET asize == BumpSize(size) IN
  /\ heap_ptr' = ptr + asize
  /\ remaining_heap' = (left - asize) % SIZE_SPAN
  /\ given' = Append(given, [at |-> ptr, bytes |-> size, taken |-> asize])

BumpMalloc(size) ==
  /\ ~exited /\ size > 0 /\ Len(given) < MaxBlocks
  /\ BumpSize(size) <= Begun.left
  /\ Bump(size, Begun.ptr, Begun.left)
  /\ bump_brk' = Begun.brk
  /\ UNCHANGED <<exited, extensions, abandoned>>

\* The same when the count is too low: the heap grows and heap_ptr moves to
\* the new part, or the process ends.
BumpMallocExtending(size) ==
  /\ ~exited /\ size > 0 /\ Len(given) < MaxBlocks
  /\ BumpSize(size) > Begun.left
  /\ LET grow == BumpGrowth(BumpSize(size), Begun.left)
         area == mem_sbrk(Begun.brk, grow)
     IN  IF area.ok
         THEN /\ Bump(size, area.at, Begun.left + grow)
              /\ bump_brk' = area.brk
              /\ extensions' = extensions + 1
              /\ abandoned' = abandoned + (Begun.brk - Begun.ptr)
              /\ UNCHANGED exited
         ELSE /\ exited' = TRUE
              /\ heap_ptr' = NoHeap
              /\ remaining_heap' = Begun.left /\ bump_brk' = Begun.brk
              /\ UNCHANGED <<given, extensions, abandoned>>

BumpNext == mm_init \/ \E size \in BumpRequests : BumpMalloc(size) \/ BumpMallocExtending(size)

BumpSpec == BumpInit /\ [][BumpNext]_bumpVars
-----------------------------------------------------------------------------
(* Properties *)

\* Every number keeps its type; every block is aligned to a double word, as
\* the assertions of mm_malloc demand (mm.c:33 and 78).
TypeOK ==
  /\ heap_ptr # NoHeap => heap_ptr \in Nat /\ heap_ptr % DWORD_SIZE = 0
  /\ remaining_heap \in 0 .. SIZE_SPAN - 1 /\ bump_brk \in 0 .. MAX_HEAP
  /\ exited \in BOOLEAN
  /\ \A k \in 1 .. Len(given) : given[k].at \in Nat /\ given[k].at % DWORD_SIZE = 0

Apart(b, c) == b.at + b.bytes <= c.at \/ c.at + c.bytes <= b.at

\* Until the heap has grown twice no two blocks overlap: the first growth
\* jumps over the rest of the first page and all that follows lies beyond it
\* (mm.c:56-75).
ApartUntilSecondGrowth ==
  extensions <= 1 =>
    \A j, k \in 1 .. Len(given) : j # k => Apart(given[j], given[k])

\* What remaining_heap really counts: the bytes from heap_ptr to the break and
\* those every growth left behind, so it is too high by the latter (mm.c:63-75).
CountOffByAbandoned ==
  ~exited /\ heap_ptr # NoHeap =>
    remaining_heap = (bump_brk - heap_ptr + abandoned) % SIZE_SPAN

\* README: mm_malloc "checks if there is enough remaining space in the heap to
\* fulfill the request; if not, the heap is extended" (README.md:10), so every
\* block lies inside the heap.
BlocksInsideHeap ==
  \A k \in 1 .. Len(given) : given[k].at + given[k].bytes <= bump_brk
=============================================================================
