-------------------------------- MODULE Mm64 --------------------------------
(***************************************************************************)
(* The 64-bit allocator of memory_allocator/32bit_to_64bit_practice/mm.c:  *)
(* an implicit list of blocks with boundary tags, first fit, immediate     *)
(* coalescing.  The heap is an array of words that holds the tags and the  *)
(* data of the calling program side by side, as in the program: a tag is   *)
(* wherever the pointer arithmetic of the code says.                       *)
(*                                                                         *)
(* The allocator is sequential, so one action is one call.  The calling    *)
(* program allocates, frees and resizes what it holds and fills it with    *)
(* words that look like tags.  Block pointers are byte offsets from        *)
(* mem_heap.                                                               *)
(***************************************************************************)
EXTENDS MemLib, Sequences, FiniteSets

CONSTANTS
  CHUNKSIZE,  \* the heap grows by multiples of it
  Requests,   \* sizes the program asks for
  Values,     \* words the program writes
  MaxCalls    \* bound: calls and writes in one behaviour

WSIZE == 8
DSIZE == 16
MIN_BLOCK_SIZE == 32
NULL  == 0     \* address 0 holds the alignment padding, never a block
ENOMEM == 12

ASSUME Mm64Assumption ==
  /\ CHUNKSIZE \in Nat /\ CHUNKSIZE % DSIZE = 0 /\ MIN_BLOCK_SIZE <= CHUNKSIZE
  /\ MAX_HEAP % DSIZE = 0 /\ 4 * WSIZE + CHUNKSIZE <= MAX_HEAP
  /\ \A n \in Requests : n \in Nat /\ n % WSIZE = 0
  /\ Values \subseteq Nat /\ MaxCalls \in Nat

VARIABLES
  mem,         \* the words of the arena, by address
  mem_brk,     \* end of the heap; 0 while there is none
  heap_listp,  \* the prologue block, or NULL before mm_init
  errno,
  live,        \* what the program holds: per pointer, the bytes it asked for
               \* and how many of its words it has written
  calls        \* calls and writes so far

vars == <<mem, mem_brk, heap_listp, errno, live, calls>>

Words    == {WSIZE * k : k \in 0 .. MAX_HEAP \div WSIZE - 1}
Pointers == {DSIZE * k : k \in 0 .. MAX_HEAP \div DSIZE}

-----------------------------------------------------------------------------
(* Tags and pointer arithmetic; m is the memory they read. *)

pack(size, alloc) == size + alloc
get_size(m, p)  == m[p] - (m[p] % 16)
get_alloc(m, p) == m[p] % 2

hdr_pointer(bp)    == bp - WSIZE
ftr_pointer(m, bp) == bp + get_size(m, hdr_pointer(bp)) - DSIZE
next_blkp(m, bp)   == bp + get_size(m, hdr_pointer(bp))
prev_blkp(m, bp)   == bp - get_size(m, bp - DSIZE)

put_word(m, p, w) == [m EXCEPT ![p] = w]

\* Header, then the footer where the new header says it is.
PutTags(m, bp, size, alloc) ==
  LET h == put_word(m, hdr_pointer(bp), pack(size, alloc))
  IN  put_word(h, ftr_pointer(h, bp), pack(size, alloc))

-----------------------------------------------------------------------------
(* The internal routines, as functions of the memory. *)

\* Seeded bug: the previous block is not looked at.
coalesceForward(m, bp) ==
  LET next == next_blkp(m, bp)
      size == get_size(m, hdr_pointer(bp))
      all  == IF get_alloc(m, hdr_pointer(next)) = 1 THEN size
              ELSE size + get_size(m, hdr_pointer(next))
  IN  [mem |-> PutTags(m, bp, all, 0), bp |-> bp]

\* Merges bp with the free ones of its neighbours.
coalesce(m, bp) ==
  LET prev == prev_blkp(m, bp)
      next == next_blkp(m, bp)
      prev_alloc == get_alloc(m, ftr_pointer(m, prev)) = 1
      next_alloc == get_alloc(m, hdr_pointer(next)) = 1
      size       == get_size(m, hdr_pointer(bp))
      prev_size  == get_size(m, hdr_pointer(prev))
  IN  CASE prev_alloc /\ next_alloc ->
             [mem |-> PutTags(m, bp, size, 0), bp |-> bp]
        [] prev_alloc /\ ~next_alloc ->
             [mem |-> PutTags(m, bp, size + get_size(m, hdr_pointer(next)), 0),
              bp  |-> bp]
        [] ~prev_alloc /\ next_alloc ->
             LET all == pack(prev_size + size, 0)
                 f   == put_word(m, ftr_pointer(m, bp), all)
             IN  [mem |-> put_word(f, hdr_pointer(prev), all), bp |-> prev]
        [] OTHER ->
             LET all == pack(prev_size + size + get_size(m, ftr_pointer(m, next)), 0)
                 h   == put_word(m, hdr_pointer(prev), all)
             IN  [mem |-> put_word(h, ftr_pointer(h, next), all), bp |-> prev]

\* A heap with its break; bp is the block the operation yields, or NULL.
Heap(m, brk, bp) == [mem |-> m, brk |-> brk, bp |-> bp]

WithEpilogue(m, bp) == put_word(m, hdr_pointer(next_blkp(m, bp)), pack(0, 1))

\* A heap after coalescing, given what coalesce returned.
Coalesced(c, brk) == Heap(c.mem, brk, c.bp)

extend_heap(m, brk, words) ==
  LET size == IF words % 2 = 1 THEN (words + 1) * WSIZE ELSE words * WSIZE
      area == mem_sbrk(brk, size)
  IN  IF area.ok
      THEN Coalesced(coalesce(WithEpilogue(PutTags(m, brk, size, 0), brk), brk), area.brk)
      ELSE Heap(m, brk, NULL)

\* Seeded bug: the footer of the remainder is not written.
placeNoFooter(m, bp, asize) ==
  LET size  == get_size(m, hdr_pointer(bp))
      front == PutTags(m, bp, asize, 1)
  IN  IF size - asize >= MIN_BLOCK_SIZE
      THEN put_word(front, hdr_pointer(next_blkp(front, bp)), pack(size - asize, 0))
      ELSE PutTags(m, bp, size, 1)

place(m, bp, asize) ==
  LET size  == get_size(m, hdr_pointer(bp))
      front == PutTags(m, bp, asize, 1)
  IN  IF size - asize >= MIN_BLOCK_SIZE
      THEN PutTags(front, next_blkp(front, bp), size - asize, 0)
      ELSE PutTags(m, bp, size, 1)

\* A walk over the headers from bp on; it ends at a size of 0, where it
\* would stay.
Walk(m, bp) ==
  LET at[k \in 0 .. MAX_HEAP \div MIN_BLOCK_SIZE] == IF k = 0 THEN bp ELSE next_blkp(m, at[k - 1])
  IN  at

First(K) == CHOOSE k \in K : \A j \in K : k <= j

\* Seeded bug: a block that fits exactly is passed over.
find_fitStrict(m, asize) ==
  LET at   == Walk(m, 2 * WSIZE)
      fits == {k \in DOMAIN at : /\ get_alloc(m, hdr_pointer(at[k])) = 0
                                 /\ asize < get_size(m, hdr_pointer(at[k]))}
  IN  IF fits = {} THEN NULL ELSE at[First(fits)]

\* First fit.
find_fit(m, asize) ==
  LET at   == Walk(m, 2 * WSIZE)
      fits == {k \in DOMAIN at : /\ get_alloc(m, hdr_pointer(at[k])) = 0
                                 /\ asize <= get_size(m, hdr_pointer(at[k]))}
  IN  IF fits = {} THEN NULL ELSE at[First(fits)]

\* mm_init on an arena mmap has zeroed.
FreshHeap ==
  LET zero  == [a \in Words |-> 0]
      start == mem_sbrk(0, 4 * WSIZE)
      tags  == [zero EXCEPT ![WSIZE] = pack(DSIZE, 1), ![2 * WSIZE] = pack(DSIZE, 1),
                            ![3 * WSIZE] = pack(0, 1)]
  IN  extend_heap(tags, start.brk, CHUNKSIZE \div WSIZE)

\* The block size for a request: two tags, doubleword alignment.
AdjustedSize(size) ==
  IF size <= DSIZE THEN MIN_BLOCK_SIZE
  ELSE DSIZE * ((size + DSIZE + (DSIZE - 1)) \div DSIZE)

ExtendSize(asize) == ((asize + CHUNKSIZE - 1) \div CHUNKSIZE) * CHUNKSIZE

\* What the heap grows by fits into the int that mem_sbrk takes, as it does
\* below 2 GB; beyond it the tags record bytes the heap has not got.
ASSUME GrowthAssumption ==
  /\ 4 * WSIZE < INT_SPAN \div 2 /\ CHUNKSIZE < INT_SPAN \div 2
  /\ \A n \in Requests : ExtendSize(AdjustedSize(n)) < INT_SPAN \div 2

PlaceIn(h, asize) ==
  IF h.bp = NULL THEN h ELSE [h EXCEPT !.mem = place(h.mem, h.bp, asize)]

\* mm_malloc from the search on, for a positive size.
Obtain(h, size) ==
  LET asize == AdjustedSize(size)
      bp    == find_fit(h.mem, asize)
  IN  PlaceIn(IF bp # NULL THEN [h EXCEPT !.bp = bp]
              ELSE extend_heap(h.mem, h.brk, ExtendSize(asize) \div WSIZE), asize)

\* memcpy of n bytes, a word at a time.
Copied(m, to, from, n) ==
  [a \in Words |-> IF a \in to .. to + n - 1 THEN m[from + (a - to)] ELSE m[a]]
-----------------------------------------------------------------------------
(* The calls. *)

Init ==
  /\ mem = [a \in Words |-> 0] /\ mem_brk = 0
  /\ heap_listp = NULL /\ errno = 0 /\ live = <<>> /\ calls = 0

\* mm_malloc(0) and mm_realloc(p, 0) apart, a request too large sets errno
\* and goes on; so does a failing mem_sbrk.
Errno(size, h) ==
  IF size > 4 * CHUNKSIZE \/ h.bp = NULL THEN ENOMEM ELSE errno

\* The heap a request starts from: mm_malloc calls mm_init if nobody has.
Current == IF heap_listp = NULL THEN FreshHeap ELSE Heap(mem, mem_brk, NULL)

Held(S, p, bytes, known) ==
  [q \in S \cup {p} |-> IF q = p THEN [bytes |-> bytes, known |-> known] ELSE live[q]]

Becomes(h) == mem' = h.mem /\ mem_brk' = h.brk

\* mm_init; again only after mm_deinit.
Start ==
  /\ mem_brk = 0 /\ Becomes(FreshHeap) /\ heap_listp' = 2 * WSIZE
  /\ UNCHANGED <<errno, live>>

\* The program calls mm_init before it allocates again after mm_deinit:
\* heap_listp # NULL would let mm_malloc read an arena that is gone.
Malloc(size) ==
  /\ heap_listp = NULL \/ mem_brk > 0
  /\ \E h \in {IF size = 0 THEN Current ELSE Obtain(Current, size)} :
       /\ Becomes(h) /\ heap_listp' = 2 * WSIZE
       /\ errno' = IF size = 0 THEN errno ELSE Errno(size, h)
       /\ live' = IF h.bp = NULL \/ size = 0 THEN live ELSE Held(DOMAIN live, h.bp, size, 0)

Free(p) ==
  /\ p \in DOMAIN live
  /\ Becomes(Coalesced(coalesce(mem, p), mem_brk))
  /\ live' = [q \in DOMAIN live \ {p} |-> live[q]]
  /\ UNCHANGED <<heap_listp, errno>>

\* What realloc makes of the heap h, in which size bytes were found for p.
Moved(h, p, size) == Copied(h.mem, h.bp, p, First({size, get_size(h.mem, hdr_pointer(p))}))

ReallocTo(h, p, size) ==
  live' = Held(DOMAIN live \ {p}, h.bp, size, First({live[p].known, size \div WSIZE}))

\* Seeded bugs: the old block is not freed; it is freed before the copy.
ReallocLeaks(p, size) ==
  /\ p \in DOMAIN live /\ size > 0
  /\ \E h \in {Obtain(Heap(mem, mem_brk, NULL), size)} :
       /\ errno' = Errno(size, h)
       /\ IF h.bp = NULL THEN Becomes(h) /\ UNCHANGED live
          ELSE Becomes([h EXCEPT !.mem = Moved(h, p, size)]) /\ ReallocTo(h, p, size)
  /\ UNCHANGED heap_listp

ReallocFreesFirst(p, size) ==
  /\ p \in DOMAIN live /\ size > 0
  /\ \E h \in {Obtain(Heap(coalesce(mem, p).mem, mem_brk, NULL), size)} :
       /\ errno' = Errno(size, h)
       /\ IF h.bp = NULL THEN UNCHANGED <<mem, mem_brk, live>>
          ELSE Becomes([h EXCEPT !.mem = Moved(h, p, size)]) /\ ReallocTo(h, p, size)
  /\ UNCHANGED heap_listp

\* A new block, the copy, the release of the old block; nothing if there is
\* no new block.  A size of 0 only frees.
Realloc(p, size) ==
  /\ p \in DOMAIN live /\ size > 0
  /\ \E h \in {Obtain(Heap(mem, mem_brk, NULL), size)} :
       /\ errno' = Errno(size, h)
       /\ IF h.bp = NULL THEN Becomes(h) /\ UNCHANGED live
          ELSE /\ Becomes(Coalesced(coalesce(Moved(h, p, size), p), h.brk))
               /\ ReallocTo(h, p, size)
  /\ UNCHANGED heap_listp

\* The program fills a block it holds.
Fill(p, v) ==
  /\ p \in DOMAIN live
  /\ mem' = [a \in Words |-> IF a \in p .. p + live[p].bytes - 1 THEN v ELSE mem[a]]
  /\ live' = [live EXCEPT ![p].known = live[p].bytes \div WSIZE]
  /\ UNCHANGED <<mem_brk, heap_listp, errno>>

\* mm_deinit unmaps the arena (mem_brk = 0 stands for that); heap_listp keeps
\* its value.
Stop ==
  /\ mem_brk > 0
  /\ mem' = [a \in Words |-> 0] /\ mem_brk' = 0 /\ live' = <<>>
  /\ UNCHANGED <<heap_listp, errno>>

Call ==
  \/ Start \/ Stop
  \/ \E size \in Requests : Malloc(size)
  \/ \E p \in DOMAIN live :
       Free(p) \/ (\E size \in Requests : Realloc(p, size)) \/ (\E v \in Values : Fill(p, v))

Next == Call /\ calls < MaxCalls /\ calls' = calls + 1

Spec == Init /\ [][Next]_vars
-----------------------------------------------------------------------------
(* Properties *)

Used == mem_brk > 0

SizeOf(bp)    == get_size(mem, hdr_pointer(bp))
Allocated(bp) == get_alloc(mem, hdr_pointer(bp)) = 1

\* The blocks, without the prologue.
Blocks == LET at == Walk(mem, heap_listp)
          IN  {at[k] : k \in DOMAIN at \ {0}} \ {mem_brk}

\* The heap is a chain of blocks from the prologue to an epilogue that ends
\* exactly at the break, each with equal tags at both ends and a legal size,
\* whatever was split, merged, grown or written (what mm_checkheap looks at,
\* mm.c:427-459).
HeapTiled ==
  Used =>
    /\ mem[WSIZE] = pack(DSIZE, 1) /\ mem[2 * WSIZE] = pack(DSIZE, 1)
    /\ mem[hdr_pointer(mem_brk)] = pack(0, 1)
    /\ Walk(mem, heap_listp)[MAX_HEAP \div MIN_BLOCK_SIZE] = mem_brk
    /\ \A p \in Blocks : /\ SizeOf(p) >= MIN_BLOCK_SIZE
                         /\ mem[hdr_pointer(p)] = mem[ftr_pointer(mem, p)]

\* Coalescing is immediate and complete: two neighbours are never both free
\* (mm.c:232-271, also after extend_heap and mm_realloc).
NoFreeNeighbours ==
  Used => \A p \in Blocks : next_blkp(mem, p) \in Blocks =>
            Allocated(p) \/ Allocated(next_blkp(mem, p))

\* The allocated blocks are exactly those the program holds, each with room
\* for what was asked between its tags: none leaks, none is freed under the
\* program (mm.c:139-309).
HeldBlocks ==
  Used => /\ {p \in Blocks : Allocated(p)} = DOMAIN live
          /\ \A p \in DOMAIN live : live[p].bytes <= SizeOf(p) - DSIZE

\* A request is refused only if no free block has room for it (mm.c:182-197).
RefusedOnlyIfFull ==
  [][\A size \in Requests \ {0} :
       Used /\ live' = live /\ mem' = mem /\ Malloc(size) =>
         \A p \in Blocks : ~Allocated(p) => SizeOf(p) - DSIZE < size]_vars

\* What the program holds and finds in it.
Contents == [p \in DOMAIN live |->
               [bytes |-> live[p].bytes,
                data  |-> [k \in 1 .. live[p].known |-> mem[p + WSIZE * (k - 1)]]]]

\* The promise of malloc, free and realloc: aligned blocks inside the heap
\* that do not overlap and keep their contents; a failing realloc leaves the
\* original block untouched (mm.c:139-309).
Promise == INSTANCE Allocation WITH
  Limit <- MAX_HEAP, Alignment <- DSIZE, Sizes <- Requests \ {0}, WordBytes <- WSIZE,
  blocks <- Contents

KeepsPromise == Promise!Spec
=============================================================================
