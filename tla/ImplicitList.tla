----------------------------- MODULE ImplicitList -----------------------------
(***************************************************************************)
(* The allocator of memory_allocator/ImplicitFreeList/mm.c: boundary tags  *)
(* as bit fields, first fit, immediate coalescing.  Its prev_payload reads *)
(* the word before the footer of the previous block, so what coalesce does *)
(* depends on the data that lie there.  misread records that coalesce was  *)
(* led to something else than the previous block.  The heap can then be    *)
(* corrupt and the next calls read and write anywhere: a behaviour ends    *)
(* with that call.                                                         *)
(*                                                                         *)
(* A word is a pair of the 60 bits a tag keeps the size in and the bit it  *)
(* keeps the allocation in.  One action is one call.  Payloads are byte    *)
(* offsets from mem_heap.                                                  *)
(***************************************************************************)
EXTENDS MemLib, Sequences

CONSTANTS
  CHUNKSIZE,  \* least growth of the heap
  Requests,   \* sizes the program asks for
  Values,     \* words the program writes
  MaxCalls    \* bound: calls and writes in one behaviour

WSIZE == 8
DWORD_SIZE == 16
NULL == 0   \* address 0 holds the padding, never a payload

Tag(size, allocated) == [size |-> size, allocated |-> allocated]
Zero == Tag(0, 0)

ASSUME ImplicitListAssumption ==
  /\ CHUNKSIZE \in Nat /\ CHUNKSIZE % DWORD_SIZE = 0 /\ 2 * DWORD_SIZE <= CHUNKSIZE
  /\ MAX_HEAP % DWORD_SIZE = 0 /\ 4 * WSIZE + CHUNKSIZE <= MAX_HEAP
  /\ \A n \in Requests : n \in Nat /\ n % WSIZE = 0
  /\ Values \subseteq [size : Nat, allocated : {0, 1}] /\ \A v \in Values : v.size % WSIZE = 0
  /\ MaxCalls \in Nat

VARIABLES
  mem,         \* the words of the arena, by address
  mem_brk,     \* end of the heap; 0 while there is none
  heap_listp,  \* the prologue, or NULL before mm_init
  live,        \* what the program holds: per payload, the bytes it asked for
               \* and how many of its words it has written
  misread,     \* coalesce took something else for the previous block
  calls        \* calls and writes so far

vars == <<mem, mem_brk, heap_listp, live, misread, calls>>

Words == {WSIZE * k : k \in 0 .. MAX_HEAP \div WSIZE - 1}

-----------------------------------------------------------------------------
(* Tags; m is the memory they are read from.  Only after a misreading does *)
(* a pointer leave the arena: such a read gives 0, such a write is lost.   *)

Word(m, a)   == IF a \in Words THEN m[a] ELSE Zero
Put(m, a, w) == IF a \in Words THEN [m EXCEPT ![a] = w] ELSE m

header(payload)    == payload - WSIZE
footer(m, payload) == payload + Word(m, header(payload)).size - DWORD_SIZE
next_payload(m, payload) == payload + Word(m, header(payload)).size

prev_payload(m, payload) == payload - Word(m, header(payload) - DWORD_SIZE).size

\* Header first, then the footer where the new header says it is.
PutTags(m, payload, size, allocated) ==
  LET h == Put(m, header(payload), Tag(size, allocated))
  IN  Put(h, footer(h, payload), Tag(size, allocated))

\* A walk from the prologue on; it ends at a block of size 0, where it would
\* stay.
Walk(m) ==
  LET at[k \in 0 .. MAX_HEAP \div (2 * DWORD_SIZE)] ==
        IF k = 0 THEN 2 * WSIZE ELSE next_payload(m, at[k - 1])
  IN  at

First(K) == CHOOSE k \in K : \A j \in K : k <= j

\* prev_payload does not lead to the block before bp.
Misled(m, bp) ==
  LET at == Walk(m) IN
  \A k \in DOMAIN at : next_payload(m, at[k]) = bp => at[k] # prev_payload(m, bp)

-----------------------------------------------------------------------------
(* The internal routines. *)

\* A heap: memory, break, whether coalesce was misled on the way, and the
\* block the operation yields, or NULL.
Heap(m, brk, lost, bp) == [mem |-> m, brk |-> brk, lost |-> lost, bp |-> bp]

\* Seeded bug: a free block on the right is left alone.
coalesceBack(m, bp) ==
  LET prev == prev_payload(m, bp)
      size == Word(m, header(bp)).size + Word(m, header(prev)).size
      f    == Put(m, footer(m, bp), Tag(size, 0))
  IN  IF Word(m, footer(m, prev)).allocated = 1 THEN m
      ELSE Put(f, header(prev), Tag(size, 0))

\* The memory after merging bp, tagged free, with the free neighbours.
\* prev_payload is called anew after every write.
coalesce(m, bp) ==
  LET next == next_payload(m, bp)
      prev_alloc == Word(m, footer(m, prev_payload(m, bp))).allocated = 1
      next_alloc == Word(m, header(next)).allocated = 1
      size       == Word(m, header(bp)).size
      with_prev  == size + Word(m, header(prev_payload(m, bp))).size
      with_both  == with_prev + Word(m, footer(m, next)).size
      PutPrev(k, w) ==
        LET s == Put(k, header(prev_payload(k, bp)),
                     [Word(k, header(prev_payload(k, bp))) EXCEPT !.size = w.size])
            a == header(prev_payload(s, bp))
        IN  Put(s, a, [Word(s, a) EXCEPT !.allocated = w.allocated])
  IN  CASE prev_alloc /\ next_alloc  -> m
        [] prev_alloc /\ ~next_alloc ->
             PutTags(m, bp, size + Word(m, header(next)).size, 0)
        [] ~prev_alloc /\ next_alloc ->
             PutPrev(Put(m, footer(m, bp), Tag(with_prev, 0)), Tag(with_prev, 0))
        [] OTHER ->
             LET h == PutPrev(m, Tag(with_both, 0))
             IN  Put(h, footer(h, next_payload(h, bp)), Tag(with_both, 0))

\* The block coalesce returns.
Merged(m, bp) ==
  IF Word(m, footer(m, prev_payload(m, bp))).allocated = 1 THEN bp
  ELSE prev_payload(coalesce(m, bp), bp)

Coalesced(m, brk, bp) == Heap(coalesce(m, bp), brk, Misled(m, bp), Merged(m, bp))

WithEpilogue(m, bp) == Put(m, header(next_payload(m, bp)), Tag(0, 1))

extend_heap(m, brk, words) ==
  LET size == IF words % 2 = 1 THEN (words + 1) * WSIZE ELSE words * WSIZE
      area == mem_sbrk(brk, size)
  IN  IF area.ok THEN Coalesced(WithEpilogue(PutTags(m, brk, size, 0), brk), area.brk, brk)
                 ELSE Heap(m, brk, FALSE, NULL)

\* Seeded bug: a remainder of one double word becomes a block.
placeSplitsSmall(m, bp, asize) ==
  LET csize == Word(m, header(bp)).size
      front == PutTags(m, bp, asize, 1)
  IN  IF csize - asize >= DWORD_SIZE
      THEN PutTags(front, next_payload(front, bp), csize - asize, 0)
      ELSE PutTags(m, bp, csize, 1)

place(m, bp, asize) ==
  LET csize == Word(m, header(bp)).size
      front == PutTags(m, bp, asize, 1)
  IN  IF csize - asize >= 2 * DWORD_SIZE
      THEN PutTags(front, next_payload(front, bp), csize - asize, 0)
      ELSE PutTags(m, bp, csize, 1)

\* First fit.
find_fit(m, asize) ==
  LET at   == Walk(m)
      fits == {k \in DOMAIN at : /\ Word(m, header(at[k])).allocated = 0
                                 /\ asize <= Word(m, header(at[k])).size}
  IN  IF fits = {} THEN NULL ELSE at[First(fits)]

\* mm_init on an arena mmap has zeroed.
FreshHeap ==
  LET zero  == [a \in Words |-> Zero]
      start == mem_sbrk(0, 4 * WSIZE)
      tags  == [zero EXCEPT ![WSIZE]     = Tag(DWORD_SIZE, 1),
                            ![2 * WSIZE] = Tag(DWORD_SIZE, 1),
                            ![3 * WSIZE] = Tag(0, 1)]
  IN  extend_heap(tags, start.brk, CHUNKSIZE \div WSIZE)

AdjustedSize(size) ==
  IF size <= DWORD_SIZE THEN 2 * DWORD_SIZE
  ELSE DWORD_SIZE * ((size + DWORD_SIZE + (DWORD_SIZE - 1)) \div DWORD_SIZE)

\* MAX takes and returns int.
ExtendSize(asize) == IF AsInt(asize) > CHUNKSIZE THEN AsInt(asize) ELSE CHUNKSIZE

\* Every block size fits into an int, as it does below 2 GB; beyond it the heap
\* grows by less than the request.
ASSUME GrowthAssumption ==
  /\ 4 * WSIZE < INT_SPAN \div 2 /\ CHUNKSIZE < INT_SPAN \div 2
  /\ \A n \in Requests : AdjustedSize(n) < INT_SPAN \div 2

PlaceIn(h, asize) ==
  IF h.bp = NULL THEN h ELSE [h EXCEPT !.mem = place(h.mem, h.bp, asize)]

\* mm_malloc of a positive size, from the search on.
Obtain(h, size) ==
  LET asize == AdjustedSize(size)
      bp    == find_fit(h.mem, asize)
  IN  PlaceIn(IF bp # NULL THEN [h EXCEPT !.bp = bp]
              ELSE extend_heap(h.mem, h.brk, ExtendSize(asize) \div WSIZE), asize)

\* What mm_free makes of the heap.
Freed(m, brk, bp) == Coalesced(PutTags(m, bp, Word(m, header(bp)).size, 0), brk, bp)

\* Seeded bug: the last word is not copied.
CopiedShort(m, to, from, n) ==
  [a \in Words |-> IF a \in to .. to + n - WSIZE - 1 THEN Word(m, from + (a - to)) ELSE m[a]]

\* memcpy of n bytes, a word at a time.
Copied(m, to, from, n) ==
  [a \in Words |-> IF a \in to .. to + n - 1 THEN Word(m, from + (a - to)) ELSE m[a]]
-----------------------------------------------------------------------------
(* The calls. *)

Init ==
  /\ mem = [a \in Words |-> Zero] /\ mem_brk = 0 /\ heap_listp = NULL
  /\ live = <<>> /\ misread = FALSE /\ calls = 0

\* The heap a request starts from: mm_malloc calls mm_init if nobody has.
Current == IF heap_listp = NULL THEN FreshHeap ELSE Heap(mem, mem_brk, FALSE, NULL)

Held(S, p, bytes, known) ==
  [q \in S \cup {p} |-> IF q = p THEN [bytes |-> bytes, known |-> known] ELSE live[q]]

Becomes(h) == mem' = h.mem /\ mem_brk' = h.brk /\ misread' = h.lost

\* mm_init; again only after mm_deinit.
Start ==
  /\ mem_brk = 0 /\ Becomes(FreshHeap) /\ heap_listp' = 2 * WSIZE
  /\ UNCHANGED live

\* The program calls mm_init before it allocates again after mm_deinit.
Malloc(size) ==
  /\ heap_listp = NULL \/ mem_brk > 0
  /\ \E h \in {IF size = 0 THEN Current ELSE Obtain(Current, size)} :
       /\ Becomes(h) /\ heap_listp' = 2 * WSIZE
       /\ live' = IF h.bp = NULL \/ size = 0 THEN live ELSE Held(DOMAIN live, h.bp, size, 0)

Free(p) ==
  /\ p \in DOMAIN live
  /\ Becomes(Freed(mem, mem_brk, p))
  /\ live' = [q \in DOMAIN live \ {p} |-> live[q]]
  /\ UNCHANGED heap_listp

\* Seeded bug: the old block is not freed.
ReallocLeaks(p, size) ==
  /\ p \in DOMAIN live /\ size > 0
  /\ \E h \in {Obtain(Heap(mem, mem_brk, FALSE, NULL), size)} :
       IF h.bp = NULL THEN Becomes(h) /\ UNCHANGED live
       ELSE /\ Becomes([h EXCEPT !.mem = Copied(@, h.bp, p, size)])
            /\ live' = Held(DOMAIN live \ {p}, h.bp, size, First({live[p].known, size \div WSIZE}))
  /\ UNCHANGED heap_listp

\* A new block, the copy, the release of the old block; nothing if there is
\* no new block.  A size of 0 only frees.  If the growth was misled the call is
\* not followed further.
Realloc(p, size) ==
  /\ p \in DOMAIN live /\ size > 0
  /\ \E h \in {Obtain(Heap(mem, mem_brk, FALSE, NULL), size)} :
       IF h.bp = NULL \/ h.lost THEN Becomes(h) /\ UNCHANGED live
       ELSE /\ Becomes(Freed(Copied(h.mem, h.bp, p, First({size, Word(h.mem, header(p)).size})),
                          h.brk, p))
            /\ live' = Held(DOMAIN live \ {p}, h.bp, size, First({live[p].known, size \div WSIZE}))
  /\ UNCHANGED heap_listp

\* The program fills a block it holds.
Fill(p, v) ==
  /\ p \in DOMAIN live
  /\ mem' = [a \in Words |-> IF a \in p .. p + live[p].bytes - 1 THEN v ELSE mem[a]]
  /\ live' = [live EXCEPT ![p].known = live[p].bytes \div WSIZE]
  /\ UNCHANGED <<mem_brk, heap_listp, misread>>

\* mm_deinit unmaps the arena; heap_listp keeps its value.
Stop ==
  /\ mem_brk > 0
  /\ mem' = [a \in Words |-> Zero] /\ mem_brk' = 0 /\ live' = <<>>
  /\ UNCHANGED <<heap_listp, misread>>

Call ==
  \/ Start \/ Stop
  \/ \E size \in Requests : Malloc(size)
  \/ \E p \in DOMAIN live :
       Free(p) \/ (\E size \in Requests : Realloc(p, size)) \/ (\E v \in Values : Fill(p, v))

Next == ~misread /\ calls < MaxCalls /\ Call /\ calls' = calls + 1

Spec == Init /\ [][Next]_vars
-----------------------------------------------------------------------------
(* Properties *)

\* There is a heap, and coalesce never went wrong.
Sound == mem_brk > 0 /\ ~misread

Allocated(p) == Word(mem, header(p)).allocated = 1
SizeOf(p)    == Word(mem, header(p)).size

\* The blocks, without the prologue.
Blocks == LET at == Walk(mem) IN {at[k] : k \in DOMAIN at \ {0}} \ {mem_brk}

\* As long as prev_payload led to the previous block, the blocks form a chain
\* that ends at the break with equal tags at both ends (what checkheap and
\* checkblock look at, mm.c:423-468).
HeapTiled ==
  Sound =>
    /\ mem[WSIZE] = Tag(DWORD_SIZE, 1) /\ mem[2 * WSIZE] = Tag(DWORD_SIZE, 1)
    /\ mem[header(mem_brk)] = Tag(0, 1)
    /\ Walk(mem)[MAX_HEAP \div (2 * DWORD_SIZE)] = mem_brk
    /\ \A p \in Blocks : /\ SizeOf(p) >= 2 * DWORD_SIZE
                         /\ mem[header(p)] = mem[footer(mem, p)]

\* "Blocks are coalesced when freed" (mm.c:24): as long as prev_payload led to
\* the previous block, no two neighbours are free.
NoFreeNeighbours ==
  Sound => \A p \in Blocks : next_payload(mem, p) \in Blocks =>
             Allocated(p) \/ Allocated(next_payload(mem, p))

\* As long as prev_payload led to the previous block, the allocated blocks are
\* those the program holds, with room for what it asked (mm.c:177-316).
HeldBlocks ==
  Sound => /\ {p \in Blocks : Allocated(p)} = DOMAIN live
           /\ \A p \in DOMAIN live : live[p].bytes <= SizeOf(p) - DWORD_SIZE

\* What the program sees of its blocks.
Contents ==
  [p \in DOMAIN live |->
     [bytes |-> live[p].bytes,
      data  |-> [k \in 1 .. live[p].known |-> mem[p + WSIZE * (k - 1)]]]]

Promise == INSTANCE Allocation WITH
  Limit <- MAX_HEAP, Alignment <- DWORD_SIZE, Sizes <- Requests \ {0},
  WordBytes <- WSIZE, blocks <- Contents

\* Every call that is not misled keeps the promise of malloc, free and realloc
\* (mm.c:177-316): the only fault of this allocator is in prev_payload.
PromiseUnlessMisled == [][misread' \/ Promise!Next]_Contents

\* Comment on prev_payload: "The following function takes you to the previous
\* payload in the heap" (mm.c:93).
PreviousFound == ~misread
=============================================================================
