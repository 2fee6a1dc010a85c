----------------------------- MODULE ExplicitList -----------------------------
(***************************************************************************)
(* The allocator of memory_allocator/ExplicitFreeList/mm.c: boundary tags  *)
(* plus a doubly linked list of the free blocks, whose links lie in the    *)
(* first two words of the payload.  mm_free goes straight to coalesce, and *)
(* when only the right neighbour is free, coalesce follows the link it     *)
(* finds in the second word of the block being freed: the program's data.  *)
(* health tells how a call ended; after a stray store or a fault nothing   *)
(* more is followed.                                                       *)
(*                                                                         *)
(* A word is the pair of the 60 bits a tag keeps the size in and the bit   *)
(* it keeps the allocation in; a link is the offset of a header from       *)
(* mem_heap, with the upper bit 0.  One action is one call.                *)
(***************************************************************************)
EXTENDS MemLib, Sequences

CONSTANTS
  CHUNKSIZE,  \* unit of growth, of which extend_heap gets half
  Requests,   \* sizes the program asks for
  Fills,      \* whether the program writes into its blocks
  MaxCalls    \* bound: calls and writes in one behaviour

WSIZE == 8
DWORD_SIZE == 16
NULL == 0   \* also stands for every word that is no address of the heap

Tag(size, allocated) == [size |-> size, allocated |-> allocated]
Link(a) == Tag(a, 0)

ASSUME ExplicitListAssumption ==
  /\ CHUNKSIZE \in Nat \ {0} /\ CHUNKSIZE % (2 * DWORD_SIZE) = 0
  /\ MAX_HEAP % DWORD_SIZE = 0 /\ 112 + CHUNKSIZE <= MAX_HEAP
  /\ Requests \subseteq Nat /\ \A n \in Requests : n % WSIZE = 0
  /\ Fills \in BOOLEAN /\ MaxCalls \in Nat

VARIABLES
  mem,         \* the words of the arena, by address
  mem_brk,     \* end of the heap; 0 while there is none
  heap_listp,  \* the prologue, or NULL before mm_init
  live,        \* what the program holds: per payload, the bytes it asked for
               \* and how many of its words it has written
  health,      \* "sound"; "astray": a link was stored over another block;
               \* "free faults", "malloc faults": the call hit unmapped memory
  calls        \* calls and writes so far

vars == <<mem, mem_brk, heap_listp, live, health, calls>>

Words    == {WSIZE * k : k \in 0 .. MAX_HEAP \div WSIZE - 1}
Payloads == {DWORD_SIZE * k : k \in 0 .. MAX_HEAP \div DWORD_SIZE}
MaxBlocks == MAX_HEAP \div (2 * DWORD_SIZE)   \* of the arena
Prologue == 2 * WSIZE

-----------------------------------------------------------------------------
(* Tags and links of the block at payload p, in memory m. *)

Word(m, a)   == IF a \in Words THEN m[a] ELSE Tag(0, 0)
Put(m, a, w) == IF a \in Words THEN [m EXCEPT ![a] = w] ELSE m
SetSize(m, a, size) == Put(m, a, [Word(m, a) EXCEPT !.size = size])

header(p)       == p - WSIZE
SizeOf(m, p)    == Word(m, header(p)).size
footer(m, p)    == p + SizeOf(m, p) - DWORD_SIZE
next_payload(m, p) == p + SizeOf(m, p)
prev_payload(m, p) == p - Word(m, header(p) - WSIZE).size

fprev(m, p) == Word(m, p).size
fnext(m, p) == Word(m, p + WSIZE).size
PutPrev(m, h, w) == Put(m, h + WSIZE, w)        \* h->links.fprev = w
PutNext(m, h, w) == Put(m, h + 2 * WSIZE, w)    \* h->links.fnext = w
SelfLinked(m, p) ==
  PutNext(PutPrev(m, header(p), Link(header(p))), header(p), Link(header(p)))

\* The walk over the headers; it ends at a block of size 0, where it would
\* stay.
Walk(m) ==
  LET at[k \in 0 .. MaxBlocks] == IF k = 0 THEN Prologue ELSE next_payload(m, at[k - 1])
  IN  at

\* The walk along the links.
LinkWalk(m) ==
  LET at[k \in 0 .. MaxBlocks] == IF k = 0 THEN Prologue ELSE fnext(m, at[k - 1]) + WSIZE
  IN  at

Fewest(S) == CHOOSE n \in S : \A k \in S : n <= k

\* Seeded bug: the footer is not written.
PutHeader(m, p, size, allocated) == Put(m, header(p), Tag(size, allocated))

\* Header first, then the footer where the new header says it is.
PutTags(m, p, size, allocated) ==
  LET h == Put(m, header(p), Tag(size, allocated))
  IN  Put(h, footer(h, p), Tag(size, allocated))

remove_from_freelist(m, p) ==
  LET out == IF fprev(m, p) = NULL THEN m ELSE PutNext(m, fprev(m, p), Link(fnext(m, p)))
  IN  IF fnext(out, p) = NULL THEN out ELSE PutPrev(out, fnext(out, p), Link(fprev(out, p)))

\* Seeded bug: the link leads to the payload, not to the header.
addLinksPayload(m, p) ==
  PutNext(PutPrev(m, header(p), Link(header(p))), header(p), Link(p))

\* The block is linked to itself, and what it was linked to gets a link back.
add_merge_block_to_freelist(m, p) ==
  LET self == Link(header(p))
  IN  PutNext(PutPrev(PutPrev(m, header(p), self), fnext(m, p), self), header(p), self)

\* Where that link back goes, for a block that is freed in front of next: to
\* one of the two, over another block, or into unmapped memory.
LinkBack(m, p, next) ==
  IF fnext(m, p) \in {header(p), header(next)} THEN "sound"
  ELSE IF fnext(m, p) # NULL /\ fnext(m, p) + WSIZE \in Words THEN "astray"
  ELSE "free faults"

-----------------------------------------------------------------------------
(* The internal routines. *)

\* A heap: memory, break, how the operation ended, and the block it yields.
Heap(m, brk, end, bp) == [mem |-> m, brk |-> brk, health |-> end, bp |-> bp]

PrevFree(m, bp) == Word(m, header(prev_payload(m, bp))).allocated = 0
NextFree(m, bp) == Word(m, header(next_payload(m, bp))).allocated = 0

\* The memory once the tags are merged and the neighbours unlinked.  With a
\* free block on the right only, the header keeps its allocated bit.
MergedTags(m, bp) ==
  LET prev == prev_payload(m, bp)
      next == next_payload(m, bp)
      own  == SizeOf(m, bp)
      right == own + SizeOf(m, next)
      left  == own + SizeOf(m, prev)
      both  == left + Word(m, footer(m, next)).size
      wide  == SetSize(m, header(bp), right)
      ended == SetSize(m, footer(m, bp), left)
      open  == SetSize(m, header(prev), both)
  IN  CASE ~PrevFree(m, bp) /\ ~NextFree(m, bp) ->
             add_merge_block_to_freelist(SelfLinked(PutTags(m, bp, own, 0), bp), bp)
        [] ~PrevFree(m, bp) /\ NextFree(m, bp) ->
             remove_from_freelist(Put(wide, footer(wide, bp), Tag(right, 0)), next)
        [] PrevFree(m, bp) /\ ~NextFree(m, bp) ->
             remove_from_freelist(Put(ended, header(prev), Tag(left, 0)), prev)
        [] OTHER ->
             remove_from_freelist(
               remove_from_freelist(SetSize(open, footer(open, next), both), prev), next)

Linked(merged, brk, first, next) ==
  Heap(add_merge_block_to_freelist(merged, first), brk, LinkBack(merged, first, next), first)

\* Seeded bug: current_block does not move to the left neighbour.
coalesceStays(m, brk, bp) == Linked(MergedTags(m, bp), brk, bp, next_payload(m, bp))

coalesce(m, brk, bp) ==
  Linked(MergedTags(m, bp), brk, IF PrevFree(m, bp) THEN prev_payload(m, bp) ELSE bp,
         next_payload(m, bp))

WithEpilogue(m, p) == Put(m, header(next_payload(m, p)), Tag(0, 1))

extend_heap(m, brk, words) ==
  LET bytes == (IF words % 2 = 1 THEN words + 1 ELSE words) * WSIZE
      size  == IF bytes < 8 * WSIZE THEN 8 * WSIZE ELSE bytes
      area  == mem_sbrk(brk, size)
      free  == SelfLinked(PutTags(m, brk, size, 0), brk)
  IN  IF area.ok THEN coalesce(WithEpilogue(free, brk), area.brk, brk)
                 ELSE Heap(m, brk, "sound", NULL)

\* Block q between the links prev and next.
Between(m, q, prev, next) ==
  LET swap == PutPrev(PutNext(m, prev, Link(header(q))), next, Link(header(q)))
  IN  PutNext(PutPrev(swap, header(q), Link(prev)), header(q), Link(next))

\* The front of the block is handed out.  A remainder of two double words or
\* more becomes a block in its place, otherwise the block leaves the list.
place(m, p, asize) ==
  LET rest == SizeOf(m, p) - asize
      out  == PutNext(PutPrev(m, fnext(m, p), Link(fprev(m, p))), fprev(m, p), Link(fnext(m, p)))
      Split(q) == Between(PutTags(PutTags(m, p, asize, 1), q, rest, 0), q, fprev(m, p), fnext(m, p))
  IN  IF rest >= 2 * DWORD_SIZE
      THEN coalesce(Split(p + asize), 0, p + asize).mem
      ELSE remove_from_freelist(PutTags(out, p, SizeOf(m, p), 1), p)

\* First fit along the links, until they lead back to the prologue.
find_fit(m, asize) ==
  LET at    == LinkWalk(m)
      stops == {k \in DOMAIN at \ {0} : at[k] = Prologue \/ asize <= SizeOf(m, at[k])}
  IN  IF stops = {} \/ at[Fewest(stops)] = Prologue THEN NULL ELSE at[Fewest(stops)]

\* mm_init on an arena mmap has zeroed.
FreshHeap ==
  LET zero  == [a \in Words |-> Tag(0, 0)]
      start == mem_sbrk(0, 6 * WSIZE)
      tags  == SelfLinked(PutTags(zero, Prologue, 2 * DWORD_SIZE, 1), Prologue)
  IN  extend_heap(Put(tags, header(start.brk), Tag(0, 1)), start.brk, CHUNKSIZE \div 16)

\* Seeded bug: no room for the tags.
BareSize(size) == IF size <= DWORD_SIZE THEN 2 * DWORD_SIZE
                  ELSE DWORD_SIZE * ((size + (DWORD_SIZE - 1)) \div DWORD_SIZE)

AdjustedSize(size) ==
  IF size <= DWORD_SIZE THEN 2 * DWORD_SIZE
  ELSE DWORD_SIZE * ((size + DWORD_SIZE + (DWORD_SIZE - 1)) \div DWORD_SIZE)

\* Seeded bug: rounded down.
extendsizeDown(asize) == (asize \div CHUNKSIZE) * CHUNKSIZE

\* In bytes; extend_heap is given a sixteenth of it in words of 8.
extendsize(asize) == ((asize + CHUNKSIZE - 1) \div CHUNKSIZE) * CHUNKSIZE

\* Every growth fits into an int, as it does below 2 GB.
ASSUME GrowthAssumption ==
  /\ 8 * WSIZE < INT_SPAN \div 2 /\ CHUNKSIZE < INT_SPAN
  /\ \A n \in Requests : extendsize(AdjustedSize(n)) < INT_SPAN

\* mm_malloc of a positive size, from the search on.  In a block that is too
\* small the remainder wraps, and its footer is beyond all mapped memory.
PlaceIn(h, asize) ==
  CASE h.bp = NULL -> h
    [] h.bp # NULL /\ SizeOf(h.mem, h.bp) < asize -> [h EXCEPT !.health = "malloc faults", !.bp = NULL]
    [] OTHER -> [h EXCEPT !.mem = place(h.mem, h.bp, asize)]

Obtain(h, size) ==
  LET asize == AdjustedSize(size)
      bp    == find_fit(h.mem, asize)
  IN  PlaceIn(IF bp # NULL THEN [h EXCEPT !.bp = bp]
              ELSE extend_heap(h.mem, h.brk, extendsize(asize) \div 16), asize)

\* memcpy of n bytes, a word at a time.
Copied(m, to, from, n) ==
  [a \in Words |-> IF a \in to .. to + n - 1 THEN Word(m, from + (a - to)) ELSE m[a]]

-----------------------------------------------------------------------------
(* The calls. *)

Init ==
  /\ mem = [a \in Words |-> Tag(0, 0)] /\ mem_brk = 0 /\ heap_listp = NULL
  /\ live = <<>> /\ health = "sound" /\ calls = 0

\* The heap a request starts from: mm_malloc calls mm_init if nobody has.
Current == IF heap_listp = NULL THEN FreshHeap ELSE Heap(mem, mem_brk, "sound", NULL)

Held(S, p, bytes, known) ==
  [q \in S \cup {p} |-> IF q = p THEN [bytes |-> bytes, known |-> known] ELSE live[q]]

Becomes(h) == mem' = h.mem /\ mem_brk' = h.brk /\ health' = h.health

\* mm_init; again only after mm_deinit.
Start ==
  /\ mem_brk = 0 /\ Becomes(FreshHeap) /\ heap_listp' = Prologue
  /\ UNCHANGED live

\* The program calls mm_init before it allocates again after mm_deinit.
Malloc(size) ==
  /\ heap_listp = NULL \/ mem_brk > 0
  /\ \E h \in {IF size = 0 THEN Current ELSE Obtain(Current, size)} :
       /\ Becomes(h) /\ heap_listp' = Prologue
       /\ live' = IF h.bp = NULL \/ size = 0 THEN live ELSE Held(DOMAIN live, h.bp, size, 0)

Free(p) ==
  /\ p \in DOMAIN live
  /\ Becomes(coalesce(mem, mem_brk, p))
  /\ live' = [q \in DOMAIN live \ {p} |-> live[q]]
  /\ UNCHANGED heap_listp

\* Seeded bug: the old block is freed before it is copied.
ReallocFreesFirst(p, size) ==
  /\ p \in DOMAIN live /\ size > 0
  /\ \E h \in {Obtain(Heap(mem, mem_brk, "sound", NULL), size)} :
       /\ h.bp # NULL
       /\ \E freed \in {coalesce(h.mem, h.brk, p)} :
            Becomes([freed EXCEPT !.mem = Copied(@, h.bp, p, size)])
       /\ live' = Held(DOMAIN live \ {p}, h.bp, size, Fewest({live[p].known, size \div WSIZE}))
  /\ UNCHANGED heap_listp

\* A new block, the copy, the release of the old block; nothing if there is
\* no new block.  A size of 0 only frees.
Realloc(p, size) ==
  /\ p \in DOMAIN live /\ size > 0
  /\ \E h \in {Obtain(Heap(mem, mem_brk, "sound", NULL), size)} :
       IF h.bp = NULL THEN Becomes(h) /\ UNCHANGED live
       ELSE /\ Becomes(coalesce(Copied(h.mem, h.bp, p, Fewest({size, SizeOf(h.mem, p)})), h.brk, p))
            /\ live' = Held(DOMAIN live \ {p}, h.bp, size, Fewest({live[p].known, size \div WSIZE}))
  /\ UNCHANGED heap_listp

\* The program fills a block it holds, with data or with the address of a
\* block it holds.
Fill(p, v) ==
  /\ p \in DOMAIN live
  /\ mem' = [a \in Words |-> IF a \in p .. p + live[p].bytes - 1 THEN Link(v) ELSE mem[a]]
  /\ live' = [live EXCEPT ![p].known = live[p].bytes \div WSIZE]
  /\ UNCHANGED <<mem_brk, heap_listp, health>>

\* mm_deinit unmaps the arena; heap_listp keeps its value.
Stop ==
  /\ mem_brk > 0
  /\ mem' = [a \in Words |-> Tag(0, 0)] /\ mem_brk' = 0 /\ live' = <<>>
  /\ UNCHANGED <<heap_listp, health>>

Call ==
  \/ Start \/ Stop
  \/ \E size \in Requests : Malloc(size)
  \/ \E p \in DOMAIN live :
       \/ Free(p)
       \/ \E size \in Requests : Realloc(p, size)
       \/ Fills /\ \E v \in {NULL} \cup DOMAIN live : Fill(p, v)

Next == health = "sound" /\ calls < MaxCalls /\ Call /\ calls' = calls + 1

Spec == Init /\ [][Next]_vars
-----------------------------------------------------------------------------
(* Properties *)

\* There is a heap, and no call has gone wrong.
Sound == mem_brk > 0 /\ health = "sound"

\* The blocks, without the prologue.
Blocks == LET at == Walk(mem) IN {at[k] : k \in DOMAIN at \ {0}} \ {mem_brk}

HeaderBit(p) == Word(mem, header(p)).allocated
FooterBit(p) == Word(mem, footer(mem, p)).allocated

\* What checkheap and checkblock look at (mm.c:598-683), the allocation bits
\* apart: until a link goes astray the blocks form a chain that ends at the
\* break, with equal sizes at both ends.
HeapTiled ==
  Sound =>
    /\ mem[WSIZE] = Tag(2 * DWORD_SIZE, 1) /\ mem[4 * WSIZE] = Tag(2 * DWORD_SIZE, 1)
    /\ mem[header(mem_brk)] = Tag(0, 1)
    /\ Walk(mem)[MaxBlocks] = mem_brk
    /\ \A p \in Blocks : /\ SizeOf(mem, p) >= 2 * DWORD_SIZE
                         /\ Word(mem, footer(mem, p)).size = SizeOf(mem, p)

\* The program holds exactly the blocks that are allocated at both ends, and
\* each has the room it asked for, whatever was merged around it
\* (mm.c:278-417).
HeldBlocks ==
  Sound =>
    /\ {p \in Blocks : HeaderBit(p) = 1 /\ FooterBit(p) = 1} = DOMAIN live
    /\ \A p \in DOMAIN live : live[p].bytes <= SizeOf(mem, p) - DWORD_SIZE

\* What the program sees of its blocks.
Contents ==
  [p \in DOMAIN live |->
     [bytes |-> live[p].bytes,
      data  |-> [k \in 1 .. live[p].known |-> mem[p + WSIZE * (k - 1)]]]]

Promise == INSTANCE Allocation WITH
  Limit <- MAX_HEAP, Alignment <- DWORD_SIZE, Sizes <- Requests \ {0},
  WordBytes <- WSIZE, Values <- {Link(a) : a \in Payloads}, blocks <- Contents

\* A call that stores no link astray and does not fault keeps the promise of
\* malloc, free and realloc, although the links share the payload with the
\* program's data (mm.c:49-53).
PromiseUnlessAstray == [][health' # "sound" \/ Promise!Next]_Contents

\* A call of mm_free goes wrong exactly if only the right neighbour is free
\* and the second word of the block leads neither to the block nor to that
\* neighbour: every other link coalesce follows is one the allocator stored
\* (mm.c:104-134, 355-407).
FreeSoundUnlessLinkIsData ==
  [][\A p \in DOMAIN live : Free(p) =>
       (health' = "sound" <=> \/ PrevFree(mem, p) \/ ~NextFree(mem, p)
                              \/ fnext(mem, p) \in {header(p), header(next_payload(mem, p))})]_vars

\* Every block with a free header, and the prologue, is linked to itself and
\* to nothing else: unlinking one writes nothing into another block, and
\* find_fit ends at once (mm.c:104-134, 549-560).
LinkedToThemselves ==
  Sound =>
    \A p \in {Prologue} \cup {b \in Blocks : HeaderBit(b) = 0} :
      Word(mem, p) = Link(header(p)) /\ Word(mem, p + WSIZE) = Link(header(p))

\* The half of the growth extend_heap gets is enough for blocks of up to half
\* a chunk, on any heap (mm.c:325-329, 515).
SmallRequestsServed ==
  (\A n \in Requests : 2 * AdjustedSize(n) <= CHUNKSIZE) => health # "malloc faults"

\* "Newly freed blocks are inserted at the head of the free list" (mm.c:274):
\* the first block the list leads to is the one the freed block is part of.
FreedAtHead ==
  [][\A p \in DOMAIN live : Free(p) /\ health' = "sound" =>
       LET first == fnext(mem', Prologue) + WSIZE
       IN  first <= p /\ p < first + SizeOf(mem', first)]_vars

\* Comment on mm_free: "Frees a block of memory and adds it to the free list"
\* (mm.c:334): a block the program holds can be freed.
FreeReturns == health # "free faults"
=============================================================================
