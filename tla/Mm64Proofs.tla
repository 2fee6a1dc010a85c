----------------------------- MODULE Mm64Proofs -----------------------------
(***************************************************************************)
(* The 64-bit allocator for every arena, chunk size and list of requests:  *)
(* the heap stays tiled, coalescing is complete, the blocks held are the   *)
(* allocated ones, a refusal is justified, and all of it implements what   *)
(* malloc, free and realloc promise.                                       *)
(***************************************************************************)
EXTENDS Mm64, WellFoundedInduction, TLAPS

-----------------------------------------------------------------------------
(* Blocks.                                                                 *)

Memory == [Words -> Nat]

Size(m, p)  == get_size(m, hdr_pointer(p))
Alloc(m, p) == get_alloc(m, hdr_pointer(p))

\* Both tags of the block at p are the same and hold its size and one bit.
Tagged(m, p) ==
  /\ m[hdr_pointer(p)] = Size(m, p) \/ m[hdr_pointer(p)] = Size(m, p) + 1
  /\ m[ftr_pointer(m, p)] = m[hdr_pointer(p)]

\* The blocks at B, of which the prologue is one, fill the heap from the
\* prologue to the epilogue.
Tiles(m, brk, B) ==
  /\ m \in Memory /\ brk \in Pointers /\ B \subseteq Pointers
  /\ DSIZE \in B /\ m[WSIZE] = DSIZE + 1 /\ m[brk - WSIZE] = 1
  /\ \A p \in B : /\ Tagged(m, p) /\ p >= DSIZE /\ Size(m, p) >= DSIZE
                  /\ p # DSIZE => p >= MIN_BLOCK_SIZE /\ Size(m, p) >= MIN_BLOCK_SIZE
                  /\ p + Size(m, p) \in B \cup {brk} /\ p + Size(m, p) <= brk
  /\ \A p, q \in B : p < q => p + Size(m, p) <= q
  /\ \A q \in B \cup {brk} : q = DSIZE \/ \E p \in B : p + Size(m, p) = q

\* No two neighbours are free, but perhaps one of them is x.
NoTwoFree(m, B, x) ==
  \A p \in B : LET q == p + Size(m, p) IN
    q \in B /\ p # x /\ q # x => Alloc(m, p) = 1 \/ Alloc(m, q) = 1

\* The blocks the program holds.
Taken(m, B) == {p \in B \ {DSIZE} : Alloc(m, p) = 1}

Good(m, brk, B) == Tiles(m, brk, B) /\ NoTwoFree(m, B, NULL)

\* The program holds exactly the allocated blocks, each with room for what it
\* asked for; L is what it holds.
Owns(L, m, B) ==
  /\ Taken(m, B) = DOMAIN L
  /\ \A p \in DOMAIN L : L[p].bytes + DSIZE <= Size(m, p)

Block == [bytes : Requests \ {0}, known : Nat]

Typed(L) ==
  /\ DOMAIN L \subseteq Pointers /\ L \in [DOMAIN L -> Block]
  /\ \A p \in DOMAIN L : WSIZE * L[p].known <= L[p].bytes

\* The properties need a witness of the blocks that a walk would find: with it,
\* each routine is a statement about a set of blocks, and nothing is said about
\* walks before the blocks are known.
HeapInv ==
  /\ mem \in Memory /\ mem_brk \in Nat /\ heap_listp \in {NULL, DSIZE} /\ Typed(live)
  /\ heap_listp = NULL => mem_brk = 0
  /\ mem_brk = 0 => DOMAIN live = {}
  /\ Used => \E B \in SUBSET Pointers : Good(mem, mem_brk, B) /\ Owns(live, mem, B)
-----------------------------------------------------------------------------
(* Addresses and tags.                                                     *)

\* Block pointers are the double words of the arena.
LEMMA PointerIs == \A p : p \in Pointers <=> p \in Nat /\ p % DSIZE = 0 /\ p <= MAX_HEAP
<1> SUFFICES ASSUME NEW p
             PROVE  p \in Pointers <=> p \in Nat /\ p % DSIZE = 0 /\ p <= MAX_HEAP
  OBVIOUS
<1>1. MAX_HEAP \in Nat /\ DSIZE = 16 /\ MAX_HEAP \div 16 \in Nat
  BY MemLibAssumption DEF DSIZE
<1>2. ASSUME p \in Pointers PROVE p \in Nat /\ p % DSIZE = 0 /\ p <= MAX_HEAP
  <2>1. PICK k \in 0 .. MAX_HEAP \div 16 : p = 16 * k
    BY <1>1, <1>2 DEF Pointers
  <2> QED
    BY <1>1, <2>1
<1>3. ASSUME p \in Nat, p % DSIZE = 0, p <= MAX_HEAP PROVE p \in Pointers
  <2>1. p \div 16 \in 0 .. MAX_HEAP \div 16 /\ p = 16 * (p \div 16)
    BY <1>1, <1>3
  <2> QED
    BY <1>1, <2>1 DEF Pointers
<1> QED
  BY <1>2, <1>3

\* The words of the arena are its multiples of 8.
LEMMA WordIs == \A a : a \in Words <=> a \in Nat /\ a % WSIZE = 0 /\ a + WSIZE <= MAX_HEAP
<1> SUFFICES ASSUME NEW a
             PROVE  a \in Words <=> a \in Nat /\ a % WSIZE = 0 /\ a + WSIZE <= MAX_HEAP
  OBVIOUS
<1>1. MAX_HEAP \in Nat /\ WSIZE = 8 /\ MAX_HEAP \div 8 - 1 \in Int
  BY MemLibAssumption DEF WSIZE
<1>2. ASSUME a \in Words PROVE a \in Nat /\ a % WSIZE = 0 /\ a + WSIZE <= MAX_HEAP
  <2>1. PICK k \in 0 .. MAX_HEAP \div 8 - 1 : a = 8 * k
    BY <1>1, <1>2 DEF Words
  <2> QED
    BY <1>1, <2>1
<1>3. ASSUME a \in Nat, a % WSIZE = 0, a + WSIZE <= MAX_HEAP PROVE a \in Words
  <2>1. a \div 8 \in 0 .. MAX_HEAP \div 8 - 1 /\ a = 8 * (a \div 8)
    BY <1>1, <1>3
  <2> QED
    BY <1>1, <2>1 DEF Words
<1> QED
  BY <1>2, <1>3

\* What a tag says.
LEMMA TagSays ==
  ASSUME NEW m, NEW a, NEW size \in Nat, size % DSIZE = 0, NEW bit \in {0, 1}, m[a] = size + bit
  PROVE  get_size(m, a) = size /\ get_alloc(m, a) = bit
<1>1. (size + bit) % 16 = bit /\ (size + bit) % 2 = bit
  BY DEF DSIZE
<1> QED
  BY <1>1 DEF get_size, get_alloc

\* The words next to a pointer.
LEMMA TagWords ==
  \A p \in Pointers : p > 0 => p - WSIZE \in Words /\ p - DSIZE \in Words
  BY PointerIs, WordIs, MemLibAssumption DEF WSIZE, DSIZE

\* Any word read as a tag gives a size of whole double words.
LEMMA SizeIs ==
  ASSUME NEW m \in Memory, NEW a \in Words
  PROVE  /\ m[a] \in Nat /\ get_size(m, a) \in Nat /\ get_size(m, a) % DSIZE = 0
         /\ get_alloc(m, a) \in {0, 1}
<1>1. m[a] \in Nat
  BY DEF Memory
<1> QED
  BY <1>1 DEF get_size, get_alloc, DSIZE

\* The tags of a block that is there.
LEMMA BlockFacts ==
  ASSUME NEW m, NEW brk, NEW B, Tiles(m, brk, B), NEW p \in B
  PROVE  /\ p \in Nat /\ p % DSIZE = 0 /\ p >= DSIZE /\ p + Size(m, p) <= brk /\ brk <= MAX_HEAP
         /\ Size(m, p) \in Nat /\ Size(m, p) % DSIZE = 0 /\ Size(m, p) >= DSIZE
         /\ p + Size(m, p) \in Pointers /\ p \in Pointers
         /\ p - WSIZE \in Words /\ p + Size(m, p) - DSIZE \in Words
         /\ Alloc(m, p) \in {0, 1} /\ m[p - WSIZE] = Size(m, p) + Alloc(m, p)
         /\ m[p + Size(m, p) - DSIZE] = m[p - WSIZE]
<1>1. /\ p \in Pointers /\ brk \in Pointers /\ m \in Memory /\ p >= DSIZE
      /\ p + Size(m, p) \in B \cup {brk} /\ p + Size(m, p) <= brk
      /\ Size(m, p) >= DSIZE /\ Tagged(m, p) /\ B \subseteq Pointers
  BY DEF Tiles
<1>2. /\ p \in Nat /\ p % DSIZE = 0 /\ brk \in Nat /\ brk <= MAX_HEAP /\ p > 0
      /\ p + Size(m, p) \in Pointers
  BY <1>1, PointerIs DEF DSIZE
<1>3. p - WSIZE \in Words
  BY <1>1, <1>2, TagWords
<1>4. Size(m, p) \in Nat /\ Size(m, p) % DSIZE = 0 /\ Alloc(m, p) \in {0, 1} /\ m[p - WSIZE] \in Nat
  BY <1>1, <1>3, SizeIs DEF Size, Alloc, hdr_pointer
<1>5. p + Size(m, p) - DSIZE \in Words
  <2>1. p + Size(m, p) > 0
    BY <1>2, <1>4
  <2> QED
    BY <1>2, <1>4, <2>1, TagWords DEF WSIZE, DSIZE
<1>6. m[p - WSIZE] = Size(m, p) + Alloc(m, p)
  <2>1. m[p - WSIZE] = Size(m, p) \/ m[p - WSIZE] = Size(m, p) + 1
    BY <1>1 DEF Tagged, hdr_pointer
  <2>2. CASE m[p - WSIZE] = Size(m, p)
    <3>1. Alloc(m, p) = 0
      <4>1. m[p - WSIZE] = Size(m, p) + 0
        BY <1>4, <2>2
      <4> QED
        BY <1>4, <4>1, TagSays DEF Alloc, hdr_pointer
    <3> QED
      BY <1>4, <2>2, <3>1
  <2>3. CASE m[p - WSIZE] = Size(m, p) + 1
    <3>1. Alloc(m, p) = 1
      BY <1>4, <2>3, TagSays DEF Alloc, hdr_pointer
    <3> QED
      BY <2>3, <3>1
  <2> QED
    BY <2>1, <2>2, <2>3
<1>7. m[p + Size(m, p) - DSIZE] = m[p - WSIZE]
  BY <1>1 DEF Tagged, ftr_pointer, Size, hdr_pointer
<1> QED
  BY <1>1, <1>2, <1>3, <1>4, <1>5, <1>6, <1>7
-----------------------------------------------------------------------------
(* The blocks between two places of the heap are replaced.                 *)

\* The tags of a block that is not between lo and hi are where they were.
LEMMA OutsideSame ==
  ASSUME NEW m, NEW brk, NEW B, Tiles(m, brk, B), NEW lo \in B, NEW hi \in B \cup {brk}, lo < hi,
         NEW m2 \in Memory,
         \A a \in Words : a < lo - WSIZE \/ a >= hi - WSIZE => m2[a] = m[a],
         NEW p \in B, p < lo \/ p >= hi
  PROVE  /\ m2[p - WSIZE] = m[p - WSIZE] /\ Size(m2, p) = Size(m, p) /\ Alloc(m2, p) = Alloc(m, p)
         /\ Tagged(m2, p)
         /\ p < lo => p + Size(m, p) <= lo
<1>1. /\ lo \in Nat /\ lo % DSIZE = 0 /\ hi \in Nat /\ hi % DSIZE = 0
  BY PointerIs DEF Tiles
<1>2. /\ p \in Nat /\ p % DSIZE = 0 /\ Size(m, p) \in Nat /\ Size(m, p) >= DSIZE
      /\ p - WSIZE \in Words /\ p + Size(m, p) - DSIZE \in Words
  BY BlockFacts
<1>3. p < lo => p + Size(m, p) <= lo
  BY DEF Tiles
<1>4. m2[p - WSIZE] = m[p - WSIZE]
  BY <1>1, <1>2 DEF WSIZE
<1>5. m2[p + Size(m, p) - DSIZE] = m[p + Size(m, p) - DSIZE]
  BY <1>1, <1>2, <1>3 DEF WSIZE, DSIZE
<1>6. Size(m2, p) = Size(m, p) /\ Alloc(m2, p) = Alloc(m, p)
  BY <1>4 DEF Size, Alloc, get_size, get_alloc, hdr_pointer
<1>7. Tagged(m, p)
  BY DEF Tiles
<1>8. Tagged(m2, p)
  <2>1. ftr_pointer(m2, p) = p + Size(m, p) - DSIZE /\ ftr_pointer(m, p) = p + Size(m, p) - DSIZE
    BY <1>6 DEF ftr_pointer, Size
  <2> QED
    BY <1>4, <1>5, <1>6, <1>7, <2>1 DEF Tagged, hdr_pointer
<1> QED
  BY <1>3, <1>4, <1>6, <1>8

\* New blocks that fill the place from lo to hi make a heap with those
\* outside.
LEMMA Retile ==
  ASSUME NEW m, NEW brk, NEW B, Tiles(m, brk, B), NEW lo \in B, lo # DSIZE,
         NEW hi \in B \cup {brk}, lo < hi, NEW m2 \in Memory,
         \A a \in Words : a < lo - WSIZE \/ a >= hi - WSIZE => m2[a] = m[a],
         NEW New \in SUBSET Pointers, lo \in New,
         \A p \in New : /\ Tagged(m2, p) /\ lo <= p /\ p < hi /\ Size(m2, p) >= MIN_BLOCK_SIZE
                        /\ p + Size(m2, p) \in New \cup {hi} /\ p + Size(m2, p) <= hi,
         \A p, q \in New : p < q => p + Size(m2, p) <= q,
         \A q \in New \cup {hi} : q # lo => \E p \in New : p + Size(m2, p) = q
  PROVE  Tiles(m2, brk, {p \in B : p < lo \/ p >= hi} \cup New)
<1> DEFINE Old == {p \in B : p < lo \/ p >= hi}
           C   == Old \cup New
<1>1. /\ brk \in Pointers /\ B \subseteq Pointers /\ DSIZE \in B /\ Old \subseteq B
      /\ lo \in Nat /\ hi \in Nat /\ brk \in Nat /\ hi <= brk
      /\ \A p \in B : p \in Nat
  <2>1. \A p \in B : p + Size(m, p) <= brk /\ Size(m, p) \in Nat /\ p \in Nat
    BY BlockFacts
  <2> QED
    BY <2>1, PointerIs DEF Tiles
<1>2. \A p \in Old : /\ m2[p - WSIZE] = m[p - WSIZE] /\ Size(m2, p) = Size(m, p) /\ Tagged(m2, p)
                     /\ p < lo => p + Size(m, p) <= lo
  BY OutsideSame
<1>3. \A p \in New : p \in Nat /\ Size(m2, p) \in Nat
  <2>1. \A p \in New : p \in Nat /\ p > 0
    BY <1>1, PointerIs, BlockFacts DEF DSIZE
  <2>2. \A p \in New : p - WSIZE \in Words
    BY <2>1, TagWords
  <2> QED
    BY <2>1, <2>2, SizeIs DEF Size, hdr_pointer
<1>4. DSIZE < lo /\ DSIZE \in Old
  BY <1>1 DEF Tiles
<1>5. m2[WSIZE] = DSIZE + 1
  <2>1. m[WSIZE] = DSIZE + 1
    BY DEF Tiles
  <2>2. m2[DSIZE - WSIZE] = m[DSIZE - WSIZE] /\ DSIZE - WSIZE = WSIZE
    BY <1>2, <1>4 DEF DSIZE, WSIZE
  <2> QED
    BY <2>1, <2>2
<1>6. m2[brk - WSIZE] = 1
  <2>1. brk - WSIZE \in Words /\ brk - WSIZE >= hi - WSIZE
    BY <1>1, <1>4, TagWords DEF WSIZE, DSIZE
  <2> QED
    BY <2>1 DEF Tiles
<1>7. \A p \in Old : /\ Tagged(m2, p) /\ p >= DSIZE /\ Size(m2, p) >= DSIZE
                     /\ p # DSIZE => p >= MIN_BLOCK_SIZE /\ Size(m2, p) >= MIN_BLOCK_SIZE
                     /\ p + Size(m2, p) \in C \cup {brk} /\ p + Size(m2, p) <= brk
  <2> SUFFICES ASSUME NEW p \in Old
               PROVE  /\ Tagged(m2, p) /\ p >= DSIZE /\ Size(m2, p) >= DSIZE
                      /\ p # DSIZE => p >= MIN_BLOCK_SIZE /\ Size(m2, p) >= MIN_BLOCK_SIZE
                      /\ p + Size(m2, p) \in C \cup {brk} /\ p + Size(m2, p) <= brk
    OBVIOUS
  <2>1. /\ p >= DSIZE /\ Size(m, p) >= DSIZE
        /\ p # DSIZE => p >= MIN_BLOCK_SIZE /\ Size(m, p) >= MIN_BLOCK_SIZE
        /\ p + Size(m, p) \in B \cup {brk} /\ p + Size(m, p) <= brk
    BY <1>1 DEF Tiles
  <2>2. p + Size(m, p) \in C \cup {brk}
    <3>1. p + Size(m, p) \in Nat /\ Size(m, p) \in Nat /\ p \in Nat
      BY <1>1, BlockFacts
    <3>2. CASE p < lo
      BY <1>1, <1>2, <2>1, <3>1, <3>2
    <3>3. CASE p >= hi
      BY <1>1, <2>1, <3>1, <3>3 DEF DSIZE
    <3> QED
      BY <3>2, <3>3
  <2> QED
    BY <1>2, <2>1, <2>2
<1>8. \A p \in New : /\ Tagged(m2, p) /\ p >= DSIZE /\ Size(m2, p) >= DSIZE
                     /\ p # DSIZE => p >= MIN_BLOCK_SIZE /\ Size(m2, p) >= MIN_BLOCK_SIZE
                     /\ p + Size(m2, p) \in C \cup {brk} /\ p + Size(m2, p) <= brk
  <2> SUFFICES ASSUME NEW p \in New
               PROVE  /\ Tagged(m2, p) /\ p >= DSIZE /\ Size(m2, p) >= DSIZE
                      /\ p # DSIZE => p >= MIN_BLOCK_SIZE /\ Size(m2, p) >= MIN_BLOCK_SIZE
                      /\ p + Size(m2, p) \in C \cup {brk} /\ p + Size(m2, p) <= brk
    OBVIOUS
  <2>1. /\ Tagged(m2, p) /\ lo <= p /\ p < hi /\ Size(m2, p) >= MIN_BLOCK_SIZE
        /\ p + Size(m2, p) \in New \cup {hi} /\ p + Size(m2, p) <= hi
    OBVIOUS
  <2>2. lo >= MIN_BLOCK_SIZE
    BY DEF Tiles
  <2>3. hi \in Old \cup {brk}
    BY <1>1
  <2> QED
    BY <1>1, <1>3, <2>1, <2>2, <2>3 DEF DSIZE, MIN_BLOCK_SIZE
<1>9. \A p, q \in C : p < q => p + Size(m2, p) <= q
  <2> SUFFICES ASSUME NEW p \in C, NEW q \in C, p < q PROVE p + Size(m2, p) <= q
    OBVIOUS
  <2>1. CASE p \in Old /\ q \in Old
    BY <1>2, <2>1 DEF Tiles
  <2>2. CASE p \in Old /\ q \in New
    <3>1. p < lo
      BY <1>1, <1>3, <2>2
    <3> QED
      BY <1>1, <1>2, <1>3, <2>2, <3>1, BlockFacts
  <2>3. CASE p \in New /\ q \in Old
    <3>1. q >= hi
      BY <1>1, <1>3, <2>3
    <3> QED
      BY <1>1, <1>3, <2>3, <3>1
  <2>4. CASE p \in New /\ q \in New
    BY <2>4
  <2> QED
    BY <2>1, <2>2, <2>3, <2>4
<1>10. \A q \in C \cup {brk} : q = DSIZE \/ \E p \in C : p + Size(m2, p) = q
  <2> SUFFICES ASSUME NEW q \in C \cup {brk}, q # DSIZE PROVE \E p \in C : p + Size(m2, p) = q
    OBVIOUS
  <2>1. CASE q \in New \cup {hi} /\ q # lo
    BY <2>1
  <2>2. CASE q \notin New \cup {hi} \/ q = lo
    <3>1. q \in B \cup {brk} /\ q \in Nat
      BY <1>1, <2>2
    <3>2. PICK p \in B : p + Size(m, p) = q
      BY <3>1 DEF Tiles
    <3>3. p \in Nat /\ Size(m, p) \in Nat /\ Size(m, p) >= DSIZE
      BY BlockFacts
    <3>4. p < lo \/ p >= hi
      <4>1. CASE q = lo
        BY <3>2, <3>3, <4>1 DEF DSIZE
      <4>2. CASE q # lo
        <5>1. q < lo \/ q > hi
          <6>1. q \in Old \cup {brk} /\ q # hi
            BY <2>2, <4>2
          <6> QED
            BY <1>1, <3>1, <6>1
        <5>2. CASE q < lo
          BY <1>1, <3>2, <3>3, <5>2
        <5>3. CASE q > hi
          <6> SUFFICES ASSUME p < hi PROVE FALSE
            BY <1>1, <3>3
          <6>1. hi \in B
            BY <1>1, <3>1, <5>3, BlockFacts DEF Tiles
          <6>2. p + Size(m, p) <= hi
            BY <6>1 DEF Tiles
          <6> QED
            BY <1>1, <3>2, <5>3, <6>2
        <5> QED
          BY <5>1, <5>2, <5>3
      <4> QED
        BY <4>1, <4>2
    <3>5. p \in C /\ p + Size(m2, p) = q
      BY <1>2, <3>2, <3>4
    <3> QED
      BY <3>5
  <2> QED
    BY <2>1, <2>2
<1>11. DSIZE \in C /\ C \subseteq Pointers
  BY <1>1, <1>4
<1>12. \A p \in C : /\ Tagged(m2, p) /\ p >= DSIZE /\ Size(m2, p) >= DSIZE
                    /\ p # DSIZE => p >= MIN_BLOCK_SIZE /\ Size(m2, p) >= MIN_BLOCK_SIZE
                    /\ p + Size(m2, p) \in C \cup {brk} /\ p + Size(m2, p) <= brk
  BY <1>7, <1>8
<1> HIDE DEF C
<1>13. Tiles(m2, brk, C)
  BY <1>1, <1>5, <1>6, <1>9, <1>10, <1>11, <1>12 DEF Tiles
<1> QED
  BY <1>13 DEF C

\* One block from lo to hi.
LEMMA OneBlock ==
  ASSUME NEW m, NEW brk, NEW B, Tiles(m, brk, B), NEW lo \in B, lo # DSIZE,
         NEW hi \in B \cup {brk}, lo < hi, NEW m2 \in Memory, NEW bit \in {0, 1},
         \A a \in Words : m2[a] = IF a = lo - WSIZE \/ a = hi - DSIZE THEN (hi - lo) + bit
                                  ELSE m[a]
  PROVE  /\ Tiles(m2, brk, {p \in B : p < lo \/ p >= hi} \cup {lo})
         /\ Size(m2, lo) = hi - lo /\ Alloc(m2, lo) = bit
         /\ \A p \in B : p < lo \/ p >= hi =>
              /\ m2[p - WSIZE] = m[p - WSIZE] /\ Size(m2, p) = Size(m, p)
              /\ Alloc(m2, p) = Alloc(m, p)
<1>1. /\ lo \in Pointers /\ hi \in Pointers /\ lo \in Nat /\ hi \in Nat
      /\ lo % DSIZE = 0 /\ hi % DSIZE = 0 /\ lo > 0 /\ hi > 0
  BY PointerIs DEF Tiles, DSIZE
<1>2. lo - WSIZE \in Words /\ hi - DSIZE \in Words /\ hi - lo \in Nat /\ (hi - lo) % DSIZE = 0
  BY <1>1, TagWords DEF WSIZE, DSIZE
<1>3. hi - lo >= MIN_BLOCK_SIZE
  <2>1. Size(m, lo) \in Nat
    BY BlockFacts
  <2>2. Size(m, lo) >= MIN_BLOCK_SIZE /\ lo + Size(m, lo) <= hi
    BY DEF Tiles
  <2> QED
    BY <1>1, <2>1, <2>2 DEF MIN_BLOCK_SIZE
<1>4. m2[lo - WSIZE] = (hi - lo) + bit /\ m2[hi - DSIZE] = (hi - lo) + bit
  BY <1>2
<1>5. Size(m2, lo) = hi - lo /\ Alloc(m2, lo) = bit
  BY <1>2, <1>4, TagSays DEF Size, Alloc, hdr_pointer
<1>6. Tagged(m2, lo)
  <2>1. ftr_pointer(m2, lo) = hi - DSIZE
    BY <1>1, <1>5 DEF ftr_pointer, Size, DSIZE
  <2> QED
    BY <1>1, <1>4, <1>5, <2>1 DEF Tagged, hdr_pointer
<1>7. \A a \in Words : a < lo - WSIZE \/ a >= hi - WSIZE => m2[a] = m[a]
  BY <1>1, WordIs DEF WSIZE, DSIZE
<1>8. lo + Size(m2, lo) = hi
  BY <1>1, <1>5
<1> DEFINE New == {lo}
<1>9. /\ New \in SUBSET Pointers /\ lo \in New
      /\ \A p \in New : /\ Tagged(m2, p) /\ lo <= p /\ p < hi /\ Size(m2, p) >= MIN_BLOCK_SIZE
                        /\ p + Size(m2, p) \in New \cup {hi} /\ p + Size(m2, p) <= hi
      /\ \A p, q \in New : p < q => p + Size(m2, p) <= q
      /\ \A q \in New \cup {hi} : q # lo => \E p \in New : p + Size(m2, p) = q
  BY <1>1, <1>3, <1>5, <1>6, <1>8
<1>10. Tiles(m2, brk, {p \in B : p < lo \/ p >= hi} \cup {lo})
  <2> HIDE DEF New
  <2>1. Tiles(m2, brk, {p \in B : p < lo \/ p >= hi} \cup New)
    BY <1>7, <1>9, Retile
  <2> QED
    BY <2>1 DEF New
<1>11. \A p \in B : p < lo \/ p >= hi =>
         /\ m2[p - WSIZE] = m[p - WSIZE] /\ Size(m2, p) = Size(m, p)
         /\ Alloc(m2, p) = Alloc(m, p)
  BY <1>7, OutsideSame
<1> QED
  BY <1>5, <1>10, <1>11

\* Two blocks, an allocated one from lo to mid and a free one from mid to hi.
LEMMA TwoBlocks ==
  ASSUME NEW m, NEW brk, NEW B, Tiles(m, brk, B), NEW lo \in B, lo # DSIZE,
         NEW hi, hi = lo + Size(m, lo), NEW m2 \in Memory, NEW mid \in Pointers,
         lo + MIN_BLOCK_SIZE <= mid, mid + MIN_BLOCK_SIZE <= hi,
         \A a \in Words : m2[a] = IF a = lo - WSIZE \/ a = mid - DSIZE THEN (mid - lo) + 1
                                  ELSE IF a = mid - WSIZE \/ a = hi - DSIZE THEN hi - mid
                                  ELSE m[a]
  PROVE  /\ Tiles(m2, brk, B \cup {mid}) /\ mid \notin B
         /\ Size(m2, lo) = mid - lo /\ Alloc(m2, lo) = 1
         /\ Size(m2, mid) = hi - mid /\ Alloc(m2, mid) = 0
         /\ \A p \in B : p # lo =>
              /\ m2[p - WSIZE] = m[p - WSIZE] /\ Size(m2, p) = Size(m, p)
              /\ Alloc(m2, p) = Alloc(m, p)
<1>0. hi \in B \cup {brk}
  BY DEF Tiles
<1>1. /\ lo \in Pointers /\ hi \in Pointers /\ lo \in Nat /\ hi \in Nat /\ mid \in Nat
      /\ lo % DSIZE = 0 /\ hi % DSIZE = 0 /\ mid % DSIZE = 0
      /\ lo > 0 /\ hi > 0 /\ mid > 0 /\ lo < hi /\ lo < mid /\ mid < hi
  BY <1>0, PointerIs DEF Tiles, DSIZE, MIN_BLOCK_SIZE
<1>2. /\ lo - WSIZE \in Words /\ hi - DSIZE \in Words
      /\ mid - WSIZE \in Words /\ mid - DSIZE \in Words
      /\ hi - mid \in Nat /\ (hi - mid) % DSIZE = 0 /\ hi - mid >= MIN_BLOCK_SIZE
      /\ mid - lo \in Nat /\ (mid - lo) % DSIZE = 0 /\ mid - lo >= MIN_BLOCK_SIZE
  BY <1>1, TagWords DEF WSIZE, DSIZE, MIN_BLOCK_SIZE
<1>3. /\ m2[lo - WSIZE] = (mid - lo) + 1 /\ m2[mid - DSIZE] = (mid - lo) + 1
      /\ m2[mid - WSIZE] = hi - mid /\ m2[hi - DSIZE] = hi - mid
  <2>1. lo - WSIZE # mid - WSIZE /\ mid - DSIZE # mid - WSIZE /\ hi - DSIZE # lo - WSIZE
          /\ hi - DSIZE # mid - DSIZE /\ lo - WSIZE # mid - DSIZE /\ mid - WSIZE # lo - WSIZE
          /\ lo - WSIZE # hi - DSIZE /\ mid - DSIZE # hi - DSIZE
    BY <1>1, <1>2 DEF WSIZE, DSIZE, MIN_BLOCK_SIZE
  <2> QED
    BY <1>2, <2>1
<1>4. Size(m2, lo) = mid - lo /\ Alloc(m2, lo) = 1
  BY <1>2, <1>3, TagSays DEF Size, Alloc, hdr_pointer
<1>5. Size(m2, mid) = hi - mid /\ Alloc(m2, mid) = 0
  <2>1. m2[mid - WSIZE] = (hi - mid) + 0 /\ hi - mid \in Nat /\ (hi - mid) % DSIZE = 0
    BY <1>2, <1>3
  <2>2. get_size(m2, mid - WSIZE) = hi - mid /\ get_alloc(m2, mid - WSIZE) = 0
    BY <2>1, TagSays
  <2> QED
    BY <2>2 DEF Size, Alloc, hdr_pointer
<1>6. lo + Size(m2, lo) = mid /\ mid + Size(m2, mid) = hi
  BY <1>1, <1>4, <1>5
<1>7. Tagged(m2, lo) /\ Tagged(m2, mid)
  <2>1. ftr_pointer(m2, lo) = mid - DSIZE /\ ftr_pointer(m2, mid) = hi - DSIZE
    BY <1>1, <1>2, <1>4, <1>5 DEF ftr_pointer, Size, DSIZE
  <2> QED
    BY <1>1, <1>3, <1>4, <1>5, <2>1 DEF Tagged, hdr_pointer
<1>8. \A a \in Words : a < lo - WSIZE \/ a >= hi - WSIZE => m2[a] = m[a]
  BY <1>1, WordIs DEF WSIZE, DSIZE
<1> DEFINE New == {lo, mid}
<1>9. /\ New \in SUBSET Pointers /\ lo \in New
      /\ \A p \in New : /\ Tagged(m2, p) /\ lo <= p /\ p < hi /\ Size(m2, p) >= MIN_BLOCK_SIZE
                        /\ p + Size(m2, p) \in New \cup {hi} /\ p + Size(m2, p) <= hi
  <2>1. lo <= lo /\ lo < hi /\ lo <= mid /\ mid < hi /\ mid <= hi /\ hi <= hi
    BY <1>1
  <2> QED
    BY <1>1, <1>2, <1>4, <1>5, <1>6, <1>7, <2>1
<1>10. \A p, q \in New : p < q => p + Size(m2, p) <= q
  <2>1. ~(lo < lo) /\ ~(mid < mid) /\ ~(mid < lo) /\ mid <= mid
    BY <1>1
  <2> QED
    BY <1>6, <2>1
<1>11. \A q \in New \cup {hi} : q # lo => \E p \in New : p + Size(m2, p) = q
  BY <1>6
<1> HIDE DEF New
<1>12. Tiles(m2, brk, {p \in B : p < lo \/ p >= hi} \cup New)
  BY <1>0, <1>1, <1>8, <1>9, <1>10, <1>11, Retile
<1>13. \A p \in B : p < lo \/ p >= hi \/ p = lo
  BY <1>1 DEF Tiles
<1>14. {p \in B : p < lo \/ p >= hi} \cup New = B \cup {mid}
  BY <1>13 DEF New
<1>15. mid \notin B
  BY <1>1, <1>13
<1>16. \A p \in B : p < lo \/ p >= hi =>
         /\ m2[p - WSIZE] = m[p - WSIZE] /\ Size(m2, p) = Size(m, p)
         /\ Alloc(m2, p) = Alloc(m, p)
  BY <1>0, <1>1, <1>8, OutsideSame
<1> QED
  BY <1>4, <1>5, <1>12, <1>13, <1>14, <1>15, <1>16

\* m2 is m with tags for a free block from brk to top and an epilogue at top.
Grown(m, m2, brk, top) ==
  \A a \in Words : m2[a] = IF a = brk - WSIZE \/ a = top - DSIZE THEN top - brk
                           ELSE IF a = top - WSIZE THEN 1 ELSE m[a]

\* A block behind the last one.
LEMMA MoreHeap ==
  ASSUME NEW m, NEW brk, NEW B, Tiles(m, brk, B), NEW top \in Pointers, NEW m2 \in Memory,
         brk + MIN_BLOCK_SIZE <= top, Grown(m, m2, brk, top)
  PROVE  /\ Tiles(m2, top, B \cup {brk}) /\ brk \notin B /\ brk # DSIZE
         /\ Size(m2, brk) = top - brk /\ Alloc(m2, brk) = 0
         /\ \A p \in B : /\ m2[p - WSIZE] = m[p - WSIZE] /\ Size(m2, p) = Size(m, p)
                         /\ Alloc(m2, p) = Alloc(m, p)
<1>1. /\ brk \in Pointers /\ B \subseteq Pointers /\ brk \in Nat /\ top \in Nat
      /\ brk % DSIZE = 0 /\ top % DSIZE = 0 /\ top > 0 /\ brk < top
      /\ top - brk \in Nat /\ (top - brk) % DSIZE = 0 /\ top - brk >= MIN_BLOCK_SIZE
  BY PointerIs DEF Tiles, DSIZE, MIN_BLOCK_SIZE
<1>2. /\ \A p \in B : p \in Nat /\ p < brk /\ p + Size(m, p) <= brk /\ Size(m, p) \in Nat
      /\ DSIZE \in B
  <2>1. \A p \in B : p \in Nat /\ p + Size(m, p) <= brk /\ Size(m, p) \in Nat /\ Size(m, p) >= DSIZE
    BY BlockFacts
  <2>2. DSIZE \in B
    BY DEF Tiles
  <2>3. \A p \in B : p < brk
    BY <1>1, <2>1 DEF DSIZE
  <2> QED
    BY <2>1, <2>2, <2>3
<1>3. brk > DSIZE
  BY <1>1, <1>2
<1>4. brk - WSIZE \in Words /\ top - WSIZE \in Words /\ top - DSIZE \in Words
  BY <1>1, <1>3, TagWords DEF DSIZE
<1>5. m2[brk - WSIZE] = top - brk /\ m2[top - DSIZE] = top - brk /\ m2[top - WSIZE] = 1
  <2>1. top - WSIZE # top - DSIZE /\ top - WSIZE # brk - WSIZE
    BY <1>1 DEF DSIZE, WSIZE
  <2> QED
    BY <1>4, <2>1 DEF Grown
<1>6. Size(m2, brk) = top - brk /\ Alloc(m2, brk) = 0
  <2>1. m2[brk - WSIZE] = (top - brk) + 0
    BY <1>1, <1>5
  <2> QED
    BY <1>1, <2>1, TagSays DEF Size, Alloc, hdr_pointer
<1>7. brk + Size(m2, brk) = top
  BY <1>1, <1>6
<1>8. Tagged(m2, brk)
  <2>1. ftr_pointer(m2, brk) = top - DSIZE
    BY <1>1, <1>6 DEF ftr_pointer, Size, DSIZE
  <2> QED
    BY <1>5, <1>6, <2>1 DEF Tagged, hdr_pointer
<1>9. ASSUME NEW p \in B
      PROVE  /\ m2[p - WSIZE] = m[p - WSIZE] /\ Size(m2, p) = Size(m, p)
             /\ Alloc(m2, p) = Alloc(m, p) /\ Tagged(m2, p)
  <2>1. /\ p \in Nat /\ p < brk /\ p + Size(m, p) <= brk /\ Size(m, p) \in Nat
        /\ p - WSIZE \in Words /\ p + Size(m, p) - DSIZE \in Words /\ Size(m, p) >= DSIZE
    BY <1>2, BlockFacts
  <2>2. m2[p - WSIZE] = m[p - WSIZE]
    BY <1>1, <2>1 DEF WSIZE, DSIZE, MIN_BLOCK_SIZE, Grown
  <2>3. m2[p + Size(m, p) - DSIZE] = m[p + Size(m, p) - DSIZE]
    BY <1>1, <2>1 DEF WSIZE, DSIZE, MIN_BLOCK_SIZE, Grown
  <2>4. Size(m2, p) = Size(m, p) /\ Alloc(m2, p) = Alloc(m, p)
    BY <2>2 DEF Size, Alloc, get_size, get_alloc, hdr_pointer
  <2>5. Tagged(m, p)
    BY DEF Tiles
  <2>6. ftr_pointer(m2, p) = p + Size(m, p) - DSIZE /\ ftr_pointer(m, p) = p + Size(m, p) - DSIZE
    BY <2>4 DEF ftr_pointer, Size
  <2>7. Tagged(m2, p)
    BY <2>2, <2>3, <2>4, <2>5, <2>6 DEF Tagged, hdr_pointer
  <2> QED
    BY <2>2, <2>4, <2>7
<1>10. m2[WSIZE] = DSIZE + 1
  <2>1. m[WSIZE] = DSIZE + 1
    BY DEF Tiles
  <2>2. m2[DSIZE - WSIZE] = m[DSIZE - WSIZE] /\ DSIZE - WSIZE = WSIZE
    BY <1>2, <1>9 DEF DSIZE, WSIZE
  <2> QED
    BY <2>1, <2>2
<1> DEFINE C == B \cup {brk}
<1>11. \A p \in C : /\ Tagged(m2, p) /\ p >= DSIZE /\ Size(m2, p) >= DSIZE
                    /\ p # DSIZE => p >= MIN_BLOCK_SIZE /\ Size(m2, p) >= MIN_BLOCK_SIZE
                    /\ p + Size(m2, p) \in C \cup {top} /\ p + Size(m2, p) <= top
  <2>1. ASSUME NEW p \in B
        PROVE  /\ Tagged(m2, p) /\ p >= DSIZE /\ Size(m2, p) >= DSIZE
               /\ p # DSIZE => p >= MIN_BLOCK_SIZE /\ Size(m2, p) >= MIN_BLOCK_SIZE
               /\ p + Size(m2, p) \in C \cup {top} /\ p + Size(m2, p) <= top
    <3>1. /\ p >= DSIZE /\ Size(m, p) >= DSIZE
          /\ p # DSIZE => p >= MIN_BLOCK_SIZE /\ Size(m, p) >= MIN_BLOCK_SIZE
          /\ p + Size(m, p) \in B \cup {brk} /\ p + Size(m, p) <= brk
      BY DEF Tiles
    <3> QED
      BY <1>1, <1>2, <1>9, <3>1
  <2>2. brk >= MIN_BLOCK_SIZE /\ Size(m2, brk) >= MIN_BLOCK_SIZE /\ Size(m2, brk) >= DSIZE
    BY <1>1, <1>3, <1>6 DEF DSIZE, MIN_BLOCK_SIZE
  <2>3. brk + Size(m2, brk) \in C \cup {top} /\ brk + Size(m2, brk) <= top /\ brk >= DSIZE
    BY <1>1, <1>3, <1>7 DEF DSIZE
  <2> QED
    BY <1>8, <2>1, <2>2, <2>3
<1>12. \A p, q \in C : p < q => p + Size(m2, p) <= q
  <2> SUFFICES ASSUME NEW p \in C, NEW q \in C, p < q PROVE p + Size(m2, p) <= q
    OBVIOUS
  <2>1. p \in B
    BY <1>1, <1>2
  <2>2. CASE q \in B
    BY <1>9, <2>1, <2>2 DEF Tiles
  <2>3. CASE q = brk
    BY <1>2, <1>9, <2>1, <2>3
  <2> QED
    BY <2>2, <2>3
<1>13. \A q \in C \cup {top} : q = DSIZE \/ \E p \in C : p + Size(m2, p) = q
  <2>1. ASSUME NEW q \in B \cup {brk}, q # DSIZE PROVE \E p \in C : p + Size(m2, p) = q
    <3>1. PICK p \in B : p + Size(m, p) = q
      BY <2>1 DEF Tiles
    <3> QED
      BY <1>9, <3>1
  <2> QED
    BY <1>7, <2>1
<1>14. DSIZE \in C /\ C \subseteq Pointers /\ brk \notin B
  BY <1>1, <1>2
<1> HIDE DEF C
<1>15. Tiles(m2, top, C)
  BY <1>5, <1>10, <1>11, <1>12, <1>13, <1>14 DEF Tiles
<1> QED
  BY <1>3, <1>6, <1>9, <1>14, <1>15 DEF C, DSIZE
-----------------------------------------------------------------------------
(* What the internal routines write.                                       *)

\* A word is written.
LEMMA WordPut ==
  \A m \in Memory, w \in Nat : \A p :
    /\ put_word(m, p, w) \in Memory
    /\ \A a \in Words : put_word(m, p, w)[a] = IF a = p THEN w ELSE m[a]
<1> SUFFICES ASSUME NEW m \in Memory, NEW w \in Nat, NEW p
             PROVE  /\ put_word(m, p, w) \in Memory
                    /\ \A a \in Words : put_word(m, p, w)[a] = IF a = p THEN w ELSE m[a]
  OBVIOUS
<1>1. /\ [m EXCEPT ![p] = w] \in Memory
      /\ \A a \in Words : [m EXCEPT ![p] = w][a] = IF a = p THEN w ELSE m[a]
  BY DEF Memory
<1> QED
  BY <1>1 DEF put_word

\* Both tags of a block are written.
LEMMA TagsPut ==
  ASSUME NEW m \in Memory, NEW bp \in Pointers, bp > 0, NEW size \in Nat, size % DSIZE = 0,
         size >= DSIZE, bp + size \in Pointers, NEW bit \in {0, 1}
  PROVE  /\ PutTags(m, bp, size, bit) \in Memory
         /\ \A a \in Words : PutTags(m, bp, size, bit)[a]
              = IF a = bp - WSIZE \/ a = bp + size - DSIZE THEN size + bit ELSE m[a]
<1> DEFINE h == put_word(m, bp - WSIZE, size + bit)
<1>1. bp - WSIZE \in Words /\ size + bit \in Nat
  BY TagWords
<1>2. h \in Memory /\ \A a \in Words : h[a] = IF a = bp - WSIZE THEN size + bit ELSE m[a]
  BY <1>1, WordPut
<1> HIDE DEF h
<1>3. ftr_pointer(h, bp) = bp + size - DSIZE
  <2>1. h[bp - WSIZE] = size + bit
    BY <1>1, <1>2
  <2>2. get_size(h, bp - WSIZE) = size
    BY <2>1, TagSays
  <2> QED
    BY <2>2 DEF ftr_pointer, hdr_pointer
<1>4. PutTags(m, bp, size, bit) = put_word(h, bp + size - DSIZE, size + bit)
  BY <1>3 DEF PutTags, h, hdr_pointer, pack
<1>5. /\ put_word(h, bp + size - DSIZE, size + bit) \in Memory
      /\ \A a \in Words : put_word(h, bp + size - DSIZE, size + bit)[a]
           = IF a = bp + size - DSIZE THEN size + bit ELSE h[a]
  BY <1>1, <1>2, WordPut
<1> QED
  BY <1>2, <1>4, <1>5

\* The neighbours of a block.
LEMMA Neighbours ==
  ASSUME NEW m, NEW brk, NEW B, Tiles(m, brk, B), NEW bp \in B, bp # DSIZE
  PROVE  \E prev \in B :
           /\ prev + Size(m, prev) = bp /\ prev_blkp(m, bp) = prev
           /\ get_alloc(m, ftr_pointer(m, prev)) = Alloc(m, prev)
           /\ prev = DSIZE => Alloc(m, prev) = 1
           /\ next_blkp(m, bp) = bp + Size(m, bp)
<1>1. PICK prev \in B : prev + Size(m, prev) = bp
  BY DEF Tiles
<1>2. /\ prev \in Nat /\ Size(m, prev) \in Nat /\ Size(m, prev) % DSIZE = 0
      /\ Alloc(m, prev) \in {0, 1} /\ m[prev - WSIZE] = Size(m, prev) + Alloc(m, prev)
      /\ m[prev + Size(m, prev) - DSIZE] = m[prev - WSIZE]
  BY BlockFacts
<1>3. m[bp - DSIZE] = Size(m, prev) + Alloc(m, prev)
  BY <1>1, <1>2 DEF DSIZE, WSIZE
<1>4. get_size(m, bp - DSIZE) = Size(m, prev) /\ get_alloc(m, bp - DSIZE) = Alloc(m, prev)
  BY <1>2, <1>3, TagSays
<1>5. prev_blkp(m, bp) = prev
  BY <1>1, <1>2, <1>4 DEF prev_blkp
<1>6. ftr_pointer(m, prev) = bp - DSIZE
  BY <1>1, <1>2 DEF ftr_pointer, Size, DSIZE
<1>7. next_blkp(m, bp) = bp + Size(m, bp)
  BY DEF next_blkp, Size
<1>8. ASSUME prev = DSIZE PROVE Alloc(m, prev) = 1
  <2>1. m[DSIZE - WSIZE] = DSIZE + 1
    BY DEF Tiles, DSIZE, WSIZE
  <2> QED
    BY <1>8, <2>1, TagSays DEF Alloc, hdr_pointer, DSIZE
<1> QED
  BY <1>1, <1>4, <1>5, <1>6, <1>7, <1>8

\* The word before the break says allocated, of size 0.
LEMMA EpilogueSays ==
  ASSUME NEW m, NEW brk, NEW B, Tiles(m, brk, B)
  PROVE  get_size(m, hdr_pointer(brk)) = 0 /\ get_alloc(m, hdr_pointer(brk)) = 1
<1>1. m[brk - WSIZE] = 0 + 1
  BY DEF Tiles
<1> QED
  BY <1>1, TagSays DEF hdr_pointer, DSIZE

\* From where to where coalesce merges the block at bp.
MergedFrom(m, bp) ==
  IF Alloc(m, prev_blkp(m, bp)) = 0 THEN prev_blkp(m, bp) ELSE bp

MergedTo(m, bp) ==
  LET next == next_blkp(m, bp)
  IN  IF Alloc(m, next) = 0 THEN next + Size(m, next) ELSE next

\* coalesce writes two tags.
LEMMA CoalesceWrites ==
  ASSUME NEW m, NEW brk, NEW B, Tiles(m, brk, B), NEW bp \in B, bp # DSIZE
  PROVE  LET c == coalesce(m, bp)  lo == MergedFrom(m, bp)  hi == MergedTo(m, bp) IN
         /\ c.bp = lo /\ c.mem \in Memory
         /\ lo \in B /\ lo # DSIZE /\ hi \in B \cup {brk} /\ lo <= bp /\ bp + Size(m, bp) <= hi
         /\ \A a \in Words : c.mem[a] = IF a = lo - WSIZE \/ a = hi - DSIZE THEN (hi - lo) + 0
                                        ELSE m[a]
<1> DEFINE c    == coalesce(m, bp)
           lo   == MergedFrom(m, bp)
           hi   == MergedTo(m, bp)
           size == Size(m, bp)
           next == bp + size
<1>1. PICK prev \in B :
        /\ prev + Size(m, prev) = bp /\ prev_blkp(m, bp) = prev
        /\ get_alloc(m, ftr_pointer(m, prev)) = Alloc(m, prev)
        /\ prev = DSIZE => Alloc(m, prev) = 1
        /\ next_blkp(m, bp) = bp + Size(m, bp)
  BY Neighbours
<1>2. /\ bp \in Nat /\ size \in Nat /\ size % DSIZE = 0 /\ size >= DSIZE
      /\ bp \in Pointers /\ next \in Pointers /\ bp >= DSIZE
  BY BlockFacts
<1>3. /\ prev \in Nat /\ Size(m, prev) \in Nat /\ Size(m, prev) % DSIZE = 0 /\ prev \in Pointers
      /\ Alloc(m, prev) \in {0, 1} /\ Size(m, prev) >= DSIZE /\ prev >= DSIZE
  BY BlockFacts
<1>4. next \in B \cup {brk} /\ m \in Memory /\ B \subseteq Pointers /\ brk \in Pointers
  BY DEF Tiles
<1>5. next = brk => Alloc(m, next) = 1
  BY EpilogueSays DEF Alloc
<1>6. Alloc(m, next) \in {0, 1}
  <2>1. next \in B => Alloc(m, next) \in {0, 1}
    BY BlockFacts
  <2> QED
    BY <1>4, <1>5, <2>1
<1>7. ASSUME Alloc(m, next) = 0
      PROVE  /\ next \in B /\ Size(m, next) \in Nat /\ Size(m, next) % DSIZE = 0
             /\ next + Size(m, next) \in B \cup {brk} /\ next + Size(m, next) \in Pointers
             /\ get_size(m, ftr_pointer(m, next)) = Size(m, next)
  <2>1. next \in B
    BY <1>4, <1>5, <1>7
  <2>2. /\ Size(m, next) \in Nat /\ Size(m, next) % DSIZE = 0 /\ next + Size(m, next) \in Pointers
        /\ m[next + Size(m, next) - DSIZE] = m[next - WSIZE]
    BY <2>1, BlockFacts
  <2>3. next + Size(m, next) \in B \cup {brk}
    BY <2>1 DEF Tiles
  <2>4. get_size(m, ftr_pointer(m, next)) = Size(m, next)
    <3>1. ftr_pointer(m, next) = next + Size(m, next) - DSIZE
      BY DEF ftr_pointer, Size
    <3> QED
      BY <2>2, <3>1 DEF Size, get_size, hdr_pointer
  <2> QED
    BY <2>1, <2>2, <2>3, <2>4
<1>8. lo = IF Alloc(m, prev) = 0 THEN prev ELSE bp
  BY <1>1 DEF MergedFrom
<1>9. hi = IF Alloc(m, next) = 0 THEN next + Size(m, next) ELSE next
  BY <1>1 DEF MergedTo
<1>10. /\ lo \in B /\ lo # DSIZE /\ hi \in B \cup {brk} /\ lo <= bp /\ next <= hi
       /\ lo \in Pointers /\ hi \in Pointers /\ lo > 0
       /\ lo \in Nat /\ hi \in Nat
  <2>1. lo \in B /\ lo # DSIZE /\ lo <= bp /\ lo \in Nat /\ lo \in Pointers /\ lo > 0
    BY <1>1, <1>2, <1>3, <1>8 DEF DSIZE
  <2>2. hi \in B \cup {brk} /\ next <= hi /\ hi \in Pointers /\ hi \in Nat
    <3>1. CASE Alloc(m, next) = 0
      BY <1>2, <1>7, <1>9, <3>1
    <3>2. CASE Alloc(m, next) # 0
      BY <1>2, <1>4, <1>9, <3>2
    <3> QED
      BY <3>1, <3>2
  <2> QED
    BY <2>1, <2>2
<1>11. /\ hi - lo \in Nat /\ (hi - lo) % DSIZE = 0 /\ hi - lo >= DSIZE
       /\ hi - lo = (IF Alloc(m, prev) = 0 THEN Size(m, prev) ELSE 0) + size
                    + (IF Alloc(m, next) = 0 THEN Size(m, next) ELSE 0)
  <2>1. /\ hi - lo \in Nat /\ hi - lo >= DSIZE
        /\ hi - lo = (IF Alloc(m, prev) = 0 THEN Size(m, prev) ELSE 0) + size
                     + (IF Alloc(m, next) = 0 THEN Size(m, next) ELSE 0)
    <3>1. lo = bp - (IF Alloc(m, prev) = 0 THEN Size(m, prev) ELSE 0)
      BY <1>1, <1>2, <1>3, <1>8
    <3>2. hi = next + (IF Alloc(m, next) = 0 THEN Size(m, next) ELSE 0)
      BY <1>2, <1>6, <1>7, <1>9
    <3>3. /\ (IF Alloc(m, prev) = 0 THEN Size(m, prev) ELSE 0) \in Nat
          /\ (IF Alloc(m, next) = 0 THEN Size(m, next) ELSE 0) \in Nat
      BY <1>3, <1>7
    <3> DEFINE before == IF Alloc(m, prev) = 0 THEN Size(m, prev) ELSE 0
               after  == IF Alloc(m, next) = 0 THEN Size(m, next) ELSE 0
    <3> HIDE DEF lo, hi, before, after
    <3>4. lo = bp - before /\ hi = bp + size + after /\ before \in Nat /\ after \in Nat
      BY <3>1, <3>2, <3>3 DEF before, after
    <3> HIDE DEF size
    <3>5. hi - lo \in Nat /\ hi - lo >= DSIZE /\ hi - lo = before + size + after
      BY <1>2, <1>10, <3>4 DEF DSIZE
    <3> QED
      BY <3>5 DEF before, after
  <2>2. lo % DSIZE = 0 /\ hi % DSIZE = 0
    BY <1>10, PointerIs
  <2> QED
    BY <1>10, <2>1, <2>2 DEF DSIZE
<1> DEFINE Written(m2) ==
      /\ m2 \in Memory
      /\ \A a \in Words : m2[a] = IF a = lo - WSIZE \/ a = hi - DSIZE THEN (hi - lo) + 0 ELSE m[a]
<1>12. lo + (hi - lo) = hi
  BY <1>10
<1> HIDE DEF c, lo, hi
<1>13. lo = bp => Written(PutTags(m, bp, hi - lo, 0))
  <2>1. /\ PutTags(m, lo, hi - lo, 0) \in Memory
        /\ \A a \in Words : PutTags(m, lo, hi - lo, 0)[a]
             = IF a = lo - WSIZE \/ a = lo + (hi - lo) - DSIZE THEN (hi - lo) + 0 ELSE m[a]
    BY <1>4, <1>10, <1>11, <1>12, TagsPut
  <2>2. lo + (hi - lo) - DSIZE = hi - DSIZE
    BY <1>10 DEF DSIZE
  <2> QED
    BY <2>1, <2>2
<1>14. Written(put_word(put_word(m, hi - DSIZE, hi - lo), lo - WSIZE, hi - lo))
  <2> DEFINE f == put_word(m, hi - DSIZE, hi - lo)
  <2>1. f \in Memory /\ \A a \in Words : f[a] = IF a = hi - DSIZE THEN hi - lo ELSE m[a]
    BY <1>4, <1>11, WordPut
  <2> HIDE DEF f
  <2>2. /\ put_word(f, lo - WSIZE, hi - lo) \in Memory
        /\ \A a \in Words : put_word(f, lo - WSIZE, hi - lo)[a] = IF a = lo - WSIZE THEN hi - lo ELSE f[a]
    BY <1>11, <2>1, WordPut
  <2>3. Written(put_word(f, lo - WSIZE, hi - lo))
    BY <1>11, <2>1, <2>2
  <2> QED
    BY <2>3 DEF f
<1>15. Written(put_word(put_word(m, lo - WSIZE, hi - lo), hi - DSIZE, hi - lo))
  <2> DEFINE f == put_word(m, lo - WSIZE, hi - lo)
  <2>1. f \in Memory /\ \A a \in Words : f[a] = IF a = lo - WSIZE THEN hi - lo ELSE m[a]
    BY <1>4, <1>11, WordPut
  <2> HIDE DEF f
  <2>2. /\ put_word(f, hi - DSIZE, hi - lo) \in Memory
        /\ \A a \in Words : put_word(f, hi - DSIZE, hi - lo)[a] = IF a = hi - DSIZE THEN hi - lo ELSE f[a]
    BY <1>11, <2>1, WordPut
  <2>3. Written(put_word(f, hi - DSIZE, hi - lo))
    BY <1>11, <2>1, <2>2
  <2> QED
    BY <2>3 DEF f
<1>16. c = CASE Alloc(m, prev) = 1 /\ Alloc(m, next) = 1 ->
                  [mem |-> PutTags(m, bp, size, 0), bp |-> bp]
             [] Alloc(m, prev) = 1 /\ ~(Alloc(m, next) = 1) ->
                  [mem |-> PutTags(m, bp, size + Size(m, next), 0), bp |-> bp]
             [] ~(Alloc(m, prev) = 1) /\ Alloc(m, next) = 1 ->
                  LET all == pack(Size(m, prev) + size, 0)
                      f   == put_word(m, ftr_pointer(m, bp), all)
                  IN  [mem |-> put_word(f, hdr_pointer(prev), all), bp |-> prev]
             [] OTHER ->
                  LET all == pack(Size(m, prev) + size + get_size(m, ftr_pointer(m, next)), 0)
                      h   == put_word(m, hdr_pointer(prev), all)
                  IN  [mem |-> put_word(h, ftr_pointer(h, next), all), bp |-> prev]
  BY <1>1 DEF c, coalesce, Size, Alloc
<1> HIDE DEF Written
<1>17. CASE Alloc(m, prev) = 1 /\ Alloc(m, next) = 1
  <2>1. c.mem = PutTags(m, bp, size, 0) /\ c.bp = bp
    BY <1>16, <1>17
  <2>2. lo = bp /\ hi - lo = size
    BY <1>8, <1>11, <1>17, <1>2
  <2>3. Written(c.mem) /\ c.bp = lo
    BY <1>13, <2>1, <2>2
  <2> QED
    BY <1>10, <2>3 DEF c, lo, hi, Written
<1>18. CASE Alloc(m, prev) = 1 /\ Alloc(m, next) = 0
  <2>1. c.mem = PutTags(m, bp, size + Size(m, next), 0) /\ c.bp = bp
    BY <1>16, <1>18
  <2>2. lo = bp /\ hi - lo = size + Size(m, next)
    BY <1>8, <1>11, <1>18, <1>2, <1>7
  <2>3. Written(c.mem) /\ c.bp = lo
    BY <1>13, <2>1, <2>2
  <2> QED
    BY <1>10, <2>3 DEF c, lo, hi, Written
<1>19. CASE Alloc(m, prev) = 0 /\ Alloc(m, next) = 1
  <2>1. /\ c.mem = put_word(put_word(m, ftr_pointer(m, bp), pack(Size(m, prev) + size, 0)),
                            hdr_pointer(prev), pack(Size(m, prev) + size, 0))
        /\ c.bp = prev
    BY <1>16, <1>19
  <2>2. lo = prev /\ hi - lo = Size(m, prev) + size /\ hi = next
    BY <1>2, <1>3, <1>8, <1>9, <1>11, <1>19
  <2>3. pack(Size(m, prev) + size, 0) = hi - lo
    BY <1>2, <1>3, <2>2 DEF pack
  <2>4. ftr_pointer(m, bp) = hi - DSIZE
    BY <1>2, <2>2 DEF ftr_pointer, Size, DSIZE
  <2>5. Written(c.mem) /\ c.bp = lo
    BY <1>14, <2>1, <2>2, <2>3, <2>4 DEF hdr_pointer
  <2> QED
    BY <1>10, <2>5 DEF c, lo, hi, Written
<1>20. CASE Alloc(m, prev) = 0 /\ Alloc(m, next) = 0
  <2> DEFINE all == pack(Size(m, prev) + size + get_size(m, ftr_pointer(m, next)), 0)
             h   == put_word(m, hdr_pointer(prev), all)
  <2>1. c.mem = put_word(h, ftr_pointer(h, next), all) /\ c.bp = prev
    BY <1>16, <1>20
  <2>2. lo = prev /\ hi - lo = Size(m, prev) + size + Size(m, next) /\ hi = next + Size(m, next)
    BY <1>8, <1>9, <1>11, <1>20
  <2>3. all = hi - lo
    BY <1>2, <1>3, <1>7, <1>20, <2>2 DEF pack
  <2> HIDE DEF all
  <2>4. h = put_word(m, lo - WSIZE, hi - lo)
    BY <2>2, <2>3 DEF hdr_pointer
  <2> HIDE DEF h
  <2>5. ftr_pointer(h, next) = hi - DSIZE
    <3>1. next - WSIZE \in Words /\ next - WSIZE # lo - WSIZE
      BY <1>2, <1>10, TagWords DEF WSIZE, DSIZE
    <3>2. \A a \in Words : put_word(m, lo - WSIZE, hi - lo)[a] = IF a = lo - WSIZE THEN hi - lo ELSE m[a]
      BY <1>4, <1>11, WordPut
    <3>3. h[next - WSIZE] = m[next - WSIZE]
      BY <2>4, <3>1, <3>2
    <3> QED
      <4>1. get_size(h, hdr_pointer(next)) = Size(m, next)
        BY <3>3 DEF Size, get_size, hdr_pointer
      <4> QED
        BY <1>2, <1>7, <1>20, <2>2, <4>1 DEF ftr_pointer, DSIZE
  <2>6. Written(c.mem) /\ c.bp = lo
    BY <1>15, <2>1, <2>2, <2>3, <2>4, <2>5
  <2> QED
    BY <1>10, <2>6 DEF c, lo, hi, Written
<1> QED
  BY <1>3, <1>6, <1>17, <1>18, <1>19, <1>20
-----------------------------------------------------------------------------
(* What the internal routines do to the blocks.                            *)

\* The blocks at S keep their size and what is between their tags.
Keeps(m, m2, S) ==
  \A p \in S : /\ Size(m2, p) = Size(m, p)
               /\ \A a \in Words : p <= a /\ a < p + Size(m, p) - DSIZE => m2[a] = m[a]

\* What two steps keep is kept.
LEMMA KeepsTwice ==
  ASSUME NEW m, NEW m2, NEW m3, NEW S, NEW T, Keeps(m, m2, S), Keeps(m2, m3, T), S \subseteq T
  PROVE  Keeps(m, m3, S)
  BY DEF Keeps

\* m2 is m but for what is between the tags of the block at x.
DataOnly(m, m2, x) ==
  m2 \in Memory /\ \A a \in Words : a < x \/ a >= x + Size(m, x) - DSIZE => m2[a] = m[a]

SameSizes(m, m2, S) == \A p \in S : Size(m2, p) = Size(m, p)

\* Writing to a block changes no tag and no other block.
LEMMA DataWritten ==
  ASSUME NEW m, NEW brk, NEW B, Good(m, brk, B), NEW x \in B, NEW m2, DataOnly(m, m2, x)
  PROVE  /\ Good(m2, brk, B) /\ Taken(m2, B) = Taken(m, B) /\ Keeps(m, m2, B \ {x})
         /\ SameSizes(m, m2, B)
<1>0. Tiles(m, brk, B)
  BY DEF Good
<1>1. /\ \A p \in B : p \in Nat /\ Size(m, p) \in Nat /\ p >= DSIZE /\ Size(m, p) >= DSIZE
                      /\ p + Size(m, p) <= brk /\ p - WSIZE \in Words
                      /\ p + Size(m, p) - DSIZE \in Words
      /\ brk \in Nat /\ brk - WSIZE \in Words
  <2>1. \A p \in B : p \in Nat /\ Size(m, p) \in Nat /\ p >= DSIZE /\ Size(m, p) >= DSIZE
                      /\ p + Size(m, p) <= brk /\ p - WSIZE \in Words
                      /\ p + Size(m, p) - DSIZE \in Words
    BY <1>0, BlockFacts
  <2>2. brk \in Pointers /\ brk \in Nat
    BY <1>0, PointerIs DEF Tiles
  <2> QED
    BY <2>1, <2>2, TagWords DEF DSIZE
<1>2. \A p, q \in B : p < q => p + Size(m, p) <= q
  BY <1>0 DEF Tiles
<1>3. ASSUME NEW p \in B
      PROVE  /\ m2[p - WSIZE] = m[p - WSIZE]
             /\ m2[p + Size(m, p) - DSIZE] = m[p + Size(m, p) - DSIZE]
  <2>1. p = x \/ p + Size(m, p) <= x \/ p >= x + Size(m, x)
    BY <1>1, <1>2
  <2> QED
    BY <1>1, <2>1 DEF WSIZE, DSIZE, DataOnly
<1>4. \A p \in B : Size(m2, p) = Size(m, p) /\ Alloc(m2, p) = Alloc(m, p)
  BY <1>3 DEF Size, Alloc, get_size, get_alloc, hdr_pointer
<1>5. \A p \in B : Tagged(m2, p)
  <2> SUFFICES ASSUME NEW p \in B PROVE Tagged(m2, p)
    OBVIOUS
  <2>1. Tagged(m, p)
    BY <1>0 DEF Tiles
  <2>2. ftr_pointer(m2, p) = p + Size(m, p) - DSIZE /\ ftr_pointer(m, p) = p + Size(m, p) - DSIZE
    BY <1>4 DEF ftr_pointer, Size
  <2> QED
    BY <1>3, <1>4, <2>1, <2>2 DEF Tagged, hdr_pointer
<1>6. m2[WSIZE] = m[WSIZE]
  <2>1. DSIZE \in B /\ DSIZE - WSIZE = WSIZE
    BY <1>0 DEF Tiles, DSIZE, WSIZE
  <2> QED
    BY <1>3, <2>1
<1>7. m2[brk - WSIZE] = m[brk - WSIZE]
  BY <1>1 DEF WSIZE, DSIZE, DataOnly
<1>8. Tiles(m2, brk, B)
  BY <1>0, <1>4, <1>5, <1>6, <1>7 DEF Tiles, DataOnly
<1>9. NoTwoFree(m2, B, NULL)
  BY <1>4 DEF Good, NoTwoFree
<1>10. Taken(m2, B) = Taken(m, B)
  BY <1>4 DEF Taken
<1>11. Keeps(m, m2, B \ {x})
  <2> SUFFICES ASSUME NEW p \in B \ {x}, NEW a \in Words, p <= a, a < p + Size(m, p) - DSIZE
               PROVE  m2[a] = m[a]
    BY <1>4 DEF Keeps
  <2>1. p + Size(m, p) <= x \/ p >= x + Size(m, x)
    BY <1>1, <1>2
  <2>2. a \in Nat
    BY WordIs
  <2> QED
    BY <1>1, <2>1, <2>2 DEF DSIZE, DataOnly
<1> QED
  BY <1>4, <1>8, <1>9, <1>10, <1>11 DEF Good, SameSizes

\* The block is released; with it every free neighbour becomes one block.
LEMMA CoalesceGives ==
  ASSUME NEW m, NEW brk, NEW B, Tiles(m, brk, B), NEW bp \in B, bp # DSIZE, NoTwoFree(m, B, bp)
  PROVE  LET c == coalesce(m, bp) IN
         \E C \in SUBSET Pointers :
           /\ Good(c.mem, brk, C) /\ Taken(c.mem, C) = Taken(m, B) \ {bp}
           /\ Keeps(m, c.mem, Taken(m, B) \ {bp})
           /\ c.bp \in C \ {DSIZE} /\ Alloc(c.mem, c.bp) = 0 /\ Size(c.mem, c.bp) >= Size(m, bp)
<1> DEFINE c    == coalesce(m, bp)
           lo   == MergedFrom(m, bp)
           hi   == MergedTo(m, bp)
           Old  == {p \in B : p < lo \/ p >= hi}
           C    == Old \cup {lo}
           next == bp + Size(m, bp)
<1>1. /\ c.bp = lo /\ c.mem \in Memory
      /\ lo \in B /\ lo # DSIZE /\ hi \in B \cup {brk} /\ lo <= bp /\ next <= hi
      /\ \A a \in Words : c.mem[a] = IF a = lo - WSIZE \/ a = hi - DSIZE THEN (hi - lo) + 0
                                     ELSE m[a]
  BY CoalesceWrites
<1>2. PICK prev \in B :
        /\ prev + Size(m, prev) = bp /\ prev_blkp(m, bp) = prev
        /\ get_alloc(m, ftr_pointer(m, prev)) = Alloc(m, prev)
        /\ prev = DSIZE => Alloc(m, prev) = 1
        /\ next_blkp(m, bp) = bp + Size(m, bp)
  BY Neighbours
<1>3. lo = IF Alloc(m, prev) = 0 THEN prev ELSE bp
  BY <1>2 DEF MergedFrom
<1>4. hi = IF Alloc(m, next) = 0 THEN next + Size(m, next) ELSE next
  BY <1>2 DEF MergedTo
<1>5. next \in B \cup {brk} /\ B \subseteq Pointers /\ brk \in Nat
  BY PointerIs DEF Tiles
<1>6. next = brk => Alloc(m, next) = 1
  BY EpilogueSays DEF Alloc
<1>7. /\ \A p \in B : p \in Nat /\ Size(m, p) \in Nat /\ Size(m, p) >= DSIZE /\ p >= DSIZE
                      /\ p + Size(m, p) <= brk /\ Alloc(m, p) \in {0, 1}
      /\ lo \in Nat /\ hi \in Nat /\ next \in Nat
  <2>1. \A p \in B : p \in Nat /\ Size(m, p) \in Nat /\ Size(m, p) >= DSIZE /\ p >= DSIZE
                     /\ p + Size(m, p) <= brk /\ Alloc(m, p) \in {0, 1}
    BY BlockFacts
  <2> QED
    BY <1>1, <1>5, <2>1
<1>8. \A p, q \in B : p < q => p + Size(m, p) <= q
  BY DEF Tiles
<1> HIDE DEF c, lo, hi, C
<1>9. lo < hi
  BY <1>1, <1>7 DEF DSIZE
<1>10. /\ Tiles(c.mem, brk, Old \cup {lo})
       /\ Size(c.mem, lo) = hi - lo /\ Alloc(c.mem, lo) = 0
       /\ \A p \in B : p < lo \/ p >= hi =>
              /\ c.mem[p - WSIZE] = m[p - WSIZE] /\ Size(c.mem, p) = Size(m, p)
              /\ Alloc(c.mem, p) = Alloc(m, p)
  <2> DEFINE m2 == c.mem
  <2>1. m2 \in Memory /\ 0 \in {0, 1}
    BY <1>1
  <2>2. \A a \in Words : m2[a] = IF a = lo - WSIZE \/ a = hi - DSIZE THEN (hi - lo) + 0 ELSE m[a]
    BY <1>1
  <2> HIDE DEF m2
  <2>3. /\ Tiles(m2, brk, Old \cup {lo})
        /\ Size(m2, lo) = hi - lo /\ Alloc(m2, lo) = 0
        /\ \A p \in B : p < lo \/ p >= hi =>
              /\ m2[p - WSIZE] = m[p - WSIZE] /\ Size(m2, p) = Size(m, p)
              /\ Alloc(m2, p) = Alloc(m, p)
    BY <1>1, <1>9, <2>1, <2>2, OneBlock
  <2> QED
    BY <2>3 DEF m2
<1>11. \A p \in B : p < lo \/ p >= hi \/ p = bp \/ Alloc(m, p) = 0
  <2> SUFFICES ASSUME NEW p \in B, lo <= p, p < hi, p # bp PROVE Alloc(m, p) = 0
    BY <1>7
  <2>1. CASE p < bp
    <3>1. p <= prev
      BY <1>2, <1>7, <1>8, <2>1
    <3> QED
      BY <1>2, <1>3, <1>7, <2>1, <3>1
  <2>2. CASE p > bp
    <3>1. p >= next
      BY <1>7, <1>8, <2>2
    <3>2. Alloc(m, next) = 0 /\ hi = next + Size(m, next) /\ next \in B
      BY <1>4, <1>5, <1>6, <1>7, <3>1
    <3>3. p = next
      BY <1>7, <1>8, <3>1, <3>2
    <3> QED
      BY <3>2, <3>3
  <2> QED
    BY <1>7, <2>1, <2>2
<1>12. Taken(c.mem, C) = Taken(m, B) \ {bp}
  <2>1. ASSUME NEW p \in Taken(c.mem, C) PROVE p \in Taken(m, B) \ {bp}
    <3>1. p \in C \ {DSIZE} /\ Alloc(c.mem, p) = 1
      BY <2>1 DEF Taken
    <3>2. p # lo
      BY <1>10, <3>1
    <3>3. p \in Old /\ p \in B /\ (p < lo \/ p >= hi)
      BY <3>1, <3>2 DEF C
    <3>4. p # bp
      BY <1>1, <1>7, <3>3 DEF DSIZE
    <3> QED
      BY <1>10, <3>1, <3>3, <3>4 DEF Taken
  <2>2. ASSUME NEW p \in Taken(m, B) \ {bp} PROVE p \in Taken(c.mem, C)
    <3>1. p \in B \ {DSIZE} /\ Alloc(m, p) = 1 /\ p # bp
      BY <2>2 DEF Taken
    <3>2. p < lo \/ p >= hi
      BY <1>11, <3>1
    <3> QED
      BY <1>10, <3>1, <3>2 DEF Taken, C
  <2> QED
    BY <2>1, <2>2
<1>13. Keeps(m, c.mem, Taken(m, B) \ {bp})
  <2> SUFFICES ASSUME NEW p \in Taken(m, B) \ {bp}
               PROVE  /\ Size(c.mem, p) = Size(m, p)
                      /\ \A a \in Words : p <= a /\ a < p + Size(m, p) - DSIZE => c.mem[a] = m[a]
    BY DEF Keeps
  <2>1. p \in B \ {DSIZE} /\ Alloc(m, p) = 1 /\ p # bp
    BY DEF Taken
  <2>2. p < lo \/ p >= hi
    BY <1>11, <2>1
  <2>3. Size(c.mem, p) = Size(m, p)
    BY <1>10, <2>1, <2>2
  <2>4. p < lo => p + Size(m, p) <= lo
    BY <1>1, <1>8, <2>1
  <2>5. p \in Nat /\ Size(m, p) \in Nat
    BY <1>7, <2>1
  <2>6. ASSUME NEW a \in Words, p <= a, a < p + Size(m, p) - DSIZE PROVE c.mem[a] = m[a]
    <3>1. a \in Nat
      BY WordIs
    <3>2. a # lo - WSIZE /\ a # hi - DSIZE
      BY <1>7, <1>9, <2>2, <2>4, <2>5, <2>6, <3>1 DEF WSIZE, DSIZE
    <3> QED
      BY <1>1, <3>2
  <2> QED
    BY <2>3, <2>6
<1>14. NoTwoFree(c.mem, C, NULL)
  <2> SUFFICES ASSUME NEW p \in C, p + Size(c.mem, p) \in C
               PROVE  Alloc(c.mem, p) = 1 \/ Alloc(c.mem, p + Size(c.mem, p)) = 1
    BY DEF NoTwoFree
  <2> DEFINE q == p + Size(c.mem, p)
  <2>1. CASE p = lo
    <3>1. q = hi /\ hi \in B
      BY <1>1, <1>7, <1>9, <1>10, <2>1 DEF C
    <3>2. Alloc(c.mem, hi) = Alloc(m, hi)
      BY <1>7, <1>10, <3>1
    <3>3. Alloc(m, hi) = 1
      <4>1. CASE Alloc(m, next) = 0
        <5>1. next \in B /\ hi = next + Size(m, next) /\ next # bp /\ hi # bp
          BY <1>4, <1>5, <1>6, <1>7, <4>1 DEF DSIZE
        <5>2. next \in B /\ next + Size(m, next) \in B /\ next # bp /\ next + Size(m, next) # bp
          BY <3>1, <5>1
        <5> HIDE DEF next
        <5>3. Alloc(m, next) = 1 \/ Alloc(m, next + Size(m, next)) = 1
          BY <5>2 DEF NoTwoFree
        <5> QED
          BY <4>1, <5>1, <5>3
      <4>2. CASE Alloc(m, next) # 0
        BY <1>4, <1>7, <3>1, <4>2
      <4> QED
        BY <4>1, <4>2
    <3> QED
      BY <3>1, <3>2, <3>3
  <2>2. CASE p # lo /\ q = lo
    <3>1. p \in B /\ (p < lo \/ p >= hi) /\ Size(c.mem, p) = Size(m, p) /\ Alloc(c.mem, p) = Alloc(m, p)
      BY <1>10, <2>2 DEF C
    <3>2. p + Size(m, p) = lo /\ p \in Nat /\ Size(m, p) \in Nat /\ Size(m, p) >= DSIZE
      BY <1>7, <2>2, <3>1
    <3>3. Alloc(m, p) = 1
      <4>1. CASE Alloc(m, prev) = 0
        <5>1. lo = prev /\ p # bp /\ prev # bp
          BY <1>2, <1>3, <1>7, <3>1, <3>2, <4>1 DEF DSIZE
        <5> QED
          BY <3>1, <3>2, <4>1, <5>1 DEF NoTwoFree
      <4>2. CASE Alloc(m, prev) # 0
        <5>1. lo = bp
          BY <1>3, <4>2
        <5>2. p = prev
          <6>1. ~(p < prev)
            BY <1>2, <1>7, <1>8, <3>1, <3>2, <5>1 DEF DSIZE
          <6>2. ~(prev < p)
            BY <1>2, <1>7, <1>8, <3>1, <3>2, <5>1 DEF DSIZE
          <6> QED
            BY <1>7, <3>1, <6>1, <6>2
        <5> QED
          BY <1>7, <4>2, <5>2
      <4> QED
        BY <4>1, <4>2
    <3> QED
      BY <3>1, <3>3
  <2>3. CASE p # lo /\ q # lo
    <3>1. p \in B /\ (p < lo \/ p >= hi) /\ Size(c.mem, p) = Size(m, p) /\ Alloc(c.mem, p) = Alloc(m, p)
      BY <1>10, <2>3 DEF C
    <3>2. q \in B /\ (q < lo \/ q >= hi) /\ q = p + Size(m, p) /\ Alloc(c.mem, q) = Alloc(m, q)
      BY <1>10, <2>3, <3>1 DEF C
    <3>3. p # bp /\ q # bp
      BY <1>1, <1>7, <3>1, <3>2 DEF DSIZE
    <3> HIDE DEF q
    <3>4. Alloc(m, p) = 1 \/ Alloc(m, q) = 1
      BY <3>1, <3>2, <3>3 DEF NoTwoFree
    <3> QED
      BY <3>1, <3>2, <3>4 DEF q
  <2> QED
    BY <2>1, <2>2, <2>3
<1>15. Good(c.mem, brk, C) /\ C \in SUBSET Pointers
  BY <1>1, <1>5, <1>10, <1>14 DEF Good, C
<1>16. c.bp \in C \ {DSIZE} /\ Alloc(c.mem, c.bp) = 0 /\ Size(c.mem, c.bp) >= Size(m, bp)
  BY <1>1, <1>7, <1>10 DEF C
<1> QED
  BY <1>12, <1>13, <1>15, <1>16 DEF c
\* A free block is taken; what is left of it stays a free block.
LEMMA PlaceGives ==
  ASSUME NEW m, NEW brk, NEW B, Good(m, brk, B), NEW bp \in B, bp # DSIZE, Alloc(m, bp) = 0,
         NEW asize \in Nat, asize % DSIZE = 0, asize >= MIN_BLOCK_SIZE, asize <= Size(m, bp)
  PROVE  LET m2 == place(m, bp, asize) IN
         \E C \in SUBSET Pointers :
           /\ Good(m2, brk, C) /\ Taken(m2, C) = Taken(m, B) \cup {bp} /\ bp \notin Taken(m, B)
           /\ Keeps(m, m2, Taken(m, B)) /\ bp \in C /\ Size(m2, bp) >= asize
<1> DEFINE m2    == place(m, bp, asize)
           size  == Size(m, bp)
           hi    == bp + size
           mid   == bp + asize
           front == PutTags(m, bp, asize, 1)
<1>0. Tiles(m, brk, B) /\ NoTwoFree(m, B, NULL)
  BY DEF Good
<1>1. /\ bp \in Nat /\ size \in Nat /\ size % DSIZE = 0 /\ size >= DSIZE /\ bp % DSIZE = 0
      /\ bp \in Pointers /\ hi \in Pointers /\ bp >= DSIZE /\ hi <= brk /\ brk <= MAX_HEAP
  BY <1>0, BlockFacts
<1>2. m \in Memory /\ B \subseteq Pointers /\ brk \in Pointers /\ hi \in B \cup {brk}
  BY <1>0 DEF Tiles
<1>3. /\ \A p \in B : p \in Nat /\ Size(m, p) \in Nat /\ Size(m, p) >= DSIZE /\ p >= DSIZE
      /\ hi \in Nat
  <2>1. \A p \in B : p \in Nat /\ Size(m, p) \in Nat /\ Size(m, p) >= DSIZE /\ p >= DSIZE
    BY <1>0, BlockFacts
  <2> QED
    BY <1>1, <2>1
<1>4. \A p, q \in B : p < q => p + Size(m, p) <= q
  BY <1>0 DEF Tiles
<1>5. \A p \in B : p < bp \/ p >= hi \/ p = bp
  <2> SUFFICES ASSUME NEW p \in B, p > bp PROVE p >= hi
    BY <1>1, <1>3
  <2> QED
    BY <1>4
<1>6. bp \notin Taken(m, B)
  BY DEF Taken
<1>7. m2 = IF size - asize >= MIN_BLOCK_SIZE
           THEN PutTags(front, next_blkp(front, bp), size - asize, 0)
           ELSE PutTags(m, bp, size, 1)
  BY DEF place, Size
\* What follows from blocks that keep their tags.
<1>8. ASSUME NEW w \in Memory, NEW lim, lim \in Nat, bp < lim, lim <= hi,
             \A a \in Words : w[a] = m[a] \/ (bp - WSIZE <= a /\ a <= hi - DSIZE)
      PROVE  Keeps(m, w, {p \in B : p # bp /\ Size(w, p) = Size(m, p)})
  <2> SUFFICES ASSUME NEW p \in B, p # bp, NEW a \in Words, p <= a, a < p + Size(m, p) - DSIZE
               PROVE  w[a] = m[a]
    BY DEF Keeps
  <2>1. p + Size(m, p) <= bp \/ p >= hi
    BY <1>1, <1>3, <1>4, <1>5
  <2>2. a \in Nat
    BY WordIs
  <2> QED
    BY <1>1, <1>3, <1>8, <2>1, <2>2 DEF WSIZE, DSIZE
<1> HIDE DEF m2, front
<1>9. CASE size - asize < MIN_BLOCK_SIZE
  <2>1. m2 = PutTags(m, bp, size, 1)
    BY <1>1, <1>7, <1>9 DEF MIN_BLOCK_SIZE
  <2>2. /\ m2 \in Memory
        /\ \A a \in Words : m2[a] = IF a = bp - WSIZE \/ a = bp + size - DSIZE THEN size + 1 ELSE m[a]
    BY <1>1, <1>2, <2>1, TagsPut DEF DSIZE
  <2>3. hi - bp = size /\ bp < hi
    BY <1>1 DEF DSIZE
  <2>4. /\ Tiles(m2, brk, {p \in B : p < bp \/ p >= hi} \cup {bp})
        /\ Size(m2, bp) = hi - bp /\ Alloc(m2, bp) = 1
        /\ \A p \in B : p < bp \/ p >= hi =>
              /\ m2[p - WSIZE] = m[p - WSIZE] /\ Size(m2, p) = Size(m, p)
              /\ Alloc(m2, p) = Alloc(m, p)
    <3>1. \A a \in Words : m2[a] = IF a = bp - WSIZE \/ a = hi - DSIZE THEN (hi - bp) + 1 ELSE m[a]
      <4>1. bp + size - DSIZE = hi - DSIZE
        BY <1>1 DEF DSIZE
      <4> QED
        BY <2>2, <2>3, <4>1
    <3> HIDE DEF hi
    <3> QED
      BY <1>0, <1>2, <2>2, <2>3, <3>1, OneBlock
  <2>5. {p \in B : p < bp \/ p >= hi} \cup {bp} = B
    BY <1>5
  <2>6. Tiles(m2, brk, B)
    BY <2>4, <2>5
  <2>7. \A p \in B : p # bp => Size(m2, p) = Size(m, p) /\ Alloc(m2, p) = Alloc(m, p)
    BY <1>5, <2>4
  <2>8. Size(m2, bp) = size /\ Alloc(m2, bp) = 1
    BY <2>3, <2>4
  <2>9. NoTwoFree(m2, B, NULL)
    BY <1>0, <2>7, <2>8 DEF NoTwoFree
  <2>10. Taken(m2, B) = Taken(m, B) \cup {bp}
    BY <2>7, <2>8 DEF Taken
  <2>11. Keeps(m, m2, Taken(m, B))
    <3>1. \A a \in Words : m2[a] = m[a] \/ (bp - WSIZE <= a /\ a <= hi - DSIZE)
      <4> SUFFICES ASSUME NEW a \in Words, m2[a] # m[a] PROVE bp - WSIZE <= a /\ a <= hi - DSIZE
        OBVIOUS
      <4>1. a = bp - WSIZE \/ a = bp + size - DSIZE
        BY <2>2
      <4> QED
        BY <1>1, <4>1 DEF WSIZE, DSIZE
    <3>2. Keeps(m, m2, {p \in B : p # bp /\ Size(m2, p) = Size(m, p)})
      BY <1>3, <1>8, <2>2, <2>3, <3>1
    <3>3. \A p \in Taken(m, B) : p \in {q \in B : q # bp /\ Size(m2, q) = Size(m, q)}
      BY <1>6, <2>7 DEF Taken
    <3> QED
      BY <3>2, <3>3 DEF Keeps
  <2> QED
    BY <1>2, <1>6, <2>6, <2>8, <2>9, <2>10, <2>11 DEF Good, m2
<1>10. CASE size - asize >= MIN_BLOCK_SIZE
  <2>1. /\ mid \in Pointers /\ mid \in Nat /\ bp + MIN_BLOCK_SIZE <= mid /\ mid + MIN_BLOCK_SIZE <= hi
        /\ size - asize \in Nat /\ (size - asize) % DSIZE = 0 /\ size - asize >= DSIZE
        /\ mid + (size - asize) = hi /\ mid > 0
    <3>1. /\ mid \in Nat /\ bp + MIN_BLOCK_SIZE <= mid /\ mid + MIN_BLOCK_SIZE <= hi
          /\ size - asize \in Nat /\ size - asize >= DSIZE /\ mid + (size - asize) = hi /\ mid > 0
      BY <1>1, <1>10 DEF MIN_BLOCK_SIZE, DSIZE
    <3>2. (size - asize) % DSIZE = 0 /\ mid % DSIZE = 0
      BY <1>1 DEF DSIZE
    <3>3. mid <= MAX_HEAP
      BY <1>1, <3>1, PointerIs, MemLibAssumption DEF MIN_BLOCK_SIZE
    <3> QED
      BY <3>1, <3>2, <3>3, PointerIs
  <2>2. /\ front \in Memory
        /\ \A a \in Words : front[a] = IF a = bp - WSIZE \/ a = mid - DSIZE THEN asize + 1 ELSE m[a]
    <3>1. bp + asize \in Pointers /\ bp > 0 /\ asize >= DSIZE /\ 1 \in {0, 1}
      BY <1>1, <2>1 DEF DSIZE, MIN_BLOCK_SIZE
    <3>2. /\ PutTags(m, bp, asize, 1) \in Memory
          /\ \A a \in Words : PutTags(m, bp, asize, 1)[a]
               = IF a = bp - WSIZE \/ a = bp + asize - DSIZE THEN asize + 1 ELSE m[a]
      BY <1>1, <1>2, <3>1, TagsPut
    <3>3. bp + asize - DSIZE = mid - DSIZE
      BY <1>1 DEF DSIZE
    <3> QED
      BY <3>2, <3>3 DEF front
  <2>3. next_blkp(front, bp) = mid
    <3>1. bp - WSIZE \in Words
      BY <1>1, TagWords DEF DSIZE
    <3>2. front[bp - WSIZE] = asize + 1
      BY <2>2, <3>1
    <3>3. get_size(front, bp - WSIZE) = asize
      BY <3>2, TagSays
    <3> QED
      BY <3>3 DEF next_blkp, hdr_pointer
  <2>4. m2 = PutTags(front, mid, size - asize, 0)
    BY <1>7, <1>10, <2>3
  <2> DEFINE rest == size - asize
  <2>5. /\ m2 \in Memory
        /\ \A a \in Words : m2[a] = IF a = mid - WSIZE \/ a = mid + rest - DSIZE THEN rest + 0
                                    ELSE front[a]
    <3>1. rest \in Nat /\ rest % DSIZE = 0 /\ rest >= DSIZE /\ mid + rest \in Pointers
      BY <1>1, <2>1
    <3>2. m2 = PutTags(front, mid, rest, 0)
      BY <2>4
    <3> HIDE DEF rest, mid
    <3> QED
      BY <2>1, <2>2, <3>1, <3>2, TagsPut
  <2>6. \A a \in Words : m2[a] = IF a = bp - WSIZE \/ a = mid - DSIZE THEN (mid - bp) + 1
                                 ELSE IF a = mid - WSIZE \/ a = hi - DSIZE THEN hi - mid
                                 ELSE m[a]
    <3>1. /\ mid - bp = asize /\ hi - mid = rest /\ mid + rest - DSIZE = hi - DSIZE
          /\ bp - WSIZE # mid - WSIZE /\ bp - WSIZE # hi - DSIZE
          /\ mid - DSIZE # mid - WSIZE /\ mid - DSIZE # hi - DSIZE
      BY <1>1, <2>1 DEF WSIZE, DSIZE, MIN_BLOCK_SIZE
    <3>2. rest + 0 = rest
      BY <2>1
    <3>3. \A a \in Words : front[a] = IF a = bp - WSIZE \/ a = mid - DSIZE THEN asize + 1 ELSE m[a]
      BY <2>2
    <3> HIDE DEF rest, mid, hi
    <3> QED
      BY <2>5, <3>1, <3>2, <3>3
  <2>7. /\ Tiles(m2, brk, B \cup {mid}) /\ mid \notin B
        /\ Size(m2, bp) = mid - bp /\ Alloc(m2, bp) = 1
        /\ Size(m2, mid) = hi - mid /\ Alloc(m2, mid) = 0
        /\ \A p \in B : p # bp =>
              /\ m2[p - WSIZE] = m[p - WSIZE] /\ Size(m2, p) = Size(m, p)
              /\ Alloc(m2, p) = Alloc(m, p)
    <3>1. hi = bp + Size(m, bp)
      OBVIOUS
    <3>2. m2 \in Memory /\ mid \in Pointers
      BY <2>1, <2>5
    <3>3. bp + MIN_BLOCK_SIZE <= mid /\ mid + MIN_BLOCK_SIZE <= hi
      BY <2>1
    <3>4. Tiles(m, brk, B)
      BY <1>0
    <3> HIDE DEF hi, mid
    <3> QED
      BY <2>6, <3>1, <3>2, <3>3, <3>4, TwoBlocks
  <2> DEFINE C == B \cup {mid}
  <2>8. NoTwoFree(m2, C, NULL)
    <3> SUFFICES ASSUME NEW p \in C, p + Size(m2, p) \in C, Alloc(m2, p) # 1
                 PROVE  Alloc(m2, p + Size(m2, p)) = 1
      BY DEF NoTwoFree
    <3>1. CASE p = mid
      <4>1. p + Size(m2, p) = hi /\ hi # bp /\ hi # mid
        BY <1>1, <2>1, <2>7, <3>1 DEF DSIZE, MIN_BLOCK_SIZE
      <4>2. hi \in B /\ Alloc(m2, hi) = Alloc(m, hi)
        BY <2>7, <4>1
      <4>3. Alloc(m, hi) = 1
        <5>1. bp # NULL /\ hi # NULL
          BY <1>1, <1>3 DEF DSIZE, NULL
        <5> QED
          BY <1>0, <4>2, <5>1 DEF NoTwoFree
      <4> QED
        BY <4>1, <4>2, <4>3
    <3>2. CASE p # mid
      <4>1. p \in B /\ p # bp /\ Size(m2, p) = Size(m, p) /\ Alloc(m2, p) = Alloc(m, p)
        BY <2>7, <3>2
      <4>2. p + Size(m, p) # mid
        <5>1. mid \notin B /\ mid # brk
          BY <1>1, <1>2, <2>1, <2>7, PointerIs DEF MIN_BLOCK_SIZE
        <5>2. p + Size(m, p) \in B \cup {brk}
          BY <1>0, <4>1 DEF Tiles
        <5> QED
          BY <5>1, <5>2
      <4>3. p + Size(m, p) \in B
        BY <4>1, <4>2
      <4>4. Alloc(m, p + Size(m, p)) = 1
        <5>1. p # NULL /\ p + Size(m, p) # NULL
          BY <1>3, <4>1, <4>3 DEF DSIZE, NULL
        <5> QED
          BY <1>0, <4>1, <4>3, <5>1 DEF NoTwoFree
      <4>5. CASE p + Size(m, p) = bp
        BY <2>7, <4>1, <4>5
      <4>6. CASE p + Size(m, p) # bp
        BY <2>7, <4>1, <4>3, <4>4, <4>6
      <4> QED
        BY <4>5, <4>6
    <3> QED
      BY <3>1, <3>2
  <2>9. Taken(m2, C) = Taken(m, B) \cup {bp}
    BY <2>7 DEF Taken
  <2>10. Keeps(m, m2, Taken(m, B))
    <3>1. \A a \in Words : m2[a] = m[a] \/ (bp - WSIZE <= a /\ a <= hi - DSIZE)
      <4> SUFFICES ASSUME NEW a \in Words, m2[a] # m[a] PROVE bp - WSIZE <= a /\ a <= hi - DSIZE
        OBVIOUS
      <4>1. a = bp - WSIZE \/ a = mid - DSIZE \/ a = mid - WSIZE \/ a = hi - DSIZE
        BY <2>6
      <4> QED
        BY <1>1, <2>1, <4>1 DEF WSIZE, DSIZE, MIN_BLOCK_SIZE
    <3>2. Keeps(m, m2, {p \in B : p # bp /\ Size(m2, p) = Size(m, p)})
      BY <1>1, <1>3, <1>8, <2>1, <2>5, <3>1 DEF DSIZE, MIN_BLOCK_SIZE
    <3>3. \A p \in Taken(m, B) : p \in {q \in B : q # bp /\ Size(m2, q) = Size(m, q)}
      BY <1>6, <2>7 DEF Taken
    <3> QED
      BY <3>2, <3>3 DEF Keeps
  <2>11. Size(m2, bp) = asize
    BY <1>1, <2>1, <2>7
  <2>12. C \in SUBSET Pointers
    BY <1>2, <2>1
  <2> HIDE DEF C
  <2>13. Good(m2, brk, C) /\ bp \in C /\ Size(m2, bp) >= asize
    BY <2>7, <2>8, <2>11 DEF Good, C
  <2> QED
    BY <1>6, <2>9, <2>10, <2>12, <2>13 DEF m2
<1> QED
  BY <1>1, <1>9, <1>10 DEF MIN_BLOCK_SIZE
-----------------------------------------------------------------------------
(* The heap grows.                                                         *)

\* A request gets room for two tags, in double words, and less than one
\* double word too much.
LEMMA AdjustedSizeFacts ==
  ASSUME NEW size \in Nat
  PROVE  LET asize == AdjustedSize(size) IN
         /\ asize \in Nat /\ asize % DSIZE = 0 /\ asize >= MIN_BLOCK_SIZE
         /\ size + DSIZE <= asize
         /\ asize = MIN_BLOCK_SIZE \/ asize < size + 2 * DSIZE
<1>1. CASE size <= DSIZE
  BY <1>1 DEF AdjustedSize, DSIZE, MIN_BLOCK_SIZE
<1>2. CASE size > DSIZE
  <2> DEFINE k == (size + 31) \div 16
  <2>1. k \in Nat /\ 16 * k <= size + 31 /\ size + 31 < 16 * k + 16
    OBVIOUS
  <2>2. AdjustedSize(size) = 16 * k
    BY <1>2 DEF AdjustedSize, DSIZE
  <2> HIDE DEF k
  <2>3. (16 * k) % 16 = 0
    BY <2>1
  <2> QED
    BY <1>2, <2>1, <2>2, <2>3 DEF DSIZE, MIN_BLOCK_SIZE
<1> QED
  BY <1>1, <1>2 DEF DSIZE

\* The multiple of c next below a number.
LEMMA Multiple ==
  ASSUME NEW n \in Nat, NEW c \in Nat \ {0}
  PROVE  n \div c \in Nat /\ (n \div c) * c \in Nat /\ n - (n \div c) * c \in 0 .. c - 1
<1> DEFINE q == n \div c
           r == n % c
<1>1. q \in Nat /\ r \in 0 .. c - 1 /\ n = q * c + r
  BY SMT
<1> HIDE DEF q, r
<1>2. q * c \in Nat
  BY <1>1, SMT
<1>3. n - q * c \in 0 .. c - 1
  <2> DEFINE x == q * c
  <2>1. x \in Nat /\ n = x + r
    BY <1>1, <1>2
  <2> HIDE DEF x
  <2>2. n - x \in 0 .. c - 1
    BY <1>1, <2>1
  <2> QED
    BY <2>2 DEF x
<1> QED
  BY <1>1, <1>2, <1>3 DEF q

\* The heap grows by whole chunks, enough of them.
LEMMA ExtendSizeFacts ==
  ASSUME NEW asize \in Nat
  PROVE  ExtendSize(asize) \in Nat /\ ExtendSize(asize) % DSIZE = 0 /\ ExtendSize(asize) >= asize
<1> DEFINE n == asize + CHUNKSIZE - 1
           q == n \div CHUNKSIZE
           x == q * CHUNKSIZE
           c == CHUNKSIZE \div 16
<1>1. CHUNKSIZE \in Nat \ {0} /\ CHUNKSIZE % 16 = 0
  BY Mm64Assumption DEF DSIZE, MIN_BLOCK_SIZE
<1>2. n \in Nat /\ n = asize + (CHUNKSIZE - 1)
  BY <1>1
<1>3. c \in Nat /\ CHUNKSIZE = 16 * c
  BY <1>1
<1>4. ExtendSize(asize) = x
  BY DEF ExtendSize
<1> HIDE DEF n, c
<1>5. q \in Nat /\ x \in Nat /\ n - x \in 0 .. CHUNKSIZE - 1
  BY <1>1, <1>2, Multiple
<1>6. x % 16 = 0
  <2> DEFINE d == q * c
  <2> HIDE DEF q
  <2>1. d \in Nat /\ q * CHUNKSIZE = 16 * d
    BY <1>3, <1>5, SMT
  <2> HIDE DEF d
  <2>2. (16 * d) % 16 = 0
    BY <2>1
  <2> QED
    BY <2>1, <2>2
<1> HIDE DEF q, x
<1>7. x >= asize
  BY <1>1, <1>2, <1>5
<1> QED
  BY <1>4, <1>5, <1>6, <1>7 DEF DSIZE

\* mem_sbrk moves the break by what fits.
LEMMA SbrkGives ==
  ASSUME NEW brk \in Nat, NEW size \in Nat, size < INT_SPAN \div 2
  PROVE  LET area == mem_sbrk(brk, size) IN
         /\ area.ok <=> brk + size <= MAX_HEAP
         /\ area.ok => area.brk = brk + size
<1>1. INT_SPAN \in Nat \ {0} /\ size < INT_SPAN /\ MAX_HEAP \in Nat
  BY MemLibAssumption
<1>2. size % INT_SPAN = size
  BY <1>1
<1>3. AsInt(size) = size
  BY <1>1, <1>2 DEF AsInt
<1>4. /\ mem_sbrk(brk, size).ok <=> ~(size < 0 \/ brk + size > MAX_HEAP)
      /\ mem_sbrk(brk, size).ok => mem_sbrk(brk, size).brk = brk + size
  BY <1>3 DEF mem_sbrk
<1> QED
  BY <1>1, <1>4

\* A new free block joins the heap, or nothing happens.
LEMMA ExtendGives ==
  ASSUME NEW m, NEW brk, NEW B, Good(m, brk, B), NEW size \in Nat, size % DSIZE = 0,
         size >= MIN_BLOCK_SIZE, size < INT_SPAN \div 2
  PROVE  LET h == extend_heap(m, brk, size \div WSIZE) IN
         \/ h.bp = NULL /\ h.mem = m /\ h.brk = brk /\ brk + size > MAX_HEAP
         \/ /\ brk + size <= MAX_HEAP
            /\ \E C \in SUBSET Pointers :
                 /\ Good(h.mem, h.brk, C) /\ Taken(h.mem, C) = Taken(m, B)
                 /\ Keeps(m, h.mem, Taken(m, B))
                 /\ h.bp \in C \ {DSIZE} /\ Alloc(h.mem, h.bp) = 0 /\ Size(h.mem, h.bp) >= size
<1> DEFINE h    == extend_heap(m, brk, size \div WSIZE)
           area == mem_sbrk(brk, size)
           top  == brk + size
           m1   == PutTags(m, brk, size, 0)
           m2   == WithEpilogue(m1, brk)
           C    == B \cup {brk}
<1>0. Tiles(m, brk, B) /\ NoTwoFree(m, B, NULL)
  BY DEF Good
<1>1. /\ m \in Memory /\ brk \in Pointers /\ brk \in Nat /\ brk % DSIZE = 0
      /\ B \subseteq Pointers /\ DSIZE \in B
  BY <1>0, PointerIs DEF Tiles
<1>2. brk > DSIZE
  BY <1>0, <1>1, BlockFacts DEF DSIZE
<1>3. (size \div WSIZE) % 2 = 0 /\ (size \div WSIZE) * WSIZE = size
  BY DEF WSIZE, DSIZE
<1>4. h = IF area.ok THEN Coalesced(coalesce(m2, brk), area.brk) ELSE Heap(m, brk, NULL)
  BY <1>3 DEF extend_heap
<1>5. (area.ok <=> top <= MAX_HEAP) /\ (area.ok => area.brk = top)
  BY <1>1, SbrkGives
<1> HIDE DEF h, area
<1>6. CASE ~area.ok
  <2>1. top > MAX_HEAP
    BY <1>1, <1>5, <1>6, MemLibAssumption
  <2>2. h.bp = NULL /\ h.mem = m /\ h.brk = brk
    BY <1>4, <1>6 DEF Heap
  <2> QED
    BY <2>1, <2>2 DEF h
<1>7. CASE area.ok
  <2>1. /\ top \in Pointers /\ top \in Nat /\ top <= MAX_HEAP /\ brk + MIN_BLOCK_SIZE <= top
    <3>1. top \in Nat /\ brk + MIN_BLOCK_SIZE <= top
      BY <1>1 DEF MIN_BLOCK_SIZE
    <3>2. top % DSIZE = 0
      BY <1>1 DEF DSIZE
    <3> QED
      BY <1>5, <1>7, <3>1, <3>2, PointerIs
  <2>2. /\ m1 \in Memory
        /\ \A a \in Words : m1[a] = IF a = brk - WSIZE \/ a = top - DSIZE THEN size ELSE m[a]
    <3>1. brk > 0 /\ size >= DSIZE /\ brk + size \in Pointers /\ 0 \in {0, 1}
      BY <1>1, <1>2, <2>1 DEF DSIZE, MIN_BLOCK_SIZE
    <3>2. /\ PutTags(m, brk, size, 0) \in Memory
          /\ \A a \in Words : PutTags(m, brk, size, 0)[a]
               = IF a = brk - WSIZE \/ a = brk + size - DSIZE THEN size + 0 ELSE m[a]
      BY <1>1, <3>1, TagsPut
    <3>3. brk + size - DSIZE = top - DSIZE /\ size + 0 = size
      BY <1>1 DEF DSIZE
    <3> QED
      BY <3>2, <3>3
  <2>3. next_blkp(m1, brk) = top
    <3>1. brk - WSIZE \in Words
      BY <1>1, <1>2, TagWords DEF DSIZE
    <3>2. m1[brk - WSIZE] = size + 0
      BY <2>2, <3>1
    <3>3. get_size(m1, brk - WSIZE) = size
      BY <3>2, TagSays
    <3> QED
      BY <3>3 DEF next_blkp, hdr_pointer
  <2>4. m2 = put_word(m1, top - WSIZE, 1)
    BY <2>3 DEF WithEpilogue, hdr_pointer, pack
  <2>5. /\ m2 \in Memory
        /\ \A a \in Words : m2[a] = IF a = brk - WSIZE \/ a = top - DSIZE THEN top - brk
                                    ELSE IF a = top - WSIZE THEN 1 ELSE m[a]
    <3>1. top - brk = size /\ top - WSIZE # brk - WSIZE /\ top - WSIZE # top - DSIZE
      BY <1>1, <2>1 DEF WSIZE, DSIZE, MIN_BLOCK_SIZE
    <3> HIDE DEF m1, m2, top
    <3>2. /\ put_word(m1, top - WSIZE, 1) \in Memory
          /\ \A a \in Words : put_word(m1, top - WSIZE, 1)[a] = IF a = top - WSIZE THEN 1 ELSE m1[a]
      BY <2>2, WordPut
    <3> QED
      BY <2>2, <2>4, <3>1, <3>2
  <2>6. /\ Tiles(m2, top, C) /\ brk \notin B /\ brk # DSIZE
        /\ Size(m2, brk) = top - brk /\ Alloc(m2, brk) = 0
        /\ \A p \in B : /\ m2[p - WSIZE] = m[p - WSIZE] /\ Size(m2, p) = Size(m, p)
                        /\ Alloc(m2, p) = Alloc(m, p)
    <3>1. Tiles(m, brk, B) /\ top \in Pointers /\ m2 \in Memory /\ brk + MIN_BLOCK_SIZE <= top
      BY <1>0, <2>1, <2>5
    <3>2. Grown(m, m2, brk, top)
      BY <2>5 DEF Grown
    <3> HIDE DEF m2, top, C
    <3>3. Tiles(m2, top, B \cup {brk})
      BY <3>1, <3>2, MoreHeap
    <3> QED
      BY <3>1, <3>2, <3>3, MoreHeap DEF C
  <2>7. NoTwoFree(m2, C, brk)
    <3> SUFFICES ASSUME NEW p \in C, p + Size(m2, p) \in C, p # brk, p + Size(m2, p) # brk
                 PROVE  Alloc(m2, p) = 1 \/ Alloc(m2, p + Size(m2, p)) = 1
      BY DEF NoTwoFree
    <3> HIDE DEF m2, top
    <3>1. p \in B /\ Size(m2, p) = Size(m, p) /\ p + Size(m, p) \in B
      BY <2>6
    <3>2. p # NULL /\ p + Size(m, p) # NULL
      BY <1>0, <3>1 DEF Tiles, DSIZE, NULL
    <3>3. Alloc(m, p) = 1 \/ Alloc(m, p + Size(m, p)) = 1
      BY <1>0, <3>1, <3>2 DEF NoTwoFree
    <3> QED
      BY <2>6, <3>1, <3>3
  <2>8. Taken(m2, C) = Taken(m, B)
    <3> HIDE DEF m2
    <3> QED
      BY <2>6 DEF Taken
  <2>9. Keeps(m, m2, Taken(m, B))
    <3> SUFFICES ASSUME NEW p \in B
                 PROVE  \A a \in Words : p <= a /\ a < p + Size(m, p) - DSIZE => m2[a] = m[a]
      BY <2>6 DEF Keeps, Taken
    <3> TAKE a \in Words
    <3> HAVE p <= a /\ a < p + Size(m, p) - DSIZE
    <3>1. p + Size(m, p) <= brk /\ p \in Nat /\ Size(m, p) \in Nat /\ a \in Nat
      BY <1>0, BlockFacts, WordIs
    <3>2. a # brk - WSIZE /\ a # top - DSIZE /\ a # top - WSIZE
      BY <1>1, <2>1, <3>1 DEF WSIZE, DSIZE, MIN_BLOCK_SIZE
    <3> QED
      BY <2>5, <3>2
  <2> HIDE DEF m1, m2, C, top
  <2>10. brk \in C
    BY DEF C
  <2> DEFINE c == coalesce(m2, brk)
  <2>11. PICK D \in SUBSET Pointers :
           /\ Good(c.mem, top, D) /\ Taken(c.mem, D) = Taken(m2, C) \ {brk}
           /\ Keeps(m2, c.mem, Taken(m2, C) \ {brk})
           /\ c.bp \in D \ {DSIZE} /\ Alloc(c.mem, c.bp) = 0
           /\ Size(c.mem, c.bp) >= Size(m2, brk)
    BY <2>6, <2>7, <2>10, CoalesceGives
  <2>12. brk \notin Taken(m, B)
    BY <2>6 DEF Taken
  <2>13. h.mem = c.mem /\ h.bp = c.bp /\ h.brk = top
    BY <1>4, <1>5, <1>7 DEF Coalesced, Heap
  <2>14. Taken(m2, C) \ {brk} = Taken(m, B)
    BY <2>8, <2>12
  <2> HIDE DEF c
  <2>15. Keeps(m, c.mem, Taken(m, B))
    BY <2>9, <2>11, <2>14, KeepsTwice
  <2>16. Size(m2, brk) = size
    BY <1>1, <2>6 DEF top
  <2>17. /\ Good(h.mem, h.brk, D) /\ Taken(h.mem, D) = Taken(m, B)
         /\ Keeps(m, h.mem, Taken(m, B))
         /\ h.bp \in D \ {DSIZE} /\ Alloc(h.mem, h.bp) = 0 /\ Size(h.mem, h.bp) >= size
    BY <2>11, <2>13, <2>14, <2>15, <2>16
  <2> QED
    BY <2>1, <2>17 DEF h, top
<1> QED
  BY <1>6, <1>7

\* mm_init makes a heap of one free block.
LEMMA FreshHeapGives ==
  \E B \in SUBSET Pointers :
    /\ Good(FreshHeap.mem, FreshHeap.brk, B) /\ Taken(FreshHeap.mem, B) = {}
    /\ FreshHeap.brk > 0 /\ FreshHeap.bp # NULL
<1> DEFINE zero  == [a \in Words |-> 0]
           tags  == [zero EXCEPT ![WSIZE] = pack(DSIZE, 1), ![2 * WSIZE] = pack(DSIZE, 1),
                                 ![3 * WSIZE] = pack(0, 1)]
           h     == extend_heap(tags, 32, CHUNKSIZE \div WSIZE)
           B     == {DSIZE}
<1>1. /\ CHUNKSIZE \in Nat \ {0} /\ CHUNKSIZE % DSIZE = 0 /\ 32 + CHUNKSIZE <= MAX_HEAP
      /\ CHUNKSIZE < INT_SPAN \div 2 /\ 32 < INT_SPAN \div 2 /\ MAX_HEAP \in Nat
      /\ MAX_HEAP % DSIZE = 0
  BY Mm64Assumption, GrowthAssumption, MemLibAssumption DEF WSIZE, MIN_BLOCK_SIZE
<1>2. FreshHeap = h
  <2>1. mem_sbrk(0, 4 * WSIZE).ok /\ mem_sbrk(0, 4 * WSIZE).brk = 32
    <3>1. 4 * WSIZE = 32 /\ 32 \in Nat /\ 0 \in Nat /\ 0 + 32 <= MAX_HEAP /\ 0 + 32 = 32
      BY <1>1 DEF WSIZE
    <3> QED
      BY <1>1, <3>1, SbrkGives
  <2> QED
    BY <2>1 DEF FreshHeap
<1>3. /\ 8 \in Words /\ 16 \in Words /\ 24 \in Words /\ 16 \in Pointers /\ 32 \in Pointers
  BY <1>1, WordIs, PointerIs DEF WSIZE, DSIZE
<1>4. tags \in Memory /\ tags[8] = 17 /\ tags[16] = 17 /\ tags[24] = 1
  <2>1. tags = [zero EXCEPT ![8] = 17, ![16] = 17, ![24] = 1]
    BY DEF WSIZE, DSIZE, pack
  <2>2. zero \in [Words -> Nat]
    OBVIOUS
  <2> QED
    BY <1>3, <2>1, <2>2 DEF Memory
<1> HIDE DEF tags
<1>5. Size(tags, 16) = 16 /\ Alloc(tags, 16) = 1
  <2>1. tags[16 - 8] = 16 + 1
    BY <1>4
  <2> QED
    BY <2>1, TagSays DEF Size, Alloc, hdr_pointer, WSIZE, DSIZE
<1>6. Tagged(tags, 16)
  <2>1. ftr_pointer(tags, 16) = 16
    BY <1>5 DEF ftr_pointer, Size, DSIZE
  <2> QED
    BY <1>4, <1>5, <2>1 DEF Tagged, hdr_pointer, WSIZE
<1>7. Tiles(tags, 32, B)
  <2>1. /\ tags \in Memory /\ 32 \in Pointers /\ B \subseteq Pointers
        /\ DSIZE \in B /\ tags[WSIZE] = DSIZE + 1 /\ tags[32 - WSIZE] = 1
    BY <1>3, <1>4 DEF WSIZE, DSIZE
  <2>2. \A p \in B : /\ Tagged(tags, p) /\ p >= DSIZE /\ Size(tags, p) >= DSIZE
                     /\ p # DSIZE => p >= MIN_BLOCK_SIZE /\ Size(tags, p) >= MIN_BLOCK_SIZE
                     /\ p + Size(tags, p) \in B \cup {32} /\ p + Size(tags, p) <= 32
    BY <1>5, <1>6 DEF DSIZE
  <2>3. \A p, q \in B : p < q => p + Size(tags, p) <= q
    BY DEF DSIZE
  <2>4. \A q \in B \cup {32} : q = DSIZE \/ \E p \in B : p + Size(tags, p) = q
    BY <1>5 DEF DSIZE
  <2> QED
    BY <2>1, <2>2, <2>3, <2>4 DEF Tiles
<1>8. NoTwoFree(tags, B, NULL)
  BY <1>5 DEF NoTwoFree, DSIZE
<1>9. Taken(tags, B) = {}
  BY DEF Taken
<1>10. CHUNKSIZE >= MIN_BLOCK_SIZE
  BY Mm64Assumption
<1>11. Good(tags, 32, B)
  BY <1>7, <1>8 DEF Good
<1> HIDE DEF B
<1>12. PICK C \in SUBSET Pointers :
         /\ Good(h.mem, h.brk, C) /\ Taken(h.mem, C) = Taken(tags, B)
         /\ h.bp \in C \ {DSIZE}
  BY <1>1, <1>10, <1>11, ExtendGives
<1> HIDE DEF h
<1>13. h.bp # NULL /\ h.brk > 0
  <2>1. DSIZE \in C /\ h.bp >= DSIZE /\ Tiles(h.mem, h.brk, C)
    BY <1>12 DEF Good, Tiles
  <2>2. h.brk \in Nat
    BY <2>1, PointerIs DEF Tiles
  <2>3. DSIZE + Size(h.mem, DSIZE) <= h.brk /\ Size(h.mem, DSIZE) \in Nat
    BY <2>1, BlockFacts
  <2> QED
    BY <2>1, <2>2, <2>3 DEF DSIZE, NULL
<1> QED
  BY <1>2, <1>9, <1>12, <1>13
-----------------------------------------------------------------------------
(* The walk over the headers.                                              *)

\* A set of numbers has a least element.
LEMMA FirstIs ==
  ASSUME NEW S \in SUBSET Nat, S # {}
  PROVE  First(S) \in S /\ \A j \in S : First(S) <= j
<1>1. \E i \in S : \A j \in S : ~(<<j, i>> \in OpToRel(<, Nat))
  BY WFMin, NatLessThanWellFounded
<1>2. PICK i \in S : \A j \in S : ~(<<j, i>> \in OpToRel(<, Nat))
  BY <1>1
<1>3. \A j \in S : i <= j
  <2> SUFFICES ASSUME NEW j \in S PROVE i <= j
    OBVIOUS
  <2>1. i \in Nat /\ j \in Nat /\ <<j, i>> \in Nat \X Nat
    OBVIOUS
  <2>2. ~(j < i)
    BY <1>2, <2>1 DEF OpToRel
  <2> QED
    BY <2>1, <2>2
<1> QED
  BY <1>3 DEF First

Steps == MAX_HEAP \div MIN_BLOCK_SIZE

\* f is a walk of n steps.
IsWalk(m, bp, f, n) == f = [k \in 0 .. n |-> IF k = 0 THEN bp ELSE next_blkp(m, f[k - 1])]

\* The walk is defined: it starts at bp and goes from block to block.
LEMMA WalkIs ==
  ASSUME NEW m, NEW bp
  PROVE  /\ DOMAIN Walk(m, bp) = 0 .. Steps
         /\ \A k \in 0 .. Steps :
              Walk(m, bp)[k] = IF k = 0 THEN bp ELSE next_blkp(m, Walk(m, bp)[k - 1])
<1> DEFINE Undefined == {n \in Nat : \A f : ~IsWalk(m, bp, f, n)}
<1>1. Undefined = {}
  <2> SUFFICES ASSUME Undefined # {} PROVE FALSE
    OBVIOUS
  <2> DEFINE n == First(Undefined)
  <2>1. n \in Undefined /\ \A j \in Undefined : n <= j
    BY FirstIs
  <2> HIDE DEF n
  <2>2. CASE n = 0
    <3> DEFINE g == [k \in 0 .. 0 |-> bp]
    <3>1. g = [k \in 0 .. 0 |-> IF k = 0 THEN bp ELSE next_blkp(m, g[k - 1])]
      OBVIOUS
    <3> HIDE DEF g
    <3>2. IsWalk(m, bp, g, 0)
      BY <3>1 DEF IsWalk
    <3> QED
      BY <2>1, <2>2, <3>2
  <2>3. CASE n # 0
    <3>1. n \in Nat /\ n - 1 \in Nat /\ ~(n <= n - 1)
      BY <2>1, <2>3
    <3>2. n - 1 \notin Undefined
      BY <2>1, <3>1
    <3>3. PICK f : IsWalk(m, bp, f, n - 1)
      BY <3>1, <3>2
    <3> DEFINE g == [k \in 0 .. n |-> IF k = n THEN next_blkp(m, f[n - 1]) ELSE f[k]]
    <3>4. \A k \in 0 .. n - 1 : f[k] = IF k = 0 THEN bp ELSE next_blkp(m, f[k - 1])
      <4>1. f = [k \in 0 .. n - 1 |-> IF k = 0 THEN bp ELSE next_blkp(m, f[k - 1])]
        BY <3>3 DEF IsWalk
      <4> QED
        BY <4>1
    <3>5. \A k \in 0 .. n : g[k] = IF k = 0 THEN bp ELSE next_blkp(m, g[k - 1])
      <4> SUFFICES ASSUME NEW k \in 0 .. n
                   PROVE  g[k] = IF k = 0 THEN bp ELSE next_blkp(m, g[k - 1])
        OBVIOUS
      <4>1. k # 0 => k - 1 \in 0 .. n /\ k - 1 # n
        BY <3>1
      <4>2. k # 0 => g[k - 1] = f[k - 1]
        BY <4>1
      <4>3. CASE k = n
        BY <2>3, <4>2, <4>3
      <4>4. CASE k # n
        <5>1. k \in 0 .. n - 1
          BY <3>1, <4>4
        <5> QED
          BY <3>4, <4>2, <4>4, <5>1
      <4> QED
        BY <4>3, <4>4
    <3>6. g = [k \in 0 .. n |-> g[k]]
      OBVIOUS
    <3> HIDE DEF g
    <3>7. IsWalk(m, bp, g, n)
      BY <3>5, <3>6 DEF IsWalk
    <3> QED
      BY <2>1, <3>7
  <2> QED
    BY <2>2, <2>3
<1>2. Steps \in Nat
  BY MemLibAssumption DEF Steps, MIN_BLOCK_SIZE
<1>3. \E f : IsWalk(m, bp, f, Steps)
  BY <1>1, <1>2
<1>4. Walk(m, bp) = CHOOSE f : IsWalk(m, bp, f, Steps)
  BY DEF Walk, IsWalk, Steps
<1>5. IsWalk(m, bp, Walk(m, bp), Steps)
  BY <1>3, <1>4
<1> DEFINE w == Walk(m, bp)
<1> HIDE DEF w
<1>6. w = [k \in 0 .. Steps |-> IF k = 0 THEN bp ELSE next_blkp(m, w[k - 1])]
  BY <1>5 DEF IsWalk, w
<1>7. DOMAIN w = 0 .. Steps /\ \A k \in 0 .. Steps : w[k] = IF k = 0 THEN bp ELSE next_blkp(m, w[k - 1])
  BY <1>6
<1> QED
  BY <1>7 DEF w

\* The walk from the prologue visits every block and ends at the break.
LEMMA WalkVisits ==
  ASSUME NEW m, NEW brk, NEW B, Tiles(m, brk, B)
  PROVE  LET at == Walk(m, DSIZE) IN
         /\ DOMAIN at = 0 .. Steps /\ Steps \in Nat
         /\ at[Steps] = brk /\ at[0] = DSIZE
         /\ \A k \in 1 .. Steps : at[k] \in (B \ {DSIZE}) \cup {brk}
         /\ \A p \in B \ {DSIZE} : \E k \in 1 .. Steps : at[k] = p
<1> DEFINE at == Walk(m, DSIZE)
<1>1. /\ DOMAIN at = 0 .. Steps
      /\ \A k \in 0 .. Steps : at[k] = IF k = 0 THEN DSIZE ELSE next_blkp(m, at[k - 1])
  BY WalkIs
<1> HIDE DEF at
<1>2. Steps \in Nat /\ MAX_HEAP \in Nat /\ MAX_HEAP < 32 * Steps + 32
  BY MemLibAssumption DEF Steps, MIN_BLOCK_SIZE
<1>3. /\ \A p \in B : /\ p \in Nat /\ Size(m, p) \in Nat /\ p >= DSIZE /\ Size(m, p) >= DSIZE
                      /\ p + Size(m, p) <= brk
      /\ brk \in Nat /\ brk <= MAX_HEAP
  <2>1. \A p \in B : /\ p \in Nat /\ Size(m, p) \in Nat /\ p >= DSIZE /\ Size(m, p) >= DSIZE
                     /\ p + Size(m, p) <= brk
    BY BlockFacts
  <2>2. brk \in Nat /\ brk <= MAX_HEAP
    BY PointerIs DEF Tiles
  <2> QED
    BY <2>1, <2>2
<1>4. /\ DSIZE \in B
      /\ \A p \in B : /\ p + Size(m, p) \in B \cup {brk}
                      /\ p # DSIZE => p >= MIN_BLOCK_SIZE /\ Size(m, p) >= MIN_BLOCK_SIZE
      /\ \A q \in B \cup {brk} : q = DSIZE \/ \E p \in B : p + Size(m, p) = q
  BY DEF Tiles
<1>5. next_blkp(m, brk) = brk
  BY <1>3, EpilogueSays DEF next_blkp
<1>6. \A p \in B : next_blkp(m, p) = p + Size(m, p)
  BY DEF next_blkp, Size
<1>7. Size(m, DSIZE) = DSIZE
  <2>1. m[DSIZE - WSIZE] = DSIZE + 1
    BY DEF Tiles, DSIZE, WSIZE
  <2> QED
    BY <2>1, TagSays DEF Size, hdr_pointer, DSIZE
<1> DEFINE Right(k) == /\ at[k] \in B \cup {brk}
                       /\ at[k] # brk /\ k > 0 => at[k] >= 32 * k
                       /\ k > 0 => at[k] # DSIZE
           Wrong == {k \in 0 .. Steps : ~Right(k)}
<1>8. brk # DSIZE
  BY <1>3, <1>4 DEF DSIZE
<1>9. at[0] = DSIZE /\ Right(0)
  BY <1>1, <1>2, <1>4
<1>10. Wrong = {}
  <2> SUFFICES ASSUME Wrong # {} PROVE FALSE
    OBVIOUS
  <2> DEFINE n == First(Wrong)
  <2>1. n \in Wrong /\ \A j \in Wrong : n <= j
    <3>1. Wrong \in SUBSET Nat
      BY <1>2
    <3> HIDE DEF Wrong
    <3> QED
      BY <3>1, FirstIs
  <2> HIDE DEF n
  <2>2. n \in 0 .. Steps /\ ~Right(n) /\ n # 0
    BY <1>9, <2>1
  <2>3. n - 1 \in 0 .. Steps /\ ~(n <= n - 1)
    BY <1>2, <2>2
  <2>4. Right(n - 1)
    BY <2>1, <2>3
  <2>5. at[n] = next_blkp(m, at[n - 1])
    BY <1>1, <2>2
  <2>6. CASE at[n - 1] = brk
    BY <1>5, <1>8, <2>2, <2>5, <2>6
  <2>7. CASE at[n - 1] \in B /\ at[n - 1] # brk
    <3> DEFINE p == at[n - 1]
    <3>1. p \in Nat /\ Size(m, p) \in Nat /\ Size(m, p) >= DSIZE /\ p >= DSIZE
      BY <1>3, <2>7
    <3>2. at[n] = p + Size(m, p) /\ at[n] \in B \cup {brk}
      BY <1>4, <1>6, <2>5, <2>7
    <3>3. at[n] # DSIZE
      BY <3>1, <3>2 DEF DSIZE
    <3>4. at[n] >= 32 * n
      <4>1. CASE n = 1
        <5>1. p = DSIZE
          BY <1>9, <4>1
        <5> QED
          BY <1>7, <3>2, <4>1, <5>1 DEF DSIZE
      <4>2. CASE n # 1
        <5>1. p >= 32 * (n - 1) /\ p # DSIZE
          BY <2>2, <2>3, <2>4, <2>7, <4>2
        <5>2. Size(m, p) >= 32
          BY <1>4, <2>7, <5>1 DEF MIN_BLOCK_SIZE
        <5> HIDE DEF p
        <5> QED
          BY <2>2, <3>1, <3>2, <5>1, <5>2
      <4> QED
        BY <4>1, <4>2
    <3> QED
      BY <2>2, <3>2, <3>3, <3>4
  <2> QED
    BY <2>4, <2>6, <2>7
<1>11. \A k \in 0 .. Steps : Right(k)
  BY <1>10
<1>12. at[Steps] = brk
  <2> SUFFICES ASSUME at[Steps] # brk PROVE FALSE
    OBVIOUS
  <2> DEFINE p == at[Steps]
  <2>1. Steps > 0
    <3>1. 32 <= MAX_HEAP
      BY <1>2, Mm64Assumption DEF WSIZE, MIN_BLOCK_SIZE
    <3> QED
      BY <1>2, <3>1 DEF Steps, MIN_BLOCK_SIZE
  <2>2. Right(Steps)
    BY <1>2, <1>11
  <2>3. p \in B /\ p # DSIZE /\ p >= 32 * Steps
    BY <2>1, <2>2
  <2>4. Size(m, p) >= 32 /\ p \in Nat /\ Size(m, p) \in Nat /\ p + Size(m, p) <= brk
    BY <1>3, <1>4, <2>3 DEF MIN_BLOCK_SIZE
  <2> HIDE DEF p
  <2> QED
    BY <1>2, <1>3, <2>3, <2>4
<1>13. \A k \in 1 .. Steps : at[k] \in (B \ {DSIZE}) \cup {brk}
  <2> TAKE k \in 1 .. Steps
  <2>1. k \in 0 .. Steps /\ k > 0
    BY <1>2
  <2> QED
    BY <1>11, <2>1
<1> HIDE DEF Right
<1> DEFINE Missed == {p \in B \ {DSIZE} : \A k \in 1 .. Steps : at[k] # p}
<1>14. Missed = {}
  <2> SUFFICES ASSUME Missed # {} PROVE FALSE
    OBVIOUS
  <2> DEFINE q == First(Missed)
  <2>1. q \in Missed /\ \A j \in Missed : q <= j
    <3>1. Missed \in SUBSET Nat
      BY <1>3
    <3> HIDE DEF Missed
    <3> QED
      BY <3>1, FirstIs
  <2> HIDE DEF q
  <2>2. q \in B \ {DSIZE} /\ \A k \in 1 .. Steps : at[k] # q
    BY <2>1
  <2>3. PICK p \in B : p + Size(m, p) = q
    BY <1>4, <2>2
  <2>4. p < q
    BY <1>3, <2>3 DEF DSIZE
  <2>5. \E k \in 0 .. Steps : at[k] = p
    <3>1. CASE p = DSIZE
      BY <1>2, <1>9, <3>1
    <3>2. CASE p # DSIZE
      <4>1. p \notin Missed
        BY <1>3, <2>1, <2>4, <2>2
      <4>2. PICK k \in 1 .. Steps : at[k] = p
        BY <3>2, <4>1
      <4>3. k \in 0 .. Steps
        BY <1>2
      <4> QED
        BY <4>2, <4>3
    <3> QED
      BY <3>1, <3>2
  <2>6. PICK k \in 0 .. Steps : at[k] = p
    BY <2>5
  <2>7. k # Steps
    BY <1>3, <1>12, <2>3, <2>6 DEF DSIZE
  <2>8. k + 1 \in 1 .. Steps /\ k + 1 \in 0 .. Steps /\ (k + 1) - 1 = k /\ k + 1 # 0
    BY <1>2, <2>7
  <2>9. at[k + 1] = next_blkp(m, p)
    BY <1>1, <2>6, <2>8
  <2>10. at[k + 1] = q
    BY <1>6, <2>3, <2>9
  <2> QED
    BY <2>2, <2>8, <2>10
<1>15. \A p \in B \ {DSIZE} : \E k \in 1 .. Steps : at[k] = p
  BY <1>14
<1> QED
  BY <1>1, <1>2, <1>9, <1>12, <1>13, <1>15 DEF at

\* First fit finds a free block with room if there is one.
LEMMA FitFound ==
  ASSUME NEW m, NEW brk, NEW B, Tiles(m, brk, B), NEW asize \in Nat
  PROVE  LET bp == find_fit(m, asize) IN
         \/ bp = NULL /\ \A p \in B : Alloc(m, p) = 1 \/ Size(m, p) < asize
         \/ bp \in B \ {DSIZE} /\ bp # NULL /\ Alloc(m, bp) = 0 /\ asize <= Size(m, bp)
<1> DEFINE at   == Walk(m, DSIZE)
           fits == {k \in DOMAIN at : /\ get_alloc(m, hdr_pointer(at[k])) = 0
                                      /\ asize <= get_size(m, hdr_pointer(at[k]))}
           bp   == find_fit(m, asize)
<1>1. bp = IF fits = {} THEN NULL ELSE at[First(fits)]
  <2>1. 2 * WSIZE = DSIZE
    BY DEF WSIZE, DSIZE
  <2> QED
    BY <2>1 DEF find_fit
<1>2. /\ DOMAIN at = 0 .. Steps /\ Steps \in Nat
      /\ at[Steps] = brk /\ at[0] = DSIZE
      /\ \A k \in 1 .. Steps : at[k] \in (B \ {DSIZE}) \cup {brk}
      /\ \A p \in B \ {DSIZE} : \E k \in 1 .. Steps : at[k] = p
  BY WalkVisits
<1>3. fits = {k \in 0 .. Steps : Alloc(m, at[k]) = 0 /\ asize <= Size(m, at[k])}
  BY <1>2 DEF Alloc, Size
<1>4. Alloc(m, DSIZE) = 1
  <2>1. m[DSIZE - WSIZE] = DSIZE + 1
    BY DEF Tiles, DSIZE, WSIZE
  <2> QED
    BY <2>1, TagSays DEF Alloc, hdr_pointer, DSIZE
<1>5. Alloc(m, brk) = 1
  BY EpilogueSays DEF Alloc
<1>6. \A p \in B : Alloc(m, p) \in {0, 1} /\ Size(m, p) \in Nat /\ p >= DSIZE
  BY BlockFacts
<1> HIDE DEF at, fits, bp
<1>7. CASE fits = {}
  <2>1. ASSUME NEW p \in B, Alloc(m, p) # 1 PROVE Size(m, p) < asize
    <3>1. PICK k \in 1 .. Steps : at[k] = p
      BY <1>2, <1>4, <2>1
    <3>2. k \in 0 .. Steps /\ k \notin fits
      BY <1>2, <1>7
    <3>3. ~(asize <= Size(m, p))
      BY <1>3, <1>6, <2>1, <3>1, <3>2
    <3> QED
      BY <1>6, <3>3
  <2> QED
    BY <1>1, <1>7, <2>1 DEF bp
<1>8. CASE fits # {}
  <2> DEFINE k == First(fits)
  <2>1. fits \in SUBSET Nat
    BY <1>2, <1>3
  <2>2. k \in fits
    BY <1>8, <2>1, FirstIs
  <2> HIDE DEF k
  <2>3. k \in 0 .. Steps /\ Alloc(m, at[k]) = 0 /\ asize <= Size(m, at[k])
    BY <1>3, <2>2
  <2>4. at[k] # DSIZE /\ at[k] # brk
    BY <1>4, <1>5, <2>3
  <2>5. k \in 1 .. Steps
    BY <1>2, <2>3, <2>4
  <2>6. at[k] \in B \ {DSIZE}
    BY <1>2, <2>4, <2>5
  <2>7. at[k] # NULL
    BY <1>6, <2>6 DEF NULL, DSIZE
  <2>8. bp = at[k]
    BY <1>1, <1>8 DEF k
  <2> QED
    BY <2>3, <2>6, <2>7, <2>8 DEF bp
<1> QED
  BY <1>7, <1>8
-----------------------------------------------------------------------------
(* A request.                                                              *)

\* r is the heap m of blocks B with one more block taken, of room for size
\* bytes, or the same heap if no free block has room.
Obtained(m, brk, B, r, size) ==
  \/ /\ r.bp = NULL /\ r.mem = m /\ r.brk = brk
     /\ \A p \in B : Alloc(m, p) = 1 \/ Size(m, p) < AdjustedSize(size)
  \/ /\ r.bp # NULL
     /\ \E C \in SUBSET Pointers :
          /\ Good(r.mem, r.brk, C) /\ Taken(r.mem, C) = Taken(m, B) \cup {r.bp}
          /\ r.bp \notin Taken(m, B) /\ Keeps(m, r.mem, Taken(m, B))
          /\ r.bp \in C /\ Size(r.mem, r.bp) >= size + DSIZE

\* The heap has a positive break, and its blocks lie above the prologue.
LEMMA GoodFacts ==
  ASSUME NEW m, NEW brk, NEW B, Good(m, brk, B)
  PROVE  /\ m \in Memory /\ brk \in Pointers /\ brk \in Nat /\ brk > 0 /\ B \subseteq Pointers
         /\ DSIZE \in B /\ \A p \in B : p >= DSIZE /\ p # NULL
<1>1. Tiles(m, brk, B)
  BY DEF Good
<1>2. /\ m \in Memory /\ brk \in Pointers /\ brk \in Nat /\ B \subseteq Pointers /\ DSIZE \in B
      /\ \A p \in B : p >= DSIZE
  BY <1>1, PointerIs DEF Tiles
<1>3. brk > 0
  <2>1. DSIZE + Size(m, DSIZE) <= brk /\ Size(m, DSIZE) \in Nat
    BY <1>1, <1>2, BlockFacts
  <2> QED
    BY <1>2, <2>1 DEF DSIZE
<1>4. \A p \in B : p # NULL
  BY <1>2 DEF DSIZE, NULL
<1> QED
  BY <1>2, <1>3, <1>4

\* The search and the split, in the heap as it is or after it has grown.
LEMMA ObtainGives ==
  ASSUME NEW m, NEW brk, NEW B, Good(m, brk, B), NEW x, NEW size \in Requests \ {0}
  PROVE  Obtained(m, brk, B, Obtain(Heap(m, brk, x), size), size)
<1> DEFINE r     == Obtain(Heap(m, brk, x), size)
           asize == AdjustedSize(size)
           fit   == find_fit(m, asize)
           e     == extend_heap(m, brk, ExtendSize(asize) \div WSIZE)
<1>1. size \in Nat
  BY Mm64Assumption
<1>2. /\ asize \in Nat /\ asize % DSIZE = 0 /\ asize >= MIN_BLOCK_SIZE /\ size + DSIZE <= asize
  BY <1>1, AdjustedSizeFacts
<1>3. Tiles(m, brk, B)
  BY DEF Good
<1>4. \/ fit = NULL /\ \A p \in B : Alloc(m, p) = 1 \/ Size(m, p) < asize
      \/ fit \in B \ {DSIZE} /\ fit # NULL /\ Alloc(m, fit) = 0 /\ asize <= Size(m, fit)
  BY <1>2, <1>3, FitFound
<1>5. r = PlaceIn(IF fit # NULL THEN Heap(m, brk, fit) ELSE e, asize)
  BY DEF Obtain, Heap
\* Placing in a free block that is large enough.
<1>6. ASSUME NEW w, NEW lim, NEW D, Good(w, lim, D), NEW bp \in D, bp # DSIZE, Alloc(w, bp) = 0,
             asize <= Size(w, bp), Taken(w, D) = Taken(m, B), Keeps(m, w, Taken(m, B)),
             r = PlaceIn(Heap(w, lim, bp), asize)
      PROVE  Obtained(m, brk, B, r, size)
  <2> HIDE DEF r, asize
  <2>1. bp # NULL
    BY <1>6, GoodFacts
  <2>2. r.mem = place(w, bp, asize) /\ r.brk = lim /\ r.bp = bp
    BY <1>6, <2>1 DEF PlaceIn, Heap
  <2> DEFINE w2 == place(w, bp, asize)
  <2>3. PICK C \in SUBSET Pointers :
          /\ Good(w2, lim, C) /\ Taken(w2, C) = Taken(w, D) \cup {bp} /\ bp \notin Taken(w, D)
          /\ Keeps(w, w2, Taken(w, D)) /\ bp \in C /\ Size(w2, bp) >= asize
    BY <1>2, <1>6, PlaceGives
  <2> HIDE DEF w2
  <2>4. Keeps(m, w2, Taken(m, B))
    BY <1>6, <2>3, KeepsTwice
  <2>5. Size(w2, bp) \in Nat
    <3>1. Tiles(w2, lim, C)
      BY <2>3 DEF Good
    <3> QED
      BY <2>3, <3>1, BlockFacts
  <2>6. Size(w2, bp) >= size + DSIZE
    BY <1>1, <1>2, <2>3, <2>5 DEF DSIZE
  <2>7. /\ Good(r.mem, r.brk, C) /\ Taken(r.mem, C) = Taken(m, B) \cup {r.bp}
        /\ r.bp \notin Taken(m, B) /\ Keeps(m, r.mem, Taken(m, B))
        /\ r.bp \in C /\ Size(r.mem, r.bp) >= size + DSIZE
    BY <1>6, <2>2, <2>3, <2>4, <2>6 DEF w2
  <2> QED
    BY <2>1, <2>2, <2>7 DEF Obtained
<1> HIDE DEF r, fit
<1>7. CASE fit # NULL
  <2>1. Keeps(m, m, Taken(m, B))
    BY DEF Keeps
  <2>2. r = PlaceIn(Heap(m, brk, fit), asize)
    BY <1>5, <1>7
  <2>3. fit \in B /\ fit # DSIZE /\ Alloc(m, fit) = 0 /\ asize <= Size(m, fit)
    BY <1>4, <1>7
  <2> HIDE DEF asize
  <2>4. Obtained(m, brk, B, r, size)
    BY <1>6, <2>1, <2>2, <2>3
  <2> QED
    BY <2>4 DEF r
<1>8. CASE fit = NULL
  <2> DEFINE n == ExtendSize(asize)
  <2>1. n \in Nat /\ n % DSIZE = 0 /\ n >= asize
    BY <1>2, ExtendSizeFacts
  <2>2. n < INT_SPAN \div 2
    BY GrowthAssumption
  <2>3. r = PlaceIn(e, asize)
    BY <1>5, <1>8
  <2>4. \A p \in B : Alloc(m, p) = 1 \/ Size(m, p) < asize
    BY <1>2, <1>4, <1>8
  <2> HIDE DEF n, asize
  <2>5. n >= MIN_BLOCK_SIZE
    BY <1>2, <2>1 DEF MIN_BLOCK_SIZE
  <2>6. e = extend_heap(m, brk, n \div WSIZE)
    BY DEF n, e
  <2> HIDE DEF e
  <2>7. \/ e.bp = NULL /\ e.mem = m /\ e.brk = brk /\ brk + n > MAX_HEAP
        \/ \E C \in SUBSET Pointers :
             /\ Good(e.mem, e.brk, C) /\ Taken(e.mem, C) = Taken(m, B)
             /\ Keeps(m, e.mem, Taken(m, B))
             /\ e.bp \in C \ {DSIZE} /\ Alloc(e.mem, e.bp) = 0 /\ Size(e.mem, e.bp) >= n
    BY <2>1, <2>2, <2>5, <2>6, ExtendGives
  <2>8. CASE e.bp = NULL /\ e.mem = m /\ e.brk = brk
    <3>1. r = e
      BY <2>3, <2>8 DEF PlaceIn
    <3>2. Obtained(m, brk, B, r, size)
      BY <2>4, <2>8, <3>1 DEF Obtained, asize
    <3> QED
      BY <3>2 DEF r
  <2>9. ASSUME NEW C \in SUBSET Pointers,
               Good(e.mem, e.brk, C), Taken(e.mem, C) = Taken(m, B),
               Keeps(m, e.mem, Taken(m, B)),
               e.bp \in C \ {DSIZE}, Alloc(e.mem, e.bp) = 0, Size(e.mem, e.bp) >= n
        PROVE  Obtained(m, brk, B, Obtain(Heap(m, brk, x), size), size)
    <3>1. e = Heap(e.mem, e.brk, e.bp)
      <4>1. \/ e = Heap(m, brk, NULL)
            \/ \E c, b : e = Coalesced(c, b)
        BY DEF e, extend_heap
      <4> QED
        BY <4>1 DEF Coalesced, Heap
    <3>2. r = PlaceIn(Heap(e.mem, e.brk, e.bp), asize)
      BY <2>3, <3>1
    <3>3. Size(e.mem, e.bp) \in Nat
      <4>1. Tiles(e.mem, e.brk, C)
        BY <2>9 DEF Good
      <4> QED
        BY <2>9, <4>1, BlockFacts
    <3>4. asize <= Size(e.mem, e.bp)
      BY <1>2, <2>1, <2>9, <3>3
    <3>5. Obtained(m, brk, B, r, size)
      BY <1>6, <2>9, <3>2, <3>4
    <3> QED
      BY <3>5 DEF r
  <2> QED
    BY <2>7, <2>8, <2>9
<1> QED
  BY <1>7, <1>8
-----------------------------------------------------------------------------
(* The calls.                                                              *)

\* The heap and what the program holds after a call.
LEMMA HeapLeft ==
  ASSUME NEW C \in SUBSET Pointers, Good(mem', mem_brk', C), Owns(live', mem', C),
         Typed(live'), heap_listp' = DSIZE
  PROVE  HeapInv'
<1>1. mem' \in Memory /\ mem_brk' \in Nat /\ mem_brk' > 0
  BY GoodFacts
<1> QED
  BY <1>1 DEF HeapInv, Used, DSIZE, NULL

\* One block more, or the same with another size.
LEMMA HeldFacts ==
  ASSUME Typed(live), NEW S \in SUBSET DOMAIN live, NEW p \in Pointers,
         NEW bytes \in Requests \ {0}, NEW known \in Nat, WSIZE * known <= bytes
  PROVE  LET L == Held(S, p, bytes, known) IN
         /\ Typed(L) /\ DOMAIN L = S \cup {p} /\ L[p].bytes = bytes /\ L[p].known = known
         /\ \A q \in S \ {p} : L[q] = live[q]
<1> DEFINE L == Held(S, p, bytes, known)
<1>1. L = [q \in S \cup {p} |-> IF q = p THEN [bytes |-> bytes, known |-> known] ELSE live[q]]
  BY DEF Held
<1> HIDE DEF L
<1>2. /\ DOMAIN L = S \cup {p} /\ L[p] = [bytes |-> bytes, known |-> known]
      /\ \A q \in S \ {p} : L[q] = live[q]
  BY <1>1
<1>3. \A q \in S : live[q] \in Block /\ WSIZE * live[q].known <= live[q].bytes /\ q \in Pointers
  BY DEF Typed
<1>4. \A q \in S \cup {p} : L[q] \in Block /\ WSIZE * L[q].known <= L[q].bytes /\ q \in Pointers
  <2>1. L[p] \in Block /\ WSIZE * L[p].known <= L[p].bytes
    BY <1>2 DEF Block
  <2> QED
    BY <1>2, <1>3, <2>1
<1>5. L \in [DOMAIN L -> Block]
  BY <1>1, <1>2, <1>4
<1>6. Typed(L)
  BY <1>2, <1>4, <1>5 DEF Typed
<1> QED
  BY <1>2, <1>6 DEF L

\* The heap a request starts from.
LEMMA CurrentIs ==
  ASSUME HeapInv, heap_listp = NULL \/ mem_brk > 0
  PROVE  \E m, brk, x : \E B \in SUBSET Pointers :
           Current = Heap(m, brk, x) /\ Good(m, brk, B) /\ Owns(live, m, B)
<1>1. CASE heap_listp = NULL
  <2>1. DOMAIN live = {}
    BY <1>1 DEF HeapInv
  <2>2. PICK B \in SUBSET Pointers :
          /\ Good(FreshHeap.mem, FreshHeap.brk, B) /\ Taken(FreshHeap.mem, B) = {}
          /\ FreshHeap.brk > 0 /\ FreshHeap.bp # NULL
    BY FreshHeapGives
  <2>3. Owns(live, FreshHeap.mem, B)
    BY <2>1, <2>2 DEF Owns
  <2>4. FreshHeap = Heap(FreshHeap.mem, FreshHeap.brk, FreshHeap.bp)
    <3>1. \A m, brk, n : \/ extend_heap(m, brk, n) = Heap(m, brk, NULL)
                         \/ \E c, b : extend_heap(m, brk, n) = Heap(c.mem, b, c.bp)
      BY DEF extend_heap, Coalesced
    <3>2. \E m, brk, n : FreshHeap = extend_heap(m, brk, n)
      BY DEF FreshHeap
    <3>3. \E u, v, w : FreshHeap = Heap(u, v, w)
      BY <3>1, <3>2
    <3> QED
      BY <3>3 DEF Heap
  <2>5. Current = FreshHeap
    BY <1>1 DEF Current
  <2> QED
    BY <2>2, <2>3, <2>4, <2>5
<1>2. CASE heap_listp # NULL
  <2>1. PICK B \in SUBSET Pointers : Good(mem, mem_brk, B) /\ Owns(live, mem, B)
    BY <1>2 DEF HeapInv, Used
  <2>2. Current = Heap(mem, mem_brk, NULL)
    BY <1>2 DEF Current
  <2> QED
    BY <2>1, <2>2
<1> QED
  BY <1>1, <1>2

\* mm_init makes a heap in which the program holds nothing.
LEMMA StartKeeps == HeapInv /\ Start => HeapInv'
<1> SUFFICES ASSUME HeapInv, Start PROVE HeapInv'
  OBVIOUS
<1>1. PICK B \in SUBSET Pointers :
          /\ Good(FreshHeap.mem, FreshHeap.brk, B) /\ Taken(FreshHeap.mem, B) = {}
          /\ FreshHeap.brk > 0 /\ FreshHeap.bp # NULL
  BY FreshHeapGives
<1>2. mem' = FreshHeap.mem /\ mem_brk' = FreshHeap.brk /\ heap_listp' = DSIZE /\ live' = live
  BY DEF Start, Becomes, WSIZE, DSIZE
<1>3. DOMAIN live = {} /\ Typed(live)
  BY DEF Start, HeapInv
<1>4. Owns(live', mem', B) /\ Good(mem', mem_brk', B) /\ Typed(live')
  BY <1>1, <1>2, <1>3 DEF Owns
<1> QED
  BY <1>2, <1>4, HeapLeft

\* malloc adds a block to those the program holds, or changes nothing.
LEMMA MallocKeeps == ASSUME HeapInv, NEW size \in Requests, Malloc(size) PROVE HeapInv'
<1>1. PICK m, brk, x : \E B \in SUBSET Pointers :
        Current = Heap(m, brk, x) /\ Good(m, brk, B) /\ Owns(live, m, B)
  BY CurrentIs DEF Malloc
<1>2. PICK B \in SUBSET Pointers :
        Current = Heap(m, brk, x) /\ Good(m, brk, B) /\ Owns(live, m, B)
  BY <1>1
<1>3. heap_listp' = DSIZE /\ Typed(live)
  BY DEF Malloc, WSIZE, DSIZE, HeapInv
<1>4. CASE size = 0
  <2>1. mem' = m /\ mem_brk' = brk /\ live' = live
    BY <1>2, <1>4 DEF Malloc, Becomes, Heap
  <2> QED
    BY <1>2, <1>3, <2>1, HeapLeft
<1>5. CASE size # 0
  <2> DEFINE r == Obtain(Heap(m, brk, x), size)
  <2>1. /\ mem' = r.mem /\ mem_brk' = r.brk
        /\ live' = IF r.bp = NULL THEN live ELSE Held(DOMAIN live, r.bp, size, 0)
    BY <1>2, <1>5 DEF Malloc, Becomes
  <2>2. Obtained(m, brk, B, r, size)
    BY <1>2, <1>5, ObtainGives
  <2> HIDE DEF r
  <2>3. CASE r.bp = NULL
    <3>1. mem' = m /\ mem_brk' = brk /\ live' = live
      BY <2>1, <2>2, <2>3 DEF Obtained
    <3> QED
      BY <1>2, <1>3, <3>1, HeapLeft
  <2>4. CASE r.bp # NULL
    <3>1. PICK C \in SUBSET Pointers :
            /\ Good(r.mem, r.brk, C) /\ Taken(r.mem, C) = Taken(m, B) \cup {r.bp}
            /\ r.bp \notin Taken(m, B) /\ Keeps(m, r.mem, Taken(m, B))
            /\ r.bp \in C /\ Size(r.mem, r.bp) >= size + DSIZE
      BY <2>2, <2>4 DEF Obtained
    <3> DEFINE bp == r.bp
    <3>2. size \in Requests \ {0} /\ size \in Nat /\ 0 \in Nat /\ WSIZE * 0 <= size /\ bp \in Pointers
      BY <1>5, <3>1, Mm64Assumption DEF WSIZE
    <3>3. Taken(m, B) = DOMAIN live /\ \A p \in DOMAIN live : live[p].bytes + DSIZE <= Size(m, p)
      BY <1>2 DEF Owns
    <3> DEFINE L == Held(DOMAIN live, bp, size, 0)
    <3> HIDE DEF bp
    <3>4. /\ Typed(L) /\ DOMAIN L = DOMAIN live \cup {bp} /\ L[bp].bytes = size
          /\ \A q \in DOMAIN live \ {bp} : L[q] = live[q]
      <4>1. DOMAIN live \in SUBSET DOMAIN live
        OBVIOUS
      <4>2. Typed(L)
        BY <1>3, <3>2, <4>1, HeldFacts
      <4>3. L = [q \in DOMAIN live \cup {bp} |->
                   IF q = bp THEN [bytes |-> size, known |-> 0] ELSE live[q]]
        BY DEF Held
      <4> HIDE DEF L
      <4> QED
        BY <4>2, <4>3
    <3>5. live' = L
      BY <2>1, <2>4 DEF bp
    <3> HIDE DEF L
    <3>6. \A p \in DOMAIN L : L[p].bytes + DSIZE <= Size(r.mem, p)
      <4> SUFFICES ASSUME NEW p \in DOMAIN L PROVE L[p].bytes + DSIZE <= Size(r.mem, p)
        OBVIOUS
      <4>1. CASE p = bp
        <5>1. Size(r.mem, bp) \in Nat
          <6>1. Tiles(r.mem, r.brk, C) /\ bp \in C
            BY <3>1 DEF Good, bp
          <6> QED
            BY <6>1, BlockFacts
        <5> QED
          BY <3>1, <3>2, <3>4, <4>1, <5>1 DEF bp, DSIZE
      <4>2. CASE p # bp
        <5>1. p \in DOMAIN live /\ L[p] = live[p] /\ Size(r.mem, p) = Size(m, p)
          BY <3>1, <3>3, <3>4, <4>2 DEF Keeps
        <5> QED
          BY <3>3, <5>1
      <4> QED
        BY <4>1, <4>2
    <3>7. Taken(r.mem, C) = DOMAIN L
      BY <3>1, <3>3, <3>4 DEF bp
    <3>8. Owns(L, r.mem, C)
      BY <3>6, <3>7 DEF Owns
    <3> QED
      BY <1>3, <2>1, <3>1, <3>4, <3>5, <3>8, HeapLeft
  <2> QED
    BY <2>3, <2>4
<1> QED
  BY <1>4, <1>5

\* free takes a block from those the program holds.
LEMMA FreeKeeps ==
  ASSUME HeapInv, NEW p \in DOMAIN live, Free(p), heap_listp' = heap_listp
  PROVE  HeapInv'
<1> DEFINE c == coalesce(mem, p)
           L == [q \in DOMAIN live \ {p} |-> live[q]]
<1>1. /\ mem' = c.mem /\ mem_brk' = mem_brk /\ live' = L
  BY DEF Free, Becomes, Coalesced, Heap
<1>2. Used /\ heap_listp = DSIZE /\ Typed(live)
  BY DEF HeapInv, Used
<1>3. PICK B \in SUBSET Pointers : Good(mem, mem_brk, B) /\ Owns(live, mem, B)
  BY <1>2 DEF HeapInv
<1>4. Tiles(mem, mem_brk, B) /\ NoTwoFree(mem, B, p)
  <2>1. \A q \in B : q # NULL
    BY <1>3, GoodFacts
  <2> QED
    BY <1>3, <2>1 DEF Good, NoTwoFree
<1>5. p \in B /\ p # DSIZE /\ Taken(mem, B) = DOMAIN live
  BY <1>3 DEF Owns, Taken
<1>6. PICK C \in SUBSET Pointers :
        /\ Good(c.mem, mem_brk, C) /\ Taken(c.mem, C) = Taken(mem, B) \ {p}
        /\ Keeps(mem, c.mem, Taken(mem, B) \ {p})
  BY <1>4, <1>5, CoalesceGives
<1> HIDE DEF c
<1>7. /\ DOMAIN L = DOMAIN live \ {p} /\ \A q \in DOMAIN L : L[q] = live[q]
  OBVIOUS
<1>8. Typed(L)
  BY <1>2 DEF Typed
<1> HIDE DEF L
<1>9. Owns(L, c.mem, C)
  BY <1>3, <1>5, <1>6, <1>7 DEF Owns, Keeps
<1> QED
  BY <1>1, <1>2, <1>6, <1>8, <1>9, HeapLeft
\* The smaller of two numbers.
LEMMA SmallerIs ==
  \A i, j \in Nat : First({i, j}) \in {i, j} /\ First({i, j}) <= i /\ First({i, j}) <= j
<1> SUFFICES ASSUME NEW i \in Nat, NEW j \in Nat
             PROVE  First({i, j}) \in {i, j} /\ First({i, j}) <= i /\ First({i, j}) <= j
  OBVIOUS
<1> DEFINE S == {i, j}
<1>1. S \in SUBSET Nat /\ S # {}
  OBVIOUS
<1>2. i \in S /\ j \in S
  OBVIOUS
<1> HIDE DEF S
<1>3. First(S) \in S /\ \A k \in S : First(S) <= k
  BY <1>1, FirstIs
<1> QED
  BY <1>2, <1>3 DEF S

\* The words that memcpy reads and writes.
LEMMA MovedGives ==
  ASSUME NEW h, NEW C, Good(h.mem, h.brk, C), h.bp \in C, NEW p \in C,
         NEW size \in Nat, h.bp # p, Size(h.mem, h.bp) >= size + DSIZE
  PROVE  LET m2 == Moved(h, p, size)  n == First({size, Size(h.mem, p)}) IN
         /\ DataOnly(h.mem, m2, h.bp) /\ n \in Nat
         /\ \A a \in Words : h.bp <= a /\ a < h.bp + n => m2[a] = h.mem[p + (a - h.bp)]
<1> DEFINE m  == h.mem
           to == h.bp
           n  == First({size, Size(m, p)})
           m2 == Moved(h, p, size)
<1>1. Tiles(m, h.brk, C) /\ m \in Memory
  BY GoodFacts DEF Good
<1>2. /\ p \in Nat /\ p % DSIZE = 0 /\ Size(m, p) \in Nat /\ Size(m, p) % DSIZE = 0
      /\ p + Size(m, p) <= h.brk /\ h.brk <= MAX_HEAP
      /\ to \in Nat /\ to % DSIZE = 0 /\ Size(m, to) \in Nat /\ h.brk \in Nat
  <2>1. /\ p \in Nat /\ p % DSIZE = 0 /\ Size(m, p) \in Nat /\ Size(m, p) % DSIZE = 0
        /\ p + Size(m, p) <= h.brk /\ h.brk <= MAX_HEAP
    BY <1>1, BlockFacts
  <2>2. to \in Nat /\ to % DSIZE = 0 /\ Size(m, to) \in Nat
    BY <1>1, BlockFacts
  <2> QED
    BY <2>1, <2>2, GoodFacts
<1>3. n \in Nat /\ n <= size /\ n <= Size(m, p)
  BY <1>2, SmallerIs
<1>4. m2 = [a \in Words |-> IF a \in to .. to + n - 1 THEN m[p + (a - to)] ELSE m[a]]
  BY DEF Moved, Copied, Size
<1> HIDE DEF m, to, n, m2
<1>5. \A a \in Words : a \in to .. to + n - 1 <=> to <= a /\ a < to + n
  BY <1>2, <1>3, WordIs
<1>6. \A a \in Words : to <= a /\ a < to + n => p + (a - to) \in Words
  <2> SUFFICES ASSUME NEW a \in Words, to <= a, a < to + n PROVE p + (a - to) \in Words
    OBVIOUS
  <2>1. a \in Nat /\ a % 8 = 0
    BY WordIs DEF WSIZE
  <2>2. p + (a - to) \in Nat /\ a - to < Size(m, p)
    BY <1>2, <1>3, <2>1
  <2>3. (p + (a - to)) % 8 = 0 /\ (a - to) + 8 <= Size(m, p)
    BY <1>2, <2>1, <2>2 DEF DSIZE
  <2>4. p + (a - to) + 8 <= MAX_HEAP
    BY <1>2, <2>1, <2>3, MemLibAssumption
  <2> QED
    BY <2>2, <2>3, <2>4, WordIs DEF WSIZE
<1>7. m2 \in Memory
  BY <1>1, <1>4, <1>5, <1>6 DEF Memory
<1>8. \A a \in Words : a < to \/ a >= to + Size(m, to) - DSIZE => m2[a] = m[a]
  <2> SUFFICES ASSUME NEW a \in Words, a < to \/ a >= to + Size(m, to) - DSIZE PROVE m2[a] = m[a]
    OBVIOUS
  <2>1. Size(m, to) >= size + DSIZE /\ a \in Nat
    BY WordIs DEF m, to
  <2>2. ~(to <= a /\ a < to + n)
    BY <1>2, <1>3, <2>1 DEF DSIZE
  <2> QED
    BY <1>4, <1>5, <2>2
<1>9. \A a \in Words : to <= a /\ a < to + n => m2[a] = m[p + (a - to)]
  BY <1>4, <1>5
<1> QED
  BY <1>3, <1>7, <1>8, <1>9 DEF m, to, n, m2, DataOnly

\* What a successful realloc leaves: w is the heap with the new block in which
\* the old one is still there, c what coalesce makes of it after the copy.
LEMMA ReallocGives ==
  ASSUME NEW m, NEW brk, NEW B, Good(m, brk, B), NEW p \in Taken(m, B),
         NEW size \in Requests \ {0}, NEW r, Obtained(m, brk, B, r, size), r.bp # NULL
  PROVE  LET w == Moved(r, p, size)  c == coalesce(w, p) IN
         /\ r.bp \notin Taken(m, B) /\ r.bp \in Pointers
         /\ \E C \in SUBSET Pointers :
              /\ Good(r.mem, r.brk, C) /\ Good(w, r.brk, C) /\ r.bp \in C /\ p \in C
              /\ Keeps(m, r.mem, Taken(m, B)) /\ Keeps(r.mem, w, Taken(m, B))
              /\ Size(r.mem, r.bp) >= size + DSIZE
         /\ \E D \in SUBSET Pointers :
              /\ Good(c.mem, r.brk, D) /\ Taken(c.mem, D) = (Taken(m, B) \cup {r.bp}) \ {p}
              /\ Keeps(m, c.mem, Taken(m, B) \ {p}) /\ Keeps(w, c.mem, {r.bp})
              /\ Size(c.mem, r.bp) >= size + DSIZE
<1> DEFINE w  == Moved(r, p, size)
           c  == coalesce(w, p)
           bp == r.bp
<1>1. PICK C \in SUBSET Pointers :
        /\ Good(r.mem, r.brk, C) /\ Taken(r.mem, C) = Taken(m, B) \cup {bp}
        /\ bp \notin Taken(m, B) /\ Keeps(m, r.mem, Taken(m, B))
        /\ bp \in C /\ Size(r.mem, bp) >= size + DSIZE
  BY DEF Obtained
<1>2. size \in Nat
  BY Mm64Assumption
<1>3. p \in C /\ p # DSIZE /\ bp # p
  BY <1>1 DEF Taken
<1>4. DataOnly(r.mem, w, bp)
  BY <1>1, <1>2, <1>3, MovedGives
<1> HIDE DEF w
<1>5. /\ Good(w, r.brk, C) /\ Taken(w, C) = Taken(r.mem, C) /\ Keeps(r.mem, w, C \ {bp})
      /\ SameSizes(r.mem, w, C)
  BY <1>1, <1>4, DataWritten
<1>6. Tiles(w, r.brk, C) /\ NoTwoFree(w, C, p)
  <2>1. \A q \in C : q # NULL
    BY <1>5, GoodFacts
  <2> QED
    BY <1>5, <2>1 DEF Good, NoTwoFree
<1>7. PICK D \in SUBSET Pointers :
        /\ Good(c.mem, r.brk, D) /\ Taken(c.mem, D) = Taken(w, C) \ {p}
        /\ Keeps(w, c.mem, Taken(w, C) \ {p})
  BY <1>3, <1>6, CoalesceGives
<1> HIDE DEF c, bp
<1>8. Keeps(r.mem, w, Taken(m, B))
  <2>1. Taken(m, B) \subseteq C \ {bp}
    BY <1>1 DEF Taken
  <2> QED
    BY <1>5, <2>1 DEF Keeps
<1>9. Keeps(m, w, Taken(m, B))
  BY <1>1, <1>8, KeepsTwice
<1>10. Taken(w, C) = Taken(m, B) \cup {bp}
  BY <1>1, <1>5
<1>11. Keeps(w, c.mem, Taken(m, B) \ {p}) /\ Keeps(w, c.mem, {bp})
  BY <1>3, <1>7, <1>10 DEF Keeps
<1>12. Keeps(m, c.mem, Taken(m, B) \ {p})
  BY <1>9, <1>11 DEF Keeps
<1>13. Size(c.mem, bp) >= size + DSIZE
  BY <1>1, <1>5, <1>11 DEF Keeps, SameSizes
<1>14. bp \in Pointers
  BY <1>1
<1>15. /\ bp \notin Taken(m, B) /\ bp \in Pointers
       /\ Good(r.mem, r.brk, C) /\ Good(w, r.brk, C) /\ bp \in C /\ p \in C
       /\ Keeps(m, r.mem, Taken(m, B)) /\ Keeps(r.mem, w, Taken(m, B))
       /\ Size(r.mem, bp) >= size + DSIZE
  BY <1>1, <1>3, <1>5, <1>8, <1>14
<1>16. /\ Good(c.mem, r.brk, D) /\ Taken(c.mem, D) = (Taken(m, B) \cup {bp}) \ {p}
       /\ Keeps(m, c.mem, Taken(m, B) \ {p}) /\ Keeps(w, c.mem, {bp})
       /\ Size(c.mem, bp) >= size + DSIZE
  BY <1>7, <1>10, <1>11, <1>12, <1>13
<1> QED
  BY <1>15, <1>16 DEF bp, w, c

\* realloc exchanges a block for another one, or changes nothing.
LEMMA ReallocKeeps ==
  ASSUME HeapInv, NEW p \in DOMAIN live, NEW size \in Requests, Realloc(p, size)
  PROVE  HeapInv'
<1> DEFINE r == Obtain(Heap(mem, mem_brk, NULL), size)
           w == Moved(r, p, size)
           c == coalesce(w, p)
           L == Held(DOMAIN live \ {p}, r.bp, size, First({live[p].known, size \div WSIZE}))
<1>1. Used /\ heap_listp = DSIZE /\ Typed(live) /\ heap_listp' = DSIZE
  BY DEF HeapInv, Used, Realloc
<1>2. PICK B \in SUBSET Pointers : Good(mem, mem_brk, B) /\ Owns(live, mem, B)
  BY <1>1 DEF HeapInv
<1>3. size \in Nat /\ size > 0 /\ size \in Requests \ {0}
  BY Mm64Assumption DEF Realloc
<1>4. Obtained(mem, mem_brk, B, r, size)
  BY <1>2, <1>3, ObtainGives
<1>5. IF r.bp = NULL THEN mem' = r.mem /\ mem_brk' = r.brk /\ live' = live
      ELSE mem' = c.mem /\ mem_brk' = r.brk /\ live' = L
  BY DEF Realloc, Becomes, Coalesced, Heap, ReallocTo
<1> HIDE DEF r
<1>6. CASE r.bp = NULL
  <2>1. mem' = mem /\ mem_brk' = mem_brk /\ live' = live
    BY <1>4, <1>5, <1>6 DEF Obtained
  <2> QED
    BY <1>1, <1>2, <2>1, HeapLeft
<1>7. CASE r.bp # NULL
  <2>1. p \in Taken(mem, B) /\ Taken(mem, B) = DOMAIN live
    BY <1>2 DEF Owns
  <2>2. /\ r.bp \notin Taken(mem, B) /\ r.bp \in Pointers
        /\ \E D \in SUBSET Pointers :
             /\ Good(c.mem, r.brk, D) /\ Taken(c.mem, D) = (Taken(mem, B) \cup {r.bp}) \ {p}
             /\ Keeps(mem, c.mem, Taken(mem, B) \ {p}) /\ Keeps(w, c.mem, {r.bp})
             /\ Size(c.mem, r.bp) >= size + DSIZE
    BY <1>2, <1>3, <1>4, <1>7, <2>1, ReallocGives
  <2>3. PICK D \in SUBSET Pointers :
          /\ Good(c.mem, r.brk, D) /\ Taken(c.mem, D) = (Taken(mem, B) \cup {r.bp}) \ {p}
          /\ Keeps(mem, c.mem, Taken(mem, B) \ {p})
          /\ Size(c.mem, r.bp) >= size + DSIZE
    BY <2>2
  <2> DEFINE S     == DOMAIN live \ {p}
             bp    == r.bp
             known == First({live[p].known, size \div WSIZE})
  <2>4. known \in Nat /\ WSIZE * known <= size
    <3>1. live[p].known \in Nat
      BY <1>1 DEF Typed, Block
    <3>2. size \div WSIZE \in Nat /\ WSIZE * (size \div WSIZE) <= size
      BY <1>3 DEF WSIZE
    <3>3. known \in Nat /\ known <= size \div WSIZE
      BY <3>1, <3>2, SmallerIs
    <3> HIDE DEF known
    <3> QED
      BY <1>3, <3>2, <3>3 DEF WSIZE
  <2>5. S \in SUBSET DOMAIN live /\ bp \in Pointers
    BY <2>2
  <2>6. L = Held(S, bp, size, known)
    OBVIOUS
  <2> HIDE DEF c, L, S, bp, known
  <2>7. Typed(Held(S, bp, size, known))
    BY <1>1, <1>3, <2>4, <2>5, HeldFacts
  <2>8. /\ Typed(L) /\ DOMAIN L = S \cup {bp} /\ L[bp].bytes = size
        /\ \A q \in S \ {bp} : L[q] = live[q]
    <3>1. LET H == Held(S, bp, size, known) IN
            /\ Typed(H) /\ DOMAIN H = S \cup {bp} /\ H[bp].bytes = size
            /\ \A q \in S \ {bp} : H[q] = live[q]
      BY <2>7 DEF Held
    <3> QED
      BY <2>6, <3>1
  <2>9. Taken(c.mem, D) = DOMAIN L
    BY <2>1, <2>2, <2>3, <2>8 DEF S, bp
  <2>10. \A q \in DOMAIN L : L[q].bytes + DSIZE <= Size(c.mem, q)
    <3> SUFFICES ASSUME NEW q \in DOMAIN L PROVE L[q].bytes + DSIZE <= Size(c.mem, q)
      OBVIOUS
    <3>1. CASE q = bp
      <4>1. Size(c.mem, bp) \in Nat
        <5>1. Tiles(c.mem, r.brk, D)
          BY <2>3 DEF Good
        <5>2. bp \in D
          BY <2>8, <2>9 DEF Taken
        <5> QED
          BY <5>1, <5>2, BlockFacts
      <4> QED
        BY <1>3, <2>3, <2>8, <3>1, <4>1 DEF bp, DSIZE
    <3>2. CASE q # bp
      <4>1. q \in S /\ L[q] = live[q]
        BY <2>8, <3>2
      <4>2. Size(c.mem, q) = Size(mem, q)
        BY <2>1, <2>3, <4>1 DEF Keeps, S
      <4> QED
        BY <1>2, <4>1, <4>2 DEF Owns, S
    <3> QED
      BY <3>1, <3>2
  <2>11. Owns(L, c.mem, D)
    BY <2>9, <2>10 DEF Owns
  <2>12. mem' = c.mem /\ mem_brk' = r.brk /\ live' = L
    BY <1>5, <1>7 DEF c, L
  <2> QED
    BY <1>1, <2>3, <2>8, <2>11, <2>12, HeapLeft
<1> QED
  BY <1>6, <1>7

\* Writing to a block touches no tag.
LEMMA FillKeeps ==
  ASSUME HeapInv, NEW p \in DOMAIN live, NEW v \in Values, Fill(p, v)
  PROVE  HeapInv'
<1>1. Used /\ heap_listp = DSIZE /\ Typed(live) /\ heap_listp' = DSIZE /\ mem_brk' = mem_brk
  BY DEF HeapInv, Used, Fill
<1>2. PICK B \in SUBSET Pointers : Good(mem, mem_brk, B) /\ Owns(live, mem, B)
  BY <1>1 DEF HeapInv
<1>3. p \in B /\ Taken(mem, B) = DOMAIN live /\ live[p].bytes + DSIZE <= Size(mem, p)
  BY <1>2 DEF Owns, Taken
<1>4. p \in Nat /\ Size(mem, p) \in Nat /\ live[p].bytes \in Nat /\ live[p] \in Block
  <2>1. p \in Nat /\ Size(mem, p) \in Nat
    BY <1>2, <1>3, BlockFacts DEF Good
  <2> QED
    BY <1>1, <2>1, Mm64Assumption DEF Typed, Block
<1>5. mem' \in Memory
  BY Mm64Assumption DEF HeapInv, Fill, Memory
<1>6. \A a \in Words : a < p \/ a >= p + Size(mem, p) - DSIZE => mem'[a] = mem[a]
  <2> SUFFICES ASSUME NEW a \in Words, a < p \/ a >= p + Size(mem, p) - DSIZE
               PROVE  mem'[a] = mem[a]
    OBVIOUS
  <2>1. a \in Nat
    BY WordIs
  <2>2. a \notin p .. p + live[p].bytes - 1
    BY <1>3, <1>4, <2>1 DEF DSIZE
  <2> QED
    BY <2>2 DEF Fill
<1>7. /\ Good(mem', mem_brk, B) /\ Taken(mem', B) = Taken(mem, B)
      /\ \A q \in B : Size(mem', q) = Size(mem, q)
  <2> DEFINE m2 == mem'
  <2>1. DataOnly(mem, m2, p)
    BY <1>5, <1>6 DEF DataOnly
  <2> HIDE DEF m2
  <2>2. Good(mem, mem_brk, B) /\ p \in B
    BY <1>2, <1>3
  <2>3. Good(m2, mem_brk, B) /\ Taken(m2, B) = Taken(mem, B) /\ SameSizes(mem, m2, B)
    BY <2>1, <2>2, DataWritten
  <2> QED
    BY <2>3 DEF m2, SameSizes
<1>8. /\ DOMAIN live' = DOMAIN live
      /\ \A q \in DOMAIN live : /\ live'[q].bytes = live[q].bytes /\ live'[q] \in Block
                                /\ WSIZE * live'[q].known <= live'[q].bytes
      /\ live' \in [DOMAIN live -> Block]
  <2> DEFINE known == live[p].bytes \div WSIZE
             b     == [live[p] EXCEPT !.known = known]
  <2>1. live' = [live EXCEPT ![p] = b]
    BY DEF Fill
  <2>2. known \in Nat /\ WSIZE * known <= live[p].bytes
    BY <1>4 DEF WSIZE
  <2> HIDE DEF known
  <2>3. b \in Block /\ b.bytes = live[p].bytes /\ b.known = known
    BY <1>4, <2>2 DEF Block
  <2> HIDE DEF b
  <2>4. live \in [DOMAIN live -> Block] /\ \A q \in DOMAIN live : WSIZE * live[q].known <= live[q].bytes
    BY <1>1 DEF Typed
  <2> QED
    BY <2>1, <2>2, <2>3, <2>4
<1>9. Typed(live')
  BY <1>1, <1>8 DEF Typed
<1>10. Owns(live', mem', B)
  BY <1>2, <1>3, <1>7, <1>8 DEF Owns, Taken
<1> QED
  BY <1>1, <1>7, <1>9, <1>10, HeapLeft

\* mm_deinit leaves nothing.
LEMMA StopKeeps == HeapInv /\ Stop => HeapInv'
<1> SUFFICES ASSUME HeapInv, Stop PROVE HeapInv'
  OBVIOUS
<1>1. mem' \in Memory /\ mem_brk' = 0 /\ live' = <<>> /\ heap_listp' = heap_listp
  BY DEF Stop, Memory
<1>2. Typed(live') /\ DOMAIN live' = {}
  BY <1>1 DEF Typed
<1> QED
  BY <1>1, <1>2 DEF HeapInv, Used

\* Before the first call there is no heap.
LEMMA InitHeapInv == Init => HeapInv
<1> SUFFICES ASSUME Init PROVE HeapInv
  OBVIOUS
<1>1. mem \in Memory /\ mem_brk = 0 /\ live = <<>> /\ heap_listp = NULL
  BY DEF Init, Memory
<1>2. Typed(live) /\ DOMAIN live = {}
  BY <1>1 DEF Typed
<1> QED
  BY <1>1, <1>2 DEF HeapInv, Used

\* Every call keeps the invariant.
LEMMA NextHeapInv == HeapInv /\ [Next]_vars => HeapInv'
<1> SUFFICES ASSUME HeapInv, [Next]_vars PROVE HeapInv'
  OBVIOUS
<1>1. CASE UNCHANGED vars
  BY <1>1 DEF vars, HeapInv, Used
<1>2. CASE Start
  BY <1>2, StartKeeps
<1>3. CASE Stop
  BY <1>3, StopKeeps
<1>4. ASSUME NEW size \in Requests, Malloc(size) PROVE HeapInv'
  BY <1>4, MallocKeeps
<1>5. ASSUME NEW p \in DOMAIN live, Free(p) PROVE HeapInv'
  BY <1>5, FreeKeeps DEF Free
<1>6. ASSUME NEW p \in DOMAIN live, NEW size \in Requests, Realloc(p, size) PROVE HeapInv'
  BY <1>6, ReallocKeeps
<1>7. ASSUME NEW p \in DOMAIN live, NEW v \in Values, Fill(p, v) PROVE HeapInv'
  BY <1>7, FillKeeps
<1> QED
  BY <1>1, <1>2, <1>3, <1>4, <1>5, <1>6, <1>7 DEF Next, Call

\* The invariant holds in every behaviour.
LEMMA HeapInvariance == Spec => []HeapInv
  BY InitHeapInv, NextHeapInv, PTL DEF Spec
-----------------------------------------------------------------------------
(* What the properties say of the blocks.                                  *)

\* The blocks of the properties are those of the invariant.
LEMMA BlocksAre ==
  ASSUME HeapInv, Used, NEW B, Good(mem, mem_brk, B)
  PROVE  /\ heap_listp = DSIZE /\ Blocks = B \ {DSIZE}
         /\ Walk(mem, heap_listp)[MAX_HEAP \div MIN_BLOCK_SIZE] = mem_brk
<1> DEFINE at == Walk(mem, DSIZE)
<1>1. heap_listp = DSIZE
  BY DEF HeapInv, Used
<1>2. Tiles(mem, mem_brk, B)
  BY DEF Good
<1>3. /\ DOMAIN at = 0 .. Steps /\ Steps \in Nat
      /\ at[Steps] = mem_brk /\ at[0] = DSIZE
      /\ \A k \in 1 .. Steps : at[k] \in (B \ {DSIZE}) \cup {mem_brk}
      /\ \A p \in B \ {DSIZE} : \E k \in 1 .. Steps : at[k] = p
  BY <1>2, WalkVisits
<1>4. mem_brk \notin B
  <2> SUFFICES ASSUME mem_brk \in B PROVE FALSE
    OBVIOUS
  <2>1. /\ mem_brk + Size(mem, mem_brk) <= mem_brk /\ Size(mem, mem_brk) >= DSIZE
        /\ Size(mem, mem_brk) \in Nat /\ mem_brk \in Nat
    BY <1>2, BlockFacts
  <2> QED
    BY <2>1 DEF DSIZE
<1>5. Blocks = {at[k] : k \in DOMAIN at \ {0}} \ {mem_brk}
  BY <1>1 DEF Blocks
<1> HIDE DEF at
<1>6. \A k \in DOMAIN at \ {0} : k \in 1 .. Steps
  BY <1>3
<1>7. \A k \in 1 .. Steps : k \in DOMAIN at \ {0}
  BY <1>3
<1>8. \A p \in Blocks : p \in B \ {DSIZE}
  BY <1>3, <1>5, <1>6
<1>9. \A p \in B \ {DSIZE} : p \in Blocks
  BY <1>3, <1>4, <1>5, <1>7
<1>10. Blocks = B \ {DSIZE}
  BY <1>8, <1>9
<1>11. at[MAX_HEAP \div MIN_BLOCK_SIZE] = mem_brk
  BY <1>3 DEF Steps
<1> QED
  BY <1>1, <1>10, <1>11 DEF at

\* The invariant says what the properties say.
LEMMA HeapInvSays == HeapInv => HeapTiled /\ NoFreeNeighbours /\ HeldBlocks
<1> SUFFICES ASSUME HeapInv, Used
             PROVE  HeapTiled /\ NoFreeNeighbours /\ HeldBlocks
  BY DEF HeapTiled, NoFreeNeighbours, HeldBlocks
<1>1. PICK B \in SUBSET Pointers : Good(mem, mem_brk, B) /\ Owns(live, mem, B)
  BY DEF HeapInv
<1>2. Tiles(mem, mem_brk, B)
  BY <1>1 DEF Good
<1>3. /\ heap_listp = DSIZE /\ Blocks = B \ {DSIZE}
      /\ Walk(mem, heap_listp)[MAX_HEAP \div MIN_BLOCK_SIZE] = mem_brk
  BY <1>1, BlocksAre
<1>4. HeapTiled
  <2>1. mem[WSIZE] = pack(DSIZE, 1) /\ mem[hdr_pointer(mem_brk)] = pack(0, 1)
    BY <1>2 DEF Tiles, pack, hdr_pointer
  <2>2. mem[2 * WSIZE] = pack(DSIZE, 1)
    <3>1. mem[DSIZE - WSIZE] = DSIZE + 1
      BY <1>2 DEF Tiles, DSIZE, WSIZE
    <3>2. Size(mem, DSIZE) = DSIZE
      BY <3>1, TagSays DEF Size, hdr_pointer, DSIZE
    <3>3. DSIZE \in B
      BY <1>2 DEF Tiles
    <3>4. mem[DSIZE + Size(mem, DSIZE) - DSIZE] = mem[DSIZE - WSIZE]
      BY <1>2, <3>3, BlockFacts
    <3> QED
      BY <3>1, <3>2, <3>4 DEF DSIZE, WSIZE, pack
  <2>3. \A p \in Blocks : /\ SizeOf(p) >= MIN_BLOCK_SIZE
                          /\ mem[hdr_pointer(p)] = mem[ftr_pointer(mem, p)]
    BY <1>2, <1>3 DEF Tiles, Tagged, SizeOf, Size
  <2> QED
    BY <1>3, <2>1, <2>2, <2>3 DEF HeapTiled
<1>5. \A p \in B : Size(mem, p) = SizeOf(p) /\ (Alloc(mem, p) = 1 <=> Allocated(p))
  BY DEF Size, Alloc, SizeOf, Allocated
<1>6. NoFreeNeighbours
  <2> SUFFICES ASSUME NEW p \in Blocks, next_blkp(mem, p) \in Blocks
               PROVE  Allocated(p) \/ Allocated(next_blkp(mem, p))
    BY DEF NoFreeNeighbours
  <2>1. next_blkp(mem, p) = p + Size(mem, p)
    BY DEF next_blkp, Size
  <2>2. p \in B /\ p + Size(mem, p) \in B /\ p # NULL /\ p + Size(mem, p) # NULL
    BY <1>1, <1>3, <2>1, GoodFacts
  <2>3. Alloc(mem, p) = 1 \/ Alloc(mem, p + Size(mem, p)) = 1
    BY <1>1, <2>2 DEF Good, NoTwoFree
  <2> QED
    BY <1>5, <2>1, <2>2, <2>3
<1>7. HeldBlocks
  <2>1. {p \in Blocks : Allocated(p)} = DOMAIN live
    BY <1>1, <1>3, <1>5 DEF Owns, Taken
  <2>2. \A p \in DOMAIN live : live[p].bytes <= SizeOf(p) - DSIZE
    <3> SUFFICES ASSUME NEW p \in DOMAIN live PROVE live[p].bytes <= SizeOf(p) - DSIZE
      OBVIOUS
    <3>1. p \in B /\ live[p].bytes + DSIZE <= Size(mem, p)
      BY <1>1 DEF Owns, Taken
    <3>2. live[p].bytes \in Nat
      BY Mm64Assumption DEF HeapInv, Typed, Block
    <3>3. Size(mem, p) \in Nat /\ SizeOf(p) = Size(mem, p)
      BY <1>2, <1>5, <3>1, BlockFacts
    <3> QED
      BY <3>1, <3>2, <3>3 DEF DSIZE
  <2> QED
    BY <2>1, <2>2 DEF HeldBlocks
<1> QED
  BY <1>4, <1>6, <1>7

\* For every arena, chunk size and sequence of calls, the heap is a chain of
\* blocks with equal tags that ends exactly at the break (mm.c:427-459).
THEOREM HeapStaysTiled == Spec => []HeapTiled
  BY HeapInvSays, HeapInvariance, PTL

\* For every arena, chunk size and sequence of calls, no two neighbours are
\* free: coalesce merges whatever it can (mm.c:232-271).
THEOREM CoalescingIsComplete == Spec => []NoFreeNeighbours
  BY HeapInvSays, HeapInvariance, PTL

\* For every arena, chunk size and sequence of calls, the allocated blocks are
\* those the program holds, each with room for its request (mm.c:139-309).
THEOREM HeldBlocksAllocated == Spec => []HeldBlocks
  BY HeapInvSays, HeapInvariance, PTL

\* A malloc that changes neither the heap nor what the program holds was refused.
LEMMA RefusedMeansFull ==
  ASSUME HeapInv, Used, NEW size \in Requests \ {0}, live' = live, Malloc(size),
         NEW p \in Blocks, ~Allocated(p)
  PROVE  SizeOf(p) - DSIZE < size
<1> DEFINE r == Obtain(Heap(mem, mem_brk, NULL), size)
<1>1. PICK B \in SUBSET Pointers : Good(mem, mem_brk, B) /\ Owns(live, mem, B)
  BY DEF HeapInv
<1>2. heap_listp = DSIZE /\ Blocks = B \ {DSIZE} /\ Tiles(mem, mem_brk, B)
  BY <1>1, BlocksAre DEF Good
<1>3. Current = Heap(mem, mem_brk, NULL)
  BY <1>2 DEF Current, DSIZE, NULL
<1>4. live' = IF r.bp = NULL THEN live ELSE Held(DOMAIN live, r.bp, size, 0)
  BY <1>3 DEF Malloc
<1>5. Obtained(mem, mem_brk, B, r, size)
  BY <1>1, ObtainGives
<1> HIDE DEF r
<1>6. r.bp = NULL
  <2> SUFFICES ASSUME r.bp # NULL PROVE FALSE
    OBVIOUS
  <2>1. r.bp \notin Taken(mem, B)
    BY <1>5 DEF Obtained
  <2>2. r.bp \in DOMAIN live'
    BY <1>4 DEF Held
  <2> QED
    BY <1>1, <2>1, <2>2 DEF Owns
<1>7. Size(mem, p) < AdjustedSize(size) /\ SizeOf(p) = Size(mem, p)
  <2>1. p \in B /\ Alloc(mem, p) # 1
    BY <1>2 DEF Allocated, Alloc
  <2>2. Size(mem, p) < AdjustedSize(size)
    BY <1>5, <1>6, <2>1 DEF Obtained
  <2> QED
    BY <2>2 DEF SizeOf, Size
<1>8. /\ Size(mem, p) \in Nat /\ Size(mem, p) % DSIZE = 0 /\ Size(mem, p) >= MIN_BLOCK_SIZE
  <2>1. p \in B /\ p # DSIZE
    BY <1>2
  <2>2. Size(mem, p) \in Nat /\ Size(mem, p) % DSIZE = 0
    BY <1>2, <2>1, BlockFacts
  <2>3. Size(mem, p) >= MIN_BLOCK_SIZE
    BY <1>2, <2>1 DEF Tiles
  <2> QED
    BY <2>2, <2>3
<1> DEFINE asize == AdjustedSize(size)
           s     == Size(mem, p)
<1>9. /\ size \in Nat /\ asize \in Nat /\ asize % DSIZE = 0
      /\ asize = MIN_BLOCK_SIZE \/ asize < size + 2 * DSIZE
  BY Mm64Assumption, AdjustedSizeFacts
<1> HIDE DEF asize, s
<1>10. s + DSIZE <= asize
  BY <1>7, <1>8, <1>9 DEF asize, s, DSIZE
<1>11. s < size + DSIZE
  <2>1. asize # MIN_BLOCK_SIZE
    BY <1>7, <1>8, <1>9 DEF asize, s, MIN_BLOCK_SIZE
  <2> QED
    BY <1>8, <1>9, <1>10, <2>1 DEF s, DSIZE
<1> QED
  BY <1>7, <1>8, <1>9, <1>11 DEF s, DSIZE

\* For every arena, chunk size and sequence of calls, malloc refuses a request
\* only if no free block has room for it (mm.c:182-197).
THEOREM RefusalsJustified == Spec => RefusedOnlyIfFull
<1>1. HeapInv /\ [Next]_vars =>
        [\A size \in Requests \ {0} :
           Used /\ live' = live /\ mem' = mem /\ Malloc(size) =>
             \A p \in Blocks : ~Allocated(p) => SizeOf(p) - DSIZE < size]_vars
  BY RefusedMeansFull
<1> QED
  BY <1>1, HeapInvariance, PTL DEF Spec, RefusedOnlyIfFull
-----------------------------------------------------------------------------
(* The promise of malloc, free and realloc.                                *)

\* What the program knows of the block at p, and of all it holds.
Known(L, m, p) ==
  [bytes |-> L[p].bytes, data |-> [k \in 1 .. L[p].known |-> m[p + WSIZE * (k - 1)]]]
View(L, m) == [p \in DOMAIN L |-> Known(L, m, p)]

\* Blocks inside the arena that do not overlap.
Apart(L) ==
  \A p \in DOMAIN L :
    /\ p \in Pointers /\ p + L[p].bytes <= MAX_HEAP
    /\ \A q \in DOMAIN L \ {p} : p + L[p].bytes <= q \/ q + L[q].bytes <= p

\* What the program holds lies inside the blocks of the heap.
LEMMA HeldApart ==
  ASSUME NEW m, NEW brk, NEW B, Good(m, brk, B), NEW L, Owns(L, m, B), Typed(L)
  PROVE  Apart(L)
<1>1. /\ Tiles(m, brk, B) /\ DOMAIN L \subseteq B
      /\ \A p \in DOMAIN L : L[p].bytes + DSIZE <= Size(m, p) /\ L[p].bytes \in Nat
  <2>1. \A p \in DOMAIN L : L[p] \in Block
    BY DEF Typed
  <2>2. \A p \in DOMAIN L : L[p].bytes \in Nat
    BY <2>1, Mm64Assumption DEF Block
  <2> QED
    BY <2>2 DEF Good, Owns, Taken
<1>2. \A p \in B : p \in Nat /\ p \in Pointers /\ p + Size(m, p) <= brk /\ Size(m, p) \in Nat
  BY <1>1, BlockFacts
<1>3. brk \in Nat /\ brk <= MAX_HEAP /\ MAX_HEAP \in Nat
  BY GoodFacts, PointerIs, MemLibAssumption
<1>4. \A p, q \in B : p < q => p + Size(m, p) <= q
  BY <1>1 DEF Tiles
<1>5. ASSUME NEW p \in DOMAIN L PROVE p \in Pointers /\ p + L[p].bytes <= MAX_HEAP
  BY <1>1, <1>2, <1>3 DEF DSIZE
<1>6. ASSUME NEW p \in DOMAIN L, NEW q \in DOMAIN L \ {p}
      PROVE  p + L[p].bytes <= q \/ q + L[q].bytes <= p
  <2>1. /\ p \in B /\ q \in B /\ p \in Nat /\ q \in Nat /\ p # q
        /\ Size(m, p) \in Nat /\ Size(m, q) \in Nat
        /\ L[p].bytes \in Nat /\ L[q].bytes \in Nat
        /\ L[p].bytes + DSIZE <= Size(m, p) /\ L[q].bytes + DSIZE <= Size(m, q)
    BY <1>1, <1>2
  <2>2. p < q \/ q < p
    BY <2>1
  <2>3. p < q => p + Size(m, p) <= q
    BY <1>4, <2>1
  <2>4. q < p => q + Size(m, q) <= p
    BY <1>4, <2>1
  <2> QED
    BY <2>1, <2>2, <2>3, <2>4 DEF DSIZE
<1> QED
  BY <1>5, <1>6 DEF Apart

\* The words the program knows lie between the tags of its blocks.
LEMMA KnownWords ==
  ASSUME NEW m, NEW brk, NEW B, Good(m, brk, B), NEW L, Owns(L, m, B), Typed(L),
         NEW p \in DOMAIN L, NEW k \in 1 .. L[p].known
  PROVE  LET a == p + WSIZE * (k - 1) IN
         a \in Words /\ p <= a /\ a + WSIZE <= p + L[p].bytes /\ a < p + Size(m, p) - DSIZE
<1>1. /\ L[p] \in Block /\ WSIZE * L[p].known <= L[p].bytes /\ p \in Pointers
      /\ L[p].bytes + DSIZE <= Size(m, p) /\ p \in B
  BY DEF Typed, Owns, Taken
<1>2. L[p].known \in Nat /\ L[p].bytes \in Nat
  BY <1>1, Mm64Assumption DEF Block
<1>3. /\ p \in Nat /\ p % DSIZE = 0 /\ Size(m, p) \in Nat /\ brk \in Nat
      /\ p + Size(m, p) <= brk /\ brk <= MAX_HEAP
  BY <1>1, BlockFacts, GoodFacts DEF Good
<1>4. k \in Nat /\ 1 <= k /\ k <= L[p].known
  BY <1>2
<1> DEFINE a == p + WSIZE * (k - 1)
<1>5. a \in Nat /\ p <= a /\ a % 8 = 0 /\ a + 8 <= p + L[p].bytes
  BY <1>1, <1>2, <1>3, <1>4 DEF WSIZE, DSIZE
<1> HIDE DEF a
<1>6. a + 8 <= MAX_HEAP /\ a < p + Size(m, p) - DSIZE
  BY <1>1, <1>2, <1>3, <1>5, MemLibAssumption DEF DSIZE
<1>7. a \in Words
  BY <1>5, <1>6, WordIs DEF WSIZE
<1> QED
  BY <1>5, <1>6, <1>7 DEF a, WSIZE

\* A block that is kept shows what it showed.
LEMMA KnownKept ==
  ASSUME NEW m, NEW brk, NEW B, Good(m, brk, B), NEW L, Owns(L, m, B), Typed(L),
         NEW m2, NEW S, Keeps(m, m2, S), NEW p \in S \cap DOMAIN L, NEW L2, L2[p] = L[p]
  PROVE  Known(L2, m2, p) = Known(L, m, p)
<1>1. \A k \in 1 .. L[p].known : m2[p + WSIZE * (k - 1)] = m[p + WSIZE * (k - 1)]
  <2> SUFFICES ASSUME NEW k \in 1 .. L[p].known
               PROVE  m2[p + WSIZE * (k - 1)] = m[p + WSIZE * (k - 1)]
    OBVIOUS
  <2> DEFINE a == p + WSIZE * (k - 1)
  <2>1. a \in Words /\ p <= a /\ a < p + Size(m, p) - DSIZE
    BY KnownWords
  <2> HIDE DEF a
  <2>2. m2[a] = m[a]
    BY <2>1 DEF Keeps
  <2> QED
    BY <2>2 DEF a
<1> QED
  BY <1>1 DEF Known

\* The heap after mm_malloc, given what the program held before.
LEMMA MallocHolds ==
  ASSUME HeapInv, NEW size \in Requests, Malloc(size)
  PROVE  \/ live' = live /\ Keeps(mem, mem', DOMAIN live)
         \/ /\ size # 0 /\ Keeps(mem, mem', DOMAIN live)
            /\ \E bp \in Pointers \ DOMAIN live : live' = Held(DOMAIN live, bp, size, 0)
<1>1. PICK m, brk, x : \E B \in SUBSET Pointers :
        Current = Heap(m, brk, x) /\ Good(m, brk, B) /\ Owns(live, m, B)
  BY CurrentIs DEF Malloc
<1>2. PICK B \in SUBSET Pointers :
        Current = Heap(m, brk, x) /\ Good(m, brk, B) /\ Owns(live, m, B)
  BY <1>1
<1>3. Keeps(mem, m, DOMAIN live)
  <2>1. CASE heap_listp = NULL
    <3>1. DOMAIN live = {}
      BY <2>1 DEF HeapInv
    <3> QED
      BY <3>1 DEF Keeps
  <2>2. CASE heap_listp # NULL
    <3>1. Heap(m, brk, x) = Heap(mem, mem_brk, NULL)
      BY <1>2, <2>2 DEF Current
    <3>2. m = mem
      BY <3>1 DEF Heap
    <3> QED
      BY <3>2 DEF Keeps
  <2> QED
    BY <2>1, <2>2
<1>4. Taken(m, B) = DOMAIN live
  BY <1>2 DEF Owns
<1>5. CASE size = 0
  <2>1. mem' = m /\ live' = live
    BY <1>2, <1>5 DEF Malloc, Becomes, Heap
  <2> QED
    BY <1>3, <2>1
<1>6. CASE size # 0
  <2> DEFINE r == Obtain(Heap(m, brk, x), size)
  <2>1. /\ mem' = r.mem
        /\ live' = IF r.bp = NULL THEN live ELSE Held(DOMAIN live, r.bp, size, 0)
    BY <1>2, <1>6 DEF Malloc, Becomes
  <2>2. Obtained(m, brk, B, r, size)
    BY <1>2, <1>6, ObtainGives
  <2> HIDE DEF r
  <2>3. CASE r.bp = NULL
    <3>1. mem' = m /\ live' = live
      BY <2>1, <2>2, <2>3 DEF Obtained
    <3> QED
      BY <1>3, <3>1
  <2>4. CASE r.bp # NULL
    <3>1. /\ r.bp \notin DOMAIN live /\ Keeps(m, r.mem, DOMAIN live)
          /\ \E C \in SUBSET Pointers : r.bp \in C
      BY <1>4, <2>2, <2>4 DEF Obtained
    <3>2. Keeps(mem, r.mem, DOMAIN live)
      BY <1>3, <3>1, KeepsTwice
    <3> QED
      BY <1>6, <2>1, <2>4, <3>1, <3>2
  <2> QED
    BY <2>3, <2>4
<1> QED
  BY <1>5, <1>6

\* The blocks of the promise are those of the program.
LEMMA ContentsAre == Contents = View(live, mem) /\ Contents' = View(live', mem')
  BY DEF Contents, View, Known

\* What holds of the program's blocks once the invariant does.
LEMMA NextApart == HeapInv' => Apart(live')
<1> SUFFICES ASSUME HeapInv' PROVE Apart(live')
  OBVIOUS
<1>1. CASE DOMAIN live' = {}
  BY <1>1 DEF Apart
<1>2. CASE DOMAIN live' # {}
  <2>1. PICK B \in SUBSET Pointers :
          Good(mem', mem_brk', B) /\ Owns(live', mem', B) /\ Typed(live')
    BY <1>2 DEF HeapInv, Used
  <2> QED
    BY <2>1, HeldApart
<1> QED
  BY <1>1, <1>2

\* What the program holds and keeps shows what it showed.
LEMMA ViewKept ==
  ASSUME HeapInv, NEW S, Keeps(mem, mem', S), NEW p \in S \cap DOMAIN live, live'[p] = live[p]
  PROVE  Known(live', mem', p) = Known(live, mem, p)
<1>1. PICK B \in SUBSET Pointers :
        Good(mem, mem_brk, B) /\ Owns(live, mem, B) /\ Typed(live)
  BY DEF HeapInv, Used
<1> QED
  BY <1>1, KnownKept

\* A new block where nothing is held, and nothing else changed.
LEMMA MallocRefines ==
  ASSUME HeapInv, HeapInv', NEW size \in Requests, Malloc(size)
  PROVE  Contents' = Contents
           \/ \E a \in Promise!Addresses, bytes \in Requests \ {0} : Promise!Allocate(a, bytes)
<1>1. CASE live' = live /\ Keeps(mem, mem', DOMAIN live)
  <2>1. \A p \in DOMAIN live : Known(live', mem', p) = Known(live, mem, p)
    BY <1>1, ViewKept
  <2>2. View(live', mem') = View(live, mem)
    BY <1>1, <2>1 DEF View
  <2> QED
    BY <2>2, ContentsAre
<1>2. ASSUME size # 0, Keeps(mem, mem', DOMAIN live),
             NEW bp \in Pointers \ DOMAIN live, live' = Held(DOMAIN live, bp, size, 0)
      PROVE  \E a \in Promise!Addresses, bytes \in Requests \ {0} : Promise!Allocate(a, bytes)
  <2>1. /\ DOMAIN live' = DOMAIN live \cup {bp} /\ live'[bp] = [bytes |-> size, known |-> 0]
        /\ \A q \in DOMAIN live \ {bp} : live'[q] = live[q]
        /\ Known(live', mem', bp) = [bytes |-> size,
                                     data |-> [k \in 1 .. 0 |-> mem'[bp + WSIZE * (k - 1)]]]
    <3>1. /\ DOMAIN live' = DOMAIN live \cup {bp} /\ live'[bp] = [bytes |-> size, known |-> 0]
          /\ \A q \in DOMAIN live \ {bp} : live'[q] = live[q]
      BY <1>2 DEF Held
    <3> QED
      BY <3>1 DEF Known
  <2>2. \A q \in DOMAIN live : live'[q] = live[q] /\ Known(live', mem', q) = Known(live, mem, q)
    BY <1>2, <2>1, ViewKept
  <2>3. Known(live', mem', bp) = [bytes |-> size, data |-> <<>>]
    <3>1. [k \in 1 .. 0 |-> mem'[bp + WSIZE * (k - 1)]] = <<>>
      OBVIOUS
    <3> QED
      BY <2>1, <3>1
  <2>4. View(live', mem') = [q \in DOMAIN live \cup {bp} |->
                               IF q = bp THEN [bytes |-> size, data |-> <<>>]
                               ELSE View(live, mem)[q]]
    BY <2>1, <2>2, <2>3 DEF View
  <2>5. /\ DOMAIN View(live, mem) = DOMAIN live
        /\ \A q \in DOMAIN live : View(live, mem)[q].bytes = live[q].bytes
    BY DEF View, Known
  <2>6. /\ bp + size <= MAX_HEAP
        /\ \A q \in DOMAIN live : bp + size <= q \/ q + live[q].bytes <= bp
    <3>1. Apart(live')
      BY NextApart
    <3>2. /\ bp + live'[bp].bytes <= MAX_HEAP
          /\ \A q \in DOMAIN live' \ {bp} : bp + live'[bp].bytes <= q \/ q + live'[q].bytes <= bp
      BY <2>1, <3>1 DEF Apart
    <3> QED
      BY <1>2, <2>1, <2>2, <3>2
  <2>7. Promise!Allocate(bp, size)
    BY <2>4, <2>5, <2>6, ContentsAre DEF Promise!Allocate, Promise!Free, Promise!With
  <2>8. bp \in Promise!Addresses /\ size \in Requests \ {0}
    BY <1>2 DEF Promise!Addresses, Pointers
  <2> QED
    BY <2>7, <2>8
<1> QED
  BY <1>1, <1>2, MallocHolds

\* A block less.
LEMMA FreeRefines ==
  ASSUME HeapInv, NEW p \in DOMAIN live, Free(p)
  PROVE  Promise!Release(p) /\ p \in DOMAIN Contents
<1> DEFINE c == coalesce(mem, p)
           L == [q \in DOMAIN live \ {p} |-> live[q]]
<1>1. mem' = c.mem /\ live' = L
  BY DEF Free, Becomes, Coalesced, Heap
<1>2. PICK B \in SUBSET Pointers : Good(mem, mem_brk, B) /\ Owns(live, mem, B)
  BY DEF HeapInv, Used
<1>3. Tiles(mem, mem_brk, B) /\ NoTwoFree(mem, B, p)
  <2>1. \A q \in B : q # NULL
    BY <1>2, GoodFacts
  <2> QED
    BY <1>2, <2>1 DEF Good, NoTwoFree
<1>4. p \in B /\ p # DSIZE /\ Taken(mem, B) = DOMAIN live
  BY <1>2 DEF Owns, Taken
<1>5. Keeps(mem, c.mem, DOMAIN live \ {p})
  <2>1. \E C \in SUBSET Pointers : Keeps(mem, c.mem, Taken(mem, B) \ {p})
    BY <1>3, <1>4, CoalesceGives
  <2> QED
    BY <1>4, <2>1
<1> HIDE DEF c
<1>6. Keeps(mem, mem', DOMAIN live \ {p})
  BY <1>1, <1>5
<1>7. DOMAIN live' = DOMAIN live \ {p} /\ \A q \in DOMAIN live \ {p} : live'[q] = live[q]
  BY <1>1
<1> HIDE DEF L
<1>8. \A q \in DOMAIN live \ {p} : Known(live', mem', q) = Known(live, mem, q)
  BY <1>6, <1>7, ViewKept
<1>9. View(live', mem') = [q \in DOMAIN View(live, mem) \ {p} |-> View(live, mem)[q]]
  BY <1>7, <1>8 DEF View
<1>10. p \in DOMAIN View(live, mem)
  BY DEF View
<1> QED
  BY <1>9, <1>10, ContentsAre DEF Promise!Release

\* Every word of a block written, and no other block changed.
LEMMA FillRefines ==
  ASSUME HeapInv, NEW p \in DOMAIN live, NEW v \in Values, Fill(p, v)
  PROVE  Promise!Write(p, v) /\ p \in DOMAIN Contents
<1> DEFINE n == live[p].bytes \div WSIZE
<1>1. PICK B \in SUBSET Pointers :
        Good(mem, mem_brk, B) /\ Owns(live, mem, B) /\ Typed(live)
  BY DEF HeapInv, Used
<1>2. /\ live[p] \in Block /\ p \in B /\ live[p].bytes \in Nat /\ live[p].bytes % WSIZE = 0
      /\ live[p].bytes + DSIZE <= Size(mem, p) /\ p \in Nat
  <2>1. live[p] \in Block /\ p \in B /\ live[p].bytes + DSIZE <= Size(mem, p) /\ p \in Pointers
    BY <1>1 DEF Typed, Owns, Taken
  <2> QED
    BY <2>1, PointerIs, Mm64Assumption DEF Block
<1>3. /\ DOMAIN live' = DOMAIN live /\ live'[p].bytes = live[p].bytes /\ live'[p].known = n
      /\ \A q \in DOMAIN live \ {p} : live'[q] = live[q]
  <2>1. live' = [live EXCEPT ![p] = [live[p] EXCEPT !.known = n]]
    BY DEF Fill
  <2>2. DOMAIN live' = DOMAIN live /\ live'[p] = [live[p] EXCEPT !.known = n]
        /\ \A q \in DOMAIN live \ {p} : live'[q] = live[q]
    BY <1>1, <2>1 DEF Typed
  <2> QED
    BY <1>2, <2>2 DEF Block
<1>4. n \in Nat /\ WSIZE * n = live[p].bytes
  BY <1>2 DEF WSIZE
<1> HIDE DEF n
<1>5. \A a \in Words : p <= a /\ a < p + live[p].bytes => mem'[a] = v
  BY <1>2, WordIs DEF Fill
<1>6. \A k \in 1 .. n : mem'[p + WSIZE * (k - 1)] = v
  <2> SUFFICES ASSUME NEW k \in 1 .. n PROVE mem'[p + WSIZE * (k - 1)] = v
    OBVIOUS
  <2> DEFINE a == p + WSIZE * (k - 1)
  <2>1. a \in Words /\ p <= a /\ a + WSIZE <= p + live[p].bytes
    <3>1. p \in Pointers /\ p + live[p].bytes + DSIZE <= MAX_HEAP
      <4>1. p + Size(mem, p) <= mem_brk /\ Size(mem, p) \in Nat
        BY <1>1, <1>2, BlockFacts DEF Good
      <4>2. mem_brk \in Nat /\ mem_brk <= MAX_HEAP /\ MAX_HEAP \in Nat
        BY <1>1, GoodFacts, PointerIs, MemLibAssumption
      <4>3. p \in Pointers
        BY <1>1 DEF Typed
      <4> QED
        BY <1>2, <4>1, <4>2, <4>3 DEF DSIZE
    <3>2. p % 8 = 0 /\ k \in Nat /\ 1 <= k /\ k <= n
      BY <1>2, <1>4, <3>1, PointerIs DEF DSIZE
    <3>3. a \in Nat /\ p <= a /\ a % 8 = 0 /\ a + 8 <= p + live[p].bytes
      BY <1>2, <1>4, <3>2 DEF WSIZE
    <3> HIDE DEF a
    <3>4. a + 8 <= MAX_HEAP
      BY <1>2, <3>1, <3>3, MemLibAssumption DEF DSIZE
    <3> QED
      BY <3>3, <3>4, WordIs DEF WSIZE
  <2> HIDE DEF a
  <2>2. a \in Nat
    BY <2>1, WordIs
  <2>3. mem'[a] = v
    BY <1>2, <1>5, <2>1, <2>2 DEF WSIZE
  <2> QED
    BY <2>3 DEF a
<1>7. Keeps(mem, mem', DOMAIN live \ {p})
  <2> DEFINE m2 == mem'
  <2>1. DataOnly(mem, m2, p)
    <3>1. m2 \in Memory
      BY Mm64Assumption DEF HeapInv, Fill, Memory
    <3>2. \A a \in Words : a < p \/ a >= p + Size(mem, p) - DSIZE => m2[a] = mem[a]
      <4> SUFFICES ASSUME NEW a \in Words, a < p \/ a >= p + Size(mem, p) - DSIZE
                   PROVE  mem'[a] = mem[a]
        OBVIOUS
      <4>1. a \in Nat /\ Size(mem, p) \in Nat
        BY <1>1, <1>2, BlockFacts, WordIs DEF Good
      <4>2. a \notin p .. p + live[p].bytes - 1
        BY <1>2, <4>1 DEF DSIZE
      <4> QED
        BY <4>2 DEF Fill
    <3> QED
      BY <3>1, <3>2 DEF DataOnly
  <2> HIDE DEF m2
  <2>2. Good(mem, mem_brk, B) /\ p \in B
    BY <1>1, <1>2
  <2>3. Keeps(mem, m2, B \ {p})
    BY <2>1, <2>2, DataWritten
  <2>4. DOMAIN live \subseteq B
    BY <1>1 DEF Owns, Taken
  <2> QED
    BY <2>3, <2>4 DEF m2, Keeps
<1>8. \A q \in DOMAIN live \ {p} : Known(live', mem', q) = Known(live, mem, q)
  BY <1>3, <1>7, ViewKept
<1>9. Known(live', mem', p) = [bytes |-> live[p].bytes, data |-> [k \in 1 .. n |-> v]]
  BY <1>3, <1>6 DEF Known
<1>10. View(live', mem') = [View(live, mem) EXCEPT ![p].data =
                              [k \in 1 .. View(live, mem)[p].bytes \div WSIZE |-> v]]
  <2> DEFINE V == View(live, mem)
             d == [k \in 1 .. n |-> v]
  <2>1. V = [q \in DOMAIN live |-> Known(live, mem, q)]
    BY DEF View
  <2>2. [V[p] EXCEPT !.data = d] = [bytes |-> live[p].bytes, data |-> d]
    <3>1. \A b, x, y : [[bytes |-> b, data |-> x] EXCEPT !.data = y] = [bytes |-> b, data |-> y]
      OBVIOUS
    <3>2. V[p] = Known(live, mem, p)
      BY <2>1
    <3> HIDE DEF V, d
    <3> QED
      BY <3>1, <3>2 DEF Known
  <2>3. V[p].bytes \div WSIZE = n
    BY <2>1 DEF Known, n
  <2>4. View(live', mem') = [q \in DOMAIN live |-> Known(live', mem', q)]
    BY <1>3 DEF View
  <2> HIDE DEF V, d
  <2>5. View(live', mem') = [V EXCEPT ![p] = [V[p] EXCEPT !.data = d]]
    BY <1>8, <1>9, <2>1, <2>2, <2>4 DEF d
  <2> QED
    BY <2>3, <2>5 DEF V, d
<1>11. p \in DOMAIN View(live, mem)
  BY DEF View
<1> QED
  BY <1>10, <1>11, ContentsAre DEF Promise!Write

\* The heap given back, or a heap of which the program holds nothing.
LEMMA RestRefines ==
  /\ Init => Promise!Init
  /\ Stop => Promise!Discard
  /\ HeapInv /\ Start => Contents' = Contents
  /\ UNCHANGED vars => Contents' = Contents
<1>1. \A m, L : DOMAIN L = {} => View(L, m) = <<>>
  BY DEF View
<1>2. DOMAIN <<>> = {}
  OBVIOUS
<1>3. Init => Contents = <<>>
  BY <1>1, <1>2, ContentsAre DEF Init
<1>4. Stop => Contents' = <<>>
  BY <1>1, <1>2, ContentsAre DEF Stop
<1>5. HeapInv /\ Start => Contents' = Contents
  <2> SUFFICES ASSUME HeapInv, Start PROVE Contents' = Contents
    OBVIOUS
  <2>1. DOMAIN live = {} /\ live' = live
    BY DEF HeapInv, Start
  <2> QED
    BY <1>1, <2>1, ContentsAre
<1>6. UNCHANGED vars => Contents' = Contents
  BY ContentsAre DEF vars
<1> QED
  BY <1>3, <1>4, <1>5, <1>6 DEF Promise!Init, Promise!Discard

\* The words the program knew and the new block has room for are in it.
LEMMA CopyArrives ==
  ASSUME NEW m, NEW brk, NEW B, Good(m, brk, B), NEW p \in Taken(m, B),
         NEW size \in Requests \ {0}, NEW r, Obtained(m, brk, B, r, size), r.bp # NULL,
         NEW n \in Nat, WSIZE * n <= size, WSIZE * n + DSIZE <= Size(m, p)
  PROVE  LET c == coalesce(Moved(r, p, size), p) IN
         \A k \in 1 .. n : c.mem[r.bp + WSIZE * (k - 1)] = m[p + WSIZE * (k - 1)]
<1> DEFINE w  == Moved(r, p, size)
           c  == coalesce(w, p)
           bp == r.bp
           n0 == First({size, Size(r.mem, p)})
<1>1. PICK C \in SUBSET Pointers :
        /\ Good(r.mem, r.brk, C) /\ bp \in C /\ p \in C
        /\ Keeps(m, r.mem, Taken(m, B)) /\ Size(r.mem, bp) >= size + DSIZE
  BY ReallocGives
<1>2. bp \notin Taken(m, B) /\ Keeps(w, c.mem, {bp}) /\ Size(c.mem, bp) >= size + DSIZE
  BY ReallocGives
<1>3. size \in Nat /\ p # bp
  BY <1>2, Mm64Assumption
<1>4. /\ n0 \in Nat
      /\ \A a \in Words : bp <= a /\ a < bp + n0 => w[a] = r.mem[p + (a - bp)]
  BY <1>1, <1>3, MovedGives
<1>5. Size(r.mem, p) = Size(m, p)
  BY <1>1 DEF Keeps
<1>6. /\ bp \in Nat /\ bp % DSIZE = 0 /\ bp + Size(r.mem, bp) <= r.brk /\ r.brk <= MAX_HEAP
      /\ Size(r.mem, bp) \in Nat /\ r.brk \in Nat
  <2>1. Tiles(r.mem, r.brk, C) /\ r.brk \in Nat
    BY <1>1, GoodFacts DEF Good
  <2> QED
    BY <1>1, <2>1, BlockFacts
<1>7. /\ p \in Nat /\ p % DSIZE = 0 /\ p + Size(m, p) <= brk /\ brk <= MAX_HEAP
      /\ Size(m, p) \in Nat /\ brk \in Nat
  <2>1. Tiles(m, brk, B) /\ brk \in Nat /\ p \in B
    BY GoodFacts DEF Good, Taken
  <2> QED
    BY <2>1, BlockFacts
<1>8. WSIZE * n <= n0
  <2>1. n0 \in {size, Size(r.mem, p)}
    BY <1>3, <1>5, <1>7, SmallerIs
  <2> QED
    BY <1>3, <1>5, <1>7, <2>1 DEF WSIZE, DSIZE
<1>9. Size(w, bp) = Size(c.mem, bp)
  BY <1>2 DEF Keeps
<1>10. Size(c.mem, bp) \in Int
  <2>1. /\ DataOnly(r.mem, w, bp) /\ Good(r.mem, r.brk, C) /\ bp \in C
    BY <1>1, <1>3, MovedGives
  <2> HIDE DEF w
  <2>2. SameSizes(r.mem, w, C)
    BY <2>1, DataWritten
  <2> QED
    BY <1>1, <1>6, <1>9, <2>2 DEF SameSizes
<1> HIDE DEF w, c, n0
<1>11. ASSUME NEW k \in 1 .. n
       PROVE  c.mem[bp + WSIZE * (k - 1)] = m[p + WSIZE * (k - 1)]
  <2> DEFINE a == bp + WSIZE * (k - 1)
             b == p + WSIZE * (k - 1)
  <2>1. k \in Nat /\ 1 <= k /\ k <= n
    OBVIOUS
  <2>2. /\ a \in Nat /\ bp <= a /\ a % 8 = 0 /\ a + 8 <= bp + 8 * n
        /\ b \in Nat /\ p <= b /\ b % 8 = 0 /\ b + 8 <= p + 8 * n /\ b = p + (a - bp)
    <3> DEFINE d == WSIZE * (k - 1)
    <3>1. d \in Nat /\ d % 8 = 0 /\ d + 8 <= 8 * n
      BY <2>1 DEF WSIZE
    <3>2. a = bp + d /\ b = p + d
      OBVIOUS
    <3>3. bp \in Nat /\ bp % 8 = 0 /\ p \in Nat /\ p % 8 = 0
      BY <1>6, <1>7 DEF DSIZE
    <3> HIDE DEF a, b, d, bp
    <3> QED
      BY <3>1, <3>2, <3>3
  <2> HIDE DEF a, b, bp
  <2>3. /\ a + 8 <= MAX_HEAP /\ b + 8 <= MAX_HEAP
        /\ b < p + Size(m, p) - DSIZE /\ a < bp + n0 /\ a < bp + Size(c.mem, bp) - DSIZE
    BY <1>1, <1>2, <1>3, <1>4, <1>6, <1>7, <1>8, <1>10, <2>2, MemLibAssumption DEF WSIZE, DSIZE
  <2>4. a \in Words /\ b \in Words
    BY <2>2, <2>3, WordIs DEF WSIZE
  <2>5. c.mem[a] = w[a]
    BY <1>2, <1>9, <2>2, <2>3, <2>4 DEF Keeps
  <2>6. w[a] = r.mem[b]
    BY <1>4, <2>2, <2>3, <2>4
  <2>7. r.mem[b] = m[b]
    BY <1>1, <2>2, <2>3, <2>4 DEF Keeps
  <2> QED
    BY <2>5, <2>6, <2>7 DEF a, b
<1> QED
  BY <1>11 DEF c, w, bp

\* The heap after mm_realloc, given what the program held before.
LEMMA ReallocHolds ==
  ASSUME HeapInv, NEW p \in DOMAIN live, NEW size \in Requests, Realloc(p, size)
  PROVE  LET n == First({live[p].known, size \div WSIZE}) IN
         \/ live' = live /\ mem' = mem
         \/ /\ size # 0 /\ Keeps(mem, mem', DOMAIN live \ {p}) /\ n \in Nat
            /\ \E bp \in Pointers \ DOMAIN live :
                 /\ live' = Held(DOMAIN live \ {p}, bp, size, n)
                 /\ \A k \in 1 .. n : mem'[bp + WSIZE * (k - 1)] = mem[p + WSIZE * (k - 1)]
<1> DEFINE r == Obtain(Heap(mem, mem_brk, NULL), size)
           c == coalesce(Moved(r, p, size), p)
           n == First({live[p].known, size \div WSIZE})
<1>1. PICK B \in SUBSET Pointers :
        Good(mem, mem_brk, B) /\ Owns(live, mem, B) /\ Typed(live)
  BY DEF HeapInv, Used
<1>2. size \in Nat /\ size > 0 /\ size \in Requests \ {0}
  BY Mm64Assumption DEF Realloc
<1>3. Obtained(mem, mem_brk, B, r, size)
  BY <1>1, <1>2, ObtainGives
<1>4. IF r.bp = NULL THEN mem' = r.mem /\ live' = live
      ELSE mem' = c.mem /\ live' = Held(DOMAIN live \ {p}, r.bp, size, n)
  BY DEF Realloc, Becomes, Coalesced, Heap, ReallocTo
<1> HIDE DEF r
<1>5. CASE r.bp = NULL
  <2>1. mem' = mem /\ live' = live
    BY <1>3, <1>4, <1>5 DEF Obtained
  <2> QED
    BY <2>1
<1>6. CASE r.bp # NULL
  <2>1. p \in Taken(mem, B) /\ Taken(mem, B) = DOMAIN live
    BY <1>1 DEF Owns
  <2>2. /\ r.bp \notin DOMAIN live /\ r.bp \in Pointers
        /\ Keeps(mem, c.mem, DOMAIN live \ {p})
    BY <1>1, <1>2, <1>3, <1>6, <2>1, ReallocGives
  <2>3. n \in Nat /\ WSIZE * n <= size /\ WSIZE * n + DSIZE <= Size(mem, p)
    <3>1. /\ live[p].known \in Nat /\ live[p].bytes \in Nat
          /\ WSIZE * live[p].known <= live[p].bytes /\ live[p].bytes + DSIZE <= Size(mem, p)
      BY <1>1, Mm64Assumption DEF Typed, Block, Owns
    <3>2. size \div WSIZE \in Nat /\ WSIZE * (size \div WSIZE) <= size
      BY <1>2 DEF WSIZE
    <3>3. n \in Nat /\ n <= size \div WSIZE /\ n <= live[p].known
      BY <3>1, <3>2, SmallerIs
    <3>4. Size(mem, p) \in Nat
      <4>1. Tiles(mem, mem_brk, B) /\ p \in B
        BY <1>1, <2>1 DEF Good, Taken
      <4> QED
        BY <4>1, BlockFacts
    <3> HIDE DEF n
    <3> QED
      BY <1>2, <3>1, <3>2, <3>3, <3>4 DEF WSIZE, DSIZE
  <2> HIDE DEF n
  <2>4. \A k \in 1 .. n : c.mem[r.bp + WSIZE * (k - 1)] = mem[p + WSIZE * (k - 1)]
    BY <1>1, <1>2, <1>3, <1>6, <2>1, <2>3, CopyArrives
  <2> HIDE DEF c
  <2>5. mem' = c.mem /\ live' = Held(DOMAIN live \ {p}, r.bp, size, n)
    BY <1>4, <1>6
  <2> QED
    BY <1>2, <2>2, <2>3, <2>4, <2>5 DEF n
<1> QED
  BY <1>5, <1>6

\* The first words of what the program knew.
LEMMA PrefixIs ==
  ASSUME NEW m, NEW a, NEW len \in Nat, NEW n \in Nat, n <= len
  PROVE  LET s == [k \in 1 .. len |-> m[a + WSIZE * (k - 1)]] IN
         Len(s) = len /\ SubSeq(s, 1, n) = [k \in 1 .. n |-> m[a + WSIZE * (k - 1)]]
<1> DEFINE s == [k \in 1 .. len |-> m[a + WSIZE * (k - 1)]]
           t == [k \in 1 .. n |-> m[a + WSIZE * (k - 1)]]
           T == {m[a + WSIZE * (k - 1)] : k \in 1 .. len}
<1>1. s \in Seq(T) /\ Len(s) = len
  <2>1. s \in [1 .. len -> T]
    OBVIOUS
  <2> HIDE DEF s, T
  <2> QED
    BY <2>1
<1>4. \A k \in 1 .. n : s[k] = t[k]
  OBVIOUS
<1>2. DOMAIN t = 1 .. n /\ t = [k \in 1 .. n |-> t[k]]
  OBVIOUS
<1> HIDE DEF s, t
<1>3. SubSeq(s, 1, n) = [k \in 1 .. n |-> s[k]]
  BY <1>1
<1> QED
  BY <1>1, <1>2, <1>3, <1>4 DEF s, t

\* One block exchanged for another with its first words, or nothing changed.
LEMMA ReallocRefines ==
  ASSUME HeapInv, HeapInv', NEW p \in DOMAIN live, NEW size \in Requests, Realloc(p, size)
  PROVE  \/ Contents' = Contents
         \/ /\ p \in DOMAIN Contents
            /\ \E b \in Promise!Addresses, bytes \in Requests \ {0} : Promise!Resize(p, b, bytes)
<1> DEFINE n == First({live[p].known, size \div WSIZE})
           others == DOMAIN live \ {p}
           data(m, a, len) == [k \in 1 .. len |-> m[a + WSIZE * (k - 1)]]
<1>1. CASE live' = live /\ mem' = mem
  BY <1>1, ContentsAre
<1>2. ASSUME size # 0, Keeps(mem, mem', others), n \in Nat,
             NEW bp \in Pointers \ DOMAIN live, live' = Held(others, bp, size, n),
             \A k \in 1 .. n : mem'[bp + WSIZE * (k - 1)] = mem[p + WSIZE * (k - 1)]
      PROVE  /\ p \in DOMAIN Contents
             /\ \E b \in Promise!Addresses, bytes \in Requests \ {0} :
                  Promise!Resize(p, b, bytes)
  <2> DEFINE V == View(live, mem)
  <2>1. /\ DOMAIN live' = others \cup {bp} /\ live'[bp] = [bytes |-> size, known |-> n]
        /\ \A q \in others : live'[q] = live[q] /\ q # bp
    BY <1>2 DEF Held
  <2>2. \A q \in others : Known(live', mem', q) = Known(live, mem, q)
    BY <1>2, <2>1, ViewKept
  <2>3. live[p].known \in Nat /\ size \in Nat /\ size \div WSIZE \in Nat /\ n <= live[p].known
    <3>1. live[p].known \in Nat
      BY DEF HeapInv, Typed, Block
    <3>2. size \in Nat /\ size \div WSIZE \in Nat
      BY Mm64Assumption DEF WSIZE
    <3> QED
      BY <3>1, <3>2, SmallerIs
  <2>4. /\ DOMAIN V = DOMAIN live /\ \A q \in DOMAIN live : V[q].bytes = live[q].bytes
        /\ V[p].data = data(mem, p, live[p].known)
    BY DEF View, Known
  <2>5. n = LET kept == {size \div WSIZE, Len(V[p].data)}
            IN  CHOOSE k \in kept : \A j \in kept : k <= j
    <3>1. Len(V[p].data) = live[p].known
      BY <2>3, <2>4, PrefixIs
    <3>2. {live[p].known, size \div WSIZE} = {size \div WSIZE, live[p].known}
      OBVIOUS
    <3> HIDE DEF V
    <3> QED
      BY <3>1, <3>2 DEF First
  <2>6. Known(live', mem', bp) = [bytes |-> size, data |-> SubSeq(V[p].data, 1, n)]
    <3> HIDE DEF n
    <3>1. SubSeq(V[p].data, 1, n) = data(mem, p, n)
      BY <1>2, <2>3, <2>4, PrefixIs
    <3>2. data(mem', bp, n) = data(mem, p, n)
      BY <1>2
    <3>3. Known(live', mem', bp) = [bytes |-> live'[bp].bytes, data |-> data(mem', bp, live'[bp].known)]
      BY DEF Known
    <3>4. live'[bp].bytes = size /\ live'[bp].known = n
      BY <2>1
    <3> HIDE DEF V, data
    <3> QED
      BY <3>1, <3>2, <3>3, <3>4
  <2>7. View(live', mem') = [q \in others \cup {bp} |->
                               IF q = bp THEN [bytes |-> size, data |-> SubSeq(V[p].data, 1, n)]
                               ELSE V[q]]
    <3>1. \A q \in others : V[q] = Known(live, mem, q)
      BY DEF View
    <3> HIDE DEF V, n
    <3> QED
      BY <2>1, <2>2, <2>6, <3>1 DEF View
  <2>8. /\ bp + size <= MAX_HEAP
        /\ \A q \in others : bp + size <= q \/ q + V[q].bytes <= bp
    <3>1. Apart(live')
      BY NextApart
    <3>2. /\ bp + live'[bp].bytes <= MAX_HEAP
          /\ \A q \in DOMAIN live' \ {bp} : bp + live'[bp].bytes <= q \/ q + live'[q].bytes <= bp
      BY <2>1, <3>1 DEF Apart
    <3> HIDE DEF V, n
    <3> QED
      BY <2>1, <2>4, <3>2
  <2>9. Contents = V /\ Contents' = View(live', mem')
    BY ContentsAre
  <2> HIDE DEF V, n
  <2>10. Promise!Resize(p, bp, size)
    <3>1. Promise!Free(bp, size, others)
      BY <2>8, <2>9 DEF Promise!Free
    <3>2. Contents' = Promise!With(others, bp, size, SubSeq(Contents[p].data, 1, n))
      BY <2>7, <2>9 DEF Promise!With
    <3>3. others = DOMAIN Contents \ {p}
      BY <2>4, <2>9
    <3> HIDE DEF others
    <3> QED
      BY <2>5, <2>9, <3>1, <3>2, <3>3 DEF Promise!Resize
  <2>11. bp \in Promise!Addresses /\ size \in Requests \ {0} /\ p \in DOMAIN Contents
    BY <1>2, <2>4, <2>9 DEF Promise!Addresses, Pointers
  <2> QED
    BY <2>10, <2>11
<1> QED
  BY <1>1, <1>2, ReallocHolds

\* The blocks the program holds are aligned, lie inside the heap, do not
\* overlap and keep what was written to them until they are freed, whatever
\* is allocated, freed or resized around them; a resized block begins with
\* the words of the old one, and a request that fails changes nothing
\* (mm.c:139-309).
THEOREM PromiseKept == Spec => KeepsPromise
<1>1. Init => Promise!Init
  BY RestRefines
<1>2. HeapInv /\ HeapInv' /\ [Next]_vars => [Promise!Next]_Contents
  <2> SUFFICES ASSUME HeapInv, HeapInv', [Next]_vars PROVE Promise!Next \/ Contents' = Contents
    OBVIOUS
  <2>1. CASE UNCHANGED vars
    BY <2>1, RestRefines
  <2>2. CASE Start
    BY <2>2, RestRefines
  <2>3. CASE Stop
    BY <2>3, RestRefines DEF Promise!Next
  <2>4. ASSUME NEW size \in Requests, Malloc(size)
        PROVE  Promise!Next \/ Contents' = Contents
    BY <2>4, MallocRefines DEF Promise!Next
  <2>5. ASSUME NEW p \in DOMAIN live, Free(p)
        PROVE  Promise!Next
    BY <2>5, FreeRefines DEF Promise!Next
  <2>6. ASSUME NEW p \in DOMAIN live, NEW size \in Requests, Realloc(p, size)
        PROVE  Promise!Next \/ Contents' = Contents
    BY <2>6, ReallocRefines DEF Promise!Next
  <2>7. ASSUME NEW p \in DOMAIN live, NEW v \in Values, Fill(p, v)
        PROVE  Promise!Next
    BY <2>7, FillRefines DEF Promise!Next
  <2> QED
    BY <2>1, <2>2, <2>3, <2>4, <2>5, <2>6, <2>7 DEF Next, Call
<1> QED
  BY <1>1, <1>2, HeapInvariance, PTL DEF Spec, KeepsPromise, Promise!Spec
=============================================================================
