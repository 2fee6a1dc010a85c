------------------------- MODULE ImplicitListProofs -------------------------
(***************************************************************************)
(* The implicit list allocator for every arena, chunk size and list of     *)
(* requests: as long as prev_payload leads to the previous block, the heap *)
(* stays tiled, coalescing is complete, and the blocks held are the        *)
(* allocated ones; and every call in which it does keeps the promise of    *)
(* malloc, free and realloc.  The argument is the one of Mm64Proofs, with  *)
(* two differences: the blocks are only known while no call was misled,    *)
(* and coalesce reads its way to the previous block anew after every       *)
(* write, so the writes must be shown to leave that word alone.            *)
(***************************************************************************)
EXTENDS ImplicitList, WellFoundedInduction, TLAPS

-----------------------------------------------------------------------------
(* Blocks.                                                                 *)

MIN_BLOCK_SIZE == 32   \* two tags and one double word

Memory   == [Words -> [size : Nat, allocated : {0, 1}]]
Payloads == {DWORD_SIZE * k : k \in 0 .. MAX_HEAP \div DWORD_SIZE}

Size(m, p)  == Word(m, header(p)).size
Alloc(m, p) == Word(m, header(p)).allocated

\* The two tags of the block at p are the same.
Tagged(m, p) == m[footer(m, p)] = m[header(p)]

\* The blocks at B, of which the prologue is one, fill the heap from the
\* prologue to the epilogue.
Tiles(m, brk, B) ==
  /\ m \in Memory /\ brk \in Payloads /\ B \subseteq Payloads
  /\ DWORD_SIZE \in B /\ m[WSIZE] = Tag(DWORD_SIZE, 1) /\ m[brk - WSIZE] = Tag(0, 1)
  /\ \A p \in B : /\ Tagged(m, p) /\ p >= DWORD_SIZE /\ Size(m, p) >= DWORD_SIZE
                  /\ p # DWORD_SIZE => p >= MIN_BLOCK_SIZE /\ Size(m, p) >= MIN_BLOCK_SIZE
                  /\ p + Size(m, p) \in B \cup {brk} /\ p + Size(m, p) <= brk
  /\ \A p, q \in B : p < q => p + Size(m, p) <= q
  /\ \A q \in B \cup {brk} : q = DWORD_SIZE \/ \E p \in B : p + Size(m, p) = q

\* No two neighbours are free, but perhaps one of them is x.
NoTwoFree(m, B, x) ==
  \A p \in B : LET q == p + Size(m, p) IN
    q \in B /\ p # x /\ q # x => Alloc(m, p) = 1 \/ Alloc(m, q) = 1

\* The blocks the program holds.
Taken(m, B) == {p \in B \ {DWORD_SIZE} : Alloc(m, p) = 1}

Good(m, brk, B) == Tiles(m, brk, B) /\ NoTwoFree(m, B, NULL)

\* The program holds exactly the allocated blocks, each with room for what it
\* asked for; L is what it holds.
Owns(L, m, B) ==
  /\ Taken(m, B) = DOMAIN L
  /\ \A p \in DOMAIN L : L[p].bytes + DWORD_SIZE <= Size(m, p)

Block == [bytes : Requests \ {0}, known : Nat]

Typed(L) ==
  /\ DOMAIN L \subseteq Payloads /\ L \in [DOMAIN L -> Block]
  /\ \A p \in DOMAIN L : WSIZE * L[p].known <= L[p].bytes

\* Until a call is misled; after it no call follows.
HeapInv ==
  /\ misread \in BOOLEAN
  /\ misread = FALSE =>
    /\ mem \in Memory /\ mem_brk \in Nat /\ heap_listp \in {NULL, DWORD_SIZE} /\ Typed(live)
    /\ heap_listp = NULL => mem_brk = 0
    /\ mem_brk = 0 => DOMAIN live = {}
    /\ mem_brk > 0 => \E B \in SUBSET Payloads : Good(mem, mem_brk, B) /\ Owns(live, mem, B)
-----------------------------------------------------------------------------
(* Addresses and tags.                                                     *)

\* Payloads start at the double words of the arena.
LEMMA PayloadIs == \A p : p \in Payloads <=> p \in Nat /\ p % DWORD_SIZE = 0 /\ p <= MAX_HEAP
<1> SUFFICES ASSUME NEW p
             PROVE  p \in Payloads <=> p \in Nat /\ p % DWORD_SIZE = 0 /\ p <= MAX_HEAP
  OBVIOUS
<1>1. MAX_HEAP \in Nat /\ DWORD_SIZE = 16 /\ MAX_HEAP \div 16 \in Nat
  BY MemLibAssumption DEF DWORD_SIZE
<1>2. ASSUME p \in Payloads PROVE p \in Nat /\ p % DWORD_SIZE = 0 /\ p <= MAX_HEAP
  <2>1. PICK k \in 0 .. MAX_HEAP \div 16 : p = 16 * k
    BY <1>1, <1>2 DEF Payloads
  <2> QED
    BY <1>1, <2>1
<1>3. ASSUME p \in Nat, p % DWORD_SIZE = 0, p <= MAX_HEAP PROVE p \in Payloads
  <2>1. p \div 16 \in 0 .. MAX_HEAP \div 16 /\ p = 16 * (p \div 16)
    BY <1>1, <1>3
  <2> QED
    BY <1>1, <2>1 DEF Payloads
<1> QED
  BY <1>2, <1>3

\* The words of the arena are its multiples of 8.
LEMMA WordIs == \A a : a \in Words <=> a \in Nat /\ a % WSIZE = 0 /\ a + WSIZE <= MAX_HEAP
<1> SUFFICES ASSUME NEW a
             PROVE  a \in Words <=> a \in Nat /\ a % WSIZE = 0 /\ a + WSIZE <= MAX_HEAP
  OBVIOUS
<1>1. MAX_HEAP \in Nat /\ WSIZE = 8 /\ MAX_HEAP \div 8 - 1 \in Int
  BY MemLibAssumption DEF WSIZE
<1>2. ASSUME a \in Words PROVE a \in Nat /\ a % WSIZE = 0 /\ a + WSIZE <= MAX_HEAP
  <2>1. PICK k \in 0 .. MAX_HEAP \div 8 - 1 : a = 8 * k
    BY <1>1, <1>2 DEF Words
  <2> QED
    BY <1>1, <2>1
<1>3. ASSUME a \in Nat, a % WSIZE = 0, a + WSIZE <= MAX_HEAP PROVE a \in Words
  <2>1. a \div 8 \in 0 .. MAX_HEAP \div 8 - 1 /\ a = 8 * (a \div 8)
    BY <1>1, <1>3
  <2> QED
    BY <1>1, <2>1 DEF Words
<1> QED
  BY <1>2, <1>3

\* What a tag says.
LEMMA TagSays ==
  ASSUME NEW m, NEW a \in Words, NEW size, NEW bit, m[a] = Tag(size, bit)
  PROVE  Word(m, a).size = size /\ Word(m, a).allocated = bit
  BY DEF Word, Tag

\* The words next to a payload.
LEMMA TagWords ==
  \A p \in Payloads : p > 0 => p - WSIZE \in Words /\ p - DWORD_SIZE \in Words
  BY PayloadIs, WordIs, MemLibAssumption DEF WSIZE, DWORD_SIZE

\* A word of the arena is a tag, whoever wrote it.
LEMMA SizeIs ==
  ASSUME NEW m \in Memory, NEW a \in Words
  PROVE  /\ Word(m, a) = m[a] /\ Word(m, a).size \in Nat /\ Word(m, a).allocated \in {0, 1}
         /\ m[a] = Tag(Word(m, a).size, Word(m, a).allocated)
<1>1. Word(m, a) = m[a] /\ m[a] \in [size : Nat, allocated : {0, 1}]
  BY DEF Memory, Word
<1> QED
  BY <1>1 DEF Tag

\* The tags of a block that is there.
LEMMA BlockFacts ==
  ASSUME NEW m, NEW brk, NEW B, Tiles(m, brk, B), NEW p \in B
  PROVE  /\ p \in Nat /\ p % DWORD_SIZE = 0 /\ p >= DWORD_SIZE /\ p + Size(m, p) <= brk
         /\ brk <= MAX_HEAP
         /\ Size(m, p) \in Nat /\ Size(m, p) % DWORD_SIZE = 0 /\ Size(m, p) >= DWORD_SIZE
         /\ p + Size(m, p) \in Payloads /\ p \in Payloads
         /\ p - WSIZE \in Words /\ p + Size(m, p) - DWORD_SIZE \in Words
         /\ Alloc(m, p) \in {0, 1} /\ m[p - WSIZE] = Tag(Size(m, p), Alloc(m, p))
         /\ m[p + Size(m, p) - DWORD_SIZE] = m[p - WSIZE]
<1>1. /\ p \in Payloads /\ brk \in Payloads /\ m \in Memory /\ p >= DWORD_SIZE
      /\ p + Size(m, p) \in B \cup {brk} /\ p + Size(m, p) <= brk
      /\ Size(m, p) >= DWORD_SIZE /\ Tagged(m, p) /\ B \subseteq Payloads
  BY DEF Tiles
<1>2. /\ p \in Nat /\ p % DWORD_SIZE = 0 /\ brk \in Nat /\ brk <= MAX_HEAP /\ p > 0
      /\ p + Size(m, p) \in Payloads /\ (p + Size(m, p)) % DWORD_SIZE = 0
  BY <1>1, PayloadIs DEF DWORD_SIZE
<1>3. p - WSIZE \in Words
  BY <1>1, <1>2, TagWords
<1>4. /\ Size(m, p) \in Nat /\ Alloc(m, p) \in {0, 1}
      /\ m[p - WSIZE] = Tag(Size(m, p), Alloc(m, p))
  BY <1>1, <1>3, SizeIs DEF Size, Alloc, header
<1>5. Size(m, p) % DWORD_SIZE = 0
  BY <1>2, <1>4 DEF DWORD_SIZE
<1>6. p + Size(m, p) - DWORD_SIZE \in Words
  <2>1. p + Size(m, p) > 0
    BY <1>2, <1>4
  <2> QED
    BY <1>2, <1>4, <2>1, TagWords DEF WSIZE, DWORD_SIZE
<1>7. m[p + Size(m, p) - DWORD_SIZE] = m[p - WSIZE]
  BY <1>1 DEF Tagged, footer, Size, header
<1> QED
  BY <1>1, <1>2, <1>3, <1>4, <1>5, <1>6, <1>7
-----------------------------------------------------------------------------
(* The blocks between two places of the heap are replaced.                 *)

\* The tags of a block that is not between lo and hi are where they were.
LEMMA OutsideSame ==
  ASSUME NEW m, NEW brk, NEW B, Tiles(m, brk, B), NEW lo \in B, NEW hi \in B \cup {brk}, lo < hi,
         NEW m2 \in Memory,
         \A a \in Words : a < lo - WSIZE \/ a >= hi - WSIZE => m2[a] = m[a],
         NEW p \in B, p < lo \/ p >= hi
  PROVE  /\ m2[p - WSIZE] = m[p - WSIZE] /\ Size(m2, p) = Size(m, p) /\ Alloc(m2, p) = Alloc(m, p)
         /\ Tagged(m2, p)
         /\ p < lo => p + Size(m, p) <= lo
<1>1. /\ lo \in Nat /\ lo % DWORD_SIZE = 0 /\ hi \in Nat /\ hi % DWORD_SIZE = 0
  BY PayloadIs DEF Tiles
<1>2. /\ p \in Nat /\ p % DWORD_SIZE = 0 /\ Size(m, p) \in Nat /\ Size(m, p) >= DWORD_SIZE
      /\ p - WSIZE \in Words /\ p + Size(m, p) - DWORD_SIZE \in Words
  BY BlockFacts
<1>3. p < lo => p + Size(m, p) <= lo
  BY DEF Tiles
<1>4. m2[p - WSIZE] = m[p - WSIZE]
  BY <1>1, <1>2 DEF WSIZE
<1>5. m2[p + Size(m, p) - DWORD_SIZE] = m[p + Size(m, p) - DWORD_SIZE]
  BY <1>1, <1>2, <1>3 DEF WSIZE, DWORD_SIZE
<1>6. Size(m2, p) = Size(m, p) /\ Alloc(m2, p) = Alloc(m, p)
  BY <1>2, <1>4 DEF Size, Alloc, header, Word
<1>7. Tagged(m, p)
  BY DEF Tiles
<1>8. Tagged(m2, p)
  <2>1. footer(m2, p) = p + Size(m, p) - DWORD_SIZE /\ footer(m, p) = p + Size(m, p) - DWORD_SIZE
    BY <1>6 DEF footer, Size
  <2> QED
    BY <1>4, <1>5, <1>6, <1>7, <2>1 DEF Tagged, header
<1> QED
  BY <1>3, <1>4, <1>6, <1>8

\* New blocks that fill the place from lo to hi make a heap with those
\* outside.
LEMMA Retile ==
  ASSUME NEW m, NEW brk, NEW B, Tiles(m, brk, B), NEW lo \in B, lo # DWORD_SIZE,
         NEW hi \in B \cup {brk}, lo < hi, NEW m2 \in Memory,
         \A a \in Words : a < lo - WSIZE \/ a >= hi - WSIZE => m2[a] = m[a],
         NEW New \in SUBSET Payloads, lo \in New,
         \A p \in New : /\ Tagged(m2, p) /\ lo <= p /\ p < hi /\ Size(m2, p) >= MIN_BLOCK_SIZE
                        /\ p + Size(m2, p) \in New \cup {hi} /\ p + Size(m2, p) <= hi,
         \A p, q \in New : p < q => p + Size(m2, p) <= q,
         \A q \in New \cup {hi} : q # lo => \E p \in New : p + Size(m2, p) = q
  PROVE  Tiles(m2, brk, {p \in B : p < lo \/ p >= hi} \cup New)
<1> DEFINE Old == {p \in B : p < lo \/ p >= hi}
           C   == Old \cup New
<1>1. /\ brk \in Payloads /\ B \subseteq Payloads /\ DWORD_SIZE \in B /\ Old \subseteq B
      /\ lo \in Nat /\ hi \in Nat /\ brk \in Nat /\ hi <= brk
      /\ \A p \in B : p \in Nat
  <2>1. \A p \in B : p + Size(m, p) <= brk /\ Size(m, p) \in Nat /\ p \in Nat
    BY BlockFacts
  <2> QED
    BY <2>1, PayloadIs DEF Tiles
<1>2. \A p \in Old : /\ m2[p - WSIZE] = m[p - WSIZE] /\ Size(m2, p) = Size(m, p) /\ Tagged(m2, p)
                     /\ p < lo => p + Size(m, p) <= lo
  BY OutsideSame
<1>3. \A p \in New : p \in Nat /\ Size(m2, p) \in Nat
  <2>1. \A p \in New : p \in Nat /\ p > 0
    BY <1>1, PayloadIs, BlockFacts DEF DWORD_SIZE
  <2>2. \A p \in New : p - WSIZE \in Words
    BY <2>1, TagWords
  <2> QED
    BY <2>1, <2>2, SizeIs DEF Size, header
<1>4. DWORD_SIZE < lo /\ DWORD_SIZE \in Old
  BY <1>1 DEF Tiles
<1>5. m2[WSIZE] = Tag(DWORD_SIZE, 1)
  <2>1. m[WSIZE] = Tag(DWORD_SIZE, 1)
    BY DEF Tiles
  <2>2. m2[DWORD_SIZE - WSIZE] = m[DWORD_SIZE - WSIZE] /\ DWORD_SIZE - WSIZE = WSIZE
    BY <1>2, <1>4 DEF DWORD_SIZE, WSIZE
  <2> QED
    BY <2>1, <2>2
<1>6. m2[brk - WSIZE] = Tag(0, 1)
  <2>1. brk - WSIZE \in Words /\ brk - WSIZE >= hi - WSIZE
    BY <1>1, <1>4, TagWords DEF WSIZE, DWORD_SIZE
  <2> QED
    BY <2>1 DEF Tiles
<1>7. \A p \in Old : /\ Tagged(m2, p) /\ p >= DWORD_SIZE /\ Size(m2, p) >= DWORD_SIZE
                     /\ p # DWORD_SIZE => p >= MIN_BLOCK_SIZE /\ Size(m2, p) >= MIN_BLOCK_SIZE
                     /\ p + Size(m2, p) \in C \cup {brk} /\ p + Size(m2, p) <= brk
  <2> SUFFICES ASSUME NEW p \in Old
               PROVE  /\ Tagged(m2, p) /\ p >= DWORD_SIZE /\ Size(m2, p) >= DWORD_SIZE
                      /\ p # DWORD_SIZE => p >= MIN_BLOCK_SIZE /\ Size(m2, p) >= MIN_BLOCK_SIZE
                      /\ p + Size(m2, p) \in C \cup {brk} /\ p + Size(m2, p) <= brk
    OBVIOUS
  <2>1. /\ p >= DWORD_SIZE /\ Size(m, p) >= DWORD_SIZE
        /\ p # DWORD_SIZE => p >= MIN_BLOCK_SIZE /\ Size(m, p) >= MIN_BLOCK_SIZE
        /\ p + Size(m, p) \in B \cup {brk} /\ p + Size(m, p) <= brk
    BY <1>1 DEF Tiles
  <2>2. p + Size(m, p) \in C \cup {brk}
    <3>1. p + Size(m, p) \in Nat /\ Size(m, p) \in Nat /\ p \in Nat
      BY <1>1, BlockFacts
    <3>2. CASE p < lo
      BY <1>1, <1>2, <2>1, <3>1, <3>2
    <3>3. CASE p >= hi
      BY <1>1, <2>1, <3>1, <3>3 DEF DWORD_SIZE
    <3> QED
      BY <3>2, <3>3
  <2> QED
    BY <1>2, <2>1, <2>2
<1>8. \A p \in New : /\ Tagged(m2, p) /\ p >= DWORD_SIZE /\ Size(m2, p) >= DWORD_SIZE
                     /\ p # DWORD_SIZE => p >= MIN_BLOCK_SIZE /\ Size(m2, p) >= MIN_BLOCK_SIZE
                     /\ p + Size(m2, p) \in C \cup {brk} /\ p + Size(m2, p) <= brk
  <2> SUFFICES ASSUME NEW p \in New
               PROVE  /\ Tagged(m2, p) /\ p >= DWORD_SIZE /\ Size(m2, p) >= DWORD_SIZE
                      /\ p # DWORD_SIZE => p >= MIN_BLOCK_SIZE /\ Size(m2, p) >= MIN_BLOCK_SIZE
                      /\ p + Size(m2, p) \in C \cup {brk} /\ p + Size(m2, p) <= brk
    OBVIOUS
  <2>1. /\ Tagged(m2, p) /\ lo <= p /\ p < hi /\ Size(m2, p) >= MIN_BLOCK_SIZE
        /\ p + Size(m2, p) \in New \cup {hi} /\ p + Size(m2, p) <= hi
    OBVIOUS
  <2>2. lo >= MIN_BLOCK_SIZE
    BY DEF Tiles
  <2>3. hi \in Old \cup {brk}
    BY <1>1
  <2> QED
    BY <1>1, <1>3, <2>1, <2>2, <2>3 DEF DWORD_SIZE, MIN_BLOCK_SIZE
<1>9. \A p, q \in C : p < q => p + Size(m2, p) <= q
  <2> SUFFICES ASSUME NEW p \in C, NEW q \in C, p < q PROVE p + Size(m2, p) <= q
    OBVIOUS
  <2>1. CASE p \in Old /\ q \in Old
    BY <1>2, <2>1 DEF Tiles
  <2>2. CASE p \in Old /\ q \in New
    <3>1. p < lo
      BY <1>1, <1>3, <2>2
    <3> QED
      BY <1>1, <1>2, <1>3, <2>2, <3>1, BlockFacts
  <2>3. CASE p \in New /\ q \in Old
    <3>1. q >= hi
      BY <1>1, <1>3, <2>3
    <3> QED
      BY <1>1, <1>3, <2>3, <3>1
  <2>4. CASE p \in New /\ q \in New
    BY <2>4
  <2> QED
    BY <2>1, <2>2, <2>3, <2>4
<1>10. \A q \in C \cup {brk} : q = DWORD_SIZE \/ \E p \in C : p + Size(m2, p) = q
  <2> SUFFICES ASSUME NEW q \in C \cup {brk}, q # DWORD_SIZE PROVE \E p \in C : p + Size(m2, p) = q
    OBVIOUS
  <2>1. CASE q \in New \cup {hi} /\ q # lo
    BY <2>1
  <2>2. CASE q \notin New \cup {hi} \/ q = lo
    <3>1. q \in B \cup {brk} /\ q \in Nat
      BY <1>1, <2>2
    <3>2. PICK p \in B : p + Size(m, p) = q
      BY <3>1 DEF Tiles
    <3>3. p \in Nat /\ Size(m, p) \in Nat /\ Size(m, p) >= DWORD_SIZE
      BY BlockFacts
    <3>4. p < lo \/ p >= hi
      <4>1. CASE q = lo
        BY <3>2, <3>3, <4>1 DEF DWORD_SIZE
      <4>2. CASE q # lo
        <5>1. q < lo \/ q > hi
          <6>1. q \in Old \cup {brk} /\ q # hi
            BY <2>2, <4>2
          <6> QED
            BY <1>1, <3>1, <6>1
        <5>2. CASE q < lo
          BY <1>1, <3>2, <3>3, <5>2
        <5>3. CASE q > hi
          <6> SUFFICES ASSUME p < hi PROVE FALSE
            BY <1>1, <3>3
          <6>1. hi \in B
            BY <1>1, <3>1, <5>3, BlockFacts DEF Tiles
          <6>2. p + Size(m, p) <= hi
            BY <6>1 DEF Tiles
          <6> QED
            BY <1>1, <3>2, <5>3, <6>2
        <5> QED
          BY <5>1, <5>2, <5>3
      <4> QED
        BY <4>1, <4>2
    <3>5. p \in C /\ p + Size(m2, p) = q
      BY <1>2, <3>2, <3>4
    <3> QED
      BY <3>5
  <2> QED
    BY <2>1, <2>2
<1>11. DWORD_SIZE \in C /\ C \subseteq Payloads
  BY <1>1, <1>4
<1>12. \A p \in C : /\ Tagged(m2, p) /\ p >= DWORD_SIZE /\ Size(m2, p) >= DWORD_SIZE
                    /\ p # DWORD_SIZE => p >= MIN_BLOCK_SIZE /\ Size(m2, p) >= MIN_BLOCK_SIZE
                    /\ p + Size(m2, p) \in C \cup {brk} /\ p + Size(m2, p) <= brk
  BY <1>7, <1>8
<1> HIDE DEF C
<1>13. Tiles(m2, brk, C)
  BY <1>1, <1>5, <1>6, <1>9, <1>10, <1>11, <1>12 DEF Tiles
<1> QED
  BY <1>13 DEF C

\* m2 is m with the tags of one block from lo to hi.
Framed(m, m2, lo, hi, bit) ==
  \A a \in Words : m2[a] = IF a = lo - WSIZE \/ a = hi - DWORD_SIZE THEN Tag(hi - lo, bit) ELSE m[a]

\* One block from lo to hi.
LEMMA OneBlock ==
  ASSUME NEW m, NEW brk, NEW B, Tiles(m, brk, B), NEW lo \in B, lo # DWORD_SIZE,
         NEW hi \in B \cup {brk}, lo < hi, NEW m2 \in Memory, NEW bit \in {0, 1}, Framed(m, m2, lo, hi, bit)
  PROVE  /\ Tiles(m2, brk, {p \in B : p < lo \/ p >= hi} \cup {lo})
         /\ Size(m2, lo) = hi - lo /\ Alloc(m2, lo) = bit
         /\ \A p \in B : p < lo \/ p >= hi =>
              /\ m2[p - WSIZE] = m[p - WSIZE] /\ Size(m2, p) = Size(m, p)
              /\ Alloc(m2, p) = Alloc(m, p)
<1>1. /\ lo \in Payloads /\ hi \in Payloads /\ lo \in Nat /\ hi \in Nat
      /\ lo % DWORD_SIZE = 0 /\ hi % DWORD_SIZE = 0 /\ lo > 0 /\ hi > 0
  BY PayloadIs DEF Tiles, DWORD_SIZE
<1>2. lo - WSIZE \in Words /\ hi - DWORD_SIZE \in Words /\ hi - lo \in Nat /\ (hi - lo) % DWORD_SIZE = 0
  BY <1>1, TagWords DEF WSIZE, DWORD_SIZE
<1>3. hi - lo >= MIN_BLOCK_SIZE
  <2>1. Size(m, lo) \in Nat
    BY BlockFacts
  <2>2. Size(m, lo) >= MIN_BLOCK_SIZE /\ lo + Size(m, lo) <= hi
    BY DEF Tiles
  <2> QED
    BY <1>1, <2>1, <2>2 DEF MIN_BLOCK_SIZE
<1>4. m2[lo - WSIZE] = Tag(hi - lo, bit) /\ m2[hi - DWORD_SIZE] = Tag(hi - lo, bit)
  BY <1>2 DEF Framed
<1>5. Size(m2, lo) = hi - lo /\ Alloc(m2, lo) = bit
  BY <1>2, <1>4, TagSays DEF Size, Alloc, header
<1>6. Tagged(m2, lo)
  <2>1. footer(m2, lo) = hi - DWORD_SIZE
    BY <1>1, <1>5 DEF footer, Size, DWORD_SIZE
  <2> QED
    BY <1>1, <1>4, <1>5, <2>1 DEF Tagged, header
<1>7. \A a \in Words : a < lo - WSIZE \/ a >= hi - WSIZE => m2[a] = m[a]
  BY <1>1, WordIs DEF WSIZE, DWORD_SIZE, Framed
<1>8. lo + Size(m2, lo) = hi
  BY <1>1, <1>5
<1> DEFINE New == {lo}
<1>9. /\ New \in SUBSET Payloads /\ lo \in New
      /\ \A p \in New : /\ Tagged(m2, p) /\ lo <= p /\ p < hi /\ Size(m2, p) >= MIN_BLOCK_SIZE
                        /\ p + Size(m2, p) \in New \cup {hi} /\ p + Size(m2, p) <= hi
      /\ \A p, q \in New : p < q => p + Size(m2, p) <= q
      /\ \A q \in New \cup {hi} : q # lo => \E p \in New : p + Size(m2, p) = q
  BY <1>1, <1>3, <1>5, <1>6, <1>8
<1>10. Tiles(m2, brk, {p \in B : p < lo \/ p >= hi} \cup {lo})
  <2> HIDE DEF New
  <2>1. Tiles(m2, brk, {p \in B : p < lo \/ p >= hi} \cup New)
    BY <1>7, <1>9, Retile
  <2> QED
    BY <2>1 DEF New
<1>11. \A p \in B : p < lo \/ p >= hi =>
         /\ m2[p - WSIZE] = m[p - WSIZE] /\ Size(m2, p) = Size(m, p)
         /\ Alloc(m2, p) = Alloc(m, p)
  BY <1>7, OutsideSame
<1> QED
  BY <1>5, <1>10, <1>11

\* m2 is m with the tags of an allocated block from lo to mid and of a free
\* one from mid to hi.
Halved(m, m2, lo, mid, hi) ==
  \A a \in Words : m2[a] = IF a = lo - WSIZE \/ a = mid - DWORD_SIZE THEN Tag(mid - lo, 1)
                           ELSE IF a = mid - WSIZE \/ a = hi - DWORD_SIZE THEN Tag(hi - mid, 0)
                           ELSE m[a]

\* Two blocks, an allocated one from lo to mid and a free one from mid to hi.
LEMMA TwoBlocks ==
  ASSUME NEW m, NEW brk, NEW B, Tiles(m, brk, B), NEW lo \in B, lo # DWORD_SIZE,
         NEW hi, hi = lo + Size(m, lo), NEW m2 \in Memory, NEW mid \in Payloads,
         lo + MIN_BLOCK_SIZE <= mid, mid + MIN_BLOCK_SIZE <= hi,
         Halved(m, m2, lo, mid, hi)
  PROVE  /\ Tiles(m2, brk, B \cup {mid}) /\ mid \notin B
         /\ Size(m2, lo) = mid - lo /\ Alloc(m2, lo) = 1
         /\ Size(m2, mid) = hi - mid /\ Alloc(m2, mid) = 0
         /\ \A p \in B : p # lo =>
              /\ m2[p - WSIZE] = m[p - WSIZE] /\ Size(m2, p) = Size(m, p)
              /\ Alloc(m2, p) = Alloc(m, p)
<1>1. hi \in B \cup {brk}
  BY DEF Tiles
<1>2. /\ lo \in Payloads /\ hi \in Payloads /\ lo \in Nat /\ hi \in Nat /\ mid \in Nat
      /\ lo % DWORD_SIZE = 0 /\ hi % DWORD_SIZE = 0 /\ mid % DWORD_SIZE = 0
      /\ lo > 0 /\ hi > 0 /\ mid > 0 /\ lo < hi /\ lo < mid /\ mid < hi
  BY <1>1, PayloadIs DEF Tiles, DWORD_SIZE, MIN_BLOCK_SIZE
<1>3. /\ lo - WSIZE \in Words /\ hi - DWORD_SIZE \in Words
      /\ mid - WSIZE \in Words /\ mid - DWORD_SIZE \in Words
      /\ hi - mid \in Nat /\ (hi - mid) % DWORD_SIZE = 0 /\ hi - mid >= MIN_BLOCK_SIZE
      /\ mid - lo \in Nat /\ (mid - lo) % DWORD_SIZE = 0 /\ mid - lo >= MIN_BLOCK_SIZE
  BY <1>2, TagWords DEF WSIZE, DWORD_SIZE, MIN_BLOCK_SIZE
<1>4. /\ m2[lo - WSIZE] = Tag(mid - lo, 1) /\ m2[mid - DWORD_SIZE] = Tag(mid - lo, 1)
      /\ m2[mid - WSIZE] = Tag(hi - mid, 0) /\ m2[hi - DWORD_SIZE] = Tag(hi - mid, 0)
  <2>1. lo - WSIZE # mid - WSIZE /\ mid - DWORD_SIZE # mid - WSIZE /\ hi - DWORD_SIZE # lo - WSIZE
          /\ hi - DWORD_SIZE # mid - DWORD_SIZE /\ lo - WSIZE # mid - DWORD_SIZE /\ mid - WSIZE # lo - WSIZE
          /\ lo - WSIZE # hi - DWORD_SIZE /\ mid - DWORD_SIZE # hi - DWORD_SIZE
    BY <1>2, <1>3 DEF WSIZE, DWORD_SIZE, MIN_BLOCK_SIZE
  <2> QED
    BY <1>3, <2>1 DEF Halved
<1>5. Size(m2, lo) = mid - lo /\ Alloc(m2, lo) = 1
  BY <1>3, <1>4, TagSays DEF Size, Alloc, header
<1>6. Size(m2, mid) = hi - mid /\ Alloc(m2, mid) = 0
  <2>1. m2[mid - WSIZE] = Tag(hi - mid, 0) /\ mid - WSIZE \in Words
    BY <1>3, <1>4
  <2>2. Word(m2, mid - WSIZE).size = hi - mid /\ Word(m2, mid - WSIZE).allocated = 0
    BY <2>1, TagSays
  <2> QED
    BY <2>1, <2>2 DEF Size, Alloc, header, Word
<1>7. lo + Size(m2, lo) = mid /\ mid + Size(m2, mid) = hi
  BY <1>2, <1>5, <1>6
<1>8. Tagged(m2, lo) /\ Tagged(m2, mid)
  <2>1. footer(m2, lo) = mid - DWORD_SIZE /\ footer(m2, mid) = hi - DWORD_SIZE
    BY <1>2, <1>3, <1>5, <1>6 DEF footer, Size, DWORD_SIZE
  <2> QED
    BY <1>2, <1>4, <1>5, <1>6, <2>1 DEF Tagged, header
<1>9. \A a \in Words : a < lo - WSIZE \/ a >= hi - WSIZE => m2[a] = m[a]
  BY <1>2, WordIs DEF WSIZE, DWORD_SIZE, Halved
<1> DEFINE New == {lo, mid}
<1>10. /\ New \in SUBSET Payloads /\ lo \in New
      /\ \A p \in New : /\ Tagged(m2, p) /\ lo <= p /\ p < hi /\ Size(m2, p) >= MIN_BLOCK_SIZE
                        /\ p + Size(m2, p) \in New \cup {hi} /\ p + Size(m2, p) <= hi
  <2>1. lo <= lo /\ lo < hi /\ lo <= mid /\ mid < hi /\ mid <= hi /\ hi <= hi
    BY <1>2
  <2> QED
    BY <1>2, <1>3, <1>5, <1>6, <1>7, <1>8, <2>1
<1>11. \A p, q \in New : p < q => p + Size(m2, p) <= q
  <2>1. ~(lo < lo) /\ ~(mid < mid) /\ ~(mid < lo) /\ mid <= mid
    BY <1>2
  <2> QED
    BY <1>7, <2>1
<1>12. \A q \in New \cup {hi} : q # lo => \E p \in New : p + Size(m2, p) = q
  BY <1>7
<1> HIDE DEF New
<1>13. Tiles(m2, brk, {p \in B : p < lo \/ p >= hi} \cup New)
  BY <1>1, <1>2, <1>9, <1>10, <1>11, <1>12, Retile
<1>14. \A p \in B : p < lo \/ p >= hi \/ p = lo
  BY <1>2 DEF Tiles
<1>15. {p \in B : p < lo \/ p >= hi} \cup New = B \cup {mid}
  BY <1>14 DEF New
<1>16. mid \notin B
  BY <1>2, <1>14
<1>17. \A p \in B : p < lo \/ p >= hi =>
         /\ m2[p - WSIZE] = m[p - WSIZE] /\ Size(m2, p) = Size(m, p)
         /\ Alloc(m2, p) = Alloc(m, p)
  BY <1>1, <1>2, <1>9, OutsideSame
<1> QED
  BY <1>5, <1>6, <1>13, <1>14, <1>15, <1>16, <1>17

\* m2 is m with tags for a free block from brk to top and an epilogue at top.
Grown(m, m2, brk, top) ==
  \A a \in Words : m2[a] = IF a = brk - WSIZE \/ a = top - DWORD_SIZE THEN Tag(top - brk, 0)
                           ELSE IF a = top - WSIZE THEN Tag(0, 1) ELSE m[a]

\* A block behind the last one.
LEMMA MoreHeap ==
  ASSUME NEW m, NEW brk, NEW B, Tiles(m, brk, B), NEW top \in Payloads, NEW m2 \in Memory,
         brk + MIN_BLOCK_SIZE <= top, Grown(m, m2, brk, top)
  PROVE  /\ Tiles(m2, top, B \cup {brk}) /\ brk \notin B /\ brk # DWORD_SIZE
         /\ Size(m2, brk) = top - brk /\ Alloc(m2, brk) = 0
         /\ \A p \in B : /\ m2[p - WSIZE] = m[p - WSIZE] /\ Size(m2, p) = Size(m, p)
                         /\ Alloc(m2, p) = Alloc(m, p)
<1>1. /\ brk \in Payloads /\ B \subseteq Payloads /\ brk \in Nat /\ top \in Nat
      /\ brk % DWORD_SIZE = 0 /\ top % DWORD_SIZE = 0 /\ top > 0 /\ brk < top
      /\ top - brk \in Nat /\ (top - brk) % DWORD_SIZE = 0 /\ top - brk >= MIN_BLOCK_SIZE
  BY PayloadIs DEF Tiles, DWORD_SIZE, MIN_BLOCK_SIZE
<1>2. /\ \A p \in B : p \in Nat /\ p < brk /\ p + Size(m, p) <= brk /\ Size(m, p) \in Nat
      /\ DWORD_SIZE \in B
  <2>1. \A p \in B : p \in Nat /\ p + Size(m, p) <= brk /\ Size(m, p) \in Nat /\ Size(m, p) >= DWORD_SIZE
    BY BlockFacts
  <2>2. DWORD_SIZE \in B
    BY DEF Tiles
  <2>3. \A p \in B : p < brk
    BY <1>1, <2>1 DEF DWORD_SIZE
  <2> QED
    BY <2>1, <2>2, <2>3
<1>3. brk > DWORD_SIZE
  BY <1>1, <1>2
<1>4. brk - WSIZE \in Words /\ top - WSIZE \in Words /\ top - DWORD_SIZE \in Words
  BY <1>1, <1>3, TagWords DEF DWORD_SIZE
<1>5. /\ m2[brk - WSIZE] = Tag(top - brk, 0) /\ m2[top - DWORD_SIZE] = Tag(top - brk, 0)
      /\ m2[top - WSIZE] = Tag(0, 1)
  <2>1. top - WSIZE # top - DWORD_SIZE /\ top - WSIZE # brk - WSIZE
    BY <1>1 DEF DWORD_SIZE, WSIZE
  <2> QED
    BY <1>4, <2>1 DEF Grown
<1>6. Size(m2, brk) = top - brk /\ Alloc(m2, brk) = 0
  <2>1. m2[brk - WSIZE] = Tag(top - brk, 0)
    BY <1>5
  <2> QED
    BY <1>4, <2>1, TagSays DEF Size, Alloc, header
<1>7. brk + Size(m2, brk) = top
  BY <1>1, <1>6
<1>8. Tagged(m2, brk)
  <2>1. footer(m2, brk) = top - DWORD_SIZE
    BY <1>1, <1>6 DEF footer, Size, DWORD_SIZE
  <2> QED
    BY <1>5, <1>6, <2>1 DEF Tagged, header
<1>9. ASSUME NEW p \in B
      PROVE  /\ m2[p - WSIZE] = m[p - WSIZE] /\ Size(m2, p) = Size(m, p)
             /\ Alloc(m2, p) = Alloc(m, p) /\ Tagged(m2, p)
  <2>1. /\ p \in Nat /\ p < brk /\ p + Size(m, p) <= brk /\ Size(m, p) \in Nat
        /\ p - WSIZE \in Words /\ p + Size(m, p) - DWORD_SIZE \in Words /\ Size(m, p) >= DWORD_SIZE
    BY <1>2, BlockFacts
  <2>2. m2[p - WSIZE] = m[p - WSIZE]
    BY <1>1, <2>1 DEF WSIZE, DWORD_SIZE, MIN_BLOCK_SIZE, Grown
  <2>3. m2[p + Size(m, p) - DWORD_SIZE] = m[p + Size(m, p) - DWORD_SIZE]
    BY <1>1, <2>1 DEF WSIZE, DWORD_SIZE, MIN_BLOCK_SIZE, Grown
  <2>4. Size(m2, p) = Size(m, p) /\ Alloc(m2, p) = Alloc(m, p)
    BY <2>1, <2>2 DEF Size, Alloc, header, Word
  <2>5. Tagged(m, p)
    BY DEF Tiles
  <2>6. footer(m2, p) = p + Size(m, p) - DWORD_SIZE /\ footer(m, p) = p + Size(m, p) - DWORD_SIZE
    BY <2>4 DEF footer, Size
  <2>7. Tagged(m2, p)
    BY <2>2, <2>3, <2>4, <2>5, <2>6 DEF Tagged, header
  <2> QED
    BY <2>2, <2>4, <2>7
<1>10. m2[WSIZE] = Tag(DWORD_SIZE, 1)
  <2>1. m[WSIZE] = Tag(DWORD_SIZE, 1)
    BY DEF Tiles
  <2>2. m2[DWORD_SIZE - WSIZE] = m[DWORD_SIZE - WSIZE] /\ DWORD_SIZE - WSIZE = WSIZE
    BY <1>2, <1>9 DEF DWORD_SIZE, WSIZE
  <2> QED
    BY <2>1, <2>2
<1> DEFINE C == B \cup {brk}
<1>11. \A p \in C : /\ Tagged(m2, p) /\ p >= DWORD_SIZE /\ Size(m2, p) >= DWORD_SIZE
                    /\ p # DWORD_SIZE => p >= MIN_BLOCK_SIZE /\ Size(m2, p) >= MIN_BLOCK_SIZE
                    /\ p + Size(m2, p) \in C \cup {top} /\ p + Size(m2, p) <= top
  <2>1. ASSUME NEW p \in B
        PROVE  /\ Tagged(m2, p) /\ p >= DWORD_SIZE /\ Size(m2, p) >= DWORD_SIZE
               /\ p # DWORD_SIZE => p >= MIN_BLOCK_SIZE /\ Size(m2, p) >= MIN_BLOCK_SIZE
               /\ p + Size(m2, p) \in C \cup {top} /\ p + Size(m2, p) <= top
    <3>1. /\ p >= DWORD_SIZE /\ Size(m, p) >= DWORD_SIZE
          /\ p # DWORD_SIZE => p >= MIN_BLOCK_SIZE /\ Size(m, p) >= MIN_BLOCK_SIZE
          /\ p + Size(m, p) \in B \cup {brk} /\ p + Size(m, p) <= brk
      BY DEF Tiles
    <3> QED
      BY <1>1, <1>2, <1>9, <3>1
  <2>2. brk >= MIN_BLOCK_SIZE /\ Size(m2, brk) >= MIN_BLOCK_SIZE /\ Size(m2, brk) >= DWORD_SIZE
    BY <1>1, <1>3, <1>6 DEF DWORD_SIZE, MIN_BLOCK_SIZE
  <2>3. brk + Size(m2, brk) \in C \cup {top} /\ brk + Size(m2, brk) <= top /\ brk >= DWORD_SIZE
    BY <1>1, <1>3, <1>7 DEF DWORD_SIZE
  <2> QED
    BY <1>8, <2>1, <2>2, <2>3
<1>12. \A p, q \in C : p < q => p + Size(m2, p) <= q
  <2> SUFFICES ASSUME NEW p \in C, NEW q \in C, p < q PROVE p + Size(m2, p) <= q
    OBVIOUS
  <2>1. p \in B
    BY <1>1, <1>2
  <2>2. CASE q \in B
    BY <1>9, <2>1, <2>2 DEF Tiles
  <2>3. CASE q = brk
    BY <1>2, <1>9, <2>1, <2>3
  <2> QED
    BY <2>2, <2>3
<1>13. \A q \in C \cup {top} : q = DWORD_SIZE \/ \E p \in C : p + Size(m2, p) = q
  <2>1. ASSUME NEW q \in B \cup {brk}, q # DWORD_SIZE PROVE \E p \in C : p + Size(m2, p) = q
    <3>1. PICK p \in B : p + Size(m, p) = q
      BY <2>1 DEF Tiles
    <3> QED
      BY <1>9, <3>1
  <2> QED
    BY <1>7, <2>1
<1>14. DWORD_SIZE \in C /\ C \subseteq Payloads /\ brk \notin B
  BY <1>1, <1>2
<1> HIDE DEF C
<1>15. Tiles(m2, top, C)
  BY <1>5, <1>10, <1>11, <1>12, <1>13, <1>14 DEF Tiles
<1> QED
  BY <1>3, <1>6, <1>9, <1>14, <1>15 DEF C, DWORD_SIZE
-----------------------------------------------------------------------------
(* The walk over the headers.                                              *)

\* The prologue is an allocated block of two tags.
LEMMA PrologueSays ==
  ASSUME NEW m, NEW brk, NEW B, Tiles(m, brk, B)
  PROVE  Size(m, DWORD_SIZE) = DWORD_SIZE /\ Alloc(m, DWORD_SIZE) = 1
<1>1. DWORD_SIZE - WSIZE \in Words
  BY BlockFacts DEF Tiles
<1>2. m[DWORD_SIZE - WSIZE] = Tag(DWORD_SIZE, 1)
  BY DEF Tiles, DWORD_SIZE, WSIZE
<1> QED
  BY <1>1, <1>2, TagSays DEF Size, Alloc, header

\* The word before the break says allocated, of size 0.
LEMMA EpilogueSays ==
  ASSUME NEW m, NEW brk, NEW B, Tiles(m, brk, B)
  PROVE  Size(m, brk) = 0 /\ Alloc(m, brk) = 1
<1>1. brk - WSIZE \in Words /\ m[brk - WSIZE] = Tag(0, 1)
  <2>1. DWORD_SIZE \in B /\ brk \in Payloads /\ m[brk - WSIZE] = Tag(0, 1)
    BY DEF Tiles
  <2>2. brk > 0
    BY <2>1, BlockFacts, PayloadIs DEF DWORD_SIZE
  <2> QED
    BY <2>1, <2>2, TagWords
<1> QED
  BY <1>1, TagSays DEF Size, Alloc, header


\* A set of numbers has a least element.
LEMMA FirstIs ==
  ASSUME NEW S \in SUBSET Nat, S # {}
  PROVE  First(S) \in S /\ \A j \in S : First(S) <= j
<1>1. \E i \in S : \A j \in S : ~(<<j, i>> \in OpToRel(<, Nat))
  BY WFMin, NatLessThanWellFounded
<1>2. PICK i \in S : \A j \in S : ~(<<j, i>> \in OpToRel(<, Nat))
  BY <1>1
<1>3. \A j \in S : i <= j
  <2> SUFFICES ASSUME NEW j \in S PROVE i <= j
    OBVIOUS
  <2>1. i \in Nat /\ j \in Nat /\ <<j, i>> \in Nat \X Nat
    OBVIOUS
  <2>2. ~(j < i)
    BY <1>2, <2>1 DEF OpToRel
  <2> QED
    BY <2>1, <2>2
<1> QED
  BY <1>3 DEF First

Steps == MAX_HEAP \div MIN_BLOCK_SIZE

\* f is a walk of n steps.
IsWalk(m, f, n) == f = [k \in 0 .. n |-> IF k = 0 THEN DWORD_SIZE ELSE next_payload(m, f[k - 1])]

\* The walk is defined: it starts at the prologue and goes from block to block.
LEMMA WalkIs ==
  ASSUME NEW m
  PROVE  /\ DOMAIN Walk(m) = 0 .. Steps
         /\ \A k \in 0 .. Steps :
              Walk(m)[k] = IF k = 0 THEN DWORD_SIZE ELSE next_payload(m, Walk(m)[k - 1])
<1> DEFINE Undefined == {n \in Nat : \A f : ~IsWalk(m, f, n)}
<1>1. Undefined = {}
  <2> SUFFICES ASSUME Undefined # {} PROVE FALSE
    OBVIOUS
  <2> DEFINE n == First(Undefined)
  <2>1. n \in Undefined /\ \A j \in Undefined : n <= j
    BY FirstIs
  <2> HIDE DEF n
  <2>2. CASE n = 0
    <3> DEFINE g == [k \in 0 .. 0 |-> DWORD_SIZE]
    <3>1. g = [k \in 0 .. 0 |-> IF k = 0 THEN DWORD_SIZE ELSE next_payload(m, g[k - 1])]
      OBVIOUS
    <3> HIDE DEF g
    <3>2. IsWalk(m, g, 0)
      BY <3>1 DEF IsWalk
    <3> QED
      BY <2>1, <2>2, <3>2
  <2>3. CASE n # 0
    <3>1. n \in Nat /\ n - 1 \in Nat /\ ~(n <= n - 1)
      BY <2>1, <2>3
    <3>2. n - 1 \notin Undefined
      BY <2>1, <3>1
    <3>3. PICK f : IsWalk(m, f, n - 1)
      BY <3>1, <3>2
    <3> DEFINE g == [k \in 0 .. n |-> IF k = n THEN next_payload(m, f[n - 1]) ELSE f[k]]
    <3>4. \A k \in 0 .. n - 1 : f[k] = IF k = 0 THEN DWORD_SIZE ELSE next_payload(m, f[k - 1])
      <4>1. f = [k \in 0 .. n - 1 |-> IF k = 0 THEN DWORD_SIZE ELSE next_payload(m, f[k - 1])]
        BY <3>3 DEF IsWalk
      <4> QED
        BY <4>1
    <3>5. \A k \in 0 .. n : g[k] = IF k = 0 THEN DWORD_SIZE ELSE next_payload(m, g[k - 1])
      <4> SUFFICES ASSUME NEW k \in 0 .. n
                   PROVE  g[k] = IF k = 0 THEN DWORD_SIZE ELSE next_payload(m, g[k - 1])
        OBVIOUS
      <4>1. k # 0 => k - 1 \in 0 .. n /\ k - 1 # n
        BY <3>1
      <4>2. k # 0 => g[k - 1] = f[k - 1]
        BY <4>1
      <4>3. CASE k = n
        BY <2>3, <4>2, <4>3
      <4>4. CASE k # n
        <5>1. k \in 0 .. n - 1
          BY <3>1, <4>4
        <5> QED
          BY <3>4, <4>2, <4>4, <5>1
      <4> QED
        BY <4>3, <4>4
    <3>6. g = [k \in 0 .. n |-> g[k]]
      OBVIOUS
    <3> HIDE DEF g
    <3>7. IsWalk(m, g, n)
      BY <3>5, <3>6 DEF IsWalk
    <3> QED
      BY <2>1, <3>7
  <2> QED
    BY <2>2, <2>3
<1>2. Steps \in Nat
  BY MemLibAssumption DEF Steps, MIN_BLOCK_SIZE
<1>3. \E f : IsWalk(m, f, Steps)
  BY <1>1, <1>2
<1>4. Walk(m) = CHOOSE f : IsWalk(m, f, Steps)
  BY DEF Walk, IsWalk, Steps, WSIZE, DWORD_SIZE, MIN_BLOCK_SIZE
<1>5. IsWalk(m, Walk(m), Steps)
  BY <1>3, <1>4
<1> DEFINE w == Walk(m)
<1> HIDE DEF w
<1>6. w = [k \in 0 .. Steps |-> IF k = 0 THEN DWORD_SIZE ELSE next_payload(m, w[k - 1])]
  BY <1>5 DEF IsWalk, w
<1>7. /\ DOMAIN w = 0 .. Steps
      /\ \A k \in 0 .. Steps : w[k] = IF k = 0 THEN DWORD_SIZE ELSE next_payload(m, w[k - 1])
  BY <1>6
<1> QED
  BY <1>7 DEF w

\* The walk from the prologue visits every block and ends at the break.
LEMMA WalkVisits ==
  ASSUME NEW m, NEW brk, NEW B, Tiles(m, brk, B)
  PROVE  LET at == Walk(m) IN
         /\ DOMAIN at = 0 .. Steps /\ Steps \in Nat
         /\ at[Steps] = brk /\ at[0] = DWORD_SIZE
         /\ \A k \in 1 .. Steps : at[k] \in (B \ {DWORD_SIZE}) \cup {brk}
         /\ \A p \in B \ {DWORD_SIZE} : \E k \in 1 .. Steps : at[k] = p
<1> DEFINE at == Walk(m)
<1>1. /\ DOMAIN at = 0 .. Steps
      /\ \A k \in 0 .. Steps : at[k] = IF k = 0 THEN DWORD_SIZE ELSE next_payload(m, at[k - 1])
  BY WalkIs
<1> HIDE DEF at
<1>2. Steps \in Nat /\ MAX_HEAP \in Nat /\ MAX_HEAP < 32 * Steps + 32
  BY MemLibAssumption DEF Steps, MIN_BLOCK_SIZE
<1>3. /\ \A p \in B : /\ p \in Nat /\ Size(m, p) \in Nat /\ p >= DWORD_SIZE /\ Size(m, p) >= DWORD_SIZE
                      /\ p + Size(m, p) <= brk
      /\ brk \in Nat /\ brk <= MAX_HEAP
  <2>1. \A p \in B : /\ p \in Nat /\ Size(m, p) \in Nat /\ p >= DWORD_SIZE /\ Size(m, p) >= DWORD_SIZE
                     /\ p + Size(m, p) <= brk
    BY BlockFacts
  <2>2. brk \in Nat /\ brk <= MAX_HEAP
    BY PayloadIs DEF Tiles
  <2> QED
    BY <2>1, <2>2
<1>4. /\ DWORD_SIZE \in B
      /\ \A p \in B : /\ p + Size(m, p) \in B \cup {brk}
                      /\ p # DWORD_SIZE => p >= MIN_BLOCK_SIZE /\ Size(m, p) >= MIN_BLOCK_SIZE
      /\ \A q \in B \cup {brk} : q = DWORD_SIZE \/ \E p \in B : p + Size(m, p) = q
  BY DEF Tiles
<1>5. next_payload(m, brk) = brk
  BY <1>3, EpilogueSays DEF next_payload, Size
<1>6. \A p \in B : next_payload(m, p) = p + Size(m, p)
  BY DEF next_payload, Size
<1>7. Size(m, DWORD_SIZE) = DWORD_SIZE
  BY PrologueSays
<1> DEFINE Right(k) == /\ at[k] \in B \cup {brk}
                       /\ at[k] # brk /\ k > 0 => at[k] >= 32 * k
                       /\ k > 0 => at[k] # DWORD_SIZE
           Wrong == {k \in 0 .. Steps : ~Right(k)}
<1>8. brk # DWORD_SIZE
  BY <1>3, <1>4 DEF DWORD_SIZE
<1>9. at[0] = DWORD_SIZE /\ Right(0)
  BY <1>1, <1>2, <1>4
<1>10. Wrong = {}
  <2> SUFFICES ASSUME Wrong # {} PROVE FALSE
    OBVIOUS
  <2> DEFINE n == First(Wrong)
  <2>1. n \in Wrong /\ \A j \in Wrong : n <= j
    <3>1. Wrong \in SUBSET Nat
      BY <1>2
    <3> HIDE DEF Wrong
    <3> QED
      BY <3>1, FirstIs
  <2> HIDE DEF n
  <2>2. n \in 0 .. Steps /\ ~Right(n) /\ n # 0
    BY <1>9, <2>1
  <2>3. n - 1 \in 0 .. Steps /\ ~(n <= n - 1)
    BY <1>2, <2>2
  <2>4. Right(n - 1)
    BY <2>1, <2>3
  <2>5. at[n] = next_payload(m, at[n - 1])
    BY <1>1, <2>2
  <2>6. CASE at[n - 1] = brk
    BY <1>5, <1>8, <2>2, <2>5, <2>6
  <2>7. CASE at[n - 1] \in B /\ at[n - 1] # brk
    <3> DEFINE p == at[n - 1]
    <3>1. p \in Nat /\ Size(m, p) \in Nat /\ Size(m, p) >= DWORD_SIZE /\ p >= DWORD_SIZE
      BY <1>3, <2>7
    <3>2. at[n] = p + Size(m, p) /\ at[n] \in B \cup {brk}
      BY <1>4, <1>6, <2>5, <2>7
    <3>3. at[n] # DWORD_SIZE
      BY <3>1, <3>2 DEF DWORD_SIZE
    <3>4. at[n] >= 32 * n
      <4>1. CASE n = 1
        <5>1. p = DWORD_SIZE
          BY <1>9, <4>1
        <5> QED
          BY <1>7, <3>2, <4>1, <5>1 DEF DWORD_SIZE
      <4>2. CASE n # 1
        <5>1. p >= 32 * (n - 1) /\ p # DWORD_SIZE
          BY <2>2, <2>3, <2>4, <2>7, <4>2
        <5>2. Size(m, p) >= 32
          BY <1>4, <2>7, <5>1 DEF MIN_BLOCK_SIZE
        <5> HIDE DEF p
        <5> QED
          BY <2>2, <3>1, <3>2, <5>1, <5>2
      <4> QED
        BY <4>1, <4>2
    <3> QED
      BY <2>2, <3>2, <3>3, <3>4
  <2> QED
    BY <2>4, <2>6, <2>7
<1>11. \A k \in 0 .. Steps : Right(k)
  BY <1>10
<1>12. at[Steps] = brk
  <2> SUFFICES ASSUME at[Steps] # brk PROVE FALSE
    OBVIOUS
  <2> DEFINE p == at[Steps]
  <2>1. Steps > 0
    <3>1. 32 <= MAX_HEAP
      BY <1>2, ImplicitListAssumption DEF WSIZE, MIN_BLOCK_SIZE
    <3> QED
      BY <1>2, <3>1 DEF Steps, MIN_BLOCK_SIZE
  <2>2. Right(Steps)
    BY <1>2, <1>11
  <2>3. p \in B /\ p # DWORD_SIZE /\ p >= 32 * Steps
    BY <2>1, <2>2
  <2>4. Size(m, p) >= 32 /\ p \in Nat /\ Size(m, p) \in Nat /\ p + Size(m, p) <= brk
    BY <1>3, <1>4, <2>3 DEF MIN_BLOCK_SIZE
  <2> HIDE DEF p
  <2> QED
    BY <1>2, <1>3, <2>3, <2>4
<1>13. \A k \in 1 .. Steps : at[k] \in (B \ {DWORD_SIZE}) \cup {brk}
  <2> TAKE k \in 1 .. Steps
  <2>1. k \in 0 .. Steps /\ k > 0
    BY <1>2
  <2> QED
    BY <1>11, <2>1
<1> HIDE DEF Right
<1> DEFINE Missed == {p \in B \ {DWORD_SIZE} : \A k \in 1 .. Steps : at[k] # p}
<1>14. Missed = {}
  <2> SUFFICES ASSUME Missed # {} PROVE FALSE
    OBVIOUS
  <2> DEFINE q == First(Missed)
  <2>1. q \in Missed /\ \A j \in Missed : q <= j
    <3>1. Missed \in SUBSET Nat
      BY <1>3
    <3> HIDE DEF Missed
    <3> QED
      BY <3>1, FirstIs
  <2> HIDE DEF q
  <2>2. q \in B \ {DWORD_SIZE} /\ \A k \in 1 .. Steps : at[k] # q
    BY <2>1
  <2>3. PICK p \in B : p + Size(m, p) = q
    BY <1>4, <2>2
  <2>4. p < q
    BY <1>3, <2>3 DEF DWORD_SIZE
  <2>5. \E k \in 0 .. Steps : at[k] = p
    <3>1. CASE p = DWORD_SIZE
      BY <1>2, <1>9, <3>1
    <3>2. CASE p # DWORD_SIZE
      <4>1. p \notin Missed
        BY <1>3, <2>1, <2>4, <2>2
      <4>2. PICK k \in 1 .. Steps : at[k] = p
        BY <3>2, <4>1
      <4>3. k \in 0 .. Steps
        BY <1>2
      <4> QED
        BY <4>2, <4>3
    <3> QED
      BY <3>1, <3>2
  <2>6. PICK k \in 0 .. Steps : at[k] = p
    BY <2>5
  <2>7. k # Steps
    BY <1>3, <1>12, <2>3, <2>6 DEF DWORD_SIZE
  <2>8. k + 1 \in 1 .. Steps /\ k + 1 \in 0 .. Steps /\ (k + 1) - 1 = k /\ k + 1 # 0
    BY <1>2, <2>7
  <2>9. at[k + 1] = next_payload(m, p)
    BY <1>1, <2>6, <2>8
  <2>10. at[k + 1] = q
    BY <1>6, <2>3, <2>9
  <2> QED
    BY <2>2, <2>8, <2>10
<1>15. \A p \in B \ {DWORD_SIZE} : \E k \in 1 .. Steps : at[k] = p
  BY <1>14
<1> QED
  BY <1>1, <1>2, <1>9, <1>12, <1>13, <1>15 DEF at

\* First fit finds a free block with room if there is one.
LEMMA FitFound ==
  ASSUME NEW m, NEW brk, NEW B, Tiles(m, brk, B), NEW asize \in Nat
  PROVE  LET bp == find_fit(m, asize) IN
         \/ bp = NULL /\ \A p \in B : Alloc(m, p) = 1 \/ Size(m, p) < asize
         \/ bp \in B \ {DWORD_SIZE} /\ bp # NULL /\ Alloc(m, bp) = 0 /\ asize <= Size(m, bp)
<1> DEFINE at   == Walk(m)
           fits == {k \in DOMAIN at : /\ Word(m, header(at[k])).allocated = 0
                                      /\ asize <= Word(m, header(at[k])).size}
           bp   == find_fit(m, asize)
<1>1. bp = IF fits = {} THEN NULL ELSE at[First(fits)]
  BY DEF find_fit
<1>2. /\ DOMAIN at = 0 .. Steps /\ Steps \in Nat
      /\ at[Steps] = brk /\ at[0] = DWORD_SIZE
      /\ \A k \in 1 .. Steps : at[k] \in (B \ {DWORD_SIZE}) \cup {brk}
      /\ \A p \in B \ {DWORD_SIZE} : \E k \in 1 .. Steps : at[k] = p
  BY WalkVisits
<1>3. fits = {k \in 0 .. Steps : Alloc(m, at[k]) = 0 /\ asize <= Size(m, at[k])}
  BY <1>2 DEF Alloc, Size
<1>4. Alloc(m, DWORD_SIZE) = 1
  BY PrologueSays
<1>5. Alloc(m, brk) = 1
  BY EpilogueSays
<1>6. \A p \in B : Alloc(m, p) \in {0, 1} /\ Size(m, p) \in Nat /\ p >= DWORD_SIZE
  BY BlockFacts
<1> HIDE DEF at, fits, bp
<1>7. CASE fits = {}
  <2>1. ASSUME NEW p \in B, Alloc(m, p) # 1 PROVE Size(m, p) < asize
    <3>1. PICK k \in 1 .. Steps : at[k] = p
      BY <1>2, <1>4, <2>1
    <3>2. k \in 0 .. Steps /\ k \notin fits
      BY <1>2, <1>7
    <3>3. ~(asize <= Size(m, p))
      BY <1>3, <1>6, <2>1, <3>1, <3>2
    <3> QED
      BY <1>6, <3>3
  <2> QED
    BY <1>1, <1>7, <2>1 DEF bp
<1>8. CASE fits # {}
  <2> DEFINE k == First(fits)
  <2>1. fits \in SUBSET Nat
    BY <1>2, <1>3
  <2>2. k \in fits
    BY <1>8, <2>1, FirstIs
  <2> HIDE DEF k
  <2>3. k \in 0 .. Steps /\ Alloc(m, at[k]) = 0 /\ asize <= Size(m, at[k])
    BY <1>3, <2>2
  <2>4. at[k] # DWORD_SIZE /\ at[k] # brk
    BY <1>4, <1>5, <2>3
  <2>5. k \in 1 .. Steps
    BY <1>2, <2>3, <2>4
  <2>6. at[k] \in B \ {DWORD_SIZE}
    BY <1>2, <2>4, <2>5
  <2>7. at[k] # NULL
    BY <1>6, <2>6 DEF NULL, DWORD_SIZE
  <2>8. bp = at[k]
    BY <1>1, <1>8 DEF k
  <2> QED
    BY <2>3, <2>6, <2>7, <2>8 DEF bp
<1> QED
  BY <1>7, <1>8
-----------------------------------------------------------------------------
(* What the internal routines write.                                       *)

TagSet == [size : Nat, allocated : {0, 1}]

\* A word is written.
LEMMA WordPut ==
  \A m \in Memory, w \in TagSet : \A p :
    /\ Put(m, p, w) \in Memory
    /\ \A a \in Words : Put(m, p, w)[a] = IF a = p THEN w ELSE m[a]
<1> SUFFICES ASSUME NEW m \in Memory, NEW w \in TagSet, NEW p
             PROVE  /\ Put(m, p, w) \in Memory
                    /\ \A a \in Words : Put(m, p, w)[a] = IF a = p THEN w ELSE m[a]
  OBVIOUS
<1>1. /\ [m EXCEPT ![p] = w] \in Memory
      /\ \A a \in Words : [m EXCEPT ![p] = w][a] = IF a = p THEN w ELSE m[a]
  BY DEF Memory, TagSet
<1> QED
  BY <1>1 DEF Put

\* Both tags of a block are written.
LEMMA TagsPut ==
  ASSUME NEW m \in Memory, NEW bp \in Payloads, bp > 0, NEW size \in Nat, size % DWORD_SIZE = 0,
         size >= DWORD_SIZE, bp + size \in Payloads, NEW bit \in {0, 1}
  PROVE  /\ PutTags(m, bp, size, bit) \in Memory
         /\ \A a \in Words : PutTags(m, bp, size, bit)[a]
              = IF a = bp - WSIZE \/ a = bp + size - DWORD_SIZE THEN Tag(size, bit) ELSE m[a]
<1> DEFINE h == Put(m, bp - WSIZE, Tag(size, bit))
<1>1. bp - WSIZE \in Words /\ Tag(size, bit) \in TagSet
  BY TagWords DEF Tag, TagSet
<1>2. h \in Memory /\ \A a \in Words : h[a] = IF a = bp - WSIZE THEN Tag(size, bit) ELSE m[a]
  BY <1>1, WordPut
<1> HIDE DEF h
<1>3. footer(h, bp) = bp + size - DWORD_SIZE
  <2>1. h[bp - WSIZE] = Tag(size, bit)
    BY <1>1, <1>2
  <2>2. Word(h, bp - WSIZE).size = size
    BY <1>1, <2>1, TagSays
  <2> QED
    BY <2>2 DEF footer, header
<1>4. PutTags(m, bp, size, bit) = Put(h, bp + size - DWORD_SIZE, Tag(size, bit))
  BY <1>3 DEF PutTags, h, header
<1>5. /\ Put(h, bp + size - DWORD_SIZE, Tag(size, bit)) \in Memory
      /\ \A a \in Words : Put(h, bp + size - DWORD_SIZE, Tag(size, bit))[a]
           = IF a = bp + size - DWORD_SIZE THEN Tag(size, bit) ELSE h[a]
  BY <1>1, <1>2, WordPut
<1> QED
  BY <1>2, <1>4, <1>5

\* The neighbours of a block, of which the one before it was found.
LEMMA Neighbours ==
  ASSUME NEW m, NEW brk, NEW B, Tiles(m, brk, B), NEW bp \in B, bp # DWORD_SIZE, ~Misled(m, bp)
  PROVE  \E prev \in B :
           /\ prev + Size(m, prev) = bp /\ prev_payload(m, bp) = prev
           /\ Word(m, footer(m, prev)).allocated = Alloc(m, prev)
           /\ prev = DWORD_SIZE => Alloc(m, prev) = 1
           /\ next_payload(m, bp) = bp + Size(m, bp)
<1> DEFINE at == Walk(m)
<1>1. /\ DOMAIN at = 0 .. Steps /\ Steps \in Nat /\ at[0] = DWORD_SIZE
      /\ \A k \in 1 .. Steps : at[k] \in (B \ {DWORD_SIZE}) \cup {brk}
  BY WalkVisits
<1>2. PICK k \in 0 .. Steps : next_payload(m, at[k]) = bp /\ at[k] = prev_payload(m, bp)
  BY <1>1 DEF Misled
<1>3. /\ bp \in Nat /\ Size(m, bp) \in Nat /\ Size(m, bp) >= DWORD_SIZE /\ bp + Size(m, bp) <= brk
      /\ DWORD_SIZE \in B /\ brk \in Nat
  BY BlockFacts, PayloadIs DEF Tiles
<1> DEFINE prev == at[k]
<1>4. prev \in B \cup {brk}
  BY <1>1, <1>2, <1>3
<1>5. prev + Size(m, prev) = bp
  BY <1>2 DEF next_payload, Size
<1> HIDE DEF at
<1>6. prev # brk
  <2>1. brk + Size(m, brk) # bp
    BY <1>3, EpilogueSays DEF DWORD_SIZE
  <2> QED
    BY <1>5, <2>1
<1>7. prev \in B
  BY <1>4, <1>6
<1> HIDE DEF prev
<1>8. /\ prev \in Nat /\ Size(m, prev) \in Nat
      /\ prev + Size(m, prev) - DWORD_SIZE \in Words /\ prev - WSIZE \in Words
      /\ m[prev + Size(m, prev) - DWORD_SIZE] = m[prev - WSIZE]
  BY <1>7, BlockFacts
<1>9. Word(m, footer(m, prev)).allocated = Alloc(m, prev)
  <2>1. footer(m, prev) = prev + Size(m, prev) - DWORD_SIZE
    BY DEF footer, Size
  <2> QED
    BY <1>8, <2>1 DEF Alloc, header, Word
<1>10. prev_payload(m, bp) = prev /\ next_payload(m, bp) = bp + Size(m, bp)
  BY <1>2 DEF prev, next_payload, Size
<1>11. prev = DWORD_SIZE => Alloc(m, prev) = 1
  BY PrologueSays
<1> QED
  BY <1>5, <1>7, <1>9, <1>10, <1>11

\* From where to where coalesce merges the block at bp.
MergedFrom(m, bp) ==
  IF Alloc(m, prev_payload(m, bp)) = 0 THEN prev_payload(m, bp) ELSE bp

MergedTo(m, bp) ==
  LET next == next_payload(m, bp)
  IN  IF Alloc(m, next) = 0 THEN next + Size(m, next) ELSE next

\* The size and then the bit of the tag of the block before bp are written,
\* with the same way there.
WritePrevious(m, bp, w) ==
  LET s == Put(m, header(prev_payload(m, bp)),
               [Word(m, header(prev_payload(m, bp))) EXCEPT !.size = w.size])
      a == header(prev_payload(s, bp))
  IN  Put(s, a, [Word(s, a) EXCEPT !.allocated = w.allocated])

\* Both arrive at the header of the previous block, if that is not the word
\* that leads there.
LEMMA PreviousWritten ==
  ASSUME NEW m \in Memory, NEW bp \in Payloads, bp >= MIN_BLOCK_SIZE, NEW w \in TagSet,
         NEW prev \in Payloads, prev > 0, prev + MIN_BLOCK_SIZE <= bp, prev_payload(m, bp) = prev
  PROVE  /\ WritePrevious(m, bp, w) \in Memory
         /\ \A a \in Words : WritePrevious(m, bp, w)[a] = IF a = prev - WSIZE THEN w ELSE m[a]
         /\ prev_payload(WritePrevious(m, bp, w), bp) = prev
<1>1. /\ prev \in Nat /\ bp \in Nat /\ bp % DWORD_SIZE = 0 /\ bp <= MAX_HEAP
      /\ prev - WSIZE \in Words /\ prev - WSIZE # bp - WSIZE - DWORD_SIZE
  BY PayloadIs, TagWords DEF WSIZE, DWORD_SIZE, MIN_BLOCK_SIZE
<1>2. bp - WSIZE - DWORD_SIZE \in Words
  BY <1>1, WordIs, MemLibAssumption DEF WSIZE, DWORD_SIZE, MIN_BLOCK_SIZE
<1> DEFINE h  == prev - WSIZE
           w1 == [Word(m, h) EXCEPT !.size = w.size]
           s  == Put(m, h, w1)
           w2 == [Word(s, h) EXCEPT !.allocated = w.allocated]
           t  == Put(s, h, w2)
<1>3. Word(m, h) = m[h] /\ m[h] \in TagSet
  BY <1>1 DEF Word, Memory, TagSet
<1>4. w1 \in TagSet /\ w1.size = w.size
  BY <1>3 DEF TagSet
<1>5. s \in Memory /\ \A a \in Words : s[a] = IF a = h THEN w1 ELSE m[a]
  BY <1>4, WordPut
<1> HIDE DEF w1, s
<1>6. Word(s, h) = w1
  BY <1>1, <1>5 DEF Word
<1>7. w2 = w
  BY <1>4, <1>6 DEF TagSet
<1>8. t \in Memory /\ \A a \in Words : t[a] = IF a = h THEN w ELSE m[a]
  <2>1. t = Put(s, h, w)
    BY <1>7
  <2>2. Put(s, h, w) \in Memory /\ \A a \in Words : Put(s, h, w)[a] = IF a = h THEN w ELSE s[a]
    BY <1>5, WordPut
  <2> QED
    BY <1>5, <2>1, <2>2
<1>9. prev_payload(s, bp) = prev
  <2>1. s[bp - WSIZE - DWORD_SIZE] = m[bp - WSIZE - DWORD_SIZE]
    BY <1>1, <1>2, <1>5
  <2> QED
    BY <1>2, <2>1 DEF prev_payload, header, Word
<1>10. WritePrevious(m, bp, w) = t
  BY <1>9 DEF WritePrevious, header, s, w1
<1> HIDE DEF t
<1>11. prev_payload(t, bp) = prev
  <2>1. t[bp - WSIZE - DWORD_SIZE] = m[bp - WSIZE - DWORD_SIZE]
    BY <1>1, <1>2, <1>8
  <2> QED
    BY <1>2, <2>1 DEF prev_payload, header, Word
<1> QED
  BY <1>8, <1>10, <1>11

\* coalesce writes two tags.
LEMMA CoalesceWrites ==
  ASSUME NEW m, NEW brk, NEW B, Tiles(m, brk, B), NEW bp \in B, bp # DWORD_SIZE,
         Alloc(m, bp) = 0, ~Misled(m, bp)
  PROVE  LET c == coalesce(m, bp)  lo == MergedFrom(m, bp)  hi == MergedTo(m, bp) IN
         /\ Merged(m, bp) = lo /\ c \in Memory
         /\ lo \in B /\ lo # DWORD_SIZE /\ hi \in B \cup {brk} /\ lo <= bp /\ bp + Size(m, bp) <= hi
         /\ \A a \in Words : c[a] = IF a = lo - WSIZE \/ a = hi - DWORD_SIZE THEN Tag(hi - lo, 0)
                                    ELSE m[a]
<1> DEFINE c    == coalesce(m, bp)
           lo   == MergedFrom(m, bp)
           hi   == MergedTo(m, bp)
           size == Size(m, bp)
           next == bp + size
<1>1. PICK prev \in B :
        /\ prev + Size(m, prev) = bp /\ prev_payload(m, bp) = prev
        /\ Word(m, footer(m, prev)).allocated = Alloc(m, prev)
        /\ prev = DWORD_SIZE => Alloc(m, prev) = 1
        /\ next_payload(m, bp) = bp + Size(m, bp)
  BY Neighbours
<1>2. /\ bp \in Nat /\ size \in Nat /\ size % DWORD_SIZE = 0 /\ size >= MIN_BLOCK_SIZE
      /\ bp \in Payloads /\ next \in Payloads /\ bp >= MIN_BLOCK_SIZE
      /\ bp - WSIZE \in Words /\ next - DWORD_SIZE \in Words
      /\ m[bp - WSIZE] = Tag(size, 0) /\ m[next - DWORD_SIZE] = Tag(size, 0)
  <2>1. size >= MIN_BLOCK_SIZE /\ bp >= MIN_BLOCK_SIZE
    BY DEF Tiles
  <2>2. /\ bp \in Nat /\ size \in Nat /\ size % DWORD_SIZE = 0
        /\ bp \in Payloads /\ next \in Payloads
    BY BlockFacts
  <2>3. m[bp - WSIZE] = Tag(size, 0) /\ bp - WSIZE \in Words
    BY BlockFacts
  <2>4. /\ bp + Size(m, bp) - DWORD_SIZE \in Words
        /\ m[bp + Size(m, bp) - DWORD_SIZE] = m[bp - WSIZE]
    BY BlockFacts
  <2>5. next - DWORD_SIZE = bp + Size(m, bp) - DWORD_SIZE
    BY <2>2 DEF DWORD_SIZE
  <2> HIDE DEF size, next
  <2> QED
    BY <2>1, <2>2, <2>3, <2>4, <2>5
<1>3. /\ prev \in Nat /\ Size(m, prev) \in Nat /\ Size(m, prev) % DWORD_SIZE = 0 /\ prev \in Payloads
      /\ Alloc(m, prev) \in {0, 1} /\ Size(m, prev) >= DWORD_SIZE /\ prev >= DWORD_SIZE
  BY BlockFacts
<1>4. next \in B \cup {brk} /\ m \in Memory /\ B \subseteq Payloads /\ brk \in Payloads
  BY DEF Tiles
<1>5. next = brk => Alloc(m, next) = 1
  BY EpilogueSays
<1>6. Alloc(m, next) \in {0, 1}
  <2>1. next \in B => Alloc(m, next) \in {0, 1}
    BY BlockFacts
  <2> QED
    BY <1>4, <1>5, <2>1
<1>7. ASSUME Alloc(m, next) = 0
      PROVE  /\ next \in B /\ Size(m, next) \in Nat /\ Size(m, next) % DWORD_SIZE = 0
             /\ next + Size(m, next) \in B \cup {brk} /\ next + Size(m, next) \in Payloads
             /\ Word(m, footer(m, next)).size = Size(m, next)
             /\ footer(m, next) = next + Size(m, next) - DWORD_SIZE /\ next - WSIZE \in Words
  <2>1. next \in B
    BY <1>4, <1>5, <1>7
  <2>2. /\ Size(m, next) \in Nat /\ Size(m, next) % DWORD_SIZE = 0 /\ next + Size(m, next) \in Payloads
        /\ next - WSIZE \in Words /\ next + Size(m, next) - DWORD_SIZE \in Words
        /\ m[next + Size(m, next) - DWORD_SIZE] = m[next - WSIZE]
    BY <2>1, BlockFacts
  <2>3. next + Size(m, next) \in B \cup {brk}
    BY <2>1 DEF Tiles
  <2>4. footer(m, next) = next + Size(m, next) - DWORD_SIZE
    BY DEF footer, Size
  <2>5. Word(m, footer(m, next)).size = Size(m, next)
    BY <2>2, <2>4 DEF Size, Word, header
  <2> QED
    BY <2>1, <2>2, <2>3, <2>4, <2>5
<1>8. lo = IF Alloc(m, prev) = 0 THEN prev ELSE bp
  BY <1>1 DEF MergedFrom
<1>9. hi = IF Alloc(m, next) = 0 THEN next + Size(m, next) ELSE next
  BY <1>1 DEF MergedTo
<1>10. /\ lo \in B /\ lo # DWORD_SIZE /\ hi \in B \cup {brk} /\ lo <= bp /\ next <= hi
       /\ lo \in Payloads /\ hi \in Payloads /\ lo > 0
       /\ lo \in Nat /\ hi \in Nat
  <2>1. lo \in B /\ lo # DWORD_SIZE /\ lo <= bp /\ lo \in Nat /\ lo \in Payloads /\ lo > 0
    BY <1>1, <1>2, <1>3, <1>8 DEF DWORD_SIZE
  <2>2. hi \in B \cup {brk} /\ next <= hi /\ hi \in Payloads /\ hi \in Nat
    <3>1. CASE Alloc(m, next) = 0
      BY <1>2, <1>7, <1>9, <3>1
    <3>2. CASE Alloc(m, next) # 0
      BY <1>2, <1>4, <1>9, <3>2
    <3> QED
      BY <3>1, <3>2
  <2> QED
    BY <2>1, <2>2
<1>11. /\ hi - lo \in Nat /\ (hi - lo) % DWORD_SIZE = 0 /\ hi - lo >= DWORD_SIZE
       /\ hi - lo = (IF Alloc(m, prev) = 0 THEN Size(m, prev) ELSE 0) + size
                    + (IF Alloc(m, next) = 0 THEN Size(m, next) ELSE 0)
  <2>1. /\ hi - lo \in Nat /\ hi - lo >= DWORD_SIZE
        /\ hi - lo = (IF Alloc(m, prev) = 0 THEN Size(m, prev) ELSE 0) + size
                     + (IF Alloc(m, next) = 0 THEN Size(m, next) ELSE 0)
    <3>1. lo = bp - (IF Alloc(m, prev) = 0 THEN Size(m, prev) ELSE 0)
      BY <1>1, <1>2, <1>3, <1>8
    <3>2. hi = next + (IF Alloc(m, next) = 0 THEN Size(m, next) ELSE 0)
      BY <1>2, <1>6, <1>7, <1>9
    <3>3. /\ (IF Alloc(m, prev) = 0 THEN Size(m, prev) ELSE 0) \in Nat
          /\ (IF Alloc(m, next) = 0 THEN Size(m, next) ELSE 0) \in Nat
      BY <1>3, <1>7
    <3> DEFINE before == IF Alloc(m, prev) = 0 THEN Size(m, prev) ELSE 0
               after  == IF Alloc(m, next) = 0 THEN Size(m, next) ELSE 0
    <3> HIDE DEF lo, hi, before, after
    <3>4. lo = bp - before /\ hi = bp + size + after /\ before \in Nat /\ after \in Nat
      BY <3>1, <3>2, <3>3 DEF before, after
    <3> HIDE DEF size
    <3>5. hi - lo \in Nat /\ hi - lo >= DWORD_SIZE /\ hi - lo = before + size + after
      BY <1>2, <1>10, <3>4 DEF DWORD_SIZE, MIN_BLOCK_SIZE
    <3> QED
      BY <3>5 DEF before, after
  <2>2. lo % DWORD_SIZE = 0 /\ hi % DWORD_SIZE = 0
    BY <1>10, PayloadIs
  <2> QED
    BY <1>10, <2>1, <2>2 DEF DWORD_SIZE
<1> DEFINE tag         == Tag(hi - lo, 0)
           Written(m2) ==
             /\ m2 \in Memory
             /\ \A a \in Words : m2[a] = IF a = lo - WSIZE \/ a = hi - DWORD_SIZE THEN tag ELSE m[a]
<1>12. lo + (hi - lo) = hi /\ tag \in TagSet
  BY <1>10, <1>11 DEF Tag, TagSet
<1> HIDE DEF c, lo, hi
<1>13. lo = bp => Written(PutTags(m, bp, hi - lo, 0))
  <2>1. /\ PutTags(m, lo, hi - lo, 0) \in Memory
        /\ \A a \in Words : PutTags(m, lo, hi - lo, 0)[a]
             = IF a = lo - WSIZE \/ a = lo + (hi - lo) - DWORD_SIZE THEN Tag(hi - lo, 0) ELSE m[a]
    BY <1>4, <1>10, <1>11, <1>12, TagsPut
  <2>2. lo + (hi - lo) - DWORD_SIZE = hi - DWORD_SIZE
    BY <1>10 DEF DWORD_SIZE
  <2> QED
    BY <2>1, <2>2
<1> HIDE DEF tag
\* coalesce, with the neighbours found.
<1>14. /\ c = CASE Alloc(m, prev) = 1 /\ Alloc(m, next) = 1 -> m
                [] Alloc(m, prev) = 1 /\ ~(Alloc(m, next) = 1) ->
                     PutTags(m, bp, size + Size(m, next), 0)
                [] ~(Alloc(m, prev) = 1) /\ Alloc(m, next) = 1 ->
                     WritePrevious(Put(m, footer(m, bp), Tag(size + Size(m, prev), 0)), bp,
                                   Tag(size + Size(m, prev), 0))
                [] OTHER ->
                     LET all == Tag(size + Size(m, prev) + Word(m, footer(m, next)).size, 0)
                         h   == WritePrevious(m, bp, all)
                     IN  Put(h, footer(h, next_payload(h, bp)), all)
       /\ Merged(m, bp) = IF Alloc(m, prev) = 1 THEN bp ELSE prev_payload(c, bp)
  <2>1. /\ Word(m, footer(m, prev_payload(m, bp))).allocated = Alloc(m, prev)
        /\ Word(m, header(next_payload(m, bp))).allocated = Alloc(m, next)
        /\ Word(m, header(next_payload(m, bp))).size = Size(m, next)
        /\ Word(m, header(bp)).size = size
        /\ Word(m, header(prev_payload(m, bp))).size = Size(m, prev)
        /\ next_payload(m, bp) = next
    BY <1>1 DEF Size, Alloc
  <2> HIDE DEF size, next
  <2> QED
    BY <2>1 DEF c, coalesce, WritePrevious, Merged
<1> HIDE DEF Written
<1>15. ASSUME Alloc(m, prev) = 0
       PROVE  /\ prev > 0 /\ prev + MIN_BLOCK_SIZE <= bp /\ lo = prev /\ Size(m, prev) >= MIN_BLOCK_SIZE
              /\ lo - WSIZE # hi - DWORD_SIZE
  <2>1. prev # DWORD_SIZE /\ Size(m, prev) >= MIN_BLOCK_SIZE
    BY <1>1, <1>15 DEF Tiles
  <2>2. lo = prev
    BY <1>8, <1>15
  <2>3. prev + MIN_BLOCK_SIZE <= bp /\ prev > 0
    BY <1>1, <1>3, <2>1 DEF DWORD_SIZE, MIN_BLOCK_SIZE
  <2>4. lo - WSIZE # hi - DWORD_SIZE
    BY <1>2, <1>10, <2>2, <2>3 DEF WSIZE, DWORD_SIZE, MIN_BLOCK_SIZE
  <2> QED
    BY <2>1, <2>2, <2>3, <2>4
\* The way to the previous block is not written over.
<1>16. ASSUME NEW m2 \in Memory, Alloc(m, prev) = 0,
              \A a \in Words : m2[a] = IF a = hi - DWORD_SIZE THEN tag ELSE m[a]
       PROVE  prev_payload(m2, bp) = prev
  <2>1. bp - WSIZE - DWORD_SIZE \in Words
    BY <1>2, PayloadIs, WordIs, MemLibAssumption DEF WSIZE, DWORD_SIZE, MIN_BLOCK_SIZE
  <2>2. bp - WSIZE - DWORD_SIZE # hi - DWORD_SIZE
    BY <1>2, <1>10 DEF WSIZE, DWORD_SIZE, MIN_BLOCK_SIZE
  <2>3. m2[bp - WSIZE - DWORD_SIZE] = m[bp - WSIZE - DWORD_SIZE]
    BY <1>16, <2>1, <2>2
  <2> QED
    BY <1>1, <2>1, <2>3 DEF prev_payload, header, Word
<1>17. CASE Alloc(m, prev) = 1 /\ Alloc(m, next) = 1
  <2>1. c = m /\ Merged(m, bp) = bp
    BY <1>14, <1>17
  <2>2. lo = bp /\ hi - lo = size /\ hi = next
    BY <1>8, <1>9, <1>11, <1>17, <1>2
  <2>3. tag = Tag(size, 0)
    BY <2>2 DEF tag
  <2>4. Written(c)
    BY <1>2, <1>4, <2>1, <2>2, <2>3 DEF Written
  <2> QED
    BY <1>10, <2>1, <2>2, <2>4 DEF c, lo, hi, tag, Written
<1>18. CASE Alloc(m, prev) = 1 /\ Alloc(m, next) = 0
  <2>1. c = PutTags(m, bp, size + Size(m, next), 0) /\ Merged(m, bp) = bp
    BY <1>14, <1>18
  <2>2. lo = bp /\ hi - lo = size + Size(m, next)
    BY <1>8, <1>11, <1>18, <1>2, <1>7
  <2>3. Written(c)
    BY <1>13, <2>1, <2>2
  <2> QED
    BY <1>10, <2>1, <2>2, <2>3 DEF c, lo, hi, tag, Written
<1>19. CASE Alloc(m, prev) = 0 /\ Alloc(m, next) = 1
  <2> DEFINE f == Put(m, hi - DWORD_SIZE, tag)
  <2>1. hi - lo = size + Size(m, prev) /\ hi = next /\ footer(m, bp) = hi - DWORD_SIZE
    <3>1. hi - lo = size + Size(m, prev) /\ hi = next
      BY <1>2, <1>3, <1>9, <1>11, <1>19
    <3> QED
      BY <1>2, <3>1 DEF footer, Size, DWORD_SIZE
  <2>2. c = WritePrevious(f, bp, tag) /\ Merged(m, bp) = prev_payload(c, bp)
    BY <1>14, <1>19, <2>1 DEF tag
  <2>3. f \in Memory /\ \A a \in Words : f[a] = IF a = hi - DWORD_SIZE THEN tag ELSE m[a]
    BY <1>4, <1>12, WordPut
  <2> HIDE DEF f
  <2>4. prev_payload(f, bp) = prev
    BY <1>16, <1>19, <2>3
  <2>5. /\ c \in Memory /\ \A a \in Words : c[a] = IF a = prev - WSIZE THEN tag ELSE f[a]
        /\ prev_payload(c, bp) = prev
    BY <1>2, <1>3, <1>12, <1>15, <1>19, <2>2, <2>3, <2>4, PreviousWritten
  <2>6. Written(c)
    BY <1>15, <1>19, <2>3, <2>5 DEF Written
  <2> QED
    BY <1>10, <1>15, <1>19, <2>2, <2>5, <2>6 DEF c, lo, hi, tag, Written
<1>20. CASE Alloc(m, prev) = 0 /\ Alloc(m, next) = 0
  <2> DEFINE h == WritePrevious(m, bp, tag)
  <2>1. hi - lo = size + Size(m, prev) + Size(m, next) /\ hi = next + Size(m, next)
    BY <1>2, <1>3, <1>7, <1>9, <1>11, <1>20
  <2>2. c = Put(h, footer(h, next_payload(h, bp)), tag) /\ Merged(m, bp) = prev_payload(c, bp)
    <3>1. tag = Tag(size + Size(m, prev) + Word(m, footer(m, next)).size, 0)
      BY <1>7, <1>20, <2>1 DEF tag
    <3> QED
      BY <1>14, <1>20, <3>1
  <2>3. /\ h \in Memory /\ \A a \in Words : h[a] = IF a = prev - WSIZE THEN tag ELSE m[a]
        /\ prev_payload(h, bp) = prev
    BY <1>1, <1>2, <1>3, <1>4, <1>12, <1>15, <1>20, PreviousWritten
  <2> HIDE DEF h
  <2>4. next_payload(h, bp) = next
    <3>1. bp - WSIZE # prev - WSIZE
      BY <1>2, <1>3, <1>15, <1>20 DEF WSIZE, MIN_BLOCK_SIZE
    <3>2. h[bp - WSIZE] = m[bp - WSIZE]
      BY <1>2, <2>3, <3>1
    <3> QED
      BY <1>2, <3>2 DEF next_payload, Size, header, Word
  <2>5. footer(h, next) = hi - DWORD_SIZE
    <3>1. next - WSIZE # prev - WSIZE /\ next - WSIZE \in Words
      BY <1>2, <1>3, <1>7, <1>15, <1>20 DEF WSIZE, MIN_BLOCK_SIZE
    <3>2. h[next - WSIZE] = m[next - WSIZE]
      BY <2>3, <3>1
    <3>3. Word(h, header(next)).size = Size(m, next)
      BY <3>1, <3>2 DEF Size, header, Word
    <3> QED
      BY <1>2, <1>7, <1>20, <2>1, <3>3 DEF footer, DWORD_SIZE
  <2>6. c = Put(h, hi - DWORD_SIZE, tag)
    BY <2>2, <2>4, <2>5
  <2>7. c \in Memory /\ \A a \in Words : c[a] = IF a = hi - DWORD_SIZE THEN tag ELSE h[a]
    BY <1>12, <2>3, <2>6, WordPut
  <2>8. prev_payload(c, bp) = prev
    <3>1. bp - WSIZE - DWORD_SIZE \in Words
      BY <1>2, PayloadIs, WordIs, MemLibAssumption DEF WSIZE, DWORD_SIZE, MIN_BLOCK_SIZE
    <3>2. bp - WSIZE - DWORD_SIZE # hi - DWORD_SIZE
      BY <1>2, <1>10 DEF WSIZE, DWORD_SIZE, MIN_BLOCK_SIZE
    <3>3. c[bp - WSIZE - DWORD_SIZE] = h[bp - WSIZE - DWORD_SIZE]
      BY <2>7, <3>1, <3>2
    <3> QED
      BY <2>3, <3>1, <3>3 DEF prev_payload, header, Word
  <2>9. Written(c)
    BY <1>15, <1>20, <2>3, <2>7 DEF Written
  <2> QED
    BY <1>10, <1>15, <1>20, <2>2, <2>8, <2>9 DEF c, lo, hi, tag, Written
<1> QED
  BY <1>3, <1>6, <1>17, <1>18, <1>19, <1>20
-----------------------------------------------------------------------------
(* What the internal routines do to the blocks.                            *)

\* The blocks at S keep their size and what is between their tags.
Keeps(m, m2, S) ==
  \A p \in S : /\ Size(m2, p) = Size(m, p)
               /\ \A a \in Words : p <= a /\ a < p + Size(m, p) - DWORD_SIZE => m2[a] = m[a]

\* What two steps keep is kept.
LEMMA KeepsTwice ==
  ASSUME NEW m, NEW m2, NEW m3, NEW S, NEW T, Keeps(m, m2, S), Keeps(m2, m3, T), S \subseteq T
  PROVE  Keeps(m, m3, S)
  BY DEF Keeps

\* m2 is m but for what is between the tags of the block at x.
DataOnly(m, m2, x) ==
  m2 \in Memory /\ \A a \in Words : a < x \/ a >= x + Size(m, x) - DWORD_SIZE => m2[a] = m[a]

SameSizes(m, m2, S) == \A p \in S : Size(m2, p) = Size(m, p)

\* Writing to a block changes no tag and no other block.
LEMMA DataWritten ==
  ASSUME NEW m, NEW brk, NEW B, Good(m, brk, B), NEW x \in B, NEW m2, DataOnly(m, m2, x)
  PROVE  /\ Good(m2, brk, B) /\ Taken(m2, B) = Taken(m, B) /\ Keeps(m, m2, B \ {x})
         /\ SameSizes(m, m2, B)
<1>1. Tiles(m, brk, B)
  BY DEF Good
<1>2. /\ \A p \in B : p \in Nat /\ Size(m, p) \in Nat /\ p >= DWORD_SIZE /\ Size(m, p) >= DWORD_SIZE
                      /\ p + Size(m, p) <= brk /\ p - WSIZE \in Words
                      /\ p + Size(m, p) - DWORD_SIZE \in Words
      /\ brk \in Nat /\ brk - WSIZE \in Words
  <2>1. \A p \in B : p \in Nat /\ Size(m, p) \in Nat /\ p >= DWORD_SIZE /\ Size(m, p) >= DWORD_SIZE
                      /\ p + Size(m, p) <= brk /\ p - WSIZE \in Words
                      /\ p + Size(m, p) - DWORD_SIZE \in Words
    BY <1>1, BlockFacts
  <2>2. brk \in Payloads /\ brk \in Nat
    BY <1>1, PayloadIs DEF Tiles
  <2> QED
    BY <2>1, <2>2, TagWords DEF DWORD_SIZE
<1>3. \A p, q \in B : p < q => p + Size(m, p) <= q
  BY <1>1 DEF Tiles
<1>4. ASSUME NEW p \in B
      PROVE  /\ m2[p - WSIZE] = m[p - WSIZE]
             /\ m2[p + Size(m, p) - DWORD_SIZE] = m[p + Size(m, p) - DWORD_SIZE]
  <2>1. p = x \/ p + Size(m, p) <= x \/ p >= x + Size(m, x)
    BY <1>2, <1>3
  <2> QED
    BY <1>2, <2>1 DEF WSIZE, DWORD_SIZE, DataOnly
<1>5. \A p \in B : Size(m2, p) = Size(m, p) /\ Alloc(m2, p) = Alloc(m, p)
  BY <1>2, <1>4 DEF Size, Alloc, header, Word
<1>6. \A p \in B : Tagged(m2, p)
  <2> SUFFICES ASSUME NEW p \in B PROVE Tagged(m2, p)
    OBVIOUS
  <2>1. Tagged(m, p)
    BY <1>1 DEF Tiles
  <2>2. footer(m2, p) = p + Size(m, p) - DWORD_SIZE /\ footer(m, p) = p + Size(m, p) - DWORD_SIZE
    BY <1>5 DEF footer, Size
  <2> QED
    BY <1>4, <1>5, <2>1, <2>2 DEF Tagged, header
<1>7. m2[WSIZE] = m[WSIZE]
  <2>1. DWORD_SIZE \in B /\ DWORD_SIZE - WSIZE = WSIZE
    BY <1>1 DEF Tiles, DWORD_SIZE, WSIZE
  <2> QED
    BY <1>4, <2>1
<1>8. m2[brk - WSIZE] = m[brk - WSIZE]
  BY <1>2 DEF WSIZE, DWORD_SIZE, DataOnly
<1>9. Tiles(m2, brk, B)
  BY <1>1, <1>5, <1>6, <1>7, <1>8 DEF Tiles, DataOnly
<1>10. NoTwoFree(m2, B, NULL)
  BY <1>5 DEF Good, NoTwoFree
<1>11. Taken(m2, B) = Taken(m, B)
  BY <1>5 DEF Taken
<1>12. Keeps(m, m2, B \ {x})
  <2> SUFFICES ASSUME NEW p \in B \ {x}, NEW a \in Words, p <= a, a < p + Size(m, p) - DWORD_SIZE
               PROVE  m2[a] = m[a]
    BY <1>5 DEF Keeps
  <2>1. p + Size(m, p) <= x \/ p >= x + Size(m, x)
    BY <1>2, <1>3
  <2>2. a \in Nat
    BY WordIs
  <2> QED
    BY <1>2, <2>1, <2>2 DEF DWORD_SIZE, DataOnly
<1> QED
  BY <1>5, <1>9, <1>10, <1>11, <1>12 DEF Good, SameSizes

\* A free block and its free neighbours become one block.
LEMMA CoalesceGives ==
  ASSUME NEW m, NEW brk, NEW B, Tiles(m, brk, B), NEW bp \in B, bp # DWORD_SIZE, NoTwoFree(m, B, bp),
         Alloc(m, bp) = 0, ~Misled(m, bp)
  PROVE  LET c == coalesce(m, bp) IN
         \E C \in SUBSET Payloads :
           /\ Good(c, brk, C) /\ Taken(c, C) = Taken(m, B)
           /\ Keeps(m, c, Taken(m, B))
           /\ Merged(m, bp) \in C \ {DWORD_SIZE} /\ Alloc(c, Merged(m, bp)) = 0
           /\ Size(c, Merged(m, bp)) >= Size(m, bp)
<1> DEFINE c    == coalesce(m, bp)
           lo   == MergedFrom(m, bp)
           hi   == MergedTo(m, bp)
           Old  == {p \in B : p < lo \/ p >= hi}
           C    == Old \cup {lo}
           next == bp + Size(m, bp)
<1>1. /\ Merged(m, bp) = lo /\ c \in Memory
      /\ lo \in B /\ lo # DWORD_SIZE /\ hi \in B \cup {brk} /\ lo <= bp /\ next <= hi
      /\ \A a \in Words : c[a] = IF a = lo - WSIZE \/ a = hi - DWORD_SIZE THEN Tag(hi - lo, 0)
                                ELSE m[a]
  BY CoalesceWrites
<1>2. PICK prev \in B :
        /\ prev + Size(m, prev) = bp /\ prev_payload(m, bp) = prev
        /\ Word(m, footer(m, prev)).allocated = Alloc(m, prev)
        /\ prev = DWORD_SIZE => Alloc(m, prev) = 1
        /\ next_payload(m, bp) = bp + Size(m, bp)
  BY Neighbours
<1>3. lo = IF Alloc(m, prev) = 0 THEN prev ELSE bp
  BY <1>2 DEF MergedFrom
<1>4. hi = IF Alloc(m, next) = 0 THEN next + Size(m, next) ELSE next
  BY <1>2 DEF MergedTo
<1>5. next \in B \cup {brk} /\ B \subseteq Payloads /\ brk \in Nat
  BY PayloadIs DEF Tiles
<1>6. next = brk => Alloc(m, next) = 1
  BY EpilogueSays
<1>7. /\ \A p \in B : p \in Nat /\ Size(m, p) \in Nat /\ Size(m, p) >= DWORD_SIZE /\ p >= DWORD_SIZE
                      /\ p + Size(m, p) <= brk /\ Alloc(m, p) \in {0, 1}
      /\ lo \in Nat /\ hi \in Nat /\ next \in Nat
  <2>1. \A p \in B : p \in Nat /\ Size(m, p) \in Nat /\ Size(m, p) >= DWORD_SIZE /\ p >= DWORD_SIZE
                     /\ p + Size(m, p) <= brk /\ Alloc(m, p) \in {0, 1}
    BY BlockFacts
  <2> QED
    BY <1>1, <1>5, <2>1
<1>8. \A p, q \in B : p < q => p + Size(m, p) <= q
  BY DEF Tiles
<1> HIDE DEF c, lo, hi, C
<1>9. lo < hi
  BY <1>1, <1>7 DEF DWORD_SIZE
<1>10. /\ Tiles(c, brk, Old \cup {lo})
       /\ Size(c, lo) = hi - lo /\ Alloc(c, lo) = 0
       /\ \A p \in B : p < lo \/ p >= hi =>
              /\ c[p - WSIZE] = m[p - WSIZE] /\ Size(c, p) = Size(m, p)
              /\ Alloc(c, p) = Alloc(m, p)
  <2> DEFINE m2 == c
  <2>1. m2 \in Memory /\ 0 \in {0, 1}
    BY <1>1
  <2>2. Framed(m, m2, lo, hi, 0)
    BY <1>1 DEF Framed
  <2> HIDE DEF m2
  <2>3. /\ Tiles(m2, brk, Old \cup {lo})
        /\ Size(m2, lo) = hi - lo /\ Alloc(m2, lo) = 0
        /\ \A p \in B : p < lo \/ p >= hi =>
              /\ m2[p - WSIZE] = m[p - WSIZE] /\ Size(m2, p) = Size(m, p)
              /\ Alloc(m2, p) = Alloc(m, p)
    <3>1. lo \in B /\ lo # DWORD_SIZE /\ hi \in B \cup {brk} /\ lo < hi
      BY <1>1, <1>9
    <3> QED
      BY <2>1, <2>2, <3>1, OneBlock
  <2> QED
    BY <2>3 DEF m2
<1>11. \A p \in B : p < lo \/ p >= hi \/ p = bp \/ Alloc(m, p) = 0
  <2> SUFFICES ASSUME NEW p \in B, lo <= p, p < hi, p # bp PROVE Alloc(m, p) = 0
    BY <1>7
  <2>1. CASE p < bp
    <3>1. p <= prev
      BY <1>2, <1>7, <1>8, <2>1
    <3> QED
      BY <1>2, <1>3, <1>7, <2>1, <3>1
  <2>2. CASE p > bp
    <3>1. p >= next
      BY <1>7, <1>8, <2>2
    <3>2. Alloc(m, next) = 0 /\ hi = next + Size(m, next) /\ next \in B
      BY <1>4, <1>5, <1>6, <1>7, <3>1
    <3>3. p = next
      BY <1>7, <1>8, <3>1, <3>2
    <3> QED
      BY <3>2, <3>3
  <2> QED
    BY <1>7, <2>1, <2>2
<1>12. Taken(c, C) = Taken(m, B)
  <2>1. ASSUME NEW p \in Taken(c, C) PROVE p \in Taken(m, B)
    <3>1. p \in C \ {DWORD_SIZE} /\ Alloc(c, p) = 1
      BY <2>1 DEF Taken
    <3>2. p # lo
      BY <1>10, <3>1
    <3>3. p \in Old /\ p \in B /\ (p < lo \/ p >= hi)
      BY <3>1, <3>2 DEF C
    <3>4. p # bp
      BY <1>1, <1>7, <3>3 DEF DWORD_SIZE
    <3> QED
      BY <1>10, <3>1, <3>3, <3>4 DEF Taken
  <2>2. ASSUME NEW p \in Taken(m, B) PROVE p \in Taken(c, C)
    <3>1. p \in B \ {DWORD_SIZE} /\ Alloc(m, p) = 1 /\ p # bp
      BY <2>2 DEF Taken
    <3>2. p < lo \/ p >= hi
      BY <1>11, <3>1
    <3> QED
      BY <1>10, <3>1, <3>2 DEF Taken, C
  <2> QED
    BY <2>1, <2>2
<1>13. Keeps(m, c, Taken(m, B))
  <2> SUFFICES ASSUME NEW p \in Taken(m, B)
               PROVE  /\ Size(c, p) = Size(m, p)
                      /\ \A a \in Words : p <= a /\ a < p + Size(m, p) - DWORD_SIZE => c[a] = m[a]
    BY DEF Keeps
  <2>1. p \in B \ {DWORD_SIZE} /\ Alloc(m, p) = 1 /\ p # bp
    BY DEF Taken
  <2>2. p < lo \/ p >= hi
    BY <1>11, <2>1
  <2>3. Size(c, p) = Size(m, p)
    BY <1>10, <2>1, <2>2
  <2>4. p < lo => p + Size(m, p) <= lo
    BY <1>1, <1>8, <2>1
  <2>5. p \in Nat /\ Size(m, p) \in Nat
    BY <1>7, <2>1
  <2>6. ASSUME NEW a \in Words, p <= a, a < p + Size(m, p) - DWORD_SIZE PROVE c[a] = m[a]
    <3>1. a \in Nat
      BY WordIs
    <3>2. a # lo - WSIZE /\ a # hi - DWORD_SIZE
      BY <1>7, <1>9, <2>2, <2>4, <2>5, <2>6, <3>1 DEF WSIZE, DWORD_SIZE
    <3> QED
      BY <1>1, <3>2
  <2> QED
    BY <2>3, <2>6
<1>14. NoTwoFree(c, C, NULL)
  <2> SUFFICES ASSUME NEW p \in C, p + Size(c, p) \in C
               PROVE  Alloc(c, p) = 1 \/ Alloc(c, p + Size(c, p)) = 1
    BY DEF NoTwoFree
  <2> DEFINE q == p + Size(c, p)
  <2>1. CASE p = lo
    <3>1. q = hi /\ hi \in B
      BY <1>1, <1>7, <1>9, <1>10, <2>1 DEF C
    <3>2. Alloc(c, hi) = Alloc(m, hi)
      BY <1>7, <1>10, <3>1
    <3>3. Alloc(m, hi) = 1
      <4>1. CASE Alloc(m, next) = 0
        <5>1. next \in B /\ hi = next + Size(m, next) /\ next # bp /\ hi # bp
          BY <1>4, <1>5, <1>6, <1>7, <4>1 DEF DWORD_SIZE
        <5>2. next \in B /\ next + Size(m, next) \in B /\ next # bp /\ next + Size(m, next) # bp
          BY <3>1, <5>1
        <5> HIDE DEF next
        <5>3. Alloc(m, next) = 1 \/ Alloc(m, next + Size(m, next)) = 1
          BY <5>2 DEF NoTwoFree
        <5> QED
          BY <4>1, <5>1, <5>3
      <4>2. CASE Alloc(m, next) # 0
        BY <1>4, <1>7, <3>1, <4>2
      <4> QED
        BY <4>1, <4>2
    <3> QED
      BY <3>1, <3>2, <3>3
  <2>2. CASE p # lo /\ q = lo
    <3>1. p \in B /\ (p < lo \/ p >= hi) /\ Size(c, p) = Size(m, p) /\ Alloc(c, p) = Alloc(m, p)
      BY <1>10, <2>2 DEF C
    <3>2. p + Size(m, p) = lo /\ p \in Nat /\ Size(m, p) \in Nat /\ Size(m, p) >= DWORD_SIZE
      BY <1>7, <2>2, <3>1
    <3>3. Alloc(m, p) = 1
      <4>1. CASE Alloc(m, prev) = 0
        <5>1. lo = prev /\ p # bp /\ prev # bp
          BY <1>2, <1>3, <1>7, <3>1, <3>2, <4>1 DEF DWORD_SIZE
        <5> QED
          BY <3>1, <3>2, <4>1, <5>1 DEF NoTwoFree
      <4>2. CASE Alloc(m, prev) # 0
        <5>1. lo = bp
          BY <1>3, <4>2
        <5>2. p = prev
          <6>1. ~(p < prev)
            BY <1>2, <1>7, <1>8, <3>1, <3>2, <5>1 DEF DWORD_SIZE
          <6>2. ~(prev < p)
            BY <1>2, <1>7, <1>8, <3>1, <3>2, <5>1 DEF DWORD_SIZE
          <6> QED
            BY <1>7, <3>1, <6>1, <6>2
        <5> QED
          BY <1>7, <4>2, <5>2
      <4> QED
        BY <4>1, <4>2
    <3> QED
      BY <3>1, <3>3
  <2>3. CASE p # lo /\ q # lo
    <3>1. p \in B /\ (p < lo \/ p >= hi) /\ Size(c, p) = Size(m, p) /\ Alloc(c, p) = Alloc(m, p)
      BY <1>10, <2>3 DEF C
    <3>2. q \in B /\ (q < lo \/ q >= hi) /\ q = p + Size(m, p) /\ Alloc(c, q) = Alloc(m, q)
      BY <1>10, <2>3, <3>1 DEF C
    <3>3. p # bp /\ q # bp
      BY <1>1, <1>7, <3>1, <3>2 DEF DWORD_SIZE
    <3> HIDE DEF q
    <3>4. Alloc(m, p) = 1 \/ Alloc(m, q) = 1
      BY <3>1, <3>2, <3>3 DEF NoTwoFree
    <3> QED
      BY <3>1, <3>2, <3>4 DEF q
  <2> QED
    BY <2>1, <2>2, <2>3
<1>15. Good(c, brk, C) /\ C \in SUBSET Payloads
  BY <1>1, <1>5, <1>10, <1>14 DEF Good, C
<1>16. /\ Merged(m, bp) \in C \ {DWORD_SIZE} /\ Alloc(c, Merged(m, bp)) = 0
       /\ Size(c, Merged(m, bp)) >= Size(m, bp)
  BY <1>1, <1>7, <1>10 DEF C
<1> QED
  BY <1>12, <1>13, <1>15, <1>16 DEF c

\* A free block is taken; what is left of it stays a free block.
LEMMA PlaceGives ==
  ASSUME NEW m, NEW brk, NEW B, Good(m, brk, B), NEW bp \in B, bp # DWORD_SIZE, Alloc(m, bp) = 0,
         NEW asize \in Nat, asize % DWORD_SIZE = 0, asize >= MIN_BLOCK_SIZE, asize <= Size(m, bp)
  PROVE  LET m2 == place(m, bp, asize) IN
         \E C \in SUBSET Payloads :
           /\ Good(m2, brk, C) /\ Taken(m2, C) = Taken(m, B) \cup {bp} /\ bp \notin Taken(m, B)
           /\ Keeps(m, m2, Taken(m, B)) /\ bp \in C /\ Size(m2, bp) >= asize
<1> DEFINE m2    == place(m, bp, asize)
           size  == Size(m, bp)
           hi    == bp + size
           mid   == bp + asize
           front == PutTags(m, bp, asize, 1)
<1>1. Tiles(m, brk, B) /\ NoTwoFree(m, B, NULL)
  BY DEF Good
<1>2. /\ bp \in Nat /\ size \in Nat /\ size % DWORD_SIZE = 0 /\ size >= DWORD_SIZE /\ bp % DWORD_SIZE = 0
      /\ bp \in Payloads /\ hi \in Payloads /\ bp >= DWORD_SIZE /\ hi <= brk /\ brk <= MAX_HEAP
  BY <1>1, BlockFacts
<1>3. m \in Memory /\ B \subseteq Payloads /\ brk \in Payloads /\ hi \in B \cup {brk}
  BY <1>1 DEF Tiles
<1>4. /\ \A p \in B : p \in Nat /\ Size(m, p) \in Nat /\ Size(m, p) >= DWORD_SIZE /\ p >= DWORD_SIZE
      /\ hi \in Nat
  <2>1. \A p \in B : p \in Nat /\ Size(m, p) \in Nat /\ Size(m, p) >= DWORD_SIZE /\ p >= DWORD_SIZE
    BY <1>1, BlockFacts
  <2> QED
    BY <1>2, <2>1
<1>5. \A p, q \in B : p < q => p + Size(m, p) <= q
  BY <1>1 DEF Tiles
<1>6. \A p \in B : p < bp \/ p >= hi \/ p = bp
  <2> SUFFICES ASSUME NEW p \in B, p > bp PROVE p >= hi
    BY <1>2, <1>4
  <2> QED
    BY <1>5
<1>7. bp \notin Taken(m, B)
  BY DEF Taken
<1>8. m2 = IF size - asize >= MIN_BLOCK_SIZE
           THEN PutTags(front, next_payload(front, bp), size - asize, 0)
           ELSE PutTags(m, bp, size, 1)
  BY DEF place, Size, DWORD_SIZE, MIN_BLOCK_SIZE
\* What follows from blocks that keep their tags.
<1>9. ASSUME NEW w \in Memory, NEW lim, lim \in Nat, bp < lim, lim <= hi,
             \A a \in Words : w[a] = m[a] \/ (bp - WSIZE <= a /\ a <= hi - DWORD_SIZE)
      PROVE  Keeps(m, w, {p \in B : p # bp /\ Size(w, p) = Size(m, p)})
  <2> SUFFICES ASSUME NEW p \in B, p # bp, NEW a \in Words, p <= a, a < p + Size(m, p) - DWORD_SIZE
               PROVE  w[a] = m[a]
    BY DEF Keeps
  <2>1. p + Size(m, p) <= bp \/ p >= hi
    BY <1>2, <1>4, <1>5, <1>6
  <2>2. a \in Nat
    BY WordIs
  <2> QED
    BY <1>2, <1>4, <1>9, <2>1, <2>2 DEF WSIZE, DWORD_SIZE
<1> HIDE DEF m2, front
<1>10. CASE size - asize < MIN_BLOCK_SIZE
  <2>1. m2 = PutTags(m, bp, size, 1)
    BY <1>2, <1>8, <1>10 DEF MIN_BLOCK_SIZE
  <2>2. /\ m2 \in Memory
        /\ \A a \in Words : m2[a] = IF a = bp - WSIZE \/ a = bp + size - DWORD_SIZE
                                     THEN Tag(size, 1) ELSE m[a]
    BY <1>2, <1>3, <2>1, TagsPut DEF DWORD_SIZE
  <2>3. hi - bp = size /\ bp < hi
    BY <1>2 DEF DWORD_SIZE
  <2>4. /\ Tiles(m2, brk, {p \in B : p < bp \/ p >= hi} \cup {bp})
        /\ Size(m2, bp) = hi - bp /\ Alloc(m2, bp) = 1
        /\ \A p \in B : p < bp \/ p >= hi =>
              /\ m2[p - WSIZE] = m[p - WSIZE] /\ Size(m2, p) = Size(m, p)
              /\ Alloc(m2, p) = Alloc(m, p)
    <3>1. Framed(m, m2, bp, hi, 1)
      <4>1. bp + size - DWORD_SIZE = hi - DWORD_SIZE
        BY <1>2 DEF DWORD_SIZE
      <4> QED
        BY <2>2, <2>3, <4>1 DEF Framed
    <3> HIDE DEF hi
    <3> QED
      BY <1>1, <1>3, <2>2, <2>3, <3>1, OneBlock
  <2>5. {p \in B : p < bp \/ p >= hi} \cup {bp} = B
    BY <1>6
  <2>6. Tiles(m2, brk, B)
    BY <2>4, <2>5
  <2>7. \A p \in B : p # bp => Size(m2, p) = Size(m, p) /\ Alloc(m2, p) = Alloc(m, p)
    BY <1>6, <2>4
  <2>8. Size(m2, bp) = size /\ Alloc(m2, bp) = 1
    BY <2>3, <2>4
  <2>9. NoTwoFree(m2, B, NULL)
    BY <1>1, <2>7, <2>8 DEF NoTwoFree
  <2>10. Taken(m2, B) = Taken(m, B) \cup {bp}
    BY <2>7, <2>8 DEF Taken
  <2>11. Keeps(m, m2, Taken(m, B))
    <3>1. \A a \in Words : m2[a] = m[a] \/ (bp - WSIZE <= a /\ a <= hi - DWORD_SIZE)
      <4> SUFFICES ASSUME NEW a \in Words, m2[a] # m[a] PROVE bp - WSIZE <= a /\ a <= hi - DWORD_SIZE
        OBVIOUS
      <4>1. a = bp - WSIZE \/ a = bp + size - DWORD_SIZE
        BY <2>2
      <4> QED
        BY <1>2, <4>1 DEF WSIZE, DWORD_SIZE
    <3>2. Keeps(m, m2, {p \in B : p # bp /\ Size(m2, p) = Size(m, p)})
      BY <1>4, <1>9, <2>2, <2>3, <3>1
    <3>3. \A p \in Taken(m, B) : p \in {q \in B : q # bp /\ Size(m2, q) = Size(m, q)}
      BY <1>7, <2>7 DEF Taken
    <3> QED
      BY <3>2, <3>3 DEF Keeps
  <2> QED
    BY <1>3, <1>7, <2>6, <2>8, <2>9, <2>10, <2>11 DEF Good, m2
<1>11. CASE size - asize >= MIN_BLOCK_SIZE
  <2>1. /\ mid \in Payloads /\ mid \in Nat /\ bp + MIN_BLOCK_SIZE <= mid /\ mid + MIN_BLOCK_SIZE <= hi
        /\ size - asize \in Nat /\ (size - asize) % DWORD_SIZE = 0 /\ size - asize >= DWORD_SIZE
        /\ mid + (size - asize) = hi /\ mid > 0
    <3>1. /\ mid \in Nat /\ bp + MIN_BLOCK_SIZE <= mid /\ mid + MIN_BLOCK_SIZE <= hi
          /\ size - asize \in Nat /\ size - asize >= DWORD_SIZE /\ mid + (size - asize) = hi /\ mid > 0
      BY <1>2, <1>11 DEF MIN_BLOCK_SIZE, DWORD_SIZE
    <3>2. (size - asize) % DWORD_SIZE = 0 /\ mid % DWORD_SIZE = 0
      BY <1>2 DEF DWORD_SIZE
    <3>3. mid <= MAX_HEAP
      BY <1>2, <3>1, PayloadIs, MemLibAssumption DEF MIN_BLOCK_SIZE
    <3> QED
      BY <3>1, <3>2, <3>3, PayloadIs
  <2>2. /\ front \in Memory
        /\ \A a \in Words : front[a] = IF a = bp - WSIZE \/ a = mid - DWORD_SIZE
                                        THEN Tag(asize, 1) ELSE m[a]
    <3>1. bp + asize \in Payloads /\ bp > 0 /\ asize >= DWORD_SIZE /\ 1 \in {0, 1}
      BY <1>2, <2>1 DEF DWORD_SIZE, MIN_BLOCK_SIZE
    <3>2. /\ PutTags(m, bp, asize, 1) \in Memory
          /\ \A a \in Words : PutTags(m, bp, asize, 1)[a]
               = IF a = bp - WSIZE \/ a = bp + asize - DWORD_SIZE THEN Tag(asize, 1) ELSE m[a]
      BY <1>2, <1>3, <3>1, TagsPut
    <3>3. bp + asize - DWORD_SIZE = mid - DWORD_SIZE
      BY <1>2 DEF DWORD_SIZE
    <3> QED
      BY <3>2, <3>3 DEF front
  <2>3. next_payload(front, bp) = mid
    <3>1. bp - WSIZE \in Words
      BY <1>2, TagWords DEF DWORD_SIZE
    <3>2. front[bp - WSIZE] = Tag(asize, 1)
      BY <2>2, <3>1
    <3>3. Word(front, bp - WSIZE).size = asize
      BY <3>1, <3>2, TagSays
    <3> QED
      BY <3>3 DEF next_payload, header
  <2>4. m2 = PutTags(front, mid, size - asize, 0)
    BY <1>8, <1>11, <2>3
  <2> DEFINE rest == size - asize
  <2>5. /\ m2 \in Memory
        /\ \A a \in Words : m2[a] = IF a = mid - WSIZE \/ a = mid + rest - DWORD_SIZE THEN Tag(rest, 0)
                                    ELSE front[a]
    <3>1. rest \in Nat /\ rest % DWORD_SIZE = 0 /\ rest >= DWORD_SIZE /\ mid + rest \in Payloads
      BY <1>2, <2>1
    <3>2. m2 = PutTags(front, mid, rest, 0)
      BY <2>4
    <3> HIDE DEF rest, mid
    <3> QED
      BY <2>1, <2>2, <3>1, <3>2, TagsPut
  <2>6. \A a \in Words : m2[a] = IF a = bp - WSIZE \/ a = mid - DWORD_SIZE THEN Tag(mid - bp, 1)
                                 ELSE IF a = mid - WSIZE \/ a = hi - DWORD_SIZE THEN Tag(hi - mid, 0)
                                 ELSE m[a]
    <3>1. /\ mid - bp = asize /\ hi - mid = rest /\ mid + rest - DWORD_SIZE = hi - DWORD_SIZE
          /\ bp - WSIZE # mid - WSIZE /\ bp - WSIZE # hi - DWORD_SIZE
          /\ mid - DWORD_SIZE # mid - WSIZE /\ mid - DWORD_SIZE # hi - DWORD_SIZE
      BY <1>2, <2>1 DEF WSIZE, DWORD_SIZE, MIN_BLOCK_SIZE
    <3>2. \A a \in Words : front[a] = IF a = bp - WSIZE \/ a = mid - DWORD_SIZE THEN Tag(asize, 1) ELSE m[a]
      BY <2>2
    <3> HIDE DEF rest, mid, hi
    <3> QED
      BY <2>5, <3>1, <3>2
  <2>7. /\ Tiles(m2, brk, B \cup {mid}) /\ mid \notin B
        /\ Size(m2, bp) = mid - bp /\ Alloc(m2, bp) = 1
        /\ Size(m2, mid) = hi - mid /\ Alloc(m2, mid) = 0
        /\ \A p \in B : p # bp =>
              /\ m2[p - WSIZE] = m[p - WSIZE] /\ Size(m2, p) = Size(m, p)
              /\ Alloc(m2, p) = Alloc(m, p)
    <3>1. hi = bp + Size(m, bp)
      OBVIOUS
    <3>2. m2 \in Memory /\ mid \in Payloads
      BY <2>1, <2>5
    <3>3. bp + MIN_BLOCK_SIZE <= mid /\ mid + MIN_BLOCK_SIZE <= hi
      BY <2>1
    <3>4. Tiles(m, brk, B)
      BY <1>1
    <3>5. Halved(m, m2, bp, mid, hi)
      BY <2>6 DEF Halved
    <3> HIDE DEF hi, mid
    <3> QED
      BY <3>1, <3>2, <3>3, <3>4, <3>5, TwoBlocks
  <2> DEFINE C == B \cup {mid}
  <2>8. NoTwoFree(m2, C, NULL)
    <3> SUFFICES ASSUME NEW p \in C, p + Size(m2, p) \in C, Alloc(m2, p) # 1
                 PROVE  Alloc(m2, p + Size(m2, p)) = 1
      BY DEF NoTwoFree
    <3>1. CASE p = mid
      <4>1. p + Size(m2, p) = hi /\ hi # bp /\ hi # mid
        BY <1>2, <2>1, <2>7, <3>1 DEF DWORD_SIZE, MIN_BLOCK_SIZE
      <4>2. hi \in B /\ Alloc(m2, hi) = Alloc(m, hi)
        BY <2>7, <4>1
      <4>3. Alloc(m, hi) = 1
        <5>1. bp # NULL /\ hi # NULL
          BY <1>2, <1>4 DEF DWORD_SIZE, NULL
        <5> QED
          BY <1>1, <4>2, <5>1 DEF NoTwoFree
      <4> QED
        BY <4>1, <4>2, <4>3
    <3>2. CASE p # mid
      <4>1. p \in B /\ p # bp /\ Size(m2, p) = Size(m, p) /\ Alloc(m2, p) = Alloc(m, p)
        BY <2>7, <3>2
      <4>2. p + Size(m, p) # mid
        <5>1. mid \notin B /\ mid # brk
          BY <1>2, <1>3, <2>1, <2>7, PayloadIs DEF MIN_BLOCK_SIZE
        <5>2. p + Size(m, p) \in B \cup {brk}
          BY <1>1, <4>1 DEF Tiles
        <5> QED
          BY <5>1, <5>2
      <4>3. p + Size(m, p) \in B
        BY <4>1, <4>2
      <4>4. Alloc(m, p + Size(m, p)) = 1
        <5>1. p # NULL /\ p + Size(m, p) # NULL
          BY <1>4, <4>1, <4>3 DEF DWORD_SIZE, NULL
        <5> QED
          BY <1>1, <4>1, <4>3, <5>1 DEF NoTwoFree
      <4>5. CASE p + Size(m, p) = bp
        BY <2>7, <4>1, <4>5
      <4>6. CASE p + Size(m, p) # bp
        BY <2>7, <4>1, <4>3, <4>4, <4>6
      <4> QED
        BY <4>5, <4>6
    <3> QED
      BY <3>1, <3>2
  <2>9. Taken(m2, C) = Taken(m, B) \cup {bp}
    BY <2>7 DEF Taken
  <2>10. Keeps(m, m2, Taken(m, B))
    <3>1. \A a \in Words : m2[a] = m[a] \/ (bp - WSIZE <= a /\ a <= hi - DWORD_SIZE)
      <4> SUFFICES ASSUME NEW a \in Words, m2[a] # m[a] PROVE bp - WSIZE <= a /\ a <= hi - DWORD_SIZE
        OBVIOUS
      <4>1. a = bp - WSIZE \/ a = mid - DWORD_SIZE \/ a = mid - WSIZE \/ a = hi - DWORD_SIZE
        BY <2>6
      <4> QED
        BY <1>2, <2>1, <4>1 DEF WSIZE, DWORD_SIZE, MIN_BLOCK_SIZE
    <3>2. Keeps(m, m2, {p \in B : p # bp /\ Size(m2, p) = Size(m, p)})
      BY <1>2, <1>4, <1>9, <2>1, <2>5, <3>1 DEF DWORD_SIZE, MIN_BLOCK_SIZE
    <3>3. \A p \in Taken(m, B) : p \in {q \in B : q # bp /\ Size(m2, q) = Size(m, q)}
      BY <1>7, <2>7 DEF Taken
    <3> QED
      BY <3>2, <3>3 DEF Keeps
  <2>11. Size(m2, bp) = asize
    BY <1>2, <2>1, <2>7
  <2>12. C \in SUBSET Payloads
    BY <1>3, <2>1
  <2> HIDE DEF C
  <2>13. Good(m2, brk, C) /\ bp \in C /\ Size(m2, bp) >= asize
    BY <2>7, <2>8, <2>11 DEF Good, C
  <2> QED
    BY <1>7, <2>9, <2>10, <2>12, <2>13 DEF m2
<1> QED
  BY <1>2, <1>10, <1>11 DEF MIN_BLOCK_SIZE
-----------------------------------------------------------------------------
(* The heap grows.                                                         *)

\* A request gets room for two tags, in double words.
LEMMA AdjustedSizeFacts ==
  ASSUME NEW size \in Nat
  PROVE  LET asize == AdjustedSize(size) IN
         /\ asize \in Nat /\ asize % DWORD_SIZE = 0 /\ asize >= MIN_BLOCK_SIZE
         /\ size + DWORD_SIZE <= asize
<1>1. CASE size <= DWORD_SIZE
  BY <1>1 DEF AdjustedSize, DWORD_SIZE, MIN_BLOCK_SIZE
<1>2. CASE size > DWORD_SIZE
  <2> DEFINE k == (size + 31) \div 16
  <2>1. k \in Nat /\ 16 * k <= size + 31 /\ size + 31 < 16 * k + 16
    OBVIOUS
  <2>2. AdjustedSize(size) = 16 * k
    BY <1>2 DEF AdjustedSize, DWORD_SIZE
  <2> HIDE DEF k
  <2>3. (16 * k) % 16 = 0
    BY <2>1
  <2> QED
    BY <1>2, <2>1, <2>2, <2>3 DEF DWORD_SIZE, MIN_BLOCK_SIZE
<1> QED
  BY <1>1, <1>2 DEF DWORD_SIZE

\* What fits into the upper half of an int comes through as it is.
LEMMA IntIs ==
  ASSUME NEW size \in Nat, size < INT_SPAN \div 2
  PROVE  AsInt(size) = size
<1>1. INT_SPAN \in Nat \ {0} /\ size < INT_SPAN
  BY MemLibAssumption
<1>2. size % INT_SPAN = size
  BY <1>1
<1> QED
  BY <1>1, <1>2 DEF AsInt

\* The heap grows by one chunk, or by the block that was asked for.
LEMMA ExtendSizeFacts ==
  ASSUME NEW size \in Requests
  PROVE  LET n == ExtendSize(AdjustedSize(size)) IN
         /\ n \in Nat /\ n % DWORD_SIZE = 0 /\ n >= AdjustedSize(size) /\ n < INT_SPAN \div 2
<1> DEFINE asize == AdjustedSize(size)
<1>1. asize \in Nat /\ asize % DWORD_SIZE = 0
  BY ImplicitListAssumption, AdjustedSizeFacts
<1>2. asize < INT_SPAN \div 2 /\ CHUNKSIZE < INT_SPAN \div 2
  BY GrowthAssumption
<1>3. CHUNKSIZE \in Nat /\ CHUNKSIZE % DWORD_SIZE = 0
  BY ImplicitListAssumption
<1> HIDE DEF asize
<1>4. AsInt(asize) = asize
  BY <1>1, <1>2, IntIs
<1>5. ExtendSize(asize) = IF asize > CHUNKSIZE THEN asize ELSE CHUNKSIZE
  BY <1>4 DEF ExtendSize
<1> QED
  BY <1>1, <1>2, <1>3, <1>5 DEF asize

\* mem_sbrk moves the break by what fits.
LEMMA SbrkGives ==
  ASSUME NEW brk \in Nat, NEW size \in Nat, size < INT_SPAN \div 2
  PROVE  LET area == mem_sbrk(brk, size) IN
         /\ area.ok <=> brk + size <= MAX_HEAP
         /\ area.ok => area.brk = brk + size
<1>1. INT_SPAN \in Nat \ {0} /\ MAX_HEAP \in Nat
  BY MemLibAssumption
<1>2. AsInt(size) = size
  BY IntIs
<1>3. /\ mem_sbrk(brk, size).ok <=> ~(size < 0 \/ brk + size > MAX_HEAP)
      /\ mem_sbrk(brk, size).ok => mem_sbrk(brk, size).brk = brk + size
  BY <1>2 DEF mem_sbrk
<1> QED
  BY <1>1, <1>3

\* The memory extend_heap hands to coalesce.
Extended(m, brk, size) == WithEpilogue(PutTags(m, brk, size, 0), brk)

\* A free block behind the last one, and an epilogue.
LEMMA ExtendWrites ==
  ASSUME NEW m \in Memory, NEW brk \in Payloads, brk > DWORD_SIZE, NEW size \in Nat,
         size % DWORD_SIZE = 0, size >= MIN_BLOCK_SIZE, brk + size <= MAX_HEAP
  PROVE  /\ Extended(m, brk, size) \in Memory /\ brk + size \in Payloads
         /\ Grown(m, Extended(m, brk, size), brk, brk + size)
<1> DEFINE top == brk + size
           m1  == PutTags(m, brk, size, 0)
           m2  == Extended(m, brk, size)
<1>1. brk \in Nat /\ brk % DWORD_SIZE = 0
  BY PayloadIs
<1>2. /\ top \in Payloads /\ top \in Nat /\ top <= MAX_HEAP /\ brk + MIN_BLOCK_SIZE <= top
  <2>1. top \in Nat /\ brk + MIN_BLOCK_SIZE <= top
    BY <1>1 DEF MIN_BLOCK_SIZE
  <2>2. top % DWORD_SIZE = 0
    BY <1>1 DEF DWORD_SIZE
  <2> QED
    BY <2>1, <2>2, PayloadIs
<1>3. /\ m1 \in Memory
      /\ \A a \in Words : m1[a] = IF a = brk - WSIZE \/ a = top - DWORD_SIZE THEN Tag(size, 0) ELSE m[a]
  <2>1. brk > 0 /\ size >= DWORD_SIZE /\ brk + size \in Payloads /\ 0 \in {0, 1}
    BY <1>1, <1>2 DEF DWORD_SIZE, MIN_BLOCK_SIZE
  <2>2. /\ PutTags(m, brk, size, 0) \in Memory
        /\ \A a \in Words : PutTags(m, brk, size, 0)[a]
             = IF a = brk - WSIZE \/ a = brk + size - DWORD_SIZE THEN Tag(size, 0) ELSE m[a]
    BY <2>1, TagsPut
  <2>3. brk + size - DWORD_SIZE = top - DWORD_SIZE
    BY <1>1 DEF DWORD_SIZE
  <2> QED
    BY <2>2, <2>3
<1>4. next_payload(m1, brk) = top
  <2>1. brk - WSIZE \in Words
    BY <1>1, TagWords DEF DWORD_SIZE
  <2>2. m1[brk - WSIZE] = Tag(size, 0)
    BY <1>3, <2>1
  <2>3. Word(m1, brk - WSIZE).size = size
    BY <2>1, <2>2, TagSays
  <2> QED
    BY <2>3 DEF next_payload, header
<1>5. m2 = Put(m1, top - WSIZE, Tag(0, 1))
  BY <1>4 DEF Extended, WithEpilogue, header
<1>6. Tag(0, 1) \in TagSet
  BY DEF Tag, TagSet
<1> HIDE DEF m1, m2
<1>7. m2 \in Memory /\ \A a \in Words : m2[a] = IF a = top - WSIZE THEN Tag(0, 1) ELSE m1[a]
  BY <1>3, <1>5, <1>6, WordPut
<1>8. top - brk = size /\ top - WSIZE # brk - WSIZE /\ top - WSIZE # top - DWORD_SIZE
  BY <1>1, <1>2 DEF WSIZE, DWORD_SIZE, MIN_BLOCK_SIZE
<1> HIDE DEF top
<1>9. Grown(m, m2, brk, top)
  BY <1>3, <1>7, <1>8 DEF Grown
<1> QED
  BY <1>2, <1>7, <1>9 DEF m2, top

\* What extend_heap makes of a heap: it is as it was, or coalesce was misled,
\* or it has a new free block of size bytes.
Grows(m, brk, B, h, size) ==
  \/ h.bp = NULL /\ h.mem = m /\ h.brk = brk /\ h.lost = FALSE /\ brk + size > MAX_HEAP
  \/ h.lost = TRUE /\ Misled(Extended(m, brk, size), brk)
  \/ /\ h.lost = FALSE
     /\ \E C \in SUBSET Payloads :
          /\ Good(h.mem, h.brk, C) /\ Taken(h.mem, C) = Taken(m, B)
          /\ Keeps(m, h.mem, Taken(m, B))
          /\ h.bp \in C \ {DWORD_SIZE} /\ Alloc(h.mem, h.bp) = 0 /\ Size(h.mem, h.bp) >= size

\* A new free block joins the heap, or nothing happens.
LEMMA ExtendGives ==
  ASSUME NEW m, NEW brk, NEW B, Good(m, brk, B), NEW size \in Nat, size % DWORD_SIZE = 0,
         size >= MIN_BLOCK_SIZE, size < INT_SPAN \div 2
  PROVE  Grows(m, brk, B, extend_heap(m, brk, size \div WSIZE), size)
<1> DEFINE h    == extend_heap(m, brk, size \div WSIZE)
           area == mem_sbrk(brk, size)
           top  == brk + size
           m2   == Extended(m, brk, size)
           C    == B \cup {brk}
<1>1. Tiles(m, brk, B) /\ NoTwoFree(m, B, NULL)
  BY DEF Good
<1>2. /\ m \in Memory /\ brk \in Payloads /\ brk \in Nat /\ brk % DWORD_SIZE = 0
      /\ B \subseteq Payloads /\ DWORD_SIZE \in B
  BY <1>1, PayloadIs DEF Tiles
<1>3. brk > DWORD_SIZE
  BY <1>1, <1>2, BlockFacts DEF DWORD_SIZE
<1>4. (size \div WSIZE) % 2 = 0 /\ (size \div WSIZE) * WSIZE = size
  BY DEF WSIZE, DWORD_SIZE
<1>5. h = IF area.ok THEN Coalesced(m2, area.brk, brk) ELSE Heap(m, brk, FALSE, NULL)
  <2> DEFINE words == size \div WSIZE
             n     == IF words % 2 = 1 THEN (words + 1) * WSIZE ELSE words * WSIZE
  <2>1. n = size
    BY <1>4
  <2>2. h = IF mem_sbrk(brk, n).ok
            THEN Coalesced(Extended(m, brk, n), mem_sbrk(brk, n).brk, brk) ELSE Heap(m, brk, FALSE, NULL)
    BY DEF extend_heap, Extended
  <2> HIDE DEF n, h
  <2> QED
    BY <2>1, <2>2
<1>6. (area.ok <=> top <= MAX_HEAP) /\ (area.ok => area.brk = top)
  BY <1>2, SbrkGives
<1> HIDE DEF h, area
<1>7. CASE ~area.ok
  <2>1. top > MAX_HEAP
    BY <1>2, <1>6, <1>7, MemLibAssumption
  <2>2. h.bp = NULL /\ h.mem = m /\ h.brk = brk /\ h.lost = FALSE
    BY <1>5, <1>7 DEF Heap
  <2> QED
    BY <2>1, <2>2 DEF h, Grows
<1>8. CASE area.ok
  <2>1. h = Heap(coalesce(m2, brk), top, Misled(m2, brk), Merged(m2, brk))
    BY <1>5, <1>6, <1>8 DEF Coalesced
  <2>2. h.lost \in BOOLEAN /\ (h.lost <=> Misled(m2, brk))
    <3>1. h.lost = Misled(m2, brk)
      BY <2>1 DEF Heap
    <3>2. Misled(m2, brk) \in BOOLEAN
      BY DEF Misled
    <3> HIDE DEF m2
    <3> QED
      BY <3>1, <3>2
  <2>3. CASE Misled(m2, brk)
    <3>1. h.lost = TRUE
      BY <2>2, <2>3
    <3> QED
      BY <2>3, <3>1 DEF h, Grows
  <2>4. CASE ~Misled(m2, brk)
    <3>1. h.lost = FALSE
      BY <2>2, <2>4
    <3>2. top <= MAX_HEAP /\ top \in Nat
      BY <1>2, <1>6, <1>8
    <3>3. m2 \in Memory /\ top \in Payloads /\ Grown(m, m2, brk, top)
      BY <1>2, <1>3, <3>2, ExtendWrites
    <3>4. /\ Tiles(m2, top, C) /\ brk \notin B /\ brk # DWORD_SIZE
          /\ Size(m2, brk) = top - brk /\ Alloc(m2, brk) = 0
          /\ \A p \in B : /\ m2[p - WSIZE] = m[p - WSIZE] /\ Size(m2, p) = Size(m, p)
                          /\ Alloc(m2, p) = Alloc(m, p)
      <4>1. Tiles(m, brk, B) /\ brk + MIN_BLOCK_SIZE <= top
        BY <1>1, <1>2 DEF MIN_BLOCK_SIZE
      <4> HIDE DEF m2, top, C
      <4>2. Tiles(m2, top, B \cup {brk})
        BY <3>3, <4>1, MoreHeap
      <4> QED
        BY <3>3, <4>1, <4>2, MoreHeap DEF C
    <3>5. NoTwoFree(m2, C, brk)
      <4> SUFFICES ASSUME NEW p \in C, p + Size(m2, p) \in C, p # brk, p + Size(m2, p) # brk
                   PROVE  Alloc(m2, p) = 1 \/ Alloc(m2, p + Size(m2, p)) = 1
        BY DEF NoTwoFree
      <4> HIDE DEF m2, top
      <4>1. p \in B /\ Size(m2, p) = Size(m, p) /\ p + Size(m, p) \in B
        BY <3>4
      <4>2. p # NULL /\ p + Size(m, p) # NULL
        BY <1>1, <4>1 DEF Tiles, DWORD_SIZE, NULL
      <4>3. Alloc(m, p) = 1 \/ Alloc(m, p + Size(m, p)) = 1
        BY <1>1, <4>1, <4>2 DEF NoTwoFree
      <4> QED
        BY <3>4, <4>1, <4>3
    <3>6. Taken(m2, C) = Taken(m, B)
      <4> HIDE DEF m2
      <4> QED
        BY <3>4 DEF Taken
    <3>7. Keeps(m, m2, Taken(m, B))
      <4> SUFFICES ASSUME NEW p \in B
                   PROVE  \A a \in Words : p <= a /\ a < p + Size(m, p) - DWORD_SIZE => m2[a] = m[a]
        BY <3>4 DEF Keeps, Taken
      <4> TAKE a \in Words
      <4> HAVE p <= a /\ a < p + Size(m, p) - DWORD_SIZE
      <4>1. p + Size(m, p) <= brk /\ p \in Nat /\ Size(m, p) \in Nat /\ a \in Nat
        BY <1>1, BlockFacts, WordIs
      <4>2. a # brk - WSIZE /\ a # top - DWORD_SIZE /\ a # top - WSIZE
        BY <1>2, <4>1 DEF WSIZE, DWORD_SIZE, MIN_BLOCK_SIZE
      <4> QED
        BY <3>3, <4>2 DEF Grown
    <3> HIDE DEF m2, C, top
    <3>8. brk \in C
      BY DEF C
    <3> DEFINE c  == coalesce(m2, brk)
               at == Merged(m2, brk)
    <3>9. PICK D \in SUBSET Payloads :
            /\ Good(c, top, D) /\ Taken(c, D) = Taken(m2, C)
            /\ Keeps(m2, c, Taken(m2, C))
            /\ at \in D \ {DWORD_SIZE} /\ Alloc(c, at) = 0 /\ Size(c, at) >= Size(m2, brk)
      BY <2>4, <3>4, <3>5, <3>8, CoalesceGives
    <3>10. h.mem = c /\ h.bp = at /\ h.brk = top
      BY <2>1 DEF Heap
    <3> HIDE DEF c, at
    <3>11. Keeps(m, c, Taken(m, B))
      BY <3>6, <3>7, <3>9, KeepsTwice
    <3>12. Size(m2, brk) = size
      BY <1>2, <3>4 DEF top
    <3>13. /\ Good(h.mem, h.brk, D) /\ Taken(h.mem, D) = Taken(m, B)
           /\ Keeps(m, h.mem, Taken(m, B))
           /\ h.bp \in D \ {DWORD_SIZE} /\ Alloc(h.mem, h.bp) = 0 /\ Size(h.mem, h.bp) >= size
      BY <3>6, <3>9, <3>10, <3>11, <3>12
    <3> QED
      BY <3>1, <3>13 DEF h, Grows
  <2> QED
    BY <2>3, <2>4
<1> QED
  BY <1>7, <1>8

\* mm_init makes a heap of one free block, and the prologue leads coalesce
\* where it should.
LEMMA FreshHeapGives ==
  \E B \in SUBSET Payloads :
    /\ Good(FreshHeap.mem, FreshHeap.brk, B) /\ Taken(FreshHeap.mem, B) = {}
    /\ FreshHeap.brk > 0 /\ FreshHeap.bp # NULL /\ FreshHeap.lost = FALSE
<1> DEFINE zero  == [a \in Words |-> Zero]
           tags  == [zero EXCEPT ![WSIZE] = Tag(DWORD_SIZE, 1), ![2 * WSIZE] = Tag(DWORD_SIZE, 1),
                                 ![3 * WSIZE] = Tag(0, 1)]
           h     == extend_heap(tags, 32, CHUNKSIZE \div WSIZE)
           B     == {DWORD_SIZE}
<1>1. /\ CHUNKSIZE \in Nat /\ CHUNKSIZE >= MIN_BLOCK_SIZE /\ CHUNKSIZE % DWORD_SIZE = 0
      /\ 32 + CHUNKSIZE <= MAX_HEAP /\ CHUNKSIZE < INT_SPAN \div 2 /\ 32 < INT_SPAN \div 2
      /\ MAX_HEAP \in Nat /\ MAX_HEAP % DWORD_SIZE = 0
  BY ImplicitListAssumption, GrowthAssumption, MemLibAssumption DEF WSIZE, DWORD_SIZE, MIN_BLOCK_SIZE
<1>2. FreshHeap = h
  <2>1. mem_sbrk(0, 4 * WSIZE).ok /\ mem_sbrk(0, 4 * WSIZE).brk = 32
    <3>1. 4 * WSIZE = 32 /\ 32 \in Nat /\ 0 \in Nat /\ 0 + 32 <= MAX_HEAP /\ 0 + 32 = 32
      BY <1>1 DEF WSIZE, MIN_BLOCK_SIZE
    <3> QED
      BY <1>1, <3>1, SbrkGives
  <2> QED
    BY <2>1 DEF FreshHeap
<1>3. /\ 8 \in Words /\ 16 \in Words /\ 24 \in Words /\ 16 \in Payloads /\ 32 \in Payloads
  BY <1>1, WordIs, PayloadIs DEF WSIZE, DWORD_SIZE, MIN_BLOCK_SIZE
<1>4. tags \in Memory /\ tags[8] = Tag(16, 1) /\ tags[16] = Tag(16, 1) /\ tags[24] = Tag(0, 1)
  <2>1. tags = [zero EXCEPT ![8] = Tag(16, 1), ![16] = Tag(16, 1), ![24] = Tag(0, 1)]
    BY DEF WSIZE, DWORD_SIZE
  <2>2. zero \in Memory /\ Tag(16, 1) \in TagSet /\ Tag(0, 1) \in TagSet
    BY DEF Memory, TagSet, Tag, Zero
  <2> HIDE DEF zero, tags
  <2>3. zero \in [Words -> TagSet]
    BY <2>2 DEF Memory, TagSet
  <2>4. tags \in [Words -> TagSet]
    BY <2>1, <2>2, <2>3
  <2>5. tags[8] = Tag(16, 1) /\ tags[16] = Tag(16, 1) /\ tags[24] = Tag(0, 1)
    BY <1>3, <2>1, <2>3
  <2> QED
    BY <2>4, <2>5 DEF Memory, TagSet
<1> HIDE DEF tags
<1>5. Size(tags, 16) = 16 /\ Alloc(tags, 16) = 1
  <2>1. tags[16 - 8] = Tag(16, 1) /\ 16 - 8 \in Words
    BY <1>3, <1>4
  <2> QED
    BY <2>1, TagSays DEF Size, Alloc, header, WSIZE
<1>6. Tagged(tags, 16)
  <2>1. footer(tags, 16) = 16
    BY <1>5 DEF footer, Size, DWORD_SIZE
  <2> QED
    BY <1>4, <1>5, <2>1 DEF Tagged, header, WSIZE
<1>7. Tiles(tags, 32, B)
  <2>1. /\ tags \in Memory /\ 32 \in Payloads /\ B \subseteq Payloads
        /\ DWORD_SIZE \in B /\ tags[WSIZE] = Tag(DWORD_SIZE, 1) /\ tags[32 - WSIZE] = Tag(0, 1)
    BY <1>3, <1>4 DEF WSIZE, DWORD_SIZE
  <2>2. \A p \in B : /\ Tagged(tags, p) /\ p >= DWORD_SIZE /\ Size(tags, p) >= DWORD_SIZE
                     /\ p # DWORD_SIZE => p >= MIN_BLOCK_SIZE /\ Size(tags, p) >= MIN_BLOCK_SIZE
                     /\ p + Size(tags, p) \in B \cup {32} /\ p + Size(tags, p) <= 32
    BY <1>5, <1>6 DEF DWORD_SIZE
  <2>3. \A p, q \in B : p < q => p + Size(tags, p) <= q
    BY DEF DWORD_SIZE
  <2>4. \A q \in B \cup {32} : q = DWORD_SIZE \/ \E p \in B : p + Size(tags, p) = q
    BY <1>5 DEF DWORD_SIZE
  <2> QED
    BY <2>1, <2>2, <2>3, <2>4 DEF Tiles
<1>8. NoTwoFree(tags, B, NULL)
  BY <1>5 DEF NoTwoFree, DWORD_SIZE
<1>9. Taken(tags, B) = {}
  BY DEF Taken
<1>10. Good(tags, 32, B)
  BY <1>7, <1>8 DEF Good
<1>11. ~Misled(Extended(tags, 32, CHUNKSIZE), 32)
  <2> DEFINE m2 == Extended(tags, 32, CHUNKSIZE)
  <2>1. Grown(tags, m2, 32, 32 + CHUNKSIZE)
    <3>1. 32 > DWORD_SIZE /\ 32 + CHUNKSIZE <= MAX_HEAP
      BY <1>1 DEF DWORD_SIZE
    <3> QED
      BY <1>1, <1>3, <1>4, <3>1, ExtendWrites
  <2> HIDE DEF m2
  <2>2. m2[8] = Tag(16, 1)
    BY <1>1, <1>3, <1>4, <2>1 DEF Grown, WSIZE, DWORD_SIZE, MIN_BLOCK_SIZE
  <2>3. Word(m2, 8).size = 16
    BY <1>3, <2>2, TagSays
  <2>4. prev_payload(m2, 32) = 16 /\ next_payload(m2, 16) = 32
    BY <2>3 DEF prev_payload, next_payload, header, WSIZE, DWORD_SIZE
  <2>5. 0 \in DOMAIN Walk(m2) /\ Walk(m2)[0] = 16
    BY WalkIs, MemLibAssumption DEF Steps, DWORD_SIZE, MIN_BLOCK_SIZE
  <2> QED
    BY <2>4, <2>5 DEF Misled, m2
<1> HIDE DEF B
<1>12. Grows(tags, 32, B, h, CHUNKSIZE)
  BY <1>1, <1>10, ExtendGives
<1> HIDE DEF h
<1>13. PICK C \in SUBSET Payloads :
         /\ Good(h.mem, h.brk, C) /\ Taken(h.mem, C) = Taken(tags, B)
         /\ h.bp \in C \ {DWORD_SIZE} /\ h.lost = FALSE
  <2>1. ~(32 + CHUNKSIZE > MAX_HEAP)
    BY <1>1
  <2> QED
    BY <1>11, <1>12, <2>1 DEF Grows
<1>14. h.bp # NULL /\ h.brk > 0
  <2>1. DWORD_SIZE \in C /\ h.bp >= DWORD_SIZE /\ Tiles(h.mem, h.brk, C)
    BY <1>13 DEF Good, Tiles
  <2>2. h.brk \in Nat
    BY <2>1, PayloadIs DEF Tiles
  <2>3. DWORD_SIZE + Size(h.mem, DWORD_SIZE) <= h.brk /\ Size(h.mem, DWORD_SIZE) \in Nat
    BY <2>1, BlockFacts
  <2> QED
    BY <2>1, <2>2, <2>3 DEF DWORD_SIZE, NULL
<1> QED
  BY <1>2, <1>9, <1>13, <1>14
-----------------------------------------------------------------------------
(* A request.                                                              *)

\* The heap m of blocks B with one more block taken, of room for size bytes,
\* or the same heap, or coalesce was misled.
Obtained(m, brk, B, r, size) ==
  \/ r.lost = TRUE
  \/ r.lost = FALSE /\ r.bp = NULL /\ r.mem = m /\ r.brk = brk
  \/ /\ r.lost = FALSE /\ r.bp # NULL
     /\ \E C \in SUBSET Payloads :
          /\ Good(r.mem, r.brk, C) /\ Taken(r.mem, C) = Taken(m, B) \cup {r.bp}
          /\ r.bp \notin Taken(m, B) /\ Keeps(m, r.mem, Taken(m, B))
          /\ r.bp \in C /\ Size(r.mem, r.bp) >= size + DWORD_SIZE

\* The heap has a positive break, and its blocks lie above the prologue.
LEMMA GoodFacts ==
  ASSUME NEW m, NEW brk, NEW B, Good(m, brk, B)
  PROVE  /\ m \in Memory /\ brk \in Payloads /\ brk \in Nat /\ brk > 0 /\ B \subseteq Payloads
         /\ DWORD_SIZE \in B /\ \A p \in B : p >= DWORD_SIZE /\ p # NULL
<1>1. Tiles(m, brk, B)
  BY DEF Good
<1>2. /\ m \in Memory /\ brk \in Payloads /\ brk \in Nat /\ B \subseteq Payloads /\ DWORD_SIZE \in B
      /\ \A p \in B : p >= DWORD_SIZE
  BY <1>1, PayloadIs DEF Tiles
<1>3. brk > 0
  <2>1. DWORD_SIZE + Size(m, DWORD_SIZE) <= brk /\ Size(m, DWORD_SIZE) \in Nat
    BY <1>1, <1>2, BlockFacts
  <2> QED
    BY <1>2, <2>1 DEF DWORD_SIZE
<1>4. \A p \in B : p # NULL
  BY <1>2 DEF DWORD_SIZE, NULL
<1> QED
  BY <1>2, <1>3, <1>4

\* A request is served by the first block that fits, or by a larger heap.
LEMMA ObtainIs ==
  ASSUME NEW m, NEW brk, NEW lost, NEW x, NEW size
  PROVE  LET asize == AdjustedSize(size)  fit == find_fit(m, asize) IN
         Obtain(Heap(m, brk, lost, x), size)
           = PlaceIn(IF fit # NULL THEN Heap(m, brk, lost, fit)
                     ELSE extend_heap(m, brk, ExtendSize(asize) \div WSIZE), asize)
<1> DEFINE h == Heap(m, brk, lost, x)  fit == find_fit(m, AdjustedSize(size))
<1>1. h.mem = m /\ h.brk = brk
  BY DEF Heap
<1>2. \A y : [h EXCEPT !.bp = y] = Heap(m, brk, lost, y)
  BY DEF Heap
<1> HIDE DEF h
<1>3. fit = find_fit(h.mem, AdjustedSize(size))
  BY <1>1
<1> HIDE DEF fit
<1>4. Obtain(h, size) = PlaceIn(IF fit # NULL THEN [h EXCEPT !.bp = fit]
                         ELSE extend_heap(h.mem, h.brk, ExtendSize(AdjustedSize(size)) \div WSIZE),
                         AdjustedSize(size))
  BY <1>3 DEF Obtain
<1>5. Obtain(h, size) = PlaceIn(IF fit # NULL THEN Heap(m, brk, lost, fit)
                         ELSE extend_heap(m, brk, ExtendSize(AdjustedSize(size)) \div WSIZE),
                         AdjustedSize(size))
  BY <1>1, <1>2, <1>4
<1> QED
  BY <1>5 DEF h, fit

\* The search and the split, in the heap as it is or after it has grown.
LEMMA ObtainGives ==
  ASSUME NEW m, NEW brk, NEW B, Good(m, brk, B), NEW x, NEW size \in Requests
  PROVE  Obtained(m, brk, B, Obtain(Heap(m, brk, FALSE, x), size), size)
<1> DEFINE r     == Obtain(Heap(m, brk, FALSE, x), size)
           asize == AdjustedSize(size)
           fit   == find_fit(m, asize)
           e     == extend_heap(m, brk, ExtendSize(asize) \div WSIZE)
<1>1. size \in Nat
  BY ImplicitListAssumption
<1>2. /\ asize \in Nat /\ asize % DWORD_SIZE = 0 /\ asize >= MIN_BLOCK_SIZE /\ size + DWORD_SIZE <= asize
  BY <1>1, AdjustedSizeFacts
<1>3. Tiles(m, brk, B)
  BY DEF Good
<1>4. \/ fit = NULL
      \/ fit \in B \ {DWORD_SIZE} /\ fit # NULL /\ Alloc(m, fit) = 0 /\ asize <= Size(m, fit)
  BY <1>2, <1>3, FitFound
<1>5. r = PlaceIn(IF fit # NULL THEN Heap(m, brk, FALSE, fit) ELSE e, asize)
  BY ObtainIs
\* Placing in a free block that is large enough.
<1>6. ASSUME NEW w, NEW lim, NEW D, Good(w, lim, D), NEW bp \in D, bp # DWORD_SIZE, Alloc(w, bp) = 0,
             asize <= Size(w, bp), Taken(w, D) = Taken(m, B), Keeps(m, w, Taken(m, B)),
             r = PlaceIn(Heap(w, lim, FALSE, bp), asize)
      PROVE  Obtained(m, brk, B, r, size)
  <2> HIDE DEF r, asize
  <2>1. bp # NULL
    BY <1>6, GoodFacts
  <2>2. r.mem = place(w, bp, asize) /\ r.brk = lim /\ r.bp = bp /\ r.lost = FALSE
    BY <1>6, <2>1 DEF PlaceIn, Heap
  <2> DEFINE w2 == place(w, bp, asize)
  <2>3. PICK C \in SUBSET Payloads :
          /\ Good(w2, lim, C) /\ Taken(w2, C) = Taken(w, D) \cup {bp} /\ bp \notin Taken(w, D)
          /\ Keeps(w, w2, Taken(w, D)) /\ bp \in C /\ Size(w2, bp) >= asize
    BY <1>2, <1>6, PlaceGives
  <2> HIDE DEF w2
  <2>4. Keeps(m, w2, Taken(m, B))
    BY <1>6, <2>3, KeepsTwice
  <2>5. Size(w2, bp) \in Nat
    <3>1. Tiles(w2, lim, C)
      BY <2>3 DEF Good
    <3> QED
      BY <2>3, <3>1, BlockFacts
  <2>6. Size(w2, bp) >= size + DWORD_SIZE
    BY <1>1, <1>2, <2>3, <2>5 DEF DWORD_SIZE
  <2>7. /\ Good(r.mem, r.brk, C) /\ Taken(r.mem, C) = Taken(m, B) \cup {r.bp}
        /\ r.bp \notin Taken(m, B) /\ Keeps(m, r.mem, Taken(m, B))
        /\ r.bp \in C /\ Size(r.mem, r.bp) >= size + DWORD_SIZE
    BY <1>6, <2>2, <2>3, <2>4, <2>6 DEF w2
  <2> QED
    BY <2>1, <2>2, <2>7 DEF Obtained
<1> HIDE DEF r, fit
<1>7. CASE fit # NULL
  <2>1. Keeps(m, m, Taken(m, B))
    BY DEF Keeps
  <2>2. r = PlaceIn(Heap(m, brk, FALSE, fit), asize)
    BY <1>5, <1>7
  <2>3. fit \in B /\ fit # DWORD_SIZE /\ Alloc(m, fit) = 0 /\ asize <= Size(m, fit)
    BY <1>4, <1>7
  <2> HIDE DEF asize
  <2>4. Obtained(m, brk, B, r, size)
    BY <1>6, <2>1, <2>2, <2>3
  <2> QED
    BY <2>4 DEF r
<1>8. CASE fit = NULL
  <2> DEFINE n == ExtendSize(asize)
  <2>1. n \in Nat /\ n % DWORD_SIZE = 0 /\ n >= asize /\ n < INT_SPAN \div 2
    BY ExtendSizeFacts
  <2>2. r = PlaceIn(e, asize)
    BY <1>5, <1>8
  <2>3. \E k, b, l, p : e = Heap(k, b, l, p)
    BY DEF e, extend_heap, Coalesced
  <2> HIDE DEF n, asize
  <2>4. n >= MIN_BLOCK_SIZE
    BY <1>2, <2>1 DEF MIN_BLOCK_SIZE
  <2>5. e = extend_heap(m, brk, n \div WSIZE)
    BY DEF n, e
  <2> HIDE DEF e
  <2>6. Grows(m, brk, B, e, n)
    BY <2>1, <2>4, <2>5, ExtendGives
  <2>7. e = Heap(e.mem, e.brk, e.lost, e.bp)
    BY <2>3 DEF Heap
  <2>8. CASE e.lost = TRUE
    <3>1. r.lost = TRUE
      BY <2>2, <2>7, <2>8 DEF PlaceIn, Heap
    <3> QED
      BY <3>1 DEF Obtained, r
  <2>9. CASE e.bp = NULL /\ e.mem = m /\ e.brk = brk /\ e.lost = FALSE
    <3>1. r = e
      BY <2>2, <2>9 DEF PlaceIn
    <3>2. Obtained(m, brk, B, r, size)
      BY <2>9, <3>1 DEF Obtained
    <3> QED
      BY <3>2 DEF r
  <2>10. ASSUME NEW C \in SUBSET Payloads, e.lost = FALSE,
                Good(e.mem, e.brk, C), Taken(e.mem, C) = Taken(m, B),
                Keeps(m, e.mem, Taken(m, B)),
                e.bp \in C \ {DWORD_SIZE}, Alloc(e.mem, e.bp) = 0, Size(e.mem, e.bp) >= n
         PROVE  Obtained(m, brk, B, Obtain(Heap(m, brk, FALSE, x), size), size)
    <3>1. r = PlaceIn(Heap(e.mem, e.brk, FALSE, e.bp), asize)
      BY <2>2, <2>7, <2>10
    <3>2. Size(e.mem, e.bp) \in Nat
      <4>1. Tiles(e.mem, e.brk, C)
        BY <2>10 DEF Good
      <4> QED
        BY <2>10, <4>1, BlockFacts
    <3>3. asize <= Size(e.mem, e.bp)
      BY <1>2, <2>1, <2>10, <3>2
    <3>4. e.bp \in C /\ e.bp # DWORD_SIZE
      BY <2>10
    <3> DEFINE u == e.mem  l == e.brk  b == e.bp
    <3>5. /\ Good(u, l, C) /\ b \in C /\ b # DWORD_SIZE /\ Alloc(u, b) = 0 /\ asize <= Size(u, b)
          /\ Taken(u, C) = Taken(m, B) /\ Keeps(m, u, Taken(m, B))
          /\ r = PlaceIn(Heap(u, l, FALSE, b), asize)
      BY <2>10, <3>1, <3>3, <3>4
    <3> HIDE DEF u, l, b
    <3>6. Obtained(m, brk, B, r, size)
      BY <1>6, <3>5
    <3> QED
      BY <3>6 DEF r
  <2> QED
    BY <2>6, <2>8, <2>9, <2>10 DEF Grows
<1> QED
  BY <1>7, <1>8
-----------------------------------------------------------------------------
(* The calls.                                                              *)

\* The heap and what the program holds after a call.
LEMMA HeapLeft ==
  ASSUME NEW C \in SUBSET Payloads, Good(mem', mem_brk', C), Owns(live', mem', C),
         Typed(live'), heap_listp' = DWORD_SIZE, misread' = FALSE
  PROVE  HeapInv'
<1>1. mem' \in Memory /\ mem_brk' \in Nat /\ mem_brk' > 0
  BY GoodFacts
<1>2. /\ mem' \in Memory /\ mem_brk' \in Nat /\ heap_listp' \in {NULL, DWORD_SIZE} /\ Typed(live')
      /\ heap_listp' # NULL /\ mem_brk' # 0
      /\ \E B \in SUBSET Payloads : Good(mem', mem_brk', B) /\ Owns(live', mem', B)
  BY <1>1 DEF DWORD_SIZE, NULL
<1> QED
  BY <1>2 DEF HeapInv

\* After a call that was misled nothing is claimed.
LEMMA Astray == misread' = TRUE => HeapInv'
  BY DEF HeapInv

\* One block more, or the same with another size.
LEMMA HeldFacts ==
  ASSUME Typed(live), NEW S \in SUBSET DOMAIN live, NEW p \in Payloads,
         NEW bytes \in Requests \ {0}, NEW known \in Nat, WSIZE * known <= bytes
  PROVE  LET L == Held(S, p, bytes, known) IN
         /\ Typed(L) /\ DOMAIN L = S \cup {p} /\ L[p].bytes = bytes /\ L[p].known = known
         /\ \A q \in S \ {p} : L[q] = live[q]
<1> DEFINE L == Held(S, p, bytes, known)
<1>1. L = [q \in S \cup {p} |-> IF q = p THEN [bytes |-> bytes, known |-> known] ELSE live[q]]
  BY DEF Held
<1> HIDE DEF L
<1>2. /\ DOMAIN L = S \cup {p} /\ L[p] = [bytes |-> bytes, known |-> known]
      /\ \A q \in S \ {p} : L[q] = live[q]
  BY <1>1
<1>3. \A q \in S : live[q] \in Block /\ WSIZE * live[q].known <= live[q].bytes /\ q \in Payloads
  BY DEF Typed
<1>4. \A q \in S \cup {p} : L[q] \in Block /\ WSIZE * L[q].known <= L[q].bytes /\ q \in Payloads
  <2>1. L[p] \in Block /\ WSIZE * L[p].known <= L[p].bytes
    BY <1>2 DEF Block
  <2> QED
    BY <1>2, <1>3, <2>1
<1>5. L \in [DOMAIN L -> Block]
  BY <1>1, <1>2, <1>4
<1>6. Typed(L)
  BY <1>2, <1>4, <1>5 DEF Typed
<1> QED
  BY <1>2, <1>6 DEF L

\* The heap a request starts from.
LEMMA CurrentIs ==
  ASSUME HeapInv, misread = FALSE, heap_listp = NULL \/ mem_brk > 0
  PROVE  \E m, brk, x : \E B \in SUBSET Payloads :
           Current = Heap(m, brk, FALSE, x) /\ Good(m, brk, B) /\ Owns(live, m, B)
<1>1. CASE heap_listp = NULL
  <2>1. DOMAIN live = {}
    BY <1>1 DEF HeapInv
  <2>2. PICK B \in SUBSET Payloads :
          /\ Good(FreshHeap.mem, FreshHeap.brk, B) /\ Taken(FreshHeap.mem, B) = {}
          /\ FreshHeap.lost = FALSE
    BY FreshHeapGives
  <2>3. Owns(live, FreshHeap.mem, B)
    BY <2>1, <2>2 DEF Owns
  <2>4. \E u, v, l, w : FreshHeap = Heap(u, v, l, w)
    BY DEF FreshHeap, extend_heap, Coalesced
  <2>5. \A u, v, l, w : Heap(u, v, l, w) = Heap(Heap(u, v, l, w).mem, Heap(u, v, l, w).brk,
                                              Heap(u, v, l, w).lost, Heap(u, v, l, w).bp)
    BY DEF Heap
  <2>6. FreshHeap = Heap(FreshHeap.mem, FreshHeap.brk, FreshHeap.lost, FreshHeap.bp)
    BY <2>4, <2>5
  <2>7. Current = FreshHeap
    BY <1>1 DEF Current
  <2> QED
    BY <2>2, <2>3, <2>6, <2>7
<1>2. CASE heap_listp # NULL
  <2>1. PICK B \in SUBSET Payloads : Good(mem, mem_brk, B) /\ Owns(live, mem, B)
    BY <1>2 DEF HeapInv
  <2>2. Current = Heap(mem, mem_brk, FALSE, NULL)
    BY <1>2 DEF Current
  <2> QED
    BY <2>1, <2>2
<1> QED
  BY <1>1, <1>2

\* mm_init makes a heap in which the program holds nothing.
LEMMA StartKeeps == ASSUME HeapInv, misread = FALSE, Start PROVE HeapInv'
<1>1. PICK B \in SUBSET Payloads :
          /\ Good(FreshHeap.mem, FreshHeap.brk, B) /\ Taken(FreshHeap.mem, B) = {}
          /\ FreshHeap.lost = FALSE
  BY FreshHeapGives
<1>2. /\ mem' = FreshHeap.mem /\ mem_brk' = FreshHeap.brk /\ misread' = FreshHeap.lost
      /\ heap_listp' = DWORD_SIZE /\ live' = live
  BY DEF Start, Becomes, WSIZE, DWORD_SIZE
<1>3. DOMAIN live = {} /\ Typed(live)
  BY DEF Start, HeapInv
<1>4. Owns(live', mem', B) /\ Good(mem', mem_brk', B) /\ Typed(live') /\ misread' = FALSE
  BY <1>1, <1>2, <1>3 DEF Owns
<1> QED
  BY <1>2, <1>4, HeapLeft

\* malloc adds a block to those the program holds, or changes nothing.
LEMMA MallocKeeps == ASSUME HeapInv, misread = FALSE, NEW size \in Requests, Malloc(size) PROVE HeapInv'
<1>1. PICK m, brk, x : \E B \in SUBSET Payloads :
        Current = Heap(m, brk, FALSE, x) /\ Good(m, brk, B) /\ Owns(live, m, B)
  BY CurrentIs DEF Malloc
<1>2. PICK B \in SUBSET Payloads :
        Current = Heap(m, brk, FALSE, x) /\ Good(m, brk, B) /\ Owns(live, m, B)
  BY <1>1
<1>3. heap_listp' = DWORD_SIZE /\ Typed(live)
  BY DEF Malloc, WSIZE, DWORD_SIZE, HeapInv
<1>4. CASE size = 0
  <2>1. mem' = m /\ mem_brk' = brk /\ live' = live /\ misread' = FALSE
    BY <1>2, <1>4 DEF Malloc, Becomes, Heap
  <2> QED
    BY <1>2, <1>3, <2>1, HeapLeft
<1>5. CASE size # 0
  <2> DEFINE r == Obtain(Heap(m, brk, FALSE, x), size)
  <2>1. /\ mem' = r.mem /\ mem_brk' = r.brk /\ misread' = r.lost
        /\ live' = IF r.bp = NULL THEN live ELSE Held(DOMAIN live, r.bp, size, 0)
    BY <1>2, <1>5 DEF Malloc, Becomes
  <2>2. Obtained(m, brk, B, r, size)
    BY <1>2, <1>5, ObtainGives
  <2> HIDE DEF r
  <2>3. CASE r.lost = TRUE
    BY <2>3, <2>1, Astray
  <2>4. CASE r.lost = FALSE /\ r.bp = NULL
    <3>1. mem' = m /\ mem_brk' = brk /\ live' = live /\ misread' = FALSE
      BY <2>1, <2>2, <2>4 DEF Obtained
    <3> QED
      BY <1>2, <1>3, <3>1, HeapLeft
  <2>5. CASE r.lost = FALSE /\ r.bp # NULL
    <3>1. PICK C \in SUBSET Payloads :
            /\ Good(r.mem, r.brk, C) /\ Taken(r.mem, C) = Taken(m, B) \cup {r.bp}
            /\ r.bp \notin Taken(m, B) /\ Keeps(m, r.mem, Taken(m, B))
            /\ r.bp \in C /\ Size(r.mem, r.bp) >= size + DWORD_SIZE
      BY <2>2, <2>5 DEF Obtained
    <3> DEFINE bp == r.bp
    <3>2. size \in Requests \ {0} /\ size \in Nat /\ 0 \in Nat /\ WSIZE * 0 <= size /\ bp \in Payloads
      BY <1>5, <3>1, ImplicitListAssumption DEF WSIZE
    <3>3. Taken(m, B) = DOMAIN live /\ \A p \in DOMAIN live : live[p].bytes + DWORD_SIZE <= Size(m, p)
      BY <1>2 DEF Owns
    <3> DEFINE L == Held(DOMAIN live, bp, size, 0)
    <3> HIDE DEF bp
    <3>4. /\ Typed(L) /\ DOMAIN L = DOMAIN live \cup {bp} /\ L[bp].bytes = size
          /\ \A q \in DOMAIN live \ {bp} : L[q] = live[q]
      <4>1. DOMAIN live \in SUBSET DOMAIN live
        OBVIOUS
      <4>2. Typed(L)
        BY <1>3, <3>2, <4>1, HeldFacts
      <4>3. L = [q \in DOMAIN live \cup {bp} |->
                   IF q = bp THEN [bytes |-> size, known |-> 0] ELSE live[q]]
        BY DEF Held
      <4> HIDE DEF L
      <4> QED
        BY <4>2, <4>3
    <3>5. live' = L
      BY <2>1, <2>5 DEF bp
    <3> HIDE DEF L
    <3>6. \A p \in DOMAIN L : L[p].bytes + DWORD_SIZE <= Size(r.mem, p)
      <4> SUFFICES ASSUME NEW p \in DOMAIN L PROVE L[p].bytes + DWORD_SIZE <= Size(r.mem, p)
        OBVIOUS
      <4>1. CASE p = bp
        <5>1. Size(r.mem, bp) \in Nat
          <6>1. Tiles(r.mem, r.brk, C) /\ bp \in C
            BY <3>1 DEF Good, bp
          <6> QED
            BY <6>1, BlockFacts
        <5> QED
          BY <3>1, <3>2, <3>4, <4>1, <5>1 DEF bp, DWORD_SIZE
      <4>2. CASE p # bp
        <5>1. p \in DOMAIN live /\ L[p] = live[p] /\ Size(r.mem, p) = Size(m, p)
          BY <3>1, <3>3, <3>4, <4>2 DEF Keeps
        <5> QED
          BY <3>3, <5>1
      <4> QED
        BY <4>1, <4>2
    <3>7. Taken(r.mem, C) = DOMAIN L
      BY <3>1, <3>3, <3>4 DEF bp
    <3>8. Owns(L, r.mem, C)
      BY <3>6, <3>7 DEF Owns
    <3> QED
      BY <1>3, <2>1, <2>5, <3>1, <3>4, <3>5, <3>8, HeapLeft
  <2> QED
    BY <2>3, <2>2, <2>4, <2>5 DEF Obtained
<1> QED
  BY <1>4, <1>5

\* What mm_free makes of a heap without the block at p.
LEMMA FreedGives ==
  ASSUME NEW m, NEW brk, NEW B, Good(m, brk, B), NEW p \in Taken(m, B)
  PROVE  LET f == Freed(m, brk, p)  S == Taken(m, B) \ {p} IN
         \/ f.lost = TRUE
         \/ /\ f.lost = FALSE /\ f.brk = brk
            /\ \E C \in SUBSET Payloads :
                 Good(f.mem, brk, C) /\ Taken(f.mem, C) = S /\ Keeps(m, f.mem, S)
<1> DEFINE size == Size(m, p)
           t    == PutTags(m, p, size, 0)
           f    == Freed(m, brk, p)
           hi   == p + size
           S    == Taken(m, B) \ {p}
<1>1. Tiles(m, brk, B) /\ p \in B /\ p # DWORD_SIZE
  BY DEF Good, Taken
<1>2. /\ p \in Nat /\ p >= DWORD_SIZE /\ p \in Payloads /\ hi \in Payloads
      /\ size \in Nat /\ size % DWORD_SIZE = 0 /\ size >= DWORD_SIZE
  BY <1>1, BlockFacts
<1>3. m \in Memory /\ hi \in B \cup {brk} /\ p > 0
  BY <1>1, <1>2 DEF Tiles, DWORD_SIZE
<1>4. \A q \in B : q \in Nat /\ Size(m, q) \in Nat /\ Size(m, q) >= DWORD_SIZE
  BY <1>1, BlockFacts
<1>5. \A q \in B : q = p \/ q + Size(m, q) <= p \/ q >= hi
  BY <1>1, <1>2, <1>4 DEF Tiles
<1>6. f = Heap(coalesce(t, p), brk, Misled(t, p), Merged(t, p))
  BY DEF Freed, Coalesced, Size
<1>7. t \in Memory /\ \A a \in Words : t[a] = IF a = p - WSIZE \/ a = p + size - DWORD_SIZE
                                           THEN Tag(size, 0) ELSE m[a]
  BY <1>2, <1>3, TagsPut
<1> HIDE DEF t
<1>8. Framed(m, t, p, hi, 0)
  <2>1. hi - p = size /\ p + size - DWORD_SIZE = hi - DWORD_SIZE
    BY <1>2 DEF DWORD_SIZE
  <2> HIDE DEF hi, size
  <2>2. \A a \in Words : t[a] = IF a = p - WSIZE \/ a = hi - DWORD_SIZE THEN Tag(size, 0) ELSE m[a]
    BY <1>7, <2>1
  <2> QED
    BY <2>1, <2>2 DEF Framed
<1>9. p < hi /\ 0 \in {0, 1}
  BY <1>2 DEF DWORD_SIZE
<1>10. {q \in B : q < p \/ q >= hi} \cup {p} = B
  <2>1. \A q \in B : q = p \/ q < p \/ q >= hi
    BY <1>2, <1>4, <1>5 DEF DWORD_SIZE
  <2> HIDE DEF hi
  <2> QED
    BY <1>1, <2>1
<1> HIDE DEF hi, size
<1>11. /\ Tiles(t, brk, B) /\ Alloc(t, p) = 0 /\ Size(t, p) = hi - p
       /\ \A q \in B : q < p \/ q >= hi =>
            /\ Size(t, q) = Size(m, q) /\ Alloc(t, q) = Alloc(m, q)
  BY <1>1, <1>3, <1>7, <1>8, <1>9, <1>10, OneBlock
<1>12. \A q \in B : q # p => q < p \/ q >= hi
  BY <1>2, <1>4, <1>5 DEF DWORD_SIZE
<1>13. \A q \in B : /\ Size(t, q) = Size(m, q)
                    /\ q # p => Alloc(t, q) = Alloc(m, q)
  BY <1>2, <1>11, <1>12 DEF hi, size
<1>14. Taken(t, B) = S
  BY <1>11, <1>13 DEF Taken
<1>15. NoTwoFree(t, B, p)
  <2>1. \A q \in B : q # NULL
    BY GoodFacts
  <2>2. NoTwoFree(m, B, NULL)
    BY DEF Good
  <2> QED
    BY <1>13, <2>1, <2>2 DEF NoTwoFree
<1>16. Keeps(m, t, S)
  <2> SUFFICES ASSUME NEW q \in S, NEW a \in Words, q <= a, a < q + Size(m, q) - DWORD_SIZE
               PROVE  t[a] = m[a]
    BY <1>13 DEF Keeps, Taken
  <2>1. q \in B /\ q # p /\ a \in Nat
    BY WordIs DEF Taken
  <2>2. q \in Nat /\ Size(m, q) \in Nat /\ (q + Size(m, q) <= p \/ q >= hi)
    BY <1>4, <1>5, <2>1
  <2>3. a # p - WSIZE /\ a # p + size - DWORD_SIZE
    BY <1>2, <2>1, <2>2 DEF hi, WSIZE, DWORD_SIZE
  <2> QED
    BY <1>7, <2>3
<1>17. CASE Misled(t, p)
  BY <1>6, <1>17 DEF Heap
<1>18. CASE ~Misled(t, p)
  <2> DEFINE c == coalesce(t, p)
  <2>1. PICK C \in SUBSET Payloads :
          Good(c, brk, C) /\ Taken(c, C) = Taken(t, B) /\ Keeps(t, c, Taken(t, B))
    BY <1>1, <1>11, <1>15, <1>18, CoalesceGives
  <2> HIDE DEF c
  <2>2. Keeps(m, c, S)
    BY <1>14, <1>16, <2>1, KeepsTwice
  <2>3. f.mem = c /\ f.brk = brk /\ f.lost = FALSE
    BY <1>6, <1>18 DEF Heap, c
  <2> HIDE DEF f, S
  <2>4. /\ f.lost = FALSE /\ f.brk = brk
        /\ Good(f.mem, brk, C) /\ Taken(f.mem, C) = S /\ Keeps(m, f.mem, S)
    BY <1>14, <2>1, <2>2, <2>3
  <2> QED
    BY <2>4 DEF f, S
<1> QED
  BY <1>17, <1>18

\* free takes a block from those the program holds.
LEMMA FreeKeeps ==
  ASSUME HeapInv, misread = FALSE, NEW p \in DOMAIN live, Free(p)
  PROVE  HeapInv'
<1> DEFINE f == Freed(mem, mem_brk, p)
           L == [q \in DOMAIN live \ {p} |-> live[q]]
<1>1. mem' = f.mem /\ mem_brk' = f.brk /\ misread' = f.lost /\ live' = L /\ heap_listp' = heap_listp
  BY DEF Free, Becomes
<1>2. mem_brk > 0 /\ heap_listp = DWORD_SIZE /\ Typed(live)
  BY DEF HeapInv
<1>3. PICK B \in SUBSET Payloads : Good(mem, mem_brk, B) /\ Owns(live, mem, B)
  BY <1>2 DEF HeapInv
<1>4. p \in Taken(mem, B) /\ Taken(mem, B) = DOMAIN live
  BY <1>3 DEF Owns
<1>5. \/ f.lost = TRUE
      \/ /\ f.lost = FALSE /\ f.brk = mem_brk
         /\ \E C \in SUBSET Payloads :
              /\ Good(f.mem, mem_brk, C) /\ Taken(f.mem, C) = Taken(mem, B) \ {p}
              /\ Keeps(mem, f.mem, Taken(mem, B) \ {p})
  BY <1>3, <1>4, FreedGives
<1> HIDE DEF f
<1>6. DOMAIN L = DOMAIN live \ {p} /\ \A q \in DOMAIN L : L[q] = live[q]
  OBVIOUS
<1>7. Typed(L)
  BY <1>2 DEF Typed
<1> HIDE DEF L
<1>8. CASE f.lost = TRUE
  BY <1>1, <1>8, Astray
<1>9. CASE f.lost = FALSE
  <2>1. PICK C \in SUBSET Payloads :
          /\ Good(f.mem, mem_brk, C) /\ Taken(f.mem, C) = Taken(mem, B) \ {p}
          /\ Keeps(mem, f.mem, Taken(mem, B) \ {p})
    BY <1>5, <1>9
  <2>2. Owns(L, f.mem, C)
    BY <1>3, <1>4, <1>6, <2>1 DEF Owns, Keeps
  <2>3. f.brk = mem_brk
    BY <1>5, <1>9
  <2> QED
    BY <1>1, <1>2, <1>7, <1>9, <2>1, <2>2, <2>3, HeapLeft
<1> QED
  BY <1>5, <1>8, <1>9
\* The smaller of two numbers.
LEMMA SmallerIs ==
  \A i, j \in Nat : First({i, j}) \in {i, j} /\ First({i, j}) <= i /\ First({i, j}) <= j
<1> SUFFICES ASSUME NEW i \in Nat, NEW j \in Nat
             PROVE  First({i, j}) \in {i, j} /\ First({i, j}) <= i /\ First({i, j}) <= j
  OBVIOUS
<1> DEFINE S == {i, j}
<1>1. S \in SUBSET Nat /\ S # {}
  OBVIOUS
<1>2. i \in S /\ j \in S
  OBVIOUS
<1> HIDE DEF S
<1>3. First(S) \in S /\ \A k \in S : First(S) <= k
  BY <1>1, FirstIs
<1> QED
  BY <1>2, <1>3 DEF S

\* The heap h with the old block at p copied to the new one.
Moved(h, p, size) == Copied(h.mem, h.bp, p, First({size, Size(h.mem, p)}))

\* The words that memcpy reads and writes.
LEMMA MovedGives ==
  ASSUME NEW h, NEW C, Good(h.mem, h.brk, C), h.bp \in C, NEW p \in C,
         NEW size \in Nat, h.bp # p, Size(h.mem, h.bp) >= size + DWORD_SIZE
  PROVE  LET m2 == Moved(h, p, size)  n == First({size, Size(h.mem, p)}) IN
         /\ DataOnly(h.mem, m2, h.bp) /\ n \in Nat
         /\ \A a \in Words : h.bp <= a /\ a < h.bp + n => m2[a] = h.mem[p + (a - h.bp)]
<1> DEFINE m  == h.mem
           to == h.bp
           n  == First({size, Size(m, p)})
           m2 == Moved(h, p, size)
<1>1. Tiles(m, h.brk, C) /\ m \in Memory
  BY GoodFacts DEF Good
<1>2. /\ p \in Nat /\ p % DWORD_SIZE = 0 /\ Size(m, p) \in Nat /\ Size(m, p) % DWORD_SIZE = 0
      /\ p + Size(m, p) <= h.brk /\ h.brk <= MAX_HEAP
      /\ to \in Nat /\ to % DWORD_SIZE = 0 /\ Size(m, to) \in Nat /\ h.brk \in Nat
  <2>1. /\ p \in Nat /\ p % DWORD_SIZE = 0 /\ Size(m, p) \in Nat /\ Size(m, p) % DWORD_SIZE = 0
        /\ p + Size(m, p) <= h.brk /\ h.brk <= MAX_HEAP
    BY <1>1, BlockFacts
  <2>2. to \in Nat /\ to % DWORD_SIZE = 0 /\ Size(m, to) \in Nat
    BY <1>1, BlockFacts
  <2> QED
    BY <2>1, <2>2, GoodFacts
<1>3. n \in Nat /\ n <= size /\ n <= Size(m, p)
  BY <1>2, SmallerIs
<1>4. m2 = [a \in Words |-> IF a \in to .. to + n - 1 THEN Word(m, p + (a - to)) ELSE m[a]]
  BY DEF Moved, Copied
<1> HIDE DEF m, to, n, m2
<1>5. \A a \in Words : a \in to .. to + n - 1 <=> to <= a /\ a < to + n
  BY <1>2, <1>3, WordIs
<1>6. \A a \in Words : to <= a /\ a < to + n => p + (a - to) \in Words
  <2> SUFFICES ASSUME NEW a \in Words, to <= a, a < to + n PROVE p + (a - to) \in Words
    OBVIOUS
  <2>1. a \in Nat /\ a % 8 = 0
    BY WordIs DEF WSIZE
  <2>2. p + (a - to) \in Nat /\ a - to < Size(m, p)
    BY <1>2, <1>3, <2>1
  <2>3. (p + (a - to)) % 8 = 0 /\ (a - to) + 8 <= Size(m, p)
    BY <1>2, <2>1, <2>2 DEF DWORD_SIZE
  <2>4. p + (a - to) + 8 <= MAX_HEAP
    BY <1>2, <2>1, <2>3, MemLibAssumption
  <2> QED
    BY <2>2, <2>3, <2>4, WordIs DEF WSIZE
<1>7. m2 \in Memory
  BY <1>1, <1>4, <1>5, <1>6 DEF Memory, Word
<1>8. \A a \in Words : a < to \/ a >= to + Size(m, to) - DWORD_SIZE => m2[a] = m[a]
  <2> SUFFICES ASSUME NEW a \in Words, a < to \/ a >= to + Size(m, to) - DWORD_SIZE PROVE m2[a] = m[a]
    OBVIOUS
  <2>1. Size(m, to) >= size + DWORD_SIZE /\ a \in Nat
    BY WordIs DEF m, to
  <2>2. ~(to <= a /\ a < to + n)
    BY <1>2, <1>3, <2>1 DEF DWORD_SIZE
  <2> QED
    BY <1>4, <1>5, <2>2
<1>9. \A a \in Words : to <= a /\ a < to + n => m2[a] = m[p + (a - to)]
  BY <1>4, <1>5, <1>6 DEF Word
<1> QED
  BY <1>3, <1>7, <1>8, <1>9 DEF m, to, n, m2, DataOnly

\* What a successful realloc leaves: w is the heap with the new block in which
\* the old one is still there, f what mm_free makes of it after the copy.
LEMMA ReallocGives ==
  ASSUME NEW m, NEW brk, NEW B, Good(m, brk, B), NEW p \in Taken(m, B),
         NEW size \in Requests \ {0}, NEW r, Obtained(m, brk, B, r, size),
         r.lost = FALSE, r.bp # NULL
  PROVE  LET w == Moved(r, p, size)  f == Freed(w, r.brk, p) IN
         /\ r.bp \notin Taken(m, B) /\ r.bp \in Payloads
         /\ \E C \in SUBSET Payloads :
              /\ Good(r.mem, r.brk, C) /\ Good(w, r.brk, C) /\ r.bp \in C /\ p \in C
              /\ Keeps(m, r.mem, Taken(m, B)) /\ Keeps(r.mem, w, Taken(m, B))
              /\ Size(r.mem, r.bp) >= size + DWORD_SIZE
         /\ \/ f.lost = TRUE
            \/ /\ f.lost = FALSE /\ f.brk = r.brk
               /\ \E D \in SUBSET Payloads :
                    /\ Good(f.mem, r.brk, D) /\ Taken(f.mem, D) = (Taken(m, B) \cup {r.bp}) \ {p}
                    /\ Keeps(m, f.mem, Taken(m, B) \ {p}) /\ Keeps(w, f.mem, {r.bp})
                    /\ Size(f.mem, r.bp) >= size + DWORD_SIZE
<1> DEFINE w  == Moved(r, p, size)
           f  == Freed(w, r.brk, p)
           bp == r.bp
<1>1. PICK C \in SUBSET Payloads :
        /\ Good(r.mem, r.brk, C) /\ Taken(r.mem, C) = Taken(m, B) \cup {bp}
        /\ bp \notin Taken(m, B) /\ Keeps(m, r.mem, Taken(m, B))
        /\ bp \in C /\ Size(r.mem, bp) >= size + DWORD_SIZE
  BY DEF Obtained
<1>2. size \in Nat
  BY ImplicitListAssumption
<1>3. p \in C /\ p # DWORD_SIZE /\ bp # p
  BY <1>1 DEF Taken
<1>4. DataOnly(r.mem, w, bp)
  BY <1>1, <1>2, <1>3, MovedGives
<1> HIDE DEF w
<1>5. /\ Good(w, r.brk, C) /\ Taken(w, C) = Taken(r.mem, C) /\ Keeps(r.mem, w, C \ {bp})
      /\ SameSizes(r.mem, w, C)
  BY <1>1, <1>4, DataWritten
<1>6. Taken(w, C) = Taken(m, B) \cup {bp} /\ p \in Taken(w, C)
  BY <1>1, <1>5
<1>7. \/ f.lost = TRUE
      \/ /\ f.lost = FALSE /\ f.brk = r.brk
         /\ \E D \in SUBSET Payloads :
              /\ Good(f.mem, r.brk, D) /\ Taken(f.mem, D) = Taken(w, C) \ {p}
              /\ Keeps(w, f.mem, Taken(w, C) \ {p})
  BY <1>5, <1>6, FreedGives
<1> HIDE DEF f, bp
<1>8. Keeps(r.mem, w, Taken(m, B))
  <2>1. Taken(m, B) \subseteq C \ {bp}
    BY <1>1 DEF Taken
  <2> QED
    BY <1>5, <2>1 DEF Keeps
<1>9. Keeps(m, w, Taken(m, B))
  BY <1>1, <1>8, KeepsTwice
<1>10. bp \in Payloads
  BY <1>1
<1>11. /\ bp \notin Taken(m, B) /\ bp \in Payloads
       /\ Good(r.mem, r.brk, C) /\ Good(w, r.brk, C) /\ bp \in C /\ p \in C
       /\ Keeps(m, r.mem, Taken(m, B)) /\ Keeps(r.mem, w, Taken(m, B))
       /\ Size(r.mem, bp) >= size + DWORD_SIZE
  BY <1>1, <1>3, <1>5, <1>8, <1>10
<1>12. CASE f.lost = TRUE
  BY <1>11, <1>12 DEF f, w, bp
<1>13. CASE f.lost = FALSE
  <2>1. PICK D \in SUBSET Payloads :
          /\ Good(f.mem, r.brk, D) /\ Taken(f.mem, D) = Taken(w, C) \ {p}
          /\ Keeps(w, f.mem, Taken(w, C) \ {p})
    BY <1>7, <1>13
  <2>2. Keeps(w, f.mem, Taken(m, B) \ {p}) /\ Keeps(w, f.mem, {bp})
    BY <1>3, <1>6, <2>1 DEF Keeps
  <2>3. Keeps(m, f.mem, Taken(m, B) \ {p})
    BY <1>9, <2>2 DEF Keeps
  <2>4. Size(f.mem, bp) >= size + DWORD_SIZE
    BY <1>1, <1>5, <2>2 DEF Keeps, SameSizes
  <2>5. f.lost = FALSE /\ f.brk = r.brk
    BY <1>7, <1>13
  <2>6. /\ Good(f.mem, r.brk, D) /\ Taken(f.mem, D) = (Taken(m, B) \cup {bp}) \ {p}
        /\ Keeps(m, f.mem, Taken(m, B) \ {p}) /\ Keeps(w, f.mem, {bp})
        /\ Size(f.mem, bp) >= size + DWORD_SIZE
    BY <1>6, <2>1, <2>2, <2>3, <2>4
  <2> QED
    BY <1>11, <2>5, <2>6 DEF f, w, bp
<1> QED
  BY <1>7, <1>12, <1>13

\* realloc exchanges a block for another one, or changes nothing.
LEMMA ReallocKeeps ==
  ASSUME HeapInv, misread = FALSE, NEW p \in DOMAIN live, NEW size \in Requests, Realloc(p, size)
  PROVE  HeapInv'
<1> DEFINE r == Obtain(Heap(mem, mem_brk, FALSE, NULL), size)
           w == Moved(r, p, size)
           f == Freed(w, r.brk, p)
           L == Held(DOMAIN live \ {p}, r.bp, size, First({live[p].known, size \div WSIZE}))
<1>1. mem_brk > 0 /\ heap_listp = DWORD_SIZE /\ Typed(live) /\ heap_listp' = DWORD_SIZE
  BY DEF HeapInv, Realloc
<1>2. PICK B \in SUBSET Payloads : Good(mem, mem_brk, B) /\ Owns(live, mem, B)
  BY <1>1 DEF HeapInv
<1>3. size \in Nat /\ size > 0 /\ size \in Requests \ {0}
  BY ImplicitListAssumption DEF Realloc
<1>4. Obtained(mem, mem_brk, B, r, size)
  BY <1>2, <1>3, ObtainGives
<1>5. IF r.bp = NULL \/ r.lost THEN mem' = r.mem /\ mem_brk' = r.brk /\ misread' = r.lost /\ live' = live
      ELSE mem' = f.mem /\ mem_brk' = f.brk /\ misread' = f.lost /\ live' = L
  BY DEF Realloc, Becomes, Moved, Size
<1> HIDE DEF r
<1>6. CASE r.lost = TRUE
  BY <1>5, <1>6, Astray
<1>7. CASE r.lost = FALSE /\ r.bp = NULL
  <2>1. mem' = mem /\ mem_brk' = mem_brk /\ live' = live /\ misread' = FALSE
    BY <1>4, <1>5, <1>7 DEF Obtained
  <2> QED
    BY <1>1, <1>2, <2>1, HeapLeft
<1>8. CASE r.lost = FALSE /\ r.bp # NULL
  <2>1. p \in Taken(mem, B) /\ Taken(mem, B) = DOMAIN live
    BY <1>2 DEF Owns
  <2>2. /\ r.bp \notin Taken(mem, B) /\ r.bp \in Payloads
        /\ \/ f.lost = TRUE
           \/ /\ f.lost = FALSE /\ f.brk = r.brk
              /\ \E D \in SUBSET Payloads :
                   /\ Good(f.mem, r.brk, D) /\ Taken(f.mem, D) = (Taken(mem, B) \cup {r.bp}) \ {p}
                   /\ Keeps(mem, f.mem, Taken(mem, B) \ {p}) /\ Keeps(w, f.mem, {r.bp})
                   /\ Size(f.mem, r.bp) >= size + DWORD_SIZE
    BY <1>2, <1>3, <1>4, <1>8, <2>1, ReallocGives
  <2> DEFINE S     == DOMAIN live \ {p}
             bp    == r.bp
             known == First({live[p].known, size \div WSIZE})
  <2>3. L = Held(S, bp, size, known)
    OBVIOUS
  <2> HIDE DEF f, L
  <2>4. mem' = f.mem /\ mem_brk' = f.brk /\ misread' = f.lost /\ live' = L
    BY <1>5, <1>8
  <2>5. CASE f.lost = TRUE
    BY <2>4, <2>5, Astray
  <2>6. CASE f.lost = FALSE
    <3>1. PICK D \in SUBSET Payloads :
            /\ Good(f.mem, r.brk, D) /\ Taken(f.mem, D) = (Taken(mem, B) \cup {r.bp}) \ {p}
            /\ Keeps(mem, f.mem, Taken(mem, B) \ {p})
            /\ Size(f.mem, r.bp) >= size + DWORD_SIZE
      BY <2>2, <2>6
    <3>2. known \in Nat /\ WSIZE * known <= size
      <4>1. live[p].known \in Nat
        BY <1>1 DEF Typed, Block
      <4>2. size \div WSIZE \in Nat /\ WSIZE * (size \div WSIZE) <= size
        BY <1>3 DEF WSIZE
      <4>3. known \in Nat /\ known <= size \div WSIZE
        BY <4>1, <4>2, SmallerIs
      <4> HIDE DEF known
      <4> QED
        BY <1>3, <4>2, <4>3 DEF WSIZE
    <3>3. S \in SUBSET DOMAIN live /\ bp \in Payloads
      BY <2>2
    <3> HIDE DEF S, bp, known
    <3>4. Typed(Held(S, bp, size, known))
      BY <1>1, <1>3, <3>2, <3>3, HeldFacts
    <3>5. LET H == Held(S, bp, size, known) IN
            /\ Typed(H) /\ DOMAIN H = S \cup {bp} /\ H[bp].bytes = size
            /\ \A q \in S \ {bp} : H[q] = live[q]
      BY <3>4 DEF Held
    <3>6. /\ Typed(L) /\ DOMAIN L = S \cup {bp} /\ L[bp].bytes = size
          /\ \A q \in S \ {bp} : L[q] = live[q]
      BY <2>3, <3>5
    <3>7. Taken(f.mem, D) = DOMAIN L
      BY <2>1, <2>2, <3>1, <3>6 DEF S, bp
    <3>8. \A q \in DOMAIN L : L[q].bytes + DWORD_SIZE <= Size(f.mem, q)
      <4> SUFFICES ASSUME NEW q \in DOMAIN L PROVE L[q].bytes + DWORD_SIZE <= Size(f.mem, q)
        OBVIOUS
      <4>1. CASE q = bp
        <5>1. Tiles(f.mem, r.brk, D) /\ bp \in D
          BY <3>1, <3>6, <3>7 DEF Good, Taken
        <5>2. Size(f.mem, bp) \in Nat
          BY <5>1, BlockFacts
        <5> QED
          BY <1>3, <3>1, <3>6, <4>1, <5>2 DEF bp, DWORD_SIZE
      <4>2. CASE q # bp
        <5>1. q \in S /\ L[q] = live[q]
          BY <3>6, <4>2
        <5>2. Size(f.mem, q) = Size(mem, q)
          BY <2>1, <3>1, <5>1 DEF Keeps, S
        <5> QED
          BY <1>2, <5>1, <5>2 DEF Owns, S
      <4> QED
        BY <4>1, <4>2
    <3>9. Owns(L, f.mem, D)
      BY <3>7, <3>8 DEF Owns
    <3>10. f.brk = r.brk
      BY <2>2, <2>6
    <3> QED
      BY <1>1, <2>4, <2>6, <3>1, <3>6, <3>9, <3>10, HeapLeft
  <2> QED
    BY <2>2, <2>5, <2>6
<1> QED
  BY <1>4, <1>6, <1>7, <1>8 DEF Obtained

\* Writing to a block touches no tag.
LEMMA FillKeeps ==
  ASSUME HeapInv, misread = FALSE, NEW p \in DOMAIN live, NEW v \in Values, Fill(p, v)
  PROVE  HeapInv'
<1>1. /\ mem_brk > 0 /\ heap_listp = DWORD_SIZE /\ Typed(live)
      /\ heap_listp' = DWORD_SIZE /\ mem_brk' = mem_brk /\ misread' = FALSE
  BY DEF HeapInv, Fill
<1>2. PICK B \in SUBSET Payloads : Good(mem, mem_brk, B) /\ Owns(live, mem, B)
  BY <1>1 DEF HeapInv
<1>3. p \in B /\ Taken(mem, B) = DOMAIN live /\ live[p].bytes + DWORD_SIZE <= Size(mem, p)
  BY <1>2 DEF Owns, Taken
<1>4. p \in Nat /\ Size(mem, p) \in Nat /\ live[p].bytes \in Nat /\ live[p] \in Block
  <2>1. p \in Nat /\ Size(mem, p) \in Nat
    BY <1>2, <1>3, BlockFacts DEF Good
  <2> QED
    BY <1>1, <2>1, ImplicitListAssumption DEF Typed, Block
<1>5. mem' \in Memory
  BY ImplicitListAssumption DEF HeapInv, Fill, Memory
<1>6. \A a \in Words : a < p \/ a >= p + Size(mem, p) - DWORD_SIZE => mem'[a] = mem[a]
  <2> SUFFICES ASSUME NEW a \in Words, a < p \/ a >= p + Size(mem, p) - DWORD_SIZE
               PROVE  mem'[a] = mem[a]
    OBVIOUS
  <2>1. a \in Nat
    BY WordIs
  <2>2. a \notin p .. p + live[p].bytes - 1
    BY <1>3, <1>4, <2>1 DEF DWORD_SIZE
  <2> QED
    BY <2>2 DEF Fill
<1>7. /\ Good(mem', mem_brk, B) /\ Taken(mem', B) = Taken(mem, B)
      /\ \A q \in B : Size(mem', q) = Size(mem, q)
  <2> DEFINE m2 == mem'
  <2>1. DataOnly(mem, m2, p)
    BY <1>5, <1>6 DEF DataOnly
  <2> HIDE DEF m2
  <2>2. Good(mem, mem_brk, B) /\ p \in B
    BY <1>2, <1>3
  <2>3. Good(m2, mem_brk, B) /\ Taken(m2, B) = Taken(mem, B) /\ SameSizes(mem, m2, B)
    BY <2>1, <2>2, DataWritten
  <2> QED
    BY <2>3 DEF m2, SameSizes
<1>8. /\ DOMAIN live' = DOMAIN live
      /\ \A q \in DOMAIN live : /\ live'[q].bytes = live[q].bytes /\ live'[q] \in Block
                                /\ WSIZE * live'[q].known <= live'[q].bytes
      /\ live' \in [DOMAIN live -> Block]
  <2> DEFINE known == live[p].bytes \div WSIZE
             b     == [live[p] EXCEPT !.known = known]
  <2>1. live' = [live EXCEPT ![p] = b]
    BY DEF Fill
  <2>2. known \in Nat /\ WSIZE * known <= live[p].bytes
    BY <1>4 DEF WSIZE
  <2> HIDE DEF known
  <2>3. b \in Block /\ b.bytes = live[p].bytes /\ b.known = known
    BY <1>4, <2>2 DEF Block
  <2> HIDE DEF b
  <2>4. live \in [DOMAIN live -> Block] /\ \A q \in DOMAIN live : WSIZE * live[q].known <= live[q].bytes
    BY <1>1 DEF Typed
  <2> QED
    BY <2>1, <2>2, <2>3, <2>4
<1>9. Typed(live')
  BY <1>1, <1>8 DEF Typed
<1>10. Owns(live', mem', B)
  BY <1>2, <1>3, <1>7, <1>8 DEF Owns, Taken
<1> QED
  BY <1>1, <1>7, <1>9, <1>10, HeapLeft

\* mm_deinit leaves nothing.
LEMMA StopKeeps == ASSUME HeapInv, misread = FALSE, Stop PROVE HeapInv'
<1>1. [a \in Words |-> Zero] \in Memory
  BY DEF Memory, Zero, Tag
<1>2. /\ mem' \in Memory /\ mem_brk' = 0 /\ live' = <<>> /\ heap_listp' = heap_listp
      /\ misread' = FALSE
  BY <1>1 DEF Stop
<1>3. Typed(live') /\ DOMAIN live' = {}
  BY <1>2 DEF Typed
<1>4. heap_listp \in {NULL, DWORD_SIZE}
  BY DEF HeapInv
<1>5. mem_brk' \in Nat /\ ~(mem_brk' > 0) /\ heap_listp' \in {NULL, DWORD_SIZE}
  BY <1>2, <1>4
<1> QED
  BY <1>2, <1>3, <1>5 DEF HeapInv

\* Before the first call there is no heap.
LEMMA InitHeapInv == Init => HeapInv
<1> SUFFICES ASSUME Init PROVE HeapInv
  OBVIOUS
<1>1. [a \in Words |-> Zero] \in Memory
  BY DEF Memory, Zero, Tag
<1>2. mem \in Memory /\ mem_brk = 0 /\ live = <<>> /\ heap_listp = NULL /\ misread = FALSE
  BY <1>1 DEF Init
<1>3. Typed(live) /\ DOMAIN live = {}
  BY <1>2 DEF Typed
<1>4. mem_brk \in Nat /\ ~(mem_brk > 0) /\ heap_listp \in {NULL, DWORD_SIZE}
  BY <1>2
<1> QED
  BY <1>2, <1>3, <1>4 DEF HeapInv

\* Every call keeps the invariant.
LEMMA NextHeapInv == HeapInv /\ [Next]_vars => HeapInv'
<1> SUFFICES ASSUME HeapInv, [Next]_vars PROVE HeapInv'
  OBVIOUS
<1>1. CASE UNCHANGED vars
  BY <1>1 DEF vars, HeapInv
<1>2. CASE misread = FALSE /\ Call
  <2>1. CASE Start
    BY <1>2, <2>1, StartKeeps
  <2>2. CASE Stop
    BY <1>2, <2>2, StopKeeps
  <2>3. ASSUME NEW size \in Requests, Malloc(size) PROVE HeapInv'
    BY <1>2, <2>3, MallocKeeps
  <2>4. ASSUME NEW p \in DOMAIN live, Free(p) PROVE HeapInv'
    BY <1>2, <2>4, FreeKeeps
  <2>5. ASSUME NEW p \in DOMAIN live, NEW size \in Requests, Realloc(p, size) PROVE HeapInv'
    BY <1>2, <2>5, ReallocKeeps
  <2>6. ASSUME NEW p \in DOMAIN live, NEW v \in Values, Fill(p, v) PROVE HeapInv'
    BY <1>2, <2>6, FillKeeps
  <2> QED
    BY <1>2, <2>1, <2>2, <2>3, <2>4, <2>5, <2>6 DEF Call
<1>3. misread \in BOOLEAN
  BY DEF HeapInv
<1> QED
  BY <1>1, <1>2, <1>3 DEF Next

\* The invariant holds in every behaviour.
LEMMA HeapInvariance == Spec => []HeapInv
  BY InitHeapInv, NextHeapInv, PTL DEF Spec
-----------------------------------------------------------------------------
(* What the properties say of the blocks.                                  *)

\* The blocks of the properties are those of the invariant.
LEMMA BlocksAre ==
  ASSUME HeapInv, Sound, NEW B, Good(mem, mem_brk, B)
  PROVE  /\ Blocks = B \ {DWORD_SIZE}
         /\ Walk(mem)[MAX_HEAP \div (2 * DWORD_SIZE)] = mem_brk
<1> DEFINE at == Walk(mem)
<1>1. Tiles(mem, mem_brk, B)
  BY DEF Good
<1>2. /\ DOMAIN at = 0 .. Steps /\ Steps \in Nat
      /\ at[Steps] = mem_brk /\ at[0] = DWORD_SIZE
      /\ \A k \in 1 .. Steps : at[k] \in (B \ {DWORD_SIZE}) \cup {mem_brk}
      /\ \A p \in B \ {DWORD_SIZE} : \E k \in 1 .. Steps : at[k] = p
  BY <1>1, WalkVisits
<1>3. mem_brk \notin B
  <2> SUFFICES ASSUME mem_brk \in B PROVE FALSE
    OBVIOUS
  <2>1. /\ mem_brk + Size(mem, mem_brk) <= mem_brk /\ Size(mem, mem_brk) >= DWORD_SIZE
        /\ Size(mem, mem_brk) \in Nat /\ mem_brk \in Nat
    BY <1>1, BlockFacts
  <2> QED
    BY <2>1 DEF DWORD_SIZE
<1>4. Blocks = {at[k] : k \in DOMAIN at \ {0}} \ {mem_brk}
  BY DEF Blocks
<1> HIDE DEF at
<1>5. \A k \in DOMAIN at \ {0} : k \in 1 .. Steps
  BY <1>2
<1>6. \A k \in 1 .. Steps : k \in DOMAIN at \ {0}
  BY <1>2
<1>7. \A p \in Blocks : p \in B \ {DWORD_SIZE}
  BY <1>2, <1>4, <1>5
<1>8. \A p \in B \ {DWORD_SIZE} : p \in Blocks
  BY <1>2, <1>3, <1>4, <1>6
<1>9. Blocks = B \ {DWORD_SIZE}
  BY <1>7, <1>8
<1>10. Steps = MAX_HEAP \div (2 * DWORD_SIZE)
  BY DEF Steps, MIN_BLOCK_SIZE, DWORD_SIZE
<1> QED
  BY <1>2, <1>9, <1>10 DEF at

\* The invariant says what the properties say.
LEMMA HeapInvSays == HeapInv => HeapTiled /\ NoFreeNeighbours /\ HeldBlocks
<1> SUFFICES ASSUME HeapInv, Sound
             PROVE  HeapTiled /\ NoFreeNeighbours /\ HeldBlocks
  BY DEF HeapTiled, NoFreeNeighbours, HeldBlocks
<1>1. misread = FALSE /\ mem_brk > 0
  BY DEF HeapInv, Sound
<1>2. PICK B \in SUBSET Payloads : Good(mem, mem_brk, B) /\ Owns(live, mem, B) /\ Typed(live)
  BY <1>1 DEF HeapInv
<1>3. Tiles(mem, mem_brk, B)
  BY <1>2 DEF Good
<1>4. /\ Blocks = B \ {DWORD_SIZE}
      /\ Walk(mem)[MAX_HEAP \div (2 * DWORD_SIZE)] = mem_brk
  BY <1>2, BlocksAre
<1>5. HeapTiled
  <2>1. mem[WSIZE] = Tag(DWORD_SIZE, 1) /\ mem[header(mem_brk)] = Tag(0, 1)
    BY <1>3 DEF Tiles, header
  <2>2. mem[2 * WSIZE] = Tag(DWORD_SIZE, 1)
    <3>1. DWORD_SIZE \in B /\ mem[DWORD_SIZE - WSIZE] = Tag(DWORD_SIZE, 1)
      BY <1>3 DEF Tiles, DWORD_SIZE, WSIZE
    <3>2. Size(mem, DWORD_SIZE) = DWORD_SIZE
      BY <1>3, PrologueSays
    <3>3. mem[DWORD_SIZE + Size(mem, DWORD_SIZE) - DWORD_SIZE] = mem[DWORD_SIZE - WSIZE]
      BY <1>3, <3>1, BlockFacts
    <3>4. DWORD_SIZE + DWORD_SIZE - DWORD_SIZE = 2 * WSIZE
      BY DEF DWORD_SIZE, WSIZE
    <3> QED
      BY <3>1, <3>2, <3>3, <3>4
  <2>3. \A p \in Blocks : /\ SizeOf(p) >= 2 * DWORD_SIZE
                          /\ mem[header(p)] = mem[footer(mem, p)]
    BY <1>3, <1>4 DEF Tiles, Tagged, SizeOf, Size, MIN_BLOCK_SIZE, DWORD_SIZE
  <2> QED
    BY <1>4, <2>1, <2>2, <2>3 DEF HeapTiled
<1>6. \A p \in B : Size(mem, p) = SizeOf(p) /\ (Alloc(mem, p) = 1 <=> Allocated(p))
  BY DEF Size, Alloc, SizeOf, Allocated
<1>7. NoFreeNeighbours
  <2> SUFFICES ASSUME NEW p \in Blocks, next_payload(mem, p) \in Blocks
               PROVE  Allocated(p) \/ Allocated(next_payload(mem, p))
    BY DEF NoFreeNeighbours
  <2>1. next_payload(mem, p) = p + Size(mem, p)
    BY DEF next_payload, Size
  <2>2. p \in B /\ p + Size(mem, p) \in B /\ p # NULL /\ p + Size(mem, p) # NULL
    BY <1>2, <1>4, <2>1, GoodFacts
  <2>3. Alloc(mem, p) = 1 \/ Alloc(mem, p + Size(mem, p)) = 1
    BY <1>2, <2>2 DEF Good, NoTwoFree
  <2> QED
    BY <1>6, <2>1, <2>2, <2>3
<1>8. HeldBlocks
  <2>1. {p \in Blocks : Allocated(p)} = DOMAIN live
    BY <1>2, <1>4, <1>6 DEF Owns, Taken
  <2>2. \A p \in DOMAIN live : live[p].bytes <= SizeOf(p) - DWORD_SIZE
    <3> SUFFICES ASSUME NEW p \in DOMAIN live PROVE live[p].bytes <= SizeOf(p) - DWORD_SIZE
      OBVIOUS
    <3>1. p \in B /\ live[p].bytes + DWORD_SIZE <= Size(mem, p)
      BY <1>2 DEF Owns, Taken
    <3>2. live[p].bytes \in Nat
      BY <1>2, ImplicitListAssumption DEF Typed, Block
    <3>3. Size(mem, p) \in Nat /\ SizeOf(p) = Size(mem, p)
      BY <1>3, <1>6, <3>1, BlockFacts
    <3> QED
      BY <3>1, <3>2, <3>3 DEF DWORD_SIZE
  <2> QED
    BY <2>1, <2>2 DEF HeldBlocks
<1> QED
  BY <1>5, <1>7, <1>8

\* For every arena, chunk size and sequence of calls, as long as prev_payload
\* led to the previous block, the heap is a chain of blocks with equal tags
\* that ends exactly at the break (mm.c:423-468).
THEOREM HeapStaysTiled == Spec => []HeapTiled
  BY HeapInvSays, HeapInvariance, PTL

\* For every arena, chunk size and sequence of calls, as long as prev_payload
\* led to the previous block, no two neighbours are free: coalesce merges
\* whatever it can (mm.c:24).
THEOREM CoalescingIsComplete == Spec => []NoFreeNeighbours
  BY HeapInvSays, HeapInvariance, PTL

\* For every arena, chunk size and sequence of calls, as long as prev_payload
\* led to the previous block, the allocated blocks are those the program holds,
\* each with room for its request (mm.c:177-316).
THEOREM HeldBlocksAllocated == Spec => []HeldBlocks
  BY HeapInvSays, HeapInvariance, PTL
-----------------------------------------------------------------------------
(* The promise of malloc, free and realloc.                                *)

\* What the program knows of the block at p, and of all it holds.
Known(L, m, p) ==
  [bytes |-> L[p].bytes, data |-> [k \in 1 .. L[p].known |-> m[p + WSIZE * (k - 1)]]]
View(L, m) == [p \in DOMAIN L |-> Known(L, m, p)]

\* Blocks inside the arena that do not overlap.
Apart(L) ==
  \A p \in DOMAIN L :
    /\ p \in Payloads /\ p + L[p].bytes <= MAX_HEAP
    /\ \A q \in DOMAIN L \ {p} : p + L[p].bytes <= q \/ q + L[q].bytes <= p

\* What the program holds lies inside the blocks of the heap.
LEMMA HeldApart ==
  ASSUME NEW m, NEW brk, NEW B, Good(m, brk, B), NEW L, Owns(L, m, B), Typed(L)
  PROVE  Apart(L)
<1>1. /\ Tiles(m, brk, B) /\ DOMAIN L \subseteq B
      /\ \A p \in DOMAIN L : L[p].bytes + DWORD_SIZE <= Size(m, p) /\ L[p].bytes \in Nat
  <2>1. \A p \in DOMAIN L : L[p] \in Block
    BY DEF Typed
  <2>2. \A p \in DOMAIN L : L[p].bytes \in Nat
    BY <2>1, ImplicitListAssumption DEF Block
  <2> QED
    BY <2>2 DEF Good, Owns, Taken
<1>2. \A p \in B : p \in Nat /\ p \in Payloads /\ p + Size(m, p) <= brk /\ Size(m, p) \in Nat
  BY <1>1, BlockFacts
<1>3. brk \in Nat /\ brk <= MAX_HEAP /\ MAX_HEAP \in Nat
  BY GoodFacts, PayloadIs, MemLibAssumption
<1>4. \A p, q \in B : p < q => p + Size(m, p) <= q
  BY <1>1 DEF Tiles
<1>5. ASSUME NEW p \in DOMAIN L PROVE p \in Payloads /\ p + L[p].bytes <= MAX_HEAP
  BY <1>1, <1>2, <1>3 DEF DWORD_SIZE
<1>6. ASSUME NEW p \in DOMAIN L, NEW q \in DOMAIN L \ {p}
      PROVE  p + L[p].bytes <= q \/ q + L[q].bytes <= p
  <2>1. /\ p \in B /\ q \in B /\ p \in Nat /\ q \in Nat /\ p # q
        /\ Size(m, p) \in Nat /\ Size(m, q) \in Nat
        /\ L[p].bytes \in Nat /\ L[q].bytes \in Nat
        /\ L[p].bytes + DWORD_SIZE <= Size(m, p) /\ L[q].bytes + DWORD_SIZE <= Size(m, q)
    BY <1>1, <1>2
  <2>2. p < q \/ q < p
    BY <2>1
  <2>3. p < q => p + Size(m, p) <= q
    BY <1>4, <2>1
  <2>4. q < p => q + Size(m, q) <= p
    BY <1>4, <2>1
  <2> QED
    BY <2>1, <2>2, <2>3, <2>4 DEF DWORD_SIZE
<1> QED
  BY <1>5, <1>6 DEF Apart

\* The words the program knows lie between the tags of its blocks.
LEMMA KnownWords ==
  ASSUME NEW m, NEW brk, NEW B, Good(m, brk, B), NEW L, Owns(L, m, B), Typed(L),
         NEW p \in DOMAIN L, NEW k \in 1 .. L[p].known
  PROVE  LET a == p + WSIZE * (k - 1) IN
         a \in Words /\ p <= a /\ a + WSIZE <= p + L[p].bytes /\ a < p + Size(m, p) - DWORD_SIZE
<1>1. /\ L[p] \in Block /\ WSIZE * L[p].known <= L[p].bytes /\ p \in Payloads
      /\ L[p].bytes + DWORD_SIZE <= Size(m, p) /\ p \in B
  BY DEF Typed, Owns, Taken
<1>2. L[p].known \in Nat /\ L[p].bytes \in Nat
  BY <1>1, ImplicitListAssumption DEF Block
<1>3. /\ p \in Nat /\ p % DWORD_SIZE = 0 /\ Size(m, p) \in Nat /\ brk \in Nat
      /\ p + Size(m, p) <= brk /\ brk <= MAX_HEAP
  BY <1>1, BlockFacts, GoodFacts DEF Good
<1>4. k \in Nat /\ 1 <= k /\ k <= L[p].known
  BY <1>2
<1> DEFINE a == p + WSIZE * (k - 1)
<1>5. a \in Nat /\ p <= a /\ a % 8 = 0 /\ a + 8 <= p + L[p].bytes
  BY <1>1, <1>2, <1>3, <1>4 DEF WSIZE, DWORD_SIZE
<1> HIDE DEF a
<1>6. a + 8 <= MAX_HEAP /\ a < p + Size(m, p) - DWORD_SIZE
  BY <1>1, <1>2, <1>3, <1>5, MemLibAssumption DEF DWORD_SIZE
<1>7. a \in Words
  BY <1>5, <1>6, WordIs DEF WSIZE
<1> QED
  BY <1>5, <1>6, <1>7 DEF a, WSIZE

\* A block that is kept shows what it showed.
LEMMA KnownKept ==
  ASSUME NEW m, NEW brk, NEW B, Good(m, brk, B), NEW L, Owns(L, m, B), Typed(L),
         NEW m2, NEW S, Keeps(m, m2, S), NEW p \in S \cap DOMAIN L, NEW L2, L2[p] = L[p]
  PROVE  Known(L2, m2, p) = Known(L, m, p)
<1>1. \A k \in 1 .. L[p].known : m2[p + WSIZE * (k - 1)] = m[p + WSIZE * (k - 1)]
  <2> SUFFICES ASSUME NEW k \in 1 .. L[p].known
               PROVE  m2[p + WSIZE * (k - 1)] = m[p + WSIZE * (k - 1)]
    OBVIOUS
  <2> DEFINE a == p + WSIZE * (k - 1)
  <2>1. a \in Words /\ p <= a /\ a < p + Size(m, p) - DWORD_SIZE
    BY KnownWords
  <2> HIDE DEF a
  <2>2. m2[a] = m[a]
    BY <2>1 DEF Keeps
  <2> QED
    BY <2>2 DEF a
<1> QED
  BY <1>1 DEF Known

\* The heap after mm_malloc, given what the program held before.
LEMMA MallocHolds ==
  ASSUME HeapInv, misread = FALSE, NEW size \in Requests, Malloc(size), misread' = FALSE
  PROVE  \/ live' = live /\ Keeps(mem, mem', DOMAIN live)
         \/ /\ size # 0 /\ Keeps(mem, mem', DOMAIN live)
            /\ \E bp \in Payloads \ DOMAIN live : live' = Held(DOMAIN live, bp, size, 0)
<1>1. PICK m, brk, x : \E B \in SUBSET Payloads :
        Current = Heap(m, brk, FALSE, x) /\ Good(m, brk, B) /\ Owns(live, m, B)
  BY CurrentIs DEF Malloc
<1>2. PICK B \in SUBSET Payloads :
        Current = Heap(m, brk, FALSE, x) /\ Good(m, brk, B) /\ Owns(live, m, B)
  BY <1>1
<1>3. Keeps(mem, m, DOMAIN live)
  <2>1. CASE heap_listp = NULL
    <3>1. DOMAIN live = {}
      BY <2>1 DEF HeapInv
    <3> QED
      BY <3>1 DEF Keeps
  <2>2. CASE heap_listp # NULL
    <3>1. Heap(m, brk, FALSE, x) = Heap(mem, mem_brk, FALSE, NULL)
      BY <1>2, <2>2 DEF Current
    <3>2. m = mem
      BY <3>1 DEF Heap
    <3> QED
      BY <3>2 DEF Keeps
  <2> QED
    BY <2>1, <2>2
<1>4. Taken(m, B) = DOMAIN live
  BY <1>2 DEF Owns
<1>5. CASE size = 0
  <2>1. mem' = m /\ live' = live
    BY <1>2, <1>5 DEF Malloc, Becomes, Heap
  <2> QED
    BY <1>3, <2>1
<1>6. CASE size # 0
  <2> DEFINE r == Obtain(Heap(m, brk, FALSE, x), size)
  <2>1. /\ mem' = r.mem /\ misread' = r.lost
        /\ live' = IF r.bp = NULL THEN live ELSE Held(DOMAIN live, r.bp, size, 0)
    BY <1>2, <1>6 DEF Malloc, Becomes
  <2>2. Obtained(m, brk, B, r, size)
    BY <1>2, <1>6, ObtainGives
  <2> HIDE DEF r
  <2>3. r.lost = FALSE
    BY <2>1
  <2>4. CASE r.bp = NULL
    <3>1. mem' = m /\ live' = live
      BY <2>1, <2>2, <2>3, <2>4 DEF Obtained
    <3> QED
      BY <1>3, <3>1
  <2>5. CASE r.bp # NULL
    <3>1. /\ r.bp \notin DOMAIN live /\ Keeps(m, r.mem, DOMAIN live)
          /\ \E C \in SUBSET Payloads : r.bp \in C
      BY <1>4, <2>2, <2>3, <2>5 DEF Obtained
    <3>2. Keeps(mem, r.mem, DOMAIN live)
      BY <1>3, <3>1, KeepsTwice
    <3> QED
      BY <1>6, <2>1, <2>5, <3>1, <3>2
  <2> QED
    BY <2>4, <2>5
<1> QED
  BY <1>5, <1>6

\* The blocks of the promise are those of the program.
LEMMA ContentsAre == Contents = View(live, mem) /\ Contents' = View(live', mem')
  BY DEF Contents, View, Known

\* What holds of the program's blocks once the invariant does.
LEMMA NextApart == ASSUME HeapInv', misread' = FALSE PROVE Apart(live')
<1>1. CASE DOMAIN live' = {}
  BY <1>1 DEF Apart
<1>2. CASE DOMAIN live' # {}
  <2>1. PICK B \in SUBSET Payloads :
          Good(mem', mem_brk', B) /\ Owns(live', mem', B) /\ Typed(live')
    BY <1>2 DEF HeapInv
  <2> QED
    BY <2>1, HeldApart
<1> QED
  BY <1>1, <1>2

\* What the program holds and keeps shows what it showed.
LEMMA ViewKept ==
  ASSUME HeapInv, misread = FALSE, NEW S, Keeps(mem, mem', S),
         NEW p \in S \cap DOMAIN live, live'[p] = live[p]
  PROVE  Known(live', mem', p) = Known(live, mem, p)
<1>1. PICK B \in SUBSET Payloads :
        Good(mem, mem_brk, B) /\ Owns(live, mem, B) /\ Typed(live)
  BY DEF HeapInv
<1> QED
  BY <1>1, KnownKept

\* A new block where nothing is held, and nothing else changed.
LEMMA MallocRefines ==
  ASSUME HeapInv, misread = FALSE, HeapInv', misread' = FALSE, NEW size \in Requests, Malloc(size)
  PROVE  Contents' = Contents
           \/ \E a \in Promise!Addresses, bytes \in Requests \ {0} : Promise!Allocate(a, bytes)
<1>1. CASE live' = live /\ Keeps(mem, mem', DOMAIN live)
  <2>1. \A p \in DOMAIN live : Known(live', mem', p) = Known(live, mem, p)
    BY <1>1, ViewKept
  <2>2. View(live', mem') = View(live, mem)
    BY <1>1, <2>1 DEF View
  <2> QED
    BY <2>2, ContentsAre
<1>2. ASSUME size # 0, Keeps(mem, mem', DOMAIN live),
             NEW bp \in Payloads \ DOMAIN live, live' = Held(DOMAIN live, bp, size, 0)
      PROVE  \E a \in Promise!Addresses, bytes \in Requests \ {0} : Promise!Allocate(a, bytes)
  <2>1. /\ DOMAIN live' = DOMAIN live \cup {bp} /\ live'[bp] = [bytes |-> size, known |-> 0]
        /\ \A q \in DOMAIN live \ {bp} : live'[q] = live[q]
        /\ Known(live', mem', bp) = [bytes |-> size,
                                     data |-> [k \in 1 .. 0 |-> mem'[bp + WSIZE * (k - 1)]]]
    <3>1. /\ DOMAIN live' = DOMAIN live \cup {bp} /\ live'[bp] = [bytes |-> size, known |-> 0]
          /\ \A q \in DOMAIN live \ {bp} : live'[q] = live[q]
      BY <1>2 DEF Held
    <3> QED
      BY <3>1 DEF Known
  <2>2. \A q \in DOMAIN live : live'[q] = live[q] /\ Known(live', mem', q) = Known(live, mem, q)
    BY <1>2, <2>1, ViewKept
  <2>3. Known(live', mem', bp) = [bytes |-> size, data |-> <<>>]
    <3>1. [k \in 1 .. 0 |-> mem'[bp + WSIZE * (k - 1)]] = <<>>
      OBVIOUS
    <3> QED
      BY <2>1, <3>1
  <2>4. View(live', mem') = [q \in DOMAIN live \cup {bp} |->
                               IF q = bp THEN [bytes |-> size, data |-> <<>>]
                               ELSE View(live, mem)[q]]
    BY <2>1, <2>2, <2>3 DEF View
  <2>5. /\ DOMAIN View(live, mem) = DOMAIN live
        /\ \A q \in DOMAIN live : View(live, mem)[q].bytes = live[q].bytes
    BY DEF View, Known
  <2>6. /\ bp + size <= MAX_HEAP
        /\ \A q \in DOMAIN live : bp + size <= q \/ q + live[q].bytes <= bp
    <3>1. Apart(live')
      BY NextApart
    <3>2. /\ bp + live'[bp].bytes <= MAX_HEAP
          /\ \A q \in DOMAIN live' \ {bp} : bp + live'[bp].bytes <= q \/ q + live'[q].bytes <= bp
      BY <2>1, <3>1 DEF Apart
    <3> QED
      BY <1>2, <2>1, <2>2, <3>2
  <2>7. Promise!Allocate(bp, size)
    BY <2>4, <2>5, <2>6, ContentsAre DEF Promise!Allocate, Promise!Free, Promise!With
  <2>8. bp \in Promise!Addresses /\ size \in Requests \ {0}
    BY <1>2 DEF Promise!Addresses, Payloads
  <2> QED
    BY <2>7, <2>8
<1> QED
  BY <1>1, <1>2, MallocHolds

\* A block less.
LEMMA FreeRefines ==
  ASSUME HeapInv, misread = FALSE, NEW p \in DOMAIN live, Free(p), misread' = FALSE
  PROVE  Promise!Release(p) /\ p \in DOMAIN Contents
<1> DEFINE f == Freed(mem, mem_brk, p)
           L == [q \in DOMAIN live \ {p} |-> live[q]]
<1>1. mem' = f.mem /\ misread' = f.lost /\ live' = L
  BY DEF Free, Becomes
<1>2. PICK B \in SUBSET Payloads : Good(mem, mem_brk, B) /\ Owns(live, mem, B)
  BY DEF HeapInv
<1>3. Taken(mem, B) = DOMAIN live
  BY <1>2 DEF Owns
<1>4. Keeps(mem, f.mem, DOMAIN live \ {p})
  <2>1. \/ f.lost = TRUE
        \/ \E C \in SUBSET Payloads : Keeps(mem, f.mem, Taken(mem, B) \ {p})
    BY <1>2, <1>3, FreedGives
  <2> HIDE DEF f
  <2> QED
    BY <1>1, <1>3, <2>1
<1> HIDE DEF f
<1>5. Keeps(mem, mem', DOMAIN live \ {p})
  BY <1>1, <1>4
<1>6. DOMAIN live' = DOMAIN live \ {p} /\ \A q \in DOMAIN live \ {p} : live'[q] = live[q]
  BY <1>1
<1> HIDE DEF L
<1>7. \A q \in DOMAIN live \ {p} : Known(live', mem', q) = Known(live, mem, q)
  BY <1>5, <1>6, ViewKept
<1>8. View(live', mem') = [q \in DOMAIN View(live, mem) \ {p} |-> View(live, mem)[q]]
  BY <1>6, <1>7 DEF View
<1>9. p \in DOMAIN View(live, mem)
  BY DEF View
<1> QED
  BY <1>8, <1>9, ContentsAre DEF Promise!Release

\* Every word of a block written, and no other block changed.
LEMMA FillRefines ==
  ASSUME HeapInv, misread = FALSE, NEW p \in DOMAIN live, NEW v \in Values, Fill(p, v)
  PROVE  Promise!Write(p, v) /\ p \in DOMAIN Contents
<1> DEFINE n == live[p].bytes \div WSIZE
<1>1. PICK B \in SUBSET Payloads :
        Good(mem, mem_brk, B) /\ Owns(live, mem, B) /\ Typed(live)
  BY DEF HeapInv
<1>2. /\ live[p] \in Block /\ p \in B /\ live[p].bytes \in Nat /\ live[p].bytes % WSIZE = 0
      /\ live[p].bytes + DWORD_SIZE <= Size(mem, p) /\ p \in Nat
  <2>1. live[p] \in Block /\ p \in B /\ live[p].bytes + DWORD_SIZE <= Size(mem, p) /\ p \in Payloads
    BY <1>1 DEF Typed, Owns, Taken
  <2> QED
    BY <2>1, PayloadIs, ImplicitListAssumption DEF Block
<1>3. /\ DOMAIN live' = DOMAIN live /\ live'[p].bytes = live[p].bytes /\ live'[p].known = n
      /\ \A q \in DOMAIN live \ {p} : live'[q] = live[q]
  <2>1. live' = [live EXCEPT ![p] = [live[p] EXCEPT !.known = n]]
    BY DEF Fill
  <2>2. DOMAIN live' = DOMAIN live /\ live'[p] = [live[p] EXCEPT !.known = n]
        /\ \A q \in DOMAIN live \ {p} : live'[q] = live[q]
    BY <1>1, <2>1 DEF Typed
  <2> QED
    BY <1>2, <2>2 DEF Block
<1>4. n \in Nat /\ WSIZE * n = live[p].bytes
  BY <1>2 DEF WSIZE
<1> HIDE DEF n
<1>5. \A a \in Words : p <= a /\ a < p + live[p].bytes => mem'[a] = v
  BY <1>2, WordIs DEF Fill
<1>6. \A k \in 1 .. n : mem'[p + WSIZE * (k - 1)] = v
  <2> SUFFICES ASSUME NEW k \in 1 .. n PROVE mem'[p + WSIZE * (k - 1)] = v
    OBVIOUS
  <2> DEFINE a == p + WSIZE * (k - 1)
  <2>1. a \in Words /\ p <= a /\ a + WSIZE <= p + live[p].bytes
    <3>1. p \in Payloads /\ p + live[p].bytes + DWORD_SIZE <= MAX_HEAP
      <4>1. p + Size(mem, p) <= mem_brk /\ Size(mem, p) \in Nat
        BY <1>1, <1>2, BlockFacts DEF Good
      <4>2. mem_brk \in Nat /\ mem_brk <= MAX_HEAP /\ MAX_HEAP \in Nat
        BY <1>1, GoodFacts, PayloadIs, MemLibAssumption
      <4>3. p \in Payloads
        BY <1>1 DEF Typed
      <4> QED
        BY <1>2, <4>1, <4>2, <4>3 DEF DWORD_SIZE
    <3>2. p % 8 = 0 /\ k \in Nat /\ 1 <= k /\ k <= n
      <4>1. p \in Nat /\ p % 16 = 0
        BY <3>1, PayloadIs DEF DWORD_SIZE
      <4>2. p % 8 = 0
        BY <4>1
      <4> QED
        BY <1>4, <4>2
    <3>3. a \in Nat /\ p <= a /\ a % 8 = 0 /\ a + 8 <= p + live[p].bytes
      BY <1>2, <1>4, <3>2 DEF WSIZE
    <3> HIDE DEF a
    <3>4. a + 8 <= MAX_HEAP
      BY <1>2, <3>1, <3>3, MemLibAssumption DEF DWORD_SIZE
    <3> QED
      BY <3>3, <3>4, WordIs DEF WSIZE
  <2> HIDE DEF a
  <2>2. a \in Nat
    BY <2>1, WordIs
  <2>3. mem'[a] = v
    BY <1>2, <1>5, <2>1, <2>2 DEF WSIZE
  <2> QED
    BY <2>3 DEF a
<1>7. Keeps(mem, mem', DOMAIN live \ {p})
  <2> DEFINE m2 == mem'
  <2>1. DataOnly(mem, m2, p)
    <3>1. m2 \in Memory
      BY ImplicitListAssumption DEF HeapInv, Fill, Memory
    <3>2. \A a \in Words : a < p \/ a >= p + Size(mem, p) - DWORD_SIZE => m2[a] = mem[a]
      <4> SUFFICES ASSUME NEW a \in Words, a < p \/ a >= p + Size(mem, p) - DWORD_SIZE
                   PROVE  mem'[a] = mem[a]
        OBVIOUS
      <4>1. a \in Nat /\ Size(mem, p) \in Nat
        BY <1>1, <1>2, BlockFacts, WordIs DEF Good
      <4>2. a \notin p .. p + live[p].bytes - 1
        BY <1>2, <4>1 DEF DWORD_SIZE
      <4> QED
        BY <4>2 DEF Fill
    <3> QED
      BY <3>1, <3>2 DEF DataOnly
  <2> HIDE DEF m2
  <2>2. Good(mem, mem_brk, B) /\ p \in B
    BY <1>1, <1>2
  <2>3. Keeps(mem, m2, B \ {p})
    BY <2>1, <2>2, DataWritten
  <2>4. DOMAIN live \subseteq B
    BY <1>1 DEF Owns, Taken
  <2> QED
    BY <2>3, <2>4 DEF m2, Keeps
<1>8. \A q \in DOMAIN live \ {p} : Known(live', mem', q) = Known(live, mem, q)
  BY <1>3, <1>7, ViewKept
<1>9. Known(live', mem', p) = [bytes |-> live[p].bytes, data |-> [k \in 1 .. n |-> v]]
  BY <1>3, <1>6 DEF Known
<1>10. View(live', mem') = [View(live, mem) EXCEPT ![p].data =
                              [k \in 1 .. View(live, mem)[p].bytes \div WSIZE |-> v]]
  <2> DEFINE V == View(live, mem)
             d == [k \in 1 .. n |-> v]
  <2>1. V = [q \in DOMAIN live |-> Known(live, mem, q)]
    BY DEF View
  <2>2. [V[p] EXCEPT !.data = d] = [bytes |-> live[p].bytes, data |-> d]
    <3>1. \A b, x, y : [[bytes |-> b, data |-> x] EXCEPT !.data = y] = [bytes |-> b, data |-> y]
      OBVIOUS
    <3>2. V[p] = Known(live, mem, p)
      BY <2>1
    <3> HIDE DEF V, d
    <3> QED
      BY <3>1, <3>2 DEF Known
  <2>3. V[p].bytes \div WSIZE = n
    BY <2>1 DEF Known, n
  <2>4. View(live', mem') = [q \in DOMAIN live |-> Known(live', mem', q)]
    BY <1>3 DEF View
  <2> HIDE DEF V, d
  <2>5. View(live', mem') = [V EXCEPT ![p] = [V[p] EXCEPT !.data = d]]
    BY <1>8, <1>9, <2>1, <2>2, <2>4 DEF d
  <2> QED
    BY <2>3, <2>5 DEF V, d
<1>11. p \in DOMAIN View(live, mem)
  BY DEF View
<1> QED
  BY <1>10, <1>11, ContentsAre DEF Promise!Write

\* The heap given back, or a heap of which the program holds nothing.
LEMMA RestRefines ==
  /\ Stop => Promise!Discard
  /\ HeapInv /\ misread = FALSE /\ Start => Contents' = Contents
  /\ UNCHANGED vars => Contents' = Contents
<1>1. \A m, L : DOMAIN L = {} => View(L, m) = <<>>
  BY DEF View
<1>2. DOMAIN <<>> = {}
  OBVIOUS
<1>3. Stop => Contents' = <<>>
  BY <1>1, <1>2, ContentsAre DEF Stop
<1>4. HeapInv /\ misread = FALSE /\ Start => Contents' = Contents
  <2> SUFFICES ASSUME HeapInv, misread = FALSE, Start PROVE Contents' = Contents
    OBVIOUS
  <2>1. DOMAIN live = {} /\ live' = live
    BY DEF HeapInv, Start
  <2> QED
    BY <1>1, <2>1, ContentsAre
<1>5. UNCHANGED vars => Contents' = Contents
  BY ContentsAre DEF vars
<1> QED
  BY <1>3, <1>4, <1>5 DEF Promise!Discard

\* A realloc that was followed to its end, where it left c.
Relocated(r, p, size, c) ==
  /\ r.lost = FALSE /\ r.bp # NULL
  /\ c = Freed(Moved(r, p, size), r.brk, p) /\ c.lost = FALSE

\* The first n words at a in m2 are those at b in m.
SameWords(m2, a, m, b, n) == \A k \in 1 .. n : m2[a + WSIZE * (k - 1)] = m[b + WSIZE * (k - 1)]

\* The words the program knew and the new block has room for are in it.
LEMMA CopyArrives ==
  ASSUME NEW m, NEW brk, NEW B, Good(m, brk, B), NEW p \in Taken(m, B),
         NEW size \in Requests \ {0}, NEW r, Obtained(m, brk, B, r, size),
         NEW c, Relocated(r, p, size, c),
         NEW n \in Nat, WSIZE * n <= size, WSIZE * n + DWORD_SIZE <= Size(m, p)
  PROVE  SameWords(c.mem, r.bp, m, p, n)
<1> DEFINE w  == Moved(r, p, size)
           bp == r.bp
           n0 == First({size, Size(r.mem, p)})
<1>1. r.lost = FALSE /\ r.bp # NULL /\ c = Freed(w, r.brk, p) /\ c.lost = FALSE
  BY DEF Relocated
<1>2. PICK C \in SUBSET Payloads :
        /\ Good(r.mem, r.brk, C) /\ bp \in C /\ p \in C
        /\ Keeps(m, r.mem, Taken(m, B)) /\ Size(r.mem, bp) >= size + DWORD_SIZE
  BY <1>1, ReallocGives
<1>3. bp \notin Taken(m, B) /\ Keeps(w, c.mem, {bp}) /\ Size(c.mem, bp) >= size + DWORD_SIZE
  BY <1>1, ReallocGives
<1>4. size \in Nat /\ p # bp
  BY <1>3, ImplicitListAssumption
<1>5. /\ n0 \in Nat
      /\ \A a \in Words : bp <= a /\ a < bp + n0 => w[a] = r.mem[p + (a - bp)]
  BY <1>2, <1>4, MovedGives
<1>6. Size(r.mem, p) = Size(m, p)
  BY <1>2 DEF Keeps
<1>7. /\ bp \in Nat /\ bp % DWORD_SIZE = 0 /\ bp + Size(r.mem, bp) <= r.brk /\ r.brk <= MAX_HEAP
      /\ Size(r.mem, bp) \in Nat /\ r.brk \in Nat
  <2>1. Tiles(r.mem, r.brk, C) /\ r.brk \in Nat
    BY <1>2, GoodFacts DEF Good
  <2> QED
    BY <1>2, <2>1, BlockFacts
<1>8. /\ p \in Nat /\ p % DWORD_SIZE = 0 /\ p + Size(m, p) <= brk /\ brk <= MAX_HEAP
      /\ Size(m, p) \in Nat /\ brk \in Nat
  <2>1. Tiles(m, brk, B) /\ brk \in Nat /\ p \in B
    BY GoodFacts DEF Good, Taken
  <2> QED
    BY <2>1, BlockFacts
<1>9. WSIZE * n <= n0
  <2>1. n0 \in {size, Size(r.mem, p)}
    BY <1>4, <1>6, <1>8, SmallerIs
  <2> QED
    BY <1>4, <1>6, <1>8, <2>1 DEF WSIZE, DWORD_SIZE
<1>10. Size(w, bp) = Size(c.mem, bp)
  BY <1>3 DEF Keeps
<1>11. Size(c.mem, bp) \in Int
  <2>1. /\ DataOnly(r.mem, w, bp) /\ Good(r.mem, r.brk, C) /\ bp \in C
    BY <1>2, <1>4, MovedGives
  <2> HIDE DEF w
  <2>2. SameSizes(r.mem, w, C)
    BY <2>1, DataWritten
  <2> QED
    BY <1>2, <1>7, <1>10, <2>2 DEF SameSizes
<1> HIDE DEF w, n0
<1>12. ASSUME NEW k \in 1 .. n
       PROVE  c.mem[bp + WSIZE * (k - 1)] = m[p + WSIZE * (k - 1)]
  <2> DEFINE a == bp + WSIZE * (k - 1)
             b == p + WSIZE * (k - 1)
  <2>1. k \in Nat /\ 1 <= k /\ k <= n
    OBVIOUS
  <2>2. /\ a \in Nat /\ bp <= a /\ a % 8 = 0 /\ a + 8 <= bp + 8 * n
        /\ b \in Nat /\ p <= b /\ b % 8 = 0 /\ b + 8 <= p + 8 * n /\ b = p + (a - bp)
    <3> DEFINE d == WSIZE * (k - 1)
    <3>1. d \in Nat /\ d % 8 = 0 /\ d + 8 <= 8 * n
      BY <2>1 DEF WSIZE
    <3>2. a = bp + d /\ b = p + d
      OBVIOUS
    <3>3. bp \in Nat /\ bp % 8 = 0 /\ p \in Nat /\ p % 8 = 0
      BY <1>7, <1>8 DEF DWORD_SIZE
    <3> HIDE DEF a, b, d, bp
    <3> QED
      BY <3>1, <3>2, <3>3
  <2> HIDE DEF a, b, bp
  <2>3. /\ a + 8 <= MAX_HEAP /\ b + 8 <= MAX_HEAP
        /\ b < p + Size(m, p) - DWORD_SIZE /\ a < bp + n0 /\ a < bp + Size(c.mem, bp) - DWORD_SIZE
    BY <1>2, <1>3, <1>4, <1>5, <1>7, <1>8, <1>9, <1>11, <2>2, MemLibAssumption DEF WSIZE, DWORD_SIZE
  <2>4. a \in Words /\ b \in Words
    BY <2>2, <2>3, WordIs DEF WSIZE
  <2>5. c.mem[a] = w[a]
    BY <1>3, <1>10, <2>2, <2>3, <2>4 DEF Keeps
  <2>6. w[a] = r.mem[b]
    BY <1>5, <2>2, <2>3, <2>4
  <2>7. r.mem[b] = m[b]
    BY <1>2, <2>2, <2>3, <2>4 DEF Keeps
  <2> QED
    BY <2>5, <2>6, <2>7 DEF a, b
<1> QED
  BY <1>12 DEF SameWords, bp

\* The heap after mm_realloc, given what the program held before.
LEMMA ReallocHolds ==
  ASSUME HeapInv, misread = FALSE, NEW p \in DOMAIN live, NEW size \in Requests, Realloc(p, size),
         misread' = FALSE
  PROVE  LET n == First({live[p].known, size \div WSIZE}) IN
         \/ live' = live /\ mem' = mem
         \/ /\ size # 0 /\ Keeps(mem, mem', DOMAIN live \ {p}) /\ n \in Nat
            /\ \E bp \in Payloads \ DOMAIN live :
                 /\ live' = Held(DOMAIN live \ {p}, bp, size, n)
                 /\ \A k \in 1 .. n : mem'[bp + WSIZE * (k - 1)] = mem[p + WSIZE * (k - 1)]
<1> DEFINE r == Obtain(Heap(mem, mem_brk, FALSE, NULL), size)
           c == Freed(Moved(r, p, size), r.brk, p)
           n == First({live[p].known, size \div WSIZE})
<1>1. PICK B \in SUBSET Payloads :
        Good(mem, mem_brk, B) /\ Owns(live, mem, B) /\ Typed(live)
  BY DEF HeapInv
<1>2. size \in Nat /\ size > 0 /\ size \in Requests \ {0}
  BY ImplicitListAssumption DEF Realloc
<1>3. Obtained(mem, mem_brk, B, r, size)
  BY <1>1, <1>2, ObtainGives
<1>4. IF r.bp = NULL \/ r.lost THEN mem' = r.mem /\ misread' = r.lost /\ live' = live
      ELSE mem' = c.mem /\ misread' = c.lost /\ live' = Held(DOMAIN live \ {p}, r.bp, size, n)
  BY DEF Realloc, Becomes, Moved, Size
<1> HIDE DEF r
<1>5. r.lost = FALSE
  BY <1>3, <1>4 DEF Obtained
<1>6. CASE r.bp = NULL
  <2>1. mem' = mem /\ live' = live
    BY <1>3, <1>4, <1>6, <1>5 DEF Obtained
  <2> QED
    BY <2>1
<1>7. CASE r.bp # NULL
  <2>1. p \in Taken(mem, B) /\ Taken(mem, B) = DOMAIN live
    BY <1>1 DEF Owns
  <2>2. c.lost = FALSE
    <3> HIDE DEF c
    <3> QED
      BY <1>4, <1>7, <1>5
  <2>3. /\ r.bp \notin DOMAIN live /\ r.bp \in Payloads
        /\ Keeps(mem, c.mem, DOMAIN live \ {p})
    <3>1. /\ r.bp \notin Taken(mem, B) /\ r.bp \in Payloads
          /\ \/ c.lost = TRUE
             \/ \E D \in SUBSET Payloads : Keeps(mem, c.mem, Taken(mem, B) \ {p})
      BY <1>1, <1>2, <1>3, <1>7, <1>5, <2>1, ReallocGives
    <3> HIDE DEF c
    <3> QED
      BY <2>1, <2>2, <3>1
  <2>4. n \in Nat /\ WSIZE * n <= size /\ WSIZE * n + DWORD_SIZE <= Size(mem, p)
    <3>1. /\ live[p].known \in Nat /\ live[p].bytes \in Nat
          /\ WSIZE * live[p].known <= live[p].bytes /\ live[p].bytes + DWORD_SIZE <= Size(mem, p)
      BY <1>1, ImplicitListAssumption DEF Typed, Block, Owns
    <3>2. size \div WSIZE \in Nat /\ WSIZE * (size \div WSIZE) <= size
      BY <1>2 DEF WSIZE
    <3>3. n \in Nat /\ n <= size \div WSIZE /\ n <= live[p].known
      BY <3>1, <3>2, SmallerIs
    <3>4. Size(mem, p) \in Nat
      <4>1. Tiles(mem, mem_brk, B) /\ p \in B
        BY <1>1, <2>1 DEF Good, Taken
      <4> QED
        BY <4>1, BlockFacts
    <3> HIDE DEF n
    <3> QED
      BY <1>2, <3>1, <3>2, <3>3, <3>4 DEF WSIZE, DWORD_SIZE
  <2>5. Relocated(r, p, size, c)
    BY <1>7, <1>5, <2>2 DEF Relocated
  <2> HIDE DEF n, c
  <2>6. \A k \in 1 .. n : c.mem[r.bp + WSIZE * (k - 1)] = mem[p + WSIZE * (k - 1)]
    <3>1. Good(mem, mem_brk, B) /\ p \in Taken(mem, B) /\ size \in Requests \ {0}
      BY <1>1, <1>2, <2>1
    <3>2. SameWords(c.mem, r.bp, mem, p, n)
      BY <1>3, <2>4, <2>5, <3>1, CopyArrives
    <3> QED
      BY <3>2 DEF SameWords
  <2>7. mem' = c.mem /\ live' = Held(DOMAIN live \ {p}, r.bp, size, n)
    BY <1>4, <1>7, <1>5
  <2> QED
    BY <1>2, <2>3, <2>4, <2>6, <2>7 DEF n
<1> QED
  BY <1>6, <1>7

\* The first words of what the program knew.
LEMMA PrefixIs ==
  ASSUME NEW m, NEW a, NEW len \in Nat, NEW n \in Nat, n <= len
  PROVE  LET s == [k \in 1 .. len |-> m[a + WSIZE * (k - 1)]] IN
         Len(s) = len /\ SubSeq(s, 1, n) = [k \in 1 .. n |-> m[a + WSIZE * (k - 1)]]
<1> DEFINE s == [k \in 1 .. len |-> m[a + WSIZE * (k - 1)]]
           t == [k \in 1 .. n |-> m[a + WSIZE * (k - 1)]]
           T == {m[a + WSIZE * (k - 1)] : k \in 1 .. len}
<1>1. s \in Seq(T) /\ Len(s) = len
  <2>1. s \in [1 .. len -> T]
    OBVIOUS
  <2> HIDE DEF s, T
  <2> QED
    BY <2>1
<1>2. \A k \in 1 .. n : s[k] = t[k]
  OBVIOUS
<1>3. DOMAIN t = 1 .. n /\ t = [k \in 1 .. n |-> t[k]]
  OBVIOUS
<1> HIDE DEF s, t
<1>4. SubSeq(s, 1, n) = [k \in 1 .. n |-> s[k]]
  BY <1>1
<1> QED
  BY <1>1, <1>3, <1>4, <1>2 DEF s, t

\* One block exchanged for another with its first words, or nothing changed.
LEMMA ReallocRefines ==
  ASSUME HeapInv, misread = FALSE, HeapInv', misread' = FALSE,
         NEW p \in DOMAIN live, NEW size \in Requests, Realloc(p, size)
  PROVE  \/ Contents' = Contents
         \/ /\ p \in DOMAIN Contents
            /\ \E b \in Promise!Addresses, bytes \in Requests \ {0} : Promise!Resize(p, b, bytes)
<1> DEFINE n == First({live[p].known, size \div WSIZE})
           others == DOMAIN live \ {p}
           data(m, a, len) == [k \in 1 .. len |-> m[a + WSIZE * (k - 1)]]
<1>1. CASE live' = live /\ mem' = mem
  BY <1>1, ContentsAre
<1>2. ASSUME size # 0, Keeps(mem, mem', others), n \in Nat,
             NEW bp \in Payloads \ DOMAIN live, live' = Held(others, bp, size, n),
             \A k \in 1 .. n : mem'[bp + WSIZE * (k - 1)] = mem[p + WSIZE * (k - 1)]
      PROVE  /\ p \in DOMAIN Contents
             /\ \E b \in Promise!Addresses, bytes \in Requests \ {0} :
                  Promise!Resize(p, b, bytes)
  <2> DEFINE V == View(live, mem)
  <2>1. /\ DOMAIN live' = others \cup {bp} /\ live'[bp] = [bytes |-> size, known |-> n]
        /\ \A q \in others : live'[q] = live[q] /\ q # bp
    BY <1>2 DEF Held
  <2>2. \A q \in others : Known(live', mem', q) = Known(live, mem, q)
    BY <1>2, <2>1, ViewKept
  <2>3. live[p].known \in Nat /\ size \in Nat /\ size \div WSIZE \in Nat /\ n <= live[p].known
    <3>1. live[p].known \in Nat
      BY DEF HeapInv, Typed, Block
    <3>2. size \in Nat /\ size \div WSIZE \in Nat
      BY ImplicitListAssumption DEF WSIZE
    <3> QED
      BY <3>1, <3>2, SmallerIs
  <2>4. /\ DOMAIN V = DOMAIN live /\ \A q \in DOMAIN live : V[q].bytes = live[q].bytes
        /\ V[p].data = data(mem, p, live[p].known)
    BY DEF View, Known
  <2>5. n = LET kept == {size \div WSIZE, Len(V[p].data)}
            IN  CHOOSE k \in kept : \A j \in kept : k <= j
    <3>1. Len(V[p].data) = live[p].known
      BY <2>3, <2>4, PrefixIs
    <3>2. {live[p].known, size \div WSIZE} = {size \div WSIZE, live[p].known}
      OBVIOUS
    <3> HIDE DEF V
    <3> QED
      BY <3>1, <3>2 DEF First
  <2>6. Known(live', mem', bp) = [bytes |-> size, data |-> SubSeq(V[p].data, 1, n)]
    <3> HIDE DEF n
    <3>1. SubSeq(V[p].data, 1, n) = data(mem, p, n)
      BY <1>2, <2>3, <2>4, PrefixIs
    <3>2. data(mem', bp, n) = data(mem, p, n)
      BY <1>2
    <3>3. Known(live', mem', bp) = [bytes |-> live'[bp].bytes, data |-> data(mem', bp, live'[bp].known)]
      BY DEF Known
    <3>4. live'[bp].bytes = size /\ live'[bp].known = n
      BY <2>1
    <3> HIDE DEF V, data
    <3> QED
      BY <3>1, <3>2, <3>3, <3>4
  <2>7. View(live', mem') = [q \in others \cup {bp} |->
                               IF q = bp THEN [bytes |-> size, data |-> SubSeq(V[p].data, 1, n)]
                               ELSE V[q]]
    <3>1. \A q \in others : V[q] = Known(live, mem, q)
      BY DEF View
    <3> HIDE DEF V, n
    <3> QED
      BY <2>1, <2>2, <2>6, <3>1 DEF View
  <2>8. /\ bp + size <= MAX_HEAP
        /\ \A q \in others : bp + size <= q \/ q + V[q].bytes <= bp
    <3>1. Apart(live')
      BY NextApart
    <3>2. /\ bp + live'[bp].bytes <= MAX_HEAP
          /\ \A q \in DOMAIN live' \ {bp} : bp + live'[bp].bytes <= q \/ q + live'[q].bytes <= bp
      BY <2>1, <3>1 DEF Apart
    <3> HIDE DEF V, n
    <3> QED
      BY <2>1, <2>4, <3>2
  <2>9. Contents = V /\ Contents' = View(live', mem')
    BY ContentsAre
  <2> HIDE DEF V, n
  <2>10. Promise!Resize(p, bp, size)
    <3>1. Promise!Free(bp, size, others)
      BY <2>8, <2>9 DEF Promise!Free
    <3>2. Contents' = Promise!With(others, bp, size, SubSeq(Contents[p].data, 1, n))
      BY <2>7, <2>9 DEF Promise!With
    <3>3. others = DOMAIN Contents \ {p}
      BY <2>4, <2>9
    <3> HIDE DEF others
    <3> QED
      BY <2>5, <2>9, <3>1, <3>2, <3>3 DEF Promise!Resize
  <2>11. bp \in Promise!Addresses /\ size \in Requests \ {0} /\ p \in DOMAIN Contents
    BY <1>2, <2>4, <2>9 DEF Promise!Addresses, Payloads
  <2> QED
    BY <2>10, <2>11
<1> QED
  BY <1>1, <1>2, ReallocHolds

\* The promise of malloc, free and realloc, call by call (mm.c:177-316): unless
\* prev_payload misled coalesce in that call, the blocks the program holds are
\* aligned, lie inside the heap, do not overlap and keep what was written to
\* them until they are freed; a resized block begins with the words of the old
\* one, and a request that fails changes nothing.  A misreading is the only way
\* in which a call can break it.
THEOREM PromiseKept == Spec => PromiseUnlessMisled
<1>1. HeapInv /\ HeapInv' /\ [Next]_vars => [misread' \/ Promise!Next]_Contents
  <2> SUFFICES ASSUME HeapInv, HeapInv', [Next]_vars, ~misread'
               PROVE  Promise!Next \/ Contents' = Contents
    OBVIOUS
  <2>1. CASE UNCHANGED vars
    BY <2>1, RestRefines
  <2>2. CASE Call /\ ~misread
    <3>1. misread = FALSE /\ misread' = FALSE
      BY <2>2 DEF HeapInv
    <3>2. CASE Start
      BY <3>1, <3>2, RestRefines
    <3>3. CASE Stop
      BY <3>3, RestRefines DEF Promise!Next
    <3>4. ASSUME NEW size \in Requests, Malloc(size)
          PROVE  Promise!Next \/ Contents' = Contents
      BY <3>1, <3>4, MallocRefines DEF Promise!Next
    <3>5. ASSUME NEW p \in DOMAIN live, Free(p)
          PROVE  Promise!Next
      BY <3>1, <3>5, FreeRefines DEF Promise!Next
    <3>6. ASSUME NEW p \in DOMAIN live, NEW size \in Requests, Realloc(p, size)
          PROVE  Promise!Next \/ Contents' = Contents
      BY <3>1, <3>6, ReallocRefines DEF Promise!Next
    <3>7. ASSUME NEW p \in DOMAIN live, NEW v \in Values, Fill(p, v)
          PROVE  Promise!Next
      BY <3>1, <3>7, FillRefines DEF Promise!Next
    <3> QED
      BY <2>2, <3>2, <3>3, <3>4, <3>5, <3>6, <3>7 DEF Call
  <2> QED
    BY <2>1, <2>2 DEF Next
<1> QED
  BY <1>1, HeapInvariance, PTL DEF Spec, PromiseUnlessMisled
=============================================================================
