------------------------- MODULE ExplicitListProofs -------------------------
(***************************************************************************)
(* The explicit list allocator for every arena, chunk size and list of     *)
(* requests.  The list never has a second member: every free block, and    *)
(* the prologue, is linked to itself, so find_fit finds nothing, every     *)
(* request grows the heap, and unlinking a block changes no word.  From    *)
(* that follows that the heap stays tiled, that the blocks held are those  *)
(* allocated at both ends, that addresses increase, and that every call    *)
(* which stores no link astray and does not fault keeps the promise of     *)
(* malloc, free and realloc.                                               *)
(*                                                                         *)
(* The tags of a block agree in their sizes only: coalesce may leave the   *)
(* allocated bit in the header or in the footer of a block it frees.  What *)
(* a call does to the heap is stated as a change of the words between two  *)
(* places, the blocks outside keep every word.                             *)
(***************************************************************************)
EXTENDS ExplicitList, WellFoundedInduction, TLAPS

-----------------------------------------------------------------------------
(* Blocks.                                                                 *)

MIN_BLOCK_SIZE == 32   \* two tags and the two links

TagSet == [size : Nat, allocated : {0, 1}]
Memory == [Words -> TagSet]

Alloc(m, p)  == Word(m, header(p)).allocated
FAlloc(m, p) == Word(m, footer(m, p)).allocated

\* The two tags of the block at p have the same size.
Tagged(m, p) == Word(m, footer(m, p)).size = SizeOf(m, p)

\* A block that fits between two others.
BlockShape(m, p) == Tagged(m, p) /\ p >= Prologue /\ SizeOf(m, p) >= MIN_BLOCK_SIZE

\* The blocks at B, of which the prologue is one, fill the heap from the
\* prologue to the epilogue.
Tiles(m, brk, B) ==
  /\ m \in Memory /\ brk \in Payloads /\ B \subseteq Payloads
  /\ Prologue \in B /\ m[WSIZE] = Tag(MIN_BLOCK_SIZE, 1) /\ m[4 * WSIZE] = Tag(MIN_BLOCK_SIZE, 1)
  /\ m[brk - WSIZE] = Tag(0, 1)
  /\ \A p \in B : BlockShape(m, p) /\ p + SizeOf(m, p) \in B \cup {brk} /\ p + SizeOf(m, p) <= brk
  /\ \A p, q \in B : p < q => p + SizeOf(m, p) <= q
  /\ \A q \in B \cup {brk} : q = Prologue \/ \E p \in B : p + SizeOf(m, p) = q

\* Both links of the block at p lead to itself.
SelfTied(m, p) == Word(m, p) = Link(header(p)) /\ Word(m, p + WSIZE) = Link(header(p))

\* The prologue and the blocks with a free header are linked to themselves,
\* but perhaps not x.
Tied(m, B, x) == \A p \in B : p # x /\ (p = Prologue \/ Alloc(m, p) = 0) => SelfTied(m, p)

Good(m, brk, B) == Tiles(m, brk, B) /\ Tied(m, B, NULL)

\* The blocks the program holds.
Taken(m, B) == {p \in B \ {Prologue} : Alloc(m, p) = 1 /\ FAlloc(m, p) = 1}

\* The blocks that are not between lo and hi.
Outside(B, lo, hi) == {p \in B : p < lo \/ p >= hi}

\* m2 has the words of the block that is at p in m.
SameBlock(m, m2, p) ==
  \A a \in Words : p - WSIZE <= a /\ a < p + SizeOf(m, p) - WSIZE => m2[a] = m[a]

\* m2 has the words of m outside the blocks from lo to hi.
SameOutside(m, m2, lo, hi) ==
  \A a \in Words : a < lo - WSIZE \/ a >= hi - WSIZE => m2[a] = m[a]

\* The program holds exactly the taken blocks, each with room for what it
\* asked for; L is what it holds.
Owns(L, m, B) ==
  /\ Taken(m, B) = DOMAIN L
  /\ \A p \in DOMAIN L : L[p].bytes + DWORD_SIZE <= SizeOf(m, p)

Block == [bytes : Requests \ {0}, known : Nat]

Typed(L) ==
  /\ DOMAIN L \subseteq Payloads /\ L \in [DOMAIN L -> Block]
  /\ \A p \in DOMAIN L : WSIZE * L[p].known <= L[p].bytes

HealthSet == {"sound", "astray", "free faults", "malloc faults"}

\* Until a link goes astray or a call faults; after it no call follows.
HeapInv ==
  /\ health \in HealthSet
  /\ health = "malloc faults" => \E n \in Requests : ~(2 * AdjustedSize(n) <= CHUNKSIZE)
  /\ health = "sound" =>
    /\ mem \in Memory /\ mem_brk \in Nat /\ heap_listp \in {NULL, Prologue} /\ Typed(live)
    /\ heap_listp = NULL => mem_brk = 0
    /\ mem_brk = 0 => DOMAIN live = {}
    /\ mem_brk > 0 => \E B \in SUBSET Payloads : Good(mem, mem_brk, B) /\ Owns(live, mem, B)
-----------------------------------------------------------------------------
(* Addresses and tags.                                                     *)

\* Payloads start at the double words of the arena.
LEMMA PayloadIs == \A p : p \in Payloads <=> p \in Nat /\ p % DWORD_SIZE = 0 /\ p <= MAX_HEAP
<1> SUFFICES ASSUME NEW p
             PROVE  p \in Payloads <=> p \in Nat /\ p % DWORD_SIZE = 0 /\ p <= MAX_HEAP
  OBVIOUS
<1>1. MAX_HEAP \in Nat /\ DWORD_SIZE = 16 /\ MAX_HEAP \div 16 \in Nat
  BY MemLibAssumption DEF DWORD_SIZE
<1>2. ASSUME p \in Payloads PROVE p \in Nat /\ p % DWORD_SIZE = 0 /\ p <= MAX_HEAP
  <2>1. PICK k \in 0 .. MAX_HEAP \div 16 : p = 16 * k
    BY <1>1, <1>2 DEF Payloads
  <2> QED
    BY <1>1, <2>1
<1>3. ASSUME p \in Nat, p % DWORD_SIZE = 0, p <= MAX_HEAP PROVE p \in Payloads
  <2>1. p \div 16 \in 0 .. MAX_HEAP \div 16 /\ p = 16 * (p \div 16)
    BY <1>1, <1>3
  <2> QED
    BY <1>1, <2>1 DEF Payloads
<1> QED
  BY <1>2, <1>3

\* The words of the arena are its multiples of 8.
LEMMA WordIs == \A a : a \in Words <=> a \in Nat /\ a % WSIZE = 0 /\ a + WSIZE <= MAX_HEAP
<1> SUFFICES ASSUME NEW a
             PROVE  a \in Words <=> a \in Nat /\ a % WSIZE = 0 /\ a + WSIZE <= MAX_HEAP
  OBVIOUS
<1>1. MAX_HEAP \in Nat /\ WSIZE = 8 /\ MAX_HEAP \div 8 - 1 \in Int
  BY MemLibAssumption DEF WSIZE
<1>2. ASSUME a \in Words PROVE a \in Nat /\ a % WSIZE = 0 /\ a + WSIZE <= MAX_HEAP
  <2>1. PICK k \in 0 .. MAX_HEAP \div 8 - 1 : a = 8 * k
    BY <1>1, <1>2 DEF Words
  <2> QED
    BY <1>1, <2>1
<1>3. ASSUME a \in Nat, a % WSIZE = 0, a + WSIZE <= MAX_HEAP PROVE a \in Words
  <2>1. a \div 8 \in 0 .. MAX_HEAP \div 8 - 1 /\ a = 8 * (a \div 8)
    BY <1>1, <1>3
  <2> QED
    BY <1>1, <2>1 DEF Words
<1> QED
  BY <1>2, <1>3

\* A tag that is read.
LEMMA TagSays == \A size, bit : Tag(size, bit).size = size /\ Tag(size, bit).allocated = bit
  BY DEF Tag

\* A tag that is written.
LEMMA TagIs == \A size \in Nat, bit \in {0, 1} : Tag(size, bit) \in TagSet
  BY DEF Tag, TagSet

\* A link is a word, and an address that is read from it.
LEMMA LinkIs == \A a \in Nat : Link(a) \in TagSet /\ Link(a).size = a /\ Link(a).allocated = 0
  BY DEF Link, Tag, TagSet

\* The words next to a payload.
LEMMA TagWords ==
  \A p \in Payloads : p > 0 => p - WSIZE \in Words /\ p - DWORD_SIZE \in Words
  BY PayloadIs, WordIs, MemLibAssumption DEF WSIZE, DWORD_SIZE

\* A word of the arena is a tag, whoever wrote it.
LEMMA WordRead ==
  ASSUME NEW m \in Memory, NEW a \in Words
  PROVE  /\ Word(m, a) = m[a] /\ Word(m, a) \in TagSet
         /\ Word(m, a).size \in Nat /\ Word(m, a).allocated \in {0, 1}
<1>1. Word(m, a) = m[a] /\ m[a] \in TagSet
  BY DEF Memory, Word
<1> QED
  BY <1>1 DEF TagSet

\* Every address reads as a word.
LEMMA WordTyped == ASSUME NEW m \in Memory, NEW a PROVE Word(m, a) \in TagSet
<1>1. CASE a \in Words
  BY <1>1, WordRead
<1>2. CASE a \notin Words
  BY <1>2, TagIs DEF Word
<1> QED
  BY <1>1, <1>2

\* A word is written.
LEMMA WordPut ==
  \A m \in Memory, w \in TagSet : \A p :
    /\ Put(m, p, w) \in Memory
    /\ \A a \in Words : Put(m, p, w)[a] = IF a = p THEN w ELSE m[a]
<1> SUFFICES ASSUME NEW m \in Memory, NEW w \in TagSet, NEW p
             PROVE  /\ Put(m, p, w) \in Memory
                    /\ \A a \in Words : Put(m, p, w)[a] = IF a = p THEN w ELSE m[a]
  OBVIOUS
<1>1. /\ [m EXCEPT ![p] = w] \in Memory
      /\ \A a \in Words : [m EXCEPT ![p] = w][a] = IF a = p THEN w ELSE m[a]
  BY DEF Memory
<1> QED
  BY <1>1 DEF Put

\* A word that says already what is written stays as it is.
LEMMA PutSame == \A m \in Memory : \A p, w : Word(m, p) = w => Put(m, p, w) = m
<1> SUFFICES ASSUME NEW m \in Memory, NEW p, NEW w, Word(m, p) = w PROVE Put(m, p, w) = m
  OBVIOUS
<1>1. CASE p \in Words
  <2>1. m = [a \in Words |-> m[a]] /\ m[p] = w
    BY <1>1 DEF Memory, Word
  <2> QED
    BY <1>1, <2>1 DEF Put
<1>2. CASE p \notin Words
  BY <1>2 DEF Put
<1> QED
  BY <1>1, <1>2

\* The words of a block that is there.
LEMMA BlockFacts ==
  ASSUME NEW m, NEW brk, NEW B, Tiles(m, brk, B), NEW p \in B
  PROVE  /\ p \in Nat /\ p % DWORD_SIZE = 0 /\ p >= Prologue /\ p + SizeOf(m, p) <= brk
         /\ brk \in Nat /\ brk <= MAX_HEAP
         /\ SizeOf(m, p) \in Nat /\ SizeOf(m, p) % DWORD_SIZE = 0 /\ SizeOf(m, p) >= MIN_BLOCK_SIZE
         /\ p + SizeOf(m, p) \in Payloads /\ p \in Payloads
         /\ p - WSIZE \in Words /\ p \in Words /\ p + WSIZE \in Words
         /\ p + SizeOf(m, p) - DWORD_SIZE \in Words
         /\ Alloc(m, p) \in {0, 1} /\ FAlloc(m, p) \in {0, 1}
         /\ m[p - WSIZE] = Word(m, p - WSIZE) /\ m[p - WSIZE].size = SizeOf(m, p)
         /\ m[p - WSIZE].allocated = Alloc(m, p)
         /\ m[p + SizeOf(m, p) - DWORD_SIZE].size = SizeOf(m, p)
         /\ m[p + SizeOf(m, p) - DWORD_SIZE].allocated = FAlloc(m, p)
<1>1. /\ p \in Payloads /\ brk \in Payloads /\ m \in Memory /\ p >= Prologue
      /\ p + SizeOf(m, p) \in B \cup {brk} /\ p + SizeOf(m, p) <= brk
      /\ SizeOf(m, p) >= MIN_BLOCK_SIZE /\ Tagged(m, p) /\ B \subseteq Payloads
  BY DEF Tiles, BlockShape
<1>2. /\ p \in Nat /\ p % DWORD_SIZE = 0 /\ brk \in Nat /\ brk <= MAX_HEAP /\ p > 0
      /\ p + SizeOf(m, p) \in Payloads /\ (p + SizeOf(m, p)) % DWORD_SIZE = 0
      /\ p + SizeOf(m, p) \in Nat
  BY <1>1, PayloadIs DEF Prologue, WSIZE
<1>3. p - WSIZE \in Words
  BY <1>1, <1>2, TagWords
<1>4. /\ SizeOf(m, p) \in Nat /\ Alloc(m, p) \in {0, 1} /\ m[p - WSIZE] = Word(m, p - WSIZE)
      /\ m[p - WSIZE].size = SizeOf(m, p) /\ m[p - WSIZE].allocated = Alloc(m, p)
  BY <1>1, <1>3, WordRead DEF SizeOf, Alloc, header
<1>5. SizeOf(m, p) % DWORD_SIZE = 0
  BY <1>2, <1>4 DEF DWORD_SIZE
<1>6. p + SizeOf(m, p) - DWORD_SIZE \in Words
  <2>1. p + SizeOf(m, p) > 0
    BY <1>2, <1>4
  <2> QED
    BY <1>2, <1>4, <2>1, TagWords DEF WSIZE, DWORD_SIZE
<1>7. p \in Words /\ p + WSIZE \in Words
  <2>1. p % WSIZE = 0 /\ (p + WSIZE) % WSIZE = 0
    BY <1>2 DEF WSIZE, DWORD_SIZE
  <2>2. p + WSIZE + WSIZE <= MAX_HEAP /\ p + WSIZE <= MAX_HEAP /\ p + WSIZE \in Nat
    <3>1. MAX_HEAP \in Nat
      BY MemLibAssumption
    <3> QED
      BY <1>1, <1>2, <1>4, <3>1 DEF WSIZE, MIN_BLOCK_SIZE
  <2> QED
    BY <1>2, <2>1, <2>2, WordIs
<1>8. footer(m, p) = p + SizeOf(m, p) - DWORD_SIZE
  BY DEF footer
<1>9. /\ FAlloc(m, p) \in {0, 1} /\ m[p + SizeOf(m, p) - DWORD_SIZE].size = SizeOf(m, p)
      /\ m[p + SizeOf(m, p) - DWORD_SIZE].allocated = FAlloc(m, p)
  BY <1>1, <1>6, <1>8, WordRead DEF FAlloc, Tagged
<1> QED
  BY <1>1, <1>2, <1>3, <1>4, <1>5, <1>6, <1>7, <1>9
-----------------------------------------------------------------------------
(* The blocks between two places of the heap are replaced.                 *)

\* A block that keeps its words keeps what they say.
LEMMA SameBlockFacts ==
  ASSUME NEW m, NEW brk, NEW B, Tiles(m, brk, B), NEW m2 \in Memory, NEW p \in B, SameBlock(m, m2, p)
  PROVE  /\ SizeOf(m2, p) = SizeOf(m, p) /\ Alloc(m2, p) = Alloc(m, p) /\ FAlloc(m2, p) = FAlloc(m, p)
         /\ BlockShape(m2, p) /\ (SelfTied(m, p) => SelfTied(m2, p))
<1>1. /\ p \in Nat /\ SizeOf(m, p) \in Nat /\ SizeOf(m, p) >= MIN_BLOCK_SIZE
      /\ p - WSIZE \in Words /\ p \in Words /\ p + WSIZE \in Words
      /\ p + SizeOf(m, p) - DWORD_SIZE \in Words
  BY BlockFacts
<1>2. BlockShape(m, p) /\ m \in Memory
  BY DEF Tiles
<1>3. /\ m2[p - WSIZE] = m[p - WSIZE] /\ m2[p] = m[p] /\ m2[p + WSIZE] = m[p + WSIZE]
      /\ m2[p + SizeOf(m, p) - DWORD_SIZE] = m[p + SizeOf(m, p) - DWORD_SIZE]
  BY <1>1 DEF SameBlock, WSIZE, DWORD_SIZE, MIN_BLOCK_SIZE
<1>4. SizeOf(m2, p) = SizeOf(m, p) /\ Alloc(m2, p) = Alloc(m, p)
  BY <1>1, <1>3 DEF SizeOf, Alloc, header, Word
<1>5. footer(m2, p) = p + SizeOf(m, p) - DWORD_SIZE /\ footer(m, p) = p + SizeOf(m, p) - DWORD_SIZE
  BY <1>4 DEF footer
<1>6. Word(m2, footer(m2, p)) = Word(m, footer(m, p))
  BY <1>1, <1>3, <1>5 DEF Word
<1>7. SelfTied(m, p) => SelfTied(m2, p)
  BY <1>1, <1>3 DEF SelfTied, Word
<1> QED
  BY <1>2, <1>4, <1>6, <1>7 DEF BlockShape, Tagged, FAlloc

\* A block that is not between lo and hi keeps its words.
LEMMA OutsideSame ==
  ASSUME NEW m, NEW brk, NEW B, Tiles(m, brk, B), NEW lo \in B, NEW hi \in B \cup {brk}, lo < hi,
         NEW m2, SameOutside(m, m2, lo, hi), NEW p \in B, p < lo \/ p >= hi
  PROVE  /\ SameBlock(m, m2, p)
         /\ p < lo => p + SizeOf(m, p) <= lo
<1>1. lo \in Nat /\ hi \in Nat /\ p \in Nat /\ SizeOf(m, p) \in Nat
  <2>1. lo \in Payloads /\ hi \in Payloads /\ p \in Payloads
    BY DEF Tiles
  <2>2. SizeOf(m, p) \in Nat
    BY BlockFacts
  <2> QED
    BY <2>1, <2>2, PayloadIs
<1>2. p < lo => p + SizeOf(m, p) <= lo
  BY DEF Tiles
<1>3. \A a \in Words : a \in Nat
  BY WordIs
<1> QED
  BY <1>1, <1>2, <1>3 DEF SameBlock, SameOutside, WSIZE

\* New blocks that fill the place from lo to hi make a heap with those
\* outside.
LEMMA Retile ==
  ASSUME NEW m, NEW brk, NEW B, Tiles(m, brk, B), NEW lo \in B, lo # Prologue,
         NEW hi \in B \cup {brk}, lo < hi, NEW m2 \in Memory, SameOutside(m, m2, lo, hi),
         NEW New \in SUBSET Payloads, lo \in New,
         \A p \in New : /\ BlockShape(m2, p) /\ lo <= p /\ p < hi
                        /\ p + SizeOf(m2, p) \in New \cup {hi} /\ p + SizeOf(m2, p) <= hi,
         \A p, q \in New : p < q => p + SizeOf(m2, p) <= q,
         \A q \in New \cup {hi} : q # lo => \E p \in New : p + SizeOf(m2, p) = q
  PROVE  Tiles(m2, brk, Outside(B, lo, hi) \cup New)
<1> DEFINE Old == {p \in B : p < lo \/ p >= hi}
           C   == Old \cup New
<1>1. /\ brk \in Payloads /\ B \subseteq Payloads /\ Prologue \in B /\ Old \subseteq B
      /\ lo \in Nat /\ hi \in Nat /\ brk \in Nat /\ hi <= brk
      /\ \A p \in B : p \in Nat
  <2>1. \A p \in B : p + SizeOf(m, p) <= brk /\ SizeOf(m, p) \in Nat /\ p \in Nat
    BY BlockFacts
  <2> QED
    BY <2>1, PayloadIs DEF Tiles
<1>2. \A p \in Old : /\ SizeOf(m2, p) = SizeOf(m, p) /\ BlockShape(m2, p)
                     /\ p < lo => p + SizeOf(m, p) <= lo
  <2> TAKE p \in Old
  <2>1. SameBlock(m, m2, p) /\ (p < lo => p + SizeOf(m, p) <= lo)
    BY OutsideSame
  <2> QED
    BY <2>1, SameBlockFacts
<1>3. \A p \in New : p \in Nat /\ SizeOf(m2, p) \in Nat
  <2>1. \A p \in New : p \in Nat /\ p > 0
    BY <1>1, PayloadIs, BlockFacts DEF Prologue, WSIZE
  <2>2. \A p \in New : p - WSIZE \in Words
    BY <2>1, TagWords
  <2> QED
    BY <2>1, <2>2, WordRead DEF SizeOf, header
<1>4. /\ Prologue < lo /\ Prologue \in Old
      /\ m2[WSIZE] = Tag(MIN_BLOCK_SIZE, 1) /\ m2[4 * WSIZE] = Tag(MIN_BLOCK_SIZE, 1)
  <2>1. Prologue < lo /\ m[WSIZE] = Tag(MIN_BLOCK_SIZE, 1) /\ m[4 * WSIZE] = Tag(MIN_BLOCK_SIZE, 1)
    <3>1. lo >= Prologue
      BY BlockFacts
    <3> QED
      BY <1>1, <3>1 DEF Tiles, Prologue, WSIZE
  <2>2. Prologue + SizeOf(m, Prologue) <= lo
    BY <1>1, <2>1 DEF Tiles
  <2>3. /\ m[Prologue - WSIZE].size = SizeOf(m, Prologue) /\ Prologue - WSIZE \in Words
        /\ Prologue + SizeOf(m, Prologue) - DWORD_SIZE \in Words
    BY <1>1, BlockFacts
  <2>4. Prologue - WSIZE = WSIZE /\ SizeOf(m, Prologue) = MIN_BLOCK_SIZE
    BY <2>1, <2>3, TagSays DEF Prologue, WSIZE
  <2>5. Prologue + SizeOf(m, Prologue) - DWORD_SIZE = 4 * WSIZE /\ 4 * WSIZE < lo - WSIZE /\ WSIZE < lo - WSIZE
    BY <1>1, <2>2, <2>4 DEF Prologue, WSIZE, DWORD_SIZE, MIN_BLOCK_SIZE
  <2>6. m2[WSIZE] = m[WSIZE] /\ m2[4 * WSIZE] = m[4 * WSIZE]
    BY <2>3, <2>4, <2>5 DEF SameOutside
  <2> QED
    BY <1>1, <2>1, <2>6
<1>5. m2[brk - WSIZE] = Tag(0, 1)
  <2>1. brk - WSIZE \in Words /\ brk - WSIZE >= hi - WSIZE
    BY <1>1, <1>4, TagWords DEF WSIZE, Prologue
  <2> QED
    BY <2>1 DEF Tiles, SameOutside
<1>6. \A p \in Old : p + SizeOf(m2, p) \in C \cup {brk} /\ p + SizeOf(m2, p) <= brk
  <2> SUFFICES ASSUME NEW p \in Old PROVE p + SizeOf(m2, p) \in C \cup {brk} /\ p + SizeOf(m2, p) <= brk
    OBVIOUS
  <2>1. p + SizeOf(m, p) \in B \cup {brk} /\ p + SizeOf(m, p) <= brk
    BY <1>1 DEF Tiles
  <2>2. p + SizeOf(m, p) \in Nat /\ SizeOf(m, p) \in Nat /\ p \in Nat
    BY <1>1, BlockFacts
  <2>3. p + SizeOf(m, p) \in C \cup {brk}
    <3>1. CASE p < lo
      BY <1>1, <1>2, <2>1, <2>2, <3>1
    <3>2. CASE p >= hi
      BY <1>1, <2>1, <2>2, <3>2
    <3> QED
      BY <3>1, <3>2
  <2> QED
    BY <1>2, <2>1, <2>3
<1>7. \A p \in New : p + SizeOf(m2, p) \in C \cup {brk} /\ p + SizeOf(m2, p) <= brk
  <2> TAKE p \in New
  <2>1. p + SizeOf(m2, p) \in New \cup {hi} /\ p + SizeOf(m2, p) <= hi
    OBVIOUS
  <2>2. hi \in Old \cup {brk}
    BY <1>1
  <2> QED
    BY <1>1, <1>3, <2>1, <2>2
<1>8. \A p, q \in C : p < q => p + SizeOf(m2, p) <= q
  <2> SUFFICES ASSUME NEW p \in C, NEW q \in C, p < q PROVE p + SizeOf(m2, p) <= q
    OBVIOUS
  <2>1. CASE p \in Old /\ q \in Old
    BY <1>2, <2>1 DEF Tiles
  <2>2. CASE p \in Old /\ q \in New
    <3>1. p < lo
      BY <1>1, <1>3, <2>2
    <3> QED
      BY <1>1, <1>2, <1>3, <2>2, <3>1, BlockFacts
  <2>3. CASE p \in New /\ q \in Old
    <3>1. q >= hi
      BY <1>1, <1>3, <2>3
    <3> QED
      BY <1>1, <1>3, <2>3, <3>1
  <2>4. CASE p \in New /\ q \in New
    BY <2>4
  <2> QED
    BY <2>1, <2>2, <2>3, <2>4
<1>9. \A q \in C \cup {brk} : q = Prologue \/ \E p \in C : p + SizeOf(m2, p) = q
  <2> SUFFICES ASSUME NEW q \in C \cup {brk}, q # Prologue PROVE \E p \in C : p + SizeOf(m2, p) = q
    OBVIOUS
  <2>1. CASE q \in New \cup {hi} /\ q # lo
    BY <2>1
  <2>2. CASE q \notin New \cup {hi} \/ q = lo
    <3>1. q \in B \cup {brk} /\ q \in Nat
      BY <1>1, <2>2
    <3>2. PICK p \in B : p + SizeOf(m, p) = q
      BY <3>1 DEF Tiles
    <3>3. p \in Nat /\ SizeOf(m, p) \in Nat /\ SizeOf(m, p) >= MIN_BLOCK_SIZE
      BY BlockFacts
    <3>4. p < lo \/ p >= hi
      <4>1. CASE q = lo
        BY <3>2, <3>3, <4>1 DEF MIN_BLOCK_SIZE
      <4>2. CASE q # lo
        <5>1. q < lo \/ q > hi
          <6>1. q \in Old \cup {brk} /\ q # hi
            BY <2>2, <4>2
          <6> QED
            BY <1>1, <3>1, <6>1
        <5>2. CASE q < lo
          BY <1>1, <3>2, <3>3, <5>2
        <5>3. CASE q > hi
          <6> SUFFICES ASSUME p < hi PROVE FALSE
            BY <1>1, <3>3
          <6>1. hi \in B
            BY <1>1, <3>1, <5>3, BlockFacts DEF Tiles
          <6>2. p + SizeOf(m, p) <= hi
            BY <6>1 DEF Tiles
          <6> QED
            BY <1>1, <3>2, <5>3, <6>2
        <5> QED
          BY <5>1, <5>2, <5>3
      <4> QED
        BY <4>1, <4>2
    <3>5. p \in C /\ p + SizeOf(m2, p) = q
      BY <1>2, <3>2, <3>4
    <3> QED
      BY <3>5
  <2> QED
    BY <2>1, <2>2
<1>10. \A p \in C : BlockShape(m2, p) /\ p + SizeOf(m2, p) \in C \cup {brk} /\ p + SizeOf(m2, p) <= brk
  BY <1>2, <1>6, <1>7
<1>11. Prologue \in C /\ C \subseteq Payloads
  BY <1>1, <1>4
<1> HIDE DEF C
<1>12. Tiles(m2, brk, C)
  BY <1>1, <1>4, <1>5, <1>8, <1>9, <1>10, <1>11 DEF Tiles
<1> QED
  BY <1>12 DEF C, Outside

\* The blocks that have not been replaced are tied and taken as before.
LEMMA Replaced ==
  ASSUME NEW m, NEW brk, NEW B, Tiles(m, brk, B), NEW lo \in B, lo # Prologue,
         NEW hi \in B \cup {brk}, lo < hi, NEW m2 \in Memory, SameOutside(m, m2, lo, hi),
         NEW New \in SUBSET Payloads, \A p \in New : lo <= p /\ p < hi,
         NEW x, Tied(m, Outside(B, lo, hi), x), Tied(m2, New, x)
  PROVE  LET C == Outside(B, lo, hi) \cup New IN
         /\ Tied(m2, C, x)
         /\ Taken(m2, C) = Outside(Taken(m, B), lo, hi)
                             \cup {p \in New : Alloc(m2, p) = 1 /\ FAlloc(m2, p) = 1}
         /\ \A p \in B : p < lo \/ p >= hi => SameBlock(m, m2, p)
<1> DEFINE Old == {p \in B : p < lo \/ p >= hi}
           C   == Old \cup New
<1>1. \A p \in Old : /\ SameBlock(m, m2, p) /\ Alloc(m2, p) = Alloc(m, p) /\ FAlloc(m2, p) = FAlloc(m, p)
                     /\ (SelfTied(m, p) => SelfTied(m2, p))
  <2> TAKE p \in Old
  <2>1. SameBlock(m, m2, p)
    BY OutsideSame
  <2> QED
    BY <2>1, SameBlockFacts
<1>2. Prologue \notin New
  <2>1. Prologue < lo
    <3>1. lo \in Nat /\ lo >= Prologue
      BY BlockFacts
    <3> QED
      BY <3>1 DEF Prologue, WSIZE
  <2> QED
    <3>1. lo \in Nat
      BY BlockFacts
    <3> QED
      BY <2>1, <3>1 DEF Prologue, WSIZE
<1>3. Tied(m2, C, x)
  BY <1>1, <1>2 DEF Tied, Outside
<1>4. Taken(m2, C) = Outside(Taken(m, B), lo, hi)
                             \cup {p \in New : Alloc(m2, p) = 1 /\ FAlloc(m2, p) = 1}
  BY <1>1, <1>2 DEF Taken, Outside
<1>5. C = Outside(B, lo, hi) \cup New
  BY DEF Outside
<1> HIDE DEF C
<1> QED
  BY <1>1, <1>3, <1>4, <1>5

\* What is said of a heap in which the blocks from lo to hi became one.
BecameOne(m, brk, B, m2, lo, hi) ==
  LET C == Outside(B, lo, hi) \cup {lo} IN
  /\ C \in SUBSET Payloads /\ Good(m2, brk, C) /\ SizeOf(m2, lo) = hi - lo
  /\ Taken(m2, C) = Outside(Taken(m, B), lo, hi)
                      \cup {p \in {lo} : Alloc(m2, p) = 1 /\ FAlloc(m2, p) = 1}
  /\ \A p \in B : p < lo \/ p >= hi => SameBlock(m, m2, p)

\* One block from lo to hi.
LEMMA OneBlock ==
  ASSUME NEW m, NEW brk, NEW B, Tiles(m, brk, B), NEW lo \in B, lo # Prologue,
         NEW hi \in B \cup {brk}, lo < hi, NEW m2 \in Memory, SameOutside(m, m2, lo, hi),
         m2[lo - WSIZE].size = hi - lo, m2[hi - DWORD_SIZE].size = hi - lo,
         Tied(m, Outside(B, lo, hi), NULL),
         Alloc(m2, lo) = 0 => SelfTied(m2, lo)
  PROVE  BecameOne(m, brk, B, m2, lo, hi)
<1>1. /\ lo \in Payloads /\ hi \in Payloads /\ lo \in Nat /\ hi \in Nat
      /\ lo % DWORD_SIZE = 0 /\ hi % DWORD_SIZE = 0 /\ lo > 0 /\ hi > 0 /\ lo >= Prologue
  <2>1. lo \in Payloads /\ hi \in Payloads
    BY DEF Tiles
  <2>2. lo >= Prologue
    BY BlockFacts
  <2> QED
    BY <2>1, <2>2, PayloadIs DEF Prologue, WSIZE
<1>2. lo - WSIZE \in Words /\ hi - DWORD_SIZE \in Words /\ hi - lo \in Nat
  BY <1>1, TagWords
<1>3. hi - lo >= MIN_BLOCK_SIZE
  <2>1. SizeOf(m, lo) \in Nat /\ SizeOf(m, lo) >= MIN_BLOCK_SIZE
    BY BlockFacts
  <2>2. lo + SizeOf(m, lo) <= hi
    BY DEF Tiles
  <2> QED
    BY <1>1, <2>1, <2>2 DEF MIN_BLOCK_SIZE
<1>4. SizeOf(m2, lo) = hi - lo
  BY <1>2, WordRead DEF SizeOf, header
<1>5. BlockShape(m2, lo)
  <2>1. footer(m2, lo) = hi - DWORD_SIZE
    BY <1>1, <1>4 DEF footer, DWORD_SIZE
  <2>2. Word(m2, hi - DWORD_SIZE).size = hi - lo
    BY <1>2, WordRead
  <2> QED
    BY <1>1, <1>3, <1>4, <2>1, <2>2 DEF BlockShape, Tagged
<1>6. lo + SizeOf(m2, lo) = hi
  BY <1>1, <1>4
<1> DEFINE New == {lo}
           C   == Outside(B, lo, hi) \cup New
<1>7. /\ New \in SUBSET Payloads /\ lo \in New
      /\ \A p \in New : /\ BlockShape(m2, p) /\ lo <= p /\ p < hi
                        /\ p + SizeOf(m2, p) \in New \cup {hi} /\ p + SizeOf(m2, p) <= hi
      /\ \A p, q \in New : p < q => p + SizeOf(m2, p) <= q
      /\ \A q \in New \cup {hi} : q # lo => \E p \in New : p + SizeOf(m2, p) = q
      /\ Tied(m2, New, NULL)
  BY <1>1, <1>5, <1>6 DEF Tied
<1>8. New = {lo}
  OBVIOUS
<1> HIDE DEF New
<1>9. Tiles(m2, brk, C)
  BY <1>7, Retile
<1> HIDE DEF C
<1>10. /\ Tied(m2, C, NULL)
       /\ Taken(m2, C) = Outside(Taken(m, B), lo, hi)
                           \cup {p \in New : Alloc(m2, p) = 1 /\ FAlloc(m2, p) = 1}
       /\ \A p \in B : p < lo \/ p >= hi => SameBlock(m, m2, p)
  <2>1. \A p \in New : lo <= p /\ p < hi
    BY <1>7
  <2> QED
    BY <1>7, <2>1, Replaced DEF C
<1>11. C \in SUBSET Payloads
  BY <1>9 DEF Tiles
<1>12. Good(m2, brk, C)
  BY <1>9, <1>10 DEF Good
<1> QED
  BY <1>4, <1>8, <1>10, <1>11, <1>12 DEF BecameOne, C

\* The tags of an allocated block from lo to mid and a free one from mid to hi.
TwoTagged(m2, lo, mid, hi) ==
  /\ lo + MIN_BLOCK_SIZE <= mid /\ mid + MIN_BLOCK_SIZE <= hi
  /\ m2[lo - WSIZE] = Tag(mid - lo, 1) /\ m2[mid - DWORD_SIZE] = Tag(mid - lo, 1)
  /\ m2[mid - WSIZE] = Tag(hi - mid, 0) /\ m2[hi - DWORD_SIZE] = Tag(hi - mid, 0)

\* B2 are the blocks once the block at lo has lost its end, from mid on.
BecameTwo(m, brk, B, m2, lo, mid, hi, B2) ==
  /\ Tiles(m2, brk, B2) /\ mid \notin B /\ mid # Prologue
  /\ Tied(m2, B2, mid)
  /\ SizeOf(m2, lo) = mid - lo /\ SizeOf(m2, mid) = hi - mid
  /\ Alloc(m2, lo) = 1 /\ Taken(m2, B2) = Taken(m, B) \cup {lo}
  /\ \A p \in B : p # lo => SameBlock(m, m2, p)

\* An allocated block from lo to mid and a free one from mid to hi.
LEMMA TwoBlocks ==
  ASSUME NEW m, NEW brk, NEW B, Tiles(m, brk, B), NEW lo \in B, lo # Prologue,
         NEW hi \in B \cup {brk}, hi <= lo + SizeOf(m, lo), NEW m2 \in Memory, SameOutside(m, m2, lo, hi),
         NEW mid \in Payloads, TwoTagged(m2, lo, mid, hi),
         Tied(m, Outside(B, lo, hi), NULL)
  PROVE  BecameTwo(m, brk, B, m2, lo, mid, hi, B \cup {mid})
<1>1. /\ hi \in B \cup {brk} /\ lo + MIN_BLOCK_SIZE <= mid /\ mid + MIN_BLOCK_SIZE <= hi
      /\ m2[lo - WSIZE] = Tag(mid - lo, 1) /\ m2[mid - DWORD_SIZE] = Tag(mid - lo, 1)
      /\ m2[mid - WSIZE] = Tag(hi - mid, 0) /\ m2[hi - DWORD_SIZE] = Tag(hi - mid, 0)
  BY DEF TwoTagged
<1>2. /\ lo \in Payloads /\ hi \in Payloads /\ lo \in Nat /\ hi \in Nat /\ mid \in Nat
      /\ lo > 0 /\ hi > 0 /\ mid > 0 /\ lo < hi /\ lo < mid /\ mid < hi /\ lo >= Prologue
  <2>1. lo \in Payloads /\ hi \in Payloads
    BY <1>1 DEF Tiles
  <2>2. lo >= Prologue
    BY BlockFacts
  <2> QED
    BY <1>1, <2>1, <2>2, PayloadIs DEF Prologue, WSIZE, MIN_BLOCK_SIZE
<1>3. /\ lo - WSIZE \in Words /\ hi - DWORD_SIZE \in Words
      /\ mid - WSIZE \in Words /\ mid - DWORD_SIZE \in Words
      /\ hi - mid \in Nat /\ hi - mid >= MIN_BLOCK_SIZE
      /\ mid - lo \in Nat /\ mid - lo >= MIN_BLOCK_SIZE
  BY <1>1, <1>2, TagWords DEF MIN_BLOCK_SIZE
<1>4. SizeOf(m2, lo) = mid - lo /\ Alloc(m2, lo) = 1 /\ SizeOf(m2, mid) = hi - mid /\ Alloc(m2, mid) = 0
  BY <1>1, <1>3, TagSays DEF SizeOf, Alloc, header, Word
<1>5. lo + SizeOf(m2, lo) = mid /\ mid + SizeOf(m2, mid) = hi
  BY <1>2, <1>4
<1>6. BlockShape(m2, lo) /\ BlockShape(m2, mid) /\ FAlloc(m2, lo) = 1
  <2>1. footer(m2, lo) = mid - DWORD_SIZE /\ footer(m2, mid) = hi - DWORD_SIZE
    BY <1>2, <1>4 DEF footer, DWORD_SIZE
  <2>2. /\ Word(m2, mid - DWORD_SIZE).size = mid - lo /\ Word(m2, mid - DWORD_SIZE).allocated = 1
        /\ Word(m2, hi - DWORD_SIZE).size = hi - mid
    BY <1>1, <1>3, TagSays DEF Word
  <2>3. mid >= Prologue
    BY <1>2 DEF Prologue, WSIZE
  <2> QED
    BY <1>2, <1>3, <1>4, <2>1, <2>2, <2>3 DEF BlockShape, Tagged, FAlloc
<1> DEFINE New == {lo, mid}
<1>7. /\ New \in SUBSET Payloads /\ lo \in New
      /\ \A p \in New : lo <= p /\ p < hi
      /\ \A p \in New : /\ BlockShape(m2, p) /\ lo <= p /\ p < hi
                        /\ p + SizeOf(m2, p) \in New \cup {hi} /\ p + SizeOf(m2, p) <= hi
  <2>1. lo <= lo /\ lo < hi /\ lo <= mid /\ mid < hi /\ mid <= hi /\ hi <= hi
    BY <1>2
  <2> QED
    BY <1>2, <1>5, <1>6, <2>1
<1>8. \A p, q \in New : p < q => p + SizeOf(m2, p) <= q
  <2>1. ~(lo < lo) /\ ~(mid < mid) /\ ~(mid < lo) /\ mid <= mid
    BY <1>2
  <2> QED
    BY <1>5, <2>1
<1>9. \A q \in New \cup {hi} : q # lo => \E p \in New : p + SizeOf(m2, p) = q
  BY <1>5
<1>10. Tied(m2, New, mid)
  <2>1. lo # mid /\ Alloc(m2, lo) # 0
    BY <1>2, <1>4
  <2> QED
    BY <2>1 DEF Tied
<1>11. {p \in New : Alloc(m2, p) = 1 /\ FAlloc(m2, p) = 1} = {lo}
  BY <1>4, <1>6
<1>12. New = {lo, mid}
  OBVIOUS
<1>13. Tied(m, Outside(B, lo, hi), mid)
  <2>1. mid \notin Outside(B, lo, hi)
    BY <1>2 DEF Outside
  <2>2. \A p \in Outside(B, lo, hi) : p # NULL
    <3>1. \A p \in B : p \in Nat /\ p >= Prologue
      BY BlockFacts
    <3> QED
      BY <3>1 DEF Outside, Prologue, WSIZE, NULL
  <2> QED
    BY <2>2 DEF Tied
<1> HIDE DEF New
<1> DEFINE C == Outside(B, lo, hi) \cup New
<1>14. Tiles(m2, brk, C)
  BY <1>1, <1>2, <1>7, <1>8, <1>9, Retile
<1> HIDE DEF C
<1>15. /\ Tied(m2, C, mid) /\ Taken(m2, C) = Outside(Taken(m, B), lo, hi) \cup {lo}
       /\ \A p \in B : p < lo \/ p >= hi => SameBlock(m, m2, p)
  <2>1. /\ Tied(m2, C, mid)
        /\ Taken(m2, C) = Outside(Taken(m, B), lo, hi)
                            \cup {p \in New : Alloc(m2, p) = 1 /\ FAlloc(m2, p) = 1}
        /\ \A p \in B : p < lo \/ p >= hi => SameBlock(m, m2, p)
    <3>1. lo < hi /\ New \in SUBSET Payloads /\ \A p \in New : lo <= p /\ p < hi
      BY <1>2, <1>7
    <3> QED
      BY <1>1, <1>10, <1>13, <3>1, Replaced DEF C
  <2> QED
    BY <1>11, <2>1
<1>16. \A p \in B : p < lo \/ p >= hi \/ p = lo
  <2>1. \A p \in B : p \in Nat /\ SizeOf(m, p) \in Nat
    BY BlockFacts
  <2>2. \A p \in B : lo < p => lo + SizeOf(m, lo) <= p
    BY DEF Tiles
  <2> QED
    BY <1>2, <2>1, <2>2
<1>17. C = B \cup {mid} /\ Outside(Taken(m, B), lo, hi) \cup {lo} = Taken(m, B) \cup {lo}
  <2>1. \A p \in Taken(m, B) : p < lo \/ p >= hi \/ p = lo
    BY <1>16 DEF Taken
  <2> QED
    BY <1>12, <1>16, <2>1 DEF C, Outside
<1>18. mid \notin B /\ mid # Prologue
  BY <1>2, <1>16
<1> QED
  BY <1>4, <1>14, <1>15, <1>16, <1>17, <1>18 DEF BecameTwo

\* B2 are the blocks once there is a free one behind the last one.
BecameMore(m, brk, B, m2, top, B2) ==
  /\ Tiles(m2, top, B2) /\ brk \notin B /\ brk # Prologue
  /\ SizeOf(m2, brk) = top - brk /\ Alloc(m2, brk) = 0
  /\ \A p \in B : SameBlock(m, m2, p)

\* The words of such a block, and of the epilogue behind it.
MoreTagged(m, m2, brk, top) ==
  /\ brk + MIN_BLOCK_SIZE <= top /\ \A a \in Words : a < brk - WSIZE => m2[a] = m[a]
  /\ m2[brk - WSIZE] = Tag(top - brk, 0) /\ m2[top - DWORD_SIZE] = Tag(top - brk, 0)
  /\ m2[top - WSIZE] = Tag(0, 1)

\* A block behind the last one.
LEMMA MoreHeap ==
  ASSUME NEW m, NEW brk, NEW B, Tiles(m, brk, B), NEW top \in Payloads, NEW m2 \in Memory,
         MoreTagged(m, m2, brk, top)
  PROVE  BecameMore(m, brk, B, m2, top, B \cup {brk})
<1>0. /\ brk + MIN_BLOCK_SIZE <= top /\ \A a \in Words : a < brk - WSIZE => m2[a] = m[a]
      /\ m2[brk - WSIZE] = Tag(top - brk, 0) /\ m2[top - DWORD_SIZE] = Tag(top - brk, 0)
      /\ m2[top - WSIZE] = Tag(0, 1)
  BY DEF MoreTagged
<1>1. /\ brk \in Payloads /\ B \subseteq Payloads /\ brk \in Nat /\ top \in Nat
      /\ top > 0 /\ brk < top /\ top - brk \in Nat /\ top - brk >= MIN_BLOCK_SIZE
  BY <1>0, PayloadIs DEF Tiles, MIN_BLOCK_SIZE
<1>2. /\ \A p \in B : /\ p \in Nat /\ p < brk /\ p + SizeOf(m, p) <= brk /\ SizeOf(m, p) \in Nat
                      /\ p >= Prologue
      /\ Prologue \in B
  <2>1. \A p \in B : /\ p \in Nat /\ p + SizeOf(m, p) <= brk /\ SizeOf(m, p) \in Nat
                     /\ SizeOf(m, p) >= MIN_BLOCK_SIZE /\ p >= Prologue
    BY BlockFacts
  <2>2. Prologue \in B
    BY DEF Tiles
  <2>3. \A p \in B : p < brk
    BY <1>1, <2>1 DEF MIN_BLOCK_SIZE
  <2> QED
    BY <2>1, <2>2, <2>3
<1>3. brk > Prologue /\ brk > 0
  BY <1>1, <1>2 DEF Prologue, WSIZE
<1>4. brk - WSIZE \in Words /\ top - WSIZE \in Words /\ top - DWORD_SIZE \in Words
  BY <1>1, <1>3, TagWords
<1>5. SizeOf(m2, brk) = top - brk /\ Alloc(m2, brk) = 0
  BY <1>0, <1>4, TagSays DEF SizeOf, Alloc, header, Word
<1>6. brk + SizeOf(m2, brk) = top
  BY <1>1, <1>5
<1>7. BlockShape(m2, brk)
  <2>1. footer(m2, brk) = top - DWORD_SIZE
    BY <1>1, <1>5 DEF footer, DWORD_SIZE
  <2>2. Word(m2, top - DWORD_SIZE).size = top - brk
    BY <1>0, <1>4, TagSays DEF Word
  <2> QED
    BY <1>1, <1>3, <1>5, <2>1, <2>2 DEF BlockShape, Tagged, Prologue, WSIZE
<1>8. ASSUME NEW p \in B
      PROVE  SameBlock(m, m2, p) /\ SizeOf(m2, p) = SizeOf(m, p) /\ BlockShape(m2, p)
  <2>1. p + SizeOf(m, p) <= brk /\ p \in Nat /\ SizeOf(m, p) \in Nat
    BY <1>2
  <2>2. \A a \in Words : a \in Nat
    BY WordIs
  <2>3. SameBlock(m, m2, p)
    BY <1>0, <1>1, <2>1, <2>2 DEF SameBlock, WSIZE
  <2> QED
    BY <2>3, SameBlockFacts
<1>9. m2[WSIZE] = Tag(MIN_BLOCK_SIZE, 1) /\ m2[4 * WSIZE] = Tag(MIN_BLOCK_SIZE, 1)
  <2>1. m[WSIZE] = Tag(MIN_BLOCK_SIZE, 1) /\ m[4 * WSIZE] = Tag(MIN_BLOCK_SIZE, 1)
    BY DEF Tiles
  <2>2. /\ m[Prologue - WSIZE].size = SizeOf(m, Prologue) /\ Prologue - WSIZE \in Words
        /\ Prologue + SizeOf(m, Prologue) - DWORD_SIZE \in Words
        /\ Prologue + SizeOf(m, Prologue) <= brk
    BY <1>2, BlockFacts
  <2>3. Prologue - WSIZE = WSIZE /\ SizeOf(m, Prologue) = MIN_BLOCK_SIZE
    BY <2>1, <2>2, TagSays DEF Prologue, WSIZE
  <2>4. Prologue + SizeOf(m, Prologue) - DWORD_SIZE = 4 * WSIZE /\ 4 * WSIZE < brk - WSIZE /\ WSIZE < brk - WSIZE
    BY <1>1, <2>2, <2>3 DEF Prologue, WSIZE, DWORD_SIZE, MIN_BLOCK_SIZE
  <2> QED
    BY <1>0, <2>1, <2>2, <2>3, <2>4
<1> DEFINE C == B \cup {brk}
<1>10. \A p \in C : BlockShape(m2, p) /\ p + SizeOf(m2, p) \in C \cup {top} /\ p + SizeOf(m2, p) <= top
  <2>1. ASSUME NEW p \in B
        PROVE  BlockShape(m2, p) /\ p + SizeOf(m2, p) \in C \cup {top} /\ p + SizeOf(m2, p) <= top
    <3>1. p + SizeOf(m, p) \in B \cup {brk} /\ p + SizeOf(m, p) <= brk
      BY DEF Tiles
    <3> QED
      BY <1>1, <1>2, <1>8, <3>1
  <2>2. brk + SizeOf(m2, brk) \in C \cup {top} /\ brk + SizeOf(m2, brk) <= top
    BY <1>1, <1>6
  <2> QED
    BY <1>7, <2>1, <2>2
<1>11. \A p, q \in C : p < q => p + SizeOf(m2, p) <= q
  <2> SUFFICES ASSUME NEW p \in C, NEW q \in C, p < q PROVE p + SizeOf(m2, p) <= q
    OBVIOUS
  <2>1. p \in B
    BY <1>1, <1>2
  <2>2. CASE q \in B
    BY <1>8, <2>1, <2>2 DEF Tiles
  <2>3. CASE q = brk
    BY <1>2, <1>8, <2>1, <2>3
  <2> QED
    BY <2>2, <2>3
<1>12. \A q \in C \cup {top} : q = Prologue \/ \E p \in C : p + SizeOf(m2, p) = q
  <2>1. ASSUME NEW q \in B \cup {brk}, q # Prologue PROVE \E p \in C : p + SizeOf(m2, p) = q
    <3>1. PICK p \in B : p + SizeOf(m, p) = q
      BY <2>1 DEF Tiles
    <3> QED
      BY <1>8, <3>1
  <2> QED
    BY <1>6, <2>1
<1>13. Prologue \in C /\ C \subseteq Payloads /\ brk \notin B /\ brk # Prologue
  BY <1>1, <1>2, <1>3
<1> HIDE DEF C
<1>14. Tiles(m2, top, C)
  BY <1>0, <1>9, <1>10, <1>11, <1>12, <1>13 DEF Tiles
<1> QED
  BY <1>5, <1>8, <1>13, <1>14 DEF C, BecameMore
-----------------------------------------------------------------------------
(* The walk over the headers, and the one along the links.                 *)

\* The prologue is a block of two tags and two links, never free.
LEMMA PrologueSays ==
  ASSUME NEW m, NEW brk, NEW B, Tiles(m, brk, B)
  PROVE  SizeOf(m, Prologue) = MIN_BLOCK_SIZE /\ Alloc(m, Prologue) = 1
<1>1. Prologue - WSIZE \in Words
  BY BlockFacts DEF Tiles
<1>2. m[Prologue - WSIZE] = Tag(MIN_BLOCK_SIZE, 1)
  BY DEF Tiles, Prologue, WSIZE
<1> QED
  BY <1>1, <1>2, TagSays DEF SizeOf, Alloc, header, Word

\* The word before the break says allocated, of size 0.
LEMMA EpilogueSays ==
  ASSUME NEW m, NEW brk, NEW B, Tiles(m, brk, B)
  PROVE  SizeOf(m, brk) = 0 /\ Alloc(m, brk) = 1 /\ brk \notin B /\ brk > Prologue /\ brk \in Nat
<1>1. Prologue \in B /\ brk \in Payloads /\ m[brk - WSIZE] = Tag(0, 1)
  BY DEF Tiles
<1>2. brk \in Nat /\ brk > 0 /\ brk > Prologue
  <2>1. Prologue + SizeOf(m, Prologue) <= brk
    BY <1>1, BlockFacts
  <2> QED
    BY <1>1, <2>1, PayloadIs, PrologueSays DEF Prologue, WSIZE, MIN_BLOCK_SIZE
<1>3. brk - WSIZE \in Words
  BY <1>1, <1>2, TagWords
<1>4. SizeOf(m, brk) = 0 /\ Alloc(m, brk) = 1
  BY <1>1, <1>3, TagSays DEF SizeOf, Alloc, header, Word
<1>5. brk \notin B
  <2> SUFFICES ASSUME brk \in B PROVE FALSE
    OBVIOUS
  <2>1. SizeOf(m, brk) >= MIN_BLOCK_SIZE
    BY BlockFacts
  <2> QED
    BY <1>4, <2>1 DEF MIN_BLOCK_SIZE
<1> QED
  BY <1>2, <1>4, <1>5

\* A set of numbers has a least element.
LEMMA FewestIs ==
  ASSUME NEW S \in SUBSET Nat, S # {}
  PROVE  Fewest(S) \in S /\ \A j \in S : Fewest(S) <= j
<1>1. \E i \in S : \A j \in S : ~(<<j, i>> \in OpToRel(<, Nat))
  BY WFMin, NatLessThanWellFounded
<1>2. PICK i \in S : \A j \in S : ~(<<j, i>> \in OpToRel(<, Nat))
  BY <1>1
<1>3. \A j \in S : i <= j
  <2> SUFFICES ASSUME NEW j \in S PROVE i <= j
    OBVIOUS
  <2>1. i \in Nat /\ j \in Nat /\ <<j, i>> \in Nat \X Nat
    OBVIOUS
  <2>2. ~(j < i)
    BY <1>2, <2>1 DEF OpToRel
  <2> QED
    BY <2>1, <2>2
<1> QED
  BY <1>3 DEF Fewest

\* f goes n times from an address to the next, from the prologue on.
Follows(f, n, next) ==
  f \in [0 .. n -> Nat] /\ \A k \in 0 .. n : f[k] = IF k = 0 THEN Prologue ELSE next[f[k - 1]]

\* A walk of any number of steps can be made.
LEMMA WalkExists == \A next \in [Nat -> Nat] : \A n \in Nat : \E f : Follows(f, n, next)
<1> SUFFICES ASSUME NEW next \in [Nat -> Nat] PROVE \A n \in Nat : \E f : Follows(f, n, next)
  OBVIOUS
<1> DEFINE Undefined == {n \in Nat : \A f : ~Follows(f, n, next)}
<1>1. SUFFICES ASSUME Undefined # {} PROVE FALSE
  OBVIOUS
<1> DEFINE n == Fewest(Undefined)
<1>2. n \in Undefined /\ \A j \in Undefined : n <= j
  BY <1>1, FewestIs
<1> HIDE DEF n
<1>3. Prologue \in Nat
  BY DEF Prologue, WSIZE
<1>4. CASE n = 0
  <2> DEFINE g == [k \in 0 .. 0 |-> Prologue]
  <2>1. g \in [0 .. 0 -> Nat] /\ \A k \in 0 .. 0 : g[k] = Prologue /\ k = 0
    BY <1>3
  <2> HIDE DEF g
  <2>2. Follows(g, 0, next)
    BY <2>1 DEF Follows
  <2> QED
    BY <1>2, <1>4, <2>2
<1>5. CASE n # 0
  <2>1. n \in Nat /\ n - 1 \in Nat /\ ~(n <= n - 1)
    BY <1>2, <1>5
  <2>2. n - 1 \notin Undefined
    BY <1>2, <2>1
  <2>3. PICK f : Follows(f, n - 1, next)
    BY <2>1, <2>2
  <2>4. f \in [0 .. n - 1 -> Nat]
    BY <2>3 DEF Follows
  <2> DEFINE g == [k \in 0 .. n |-> IF k = n THEN next[f[n - 1]] ELSE f[k]]
  <2>5. g \in [0 .. n -> Nat]
    <3>1. n - 1 \in 0 .. n - 1 /\ \A k \in 0 .. n : k # n => k \in 0 .. n - 1
      BY <2>1
    <3> QED
      BY <2>4, <3>1
  <2>6. \A k \in 0 .. n : g[k] = IF k = 0 THEN Prologue ELSE next[g[k - 1]]
    <3> SUFFICES ASSUME NEW k \in 0 .. n
                 PROVE  g[k] = IF k = 0 THEN Prologue ELSE next[g[k - 1]]
      OBVIOUS
    <3>1. k # 0 => k - 1 \in 0 .. n /\ k - 1 # n
      BY <2>1
    <3>2. k # 0 => g[k - 1] = f[k - 1]
      BY <3>1
    <3>3. CASE k = n
      BY <1>5, <3>2, <3>3
    <3>4. CASE k # n
      <4>1. k \in 0 .. n - 1
        BY <2>1, <3>4
      <4>2. f[k] = IF k = 0 THEN Prologue ELSE next[f[k - 1]]
        BY <2>3, <4>1 DEF Follows
      <4> QED
        BY <3>2, <3>4, <4>2
    <3> QED
      BY <3>3, <3>4
  <2> HIDE DEF g
  <2>7. Follows(g, n, next)
    BY <2>5, <2>6 DEF Follows
  <2> QED
    BY <1>2, <2>7
<1> QED
  BY <1>4, <1>5

\* The arena has room for three blocks and more.
LEMMA MaxBlocksIs == MaxBlocks \in Nat /\ MaxBlocks > 1 /\ MAX_HEAP < 32 * MaxBlocks + 32 /\ MAX_HEAP \in Nat
<1>1. MAX_HEAP \in Nat /\ MAX_HEAP > 112
  BY MemLibAssumption, ExplicitListAssumption
<1> QED
  BY <1>1 DEF MaxBlocks, DWORD_SIZE

\* The walk is defined: it starts at the prologue and goes from block to block.
LEMMA WalkIs ==
  ASSUME NEW m \in Memory
  PROVE  /\ DOMAIN Walk(m) = 0 .. MaxBlocks
         /\ \A k \in 0 .. MaxBlocks :
              Walk(m)[k] = IF k = 0 THEN Prologue ELSE next_payload(m, Walk(m)[k - 1])
<1> DEFINE next == [p \in Nat |-> next_payload(m, p)]
           IsWalk(f) == f = [k \in 0 .. MaxBlocks |-> IF k = 0 THEN Prologue ELSE next_payload(m, f[k - 1])]
<1>1. next \in [Nat -> Nat] /\ \A p \in Nat : next[p] = next_payload(m, p)
  <2>1. \A p \in Nat : SizeOf(m, p) \in Nat
    BY WordTyped DEF SizeOf, TagSet
  <2> QED
    BY <2>1 DEF next_payload
<1> HIDE DEF next
<1>2. MaxBlocks \in Nat
  BY MaxBlocksIs
<1>3. PICK f : Follows(f, MaxBlocks, next)
  BY <1>1, <1>2, WalkExists
<1>4. IsWalk(f)
  <2>1. f \in [0 .. MaxBlocks -> Nat]
    BY <1>3 DEF Follows
  <2>2. \A k \in 0 .. MaxBlocks : f[k] = IF k = 0 THEN Prologue ELSE next_payload(m, f[k - 1])
    <3> TAKE k \in 0 .. MaxBlocks
    <3>1. k # 0 => k - 1 \in 0 .. MaxBlocks
      BY <1>2
    <3>2. k # 0 => f[k - 1] \in Nat
      BY <2>1, <3>1
    <3> QED
      BY <1>1, <1>3, <3>2 DEF Follows
  <2> QED
    BY <2>1, <2>2
<1>5. Walk(m) = CHOOSE g : IsWalk(g)
  BY DEF Walk
<1>6. IsWalk(Walk(m))
  BY <1>4, <1>5
<1> DEFINE w == Walk(m)
<1> HIDE DEF w
<1>7. w = [k \in 0 .. MaxBlocks |-> IF k = 0 THEN Prologue ELSE next_payload(m, w[k - 1])]
  BY <1>6 DEF w
<1>8. /\ DOMAIN w = 0 .. MaxBlocks
      /\ \A k \in 0 .. MaxBlocks : w[k] = IF k = 0 THEN Prologue ELSE next_payload(m, w[k - 1])
  BY <1>7
<1> QED
  BY <1>8 DEF w

\* As long as the prologue is linked to itself, find_fit finds nothing.
LEMMA NothingFits ==
  ASSUME NEW m \in Memory, SelfTied(m, Prologue), NEW asize
  PROVE  find_fit(m, asize) = NULL
<1> DEFINE next == [p \in Nat |-> fnext(m, p) + WSIZE]
           IsWalk(f) == f = [k \in 0 .. MaxBlocks |-> IF k = 0 THEN Prologue ELSE fnext(m, f[k - 1]) + WSIZE]
           at    == LinkWalk(m)
           stops == {k \in DOMAIN at \ {0} : at[k] = Prologue \/ asize <= SizeOf(m, at[k])}
<1>1. next \in [Nat -> Nat] /\ \A p \in Nat : next[p] = fnext(m, p) + WSIZE
  <2>1. \A p \in Nat : fnext(m, p) \in Nat
    BY WordTyped DEF fnext, TagSet
  <2> QED
    BY <2>1 DEF WSIZE
<1> HIDE DEF next
<1>2. MaxBlocks \in Nat /\ MaxBlocks > 1
  BY MaxBlocksIs
<1>3. PICK f : Follows(f, MaxBlocks, next)
  BY <1>1, <1>2, WalkExists
<1>4. IsWalk(f)
  <2>1. f \in [0 .. MaxBlocks -> Nat]
    BY <1>3 DEF Follows
  <2>2. \A k \in 0 .. MaxBlocks : f[k] = IF k = 0 THEN Prologue ELSE fnext(m, f[k - 1]) + WSIZE
    <3> TAKE k \in 0 .. MaxBlocks
    <3>1. k # 0 => k - 1 \in 0 .. MaxBlocks
      BY <1>2
    <3>2. k # 0 => f[k - 1] \in Nat
      BY <2>1, <3>1
    <3> QED
      BY <1>1, <1>3, <3>2 DEF Follows
  <2> QED
    BY <2>1, <2>2
<1>5. LinkWalk(m) = CHOOSE g : IsWalk(g)
  BY DEF LinkWalk
<1>6. IsWalk(LinkWalk(m))
  BY <1>4, <1>5
<1>7. find_fit(m, asize) = IF stops = {} \/ at[Fewest(stops)] = Prologue THEN NULL ELSE at[Fewest(stops)]
  BY DEF find_fit
<1>8. at = [k \in 0 .. MaxBlocks |-> IF k = 0 THEN Prologue ELSE fnext(m, at[k - 1]) + WSIZE]
  BY <1>6
<1> HIDE DEF at
<1>9. /\ DOMAIN at = 0 .. MaxBlocks /\ at[0] = Prologue /\ at[1] = fnext(m, at[0]) + WSIZE
      /\ 1 \in 0 .. MaxBlocks /\ 1 # 0
  BY <1>2, <1>8
<1>10. at[1] = Prologue
  <2>1. fnext(m, Prologue) = WSIZE
    BY LinkIs DEF SelfTied, fnext, header, Prologue, WSIZE
  <2> QED
    BY <1>9, <2>1 DEF Prologue, WSIZE
<1>11. 1 \in stops /\ stops \in SUBSET Nat /\ \A k \in stops : k >= 1
  BY <1>9, <1>10
<1> HIDE DEF stops
<1>12. Fewest(stops) = 1
  <2> DEFINE k == Fewest(stops)
  <2>1. k \in stops /\ k <= 1
    BY <1>11, FewestIs
  <2> HIDE DEF k
  <2>2. k >= 1 /\ k \in Nat
    BY <1>11, <2>1
  <2>3. k = 1
    BY <2>1, <2>2
  <2> QED
    BY <2>3 DEF k
<1> QED
  BY <1>7, <1>10, <1>12

\* The walk from the prologue visits every block and ends at the break.
LEMMA WalkVisits ==
  ASSUME NEW m, NEW brk, NEW B, Tiles(m, brk, B)
  PROVE  LET at == Walk(m) IN
         /\ DOMAIN at = 0 .. MaxBlocks /\ MaxBlocks \in Nat
         /\ at[MaxBlocks] = brk
         /\ \A k \in 1 .. MaxBlocks : at[k] \in (B \ {Prologue}) \cup {brk}
         /\ \A p \in B \ {Prologue} : \E k \in 1 .. MaxBlocks : at[k] = p
<1> DEFINE at == Walk(m)
<1>1. /\ DOMAIN at = 0 .. MaxBlocks
      /\ \A k \in 0 .. MaxBlocks : at[k] = IF k = 0 THEN Prologue ELSE next_payload(m, at[k - 1])
  <2>1. m \in Memory
    BY DEF Tiles
  <2> QED
    BY <2>1, WalkIs
<1> HIDE DEF at
<1>2. MaxBlocks \in Nat /\ MaxBlocks > 1 /\ MAX_HEAP \in Nat /\ MAX_HEAP < 32 * MaxBlocks + 32
  BY MaxBlocksIs
<1>3. /\ \A p \in B : /\ p \in Nat /\ SizeOf(m, p) \in Nat /\ p >= 16 /\ SizeOf(m, p) >= 32
                      /\ p + SizeOf(m, p) <= brk
      /\ brk \in Nat /\ brk <= MAX_HEAP
  <2>1. \A p \in B : /\ p \in Nat /\ SizeOf(m, p) \in Nat /\ p >= 16 /\ SizeOf(m, p) >= 32
                     /\ p + SizeOf(m, p) <= brk
    BY BlockFacts DEF Prologue, WSIZE, MIN_BLOCK_SIZE
  <2>2. brk \in Nat /\ brk <= MAX_HEAP
    BY PayloadIs DEF Tiles
  <2> QED
    BY <2>1, <2>2
<1>4. /\ Prologue \in B /\ Prologue = 16
      /\ \A p \in B : p + SizeOf(m, p) \in B \cup {brk}
      /\ \A q \in B \cup {brk} : q = Prologue \/ \E p \in B : p + SizeOf(m, p) = q
  BY DEF Tiles, Prologue, WSIZE
<1>5. next_payload(m, brk) = brk
  BY <1>3, EpilogueSays DEF next_payload
<1>6. \A p \in B : next_payload(m, p) = p + SizeOf(m, p)
  BY DEF next_payload
<1> DEFINE Right(k) == /\ at[k] \in B \cup {brk}
                       /\ at[k] # brk => at[k] >= 32 * k
                       /\ k > 0 => at[k] # Prologue
           Wrong == {k \in 0 .. MaxBlocks : ~Right(k)}
<1>7. brk # Prologue
  BY <1>3, <1>4, EpilogueSays
<1>8. at[0] = Prologue /\ Right(0)
  BY <1>1, <1>2, <1>4
<1>9. Wrong = {}
  <2> SUFFICES ASSUME Wrong # {} PROVE FALSE
    OBVIOUS
  <2> DEFINE n == Fewest(Wrong)
  <2>1. n \in Wrong /\ \A j \in Wrong : n <= j
    <3>1. Wrong \in SUBSET Nat
      BY <1>2
    <3> HIDE DEF Wrong
    <3> QED
      BY <3>1, FewestIs
  <2> HIDE DEF n
  <2>2. n \in 0 .. MaxBlocks /\ ~Right(n) /\ n # 0
    BY <1>8, <2>1
  <2>3. n - 1 \in 0 .. MaxBlocks /\ ~(n <= n - 1)
    BY <1>2, <2>2
  <2>4. Right(n - 1)
    BY <2>1, <2>3
  <2>5. at[n] = next_payload(m, at[n - 1])
    BY <1>1, <2>2
  <2>6. CASE at[n - 1] = brk
    BY <1>5, <1>7, <2>2, <2>5, <2>6
  <2>7. CASE at[n - 1] \in B /\ at[n - 1] # brk
    <3> DEFINE p == at[n - 1]
    <3>1. p \in Nat /\ SizeOf(m, p) \in Nat /\ SizeOf(m, p) >= 32 /\ p >= 16
      BY <1>3, <2>7
    <3>2. at[n] = p + SizeOf(m, p) /\ at[n] \in B \cup {brk}
      <4> HIDE DEF p
      <4>1. p \in B
        BY <2>7 DEF p
      <4>2. at[n] = next_payload(m, p)
        BY <2>5 DEF p
      <4> QED
        BY <1>4, <1>6, <4>1, <4>2
    <3>3. at[n] # Prologue
      BY <1>4, <3>1, <3>2
    <3>4. p >= 32 * (n - 1)
      BY <2>4, <2>7
    <3> HIDE DEF p
    <3>5. at[n] >= 32 * n
      BY <2>2, <3>1, <3>2, <3>4
    <3> QED
      BY <2>2, <3>2, <3>3, <3>5
  <2> QED
    BY <2>4, <2>6, <2>7
<1>10. \A k \in 0 .. MaxBlocks : Right(k)
  BY <1>9
<1>11. at[MaxBlocks] = brk
  <2> SUFFICES ASSUME at[MaxBlocks] # brk PROVE FALSE
    OBVIOUS
  <2> DEFINE p == at[MaxBlocks]
  <2>1. Right(MaxBlocks)
    BY <1>2, <1>10
  <2>2. p \in B /\ p >= 32 * MaxBlocks
    BY <2>1
  <2>3. SizeOf(m, p) >= 32 /\ p \in Nat /\ SizeOf(m, p) \in Nat /\ p + SizeOf(m, p) <= brk
    BY <1>3, <2>2
  <2> HIDE DEF p
  <2> QED
    BY <1>2, <1>3, <2>2, <2>3
<1>12. \A k \in 1 .. MaxBlocks : at[k] \in (B \ {Prologue}) \cup {brk}
  <2> TAKE k \in 1 .. MaxBlocks
  <2>1. k \in 0 .. MaxBlocks /\ k > 0
    BY <1>2
  <2> QED
    BY <1>10, <2>1
<1> HIDE DEF Right
<1> DEFINE Missed == {p \in B \ {Prologue} : \A k \in 1 .. MaxBlocks : at[k] # p}
<1>13. Missed = {}
  <2> SUFFICES ASSUME Missed # {} PROVE FALSE
    OBVIOUS
  <2> DEFINE q == Fewest(Missed)
  <2>1. q \in Missed /\ \A j \in Missed : q <= j
    <3>1. Missed \in SUBSET Nat
      BY <1>3
    <3> HIDE DEF Missed
    <3> QED
      BY <3>1, FewestIs
  <2> HIDE DEF q
  <2>2. q \in B \ {Prologue} /\ \A k \in 1 .. MaxBlocks : at[k] # q
    BY <2>1
  <2>3. PICK p \in B : p + SizeOf(m, p) = q
    BY <1>4, <2>2
  <2>4. p < q
    BY <1>3, <2>3
  <2>5. \E k \in 0 .. MaxBlocks : at[k] = p
    <3>1. CASE p = Prologue
      BY <1>2, <1>8, <3>1
    <3>2. CASE p # Prologue
      <4>1. p \notin Missed
        BY <1>3, <2>1, <2>4, <2>2
      <4>2. PICK k \in 1 .. MaxBlocks : at[k] = p
        BY <3>2, <4>1
      <4>3. k \in 0 .. MaxBlocks
        BY <1>2
      <4> QED
        BY <4>2, <4>3
    <3> QED
      BY <3>1, <3>2
  <2>6. PICK k \in 0 .. MaxBlocks : at[k] = p
    BY <2>5
  <2>7. k # MaxBlocks
    BY <1>3, <1>11, <2>3, <2>6, EpilogueSays
  <2>8. k + 1 \in 1 .. MaxBlocks /\ k + 1 \in 0 .. MaxBlocks /\ (k + 1) - 1 = k /\ k + 1 # 0
    BY <1>2, <2>7
  <2>9. at[k + 1] = next_payload(m, p)
    BY <1>1, <2>6, <2>8
  <2>10. at[k + 1] = q
    BY <1>6, <2>3, <2>9
  <2> QED
    BY <2>2, <2>8, <2>10
<1>14. \A p \in B \ {Prologue} : \E k \in 1 .. MaxBlocks : at[k] = p
  BY <1>13
<1> QED
  BY <1>1, <1>2, <1>11, <1>12, <1>14 DEF at
-----------------------------------------------------------------------------
(* What the internal routines write.                                       *)

\* Both tags of a block are written.
LEMMA TagsPut ==
  ASSUME NEW m \in Memory, NEW lo \in Payloads, lo > 0, NEW hi \in Nat, lo <= hi, NEW bit \in {0, 1}
  PROVE  /\ PutTags(m, lo, hi - lo, bit) \in Memory
         /\ \A a \in Words : PutTags(m, lo, hi - lo, bit)[a]
              = IF a = lo - WSIZE \/ a = hi - DWORD_SIZE THEN Tag(hi - lo, bit) ELSE m[a]
<1> DEFINE size == hi - lo
           h    == Put(m, lo - WSIZE, Tag(size, bit))
<1>1. lo \in Nat /\ size \in Nat /\ lo + size = hi
  BY PayloadIs
<1> HIDE DEF size
<1>2. lo - WSIZE \in Words /\ Tag(size, bit) \in TagSet
  BY <1>1, TagWords, TagIs
<1>3. h \in Memory /\ \A a \in Words : h[a] = IF a = lo - WSIZE THEN Tag(size, bit) ELSE m[a]
  BY <1>2, WordPut
<1> HIDE DEF h
<1>4. footer(h, lo) = hi - DWORD_SIZE
  <2>1. Word(h, lo - WSIZE).size = size
    BY <1>2, <1>3, TagSays DEF Word
  <2> QED
    BY <1>1, <2>1 DEF footer, SizeOf, header, DWORD_SIZE
<1>5. PutTags(m, lo, size, bit) = Put(h, hi - DWORD_SIZE, Tag(size, bit))
  BY <1>4 DEF PutTags, h, header
<1>6. /\ Put(h, hi - DWORD_SIZE, Tag(size, bit)) \in Memory
      /\ \A a \in Words : Put(h, hi - DWORD_SIZE, Tag(size, bit))[a]
           = IF a = hi - DWORD_SIZE THEN Tag(size, bit) ELSE h[a]
  BY <1>2, <1>3, WordPut
<1>7. /\ PutTags(m, lo, size, bit) \in Memory
      /\ \A a \in Words : PutTags(m, lo, size, bit)[a]
           = IF a = lo - WSIZE \/ a = hi - DWORD_SIZE THEN Tag(size, bit) ELSE m[a]
  BY <1>3, <1>5, <1>6
<1> QED
  BY <1>7 DEF size

\* The link words of a header are the first two words of its payload.
LEMMA LinkWords ==
  ASSUME NEW m, NEW p \in Nat, NEW w
  PROVE  /\ PutPrev(m, header(p), w) = Put(m, p, w) /\ PutNext(m, header(p), w) = Put(m, p + WSIZE, w)
<1>1. header(p) + WSIZE = p /\ header(p) + 2 * WSIZE = p + WSIZE
  BY DEF header, WSIZE
<1> QED
  BY <1>1 DEF PutPrev, PutNext

\* Both links of a block are written.
LEMMA LinksPut ==
  ASSUME NEW m \in Memory, NEW p \in Nat, p >= Prologue
  PROVE  /\ SelfLinked(m, p) \in Memory
         /\ \A a \in Words : SelfLinked(m, p)[a]
              = IF a = p \/ a = p + WSIZE THEN Link(p - WSIZE) ELSE m[a]
<1>1. Link(p - WSIZE) \in TagSet
  <2>1. p - WSIZE \in Nat
    BY DEF Prologue, WSIZE
  <2> QED
    BY <2>1, LinkIs
<1>2. SelfLinked(m, p) = Put(Put(m, p, Link(p - WSIZE)), p + WSIZE, Link(p - WSIZE))
  BY LinkWords DEF SelfLinked, header
<1> DEFINE h == Put(m, p, Link(p - WSIZE))
<1>3. h \in Memory /\ \A a \in Words : h[a] = IF a = p THEN Link(p - WSIZE) ELSE m[a]
  BY <1>1, WordPut
<1> HIDE DEF h
<1>4. /\ Put(h, p + WSIZE, Link(p - WSIZE)) \in Memory
      /\ \A a \in Words : Put(h, p + WSIZE, Link(p - WSIZE))[a]
           = IF a = p + WSIZE THEN Link(p - WSIZE) ELSE h[a]
  BY <1>1, <1>3, WordPut
<1> QED
  BY <1>2, <1>3, <1>4 DEF h

\* A block that joins the list is linked to itself, and the link back goes to
\* where its second word led.
LEMMA MergeBlockAdded ==
  ASSUME NEW m \in Memory, NEW p \in Nat, p >= Prologue
  PROVE  /\ add_merge_block_to_freelist(m, p) \in Memory
         /\ \A a \in Words : add_merge_block_to_freelist(m, p)[a]
              = IF a = p \/ a = p + WSIZE \/ a = fnext(m, p) + WSIZE THEN Link(p - WSIZE) ELSE m[a]
<1> DEFINE w  == Link(p - WSIZE)
           m1 == Put(m, p, w)
           m2 == Put(m1, fnext(m, p) + WSIZE, w)
           m3 == Put(m2, p + WSIZE, w)
<1>1. w \in TagSet
  <2>1. p - WSIZE \in Nat
    BY DEF Prologue, WSIZE
  <2> QED
    BY <2>1, LinkIs
<1>2. add_merge_block_to_freelist(m, p) = m3
  BY LinkWords DEF add_merge_block_to_freelist, PutPrev, header
<1> HIDE DEF w
<1>3. m1 \in Memory /\ \A a \in Words : m1[a] = IF a = p THEN w ELSE m[a]
  BY <1>1, WordPut
<1> HIDE DEF m1
<1>4. m2 \in Memory /\ \A a \in Words : m2[a] = IF a = fnext(m, p) + WSIZE THEN w ELSE m1[a]
  BY <1>1, <1>3, WordPut
<1> HIDE DEF m2
<1>5. m3 \in Memory /\ \A a \in Words : m3[a] = IF a = p + WSIZE THEN w ELSE m2[a]
  BY <1>1, <1>4, WordPut
<1> QED
  BY <1>2, <1>3, <1>4, <1>5 DEF w

\* A block that is linked to itself leaves the list without a change.
LEMMA NothingToRemove ==
  ASSUME NEW m \in Memory, NEW p \in Nat, p >= Prologue, SelfTied(m, p)
  PROVE  remove_from_freelist(m, p) = m
<1> DEFINE h == header(p)
<1>1. h = p - WSIZE /\ h \in Nat /\ h # NULL
  BY DEF header, Prologue, WSIZE, NULL
<1> HIDE DEF h
<1>2. Word(m, p) = Link(h) /\ Word(m, p + WSIZE) = Link(h)
  BY DEF SelfTied, h
<1>3. fprev(m, p) = h /\ fnext(m, p) = h
  BY <1>1, <1>2, LinkIs DEF fprev, fnext
<1>4. PutNext(m, h, Link(h)) = m /\ PutPrev(m, h, Link(h)) = m
  BY <1>2, LinkWords, PutSame DEF h
<1> QED
  BY <1>1, <1>3, <1>4 DEF remove_from_freelist

\* The size of a tag is written, its bit stays.
LEMMA SizePut ==
  \A m \in Memory, size \in Nat : \A a :
    /\ SetSize(m, a, size) \in Memory
    /\ \A b \in Words : SetSize(m, a, size)[b] = IF b = a THEN Tag(size, m[b].allocated) ELSE m[b]
<1> SUFFICES ASSUME NEW m \in Memory, NEW size \in Nat, NEW a
             PROVE  /\ SetSize(m, a, size) \in Memory
                    /\ \A b \in Words : SetSize(m, a, size)[b] = IF b = a THEN Tag(size, m[b].allocated) ELSE m[b]
  OBVIOUS
<1> DEFINE w == [Word(m, a) EXCEPT !.size = size]
<1>1. Word(m, a) \in TagSet
  BY WordTyped
<1>2. w = Tag(size, Word(m, a).allocated) /\ w \in TagSet
  BY <1>1 DEF Tag, TagSet
<1>3. a \in Words => Word(m, a) = m[a]
  BY DEF Word
<1>4. SetSize(m, a, size) = Put(m, a, w)
  BY DEF SetSize
<1> HIDE DEF w
<1>5. Put(m, a, w) \in Memory /\ \A b \in Words : Put(m, a, w)[b] = IF b = a THEN w ELSE m[b]
  BY <1>2, WordPut
<1> QED
  BY <1>2, <1>3, <1>4, <1>5

-----------------------------------------------------------------------------
(* Coalescing.                                                             *)

\* The neighbours of a block.
LEMMA Neighbours ==
  ASSUME NEW m, NEW brk, NEW B, Tiles(m, brk, B), NEW bp \in B, bp # Prologue
  PROVE  /\ prev_payload(m, bp) \in B /\ prev_payload(m, bp) + SizeOf(m, prev_payload(m, bp)) = bp
         /\ PrevFree(m, bp) <=> Alloc(m, prev_payload(m, bp)) = 0
         /\ PrevFree(m, bp) => prev_payload(m, bp) # Prologue
         /\ next_payload(m, bp) = bp + SizeOf(m, bp) /\ next_payload(m, bp) \in B \cup {brk}
         /\ NextFree(m, bp) <=> Alloc(m, next_payload(m, bp)) = 0
         /\ NextFree(m, bp) => next_payload(m, bp) \in B /\ next_payload(m, bp) # Prologue
<1>1. PICK prev \in B : prev + SizeOf(m, prev) = bp
  BY DEF Tiles
<1>2. /\ prev \in Nat /\ SizeOf(m, prev) \in Nat /\ bp \in Nat /\ SizeOf(m, bp) \in Nat
      /\ SizeOf(m, bp) >= MIN_BLOCK_SIZE /\ bp >= Prologue
      /\ prev + SizeOf(m, prev) - DWORD_SIZE \in Words
      /\ m[prev + SizeOf(m, prev) - DWORD_SIZE].size = SizeOf(m, prev)
  BY BlockFacts
<1>3. prev_payload(m, bp) = prev
  <2>1. header(bp) - WSIZE = prev + SizeOf(m, prev) - DWORD_SIZE
    BY <1>1, <1>2 DEF header, WSIZE, DWORD_SIZE
  <2>2. Word(m, header(bp) - WSIZE).size = SizeOf(m, prev)
    BY <1>2, <2>1 DEF Word
  <2> QED
    BY <1>1, <1>2, <2>2 DEF prev_payload
<1>4. next_payload(m, bp) = bp + SizeOf(m, bp) /\ next_payload(m, bp) \in B \cup {brk}
  BY DEF next_payload, Tiles
<1>5. Alloc(m, Prologue) = 1 /\ Alloc(m, brk) = 1
  BY PrologueSays, EpilogueSays
<1>6. next_payload(m, bp) # Prologue
  BY <1>2, <1>4 DEF Prologue, WSIZE, MIN_BLOCK_SIZE
<1> QED
  BY <1>1, <1>3, <1>4, <1>5, <1>6 DEF PrevFree, NextFree, Alloc

\* The words of M outside the blocks from lo to hi are those of m, and tags
\* say that lo reaches to hi.
MergesTo(m, M, lo, hi) ==
  /\ M \in Memory /\ SameOutside(m, M, lo, hi)
  /\ M[lo - WSIZE].size = hi - lo /\ M[hi - DWORD_SIZE].size = hi - lo

\* With no free neighbour.
LEMMA MergedAlone ==
  ASSUME NEW m, NEW brk, NEW B, Tiles(m, brk, B), NEW bp \in B, bp # Prologue,
         ~PrevFree(m, bp), ~NextFree(m, bp)
  PROVE  LET M == MergedTags(m, bp) IN
         MergesTo(m, M, bp, bp + SizeOf(m, bp)) /\ M[bp - WSIZE].allocated = 0 /\ SelfTied(M, bp)
<1> DEFINE hi == bp + SizeOf(m, bp)
           m1 == PutTags(m, bp, hi - bp, 0)
           m2 == SelfLinked(m1, bp)
           M  == add_merge_block_to_freelist(m2, bp)
<1>1. /\ bp \in Nat /\ bp > 0 /\ bp >= Prologue /\ hi \in Nat /\ bp + 32 <= hi /\ bp \in Payloads
      /\ bp - WSIZE \in Words /\ hi - DWORD_SIZE \in Words /\ bp \in Words /\ bp + WSIZE \in Words
      /\ m \in Memory /\ SizeOf(m, bp) = hi - bp /\ bp <= hi
  <2>1. m \in Memory
    BY DEF Tiles
  <2>2. /\ bp \in Nat /\ bp >= Prologue /\ SizeOf(m, bp) \in Nat /\ SizeOf(m, bp) >= 32 /\ bp \in Payloads
        /\ bp - WSIZE \in Words /\ hi - DWORD_SIZE \in Words /\ bp \in Words /\ bp + WSIZE \in Words
    <3>1. /\ bp \in Nat /\ bp >= Prologue /\ SizeOf(m, bp) \in Nat /\ SizeOf(m, bp) >= MIN_BLOCK_SIZE
          /\ bp \in Payloads /\ bp - WSIZE \in Words /\ bp \in Words /\ bp + WSIZE \in Words
          /\ bp + SizeOf(m, bp) - DWORD_SIZE \in Words
      BY BlockFacts
    <3> QED
      BY <3>1 DEF MIN_BLOCK_SIZE, DWORD_SIZE
  <2>3. bp > 0
    BY <2>2 DEF Prologue, WSIZE
  <2> QED
    BY <2>1, <2>2, <2>3
<1>2. MergedTags(m, bp) = M
  BY <1>1 DEF MergedTags
<1> HIDE DEF hi
<1>3. /\ m1 \in Memory
      /\ \A a \in Words : m1[a] = IF a = bp - WSIZE \/ a = hi - DWORD_SIZE THEN Tag(hi - bp, 0) ELSE m[a]
  BY <1>1, TagsPut
<1> HIDE DEF m1
<1>4. m2 \in Memory /\ \A a \in Words : m2[a] = IF a = bp \/ a = bp + WSIZE THEN Link(bp - WSIZE) ELSE m1[a]
  BY <1>1, <1>3, LinksPut
<1> HIDE DEF m2
<1>5. fnext(m2, bp) + WSIZE = bp
  <2>1. m2[bp + WSIZE] = Link(bp - WSIZE) /\ bp - WSIZE \in Nat
    BY <1>1, <1>4 DEF Prologue, WSIZE
  <2>2. fnext(m2, bp) = bp - WSIZE
    BY <1>1, <2>1, LinkIs DEF fnext, Word
  <2> QED
    BY <1>1, <2>2 DEF WSIZE
<1>6. M \in Memory /\ \A a \in Words : M[a] = IF a = bp \/ a = bp + WSIZE THEN Link(bp - WSIZE) ELSE m2[a]
  BY <1>1, <1>4, <1>5, MergeBlockAdded
<1> HIDE DEF M
<1>7. \A a \in Words : M[a] = IF a = bp - WSIZE \/ a = hi - DWORD_SIZE THEN Tag(hi - bp, 0)
                              ELSE IF a = bp \/ a = bp + WSIZE THEN Link(bp - WSIZE) ELSE m[a]
  BY <1>1, <1>3, <1>4, <1>6 DEF WSIZE, DWORD_SIZE
<1>8. M[bp - WSIZE] = Tag(hi - bp, 0) /\ M[hi - DWORD_SIZE] = Tag(hi - bp, 0)
  BY <1>1, <1>7
<1>9. SameOutside(m, M, bp, hi)
  <2>1. \A a \in Words : a \in Nat
    BY WordIs
  <2> QED
    BY <1>1, <1>7, <2>1 DEF SameOutside, WSIZE, DWORD_SIZE
<1>10. SelfTied(M, bp)
  <2>1. M[bp] = Link(bp - WSIZE) /\ M[bp + WSIZE] = Link(bp - WSIZE)
    BY <1>1, <1>7 DEF WSIZE, DWORD_SIZE
  <2> QED
    BY <1>1, <2>1 DEF SelfTied, Word, header
<1>11. MergesTo(m, M, bp, hi) /\ M[bp - WSIZE].allocated = 0
  BY <1>6, <1>8, <1>9, TagSays DEF MergesTo
<1> QED
  BY <1>2, <1>10, <1>11 DEF hi

\* The words of the block that ends at e.
LEMMA BlockEnds ==
  ASSUME NEW m, NEW brk, NEW B, Tiles(m, brk, B), NEW p \in B
  PROVE  \E e \in Payloads :
           /\ e = p + SizeOf(m, p) /\ SizeOf(m, p) = e - p /\ footer(m, p) = e - DWORD_SIZE
           /\ p \in Payloads /\ p \in Nat /\ e \in Nat /\ p >= Prologue /\ p > 0 /\ p + 32 <= e
           /\ p - WSIZE \in Words /\ p \in Words /\ p + WSIZE \in Words /\ e - DWORD_SIZE \in Words
           /\ m \in Memory /\ m[p - WSIZE].size = e - p /\ m[e - DWORD_SIZE].size = e - p
           /\ m[p - WSIZE].allocated = Alloc(m, p)
<1> DEFINE e == p + SizeOf(m, p)
<1>1. /\ p \in Nat /\ p >= Prologue /\ SizeOf(m, p) \in Nat /\ SizeOf(m, p) >= MIN_BLOCK_SIZE
      /\ p \in Payloads /\ p - WSIZE \in Words /\ p \in Words /\ p + WSIZE \in Words
      /\ p + SizeOf(m, p) - DWORD_SIZE \in Words /\ p + SizeOf(m, p) \in Payloads
      /\ m[p - WSIZE].size = SizeOf(m, p) /\ m[p - WSIZE].allocated = Alloc(m, p)
      /\ m[p + SizeOf(m, p) - DWORD_SIZE].size = SizeOf(m, p)
  BY BlockFacts
<1>2. m \in Memory
  BY DEF Tiles
<1>3. e \in Nat /\ SizeOf(m, p) = e - p /\ p + 32 <= e /\ p > 0
  BY <1>1 DEF MIN_BLOCK_SIZE, Prologue, WSIZE
<1>4. footer(m, p) = e - DWORD_SIZE
  BY <1>1 DEF footer, DWORD_SIZE
<1>5. e \in Payloads /\ e - DWORD_SIZE \in Words /\ m[e - DWORD_SIZE].size = SizeOf(m, p)
  BY <1>1 DEF DWORD_SIZE
<1>6. e = p + SizeOf(m, p)
  OBVIOUS
<1> HIDE DEF e
<1> QED
  BY <1>1, <1>2, <1>3, <1>4, <1>5, <1>6

\* With a free block on the right only: the header keeps its bit.
LEMMA MergedRight ==
  ASSUME NEW m, NEW brk, NEW B, Tiles(m, brk, B), NEW bp \in B, bp # Prologue,
         ~PrevFree(m, bp), NextFree(m, bp), SelfTied(m, next_payload(m, bp))
  PROVE  LET M    == MergedTags(m, bp)
             next == next_payload(m, bp)
             hi   == next + SizeOf(m, next)
         IN  MergesTo(m, M, bp, hi) /\ M[hi - DWORD_SIZE].allocated = 0 /\ fnext(M, bp) = fnext(m, bp)
<1> DEFINE next == next_payload(m, bp)
           hi   == next + SizeOf(m, next)
<1>1. next \in B
  BY Neighbours
<1>2. PICK e \in Payloads :
           /\ e = bp + SizeOf(m, bp) /\ SizeOf(m, bp) = e - bp
           /\ bp \in Payloads /\ bp \in Nat /\ e \in Nat /\ bp >= Prologue /\ bp > 0 /\ bp + 32 <= e
           /\ bp - WSIZE \in Words /\ bp \in Words /\ bp + WSIZE \in Words
           /\ m \in Memory
  BY BlockEnds
<1>3. next = e
  BY <1>2 DEF next_payload
<1>4. PICK h \in Payloads :
           /\ h = e + SizeOf(m, e) /\ SizeOf(m, e) = h - e
           /\ h \in Nat /\ e + 32 <= h /\ e >= Prologue
           /\ e \in Words /\ e + WSIZE \in Words /\ h - DWORD_SIZE \in Words
  BY <1>1, <1>3, BlockEnds
<1>5. hi = h
  BY <1>3, <1>4
<1> DEFINE size == h - bp
           wide == SetSize(m, bp - WSIZE, size)
           k    == Put(wide, h - DWORD_SIZE, Tag(size, 0))
<1>15. size \in Nat /\ bp + size = h /\ size = h - bp
  BY <1>2, <1>4
<1>16. SizeOf(m, bp) + SizeOf(m, next) = size
  <2>1. SizeOf(m, next) = h - e
    BY <1>3, <1>4
  <2>2. \A x, y, z \in Nat : (y - x) + (z - y) = z - x
    OBVIOUS
  <2>3. SizeOf(m, bp) + SizeOf(m, next) = (e - bp) + (h - e)
    BY <1>2, <2>1
  <2> HIDE DEF next, hi, size, wide, k
  <2> QED
    BY <1>2, <1>4, <1>15, <2>2, <2>3
<1> HIDE DEF size
<1>6. wide \in Memory /\ \A a \in Words : wide[a] = IF a = bp - WSIZE THEN Tag(size, m[a].allocated) ELSE m[a]
  BY <1>2, <1>15, SizePut
<1> HIDE DEF wide
<1>7. footer(wide, bp) = h - DWORD_SIZE
  <2>1. Word(wide, bp - WSIZE).size = size
    BY <1>2, <1>6, TagSays DEF Word
  <2> QED
    BY <1>2, <1>4, <1>15, <2>1 DEF footer, SizeOf, header, DWORD_SIZE
<1>8. MergedTags(m, bp) = remove_from_freelist(k, e)
  <2>2. MergedTags(m, bp)
          = remove_from_freelist(
              Put(SetSize(m, header(bp), SizeOf(m, bp) + SizeOf(m, next)),
                  footer(SetSize(m, header(bp), SizeOf(m, bp) + SizeOf(m, next)), bp),
                  Tag(SizeOf(m, bp) + SizeOf(m, next), 0)), next)
    BY DEF MergedTags
  <2>3. SetSize(m, header(bp), SizeOf(m, bp) + SizeOf(m, next)) = wide
    BY <1>16 DEF wide, header
  <2> HIDE DEF next
  <2> QED
    BY <1>3, <1>7, <1>16, <2>2, <2>3 DEF k
<1>9. k \in Memory /\ \A a \in Words : k[a] = IF a = h - DWORD_SIZE THEN Tag(size, 0) ELSE wide[a]
  <2>1. Tag(size, 0) \in TagSet
    BY <1>15, TagIs
  <2> QED
    BY <1>6, <2>1, WordPut
<1> HIDE DEF k
<1>10. SelfTied(k, e)
  <2>1. k[e] = m[e] /\ k[e + WSIZE] = m[e + WSIZE]
    BY <1>2, <1>4, <1>6, <1>9 DEF WSIZE, DWORD_SIZE
  <2> QED
    BY <1>3, <1>4, <2>1 DEF SelfTied, Word
<1>11. MergedTags(m, bp) = k
  BY <1>2, <1>4, <1>8, <1>9, <1>10, NothingToRemove
<1>12. SameOutside(m, k, bp, h)
  <2>1. \A a \in Words : a \in Nat
    BY WordIs
  <2> QED
    BY <1>2, <1>4, <1>6, <1>9, <2>1 DEF SameOutside, WSIZE, DWORD_SIZE
<1>13. k[bp - WSIZE].size = size /\ k[h - DWORD_SIZE] = Tag(size, 0)
  <2>1. bp - WSIZE # h - DWORD_SIZE
    BY <1>2, <1>4 DEF WSIZE, DWORD_SIZE
  <2>2. k[h - DWORD_SIZE] = Tag(size, 0)
    BY <1>4, <1>9
  <2>3. k[bp - WSIZE] = wide[bp - WSIZE]
    BY <1>2, <1>9, <2>1
  <2>4. wide[bp - WSIZE] = Tag(size, m[bp - WSIZE].allocated)
    BY <1>2, <1>6
  <2> QED
    BY <2>2, <2>3, <2>4, TagSays
<1>14. MergesTo(m, k, bp, h) /\ k[h - DWORD_SIZE].allocated = 0
  BY <1>9, <1>12, <1>13, <1>15, TagSays DEF MergesTo
<1>17. fnext(k, bp) = fnext(m, bp)
  <2>1. k[bp + WSIZE] = m[bp + WSIZE]
    BY <1>2, <1>4, <1>6, <1>9 DEF WSIZE, DWORD_SIZE
  <2> QED
    BY <1>2, <2>1 DEF fnext, Word
<1> QED
  BY <1>5, <1>11, <1>14, <1>17

\* With a free block on the left only: the footer keeps its bit.
LEMMA MergedLeft ==
  ASSUME NEW m, NEW brk, NEW B, Tiles(m, brk, B), NEW bp \in B, bp # Prologue,
         PrevFree(m, bp), ~NextFree(m, bp), SelfTied(m, prev_payload(m, bp))
  PROVE  LET M    == MergedTags(m, bp)
             prev == prev_payload(m, bp)
         IN  MergesTo(m, M, prev, bp + SizeOf(m, bp)) /\ M[prev - WSIZE].allocated = 0 /\ SelfTied(M, prev)
<1> DEFINE prev == prev_payload(m, bp)
<1>1. prev \in B /\ prev + SizeOf(m, prev) = bp
  BY Neighbours
<1>2. PICK h \in Payloads :
           /\ h = bp + SizeOf(m, bp) /\ SizeOf(m, bp) = h - bp /\ footer(m, bp) = h - DWORD_SIZE
           /\ bp \in Nat /\ h \in Nat /\ bp + 32 <= h
           /\ h - DWORD_SIZE \in Words /\ m \in Memory
  BY BlockEnds
<1>3. prev \in Nat /\ prev >= Prologue /\ prev + 32 <= bp /\ SizeOf(m, prev) = bp - prev
      /\ prev - WSIZE \in Words /\ prev \in Words /\ prev + WSIZE \in Words
  BY <1>1, BlockEnds
<1> DEFINE size  == h - prev
           ended == SetSize(m, h - DWORD_SIZE, size)
           k     == Put(ended, prev - WSIZE, Tag(size, 0))
<1>4. size \in Nat /\ size = h - prev /\ SizeOf(m, bp) + SizeOf(m, prev) = size
  <2> HIDE DEF prev
  <2> QED
    BY <1>2, <1>3
<1> HIDE DEF size
<1>5. MergedTags(m, bp) = remove_from_freelist(k, prev)
  <2>2. MergedTags(m, bp)
          = remove_from_freelist(
              Put(SetSize(m, footer(m, bp), SizeOf(m, bp) + SizeOf(m, prev)), header(prev),
                  Tag(SizeOf(m, bp) + SizeOf(m, prev), 0)), prev)
    BY DEF MergedTags
  <2> HIDE DEF prev
  <2> QED
    BY <1>2, <1>4, <2>2 DEF header
<1> HIDE DEF prev
<1>6. ended \in Memory /\ \A a \in Words : ended[a] = IF a = h - DWORD_SIZE THEN Tag(size, m[a].allocated) ELSE m[a]
  BY <1>2, <1>4, SizePut
<1> HIDE DEF ended
<1>7. k \in Memory /\ \A a \in Words : k[a] = IF a = prev - WSIZE THEN Tag(size, 0) ELSE ended[a]
  <2>1. Tag(size, 0) \in TagSet
    BY <1>4, TagIs
  <2> QED
    BY <1>6, <2>1, WordPut
<1> HIDE DEF k
<1>8. SelfTied(k, prev)
  <2>1. k[prev] = m[prev] /\ k[prev + WSIZE] = m[prev + WSIZE]
    BY <1>2, <1>3, <1>6, <1>7 DEF WSIZE, DWORD_SIZE
  <2>2. SelfTied(m, prev)
    BY DEF prev
  <2> QED
    BY <1>3, <2>1, <2>2 DEF SelfTied, Word
<1>9. MergedTags(m, bp) = k
  BY <1>3, <1>5, <1>7, <1>8, NothingToRemove
<1>10. SameOutside(m, k, prev, h)
  <2>1. \A a \in Words : a \in Nat
    BY WordIs
  <2> SUFFICES ASSUME NEW a \in Words, a < prev - WSIZE \/ a >= h - WSIZE
               PROVE  k[a] = m[a]
    BY DEF SameOutside
  <2>2. a # prev - WSIZE /\ a # h - DWORD_SIZE
    BY <1>2, <1>3, <2>1 DEF WSIZE, DWORD_SIZE
  <2> QED
    BY <1>6, <1>7, <2>2
<1>11. k[prev - WSIZE] = Tag(size, 0) /\ k[h - DWORD_SIZE].size = size
  <2>1. prev - WSIZE # h - DWORD_SIZE
    BY <1>2, <1>3 DEF WSIZE, DWORD_SIZE
  <2>2. k[prev - WSIZE] = Tag(size, 0)
    BY <1>3, <1>7
  <2>3. k[h - DWORD_SIZE] = ended[h - DWORD_SIZE]
    BY <1>2, <1>7, <2>1
  <2>4. ended[h - DWORD_SIZE] = Tag(size, m[h - DWORD_SIZE].allocated)
    BY <1>2, <1>6
  <2> QED
    BY <2>2, <2>3, <2>4, TagSays
<1>12. MergesTo(m, k, prev, h) /\ k[prev - WSIZE].allocated = 0
  BY <1>4, <1>7, <1>10, <1>11, TagSays DEF MergesTo
<1> QED
  BY <1>2, <1>8, <1>9, <1>12 DEF prev

\* With free blocks on both sides.
LEMMA MergedBoth ==
  ASSUME NEW m, NEW brk, NEW B, Tiles(m, brk, B), NEW bp \in B, bp # Prologue,
         PrevFree(m, bp), NextFree(m, bp),
         SelfTied(m, prev_payload(m, bp)), SelfTied(m, next_payload(m, bp))
  PROVE  LET M    == MergedTags(m, bp)
             prev == prev_payload(m, bp)
             next == next_payload(m, bp)
             hi   == next + SizeOf(m, next)
         IN  MergesTo(m, M, prev, hi) /\ M[prev - WSIZE].allocated = 0 /\ SelfTied(M, prev)
<1> DEFINE prev == prev_payload(m, bp)
           next == next_payload(m, bp)
           hi   == next + SizeOf(m, next)
<1>1. prev \in B /\ prev + SizeOf(m, prev) = bp /\ next \in B /\ Alloc(m, prev) = 0
  BY Neighbours
<1>2. PICK e \in Payloads :
           /\ e = bp + SizeOf(m, bp) /\ SizeOf(m, bp) = e - bp
           /\ bp \in Nat /\ e \in Nat /\ bp + 32 <= e /\ m \in Memory
  BY BlockEnds
<1>3. /\ prev \in Nat /\ prev >= Prologue /\ prev + 32 <= bp /\ SizeOf(m, prev) = bp - prev
      /\ prev - WSIZE \in Words /\ prev \in Words /\ prev + WSIZE \in Words
      /\ m[prev - WSIZE].allocated = 0
  BY <1>1, BlockEnds
<1>4. next = e
  BY <1>2 DEF next_payload
<1>5. PICK h \in Payloads :
           /\ h = e + SizeOf(m, e) /\ footer(m, e) = h - DWORD_SIZE
           /\ h \in Nat /\ e + 32 <= h /\ e >= Prologue /\ m[h - DWORD_SIZE].size = h - e
           /\ e - WSIZE \in Words /\ e \in Words /\ e + WSIZE \in Words /\ h - DWORD_SIZE \in Words
           /\ SizeOf(m, e) = h - e
  BY <1>1, <1>4, BlockEnds
<1>6. hi = h
  BY <1>4, <1>5
<1> DEFINE size == h - prev
           both == SizeOf(m, bp) + SizeOf(m, prev) + Word(m, footer(m, next)).size
           open == SetSize(m, prev - WSIZE, size)
           k    == SetSize(open, h - DWORD_SIZE, size)
<1>7. size \in Nat /\ size = h - prev /\ both = size
  <2>1. Word(m, footer(m, next)).size = h - e
    BY <1>4, <1>5 DEF Word
  <2>2. both = (e - bp) + (bp - prev) + (h - e)
    BY <1>2, <1>3, <2>1
  <2>3. size = h - prev
    OBVIOUS
  <2>4. \A w, x, y, z \in Nat : (y - x) + (x - w) + (z - y) = z - w
    OBVIOUS
  <2>5. prev \in Nat /\ e \in Nat /\ bp \in Nat /\ h \in Nat /\ prev <= h
    <3> HIDE DEF prev
    <3> QED
      BY <1>2, <1>3, <1>5
  <2> HIDE DEF prev, next, both, size
  <2>6. h - prev \in Nat
    BY <2>5
  <2> QED
    BY <2>2, <2>3, <2>4, <2>5, <2>6
<1> HIDE DEF size, both
<1>8. open \in Memory /\ \A a \in Words : open[a] = IF a = prev - WSIZE THEN Tag(size, m[a].allocated) ELSE m[a]
  <2> HIDE DEF prev
  <2> QED
    <3>1. m \in Memory /\ size \in Nat
      BY <1>2, <1>7
    <3> QED
      BY <3>1, SizePut
<1>9. footer(open, e) = h - DWORD_SIZE
  <2>1. open[e - WSIZE] = m[e - WSIZE]
    <3> HIDE DEF prev, open
    <3>1. e - WSIZE # prev - WSIZE
      BY <1>2, <1>3 DEF WSIZE
    <3> QED
      BY <1>5, <1>8, <3>1
  <2>2. SizeOf(open, e) = SizeOf(m, e)
    BY <1>5, <2>1 DEF SizeOf, header, Word
  <2> QED
    BY <1>5, <2>2 DEF footer
<1>10. MergedTags(m, bp) = remove_from_freelist(remove_from_freelist(k, prev), e)
  <2>2. MergedTags(m, bp)
          = remove_from_freelist(remove_from_freelist(
              SetSize(SetSize(m, header(prev), both), footer(SetSize(m, header(prev), both), next), both),
              prev), next)
    BY DEF MergedTags, both
  <2>3. SetSize(m, header(prev), both) = open
    BY <1>7 DEF header, open
  <2> HIDE DEF prev, next, open
  <2> QED
    BY <1>4, <1>7, <1>9, <2>2, <2>3 DEF k
<1> HIDE DEF prev, open
<1>11. k \in Memory /\ \A a \in Words : k[a] = IF a = h - DWORD_SIZE THEN Tag(size, open[a].allocated) ELSE open[a]
  <2>1. open \in Memory /\ size \in Nat
    BY <1>7, <1>8
  <2> QED
    BY <2>1, SizePut
<1> HIDE DEF k
<1>12. SelfTied(k, prev) /\ SelfTied(k, e)
  <2>1. k[prev] = m[prev] /\ k[prev + WSIZE] = m[prev + WSIZE] /\ k[e] = m[e] /\ k[e + WSIZE] = m[e + WSIZE]
    BY <1>2, <1>3, <1>5, <1>8, <1>11 DEF WSIZE, DWORD_SIZE
  <2>2. SelfTied(m, prev) /\ SelfTied(m, e)
    BY <1>4 DEF prev
  <2> QED
    BY <1>3, <1>5, <2>1, <2>2 DEF SelfTied, Word
<1>13. MergedTags(m, bp) = k
  BY <1>2, <1>3, <1>5, <1>10, <1>11, <1>12, NothingToRemove
<1>14. SameOutside(m, k, prev, h)
  <2> SUFFICES ASSUME NEW a \in Words, a < prev - WSIZE \/ a >= h - WSIZE
               PROVE  k[a] = m[a]
    BY DEF SameOutside
  <2>1. a \in Nat
    BY WordIs
  <2>2. prev \in Nat /\ h \in Nat /\ prev + 32 <= h
    BY <1>2, <1>3, <1>5
  <2>3. a # h - DWORD_SIZE /\ a # prev - WSIZE
    BY <2>1, <2>2 DEF WSIZE, DWORD_SIZE
  <2> QED
    BY <1>8, <1>11, <2>3
<1>15. k[prev - WSIZE] = Tag(size, 0) /\ k[h - DWORD_SIZE].size = size
  <2>1. prev - WSIZE # h - DWORD_SIZE
    BY <1>2, <1>3, <1>5 DEF WSIZE, DWORD_SIZE
  <2>2. k[prev - WSIZE] = open[prev - WSIZE]
    BY <1>3, <1>11, <2>1
  <2>3. open[prev - WSIZE] = Tag(size, 0)
    BY <1>3, <1>8
  <2>4. k[h - DWORD_SIZE] = Tag(size, open[h - DWORD_SIZE].allocated)
    BY <1>5, <1>11
  <2> QED
    BY <2>2, <2>3, <2>4, TagSays
<1>16. MergesTo(m, k, prev, h) /\ k[prev - WSIZE].allocated = 0
  BY <1>7, <1>11, <1>14, <1>15, TagSays DEF MergesTo
<1> QED
  BY <1>6, <1>12, <1>13, <1>16 DEF prev

\* The link that is followed once the tags are merged into M is one the
\* allocator stored, or the word the program left in bp.
LinkFollowed(m, bp, M, lo) ==
  \/ (PrevFree(m, bp) \/ ~NextFree(m, bp)) /\ SelfTied(M, lo)
  \/ ~PrevFree(m, bp) /\ NextFree(m, bp) /\ lo = bp /\ fnext(M, lo) = fnext(m, bp)

\* What the four cases have in common: lo is the first of the merged blocks,
\* and of the blocks up to hi only bp can be one the program held.
MergeMade(m, brk, B, bp, lo, hi) ==
  LET M == MergedTags(m, bp) IN
  /\ lo \in B /\ lo # Prologue /\ hi \in B \cup {brk} /\ lo <= bp /\ bp < hi
  /\ MergesTo(m, M, lo, hi)
  /\ M[lo - WSIZE].allocated = 0 \/ M[hi - DWORD_SIZE].allocated = 0
  /\ NextFree(m, bp) \/ (M[lo - WSIZE].allocated = 0 /\ SelfTied(M, lo) /\ hi = bp + SizeOf(m, bp))
  /\ \/ SelfTied(M, lo)
     \/ next_payload(m, bp) \in B /\ lo + 32 <= next_payload(m, bp) /\ next_payload(m, bp) + 32 <= hi
  /\ \A p \in B : lo <= p /\ p < hi => p = bp \/ Alloc(m, p) = 0
  /\ LinkFollowed(m, bp, M, lo)

\* The four ways in which coalesce merges.
LEMMA MergeMadeInCases ==
  ASSUME NEW m, NEW brk, NEW B, Tiles(m, brk, B), NEW bp \in B, bp # Prologue, Tied(m, B, bp)
  PROVE  \E hi : MergeMade(m, brk, B, bp, IF PrevFree(m, bp) THEN prev_payload(m, bp) ELSE bp, hi)
<1> DEFINE prev == prev_payload(m, bp)
           next == next_payload(m, bp)
           M    == MergedTags(m, bp)
<1>1. /\ bp \in Nat /\ SizeOf(m, bp) \in Nat /\ bp + 32 <= next /\ next \in Nat
      /\ next = bp + SizeOf(m, bp) /\ next \in B \cup {brk}
  <2>1. bp \in Nat /\ SizeOf(m, bp) \in Nat /\ SizeOf(m, bp) >= MIN_BLOCK_SIZE
    BY BlockFacts
  <2>2. next = bp + SizeOf(m, bp) /\ next \in B \cup {brk}
    BY Neighbours
  <2> HIDE DEF next
  <2> QED
    BY <2>1, <2>2 DEF MIN_BLOCK_SIZE
<1>2. /\ prev \in B /\ prev \in Nat /\ prev + 32 <= bp /\ prev + SizeOf(m, prev) = bp
      /\ (PrevFree(m, bp) <=> Alloc(m, prev) = 0) /\ (PrevFree(m, bp) => prev # Prologue)
  <2>1. prev \in B /\ prev + SizeOf(m, prev) = bp
        /\ (PrevFree(m, bp) <=> Alloc(m, prev) = 0) /\ (PrevFree(m, bp) => prev # Prologue)
    BY Neighbours
  <2> HIDE DEF prev
  <2>2. prev \in Nat /\ SizeOf(m, prev) \in Nat /\ SizeOf(m, prev) >= MIN_BLOCK_SIZE
    BY <2>1, BlockFacts
  <2> QED
    BY <2>1, <2>2 DEF MIN_BLOCK_SIZE
<1>3. PrevFree(m, bp) => SelfTied(m, prev)
  <2> HIDE DEF prev
  <2> QED
    BY <1>1, <1>2 DEF Tied
<1>4. ASSUME NextFree(m, bp)
      PROVE  /\ next \in B /\ Alloc(m, next) = 0 /\ SelfTied(m, next)
             /\ \E hi : hi = next + SizeOf(m, next) /\ hi \in Nat /\ next + 32 <= hi /\ hi \in B \cup {brk}
  <2>1. next \in B /\ Alloc(m, next) = 0
    BY <1>4, Neighbours
  <2> HIDE DEF next
  <2>2. SelfTied(m, next)
    BY <1>1, <2>1 DEF Tied
  <2>3. SizeOf(m, next) \in Nat /\ SizeOf(m, next) >= MIN_BLOCK_SIZE
    BY <2>1, BlockFacts
  <2>4. next + SizeOf(m, next) \in B \cup {brk}
    BY <2>1 DEF Tiles
  <2> QED
    BY <1>1, <2>1, <2>2, <2>3, <2>4 DEF MIN_BLOCK_SIZE
<1>5. \A p, q \in B : p < q => p + SizeOf(m, p) <= q
  BY DEF Tiles
<1>6. \A p \in B : p \in Nat
  BY BlockFacts
<1>7. ASSUME NEW p \in B, p < next, bp <= p
      PROVE  p = bp
  <2> HIDE DEF next
  <2> QED
    BY <1>1, <1>5, <1>6, <1>7
<1>8. ASSUME NEW p \in B, p < bp, prev <= p
      PROVE  p = prev
  <2> HIDE DEF prev
  <2> QED
    BY <1>1, <1>2, <1>5, <1>6, <1>8
<1>9. ASSUME NEW hi, hi \in Nat, hi = next + SizeOf(m, next), next \in B, NEW p \in B, p < hi, next <= p
      PROVE  p = next
  <2> HIDE DEF next
  <2> QED
    BY <1>1, <1>5, <1>6, <1>9
<1>10. CASE ~PrevFree(m, bp) /\ ~NextFree(m, bp)
  <2>1. MergesTo(m, M, bp, next) /\ M[bp - WSIZE].allocated = 0 /\ SelfTied(M, bp)
    <3>1. next = bp + SizeOf(m, bp)
      BY <1>1
    <3> HIDE DEF next
    <3> QED
      BY <1>10, <3>1, MergedAlone
  <2>2. MergeMade(m, brk, B, bp, bp, next)
    <3>1. \A p \in B : bp <= p /\ p < next => p = bp \/ Alloc(m, p) = 0
      BY <1>7
    <3>2. LinkFollowed(m, bp, M, bp)
      BY <1>10, <2>1 DEF LinkFollowed
    <3> HIDE DEF next
    <3> QED
      BY <1>1, <1>10, <2>1, <3>1, <3>2 DEF MergeMade
  <2> QED
    BY <1>10, <2>2
<1>11. CASE ~PrevFree(m, bp) /\ NextFree(m, bp)
  <2>1. PICK hi : hi = next + SizeOf(m, next) /\ hi \in Nat /\ next + 32 <= hi /\ hi \in B \cup {brk}
    BY <1>4, <1>11
  <2>2. next \in B /\ Alloc(m, next) = 0 /\ SelfTied(m, next)
    BY <1>4, <1>11
  <2>3. /\ MergesTo(m, M, bp, hi) /\ M[hi - DWORD_SIZE].allocated = 0
        /\ LinkFollowed(m, bp, M, bp)
    BY <1>11, <2>1, <2>2, MergedRight DEF LinkFollowed
  <2>4. \A p \in B : bp <= p /\ p < hi => p = bp \/ Alloc(m, p) = 0
    <3> TAKE p \in B
    <3>1. CASE p < next
      BY <1>7, <3>1
    <3>2. CASE next <= p
      BY <1>9, <2>1, <2>2, <3>2
    <3> HIDE DEF next
    <3> QED
      BY <1>1, <1>6, <3>1, <3>2
  <2>5. MergeMade(m, brk, B, bp, bp, hi)
    <3>1. bp < hi
      <4> HIDE DEF next
      <4> QED
        BY <1>1, <2>1
    <3> QED
      BY <1>1, <1>11, <2>1, <2>2, <2>3, <2>4, <3>1 DEF MergeMade
  <2> QED
    BY <1>11, <2>5
<1>12. CASE PrevFree(m, bp) /\ ~NextFree(m, bp)
  <2>1. MergesTo(m, M, prev, next) /\ M[prev - WSIZE].allocated = 0 /\ SelfTied(M, prev)
    <3>1. next = bp + SizeOf(m, bp)
      BY <1>1
    <3> HIDE DEF next
    <3> QED
      BY <1>3, <1>12, <3>1, MergedLeft
  <2>2. \A p \in B : prev <= p /\ p < next => p = bp \/ Alloc(m, p) = 0
    <3> TAKE p \in B
    <3>1. CASE p < bp
      BY <1>2, <1>8, <1>12, <3>1
    <3>2. CASE bp <= p
      BY <1>7, <3>2
    <3> QED
      BY <1>1, <1>6, <3>1, <3>2
  <2>3. MergeMade(m, brk, B, bp, prev, next)
    <3>1. prev <= bp /\ bp < next
      <4> HIDE DEF next, prev
      <4> QED
        BY <1>1, <1>2
    <3>2. LinkFollowed(m, bp, M, prev)
      BY <1>12, <2>1 DEF LinkFollowed
    <3> HIDE DEF next, prev
    <3> QED
      BY <1>1, <1>2, <1>12, <2>1, <2>2, <3>1, <3>2 DEF MergeMade
  <2> QED
    BY <1>12, <2>3
<1>13. CASE PrevFree(m, bp) /\ NextFree(m, bp)
  <2>1. PICK hi : hi = next + SizeOf(m, next) /\ hi \in Nat /\ next + 32 <= hi /\ hi \in B \cup {brk}
    BY <1>4, <1>13
  <2>2. next \in B /\ Alloc(m, next) = 0 /\ SelfTied(m, next)
    BY <1>4, <1>13
  <2>3. MergesTo(m, M, prev, hi) /\ M[prev - WSIZE].allocated = 0 /\ SelfTied(M, prev)
    BY <1>3, <1>13, <2>1, <2>2, MergedBoth
  <2>4. \A p \in B : prev <= p /\ p < hi => p = bp \/ Alloc(m, p) = 0
    <3> TAKE p \in B
    <3>1. CASE p < bp
      BY <1>2, <1>8, <1>13, <3>1
    <3>2. CASE bp <= p /\ p < next
      BY <1>7, <3>2
    <3>3. CASE next <= p
      BY <1>9, <2>1, <2>2, <3>3
    <3> HIDE DEF next
    <3> QED
      BY <1>1, <1>6, <3>1, <3>2, <3>3
  <2>5. MergeMade(m, brk, B, bp, prev, hi)
    <3>1. prev <= bp /\ bp < hi
      <4> HIDE DEF next, prev
      <4> QED
        BY <1>1, <1>2, <2>1
    <3>2. LinkFollowed(m, bp, M, prev)
      BY <1>13, <2>3 DEF LinkFollowed
    <3> HIDE DEF prev
    <3> QED
      BY <1>1, <1>2, <1>13, <2>1, <2>2, <2>3, <2>4, <3>1, <3>2 DEF MergeMade
  <2> QED
    BY <1>13, <2>5
<1> QED
  BY <1>10, <1>11, <1>12, <1>13

\* C are the blocks once coalesce has released bp and all is well.
Coalesced(m, brk, B, bp, h, C) ==
  /\ Good(h.mem, brk, C) /\ Taken(h.mem, C) = Taken(m, B) \ {bp}
  /\ \A p \in Taken(m, B) \ {bp} : SameBlock(m, h.mem, p)
  /\ h.bp \in C /\ h.bp # Prologue /\ h.bp <= bp
  /\ NextFree(m, bp) \/ (Alloc(h.mem, h.bp) = 0 /\ h.bp + SizeOf(h.mem, h.bp) = bp + SizeOf(m, bp))

\* No link that the program may have written is followed, or it leads to one
\* of the two blocks that become one.
FreeIsSound(m, bp) ==
  \/ PrevFree(m, bp) \/ ~NextFree(m, bp)
  \/ fnext(m, bp) \in {header(bp), header(next_payload(m, bp))}

\* How coalesce ends.
Released(m, brk, B, bp, b, h) ==
  /\ h.brk = b /\ h.health \in {"sound", "astray", "free faults"}
  /\ NextFree(m, bp) \/ h.health = "sound"
  /\ h.health = "sound" <=> FreeIsSound(m, bp)
  /\ h.health = "sound" => \E C \in SUBSET Payloads : Coalesced(m, brk, B, bp, h, C)

\* coalesce: a link back goes astray only when the right neighbour alone is
\* free; otherwise one block takes the place of bp and its free neighbours,
\* and the other blocks the program holds keep all their words.  It does not
\* look at the break b.
LEMMA CoalesceGives ==
  ASSUME NEW m, NEW brk, NEW B, Tiles(m, brk, B), NEW bp \in B, bp # Prologue, Tied(m, B, bp), NEW b
  PROVE  Released(m, brk, B, bp, b, coalesce(m, b, bp))
<1> DEFINE lo == IF PrevFree(m, bp) THEN prev_payload(m, bp) ELSE bp
           next == next_payload(m, bp)
           M  == MergedTags(m, bp)
           k  == add_merge_block_to_freelist(M, lo)
           f  == fnext(M, lo)
           h  == coalesce(m, b, bp)
<1>1. PICK hi : MergeMade(m, brk, B, bp, lo, hi)
  BY MergeMadeInCases
<1>2. h = Heap(k, b, LinkBack(M, lo, next), lo)
  BY DEF coalesce, Linked
<1>3. h.mem = k /\ h.brk = b /\ h.health = LinkBack(M, lo, next) /\ h.bp = lo
  <2> HIDE DEF h, k, lo, next, M
  <2> QED
    BY <1>2 DEF Heap
<1>4. next = bp + SizeOf(m, bp)
  BY Neighbours
<1> HIDE DEF lo, next, h
<1>5. /\ lo \in B /\ lo # Prologue /\ hi \in B \cup {brk} /\ lo <= bp /\ bp < hi
      /\ M \in Memory /\ SameOutside(m, M, lo, hi)
      /\ M[lo - WSIZE].size = hi - lo /\ M[hi - DWORD_SIZE].size = hi - lo
      /\ M[lo - WSIZE].allocated = 0 \/ M[hi - DWORD_SIZE].allocated = 0
      /\ NextFree(m, bp) \/ (M[lo - WSIZE].allocated = 0 /\ SelfTied(M, lo) /\ hi = bp + SizeOf(m, bp))
      /\ SelfTied(M, lo) \/ (next \in B /\ lo + 32 <= next /\ next + 32 <= hi)
      /\ \A p \in B : lo <= p /\ p < hi => p = bp \/ Alloc(m, p) = 0
  BY <1>1 DEF MergeMade, MergesTo, next
<1>12. LinkFollowed(m, bp, M, lo)
  BY <1>1 DEF MergeMade
<1> HIDE DEF M
<1>6. /\ lo \in Nat /\ lo >= Prologue /\ bp \in Nat /\ hi \in Nat /\ lo - WSIZE \in Words /\ lo \in Words
      /\ lo + WSIZE \in Words /\ hi - DWORD_SIZE \in Words /\ lo < hi /\ lo + 32 <= hi
      /\ SizeOf(m, bp) \in Nat /\ next \in Nat /\ next >= Prologue
  <2>1. /\ lo \in Nat /\ lo >= Prologue /\ lo - WSIZE \in Words /\ lo \in Words /\ lo + WSIZE \in Words
        /\ SizeOf(m, lo) \in Nat /\ SizeOf(m, lo) >= MIN_BLOCK_SIZE
    BY <1>5, BlockFacts
  <2>2. bp \in Nat /\ bp >= Prologue /\ SizeOf(m, bp) \in Nat
    BY BlockFacts
  <2>3. hi \in Payloads /\ hi \in Nat
    BY <1>5, PayloadIs DEF Tiles
  <2>4. hi > 0 /\ lo < hi /\ next \in Nat /\ next >= Prologue
    BY <1>4, <1>5, <2>1, <2>2, <2>3 DEF Prologue, WSIZE
  <2>5. hi - DWORD_SIZE \in Words
    BY <2>3, <2>4, TagWords
  <2>6. lo + SizeOf(m, lo) <= hi
    BY <1>5, <2>4 DEF Tiles
  <2> QED
    BY <2>1, <2>2, <2>3, <2>4, <2>5, <2>6 DEF MIN_BLOCK_SIZE
<1>7. k \in Memory /\ \A a \in Words : k[a] = IF a = lo \/ a = lo + WSIZE \/ a = f + WSIZE THEN Link(lo - WSIZE) ELSE M[a]
  BY <1>5, <1>6, MergeBlockAdded
<1> HIDE DEF k
<1>8. SelfTied(M, lo) => f = header(lo) /\ f + WSIZE = lo
  <2>1. lo - WSIZE \in Nat
    BY <1>6 DEF Prologue, WSIZE
  <2> QED
    BY <1>6, <2>1, LinkIs DEF SelfTied, fnext, header, WSIZE
<1> HIDE DEF f
<1>9. LinkBack(M, lo, next) \in {"sound", "astray", "free faults"}
      /\ (f = header(lo) => LinkBack(M, lo, next) = "sound")
      /\ (LinkBack(M, lo, next) = "sound" <=> f = header(lo) \/ f = header(next))
  <2>1. CASE fnext(M, lo) \in {header(lo), header(next)}
    <3>1. LinkBack(M, lo, next) = "sound"
      BY <2>1 DEF LinkBack
    <3> QED
      BY <2>1, <3>1 DEF f
  <2>2. CASE fnext(M, lo) \notin {header(lo), header(next)} /\ fnext(M, lo) # NULL /\ fnext(M, lo) + WSIZE \in Words
    <3>1. LinkBack(M, lo, next) = "astray"
      BY <2>2 DEF LinkBack
    <3> QED
      BY <2>2, <3>1 DEF f
  <2>3. CASE fnext(M, lo) \notin {header(lo), header(next)} /\ ~(fnext(M, lo) # NULL /\ fnext(M, lo) + WSIZE \in Words)
    <3>1. LinkBack(M, lo, next) = "free faults"
      BY <2>3 DEF LinkBack
    <3> QED
      BY <2>3, <3>1 DEF f
  <2> QED
    BY <2>1, <2>2, <2>3
<1>10. ~NextFree(m, bp) => h.health = "sound"
  BY <1>3, <1>5, <1>8, <1>9
<1>11. ASSUME h.health = "sound"
       PROVE  \E C \in SUBSET Payloads : Coalesced(m, brk, B, bp, h, C)
  <2>1. f + WSIZE = lo \/ (lo + 32 <= f + WSIZE /\ f + WSIZE + 32 <= hi)
    <3>1. f + WSIZE = lo \/ f + WSIZE = next
      BY <1>3, <1>6, <1>9, <1>11 DEF header, WSIZE
    <3> QED
      BY <1>5, <1>8, <3>1
  <2>2. k[lo - WSIZE] = M[lo - WSIZE] /\ k[hi - DWORD_SIZE] = M[hi - DWORD_SIZE]
    <3> DEFINE g == f + WSIZE
    <3>1. g = lo \/ (lo + 32 <= g /\ g + 32 <= hi)
      BY <2>1
    <3> HIDE DEF g
    <3>2. lo - WSIZE # lo /\ lo - WSIZE # lo + WSIZE /\ lo - WSIZE # g
      BY <1>6, <3>1 DEF WSIZE, Prologue
    <3>3. hi - DWORD_SIZE # lo /\ hi - DWORD_SIZE # lo + WSIZE /\ hi - DWORD_SIZE # g
      BY <1>6, <3>1 DEF WSIZE, DWORD_SIZE
    <3> QED
      BY <1>6, <1>7, <3>2, <3>3 DEF g
  <2>3. SameOutside(m, k, lo, hi)
    <3> SUFFICES ASSUME NEW a \in Words, a < lo - WSIZE \/ a >= hi - WSIZE
                 PROVE  k[a] = m[a]
      BY DEF SameOutside
    <3>1. a \in Nat
      BY WordIs
    <3>2. a # lo /\ a # lo + WSIZE /\ a # f + WSIZE
      BY <1>6, <2>1, <3>1 DEF WSIZE
    <3>3. M[a] = m[a]
      BY <1>5 DEF SameOutside
    <3> QED
      BY <1>7, <3>2, <3>3
  <2>4. SelfTied(k, lo)
    BY <1>6, <1>7 DEF SelfTied, Word, header
  <2>5. Tied(m, Outside(B, lo, hi), NULL)
    BY <1>5, <1>6 DEF Tied, Outside
  <2>6. BecameOne(m, brk, B, k, lo, hi)
    BY <1>5, <1>6, <1>7, <2>2, <2>3, <2>4, <2>5, OneBlock
  <2> DEFINE C == Outside(B, lo, hi) \cup {lo}
  <2>7. /\ C \in SUBSET Payloads /\ Good(k, brk, C) /\ SizeOf(k, lo) = hi - lo
        /\ Taken(k, C) = Outside(Taken(m, B), lo, hi)
                          \cup {p \in {lo} : Alloc(k, p) = 1 /\ FAlloc(k, p) = 1}
        /\ \A p \in B : p < lo \/ p >= hi => SameBlock(m, k, p)
    BY <2>6 DEF BecameOne
  <2>8. Alloc(k, lo) = k[lo - WSIZE].allocated /\ FAlloc(k, lo) = k[hi - DWORD_SIZE].allocated
    <3>1. footer(k, lo) = hi - DWORD_SIZE
      BY <1>6, <2>7 DEF footer, DWORD_SIZE
    <3> QED
      BY <1>6, <3>1 DEF Alloc, FAlloc, Word, header
  <2>9. \A p \in B : p \in Nat
    BY BlockFacts
  <2>10. Outside(Taken(m, B), lo, hi) = Taken(m, B) \ {bp}
    <3>1. \A p \in Taken(m, B) : p \in B /\ Alloc(m, p) = 1
      BY DEF Taken
    <3>2. ASSUME NEW p \in Taken(m, B), p # bp PROVE p < lo \/ p >= hi
      <4>1. p \in B /\ p \in Nat /\ Alloc(m, p) # 0
        BY <2>9, <3>1, <3>2
      <4>2. ~(lo <= p /\ p < hi)
        BY <1>5, <3>2, <4>1
      <4> QED
        BY <1>6, <4>1, <4>2
    <3>3. lo <= bp /\ bp < hi /\ ~(bp < lo \/ bp >= hi)
      BY <1>5, <1>6
    <3> QED
      BY <3>2, <3>3 DEF Outside
  <2>11. Taken(k, C) = Taken(m, B) \ {bp}
    BY <1>5, <2>2, <2>7, <2>8, <2>10
  <2>12. \A p \in Taken(m, B) \ {bp} : SameBlock(m, k, p)
    BY <2>7, <2>10 DEF Outside, Taken
  <2>13. lo + SizeOf(k, lo) = hi
    BY <1>6, <2>7
  <2>14. lo \in C
    OBVIOUS
  <2> HIDE DEF C
  <2>15. Coalesced(m, brk, B, bp, h, C)
    BY <1>3, <1>5, <2>2, <2>7, <2>8, <2>11, <2>12, <2>13, <2>14 DEF Coalesced
  <2> QED
    BY <2>7, <2>15
<1>13. h.health = "sound" <=> FreeIsSound(m, bp)
  <2>1. CASE (PrevFree(m, bp) \/ ~NextFree(m, bp)) /\ SelfTied(M, lo)
    BY <1>3, <1>8, <1>9, <2>1 DEF FreeIsSound
  <2>2. CASE ~PrevFree(m, bp) /\ NextFree(m, bp) /\ lo = bp /\ fnext(M, lo) = fnext(m, bp)
    BY <1>3, <1>9, <2>2 DEF FreeIsSound, f, next
  <2> QED
    BY <1>12, <2>1, <2>2 DEF LinkFollowed
<1> QED
  BY <1>3, <1>9, <1>10, <1>11, <1>13 DEF h, Released

-----------------------------------------------------------------------------
(* Handing out a block.                                                    *)

\* Words that stay through two changes.
LEMMA SameBlockTwice ==
  ASSUME NEW m, NEW brk, NEW B, Tiles(m, brk, B), NEW m1 \in Memory, NEW m2, NEW p \in B,
         SameBlock(m, m1, p), SameBlock(m1, m2, p)
  PROVE  SameBlock(m, m2, p)
<1>1. SizeOf(m1, p) = SizeOf(m, p)
  BY SameBlockFacts
<1> QED
  BY <1>1 DEF SameBlock

\* What place makes of a free block that is linked to itself and fills the
\* heap up to the break.
LEMMA PlacedWhole ==
  ASSUME NEW m, NEW brk, NEW B, Good(m, brk, B), NEW p \in B, p # Prologue,
         Alloc(m, p) = 0, p + SizeOf(m, p) = brk,
         NEW asize \in Nat, asize <= SizeOf(m, p), ~(SizeOf(m, p) - asize >= 2 * DWORD_SIZE)
  PROVE  \E C \in SUBSET Payloads :
           /\ Good(place(m, p, asize), brk, C) /\ Taken(place(m, p, asize), C) = Taken(m, B) \cup {p}
           /\ SizeOf(place(m, p, asize), p) >= asize
           /\ \A q \in Taken(m, B) : SameBlock(m, place(m, p, asize), q)
<1> DEFINE t == PutTags(m, p, brk - p, 1)
<1>1. Tiles(m, brk, B) /\ Tied(m, B, NULL)
  BY DEF Good
<1>2. /\ m \in Memory /\ brk \in Payloads /\ p \in Payloads /\ p \in Nat /\ brk \in Nat /\ p >= Prologue
      /\ p > 0 /\ p + 32 <= brk /\ SizeOf(m, p) = brk - p
      /\ p - WSIZE \in Words /\ p \in Words /\ p + WSIZE \in Words /\ brk - DWORD_SIZE \in Words
  BY <1>1, BlockEnds
<1>3. SelfTied(m, p)
  BY <1>1, <1>2 DEF Tied, NULL
<1>4. fprev(m, p) = header(p) /\ fnext(m, p) = header(p)
  <2>1. p - WSIZE \in Nat
    BY <1>2 DEF Prologue, WSIZE
  <2> QED
    BY <1>3, <2>1, LinkIs DEF SelfTied, fnext, fprev, header
<1>5. PutPrev(m, header(p), Link(header(p))) = m /\ PutNext(m, header(p), Link(header(p))) = m
  <2>1. Put(m, p, Link(header(p))) = m /\ Put(m, p + WSIZE, Link(header(p))) = m
    BY <1>2, <1>3, PutSame DEF SelfTied
  <2> QED
    BY <1>2, <2>1, LinkWords
<1>6. t \in Memory /\ \A a \in Words : t[a] = IF a = p - WSIZE \/ a = brk - DWORD_SIZE THEN Tag(brk - p, 1) ELSE m[a]
  <2>1. p <= brk /\ 1 \in {0, 1}
    BY <1>2
  <2> QED
    BY <1>2, <2>1, TagsPut
<1>7. place(m, p, asize) = remove_from_freelist(t, p)
  BY <1>2, <1>4, <1>5 DEF place
<1> HIDE DEF t
<1>8. SelfTied(t, p)
  <2>1. t[p] = m[p] /\ t[p + WSIZE] = m[p + WSIZE]
    BY <1>2, <1>6 DEF WSIZE, DWORD_SIZE
  <2> QED
    BY <1>2, <1>3, <2>1 DEF SelfTied, Word
<1>9. place(m, p, asize) = t
  BY <1>2, <1>6, <1>7, <1>8, NothingToRemove
<1>10. t[p - WSIZE] = Tag(brk - p, 1) /\ t[brk - DWORD_SIZE] = Tag(brk - p, 1)
  BY <1>2, <1>6
<1>11. BecameOne(m, brk, B, t, p, brk)
  <2>1. SameOutside(m, t, p, brk)
    <3>1. \A a \in Words : a \in Nat
      BY WordIs
    <3> QED
      BY <1>2, <1>6, <3>1 DEF SameOutside, WSIZE, DWORD_SIZE
  <2>2. Tied(m, Outside(B, p, brk), NULL)
    BY <1>1 DEF Tied, Outside
  <2>3. brk \in B \cup {brk} /\ p < brk
    BY <1>2
  <2>4. t[p - WSIZE].size = brk - p /\ t[brk - DWORD_SIZE].size = brk - p
    BY <1>10, TagSays
  <2> QED
    BY <1>1, <1>6, <1>8, <2>1, <2>2, <2>3, <2>4, OneBlock
<1> DEFINE C == Outside(B, p, brk) \cup {p}
<1>12. /\ C \in SUBSET Payloads /\ Good(t, brk, C) /\ SizeOf(t, p) = brk - p
       /\ Taken(t, C) = Outside(Taken(m, B), p, brk)
                          \cup {q \in {p} : Alloc(t, q) = 1 /\ FAlloc(t, q) = 1}
       /\ \A q \in B : q < p \/ q >= brk => SameBlock(m, t, q)
  BY <1>11 DEF BecameOne
<1> HIDE DEF C
<1>13. Alloc(t, p) = 1 /\ FAlloc(t, p) = 1
  <2>1. footer(t, p) = brk - DWORD_SIZE
    BY <1>2, <1>12 DEF footer, DWORD_SIZE
  <2> QED
    BY <1>2, <1>10, <2>1, TagSays DEF Alloc, FAlloc, Word, header
<1>14. ASSUME NEW q \in Taken(m, B) PROVE q \in B /\ q < p
  <2>1. q \in B /\ Alloc(m, q) = 1
    BY DEF Taken
  <2>2. q # p /\ q \in Nat /\ SizeOf(m, q) \in Nat /\ SizeOf(m, q) >= MIN_BLOCK_SIZE
    BY <1>1, <2>1, BlockFacts
  <2>3. q + SizeOf(m, q) <= brk /\ (p < q => p + SizeOf(m, p) <= q)
    BY <1>1, <2>1 DEF Tiles
  <2> QED
    BY <1>2, <2>1, <2>2, <2>3 DEF MIN_BLOCK_SIZE
<1>15. Taken(t, C) = Taken(m, B) \cup {p}
  <2>1. Outside(Taken(m, B), p, brk) = Taken(m, B)
    BY <1>14 DEF Outside
  <2> QED
    BY <1>12, <1>13, <2>1
<1>16. \A q \in Taken(m, B) : SameBlock(m, t, q)
  BY <1>12, <1>14
<1> QED
  BY <1>2, <1>9, <1>12, <1>15, <1>16

\* The front is handed out, and the rest becomes a block.
LEMMA PlacedSplit ==
  ASSUME NEW m, NEW brk, NEW B, Good(m, brk, B), NEW p \in B, p # Prologue,
         Alloc(m, p) = 0, p + SizeOf(m, p) = brk,
         NEW asize \in Nat, asize % DWORD_SIZE = 0, asize >= MIN_BLOCK_SIZE,
         SizeOf(m, p) - asize >= 2 * DWORD_SIZE
  PROVE  \E C \in SUBSET Payloads :
           /\ Good(place(m, p, asize), brk, C) /\ Taken(place(m, p, asize), C) = Taken(m, B) \cup {p}
           /\ SizeOf(place(m, p, asize), p) >= asize
           /\ \A q \in Taken(m, B) : SameBlock(m, place(m, p, asize), q)
<1> DEFINE q  == p + asize
           t1 == PutTags(m, p, q - p, 1)
           t2 == PutTags(t1, q, brk - q, 0)
           s1 == Put(t2, p + WSIZE, Link(q - WSIZE))
           s2 == Put(s1, p, Link(q - WSIZE))
           s3 == Put(s2, q, Link(p - WSIZE))
           s  == Put(s3, q + WSIZE, Link(p - WSIZE))
<1>1. Tiles(m, brk, B) /\ Tied(m, B, NULL)
  BY DEF Good
<1>2. /\ m \in Memory /\ brk \in Payloads /\ p \in Payloads /\ p \in Nat /\ brk \in Nat /\ p >= Prologue
      /\ p > 0 /\ SizeOf(m, p) = brk - p
      /\ p - WSIZE \in Words /\ p \in Words /\ p + WSIZE \in Words /\ brk - DWORD_SIZE \in Words
  <2>1. brk \in Payloads
    BY <1>1 DEF Tiles
  <2> QED
    BY <1>1, <2>1, BlockEnds
<1>3. SelfTied(m, p)
  BY <1>1, <1>2 DEF Tied, NULL
<1>4. fprev(m, p) = header(p) /\ fnext(m, p) = header(p) /\ p - WSIZE \in Nat
  <2>1. p - WSIZE \in Nat
    BY <1>2 DEF Prologue, WSIZE
  <2> QED
    BY <1>3, <2>1, LinkIs DEF SelfTied, fnext, fprev, header
<1>5. /\ q \in Nat /\ p + 32 <= q /\ q + 32 <= brk /\ asize = q - p /\ SizeOf(m, p) - asize = brk - q
      /\ q \in Payloads /\ q > 0 /\ q >= Prologue
  <2>1. q \in Nat /\ p + 32 <= q /\ q + 32 <= brk /\ asize = q - p /\ SizeOf(m, p) - asize = brk - q
    BY <1>2 DEF MIN_BLOCK_SIZE, DWORD_SIZE
  <2>2. q % DWORD_SIZE = 0
    <3>1. p % DWORD_SIZE = 0
      BY <1>2, PayloadIs
    <3> QED
      BY <1>2, <3>1 DEF DWORD_SIZE
  <2>3. brk <= MAX_HEAP /\ MAX_HEAP \in Nat
    BY <1>2, PayloadIs, MemLibAssumption
  <2> HIDE DEF q
  <2>4. q <= MAX_HEAP
    BY <1>2, <2>1, <2>3
  <2>5. q \in Payloads
    BY <2>1, <2>2, <2>4, PayloadIs
  <2>6. q > 0 /\ q >= Prologue
    BY <1>2, <2>1 DEF Prologue, WSIZE
  <2> QED
    BY <2>1, <2>5, <2>6
<1>6. place(m, p, asize) = coalesce(Between(t2, q, header(p), header(p)), 0, q).mem
  <2>1. place(m, p, asize)
          = coalesce(Between(PutTags(PutTags(m, p, asize, 1), p + asize, SizeOf(m, p) - asize, 0), p + asize,
                             fprev(m, p), fnext(m, p)), 0, p + asize).mem
    BY DEF place
  <2>2. p + asize = q
    OBVIOUS
  <2>3. PutTags(m, p, asize, 1) = t1
    BY <1>5
  <2>4. PutTags(t1, q, SizeOf(m, p) - asize, 0) = t2
    BY <1>5
  <2> HIDE DEF q, t1, t2
  <2> QED
    BY <1>4, <2>1, <2>2, <2>3, <2>4
<1> HIDE DEF q
<1>7. q - WSIZE \in Words /\ q \in Words /\ q + WSIZE \in Words /\ q - DWORD_SIZE \in Words /\ q - WSIZE \in Nat
  <2>1. q % 16 = 0 /\ q + 32 <= MAX_HEAP /\ MAX_HEAP \in Nat
    BY <1>2, <1>5, PayloadIs, MemLibAssumption DEF DWORD_SIZE
  <2>2. q % 8 = 0 /\ (q + 8) % 8 = 0 /\ q + 16 <= MAX_HEAP
    BY <1>5, <2>1
  <2>3. q \in Words /\ q + WSIZE \in Words
    BY <1>5, <2>1, <2>2, WordIs DEF WSIZE
  <2>4. q - WSIZE \in Words /\ q - DWORD_SIZE \in Words
    BY <1>5, TagWords
  <2>5. q - WSIZE \in Nat
    BY <1>5 DEF Prologue, WSIZE
  <2> QED
    BY <2>3, <2>4, <2>5
<1>8. Between(t2, q, header(p), header(p)) = s
  <2> HIDE DEF t2
  <2>1. PutNext(t2, header(p), Link(header(q))) = s1
    BY <1>2, LinkWords DEF header
  <2>2. PutPrev(s1, header(p), Link(header(q))) = s2
    BY <1>2, LinkWords DEF header
  <2>3. PutPrev(s2, header(q), Link(header(p))) = s3
    BY <1>5, LinkWords DEF header
  <2>4. PutNext(s3, header(q), Link(header(p))) = s
    BY <1>5, LinkWords DEF header
  <2> HIDE DEF s1, s2, s3, s
  <2> QED
    BY <2>1, <2>2, <2>3, <2>4 DEF Between
<1>9. t1 \in Memory /\ \A a \in Words : t1[a] = IF a = p - WSIZE \/ a = q - DWORD_SIZE THEN Tag(q - p, 1) ELSE m[a]
  <2>1. p <= q /\ 1 \in {0, 1}
    BY <1>2, <1>5
  <2> QED
    BY <1>2, <1>5, <2>1, TagsPut
<1> HIDE DEF t1
<1>10. t2 \in Memory /\ \A a \in Words : t2[a] = IF a = q - WSIZE \/ a = brk - DWORD_SIZE THEN Tag(brk - q, 0) ELSE t1[a]
  <2>1. q <= brk /\ 0 \in {0, 1}
    BY <1>2, <1>5
  <2> QED
    BY <1>2, <1>5, <1>9, <2>1, TagsPut
<1> HIDE DEF t2
<1>11. Link(q - WSIZE) \in TagSet /\ Link(p - WSIZE) \in TagSet
  BY <1>4, <1>7, LinkIs
<1>12. s1 \in Memory /\ \A a \in Words : s1[a] = IF a = p + WSIZE THEN Link(q - WSIZE) ELSE t2[a]
  BY <1>10, <1>11, WordPut
<1> HIDE DEF s1
<1>13. s2 \in Memory /\ \A a \in Words : s2[a] = IF a = p THEN Link(q - WSIZE) ELSE s1[a]
  BY <1>11, <1>12, WordPut
<1> HIDE DEF s2
<1>14. s3 \in Memory /\ \A a \in Words : s3[a] = IF a = q THEN Link(p - WSIZE) ELSE s2[a]
  BY <1>11, <1>13, WordPut
<1> HIDE DEF s3
<1>15. s \in Memory /\ \A a \in Words : s[a] = IF a = q + WSIZE THEN Link(p - WSIZE) ELSE s3[a]
  BY <1>11, <1>14, WordPut
<1> HIDE DEF s
<1>16. ASSUME NEW a \in Words, a # p, a # p + WSIZE, a # q, a # q + WSIZE
       PROVE  s[a] = t2[a]
  BY <1>12, <1>13, <1>14, <1>15, <1>16
<1>17. /\ s[p - WSIZE] = Tag(q - p, 1) /\ s[q - DWORD_SIZE] = Tag(q - p, 1)
       /\ s[q - WSIZE] = Tag(brk - q, 0) /\ s[brk - DWORD_SIZE] = Tag(brk - q, 0)
  <2>1. s[p - WSIZE] = t2[p - WSIZE] /\ t2[p - WSIZE] = t1[p - WSIZE] /\ t1[p - WSIZE] = Tag(q - p, 1)
    BY <1>2, <1>5, <1>9, <1>10, <1>16 DEF WSIZE, DWORD_SIZE
  <2>2. s[q - DWORD_SIZE] = t2[q - DWORD_SIZE] /\ t2[q - DWORD_SIZE] = t1[q - DWORD_SIZE] /\ t1[q - DWORD_SIZE] = Tag(q - p, 1)
    BY <1>2, <1>5, <1>7, <1>9, <1>10, <1>16 DEF WSIZE, DWORD_SIZE
  <2>3. s[q - WSIZE] = t2[q - WSIZE] /\ t2[q - WSIZE] = Tag(brk - q, 0)
    BY <1>2, <1>5, <1>7, <1>10, <1>16 DEF WSIZE, DWORD_SIZE
  <2>4. s[brk - DWORD_SIZE] = t2[brk - DWORD_SIZE] /\ t2[brk - DWORD_SIZE] = Tag(brk - q, 0)
    BY <1>2, <1>5, <1>10, <1>16 DEF WSIZE, DWORD_SIZE
  <2> QED
    BY <2>1, <2>2, <2>3, <2>4
<1>18. SameOutside(m, s, p, brk)
  <2> SUFFICES ASSUME NEW a \in Words, a < p - WSIZE \/ a >= brk - WSIZE
               PROVE  s[a] = m[a]
    BY DEF SameOutside
  <2>1. a \in Nat
    BY WordIs
  <2>2. /\ a # p /\ a # p + WSIZE /\ a # q /\ a # q + WSIZE
        /\ a # p - WSIZE /\ a # q - DWORD_SIZE /\ a # q - WSIZE /\ a # brk - DWORD_SIZE
    BY <1>2, <1>5, <2>1 DEF WSIZE, DWORD_SIZE
  <2> QED
    BY <1>9, <1>10, <1>16, <2>2
<1> DEFINE B2 == B \cup {q}
           h  == coalesce(s, 0, q)
<1>19. /\ Tiles(s, brk, B2) /\ q \notin B /\ q # Prologue /\ Tied(s, B2, q)
       /\ SizeOf(s, p) = q - p /\ Taken(s, B2) = Taken(m, B) \cup {p}
       /\ \A r \in B : r # p => SameBlock(m, s, r)
  <2>1. brk \in B \cup {brk} /\ brk <= p + SizeOf(m, p)
    BY <1>2
  <2>3. TwoTagged(s, p, q, brk)
    BY <1>5, <1>17 DEF MIN_BLOCK_SIZE, TwoTagged
  <2>2. Tied(m, Outside(B, p, brk), NULL)
    BY <1>1 DEF Tied, Outside
  <2>4. BecameTwo(m, brk, B, s, p, q, brk, B \cup {q})
    <3> HIDE DEF h, B2
    <3> QED
      BY <1>1, <1>5, <1>15, <1>18, <2>1, <2>2, <2>3, TwoBlocks
  <2> QED
    BY <2>4 DEF BecameTwo
<1>20. ~NextFree(s, q)
  <2>1. SizeOf(s, q) = brk - q
    BY <1>7, <1>17, TagSays DEF SizeOf, header, Word
  <2>2. next_payload(s, q) = brk
    BY <1>2, <1>5, <2>1 DEF next_payload
  <2>3. Alloc(s, brk) = 1
    BY <1>19, EpilogueSays
  <2> QED
    BY <2>2, <2>3 DEF NextFree, Alloc
<1>21. q \in B2
  OBVIOUS
<1> HIDE DEF B2
<1>22. h.health = "sound" /\ \E C \in SUBSET Payloads : Coalesced(s, brk, B2, q, h, C)
  <2>1. Tiles(s, brk, B2) /\ q # Prologue /\ Tied(s, B2, q)
    BY <1>19
  <2>2. Released(s, brk, B2, q, 0, h)
    BY <1>21, <2>1, CoalesceGives
  <2> HIDE DEF h
  <2> QED
    BY <1>20, <2>2 DEF Released
<1>23. PICK C \in SUBSET Payloads : Coalesced(s, brk, B2, q, h, C)
  BY <1>22
<1> HIDE DEF h
<1>24. /\ Good(h.mem, brk, C) /\ Taken(h.mem, C) = Taken(s, B2) \ {q}
       /\ \A r \in Taken(s, B2) \ {q} : SameBlock(s, h.mem, r)
  BY <1>23 DEF Coalesced
<1>25. ASSUME NEW r \in Taken(m, B) PROVE r \in B /\ r # p /\ r # q
  <2>1. r \in B /\ Alloc(m, r) = 1
    BY DEF Taken
  <2> QED
    BY <1>19, <2>1
<1>26. p # q
  BY <1>2, <1>5
<1>27. Taken(h.mem, C) = Taken(m, B) \cup {p}
  BY <1>19, <1>24, <1>25, <1>26
<1>28. \A r \in Taken(m, B) : SameBlock(m, h.mem, r)
  <2> TAKE r \in Taken(m, B)
  <2>1. r \in B /\ SameBlock(m, s, r)
    BY <1>19, <1>25
  <2>2. SameBlock(s, h.mem, r)
    BY <1>19, <1>24, <1>25
  <2> QED
    BY <1>1, <1>15, <2>1, <2>2, SameBlockTwice
<1>29. SizeOf(h.mem, p) >= asize
  <2>1. p \in B2 /\ SameBlock(s, h.mem, p)
    BY <1>19, <1>24, <1>26 DEF B2
  <2>2. h.mem \in Memory
    BY <1>24 DEF Good, Tiles
  <2>3. SizeOf(h.mem, p) = SizeOf(s, p)
    BY <1>19, <2>1, <2>2, SameBlockFacts
  <2> QED
    BY <1>2, <1>5, <1>19, <2>3
<1> QED
  BY <1>6, <1>8, <1>24, <1>27, <1>28, <1>29 DEF h

\* place on a free block that fills the heap up to the break.
LEMMA PlaceGives ==
  ASSUME NEW m, NEW brk, NEW B, Good(m, brk, B), NEW p \in B, p # Prologue,
         Alloc(m, p) = 0, p + SizeOf(m, p) = brk,
         NEW asize \in Nat, asize % DWORD_SIZE = 0, asize >= MIN_BLOCK_SIZE, asize <= SizeOf(m, p)
  PROVE  \E C \in SUBSET Payloads :
           /\ Good(place(m, p, asize), brk, C) /\ Taken(place(m, p, asize), C) = Taken(m, B) \cup {p}
           /\ SizeOf(place(m, p, asize), p) >= asize
           /\ \A q \in Taken(m, B) : SameBlock(m, place(m, p, asize), q)
<1>1. CASE SizeOf(m, p) - asize >= 2 * DWORD_SIZE
  BY <1>1, PlacedSplit
<1>2. CASE ~(SizeOf(m, p) - asize >= 2 * DWORD_SIZE)
  BY <1>2, PlacedWhole
<1> QED
  BY <1>1, <1>2

-----------------------------------------------------------------------------
(* The heap grows.                                                         *)

\* A request gets room for two tags, in double words.
LEMMA AdjustedSizeFacts ==
  ASSUME NEW size \in Nat
  PROVE  LET asize == AdjustedSize(size) IN
         /\ asize \in Nat /\ asize % DWORD_SIZE = 0 /\ asize >= MIN_BLOCK_SIZE
         /\ size + DWORD_SIZE <= asize
<1>1. CASE size <= DWORD_SIZE
  BY <1>1 DEF AdjustedSize, DWORD_SIZE, MIN_BLOCK_SIZE
<1>2. CASE size > DWORD_SIZE
  <2> DEFINE k == (size + 31) \div 16
  <2>1. k \in Nat /\ 16 * k <= size + 31 /\ size + 31 < 16 * k + 16
    OBVIOUS
  <2>2. AdjustedSize(size) = 16 * k
    BY <1>2 DEF AdjustedSize, DWORD_SIZE
  <2> HIDE DEF k
  <2>3. (16 * k) % 16 = 0
    BY <2>1
  <2> QED
    BY <1>2, <2>1, <2>2, <2>3 DEF DWORD_SIZE, MIN_BLOCK_SIZE
<1> QED
  BY <1>1, <1>2 DEF DWORD_SIZE

\* A multiple of CHUNKSIZE, at least one, is asked for.
LEMMA ExtendSizeFacts ==
  ASSUME NEW asize \in Nat, asize > 0
  PROVE  LET n == extendsize(asize) IN n \in Nat /\ n % 32 = 0 /\ n >= CHUNKSIZE
<1>1. CHUNKSIZE \in Nat /\ CHUNKSIZE > 0 /\ CHUNKSIZE % 32 = 0
  BY ExplicitListAssumption DEF DWORD_SIZE
<1> DEFINE j == CHUNKSIZE \div 32
           c == (asize + CHUNKSIZE - 1) \div CHUNKSIZE
<1>2. j \in Nat /\ CHUNKSIZE = 32 * j
  BY <1>1
<1>3. c \in Nat /\ c >= 1
  <2>1. asize + CHUNKSIZE - 1 \in Nat /\ asize + CHUNKSIZE - 1 >= CHUNKSIZE
    BY <1>1
  <2> DEFINE d == asize + CHUNKSIZE - 1
  <2>2. c = d \div CHUNKSIZE /\ d \in Nat /\ d >= CHUNKSIZE
    BY <2>1
  <2> HIDE DEF c, d
  <2>3. \A x, y \in Nat : y > 0 /\ x >= y => x \div y \in Nat /\ x \div y >= 1
    OBVIOUS
  <2> QED
    BY <1>1, <2>2, <2>3
<1>4. extendsize(asize) = c * CHUNKSIZE
  BY DEF extendsize
<1> HIDE DEF c, j
<1>5. \A x, y, z \in Nat : x >= 1 /\ z = 32 * y => x * z \in Nat /\ x * z >= z /\ (x * z) = 32 * (x * y)
  OBVIOUS
<1>6. \A x, y \in Nat : x * y \in Nat
  OBVIOUS
<1> DEFINE cj == c * j
<1>7. /\ cj \in Nat /\ extendsize(asize) = 32 * cj /\ extendsize(asize) >= CHUNKSIZE
      /\ extendsize(asize) \in Nat
  BY <1>1, <1>2, <1>3, <1>4, <1>5, <1>6
<1> HIDE DEF cj
<1>8. (32 * cj) % 32 = 0
  BY <1>7
<1> QED
  BY <1>7, <1>8

\* What fits into the upper half of an int comes through as it is.
LEMMA IntIs ==
  ASSUME NEW size \in Nat, size < INT_SPAN \div 2
  PROVE  AsInt(size) = size
<1>1. INT_SPAN \in Nat \ {0} /\ size < INT_SPAN
  BY MemLibAssumption
<1>2. size % INT_SPAN = size
  BY <1>1
<1> QED
  BY <1>1, <1>2 DEF AsInt

\* mem_sbrk moves the break by what fits.
LEMMA SbrkGives ==
  ASSUME NEW brk \in Nat, NEW size \in Nat, size < INT_SPAN \div 2
  PROVE  LET area == mem_sbrk(brk, size) IN
         /\ area.ok <=> brk + size <= MAX_HEAP
         /\ area.ok => area.brk = brk + size
<1>1. INT_SPAN \in Nat \ {0} /\ MAX_HEAP \in Nat
  BY MemLibAssumption
<1>2. AsInt(size) = size
  BY IntIs
<1>3. /\ mem_sbrk(brk, size).ok <=> ~(size < 0 \/ brk + size > MAX_HEAP)
      /\ mem_sbrk(brk, size).ok => mem_sbrk(brk, size).brk = brk + size
  BY <1>2 DEF mem_sbrk
<1> QED
  BY <1>1, <1>3

\* The memory extend_heap hands to coalesce, in which the new block has size
\* bytes.
Extended(m, brk, size) == WithEpilogue(SelfLinked(PutTags(m, brk, size, 0), brk), brk)

\* A free block behind the last one, linked to itself, and an epilogue.
LEMMA ExtendWrites ==
  ASSUME NEW m \in Memory, NEW brk \in Payloads, brk > Prologue, NEW top \in Payloads,
         brk + 64 <= top
  PROVE  LET m2 == Extended(m, brk, top - brk) IN
         m2 \in Memory /\ MoreTagged(m, m2, brk, top) /\ SelfTied(m2, brk)
<1> DEFINE m1 == PutTags(m, brk, top - brk, 0)
           f  == SelfLinked(m1, brk)
           m2 == Extended(m, brk, top - brk)
<1>1. /\ brk \in Nat /\ top \in Nat /\ brk > 0 /\ brk >= Prologue /\ top > 0 /\ brk <= top /\ brk - WSIZE \in Nat
      /\ top - brk \in Nat
  BY PayloadIs DEF Prologue, WSIZE
<1>2. /\ brk - WSIZE \in Words /\ top - WSIZE \in Words /\ top - DWORD_SIZE \in Words
      /\ brk \in Words /\ brk + WSIZE \in Words
  <2>1. brk - WSIZE \in Words /\ top - WSIZE \in Words /\ top - DWORD_SIZE \in Words
    BY <1>1, TagWords
  <2>2. brk % 16 = 0 /\ brk + 64 <= MAX_HEAP /\ MAX_HEAP \in Nat
    BY <1>1, PayloadIs, MemLibAssumption DEF DWORD_SIZE
  <2>3. brk % 8 = 0 /\ (brk + 8) % 8 = 0
    BY <1>1, <2>2
  <2> QED
    BY <1>1, <2>1, <2>2, <2>3, WordIs DEF WSIZE
<1>3. m1 \in Memory /\ \A a \in Words : m1[a] = IF a = brk - WSIZE \/ a = top - DWORD_SIZE THEN Tag(top - brk, 0) ELSE m[a]
  <2>1. 0 \in {0, 1}
    OBVIOUS
  <2> QED
    BY <1>1, <2>1, TagsPut
<1> HIDE DEF m1
<1>4. f \in Memory /\ \A a \in Words : f[a] = IF a = brk \/ a = brk + WSIZE THEN Link(brk - WSIZE) ELSE m1[a]
  BY <1>1, <1>3, LinksPut
<1> HIDE DEF f
<1>5. next_payload(f, brk) = top
  <2>1. brk - WSIZE # brk /\ brk - WSIZE # brk + WSIZE
    BY <1>1 DEF WSIZE
  <2>2. f[brk - WSIZE] = Tag(top - brk, 0)
    BY <1>2, <1>3, <1>4, <2>1
  <2>3. SizeOf(f, brk) = top - brk
    BY <1>2, <2>2, TagSays DEF SizeOf, header, Word
  <2> QED
    BY <1>1, <2>3 DEF next_payload
<1>6. m2 = Put(f, top - WSIZE, Tag(0, 1))
  BY <1>5 DEF Extended, WithEpilogue, header, f, m1
<1> HIDE DEF m2
<1>7. m2 \in Memory /\ \A a \in Words : m2[a] = IF a = top - WSIZE THEN Tag(0, 1) ELSE f[a]
  <2>1. Tag(0, 1) \in TagSet
    BY TagIs
  <2> QED
    BY <1>4, <1>6, <2>1, WordPut
<1>8. m2[brk - WSIZE] = Tag(top - brk, 0) /\ m2[top - DWORD_SIZE] = Tag(top - brk, 0) /\ m2[top - WSIZE] = Tag(0, 1)
  <2>1. /\ brk - WSIZE # brk /\ brk - WSIZE # brk + WSIZE /\ brk - WSIZE # top - WSIZE
        /\ top - DWORD_SIZE # brk /\ top - DWORD_SIZE # brk + WSIZE /\ top - DWORD_SIZE # top - WSIZE
    BY <1>1 DEF WSIZE, DWORD_SIZE
  <2> QED
    BY <1>2, <1>3, <1>4, <1>7, <2>1
<1>9. SelfTied(m2, brk)
  <2>1. brk # top - WSIZE /\ brk + WSIZE # top - WSIZE
    BY <1>1 DEF WSIZE
  <2>2. m2[brk] = Link(brk - WSIZE) /\ m2[brk + WSIZE] = Link(brk - WSIZE)
    BY <1>2, <1>4, <1>7, <2>1
  <2> QED
    BY <1>2, <2>2 DEF SelfTied, Word, header
<1>10. \A a \in Words : a < brk - WSIZE => m2[a] = m[a]
  <2> SUFFICES ASSUME NEW a \in Words, a < brk - WSIZE PROVE m2[a] = m[a]
    OBVIOUS
  <2>1. a \in Nat
    BY WordIs
  <2>2. a # top - WSIZE /\ a # brk /\ a # brk + WSIZE /\ a # brk - WSIZE /\ a # top - DWORD_SIZE
    BY <1>1, <2>1 DEF WSIZE, DWORD_SIZE
  <2> QED
    BY <1>3, <1>4, <1>7, <2>2
<1>11. MoreTagged(m, m2, brk, top)
  BY <1>1, <1>8, <1>10 DEF MoreTagged, MIN_BLOCK_SIZE
<1> QED
  BY <1>7, <1>9, <1>11 DEF m2

\* What extend_heap makes of a heap: it is as it was, or it has a free block
\* of size bytes and more at its end.
Grows(m, brk, B, h, size) ==
  \/ h.bp = NULL /\ h.mem = m /\ h.brk = brk /\ h.health = "sound" /\ brk + size > MAX_HEAP
  \/ /\ h.health = "sound"
     /\ \E C \in SUBSET Payloads :
          /\ Good(h.mem, h.brk, C) /\ Taken(h.mem, C) = Taken(m, B)
          /\ \A q \in Taken(m, B) : SameBlock(m, h.mem, q)
          /\ h.bp \in C /\ h.bp # Prologue /\ Alloc(h.mem, h.bp) = 0
          /\ h.bp + SizeOf(h.mem, h.bp) = h.brk /\ SizeOf(h.mem, h.bp) >= size

\* What extend_heap asks mem_sbrk for when n bytes were meant: the half of it,
\* or 64.
GrowthOf(n) == IF (n \div 16) * WSIZE < 8 * WSIZE THEN 8 * WSIZE ELSE (n \div 16) * WSIZE

\* About half of what is meant, in double words, and it fits an int.
LEMMA GrowthFacts ==
  ASSUME NEW n \in Nat, n % 32 = 0, n < INT_SPAN
  PROVE  /\ (n \div 16) % 2 = 0 /\ GrowthOf(n) \in Nat /\ GrowthOf(n) % 16 = 0 /\ GrowthOf(n) >= 64
         /\ GrowthOf(n) < INT_SPAN \div 2 /\ 2 * GrowthOf(n) >= n /\ GrowthOf(n) <= 64 + n \div 2
<1>1. INT_SPAN \in Nat /\ INT_SPAN % 2 = 0 /\ 64 < INT_SPAN \div 2
  BY MemLibAssumption, GrowthAssumption DEF WSIZE
<1> DEFINE j == n \div 32
<1>2. j \in Nat /\ n = 32 * j
  OBVIOUS
<1> HIDE DEF j
<1>3. n \div 16 = 2 * j /\ (2 * j) % 2 = 0 /\ n \div 2 = 16 * j /\ (16 * j) % 16 = 0
  BY <1>2
<1>4. GrowthOf(n) = IF 16 * j < 64 THEN 64 ELSE 16 * j
  <2>1. (2 * j) * 8 = 16 * j
    BY <1>2
  <2> QED
    BY <1>3, <2>1 DEF GrowthOf, WSIZE
<1>5. 16 * j < INT_SPAN \div 2
  <2> DEFINE half == INT_SPAN \div 2
  <2>1. half \in Nat /\ INT_SPAN = 2 * half
    BY <1>1
  <2> HIDE DEF half
  <2>2. 32 * j < 2 * half
    BY <1>2, <2>1
  <2>3. 16 * j < half
    BY <1>2, <2>1, <2>2
  <2> QED
    BY <2>3 DEF half
<1> QED
  BY <1>1, <1>2, <1>3, <1>4, <1>5

\* A new free block joins the heap, or nothing happens.  Behind it is the
\* epilogue, so no link goes astray.
LEMMA ExtendGives ==
  ASSUME NEW m, NEW brk, NEW B, Good(m, brk, B), NEW n \in Nat, n % 32 = 0, n < INT_SPAN
  PROVE  Grows(m, brk, B, extend_heap(m, brk, n \div 16), GrowthOf(n))
<1> DEFINE h    == extend_heap(m, brk, n \div 16)
           size == GrowthOf(n)
           area == mem_sbrk(brk, size)
           top  == brk + size
           m2   == Extended(m, brk, top - brk)
           C    == B \cup {brk}
           c    == coalesce(m2, top, brk)
<1>1. Tiles(m, brk, B) /\ Tied(m, B, NULL)
  BY DEF Good
<1>2. brk \notin B /\ brk > Prologue /\ brk \in Nat /\ brk \in Payloads /\ m \in Memory
  BY <1>1, EpilogueSays DEF Tiles
<1>3. (n \div 16) % 2 = 0 /\ size \in Nat /\ size % 16 = 0 /\ size >= 64 /\ size < INT_SPAN \div 2
  BY GrowthFacts
<1>4. h = IF area.ok THEN coalesce(Extended(m, brk, size), area.brk, brk) ELSE Heap(m, brk, "sound", NULL)
  <2>1. (IF (n \div 16) % 2 = 1 THEN n \div 16 + 1 ELSE n \div 16) = n \div 16
    BY <1>3
  <2> QED
    BY <2>1 DEF extend_heap, GrowthOf, Extended
<1> HIDE DEF size
<1>5. (area.ok <=> top <= MAX_HEAP) /\ (area.ok => area.brk = top)
  BY <1>2, <1>3, SbrkGives
<1>6. top \in Nat /\ top - brk = size /\ brk + 64 <= top /\ MAX_HEAP \in Nat
  BY <1>2, <1>3, MemLibAssumption
<1> HIDE DEF h, area
<1>7. CASE ~area.ok
  <2>1. brk + size > MAX_HEAP
    BY <1>5, <1>6, <1>7
  <2>2. h.bp = NULL /\ h.mem = m /\ h.brk = brk /\ h.health = "sound"
    BY <1>4, <1>7 DEF Heap
  <2> QED
    BY <2>1, <2>2 DEF h, Grows, size
<1>8. CASE area.ok
  <2>1. h = c
    BY <1>4, <1>5, <1>6, <1>8
  <2>2. top \in Payloads
    <3>1. brk % 16 = 0
      BY <1>2, PayloadIs DEF DWORD_SIZE
    <3>2. top % 16 = 0
      BY <1>2, <1>3, <3>1
    <3> HIDE DEF top
    <3> QED
      BY <1>5, <1>6, <1>8, <3>2, PayloadIs DEF DWORD_SIZE
  <2>3. SizeOf(m2, brk) = size /\ top = brk + size
    <3>1. m2 \in Memory /\ MoreTagged(m, m2, brk, top)
      <4> HIDE DEF top
      <4> QED
        BY <1>2, <1>6, <2>2, ExtendWrites
    <3>2. brk - WSIZE \in Words
      BY <1>2, TagWords DEF Prologue, WSIZE
    <3> HIDE DEF m2, top
    <3> QED
      BY <1>6, <3>1, <3>2, TagSays DEF MoreTagged, SizeOf, header, Word, top
  <2> HIDE DEF top
  <2>4. m2 \in Memory /\ MoreTagged(m, m2, brk, top) /\ SelfTied(m2, brk)
    BY <1>2, <1>6, <2>2, ExtendWrites
  <2> HIDE DEF m2
  <2>5. BecameMore(m, brk, B, m2, top, B \cup {brk})
    <3> HIDE DEF c, C
    <3> QED
      BY <1>1, <2>2, <2>4, MoreHeap
  <2>6. /\ Tiles(m2, top, C) /\ brk # Prologue /\ SizeOf(m2, brk) = top - brk /\ Alloc(m2, brk) = 0
        /\ \A p \in B : SameBlock(m, m2, p)
    BY <2>5 DEF BecameMore
  <2>7. brk \in C
    OBVIOUS
  <2>8. \A p \in C : p \in B \/ p = brk
    OBVIOUS
  <2>9. B \subseteq C
    OBVIOUS
  <2> HIDE DEF C, c
  <2>10. ASSUME NEW p \in B
         PROVE  /\ Alloc(m2, p) = Alloc(m, p) /\ FAlloc(m2, p) = FAlloc(m, p)
                /\ (SelfTied(m, p) => SelfTied(m2, p))
    BY <1>1, <2>4, <2>6, SameBlockFacts
  <2>11. Tied(m2, C, brk)
    <3> SUFFICES ASSUME NEW p \in C, p # brk, p = Prologue \/ Alloc(m2, p) = 0
                 PROVE  SelfTied(m2, p)
      BY DEF Tied
    <3>1. p \in B
      BY <2>8
    <3>2. p # NULL
      BY <1>1, <3>1, BlockFacts DEF Prologue, WSIZE, NULL
    <3> QED
      BY <1>1, <2>10, <3>1, <3>2 DEF Tied
  <2>12. Taken(m2, C) = Taken(m, B)
    BY <2>6, <2>8, <2>9, <2>10 DEF Taken
  <2>13. ~NextFree(m2, brk)
    <3>1. next_payload(m2, brk) = top
      BY <1>6, <2>3 DEF next_payload
    <3>2. Alloc(m2, top) = 1
      BY <2>6, EpilogueSays
    <3> QED
      BY <3>1, <3>2 DEF NextFree, Alloc
  <2>14. c.brk = top /\ c.health = "sound" /\ \E D \in SUBSET Payloads : Coalesced(m2, top, C, brk, c, D)
    <3>1. Released(m2, top, C, brk, top, coalesce(m2, top, brk))
      BY <2>6, <2>7, <2>11, CoalesceGives
    <3>2. Released(m2, top, C, brk, top, c)
      BY <3>1 DEF c
    <3> QED
      BY <2>13, <3>2 DEF Released
  <2>15. PICK D \in SUBSET Payloads : Coalesced(m2, top, C, brk, c, D)
    BY <2>14
  <2>16. /\ Good(c.mem, top, D) /\ Taken(c.mem, D) = Taken(m2, C) \ {brk}
         /\ \A p \in Taken(m2, C) \ {brk} : SameBlock(m2, c.mem, p)
         /\ c.bp \in D /\ c.bp # Prologue /\ c.bp <= brk
         /\ Alloc(c.mem, c.bp) = 0 /\ c.bp + SizeOf(c.mem, c.bp) = brk + SizeOf(m2, brk)
    BY <2>13, <2>15 DEF Coalesced
  <2>17. Taken(m, B) \ {brk} = Taken(m, B)
    BY <1>2 DEF Taken
  <2>18. \A q \in Taken(m, B) : SameBlock(m, c.mem, q)
    <3> TAKE q \in Taken(m, B)
    <3>1. q \in B /\ SameBlock(m, m2, q)
      BY <2>6 DEF Taken
    <3>2. SameBlock(m2, c.mem, q)
      BY <2>12, <2>16, <2>17
    <3> QED
      BY <1>1, <2>4, <3>1, <3>2, SameBlockTwice
  <2>19. SizeOf(c.mem, c.bp) >= size
    <3>1. Tiles(c.mem, top, D)
      BY <2>16 DEF Good
    <3>2. c.bp \in Nat /\ SizeOf(c.mem, c.bp) \in Nat
      BY <2>16, <3>1, BlockFacts
    <3> QED
      BY <1>2, <1>3, <2>3, <2>16, <3>2
  <2>20. /\ Good(h.mem, h.brk, D) /\ Taken(h.mem, D) = Taken(m, B)
         /\ \A q \in Taken(m, B) : SameBlock(m, h.mem, q)
         /\ h.bp \in D /\ h.bp # Prologue /\ Alloc(h.mem, h.bp) = 0
         /\ h.bp + SizeOf(h.mem, h.bp) = h.brk /\ SizeOf(h.mem, h.bp) >= size /\ h.health = "sound"
    BY <2>1, <2>3, <2>12, <2>14, <2>16, <2>17, <2>18, <2>19
  <2>21. Grows(m, brk, B, h, size)
    BY <2>20 DEF Grows
  <2> QED
    BY <2>21 DEF h, size
<1> QED
  BY <1>7, <1>8

\* mm_init makes a heap of one free block.
LEMMA FreshHeapGives ==
  /\ FreshHeap.health = "sound" /\ FreshHeap.brk > 0
  /\ \E B \in SUBSET Payloads : Good(FreshHeap.mem, FreshHeap.brk, B) /\ Taken(FreshHeap.mem, B) = {}
<1> DEFINE zero == [a \in Words |-> Tag(0, 0)]
           t1   == PutTags(zero, 16, 32, 1)
           t2   == SelfLinked(t1, 16)
           t    == Put(t2, 40, Tag(0, 1))
           h    == extend_heap(t, 48, CHUNKSIZE \div 16)
           B    == {16}
<1>1. /\ CHUNKSIZE \in Nat /\ CHUNKSIZE % 32 = 0 /\ 112 + CHUNKSIZE <= MAX_HEAP /\ CHUNKSIZE < INT_SPAN
      /\ 64 < INT_SPAN \div 2 /\ MAX_HEAP \in Nat
  BY ExplicitListAssumption, GrowthAssumption, MemLibAssumption DEF WSIZE, DWORD_SIZE
<1>2. FreshHeap = h
  <2>1. mem_sbrk(0, 6 * WSIZE).brk = 48
    <3>1. 6 * WSIZE = 48 /\ 48 \in Nat /\ 0 \in Nat /\ 0 + 48 <= MAX_HEAP /\ 0 + 48 = 48 /\ 48 < INT_SPAN \div 2
      BY <1>1, MemLibAssumption DEF WSIZE
    <3> QED
      BY <3>1, SbrkGives
  <2>2. header(48) = 40 /\ Prologue = 16 /\ 2 * DWORD_SIZE = 32
    BY DEF header, Prologue, WSIZE, DWORD_SIZE
  <2>3. FreshHeap = extend_heap(Put(SelfLinked(PutTags(zero, Prologue, 2 * DWORD_SIZE, 1), Prologue),
                                    header(mem_sbrk(0, 6 * WSIZE).brk), Tag(0, 1)),
                                mem_sbrk(0, 6 * WSIZE).brk, CHUNKSIZE \div 16)
    BY DEF FreshHeap
  <2> HIDE DEF zero
  <2> QED
    BY <2>1, <2>2, <2>3
<1>3. /\ 8 \in Words /\ 16 \in Words /\ 24 \in Words /\ 32 \in Words /\ 40 \in Words
      /\ 16 \in Payloads /\ 48 \in Payloads
  <2>1. \A a \in 0 .. 40 : a % 8 = 0 => a \in Words
    BY <1>1, WordIs DEF WSIZE
  <2>2. \A a \in 0 .. 48 : a % 16 = 0 => a \in Payloads
    BY <1>1, PayloadIs DEF DWORD_SIZE
  <2> QED
    BY <2>1, <2>2
<1>4. zero \in Memory /\ Tag(0, 1) \in TagSet
  BY TagIs DEF Memory, TagSet, Tag
<1> HIDE DEF zero
<1>5. t1 \in Memory /\ \A a \in Words : t1[a] = IF a = 8 \/ a = 32 THEN Tag(32, 1) ELSE zero[a]
  <2> DEFINE hi == 48
  <2>1. hi \in Nat /\ 16 <= hi /\ 16 > 0 /\ 1 \in {0, 1} /\ hi - 16 = 32 /\ hi - DWORD_SIZE = 32 /\ 16 - WSIZE = 8
    BY DEF WSIZE, DWORD_SIZE
  <2> HIDE DEF hi
  <2>2. /\ PutTags(zero, 16, hi - 16, 1) \in Memory
        /\ \A a \in Words : PutTags(zero, 16, hi - 16, 1)[a]
             = IF a = 16 - WSIZE \/ a = hi - DWORD_SIZE THEN Tag(hi - 16, 1) ELSE zero[a]
    BY <1>3, <1>4, <2>1, TagsPut
  <2> QED
    BY <2>1, <2>2
<1> HIDE DEF t1
<1>6. t2 \in Memory /\ \A a \in Words : t2[a] = IF a = 16 \/ a = 24 THEN Link(8) ELSE t1[a]
  <2>1. 16 \in Nat /\ 16 >= Prologue /\ 16 - WSIZE = 8 /\ 16 + WSIZE = 24
    BY DEF Prologue, WSIZE
  <2>2. /\ SelfLinked(t1, 16) \in Memory
        /\ \A a \in Words : SelfLinked(t1, 16)[a] = IF a = 16 \/ a = 16 + WSIZE THEN Link(16 - WSIZE) ELSE t1[a]
    BY <1>5, <2>1, LinksPut
  <2> QED
    BY <2>1, <2>2
<1> HIDE DEF t2
<1>7. t \in Memory /\ \A a \in Words : t[a] = IF a = 40 THEN Tag(0, 1) ELSE t2[a]
  BY <1>4, <1>6, WordPut
<1> HIDE DEF t
<1>8. t[8] = Tag(32, 1) /\ t[32] = Tag(32, 1) /\ t[40] = Tag(0, 1) /\ t[16] = Link(8) /\ t[24] = Link(8)
  BY <1>3, <1>5, <1>6, <1>7
<1>9. SizeOf(t, 16) = 32 /\ Alloc(t, 16) = 1 /\ footer(t, 16) = 32
  <2>1. header(16) = 8
    BY DEF header, WSIZE
  <2>2. SizeOf(t, 16) = 32 /\ Alloc(t, 16) = 1
    BY <1>3, <1>8, <2>1, TagSays DEF SizeOf, Alloc, Word
  <2> QED
    BY <2>2 DEF footer, DWORD_SIZE
<1>10. BlockShape(t, 16)
  <2>1. Word(t, 32).size = 32
    BY <1>3, <1>8, TagSays DEF Word
  <2> QED
    BY <1>9, <2>1 DEF BlockShape, Tagged, Prologue, WSIZE, MIN_BLOCK_SIZE
<1>11. SelfTied(t, 16)
  BY <1>3, <1>8 DEF SelfTied, Word, header, WSIZE
<1>12. Tiles(t, 48, B)
  <2>1. /\ t \in Memory /\ 48 \in Payloads /\ B \subseteq Payloads
        /\ Prologue \in B /\ t[WSIZE] = Tag(MIN_BLOCK_SIZE, 1) /\ t[4 * WSIZE] = Tag(MIN_BLOCK_SIZE, 1)
        /\ t[48 - WSIZE] = Tag(0, 1)
    BY <1>3, <1>7, <1>8 DEF WSIZE, Prologue, MIN_BLOCK_SIZE
  <2>2. \A p \in B : BlockShape(t, p) /\ p + SizeOf(t, p) \in B \cup {48} /\ p + SizeOf(t, p) <= 48
    BY <1>9, <1>10
  <2>3. \A p, q \in B : p < q => p + SizeOf(t, p) <= q
    OBVIOUS
  <2>4. \A q \in B \cup {48} : q = Prologue \/ \E p \in B : p + SizeOf(t, p) = q
    BY <1>9 DEF Prologue, WSIZE
  <2> QED
    BY <2>1, <2>2, <2>3, <2>4 DEF Tiles
<1>13. Good(t, 48, B) /\ Taken(t, B) = {}
  <2>1. Tied(t, B, NULL)
    BY <1>11 DEF Tied
  <2>2. Taken(t, B) = {}
    BY DEF Taken, Prologue, WSIZE
  <2> QED
    BY <1>12, <2>1, <2>2 DEF Good
<1> HIDE DEF B
<1>14. Grows(t, 48, B, h, GrowthOf(CHUNKSIZE))
  BY <1>1, <1>13, ExtendGives
<1> HIDE DEF h
<1>15. ~(48 + GrowthOf(CHUNKSIZE) > MAX_HEAP)
  <2>1. GrowthOf(CHUNKSIZE) \in Nat /\ GrowthOf(CHUNKSIZE) <= 64 + CHUNKSIZE \div 2
    BY <1>1, GrowthFacts
  <2> QED
    BY <1>1, <2>1
<1>16. PICK C \in SUBSET Payloads : /\ Good(h.mem, h.brk, C) /\ Taken(h.mem, C) = Taken(t, B)
                                    /\ h.health = "sound"
  BY <1>14, <1>15 DEF Grows
<1>17. h.brk > 0
  <2>1. Tiles(h.mem, h.brk, C)
    BY <1>16 DEF Good
  <2>2. h.brk > Prologue /\ h.brk \in Nat
    BY <2>1, EpilogueSays
  <2> QED
    BY <2>2 DEF Prologue, WSIZE
<1> QED
  BY <1>2, <1>13, <1>16, <1>17
-----------------------------------------------------------------------------
(* A request.                                                              *)

\* The heap m of blocks B with one more block taken, above all others the
\* program holds and with room for size bytes; or the same heap; or a block
\* too small, which extend_heap makes only for more than half a chunk.
Obtained(m, brk, B, r, size) ==
  \/ r.bp = NULL /\ r.health = "sound" /\ r.mem = m /\ r.brk = brk
  \/ r.bp = NULL /\ r.health = "malloc faults" /\ ~(2 * AdjustedSize(size) <= CHUNKSIZE)
  \/ /\ r.bp # NULL /\ r.health = "sound"
     /\ \E C \in SUBSET Payloads :
          /\ Good(r.mem, r.brk, C) /\ Taken(r.mem, C) = Taken(m, B) \cup {r.bp} /\ r.bp \in C
          /\ \A q \in Taken(m, B) : q < r.bp /\ SameBlock(m, r.mem, q)
          /\ SizeOf(r.mem, r.bp) >= size + DWORD_SIZE

\* The list holds no block but the prologue, so every request grows the heap.
LEMMA ObtainIs ==
  ASSUME NEW m \in Memory, SelfTied(m, Prologue), NEW brk, NEW size, NEW x
  PROVE  LET asize == AdjustedSize(size) IN
         Obtain(Heap(m, brk, "sound", x), size)
           = PlaceIn(extend_heap(m, brk, extendsize(asize) \div 16), asize)
<1> DEFINE h == Heap(m, brk, "sound", x)
<1>1. h.mem = m /\ h.brk = brk
  BY DEF Heap
<1>2. find_fit(m, AdjustedSize(size)) = NULL
  BY NothingFits
<1> HIDE DEF h
<1>3. Obtain(h, size) = PlaceIn(extend_heap(m, brk, extendsize(AdjustedSize(size)) \div 16), AdjustedSize(size))
  BY <1>1, <1>2 DEF Obtain
<1> QED
  BY <1>3 DEF h

\* How PlaceIn ends.
HandedOut(m, brk, end, bp, asize, r) ==
  /\ SizeOf(m, bp) < asize => r.bp = NULL /\ r.health = "malloc faults"
  /\ ~(SizeOf(m, bp) < asize) => r.bp = bp /\ r.health = end /\ r.brk = brk /\ r.mem = place(m, bp, asize)

\* A block that fits is handed out of the heap e, one that does not ends the
\* program.
LEMMA PlacedIn ==
  ASSUME NEW m, NEW brk, NEW end, NEW bp, bp # NULL, NEW asize
  PROVE  HandedOut(m, brk, end, bp, asize, PlaceIn(Heap(m, brk, end, bp), asize))
<1> DEFINE e == Heap(m, brk, end, bp)
           r == PlaceIn(e, asize)
           x == place(m, bp, asize)
           y == [e EXCEPT !.health = "malloc faults", !.bp = NULL]
           z == [e EXCEPT !.mem = x]
<1>1. e.mem = m /\ e.bp = bp
  BY DEF Heap
<1>2. y.bp = NULL /\ y.health = "malloc faults"
  BY DEF Heap
<1>3. z.bp = bp /\ z.health = end /\ z.brk = brk /\ z.mem = x
  <2> HIDE DEF x
  <2> QED
    BY DEF Heap
<1> HIDE DEF e
<1>4. SizeOf(m, bp) < asize => r = y
  BY <1>1 DEF PlaceIn
<1>5. ~(SizeOf(m, bp) < asize) => r = z
  BY <1>1 DEF PlaceIn
<1> HIDE DEF r, x, y, z
<1>6. /\ SizeOf(m, bp) < asize => r.bp = NULL /\ r.health = "malloc faults"
      /\ ~(SizeOf(m, bp) < asize) => r.bp = bp /\ r.health = end /\ r.brk = brk /\ r.mem = x
  BY <1>2, <1>3, <1>4, <1>5
<1> QED
  BY <1>6 DEF r, e, x, HandedOut

\* A heap has a positive break, its blocks lie above the prologue, which is
\* linked to itself.
LEMMA GoodFacts ==
  ASSUME NEW m, NEW brk, NEW B, Good(m, brk, B)
  PROVE  /\ m \in Memory /\ brk \in Payloads /\ brk \in Nat /\ brk > 0 /\ B \subseteq Payloads
         /\ Prologue \in B /\ SelfTied(m, Prologue)
         /\ \A p \in B : p \in Nat /\ p # NULL
<1>1. Tiles(m, brk, B) /\ Tied(m, B, NULL)
  BY DEF Good
<1>2. m \in Memory /\ brk \in Payloads /\ B \subseteq Payloads /\ Prologue \in B
  BY <1>1 DEF Tiles
<1>3. brk \in Nat /\ brk > 0
  <2>1. brk \in Nat /\ brk > Prologue
    BY <1>1, EpilogueSays
  <2> QED
    BY <2>1 DEF Prologue, WSIZE
<1>4. \A p \in B : p \in Nat /\ p # NULL
  <2>1. \A p \in B : p \in Nat /\ p >= Prologue
    BY <1>1, BlockFacts
  <2> QED
    BY <2>1 DEF Prologue, WSIZE, NULL
<1>5. SelfTied(m, Prologue)
  BY <1>1, <1>2, <1>4 DEF Tied
<1> QED
  BY <1>2, <1>3, <1>4, <1>5

\* A request yields a block above all others, nothing, or a block too small.
LEMMA ObtainGives ==
  ASSUME NEW m, NEW brk, NEW B, Good(m, brk, B), NEW size \in Requests, NEW x
  PROVE  Obtained(m, brk, B, Obtain(Heap(m, brk, "sound", x), size), size)
<1> DEFINE r     == Obtain(Heap(m, brk, "sound", x), size)
           asize == AdjustedSize(size)
           n     == extendsize(asize)
           e     == extend_heap(m, brk, n \div 16)
           g     == GrowthOf(n)
<1>1. size \in Nat /\ CHUNKSIZE \in Nat
  BY ExplicitListAssumption
<1>2. /\ asize \in Nat /\ asize % DWORD_SIZE = 0 /\ asize >= MIN_BLOCK_SIZE /\ size + DWORD_SIZE <= asize
      /\ asize > 0
  <2>1. /\ asize \in Nat /\ asize % DWORD_SIZE = 0 /\ asize >= MIN_BLOCK_SIZE /\ size + DWORD_SIZE <= asize
    BY <1>1, AdjustedSizeFacts
  <2> HIDE DEF asize
  <2> QED
    BY <2>1 DEF MIN_BLOCK_SIZE
<1>3. n < INT_SPAN
  BY GrowthAssumption
<1>4. n \in Nat /\ n % 32 = 0 /\ n >= CHUNKSIZE
  <2> HIDE DEF asize
  <2> QED
    BY <1>2, ExtendSizeFacts
<1>5. SelfTied(m, Prologue) /\ m \in Memory
  BY GoodFacts
<1>6. r = PlaceIn(e, asize)
  BY <1>5, ObtainIs
<1> HIDE DEF n
<1>7. Grows(m, brk, B, e, g)
  BY <1>3, <1>4, ExtendGives
<1>8. g \in Nat /\ 2 * g >= n
  BY <1>3, <1>4, GrowthFacts
<1>9. e = Heap(e.mem, e.brk, e.health, e.bp)
  <2>1. \E m0, b0, h0, p0 : e = Heap(m0, b0, h0, p0)
    BY DEF extend_heap, coalesce, Linked
  <2> HIDE DEF e
  <2> QED
    BY <2>1 DEF Heap
<1> HIDE DEF r, e, g
<1>10. CASE e.bp = NULL /\ e.mem = m /\ e.brk = brk /\ e.health = "sound"
  <2>1. r = e
    BY <1>6, <1>10 DEF PlaceIn
  <2>2. Obtained(m, brk, B, r, size)
    BY <1>10, <2>1 DEF Obtained
  <2> QED
    BY <2>2 DEF r
<1>11. ASSUME NEW C \in SUBSET Payloads, e.health = "sound",
              Good(e.mem, e.brk, C), Taken(e.mem, C) = Taken(m, B),
              \A q \in Taken(m, B) : SameBlock(m, e.mem, q),
              e.bp \in C, e.bp # Prologue, Alloc(e.mem, e.bp) = 0,
              e.bp + SizeOf(e.mem, e.bp) = e.brk, SizeOf(e.mem, e.bp) >= g
       PROVE  Obtained(m, brk, B, Obtain(Heap(m, brk, "sound", x), size), size)
  <2> DEFINE u == e.mem  l == e.brk  b == e.bp
  <2>1. /\ Good(u, l, C) /\ b \in C /\ b # Prologue /\ Alloc(u, b) = 0 /\ b + SizeOf(u, b) = l
        /\ SizeOf(u, b) >= g /\ Taken(u, C) = Taken(m, B) /\ \A q \in Taken(m, B) : SameBlock(m, u, q)
    BY <1>11
  <2>2. e = Heap(u, l, "sound", b)
    BY <1>9, <1>11
  <2>3. /\ SizeOf(u, b) < asize => r.bp = NULL /\ r.health = "malloc faults"
        /\ ~(SizeOf(u, b) < asize)
              => r.bp = b /\ r.health = "sound" /\ r.brk = l /\ r.mem = place(u, b, asize)
    <3> HIDE DEF u, l, b, asize
    <3>1. b # NULL
      BY <2>1, GoodFacts
    <3>2. HandedOut(u, l, "sound", b, asize, PlaceIn(Heap(u, l, "sound", b), asize))
      BY <3>1, PlacedIn
    <3>3. r = PlaceIn(Heap(u, l, "sound", b), asize)
      BY <1>6, <2>2
    <3> QED
      BY <3>2, <3>3 DEF HandedOut
  <2> HIDE DEF u, l, b
  <2>4. Tiles(u, l, C) /\ b # NULL
    BY <2>1, GoodFacts DEF Good
  <2>5. SizeOf(u, b) \in Nat /\ b \in Nat
    BY <2>1, <2>4, BlockFacts
  <2>6. CASE SizeOf(u, b) < asize
    <3>1. ~(2 * asize <= CHUNKSIZE)
      <4> HIDE DEF asize
      <4>1. 2 * SizeOf(u, b) >= CHUNKSIZE
        BY <1>1, <1>4, <1>8, <2>1, <2>5
      <4> QED
        BY <1>1, <1>2, <2>5, <2>6, <4>1
    <3>2. Obtained(m, brk, B, r, size)
      BY <2>3, <2>6, <3>1 DEF Obtained
    <3> QED
      BY <3>2 DEF r
  <2>7. CASE ~(SizeOf(u, b) < asize)
    <3> DEFINE w == place(u, b, asize)
    <3>1. asize <= SizeOf(u, b)
      <4> HIDE DEF asize
      <4> QED
        BY <1>2, <2>5, <2>7
    <3>2. r.bp = b /\ r.health = "sound" /\ r.brk = l /\ r.mem = w
      BY <2>3, <2>7
    <3>3. PICK D \in SUBSET Payloads :
            /\ Good(w, l, D) /\ Taken(w, D) = Taken(u, C) \cup {b}
            /\ SizeOf(w, b) >= asize
            /\ \A q \in Taken(u, C) : SameBlock(u, w, q)
      <4> HIDE DEF asize
      <4> QED
        BY <1>2, <2>1, <3>1, PlaceGives
    <3> HIDE DEF w, asize
    <3>4. w \in Memory /\ Tiles(w, l, D)
      BY <3>3, GoodFacts DEF Good
    <3>5. b \in D
      BY <3>3 DEF Taken
    <3>6. SizeOf(w, b) >= size + DWORD_SIZE
      <4>1. SizeOf(w, b) \in Nat
        BY <3>4, <3>5, BlockFacts
      <4> QED
        BY <1>1, <1>2, <3>3, <4>1 DEF DWORD_SIZE
    <3>7. ASSUME NEW q \in Taken(m, B) PROVE q < b /\ SameBlock(m, w, q)
      <4>1. SameBlock(m, u, q) /\ SameBlock(u, w, q)
        BY <2>1, <3>3
      <4>2. q \in B
        BY DEF Taken
      <4>3. u \in Memory /\ Tiles(m, brk, B)
        BY <2>1, GoodFacts DEF Good
      <4>4. SameBlock(m, w, q)
        BY <4>1, <4>2, <4>3, SameBlockTwice
      <4>5. q \in C /\ Alloc(u, q) = 1
        BY <2>1 DEF Taken
      <4>6. q \in Nat /\ SizeOf(u, q) \in Nat /\ SizeOf(u, q) >= MIN_BLOCK_SIZE /\ q + SizeOf(u, q) <= l /\ q # b
        BY <2>1, <2>4, <4>5, BlockFacts
      <4>7. b < q => b + SizeOf(u, b) <= q
        BY <2>1, <2>4, <4>5 DEF Tiles
      <4> QED
        BY <2>1, <2>5, <4>4, <4>6, <4>7 DEF MIN_BLOCK_SIZE
    <3>8. /\ Good(r.mem, r.brk, D) /\ Taken(r.mem, D) = Taken(m, B) \cup {r.bp} /\ r.bp \in D
          /\ \A q \in Taken(m, B) : q < r.bp /\ SameBlock(m, r.mem, q)
          /\ SizeOf(r.mem, r.bp) >= size + DWORD_SIZE
          /\ r.bp # NULL /\ r.health = "sound"
      BY <2>1, <2>4, <3>2, <3>3, <3>5, <3>6, <3>7
    <3>9. Obtained(m, brk, B, r, size)
      BY <3>8 DEF Obtained
    <3> QED
      BY <3>9 DEF r
  <2> QED
    BY <2>6, <2>7
<1> QED
  BY <1>7, <1>10, <1>11 DEF Grows

-----------------------------------------------------------------------------
(* Data.                                                                   *)

\* m2 differs from m in the payload of the block at p only.
DataOnly(m, m2, p) ==
  m2 \in Memory /\ \A a \in Words : a < p \/ a >= p + SizeOf(m, p) - DWORD_SIZE => m2[a] = m[a]

\* Writing to a block the program holds touches no tag and no link.
LEMMA DataWritten ==
  ASSUME NEW m, NEW brk, NEW B, Good(m, brk, B), NEW p \in Taken(m, B), NEW m2, DataOnly(m, m2, p)
  PROVE  /\ Good(m2, brk, B) /\ Taken(m2, B) = Taken(m, B)
         /\ \A q \in B : q # p => SameBlock(m, m2, q)
         /\ \A q \in B : SizeOf(m2, q) = SizeOf(m, q)
<1>1. Tiles(m, brk, B) /\ Tied(m, B, NULL)
  BY DEF Good
<1>2. p \in B /\ p # Prologue /\ Alloc(m, p) = 1 /\ FAlloc(m, p) = 1 /\ m2 \in Memory
  BY DEF Taken, DataOnly
<1>3. PICK hi \in Payloads :
           /\ hi = p + SizeOf(m, p) /\ SizeOf(m, p) = hi - p /\ footer(m, p) = hi - DWORD_SIZE
           /\ p \in Nat /\ hi \in Nat /\ p > 0 /\ p + 32 <= hi
           /\ p - WSIZE \in Words /\ hi - DWORD_SIZE \in Words
           /\ m[p - WSIZE].size = hi - p /\ m[hi - DWORD_SIZE].size = hi - p
  BY <1>1, <1>2, BlockEnds
<1>4. \A a \in Words : a < p \/ a >= hi - DWORD_SIZE => m2[a] = m[a]
  <2>1. p + SizeOf(m, p) - DWORD_SIZE = hi - DWORD_SIZE
    BY <1>3 DEF footer
  <2> QED
    BY <2>1 DEF DataOnly
<1>5. m2[p - WSIZE] = m[p - WSIZE] /\ m2[hi - DWORD_SIZE] = m[hi - DWORD_SIZE]
  BY <1>3, <1>4 DEF WSIZE, DWORD_SIZE
<1>6. SameOutside(m, m2, p, hi)
  <2>1. \A a \in Words : a \in Nat
    BY WordIs
  <2> QED
    BY <1>3, <1>4, <2>1 DEF SameOutside, WSIZE, DWORD_SIZE
<1>7. SizeOf(m2, p) = hi - p /\ Alloc(m2, p) = 1 /\ FAlloc(m2, p) = 1
  <2>1. SizeOf(m2, p) = hi - p /\ Alloc(m2, p) = 1
    BY <1>2, <1>3, <1>5 DEF SizeOf, Alloc, header, Word
  <2>2. footer(m2, p) = hi - DWORD_SIZE
    BY <1>3, <2>1 DEF footer, DWORD_SIZE
  <2> QED
    BY <1>2, <1>3, <1>5, <2>1, <2>2 DEF FAlloc, Word
<1>8. hi \in B \cup {brk} /\ p < hi
  <2>1. p + SizeOf(m, p) \in B \cup {brk}
    BY <1>1, <1>2 DEF Tiles
  <2>2. hi \in B \cup {brk}
    BY <1>3, <2>1
  <2> QED
    BY <1>3, <2>2
<1>9. BecameOne(m, brk, B, m2, p, hi)
  <2>1. Tied(m, Outside(B, p, hi), NULL)
    BY <1>1 DEF Tied, Outside
  <2>2. m2[p - WSIZE].size = hi - p /\ m2[hi - DWORD_SIZE].size = hi - p /\ ~(Alloc(m2, p) = 0)
    BY <1>3, <1>5, <1>7
  <2> QED
    BY <1>1, <1>2, <1>6, <1>8, <2>1, <2>2, OneBlock
<1>10. ASSUME NEW q \in B, q # p PROVE q < p \/ q >= hi
  <2>1. q \in Nat
    BY <1>1, BlockFacts
  <2>2. p < q => p + SizeOf(m, p) <= q
    BY <1>1, <1>2 DEF Tiles
  <2> QED
    BY <1>3, <1>10, <2>1, <2>2
<1>11. Outside(B, p, hi) \cup {p} = B
  BY <1>2, <1>10 DEF Outside
<1>12. Outside(Taken(m, B), p, hi) \cup {p} = Taken(m, B)
  <2>1. \A q \in Taken(m, B) : q \in B
    BY DEF Taken
  <2> QED
    BY <1>10, <2>1 DEF Outside
<1>13. /\ Good(m2, brk, B)
       /\ Taken(m2, B) = Outside(Taken(m, B), p, hi) \cup {q \in {p} : Alloc(m2, q) = 1 /\ FAlloc(m2, q) = 1}
       /\ \A q \in B : q < p \/ q >= hi => SameBlock(m, m2, q)
  BY <1>9, <1>11 DEF BecameOne
<1>14. \A q \in B : q # p => SameBlock(m, m2, q)
  BY <1>10, <1>13
<1>15. \A q \in B : SizeOf(m2, q) = SizeOf(m, q)
  <2> SUFFICES ASSUME NEW q \in B PROVE SizeOf(m2, q) = SizeOf(m, q)
    OBVIOUS
  <2>1. CASE q = p
    BY <1>3, <1>7, <2>1
  <2>2. CASE q # p
    BY <1>1, <1>2, <1>14, <2>2, SameBlockFacts
  <2> QED
    BY <2>1, <2>2
<1>16. Taken(m2, B) = Taken(m, B)
  BY <1>7, <1>12, <1>13
<1> QED
  BY <1>13, <1>14, <1>15, <1>16
-----------------------------------------------------------------------------
(* The calls.                                                              *)

\* The heap and what the program holds after a call.
LEMMA HeapLeft ==
  ASSUME NEW C \in SUBSET Payloads, Good(mem', mem_brk', C), Owns(live', mem', C),
         Typed(live'), heap_listp' = Prologue, health' = "sound"
  PROVE  HeapInv'
<1>1. mem' \in Memory /\ mem_brk' \in Nat /\ mem_brk' > 0
  BY GoodFacts
<1>2. /\ mem' \in Memory /\ mem_brk' \in Nat /\ heap_listp' \in {NULL, Prologue} /\ Typed(live')
      /\ heap_listp' # NULL /\ mem_brk' # 0 /\ health' \in HealthSet /\ health' # "malloc faults"
      /\ \E B \in SUBSET Payloads : Good(mem', mem_brk', B) /\ Owns(live', mem', B)
  BY <1>1 DEF Prologue, WSIZE, NULL, HealthSet
<1> QED
  BY <1>2 DEF HeapInv

\* After a stray link or a fault of coalesce nothing is claimed.
LEMMA Astray == health' \in {"astray", "free faults"} => HeapInv'
  BY DEF HeapInv, HealthSet

\* A block that is too small is made only for a large request.
LEMMA MallocFaulted ==
  ASSUME NEW size \in Requests, ~(2 * AdjustedSize(size) <= CHUNKSIZE), health' = "malloc faults"
  PROVE  HeapInv'
  BY DEF HeapInv, HealthSet

\* One block more, or the same with another size.
LEMMA HeldFacts ==
  ASSUME Typed(live), NEW S \in SUBSET DOMAIN live, NEW p \in Payloads,
         NEW bytes \in Requests \ {0}, NEW known \in Nat, WSIZE * known <= bytes
  PROVE  LET L == Held(S, p, bytes, known) IN
         /\ Typed(L) /\ DOMAIN L = S \cup {p} /\ L[p].bytes = bytes /\ L[p].known = known
         /\ \A q \in S \ {p} : L[q] = live[q]
<1> DEFINE L == Held(S, p, bytes, known)
<1>1. L = [q \in S \cup {p} |-> IF q = p THEN [bytes |-> bytes, known |-> known] ELSE live[q]]
  BY DEF Held
<1> HIDE DEF L
<1>2. /\ DOMAIN L = S \cup {p} /\ L[p] = [bytes |-> bytes, known |-> known]
      /\ \A q \in S \ {p} : L[q] = live[q]
  BY <1>1
<1>3. \A q \in S : live[q] \in Block /\ WSIZE * live[q].known <= live[q].bytes /\ q \in Payloads
  BY DEF Typed
<1>4. \A q \in S \cup {p} : L[q] \in Block /\ WSIZE * L[q].known <= L[q].bytes /\ q \in Payloads
  <2>1. L[p] \in Block /\ WSIZE * L[p].known <= L[p].bytes
    BY <1>2 DEF Block
  <2> QED
    BY <1>2, <1>3, <2>1
<1>5. L \in [DOMAIN L -> Block]
  BY <1>1, <1>2, <1>4
<1>6. Typed(L)
  BY <1>2, <1>4, <1>5 DEF Typed
<1> QED
  BY <1>2, <1>6 DEF L

\* What the program holds fits the blocks of a heap that has bp in addition,
\* if the others kept their sizes.
LEMMA OwnsAfter ==
  ASSUME NEW m, NEW B, Owns(live, m, B), NEW S \in SUBSET DOMAIN live, NEW bp, bp \notin S,
         NEW size \in Nat, NEW m2, NEW brk, NEW C, Good(m2, brk, C),
         Taken(m2, C) = S \cup {bp}, SizeOf(m2, bp) >= size + DWORD_SIZE,
         \A q \in S : SizeOf(m2, q) = SizeOf(m, q),
         NEW L, DOMAIN L = S \cup {bp}, L[bp].bytes = size, \A q \in S \ {bp} : L[q] = live[q]
  PROVE  Owns(L, m2, C)
<1> SUFFICES ASSUME NEW q \in DOMAIN L PROVE L[q].bytes + DWORD_SIZE <= SizeOf(m2, q)
  BY DEF Owns
<1>1. CASE q = bp
  <2>1. Tiles(m2, brk, C) /\ bp \in C
    BY <1>1 DEF Good, Taken
  <2>2. SizeOf(m2, bp) \in Nat
    BY <2>1, BlockFacts
  <2> QED
    BY <1>1, <2>2 DEF DWORD_SIZE
<1>2. CASE q # bp
  <2>1. q \in S /\ L[q] = live[q] /\ SizeOf(m2, q) = SizeOf(m, q)
    BY <1>2
  <2> QED
    BY <2>1 DEF Owns
<1> QED
  BY <1>1, <1>2

\* Whatever mm_init yields is a heap.
LEMMA FreshHeapIs == \E m, brk, end, bp : FreshHeap = Heap(m, brk, end, bp)
<1>1. \A m, brk, words : \E u, v, l, w : extend_heap(m, brk, words) = Heap(u, v, l, w)
  BY DEF extend_heap, coalesce, Linked
<1>2. \E m, brk, words : FreshHeap = extend_heap(m, brk, words)
  BY DEF FreshHeap
<1> QED
  BY <1>1, <1>2

\* The heap a request starts from.
LEMMA CurrentIs ==
  ASSUME HeapInv, health = "sound", heap_listp = NULL \/ mem_brk > 0
  PROVE  \E m, brk, x : \E B \in SUBSET Payloads :
           Current = Heap(m, brk, "sound", x) /\ Good(m, brk, B) /\ Owns(live, m, B)
<1>1. CASE heap_listp = NULL
  <2>1. DOMAIN live = {}
    BY <1>1 DEF HeapInv
  <2>2. PICK B \in SUBSET Payloads : Good(FreshHeap.mem, FreshHeap.brk, B) /\ Taken(FreshHeap.mem, B) = {}
    BY FreshHeapGives
  <2>3. Owns(live, FreshHeap.mem, B)
    BY <2>1, <2>2 DEF Owns
  <2>4. FreshHeap = Heap(FreshHeap.mem, FreshHeap.brk, "sound", FreshHeap.bp)
    <3>1. \E u, v, l, w : FreshHeap = Heap(u, v, l, w)
      BY FreshHeapIs
    <3>2. PICK u, v, l, w : FreshHeap = Heap(u, v, l, w)
      BY <3>1
    <3>3. Heap(u, v, l, w).mem = u /\ Heap(u, v, l, w).brk = v /\ Heap(u, v, l, w).health = l /\ Heap(u, v, l, w).bp = w
      BY DEF Heap
    <3> QED
      BY <3>2, <3>3, FreshHeapGives
  <2>5. Current = FreshHeap
    BY <1>1 DEF Current
  <2> QED
    BY <1>1, <2>2, <2>3, <2>4, <2>5
<1>2. CASE heap_listp # NULL
  <2>1. PICK B \in SUBSET Payloads : Good(mem, mem_brk, B) /\ Owns(live, mem, B)
    BY <1>2 DEF HeapInv
  <2>2. Current = Heap(mem, mem_brk, "sound", NULL)
    BY <1>2 DEF Current
  <2> QED
    BY <2>1, <2>2
<1> QED
  BY <1>1, <1>2

\* What a call made of the heap m: the blocks at S keep their words.
Untouched(m, m2, S) == \A q \in S : SameBlock(m, m2, q)

\* The smaller of two numbers.
LEMMA SmallerIs ==
  \A i, j \in Nat : Fewest({i, j}) \in {i, j} /\ Fewest({i, j}) <= i /\ Fewest({i, j}) <= j
<1> SUFFICES ASSUME NEW i \in Nat, NEW j \in Nat
             PROVE  Fewest({i, j}) \in {i, j} /\ Fewest({i, j}) <= i /\ Fewest({i, j}) <= j
  OBVIOUS
<1> DEFINE S == {i, j}
<1>1. S \in SUBSET Nat /\ S # {}
  OBVIOUS
<1>2. i \in S /\ j \in S
  OBVIOUS
<1> HIDE DEF S
<1>3. Fewest(S) \in S /\ \A k \in S : Fewest(S) <= k
  BY <1>1, FewestIs
<1> QED
  BY <1>2, <1>3 DEF S

\* The bytes that memcpy carries from the old block at p, and the heap r with
\* those in the new one.
Carried(r, p, size) == Fewest({size, SizeOf(r.mem, p)})
Moved(r, p, size) == Copied(r.mem, r.bp, p, Carried(r, p, size))

\* w is the heap r with the block at p copied to the new one.
CopyMade(r, p, size, w) ==
  /\ DataOnly(r.mem, w, r.bp) /\ Carried(r, p, size) \in Nat
  /\ \A a \in Words : r.bp <= a /\ a < r.bp + Carried(r, p, size) => w[a] = r.mem[p + (a - r.bp)]

\* The words that memcpy reads and writes.
LEMMA MovedGives ==
  ASSUME NEW r, NEW C, Good(r.mem, r.brk, C), r.bp \in C, NEW p \in C,
         NEW size \in Nat, r.bp # p, SizeOf(r.mem, r.bp) >= size + DWORD_SIZE
  PROVE  CopyMade(r, p, size, Moved(r, p, size))
<1> DEFINE m  == r.mem
           to == r.bp
           n  == Carried(r, p, size)
           w  == Moved(r, p, size)
<1>1. Tiles(m, r.brk, C) /\ m \in Memory
  BY GoodFacts DEF Good
<1>2. /\ p \in Nat /\ p % DWORD_SIZE = 0 /\ SizeOf(m, p) \in Nat /\ SizeOf(m, p) % DWORD_SIZE = 0
      /\ p + SizeOf(m, p) <= r.brk /\ r.brk <= MAX_HEAP
      /\ to \in Nat /\ to % DWORD_SIZE = 0 /\ SizeOf(m, to) \in Nat /\ r.brk \in Nat
  <2>1. /\ p \in Nat /\ p % DWORD_SIZE = 0 /\ SizeOf(m, p) \in Nat /\ SizeOf(m, p) % DWORD_SIZE = 0
        /\ p + SizeOf(m, p) <= r.brk /\ r.brk <= MAX_HEAP
    BY <1>1, BlockFacts
  <2>2. to \in Nat /\ to % DWORD_SIZE = 0 /\ SizeOf(m, to) \in Nat
    BY <1>1, BlockFacts
  <2> QED
    BY <2>1, <2>2, GoodFacts
<1>3. n \in Nat /\ n <= size /\ n <= SizeOf(m, p)
  BY <1>2, SmallerIs DEF Carried
<1>4. w = [a \in Words |-> IF a \in to .. to + n - 1 THEN Word(m, p + (a - to)) ELSE m[a]]
  BY DEF Moved, Copied
<1>5. SizeOf(m, to) >= size + DWORD_SIZE
  OBVIOUS
<1> HIDE DEF m, to, n, w
<1>6. \A a \in Words : a \in to .. to + n - 1 <=> to <= a /\ a < to + n
  BY <1>2, <1>3, WordIs
<1>7. \A a \in Words : to <= a /\ a < to + n => p + (a - to) \in Words
  <2> SUFFICES ASSUME NEW a \in Words, to <= a, a < to + n PROVE p + (a - to) \in Words
    OBVIOUS
  <2>1. a \in Nat /\ a % 8 = 0
    BY WordIs DEF WSIZE
  <2>2. p + (a - to) \in Nat /\ a - to < SizeOf(m, p)
    BY <1>2, <1>3, <2>1
  <2>3. (p + (a - to)) % 8 = 0 /\ (a - to) + 8 <= SizeOf(m, p)
    BY <1>2, <2>1, <2>2 DEF DWORD_SIZE
  <2>4. p + (a - to) + 8 <= MAX_HEAP
    BY <1>2, <2>1, <2>3, MemLibAssumption
  <2> QED
    BY <2>2, <2>3, <2>4, WordIs DEF WSIZE
<1>8. w \in Memory
  BY <1>1, <1>4, <1>6, <1>7 DEF Memory, Word
<1>9. \A a \in Words : a < to \/ a >= to + SizeOf(m, to) - DWORD_SIZE => w[a] = m[a]
  <2> SUFFICES ASSUME NEW a \in Words, a < to \/ a >= to + SizeOf(m, to) - DWORD_SIZE PROVE w[a] = m[a]
    OBVIOUS
  <2>1. a \in Nat
    BY WordIs
  <2>2. ~(to <= a /\ a < to + n)
    BY <1>2, <1>3, <1>5, <2>1 DEF DWORD_SIZE
  <2> QED
    BY <1>4, <1>6, <2>2
<1>10. \A a \in Words : to <= a /\ a < to + n => w[a] = m[p + (a - to)]
  BY <1>4, <1>6, <1>7 DEF Word
<1>11. DataOnly(m, w, to)
  BY <1>8, <1>9 DEF DataOnly
<1> QED
  BY <1>3, <1>10, <1>11 DEF m, to, n, w, CopyMade

\* f is the heap after realloc exchanged the block at p of the heap m for the
\* one that r has in addition; w is the heap in which both are still there.
Exchanged(m, B, p, size, r, w, f) ==
  /\ r.bp \in Payloads \ Taken(m, B) /\ CopyMade(r, p, size, w)
  /\ \E C \in SUBSET Payloads : /\ Good(r.mem, r.brk, C) /\ r.bp \in C /\ p \in C
                                /\ Untouched(m, r.mem, Taken(m, B))
                                /\ SizeOf(r.mem, r.bp) >= size + DWORD_SIZE
                                /\ Good(w, r.brk, C) /\ SizeOf(w, r.bp) = SizeOf(r.mem, r.bp)
  /\ \A q \in Taken(m, B) : q < r.bp
  /\ f.brk = r.brk /\ f.health \in {"sound", "astray", "free faults"}
  /\ f.health = "sound" =>
       \E D \in SUBSET Payloads :
         /\ Good(f.mem, r.brk, D) /\ Taken(f.mem, D) = (Taken(m, B) \ {p}) \cup {r.bp}
         /\ Untouched(m, f.mem, Taken(m, B) \ {p}) /\ SameBlock(w, f.mem, r.bp)
         /\ SizeOf(f.mem, r.bp) >= size + DWORD_SIZE

\* A successful realloc.
LEMMA ReallocGives ==
  ASSUME NEW m, NEW brk, NEW B, Good(m, brk, B), NEW p \in Taken(m, B),
         NEW size \in Requests \ {0}, NEW r, Obtained(m, brk, B, r, size), r.bp # NULL
  PROVE  Exchanged(m, B, p, size, r, Moved(r, p, size), coalesce(Moved(r, p, size), r.brk, p))
<1> DEFINE w  == Moved(r, p, size)
           f  == coalesce(w, r.brk, p)
           bp == r.bp
           S  == Taken(m, B)
<1>1. PICK C \in SUBSET Payloads :
        /\ Good(r.mem, r.brk, C) /\ Taken(r.mem, C) = S \cup {bp} /\ bp \in C
        /\ \A q \in S : q < bp /\ SameBlock(m, r.mem, q)
        /\ SizeOf(r.mem, bp) >= size + DWORD_SIZE
  BY DEF Obtained
<1>2. size \in Nat /\ \A q \in B : q \in Nat
  BY ExplicitListAssumption, BlockFacts DEF Good
<1>3. p \in C /\ p # Prologue /\ p \in Nat
  BY <1>1, <1>2 DEF Taken
<1>4. bp \in Nat /\ bp # p /\ bp \notin S
  <2>1. bp \in Nat
    BY <1>1, GoodFacts
  <2> QED
    BY <1>1, <2>1
<1>5. CopyMade(r, p, size, w)
  BY <1>1, <1>2, <1>3, <1>4, MovedGives
<1> HIDE DEF w
<1>6. bp \in Taken(r.mem, C)
  BY <1>1
<1>7. DataOnly(r.mem, w, bp)
  BY <1>5 DEF CopyMade
<1> HIDE DEF bp, S
<1>8. /\ Good(w, r.brk, C) /\ Taken(w, C) = Taken(r.mem, C)
      /\ \A q \in C : q # bp => SameBlock(r.mem, w, q)
      /\ \A q \in C : SizeOf(w, q) = SizeOf(r.mem, q)
  BY <1>1, <1>6, <1>7, DataWritten
<1>9. w \in Memory /\ r.mem \in Memory /\ Tiles(w, r.brk, C) /\ Tied(w, C, p) /\ Tiles(m, brk, B)
  BY <1>1, <1>8, GoodFacts DEF Good, Tied
<1>10. Released(w, r.brk, C, p, r.brk, f)
  BY <1>3, <1>9, CoalesceGives
<1> HIDE DEF f
<1>11. ASSUME NEW q \in S PROVE SameBlock(m, w, q)
  <2>1. q \in B /\ q \in C /\ q # bp
    BY <1>1, <1>4 DEF S, Taken
  <2>2. SameBlock(m, r.mem, q) /\ SameBlock(r.mem, w, q)
    BY <1>1, <1>8, <2>1
  <2> QED
    BY <1>9, <2>1, <2>2, SameBlockTwice
<1>12. ASSUME f.health = "sound"
       PROVE  \E D \in SUBSET Payloads :
                /\ Good(f.mem, r.brk, D) /\ Taken(f.mem, D) = (S \ {p}) \cup {bp}
                /\ Untouched(m, f.mem, S \ {p}) /\ SameBlock(w, f.mem, bp)
                /\ SizeOf(f.mem, bp) >= size + DWORD_SIZE
  <2>1. PICK D \in SUBSET Payloads : Coalesced(w, r.brk, C, p, f, D)
    BY <1>10, <1>12 DEF Released
  <2>2. /\ Good(f.mem, r.brk, D) /\ Taken(f.mem, D) = Taken(w, C) \ {p}
        /\ \A q \in Taken(w, C) \ {p} : SameBlock(w, f.mem, q)
    BY <2>1 DEF Coalesced
  <2>3. Taken(w, C) \ {p} = (S \ {p}) \cup {bp}
    BY <1>1, <1>4, <1>8
  <2>4. SameBlock(w, f.mem, bp)
    BY <2>2, <2>3
  <2>5. Untouched(m, f.mem, S \ {p})
    <3> SUFFICES ASSUME NEW q \in S \ {p} PROVE SameBlock(m, f.mem, q)
      BY DEF Untouched
    <3>1. SameBlock(m, w, q) /\ SameBlock(w, f.mem, q)
      BY <1>11, <2>2, <2>3
    <3>2. q \in B
      BY DEF S, Taken
    <3> QED
      BY <1>9, <3>1, <3>2, SameBlockTwice
  <2>6. SizeOf(f.mem, bp) = SizeOf(w, bp)
    <3>1. f.mem \in Memory
      BY <2>2, GoodFacts
    <3> QED
      BY <1>1, <1>9, <2>4, <3>1, SameBlockFacts
  <2>7. SizeOf(w, bp) = SizeOf(r.mem, bp)
    BY <1>1, <1>8
  <2> QED
    BY <1>1, <2>2, <2>3, <2>4, <2>5, <2>6, <2>7
<1>13. bp \in Payloads \ S /\ Untouched(m, r.mem, S) /\ \A q \in S : q < bp
  BY <1>1, <1>4 DEF Untouched
<1>14. SizeOf(w, bp) = SizeOf(r.mem, bp)
  BY <1>1, <1>8
<1>15. f.brk = r.brk /\ f.health \in {"sound", "astray", "free faults"}
  BY <1>10 DEF Released
<1> QED
  BY <1>1, <1>3, <1>5, <1>8, <1>12, <1>13, <1>14, <1>15 DEF Exchanged, w, f, bp, S

\* mm_init makes a heap in which the program holds nothing.
LEMMA StartKeeps == ASSUME HeapInv, health = "sound", Start PROVE HeapInv'
<1>1. PICK B \in SUBSET Payloads : Good(FreshHeap.mem, FreshHeap.brk, B) /\ Taken(FreshHeap.mem, B) = {}
  BY FreshHeapGives
<1>2. /\ mem' = FreshHeap.mem /\ mem_brk' = FreshHeap.brk /\ health' = "sound"
      /\ heap_listp' = Prologue /\ live' = live
  BY FreshHeapGives DEF Start, Becomes
<1>3. DOMAIN live = {} /\ Typed(live)
  BY DEF Start, HeapInv
<1>4. Owns(live', mem', B) /\ Good(mem', mem_brk', B) /\ Typed(live')
  BY <1>1, <1>2, <1>3 DEF Owns
<1> QED
  BY <1>2, <1>4, HeapLeft

\* malloc adds a block to those the program holds, or changes nothing.
LEMMA MallocKeeps == ASSUME HeapInv, health = "sound", NEW size \in Requests, Malloc(size) PROVE HeapInv'
<1>1. PICK m, brk, x : \E B \in SUBSET Payloads :
        Current = Heap(m, brk, "sound", x) /\ Good(m, brk, B) /\ Owns(live, m, B)
  BY CurrentIs DEF Malloc
<1>2. PICK B \in SUBSET Payloads :
        Current = Heap(m, brk, "sound", x) /\ Good(m, brk, B) /\ Owns(live, m, B)
  BY <1>1
<1>3. heap_listp' = Prologue /\ Typed(live)
  BY DEF Malloc, HeapInv
<1>4. CASE size = 0
  <2>1. mem' = m /\ mem_brk' = brk /\ live' = live /\ health' = "sound"
    BY <1>2, <1>4 DEF Malloc, Becomes, Heap
  <2> QED
    BY <1>2, <1>3, <2>1, HeapLeft
<1>5. CASE size # 0
  <2> DEFINE r == Obtain(Heap(m, brk, "sound", x), size)
  <2>1. /\ mem' = r.mem /\ mem_brk' = r.brk /\ health' = r.health
        /\ live' = IF r.bp = NULL THEN live ELSE Held(DOMAIN live, r.bp, size, 0)
    BY <1>2, <1>5 DEF Malloc, Becomes
  <2>2. Obtained(m, brk, B, r, size)
    BY <1>2, ObtainGives
  <2> HIDE DEF r
  <2>3. CASE r.bp = NULL /\ r.health = "malloc faults" /\ ~(2 * AdjustedSize(size) <= CHUNKSIZE)
    BY <2>1, <2>3, MallocFaulted
  <2>4. CASE r.bp = NULL /\ r.health = "sound" /\ r.mem = m /\ r.brk = brk
    <3>1. mem' = m /\ mem_brk' = brk /\ live' = live /\ health' = "sound"
      BY <2>1, <2>4
    <3> QED
      BY <1>2, <1>3, <3>1, HeapLeft
  <2>5. CASE r.bp # NULL
    <3> DEFINE bp == r.bp
    <3>1. PICK C \in SUBSET Payloads :
            /\ Good(r.mem, r.brk, C) /\ Taken(r.mem, C) = Taken(m, B) \cup {bp} /\ bp \in C
            /\ \A q \in Taken(m, B) : q < bp /\ SameBlock(m, r.mem, q)
            /\ SizeOf(r.mem, bp) >= size + DWORD_SIZE
      BY <2>2, <2>5 DEF Obtained
    <3>2. size \in Requests \ {0} /\ size \in Nat /\ 0 \in Nat /\ WSIZE * 0 <= size /\ bp \in Payloads
      BY <1>5, <3>1, ExplicitListAssumption DEF WSIZE
    <3>3. Taken(m, B) = DOMAIN live
      BY <1>2 DEF Owns
    <3>4. bp \notin DOMAIN live
      <4>1. bp \in Nat
        BY <3>1, GoodFacts
      <4> QED
        BY <3>1, <3>3, <4>1
    <3> DEFINE L == Held(DOMAIN live, bp, size, 0)
    <3> HIDE DEF bp
    <3>5. /\ Typed(L) /\ DOMAIN L = DOMAIN live \cup {bp} /\ L[bp].bytes = size
          /\ \A q \in DOMAIN live \ {bp} : L[q] = live[q]
      <4>1. DOMAIN live \in SUBSET DOMAIN live
        OBVIOUS
      <4>2. Typed(L)
        BY <1>3, <3>2, <4>1, HeldFacts
      <4>3. L = [q \in DOMAIN live \cup {bp} |->
                   IF q = bp THEN [bytes |-> size, known |-> 0] ELSE live[q]]
        BY DEF Held
      <4> HIDE DEF L
      <4> QED
        BY <4>2, <4>3
    <3>6. live' = L /\ health' = "sound"
      BY <2>1, <2>2, <2>5 DEF bp, Obtained
    <3> HIDE DEF L
    <3>7. \A q \in DOMAIN live : SizeOf(r.mem, q) = SizeOf(m, q)
      <4> SUFFICES ASSUME NEW q \in Taken(m, B) PROVE SizeOf(r.mem, q) = SizeOf(m, q)
        BY <3>3
      <4>1. q \in B /\ Tiles(m, brk, B) /\ r.mem \in Memory /\ SameBlock(m, r.mem, q)
        BY <1>2, <3>1, GoodFacts DEF Good, Taken
      <4> QED
        BY <4>1, SameBlockFacts
    <3>8. Owns(L, r.mem, C)
      <4>1. Owns(live, m, B) /\ DOMAIN live \in SUBSET DOMAIN live
        BY <1>2
      <4>2. Good(r.mem, r.brk, C) /\ Taken(r.mem, C) = DOMAIN live \cup {bp}
        BY <3>1, <3>3 DEF bp
      <4>3. SizeOf(r.mem, bp) >= size + DWORD_SIZE
        BY <3>1 DEF bp
      <4> QED
        BY <3>2, <3>4, <3>5, <3>7, <4>1, <4>2, <4>3, OwnsAfter
    <3> QED
      BY <1>3, <2>1, <3>1, <3>5, <3>6, <3>8, HeapLeft
  <2> QED
    BY <2>2, <2>3, <2>4, <2>5 DEF Obtained
<1> QED
  BY <1>4, <1>5

\* What the program holds lies in a heap.
LEMMA HoldingSays ==
  ASSUME HeapInv, health = "sound", DOMAIN live # {}
  PROVE  /\ mem_brk > 0 /\ heap_listp = Prologue /\ Typed(live) /\ mem \in Memory
         /\ \E B \in SUBSET Payloads :
              Good(mem, mem_brk, B) /\ Owns(live, mem, B) /\ Taken(mem, B) = DOMAIN live
<1>1. /\ mem_brk \in Nat /\ mem_brk # 0 /\ mem \in Memory /\ Typed(live)
      /\ heap_listp # NULL /\ heap_listp \in {NULL, Prologue}
  BY DEF HeapInv
<1>2. mem_brk > 0
  BY <1>1
<1>3. PICK B \in SUBSET Payloads : Good(mem, mem_brk, B) /\ Owns(live, mem, B)
  BY <1>2 DEF HeapInv
<1> QED
  BY <1>1, <1>2, <1>3 DEF Owns

\* What coalesce makes of the heap when the program frees the block at p.
LEMMA FreeGives ==
  ASSUME NEW B, Good(mem, mem_brk, B), NEW p \in Taken(mem, B), Free(p)
  PROVE  /\ mem_brk' = mem_brk /\ health' \in {"sound", "astray", "free faults"}
         /\ health' = "sound" <=> FreeIsSound(mem, p)
         /\ health' = "sound" =>
              \E C \in SUBSET Payloads :
                /\ Good(mem', mem_brk, C) /\ Taken(mem', C) = Taken(mem, B) \ {p}
                /\ Untouched(mem, mem', Taken(mem, B) \ {p})
<1> DEFINE f == coalesce(mem, mem_brk, p)
<1>1. mem' = f.mem /\ mem_brk' = f.brk /\ health' = f.health
  BY DEF Free, Becomes
<1>2. Tiles(mem, mem_brk, B) /\ p \in B /\ p # Prologue /\ Tied(mem, B, p)
  <2>1. Tiles(mem, mem_brk, B) /\ Tied(mem, B, NULL) /\ p \in B /\ p # Prologue
    BY DEF Good, Taken
  <2>2. \A q \in B : q # NULL
    BY GoodFacts
  <2> QED
    BY <2>1, <2>2 DEF Tied
<1>3. Released(mem, mem_brk, B, p, mem_brk, f)
  BY <1>2, CoalesceGives
<1> HIDE DEF f
<1>4. ASSUME f.health = "sound"
      PROVE  \E C \in SUBSET Payloads :
                /\ Good(mem', mem_brk, C) /\ Taken(mem', C) = Taken(mem, B) \ {p}
                /\ Untouched(mem, mem', Taken(mem, B) \ {p})
  BY <1>1, <1>3, <1>4 DEF Released, Coalesced, Untouched
<1> QED
  BY <1>1, <1>3, <1>4 DEF Released

\* free takes a block from those the program holds.
LEMMA FreeKeeps ==
  ASSUME HeapInv, health = "sound", NEW p \in DOMAIN live, Free(p)
  PROVE  HeapInv'
<1> DEFINE L == [q \in DOMAIN live \ {p} |-> live[q]]
<1>1. live' = L /\ heap_listp' = heap_listp
  BY DEF Free
<1>2. mem_brk > 0 /\ heap_listp = Prologue /\ Typed(live)
  BY HoldingSays
<1>3. PICK B \in SUBSET Payloads :
        Good(mem, mem_brk, B) /\ Owns(live, mem, B) /\ Taken(mem, B) = DOMAIN live
  BY HoldingSays
<1>4. /\ mem_brk' = mem_brk /\ health' \in {"sound", "astray", "free faults"}
      /\ health' = "sound" =>
           \E C \in SUBSET Payloads :
             /\ Good(mem', mem_brk, C) /\ Taken(mem', C) = Taken(mem, B) \ {p}
             /\ Untouched(mem, mem', Taken(mem, B) \ {p})
  BY <1>3, FreeGives
<1>5. DOMAIN L = DOMAIN live \ {p} /\ \A q \in DOMAIN L : L[q] = live[q]
  OBVIOUS
<1>6. Typed(L)
  BY <1>2 DEF Typed
<1> HIDE DEF L
<1>7. CASE health' = "sound"
  <2>1. PICK C \in SUBSET Payloads :
             /\ Good(mem', mem_brk, C) /\ Taken(mem', C) = Taken(mem, B) \ {p}
             /\ Untouched(mem, mem', Taken(mem, B) \ {p})
    BY <1>4, <1>7
  <2>2. ASSUME NEW q \in DOMAIN L PROVE SizeOf(mem', q) = SizeOf(mem, q)
    <3>1. q \in Taken(mem, B) \ {p} /\ q \in B /\ Tiles(mem, mem_brk, B)
      BY <1>3, <1>5 DEF Good, Taken
    <3>2. SameBlock(mem, mem', q) /\ mem' \in Memory
      BY <2>1, <3>1, GoodFacts DEF Untouched
    <3> QED
      BY <3>1, <3>2, SameBlockFacts
  <2>3. Owns(L, mem', C)
    BY <1>3, <1>5, <2>1, <2>2 DEF Owns
  <2> QED
    BY <1>1, <1>2, <1>4, <1>6, <1>7, <2>1, <2>3, HeapLeft
<1>8. CASE health' # "sound"
  BY <1>4, <1>8, Astray
<1> QED
  BY <1>7, <1>8

\* What Realloc says: nothing was obtained, or blocks were exchanged.
LEMMA ReallocSays ==
  ASSUME HeapInv, health = "sound", NEW p \in DOMAIN live, NEW size \in Requests, Realloc(p, size),
         NEW B, Good(mem, mem_brk, B), Taken(mem, B) = DOMAIN live
  PROVE  \/ /\ health' = "sound" /\ mem' = mem /\ mem_brk' = mem_brk /\ live' = live
         \/ /\ health' = "malloc faults" /\ ~(2 * AdjustedSize(size) <= CHUNKSIZE) /\ live' = live
         \/ \E r, w, f :
              /\ Exchanged(mem, B, p, size, r, w, f)
              /\ mem' = f.mem /\ mem_brk' = f.brk /\ health' = f.health
              /\ live' = Held(DOMAIN live \ {p}, r.bp, size, Fewest({live[p].known, size \div WSIZE}))
<1> DEFINE r == Obtain(Heap(mem, mem_brk, "sound", NULL), size)
           w == Moved(r, p, size)
           f == coalesce(w, r.brk, p)
           L == Held(DOMAIN live \ {p}, r.bp, size, Fewest({live[p].known, size \div WSIZE}))
<1>1. size \in Requests \ {0}
  BY ExplicitListAssumption DEF Realloc
<1>2. Obtained(mem, mem_brk, B, r, size)
  BY <1>1, ObtainGives
<1>3. IF r.bp = NULL THEN mem' = r.mem /\ mem_brk' = r.brk /\ health' = r.health /\ live' = live
      ELSE mem' = f.mem /\ mem_brk' = f.brk /\ health' = f.health /\ live' = L
  BY DEF Realloc, Becomes, Moved, Carried
<1> HIDE DEF r
<1>4. CASE r.bp = NULL
  BY <1>2, <1>3, <1>4 DEF Obtained
<1>5. CASE r.bp # NULL
  <2>1. Exchanged(mem, B, p, size, r, w, f)
    BY <1>1, <1>2, <1>5, ReallocGives
  <2>2. mem' = f.mem /\ mem_brk' = f.brk /\ health' = f.health /\ live' = L
    BY <1>3, <1>5
  <2> HIDE DEF w, f
  <2> QED
    BY <2>1, <2>2
<1> QED
  BY <1>4, <1>5

\* realloc exchanges a block for another one, or changes nothing.
LEMMA ReallocKeeps ==
  ASSUME HeapInv, health = "sound", NEW p \in DOMAIN live, NEW size \in Requests, Realloc(p, size)
  PROVE  HeapInv'
<1>1. mem_brk > 0 /\ heap_listp = Prologue /\ Typed(live) /\ heap_listp' = Prologue
  BY HoldingSays DEF Realloc
<1>2. PICK B \in SUBSET Payloads :
        Good(mem, mem_brk, B) /\ Owns(live, mem, B) /\ Taken(mem, B) = DOMAIN live
  BY HoldingSays
<1>3. size \in Nat /\ size > 0 /\ size \in Requests \ {0}
  BY ExplicitListAssumption DEF Realloc
<1>4. CASE health' = "sound" /\ mem' = mem /\ mem_brk' = mem_brk /\ live' = live
  BY <1>1, <1>2, <1>4, HeapLeft
<1>5. CASE health' = "malloc faults" /\ ~(2 * AdjustedSize(size) <= CHUNKSIZE)
  BY <1>5, MallocFaulted
<1>6. ASSUME NEW r, NEW w, NEW f, Exchanged(mem, B, p, size, r, w, f),
             mem' = f.mem, mem_brk' = f.brk, health' = f.health,
             live' = Held(DOMAIN live \ {p}, r.bp, size, Fewest({live[p].known, size \div WSIZE}))
      PROVE  HeapInv'
  <2> DEFINE S     == DOMAIN live \ {p}
             bp    == r.bp
             known == Fewest({live[p].known, size \div WSIZE})
  <2>1. /\ bp \in Payloads /\ bp \notin DOMAIN live /\ f.brk = r.brk
        /\ f.health \in {"sound", "astray", "free faults"}
    BY <1>2, <1>6 DEF Exchanged
  <2>2. CASE f.health # "sound"
    BY <1>6, <2>1, <2>2, Astray
  <2>3. CASE f.health = "sound"
    <3>1. PICK D \in SUBSET Payloads :
            /\ Good(f.mem, r.brk, D) /\ Taken(f.mem, D) = S \cup {bp}
            /\ Untouched(mem, f.mem, S) /\ SizeOf(f.mem, bp) >= size + DWORD_SIZE
      BY <1>2, <1>6, <2>3 DEF Exchanged
    <3>2. known \in Nat /\ WSIZE * known <= size
      <4>1. live[p].known \in Nat
        BY <1>1 DEF Typed, Block
      <4>2. size \div WSIZE \in Nat /\ WSIZE * (size \div WSIZE) <= size
        BY <1>3 DEF WSIZE
      <4>3. known \in Nat /\ known <= size \div WSIZE
        BY <4>1, <4>2, SmallerIs
      <4> HIDE DEF known
      <4> QED
        BY <1>3, <4>2, <4>3 DEF WSIZE
    <3>3. S \in SUBSET DOMAIN live /\ bp \notin S
      BY <2>1
    <3>4. live' = Held(S, bp, size, known)
      BY <1>6
    <3>5. ASSUME NEW q \in S PROVE SizeOf(f.mem, q) = SizeOf(mem, q)
      <4>1. q \in B /\ Tiles(mem, mem_brk, B)
        BY <1>2 DEF Good, Taken
      <4>2. SameBlock(mem, f.mem, q) /\ f.mem \in Memory
        BY <3>1, GoodFacts DEF Untouched
      <4> QED
        BY <4>1, <4>2, SameBlockFacts
    <3> HIDE DEF S, bp, known
    <3>6. Typed(Held(S, bp, size, known))
      BY <1>1, <1>3, <2>1, <3>2, <3>3, HeldFacts
    <3>7. LET H == Held(S, bp, size, known) IN
            /\ Typed(H) /\ DOMAIN H = S \cup {bp} /\ H[bp].bytes = size
            /\ \A q \in S \ {bp} : H[q] = live[q]
      BY <3>6 DEF Held
    <3> DEFINE H == Held(S, bp, size, known)
    <3>8. /\ Typed(H) /\ DOMAIN H = S \cup {bp} /\ H[bp].bytes = size
          /\ \A q \in S \ {bp} : H[q] = live[q]
      BY <3>7
    <3> HIDE DEF H
    <3>9. Owns(H, f.mem, D)
      <4>1. Owns(live, mem, B) /\ S \in SUBSET DOMAIN live /\ bp \notin S /\ size \in Nat
        BY <1>2, <1>3, <3>3
      <4>2. Good(f.mem, r.brk, D) /\ Taken(f.mem, D) = S \cup {bp} /\ SizeOf(f.mem, bp) >= size + DWORD_SIZE
        BY <3>1
      <4> QED
        BY <3>5, <3>8, <4>1, <4>2, OwnsAfter
    <3>10. live' = H
      BY <3>4 DEF H
    <3> QED
      BY <1>1, <1>6, <2>1, <2>3, <3>1, <3>8, <3>9, <3>10, HeapLeft
  <2> QED
    BY <2>2, <2>3
<1> QED
  BY <1>2, <1>4, <1>5, <1>6, ReallocSays

\* Writing to a block touches no tag.
LEMMA FillGives ==
  ASSUME HeapInv, health = "sound", NEW p \in DOMAIN live, NEW v \in {NULL} \cup DOMAIN live, Fill(p, v),
         NEW B, Good(mem, mem_brk, B), Owns(live, mem, B)
  PROVE  /\ Good(mem', mem_brk, B) /\ Taken(mem', B) = Taken(mem, B)
         /\ \A q \in B : q # p => SameBlock(mem, mem', q)
         /\ \A q \in B : SizeOf(mem', q) = SizeOf(mem, q)
<1>1. Typed(live) /\ mem \in Memory
  BY HoldingSays
<1>2. p \in Taken(mem, B) /\ p \in B /\ live[p].bytes + DWORD_SIZE <= SizeOf(mem, p) /\ live[p] \in Block
  BY <1>1 DEF Owns, Taken, Typed
<1>3. p \in Nat /\ SizeOf(mem, p) \in Nat /\ live[p].bytes \in Nat
  <2>1. p \in Nat /\ SizeOf(mem, p) \in Nat
    BY <1>2, BlockFacts DEF Good
  <2> QED
    BY <1>2, <2>1, ExplicitListAssumption DEF Block
<1>4. Link(v) \in TagSet
  <2>1. v \in Nat
    <3>1. v = 0 \/ v \in Payloads
      BY <1>1 DEF Typed, NULL
    <3> QED
      BY <3>1, PayloadIs
  <2> QED
    BY <2>1, LinkIs
<1> DEFINE m2 == mem'
<1>5. m2 = [a \in Words |-> IF a \in p .. p + live[p].bytes - 1 THEN Link(v) ELSE mem[a]]
  BY DEF Fill
<1> HIDE DEF m2
<1>6. m2 \in Memory
  BY <1>1, <1>4, <1>5 DEF Memory
<1>7. \A a \in Words : a < p \/ a >= p + SizeOf(mem, p) - DWORD_SIZE => m2[a] = mem[a]
  <2> SUFFICES ASSUME NEW a \in Words, a < p \/ a >= p + SizeOf(mem, p) - DWORD_SIZE
               PROVE  m2[a] = mem[a]
    OBVIOUS
  <2>1. a \in Nat
    BY WordIs
  <2>2. a \notin p .. p + live[p].bytes - 1
    BY <1>2, <1>3, <2>1 DEF DWORD_SIZE
  <2> QED
    BY <1>5, <2>2
<1>8. DataOnly(mem, m2, p)
  BY <1>6, <1>7 DEF DataOnly
<1>9. /\ Good(m2, mem_brk, B) /\ Taken(m2, B) = Taken(mem, B)
      /\ \A q \in B : q # p => SameBlock(mem, m2, q)
      /\ \A q \in B : SizeOf(m2, q) = SizeOf(mem, q)
  BY <1>2, <1>8, DataWritten
<1> QED
  BY <1>9 DEF m2

\* The program's record of a block it has written.
LEMMA FillHolds ==
  ASSUME Typed(live), NEW p \in DOMAIN live, NEW v, Fill(p, v)
  PROVE  /\ Typed(live') /\ DOMAIN live' = DOMAIN live
         /\ live'[p] = [bytes |-> live[p].bytes, known |-> live[p].bytes \div WSIZE]
         /\ \A q \in DOMAIN live \ {p} : live'[q] = live[q]
         /\ \A q \in DOMAIN live : live'[q].bytes = live[q].bytes
<1> DEFINE known == live[p].bytes \div WSIZE
           b     == [live[p] EXCEPT !.known = known]
<1>1. /\ live \in [DOMAIN live -> Block] /\ DOMAIN live \subseteq Payloads
      /\ \A q \in DOMAIN live : WSIZE * live[q].known <= live[q].bytes
  BY DEF Typed
<1>2. live' = [live EXCEPT ![p] = b]
  BY DEF Fill
<1>3. live[p] \in Block
  BY <1>1
<1>4. live[p].bytes \in Nat
  BY <1>3, ExplicitListAssumption DEF Block
<1>5. known \in Nat /\ WSIZE * known <= live[p].bytes
  BY <1>4 DEF WSIZE
<1>6. b \in Block /\ b = [bytes |-> live[p].bytes, known |-> known]
  <2> HIDE DEF known
  <2> QED
    BY <1>3, <1>5 DEF Block
<1> HIDE DEF b, known
<1>7. b.bytes = live[p].bytes /\ b.known = known
  BY <1>6
<1>8. /\ DOMAIN live' = DOMAIN live /\ live'[p] = b
      /\ \A q \in DOMAIN live \ {p} : live'[q] = live[q]
      /\ live' \in [DOMAIN live -> Block]
  BY <1>1, <1>2, <1>6
<1>9. \A q \in DOMAIN live : live'[q].bytes = live[q].bytes /\ WSIZE * live'[q].known <= live'[q].bytes
  BY <1>1, <1>5, <1>7, <1>8
<1>10. Typed(live')
  BY <1>1, <1>8, <1>9 DEF Typed
<1> QED
  BY <1>6, <1>8, <1>9, <1>10 DEF known

\* Writing to a block keeps the heap.
LEMMA FillKeeps ==
  ASSUME HeapInv, health = "sound", NEW p \in DOMAIN live, NEW v \in {NULL} \cup DOMAIN live, Fill(p, v)
  PROVE  HeapInv'
<1>1. mem_brk > 0 /\ heap_listp = Prologue /\ Typed(live)
  BY HoldingSays
<1>2. heap_listp' = Prologue /\ mem_brk' = mem_brk /\ health' = "sound"
  BY <1>1 DEF Fill
<1>3. PICK B \in SUBSET Payloads :
        Good(mem, mem_brk, B) /\ Owns(live, mem, B) /\ Taken(mem, B) = DOMAIN live
  BY HoldingSays
<1>4. /\ Good(mem', mem_brk, B) /\ Taken(mem', B) = Taken(mem, B)
      /\ \A q \in B : SizeOf(mem', q) = SizeOf(mem, q)
  BY <1>3, FillGives
<1>5. /\ Typed(live') /\ DOMAIN live' = DOMAIN live
      /\ \A q \in DOMAIN live : live'[q].bytes = live[q].bytes
  BY <1>1, FillHolds
<1>6. Owns(live', mem', B)
  BY <1>3, <1>4, <1>5 DEF Owns, Taken
<1> QED
  BY <1>2, <1>4, <1>5, <1>6, HeapLeft

\* No word is written.
LEMMA ZeroMemory == [a \in Words |-> Tag(0, 0)] \in Memory
<1>1. Tag(0, 0) \in TagSet
  BY TagIs
<1> QED
  BY <1>1 DEF Memory

\* mm_deinit leaves nothing.
LEMMA StopKeeps == ASSUME HeapInv, health = "sound", Stop PROVE HeapInv'
<1>1. /\ mem' \in Memory /\ mem_brk' = 0 /\ live' = <<>> /\ heap_listp' = heap_listp
      /\ health' = "sound"
  BY ZeroMemory DEF Stop
<1>2. Typed(live') /\ DOMAIN live' = {}
  BY <1>1 DEF Typed
<1>3. heap_listp \in {NULL, Prologue}
  BY DEF HeapInv
<1>4. mem_brk' \in Nat /\ ~(mem_brk' > 0) /\ heap_listp' \in {NULL, Prologue} /\ health' \in HealthSet
  BY <1>1, <1>3 DEF HealthSet
<1> QED
  BY <1>1, <1>2, <1>4 DEF HeapInv

\* Before the first call there is no heap.
LEMMA InitHeapInv == Init => HeapInv
<1> SUFFICES ASSUME Init PROVE HeapInv
  OBVIOUS
<1>1. mem \in Memory /\ mem_brk = 0 /\ live = <<>> /\ heap_listp = NULL /\ health = "sound"
  BY ZeroMemory DEF Init
<1>2. Typed(live) /\ DOMAIN live = {}
  BY <1>1 DEF Typed
<1>3. mem_brk \in Nat /\ ~(mem_brk > 0) /\ heap_listp \in {NULL, Prologue} /\ health \in HealthSet
  BY <1>1 DEF HealthSet
<1> QED
  BY <1>1, <1>2, <1>3 DEF HeapInv

\* Every call keeps the invariant.
LEMMA NextHeapInv == HeapInv /\ [Next]_vars => HeapInv'
<1> SUFFICES ASSUME HeapInv, [Next]_vars PROVE HeapInv'
  OBVIOUS
<1>1. CASE UNCHANGED vars
  BY <1>1 DEF vars, HeapInv
<1>2. CASE health = "sound" /\ Call
  <2>1. CASE Start
    BY <1>2, <2>1, StartKeeps
  <2>2. CASE Stop
    BY <1>2, <2>2, StopKeeps
  <2>3. ASSUME NEW size \in Requests, Malloc(size) PROVE HeapInv'
    BY <1>2, <2>3, MallocKeeps
  <2>4. ASSUME NEW p \in DOMAIN live, Free(p) PROVE HeapInv'
    BY <1>2, <2>4, FreeKeeps
  <2>5. ASSUME NEW p \in DOMAIN live, NEW size \in Requests, Realloc(p, size) PROVE HeapInv'
    BY <1>2, <2>5, ReallocKeeps
  <2>6. ASSUME NEW p \in DOMAIN live, NEW v \in {NULL} \cup DOMAIN live, Fill(p, v) PROVE HeapInv'
    BY <1>2, <2>6, FillKeeps
  <2> QED
    BY <1>2, <2>1, <2>2, <2>3, <2>4, <2>5, <2>6 DEF Call
<1> QED
  BY <1>1, <1>2 DEF Next

\* The invariant holds in every behaviour.
LEMMA HeapInvariance == Spec => []HeapInv
  BY InitHeapInv, NextHeapInv, PTL DEF Spec
-----------------------------------------------------------------------------
(* What the properties say of the blocks.                                  *)

\* The blocks of the properties are those of the invariant.
LEMMA BlocksAre ==
  ASSUME NEW B, Good(mem, mem_brk, B)
  PROVE  Blocks = B \ {Prologue} /\ Walk(mem)[MaxBlocks] = mem_brk
<1> DEFINE at == Walk(mem)
<1>1. Tiles(mem, mem_brk, B)
  BY DEF Good
<1>2. /\ DOMAIN at = 0 .. MaxBlocks /\ MaxBlocks \in Nat /\ at[MaxBlocks] = mem_brk
      /\ \A k \in 1 .. MaxBlocks : at[k] \in (B \ {Prologue}) \cup {mem_brk}
      /\ \A p \in B \ {Prologue} : \E k \in 1 .. MaxBlocks : at[k] = p
  BY <1>1, WalkVisits
<1>3. mem_brk \notin B
  BY <1>1, EpilogueSays
<1>4. Blocks = {at[k] : k \in DOMAIN at \ {0}} \ {mem_brk}
  BY DEF Blocks
<1> HIDE DEF at
<1>5. \A k : k \in DOMAIN at \ {0} <=> k \in 1 .. MaxBlocks
  BY <1>2
<1>6. \A p \in Blocks : p \in B \ {Prologue}
  BY <1>2, <1>4, <1>5
<1>7. \A p \in B \ {Prologue} : p \in Blocks
  BY <1>2, <1>3, <1>4, <1>5
<1> QED
  BY <1>2, <1>6, <1>7 DEF at

\* The invariant says what the properties say.
LEMMA HeapInvSays == HeapInv => HeapTiled /\ HeldBlocks /\ LinkedToThemselves /\ SmallRequestsServed
<1> SUFFICES ASSUME HeapInv
             PROVE  HeapTiled /\ HeldBlocks /\ LinkedToThemselves /\ SmallRequestsServed
  OBVIOUS
<1>1. SmallRequestsServed
  BY DEF HeapInv, SmallRequestsServed
<1>2. ASSUME Sound
      PROVE  HeapTiled /\ HeldBlocks /\ LinkedToThemselves
  <2>1. PICK B \in SUBSET Payloads : Good(mem, mem_brk, B) /\ Owns(live, mem, B) /\ Typed(live)
    BY <1>2 DEF HeapInv, Sound
  <2>2. Tiles(mem, mem_brk, B) /\ Tied(mem, B, NULL)
    BY <2>1 DEF Good
  <2>3. Blocks = B \ {Prologue} /\ Walk(mem)[MaxBlocks] = mem_brk
    BY <2>1, BlocksAre
  <2>4. \A p : HeaderBit(p) = Alloc(mem, p) /\ FooterBit(p) = FAlloc(mem, p)
    BY DEF HeaderBit, FooterBit, Alloc, FAlloc
  <2>5. HeapTiled
    <3>1. mem[WSIZE] = Tag(2 * DWORD_SIZE, 1) /\ mem[4 * WSIZE] = Tag(2 * DWORD_SIZE, 1)
      BY <2>2 DEF Tiles, MIN_BLOCK_SIZE, DWORD_SIZE
    <3>2. mem[header(mem_brk)] = Tag(0, 1)
      BY <2>2 DEF Tiles, header
    <3>3. \A p \in Blocks : /\ SizeOf(mem, p) >= 2 * DWORD_SIZE
                            /\ Word(mem, footer(mem, p)).size = SizeOf(mem, p)
      BY <2>2, <2>3 DEF Tiles, BlockShape, Tagged, MIN_BLOCK_SIZE, DWORD_SIZE
    <3> QED
      BY <2>3, <3>1, <3>2, <3>3 DEF HeapTiled
  <2>6. HeldBlocks
    <3>1. {p \in Blocks : HeaderBit(p) = 1 /\ FooterBit(p) = 1} = DOMAIN live
      BY <2>1, <2>3, <2>4 DEF Owns, Taken
    <3>2. \A p \in DOMAIN live : live[p].bytes <= SizeOf(mem, p) - DWORD_SIZE
      <4> SUFFICES ASSUME NEW p \in DOMAIN live PROVE live[p].bytes <= SizeOf(mem, p) - DWORD_SIZE
        OBVIOUS
      <4>1. p \in B /\ live[p].bytes + DWORD_SIZE <= SizeOf(mem, p) /\ live[p] \in Block
        BY <2>1 DEF Owns, Taken, Typed
      <4>2. live[p].bytes \in Nat
        BY <4>1, ExplicitListAssumption DEF Block
      <4>3. SizeOf(mem, p) \in Nat
        BY <2>2, <4>1, BlockFacts
      <4> QED
        BY <4>1, <4>2, <4>3 DEF DWORD_SIZE
    <3> QED
      BY <3>1, <3>2 DEF HeldBlocks
  <2>7. LinkedToThemselves
    <3> SUFFICES ASSUME NEW p \in {Prologue} \cup {b \in Blocks : HeaderBit(b) = 0}
                 PROVE  Word(mem, p) = Link(header(p)) /\ Word(mem, p + WSIZE) = Link(header(p))
      BY DEF LinkedToThemselves
    <3>1. p \in B /\ (p = Prologue \/ Alloc(mem, p) = 0)
      BY <2>2, <2>3, <2>4 DEF Tiles
    <3>2. p # NULL
      BY <2>1, <3>1, GoodFacts
    <3> QED
      BY <2>2, <3>1, <3>2 DEF Tied, SelfTied
  <2> QED
    BY <2>5, <2>6, <2>7
<1> QED
  BY <1>1, <1>2 DEF HeapTiled, HeldBlocks, LinkedToThemselves

\* For every arena, chunk size, list of requests and sequence of calls, until a
\* link goes astray or a call faults, the heap is a chain of blocks with equal
\* sizes at both ends that ends exactly at the break (mm.c:598-683).
THEOREM HeapStaysTiled == Spec => []HeapTiled
  BY HeapInvSays, HeapInvariance, PTL

\* For every arena, chunk size, list of requests and sequence of calls, until a
\* link goes astray or a call faults, the program holds exactly the blocks that
\* are allocated at both ends, each with room for its request (mm.c:278-417).
THEOREM HeldBlocksAllocated == Spec => []HeldBlocks
  BY HeapInvSays, HeapInvariance, PTL

\* For every arena, chunk size, list of requests and sequence of calls, until a
\* link goes astray or a call faults, the list of the prologue holds nothing
\* but the prologue, and every block with a free header is a list of its own:
\* coalesce links no free block where find_fit could find it
\* (mm.c:104-134, 549-560).
THEOREM ListStaysEmpty == Spec => []LinkedToThemselves
  BY HeapInvSays, HeapInvariance, PTL

\* For every arena, chunk size and sequence of calls, no request is given a
\* block that is too small for it, if with its tags it takes up to half a
\* chunk (mm.c:325-329, 515).
THEOREM HalfChunkSuffices == Spec => []SmallRequestsServed
  BY HeapInvSays, HeapInvariance, PTL
-----------------------------------------------------------------------------
(* What can go wrong with mm_free.                                         *)

\* For every arena, chunk size, list of requests and sequence of calls: mm_free
\* goes wrong exactly if it takes a word of the program for a link and that
\* word leads elsewhere (mm.c:104-134, 355-407).
THEOREM FreeFollowsOwnLinks == Spec => FreeSoundUnlessLinkIsData
<1> DEFINE Says == \A p \in DOMAIN live : Free(p) =>
                     (health' = "sound" <=> \/ PrevFree(mem, p) \/ ~NextFree(mem, p)
                                            \/ fnext(mem, p) \in {header(p), header(next_payload(mem, p))})
<1>1. HeapInv /\ [Next]_vars => [Says]_vars
  <2> SUFFICES ASSUME HeapInv, Next, NEW p \in DOMAIN live, Free(p)
               PROVE  health' = "sound" <=> FreeIsSound(mem, p)
    BY DEF FreeIsSound
  <2>1. health = "sound"
    BY DEF Next
  <2>2. PICK B \in SUBSET Payloads : Good(mem, mem_brk, B) /\ Taken(mem, B) = DOMAIN live
    BY <2>1, HoldingSays
  <2> QED
    BY <2>2, FreeGives
<1> QED
  BY <1>1, HeapInvariance, PTL DEF Spec, FreeSoundUnlessLinkIsData
-----------------------------------------------------------------------------
(* The promise of malloc, free and realloc.                                *)

\* What the program knows of the block at p, and of all it holds.
Known(L, m, p) ==
  [bytes |-> L[p].bytes, data |-> [k \in 1 .. L[p].known |-> m[p + WSIZE * (k - 1)]]]
View(L, m) == [p \in DOMAIN L |-> Known(L, m, p)]

\* Blocks inside the arena that do not overlap.
Apart(L) ==
  \A p \in DOMAIN L :
    /\ p \in Payloads /\ p + L[p].bytes <= MAX_HEAP
    /\ \A q \in DOMAIN L \ {p} : p + L[p].bytes <= q \/ q + L[q].bytes <= p

\* What the program holds lies inside the blocks of the heap.
LEMMA HeldApart ==
  ASSUME NEW m, NEW brk, NEW B, Good(m, brk, B), NEW L, Owns(L, m, B), Typed(L)
  PROVE  Apart(L)
<1>1. /\ Tiles(m, brk, B) /\ DOMAIN L \subseteq B
      /\ \A p \in DOMAIN L : L[p].bytes + DWORD_SIZE <= SizeOf(m, p) /\ L[p].bytes \in Nat
  <2>1. \A p \in DOMAIN L : L[p] \in Block
    BY DEF Typed
  <2>2. \A p \in DOMAIN L : L[p].bytes \in Nat
    BY <2>1, ExplicitListAssumption DEF Block
  <2> QED
    BY <2>2 DEF Good, Owns, Taken
<1>2. \A p \in B : p \in Nat /\ p \in Payloads /\ p + SizeOf(m, p) <= brk /\ SizeOf(m, p) \in Nat
  BY <1>1, BlockFacts
<1>3. brk \in Nat /\ brk <= MAX_HEAP /\ MAX_HEAP \in Nat
  BY GoodFacts, PayloadIs, MemLibAssumption
<1>4. \A p, q \in B : p < q => p + SizeOf(m, p) <= q
  BY <1>1 DEF Tiles
<1>5. ASSUME NEW p \in DOMAIN L PROVE p \in Payloads /\ p + L[p].bytes <= MAX_HEAP
  BY <1>1, <1>2, <1>3 DEF DWORD_SIZE
<1>6. ASSUME NEW p \in DOMAIN L, NEW q \in DOMAIN L \ {p}
      PROVE  p + L[p].bytes <= q \/ q + L[q].bytes <= p
  <2>1. /\ p \in B /\ q \in B /\ p \in Nat /\ q \in Nat /\ p # q
        /\ SizeOf(m, p) \in Nat /\ SizeOf(m, q) \in Nat
        /\ L[p].bytes \in Nat /\ L[q].bytes \in Nat
        /\ L[p].bytes + DWORD_SIZE <= SizeOf(m, p) /\ L[q].bytes + DWORD_SIZE <= SizeOf(m, q)
    BY <1>1, <1>2
  <2>2. p < q \/ q < p
    BY <2>1
  <2>3. p < q => p + SizeOf(m, p) <= q
    BY <1>4, <2>1
  <2>4. q < p => q + SizeOf(m, q) <= p
    BY <1>4, <2>1
  <2> QED
    BY <2>1, <2>2, <2>3, <2>4 DEF DWORD_SIZE
<1> QED
  BY <1>5, <1>6 DEF Apart

\* The words the program knows lie between the tags of its blocks.
LEMMA KnownWords ==
  ASSUME NEW m, NEW brk, NEW B, Good(m, brk, B), NEW L, Owns(L, m, B), Typed(L),
         NEW p \in DOMAIN L, NEW k \in 1 .. L[p].known
  PROVE  LET a == p + WSIZE * (k - 1) IN
         /\ a \in Words /\ p - WSIZE <= a /\ a < p + SizeOf(m, p) - WSIZE
         /\ p <= a /\ a + WSIZE <= p + L[p].bytes
<1>1. /\ L[p] \in Block /\ WSIZE * L[p].known <= L[p].bytes /\ p \in Payloads
      /\ L[p].bytes + DWORD_SIZE <= SizeOf(m, p) /\ p \in B
  BY DEF Typed, Owns, Taken
<1>2. L[p].known \in Nat /\ L[p].bytes \in Nat
  BY <1>1, ExplicitListAssumption DEF Block
<1>3. /\ p \in Nat /\ p % DWORD_SIZE = 0 /\ SizeOf(m, p) \in Nat /\ brk \in Nat
      /\ p + SizeOf(m, p) <= brk /\ brk <= MAX_HEAP
  BY <1>1, BlockFacts, GoodFacts DEF Good
<1>4. k \in Nat /\ 1 <= k /\ k <= L[p].known
  BY <1>2
<1> DEFINE a == p + WSIZE * (k - 1)
<1>5. a \in Nat /\ p <= a /\ a % 8 = 0 /\ a + 8 <= p + L[p].bytes
  BY <1>1, <1>2, <1>3, <1>4 DEF WSIZE, DWORD_SIZE
<1> HIDE DEF a
<1>6. a + 8 <= MAX_HEAP /\ p - 8 <= a /\ a < p + SizeOf(m, p) - 8
  BY <1>1, <1>2, <1>3, <1>5, MemLibAssumption DEF DWORD_SIZE
<1>7. a \in Words
  BY <1>5, <1>6, WordIs DEF WSIZE
<1> QED
  BY <1>5, <1>6, <1>7 DEF a, WSIZE

\* What the program holds and keeps shows what it showed.
LEMMA ViewKept ==
  ASSUME HeapInv, health = "sound", NEW S, Untouched(mem, mem', S),
         NEW p \in S \cap DOMAIN live, live'[p] = live[p]
  PROVE  Known(live', mem', p) = Known(live, mem, p)
<1>1. PICK B \in SUBSET Payloads :
        Good(mem, mem_brk, B) /\ Owns(live, mem, B) /\ Typed(live)
  BY HoldingSays
<1>2. SameBlock(mem, mem', p)
  BY DEF Untouched
<1>3. \A k \in 1 .. live[p].known : mem'[p + WSIZE * (k - 1)] = mem[p + WSIZE * (k - 1)]
  <2> SUFFICES ASSUME NEW k \in 1 .. live[p].known
               PROVE  mem'[p + WSIZE * (k - 1)] = mem[p + WSIZE * (k - 1)]
    OBVIOUS
  <2> DEFINE a == p + WSIZE * (k - 1)
  <2>1. a \in Words /\ p - WSIZE <= a /\ a < p + SizeOf(mem, p) - WSIZE
    BY <1>1, KnownWords
  <2> HIDE DEF a
  <2>2. mem'[a] = mem[a]
    BY <1>2, <2>1 DEF SameBlock
  <2> QED
    BY <2>2 DEF a
<1> QED
  BY <1>3 DEF Known

\* The blocks of the promise are those of the program.
LEMMA ContentsAre == Contents = View(live, mem) /\ Contents' = View(live', mem')
  BY DEF Contents, View, Known

\* What holds of the program's blocks once the invariant does.
LEMMA NextApart == ASSUME HeapInv', health' = "sound" PROVE Apart(live')
<1>1. CASE DOMAIN live' = {}
  BY <1>1 DEF Apart
<1>2. CASE DOMAIN live' # {}
  <2>1. mem_brk' > 0
    <3>1. mem_brk' \in Nat /\ mem_brk' # 0
      BY <1>2 DEF HeapInv
    <3> QED
      BY <3>1
  <2>2. PICK B \in SUBSET Payloads :
          Good(mem', mem_brk', B) /\ Owns(live', mem', B) /\ Typed(live')
    BY <2>1 DEF HeapInv
  <2> QED
    BY <2>2, HeldApart
<1> QED
  BY <1>1, <1>2

\* The heap after mm_malloc, given what the program held before.
LEMMA MallocHolds ==
  ASSUME HeapInv, health = "sound", NEW size \in Requests, Malloc(size)
  PROVE  \/ live' = live /\ (health' = "sound" => Untouched(mem, mem', DOMAIN live))
         \/ /\ size # 0 /\ Untouched(mem, mem', DOMAIN live)
            /\ \E bp \in Payloads : /\ live' = Held(DOMAIN live, bp, size, 0)
                                    /\ \A q \in DOMAIN live : q < bp /\ q # bp
<1>1. PICK m, brk, x : \E B \in SUBSET Payloads :
        Current = Heap(m, brk, "sound", x) /\ Good(m, brk, B) /\ Owns(live, m, B)
  BY CurrentIs DEF Malloc
<1>2. PICK B \in SUBSET Payloads :
        Current = Heap(m, brk, "sound", x) /\ Good(m, brk, B) /\ Owns(live, m, B)
  BY <1>1
<1>3. ASSUME NEW q \in DOMAIN live PROVE m = mem
  <2>1. heap_listp # NULL
    BY HoldingSays DEF Prologue, WSIZE, NULL
  <2>2. Heap(m, brk, "sound", x) = Heap(mem, mem_brk, "sound", NULL)
    BY <1>2, <2>1 DEF Current
  <2> QED
    BY <2>2 DEF Heap
<1>4. Taken(m, B) = DOMAIN live
  BY <1>2 DEF Owns
<1>5. CASE size = 0
  <2>1. mem' = m /\ live' = live
    BY <1>2, <1>5 DEF Malloc, Becomes, Heap
  <2>2. Untouched(mem, mem', DOMAIN live)
    BY <1>3, <2>1 DEF Untouched, SameBlock
  <2> QED
    BY <2>1, <2>2
<1>6. CASE size # 0
  <2> DEFINE r == Obtain(Heap(m, brk, "sound", x), size)
  <2>1. /\ mem' = r.mem /\ health' = r.health
        /\ live' = IF r.bp = NULL THEN live ELSE Held(DOMAIN live, r.bp, size, 0)
    BY <1>2, <1>6 DEF Malloc, Becomes
  <2>2. Obtained(m, brk, B, r, size)
    BY <1>2, ObtainGives
  <2> HIDE DEF r
  <2>3. CASE r.bp = NULL
    <3>1. live' = live /\ (health' = "sound" => mem' = m)
      BY <2>1, <2>2, <2>3 DEF Obtained
    <3>2. mem' = m => Untouched(mem, mem', DOMAIN live)
      BY <1>3 DEF Untouched, SameBlock
    <3> QED
      BY <3>1, <3>2
  <2>4. CASE r.bp # NULL
    <3>1. PICK C \in SUBSET Payloads : r.bp \in C /\ \A q \in DOMAIN live : q < r.bp /\ SameBlock(m, r.mem, q)
      BY <1>4, <2>2, <2>4 DEF Obtained
    <3>2. Untouched(mem, mem', DOMAIN live)
      BY <1>3, <2>1, <3>1 DEF Untouched
    <3>3. \A q \in DOMAIN live : q # r.bp
      <4> SUFFICES ASSUME NEW q \in DOMAIN live, q = r.bp PROVE FALSE
        OBVIOUS
      <4>1. q < q /\ q \in B
        BY <1>4, <3>1 DEF Taken
      <4>2. q \in Nat
        BY <1>2, <4>1, GoodFacts
      <4> QED
        BY <4>1, <4>2
    <3> QED
      BY <1>6, <2>1, <2>4, <3>1, <3>2, <3>3
  <2> QED
    BY <2>3, <2>4
<1> QED
  BY <1>5, <1>6

\* A new block where nothing is held, and nothing else changed.
LEMMA MallocRefines ==
  ASSUME HeapInv, health = "sound", HeapInv', health' = "sound", NEW size \in Requests, Malloc(size)
  PROVE  Contents' = Contents
           \/ \E a \in Promise!Addresses, bytes \in Requests \ {0} : Promise!Allocate(a, bytes)
<1>1. CASE live' = live /\ Untouched(mem, mem', DOMAIN live)
  <2>1. \A p \in DOMAIN live : Known(live', mem', p) = Known(live, mem, p)
    BY <1>1, ViewKept
  <2>2. View(live', mem') = View(live, mem)
    BY <1>1, <2>1 DEF View
  <2> QED
    BY <2>2, ContentsAre
<1>2. ASSUME size # 0, Untouched(mem, mem', DOMAIN live), NEW bp \in Payloads, bp \notin DOMAIN live,
             live' = Held(DOMAIN live, bp, size, 0)
      PROVE  \E a \in Promise!Addresses, bytes \in Requests \ {0} : Promise!Allocate(a, bytes)
  <2>1. /\ DOMAIN live' = DOMAIN live \cup {bp} /\ live'[bp] = [bytes |-> size, known |-> 0]
        /\ \A q \in DOMAIN live \ {bp} : live'[q] = live[q]
        /\ Known(live', mem', bp) = [bytes |-> size,
                                     data |-> [k \in 1 .. 0 |-> mem'[bp + WSIZE * (k - 1)]]]
    <3>1. /\ DOMAIN live' = DOMAIN live \cup {bp} /\ live'[bp] = [bytes |-> size, known |-> 0]
          /\ \A q \in DOMAIN live \ {bp} : live'[q] = live[q]
      BY <1>2 DEF Held
    <3> QED
      BY <3>1 DEF Known
  <2>2. \A q \in DOMAIN live : live'[q] = live[q] /\ Known(live', mem', q) = Known(live, mem, q)
    BY <1>2, <2>1, ViewKept
  <2>3. Known(live', mem', bp) = [bytes |-> size, data |-> <<>>]
    <3>1. [k \in 1 .. 0 |-> mem'[bp + WSIZE * (k - 1)]] = <<>>
      OBVIOUS
    <3> QED
      BY <2>1, <3>1
  <2>4. View(live', mem') = [q \in DOMAIN live \cup {bp} |->
                               IF q = bp THEN [bytes |-> size, data |-> <<>>]
                               ELSE View(live, mem)[q]]
    BY <2>1, <2>2, <2>3 DEF View
  <2>5. /\ DOMAIN View(live, mem) = DOMAIN live
        /\ \A q \in DOMAIN live : View(live, mem)[q].bytes = live[q].bytes
    BY DEF View, Known
  <2>6. /\ bp + size <= MAX_HEAP
        /\ \A q \in DOMAIN live : bp + size <= q \/ q + live[q].bytes <= bp
    <3>1. Apart(live')
      BY NextApart
    <3>2. /\ bp + live'[bp].bytes <= MAX_HEAP
          /\ \A q \in DOMAIN live' \ {bp} : bp + live'[bp].bytes <= q \/ q + live'[q].bytes <= bp
      BY <2>1, <3>1 DEF Apart
    <3> QED
      BY <1>2, <2>1, <2>2, <3>2
  <2>7. Promise!Allocate(bp, size)
    BY <2>4, <2>5, <2>6, ContentsAre DEF Promise!Allocate, Promise!Free, Promise!With
  <2>8. bp \in Promise!Addresses /\ size \in Requests \ {0}
    BY <1>2 DEF Promise!Addresses, Payloads
  <2> QED
    BY <2>7, <2>8
<1> QED
  BY <1>1, <1>2, MallocHolds

\* A block less.
LEMMA FreeRefines ==
  ASSUME HeapInv, health = "sound", NEW p \in DOMAIN live, Free(p), health' = "sound"
  PROVE  Promise!Release(p) /\ p \in DOMAIN Contents
<1> DEFINE L == [q \in DOMAIN live \ {p} |-> live[q]]
<1>1. live' = L
  BY DEF Free
<1>2. PICK B \in SUBSET Payloads :
        Good(mem, mem_brk, B) /\ Owns(live, mem, B) /\ Taken(mem, B) = DOMAIN live
  BY HoldingSays
<1>3. Untouched(mem, mem', DOMAIN live \ {p})
  BY <1>2, FreeGives
<1>4. DOMAIN live' = DOMAIN live \ {p} /\ \A q \in DOMAIN live \ {p} : live'[q] = live[q]
  BY <1>1
<1> HIDE DEF L
<1>5. \A q \in DOMAIN live \ {p} : Known(live', mem', q) = Known(live, mem, q)
  BY <1>3, <1>4, ViewKept
<1>6. View(live', mem') = [q \in DOMAIN View(live, mem) \ {p} |-> View(live, mem)[q]]
  BY <1>4, <1>5 DEF View
<1>7. p \in DOMAIN View(live, mem)
  BY DEF View
<1> QED
  BY <1>6, <1>7, ContentsAre DEF Promise!Release

\* Every word of a block written, and no other block changed.
LEMMA FillRefines ==
  ASSUME HeapInv, health = "sound", NEW p \in DOMAIN live, NEW v \in {NULL} \cup DOMAIN live, Fill(p, v)
  PROVE  Promise!Write(p, Link(v)) /\ p \in DOMAIN Contents
<1> DEFINE n == live[p].bytes \div WSIZE
           x == Link(v)
<1>1. PICK B \in SUBSET Payloads :
        Good(mem, mem_brk, B) /\ Owns(live, mem, B) /\ Taken(mem, B) = DOMAIN live
  BY HoldingSays
<1>2. Typed(live)
  BY HoldingSays
<1>3. /\ live[p].bytes \in Nat /\ live[p].bytes % WSIZE = 0
      /\ live[p].bytes + DWORD_SIZE <= SizeOf(mem, p) /\ p \in Nat /\ p % DWORD_SIZE = 0
      /\ SizeOf(mem, p) \in Nat /\ p + SizeOf(mem, p) <= mem_brk /\ mem_brk <= MAX_HEAP /\ mem_brk \in Nat
  <2>1. live[p] \in Block /\ p \in B /\ live[p].bytes + DWORD_SIZE <= SizeOf(mem, p)
    BY <1>1, <1>2 DEF Typed, Owns, Taken
  <2>2. live[p].bytes \in Nat /\ live[p].bytes % WSIZE = 0
    BY <2>1, ExplicitListAssumption DEF Block
  <2> QED
    BY <1>1, <2>1, <2>2, BlockFacts DEF Good
<1>4. /\ DOMAIN live' = DOMAIN live /\ live'[p] = [bytes |-> live[p].bytes, known |-> n]
      /\ \A q \in DOMAIN live \ {p} : live'[q] = live[q]
  BY <1>2, FillHolds
<1>5. n \in Nat /\ WSIZE * n = live[p].bytes
  BY <1>3 DEF WSIZE
<1>6. mem' = [a \in Words |-> IF a \in p .. p + live[p].bytes - 1 THEN x ELSE mem[a]]
  BY DEF Fill
<1> HIDE DEF n, x
<1>7. \A k \in 1 .. n : mem'[p + WSIZE * (k - 1)] = x
  <2> SUFFICES ASSUME NEW k \in 1 .. n PROVE mem'[p + WSIZE * (k - 1)] = x
    OBVIOUS
  <2> DEFINE a == p + WSIZE * (k - 1)
  <2>1. k \in Nat /\ 1 <= k /\ k <= n /\ p % 8 = 0
    BY <1>3, <1>5 DEF DWORD_SIZE
  <2>2. a \in Nat /\ p <= a /\ a % 8 = 0 /\ a + 8 <= p + live[p].bytes
    BY <1>3, <1>5, <2>1 DEF WSIZE
  <2> HIDE DEF a
  <2>3. a + 8 <= MAX_HEAP
    BY <1>3, <2>2, MemLibAssumption DEF DWORD_SIZE
  <2>4. a \in Words
    BY <2>2, <2>3, WordIs DEF WSIZE
  <2>5. a \in p .. p + live[p].bytes - 1
    BY <1>3, <2>2
  <2>6. mem'[a] = x
    BY <1>6, <2>4, <2>5
  <2> QED
    BY <2>6 DEF a
<1>8. Untouched(mem, mem', DOMAIN live \ {p})
  <2>1. \A q \in B : q # p => SameBlock(mem, mem', q)
    BY <1>1, FillGives
  <2>2. \A q \in DOMAIN live : q \in B
    BY <1>1 DEF Taken
  <2> QED
    BY <2>1, <2>2 DEF Untouched
<1>9. \A q \in DOMAIN live \ {p} : Known(live', mem', q) = Known(live, mem, q)
  BY <1>4, <1>8, ViewKept
<1>10. Known(live', mem', p) = [bytes |-> live[p].bytes, data |-> [k \in 1 .. n |-> x]]
  <2>1. live'[p].bytes = live[p].bytes /\ live'[p].known = n
    BY <1>4
  <2> QED
    BY <1>7, <2>1 DEF Known
<1>11. View(live', mem') = [View(live, mem) EXCEPT ![p].data =
                              [k \in 1 .. View(live, mem)[p].bytes \div WSIZE |-> x]]
  <2> DEFINE V == View(live, mem)
             d == [k \in 1 .. n |-> x]
  <2>1. V = [q \in DOMAIN live |-> Known(live, mem, q)]
    BY DEF View
  <2>2. [V[p] EXCEPT !.data = d] = [bytes |-> live[p].bytes, data |-> d]
    <3>1. \A b, y, z : [[bytes |-> b, data |-> y] EXCEPT !.data = z] = [bytes |-> b, data |-> z]
      OBVIOUS
    <3>2. V[p] = Known(live, mem, p)
      BY <2>1
    <3> HIDE DEF V, d
    <3> QED
      BY <3>1, <3>2 DEF Known
  <2>3. V[p].bytes \div WSIZE = n
    BY <2>1 DEF Known, n
  <2>4. View(live', mem') = [q \in DOMAIN live |-> Known(live', mem', q)]
    BY <1>4 DEF View
  <2> HIDE DEF V, d
  <2>5. View(live', mem') = [V EXCEPT ![p] = [V[p] EXCEPT !.data = d]]
    BY <1>9, <1>10, <2>1, <2>2, <2>4 DEF d
  <2> QED
    BY <2>3, <2>5 DEF V, d
<1>12. p \in DOMAIN View(live, mem)
  BY DEF View
<1> QED
  BY <1>11, <1>12, ContentsAre DEF Promise!Write, x

\* The heap given back, or a heap of which the program holds nothing.
LEMMA RestRefines ==
  /\ Stop => Promise!Discard
  /\ HeapInv /\ health = "sound" /\ Start => Contents' = Contents
  /\ UNCHANGED vars => Contents' = Contents
<1>1. \A m, L : DOMAIN L = {} => View(L, m) = <<>>
  BY DEF View
<1>2. DOMAIN <<>> = {}
  OBVIOUS
<1>3. Stop => Contents' = <<>>
  BY <1>1, <1>2, ContentsAre DEF Stop
<1>4. HeapInv /\ health = "sound" /\ Start => Contents' = Contents
  <2> SUFFICES ASSUME HeapInv, health = "sound", Start PROVE Contents' = Contents
    OBVIOUS
  <2>1. DOMAIN live = {} /\ live' = live
    BY DEF HeapInv, Start
  <2> QED
    BY <1>1, <2>1, ContentsAre
<1>5. UNCHANGED vars => Contents' = Contents
  BY ContentsAre DEF vars
<1> QED
  BY <1>3, <1>4, <1>5 DEF Promise!Discard

\* The first n words at a in m2 are those at b in m.
SameWords(m2, a, m, b, n) == \A k \in 1 .. n : m2[a + WSIZE * (k - 1)] = m[b + WSIZE * (k - 1)]

\* The words the program knew and the new block has room for are in it.
LEMMA CopyArrives ==
  ASSUME NEW m, NEW brk, NEW B, Good(m, brk, B), NEW p \in Taken(m, B), NEW size \in Nat,
         NEW r, NEW w, NEW f, Exchanged(m, B, p, size, r, w, f), f.health = "sound",
         NEW n \in Nat, WSIZE * n <= size, WSIZE * n + DWORD_SIZE <= SizeOf(m, p)
  PROVE  SameWords(f.mem, r.bp, m, p, n)
<1> DEFINE bp == r.bp
           n0 == Carried(r, p, size)
<1>1. PICK C \in SUBSET Payloads :
        /\ Good(r.mem, r.brk, C) /\ bp \in C /\ p \in C /\ Untouched(m, r.mem, Taken(m, B))
        /\ SizeOf(r.mem, bp) >= size + DWORD_SIZE /\ Good(w, r.brk, C) /\ SizeOf(w, bp) = SizeOf(r.mem, bp)
  BY DEF Exchanged
<1>2. SameBlock(w, f.mem, bp) /\ SameBlock(m, r.mem, p)
  BY <1>1 DEF Exchanged, Untouched
<1>3. \A a \in Words : bp <= a /\ a < bp + n0 => w[a] = r.mem[p + (a - bp)]
  BY DEF Exchanged, CopyMade
<1>4. SizeOf(r.mem, p) = SizeOf(m, p)
  <2>1. Tiles(m, brk, B) /\ p \in B /\ r.mem \in Memory
    BY <1>1, GoodFacts DEF Good, Taken
  <2> QED
    BY <1>2, <2>1, SameBlockFacts
<1>5. /\ bp \in Nat /\ bp % DWORD_SIZE = 0 /\ bp + SizeOf(r.mem, bp) <= r.brk /\ r.brk <= MAX_HEAP
      /\ SizeOf(r.mem, bp) \in Nat /\ r.brk \in Nat
  <2>1. Tiles(r.mem, r.brk, C) /\ r.brk \in Nat
    BY <1>1, GoodFacts DEF Good
  <2> QED
    BY <1>1, <2>1, BlockFacts
<1>6. /\ p \in Nat /\ p % DWORD_SIZE = 0 /\ p + SizeOf(m, p) <= brk /\ brk <= MAX_HEAP
      /\ SizeOf(m, p) \in Nat /\ brk \in Nat
  <2>1. Tiles(m, brk, B) /\ brk \in Nat /\ p \in B
    BY GoodFacts DEF Good, Taken
  <2> QED
    BY <2>1, BlockFacts
<1>7. WSIZE * n <= n0 /\ n0 \in Nat /\ n0 <= size
  <2>1. n0 \in {size, SizeOf(r.mem, p)} /\ n0 <= size
    BY <1>4, <1>6, SmallerIs DEF Carried
  <2> QED
    BY <1>4, <1>6, <2>1 DEF WSIZE, DWORD_SIZE
<1> HIDE DEF n0
<1>8. ASSUME NEW k \in 1 .. n
      PROVE  f.mem[bp + WSIZE * (k - 1)] = m[p + WSIZE * (k - 1)]
  <2> DEFINE a == bp + WSIZE * (k - 1)
             b == p + WSIZE * (k - 1)
  <2>1. k \in Nat /\ 1 <= k /\ k <= n
    OBVIOUS
  <2>2. /\ a \in Nat /\ bp <= a /\ a % 8 = 0 /\ a + 8 <= bp + 8 * n
        /\ b \in Nat /\ p <= b /\ b % 8 = 0 /\ b + 8 <= p + 8 * n /\ b = p + (a - bp)
    <3> DEFINE d == WSIZE * (k - 1)
    <3>1. d \in Nat /\ d % 8 = 0 /\ d + 8 <= 8 * n
      BY <2>1 DEF WSIZE
    <3>2. a = bp + d /\ b = p + d
      OBVIOUS
    <3>3. bp \in Nat /\ bp % 8 = 0 /\ p \in Nat /\ p % 8 = 0
      BY <1>5, <1>6 DEF DWORD_SIZE
    <3> HIDE DEF a, b, d, bp
    <3> QED
      BY <3>1, <3>2, <3>3
  <2>3. 8 * n <= n0 /\ 8 * n <= size /\ 8 * n + 16 <= SizeOf(m, p) /\ SizeOf(r.mem, bp) >= size + 16
    BY <1>1, <1>7 DEF WSIZE, DWORD_SIZE
  <2> HIDE DEF a, b, bp
  <2>4. /\ a + 8 <= MAX_HEAP /\ b + 8 <= MAX_HEAP /\ p - 8 <= b /\ bp - 8 <= a
        /\ b < p + SizeOf(m, p) - 8 /\ a < bp + n0 /\ a < bp + SizeOf(r.mem, bp) - 8
    BY <1>5, <1>6, <1>7, <2>2, <2>3, MemLibAssumption
  <2>5. a \in Words /\ b \in Words
    BY <2>2, <2>4, WordIs DEF WSIZE
  <2>6. f.mem[a] = w[a]
    BY <1>1, <1>2, <2>4, <2>5 DEF SameBlock, WSIZE
  <2>7. w[a] = r.mem[b]
    BY <1>3, <2>2, <2>4, <2>5
  <2>8. r.mem[b] = m[b]
    BY <1>2, <2>4, <2>5 DEF SameBlock, WSIZE
  <2> QED
    BY <2>6, <2>7, <2>8 DEF a, b
<1> QED
  BY <1>8 DEF SameWords, bp

\* The first words of what the program knew.
LEMMA PrefixIs ==
  ASSUME NEW m, NEW a, NEW len \in Nat, NEW n \in Nat, n <= len
  PROVE  LET s == [k \in 1 .. len |-> m[a + WSIZE * (k - 1)]] IN
         Len(s) = len /\ SubSeq(s, 1, n) = [k \in 1 .. n |-> m[a + WSIZE * (k - 1)]]
<1> DEFINE s == [k \in 1 .. len |-> m[a + WSIZE * (k - 1)]]
           t == [k \in 1 .. n |-> m[a + WSIZE * (k - 1)]]
           T == {m[a + WSIZE * (k - 1)] : k \in 1 .. len}
<1>1. s \in Seq(T) /\ Len(s) = len
  <2>1. s \in [1 .. len -> T]
    OBVIOUS
  <2> HIDE DEF s, T
  <2> QED
    BY <2>1
<1>2. \A k \in 1 .. n : s[k] = t[k]
  OBVIOUS
<1>3. DOMAIN t = 1 .. n /\ t = [k \in 1 .. n |-> t[k]]
  OBVIOUS
<1> HIDE DEF s, t
<1>4. SubSeq(s, 1, n) = [k \in 1 .. n |-> s[k]]
  BY <1>1
<1> QED
  BY <1>1, <1>3, <1>4, <1>2 DEF s, t

\* The heap after mm_realloc, given what the program held before.
LEMMA ReallocHolds ==
  ASSUME HeapInv, health = "sound", NEW p \in DOMAIN live, NEW size \in Requests, Realloc(p, size),
         health' = "sound"
  PROVE  LET n == Fewest({live[p].known, size \div WSIZE}) IN
         \/ live' = live /\ mem' = mem
         \/ /\ size # 0 /\ Untouched(mem, mem', DOMAIN live \ {p}) /\ n \in Nat
            /\ \E bp \in Payloads \ DOMAIN live : /\ live' = Held(DOMAIN live \ {p}, bp, size, n)
                                                  /\ SameWords(mem', bp, mem, p, n)
<1> DEFINE n == Fewest({live[p].known, size \div WSIZE})
<1>1. PICK B \in SUBSET Payloads :
        Good(mem, mem_brk, B) /\ Owns(live, mem, B) /\ Taken(mem, B) = DOMAIN live
  BY HoldingSays
<1>2. size \in Nat /\ size > 0 /\ Typed(live)
  BY ExplicitListAssumption, HoldingSays DEF Realloc
<1>3. CASE live' = live /\ mem' = mem
  BY <1>3
<1>4. CASE ~(live' = live /\ mem' = mem)
  <2>1. PICK r, w, f : /\ Exchanged(mem, B, p, size, r, w, f)
                       /\ mem' = f.mem /\ health' = f.health
                       /\ live' = Held(DOMAIN live \ {p}, r.bp, size, n)
    <3>1. \/ /\ health' = "sound" /\ mem' = mem /\ mem_brk' = mem_brk /\ live' = live
          \/ /\ health' = "malloc faults" /\ ~(2 * AdjustedSize(size) <= CHUNKSIZE) /\ live' = live
          \/ \E r, w, f :
               /\ Exchanged(mem, B, p, size, r, w, f)
               /\ mem' = f.mem /\ mem_brk' = f.brk /\ health' = f.health
               /\ live' = Held(DOMAIN live \ {p}, r.bp, size, n)
      BY <1>1, ReallocSays
    <3> HIDE DEF n
    <3>2. ~(health' = "malloc faults")
      OBVIOUS
    <3> QED
      BY <1>4, <3>1, <3>2
  <2>2. r.bp \in Payloads \ DOMAIN live /\ Untouched(mem, f.mem, DOMAIN live \ {p})
    BY <1>1, <2>1 DEF Exchanged
  <2>3. n \in Nat /\ WSIZE * n <= size /\ WSIZE * n + DWORD_SIZE <= SizeOf(mem, p)
    <3>1. live[p] \in Block /\ WSIZE * live[p].known <= live[p].bytes
      BY <1>2 DEF Typed
    <3>2. live[p].known \in Nat /\ live[p].bytes \in Nat /\ live[p].bytes + DWORD_SIZE <= SizeOf(mem, p)
      BY <1>1, <3>1, ExplicitListAssumption DEF Block, Owns
    <3>3. size \div WSIZE \in Nat /\ WSIZE * (size \div WSIZE) <= size
      BY <1>2 DEF WSIZE
    <3>4. n \in Nat /\ n <= size \div WSIZE /\ n <= live[p].known
      BY <3>2, <3>3, SmallerIs
    <3>5. SizeOf(mem, p) \in Nat
      <4>1. Tiles(mem, mem_brk, B) /\ p \in B
        BY <1>1 DEF Good, Taken
      <4> QED
        BY <4>1, BlockFacts
    <3> HIDE DEF n
    <3> QED
      BY <1>2, <3>1, <3>2, <3>3, <3>4, <3>5 DEF WSIZE, DWORD_SIZE
  <2> HIDE DEF n
  <2>4. SameWords(f.mem, r.bp, mem, p, n)
    <3>1. f.health = "sound" /\ p \in Taken(mem, B)
      BY <1>1, <2>1
    <3> QED
      BY <1>1, <1>2, <2>1, <2>3, <3>1, CopyArrives
  <2>5. size # 0
    BY <1>2
  <2> QED
    BY <2>1, <2>2, <2>3, <2>4, <2>5 DEF n
<1> QED
  BY <1>3, <1>4

\* One block exchanged for another with its first words, or nothing changed.
LEMMA ReallocRefines ==
  ASSUME HeapInv, health = "sound", HeapInv', health' = "sound",
         NEW p \in DOMAIN live, NEW size \in Requests, Realloc(p, size)
  PROVE  \/ Contents' = Contents
         \/ /\ p \in DOMAIN Contents
            /\ \E b \in Promise!Addresses, bytes \in Requests \ {0} : Promise!Resize(p, b, bytes)
<1> DEFINE n == Fewest({live[p].known, size \div WSIZE})
           others == DOMAIN live \ {p}
           data(m, a, len) == [k \in 1 .. len |-> m[a + WSIZE * (k - 1)]]
<1>1. CASE live' = live /\ mem' = mem
  BY <1>1, ContentsAre
<1>2. ASSUME size # 0, Untouched(mem, mem', others), n \in Nat,
             NEW bp \in Payloads \ DOMAIN live, live' = Held(others, bp, size, n),
             SameWords(mem', bp, mem, p, n)
      PROVE  /\ p \in DOMAIN Contents
             /\ \E b \in Promise!Addresses, bytes \in Requests \ {0} :
                  Promise!Resize(p, b, bytes)
  <2> DEFINE V == View(live, mem)
  <2>1. /\ DOMAIN live' = others \cup {bp} /\ live'[bp] = [bytes |-> size, known |-> n]
        /\ \A q \in others : live'[q] = live[q] /\ q # bp
    BY <1>2 DEF Held
  <2>2. \A q \in others : Known(live', mem', q) = Known(live, mem, q)
    BY <1>2, <2>1, ViewKept
  <2>3. live[p].known \in Nat /\ size \in Nat /\ size \div WSIZE \in Nat /\ n <= live[p].known
    <3>1. live[p].known \in Nat
      BY HoldingSays DEF Typed, Block
    <3>2. size \in Nat /\ size \div WSIZE \in Nat
      BY ExplicitListAssumption DEF WSIZE
    <3> QED
      BY <3>1, <3>2, SmallerIs
  <2>4. /\ DOMAIN V = DOMAIN live /\ \A q \in DOMAIN live : V[q].bytes = live[q].bytes
        /\ V[p].data = data(mem, p, live[p].known)
    BY DEF View, Known
  <2>5. n = LET kept == {size \div WSIZE, Len(V[p].data)}
            IN  CHOOSE k \in kept : \A j \in kept : k <= j
    <3>1. Len(V[p].data) = live[p].known
      BY <2>3, <2>4, PrefixIs
    <3>2. {live[p].known, size \div WSIZE} = {size \div WSIZE, live[p].known}
      OBVIOUS
    <3> HIDE DEF V
    <3> QED
      BY <3>1, <3>2 DEF Fewest
  <2>6. Known(live', mem', bp) = [bytes |-> size, data |-> SubSeq(V[p].data, 1, n)]
    <3> HIDE DEF n
    <3>1. SubSeq(V[p].data, 1, n) = data(mem, p, n)
      BY <1>2, <2>3, <2>4, PrefixIs
    <3>2. data(mem', bp, n) = data(mem, p, n)
      BY <1>2 DEF SameWords
    <3>3. Known(live', mem', bp) = [bytes |-> live'[bp].bytes, data |-> data(mem', bp, live'[bp].known)]
      BY DEF Known
    <3>4. live'[bp].bytes = size /\ live'[bp].known = n
      BY <2>1
    <3> HIDE DEF V, data
    <3> QED
      BY <3>1, <3>2, <3>3, <3>4
  <2>7. View(live', mem') = [q \in others \cup {bp} |->
                               IF q = bp THEN [bytes |-> size, data |-> SubSeq(V[p].data, 1, n)]
                               ELSE V[q]]
    <3>1. \A q \in others : V[q] = Known(live, mem, q)
      BY DEF View
    <3> HIDE DEF V, n
    <3> QED
      BY <2>1, <2>2, <2>6, <3>1 DEF View
  <2>8. /\ bp + size <= MAX_HEAP
        /\ \A q \in others : bp + size <= q \/ q + V[q].bytes <= bp
    <3>1. Apart(live')
      BY NextApart
    <3>2. /\ bp + live'[bp].bytes <= MAX_HEAP
          /\ \A q \in DOMAIN live' \ {bp} : bp + live'[bp].bytes <= q \/ q + live'[q].bytes <= bp
      BY <2>1, <3>1 DEF Apart
    <3> HIDE DEF V, n
    <3> QED
      BY <2>1, <2>4, <3>2
  <2>9. Contents = V /\ Contents' = View(live', mem')
    BY ContentsAre
  <2> HIDE DEF V, n
  <2>10. Promise!Resize(p, bp, size)
    <3>1. Promise!Free(bp, size, others)
      BY <2>8, <2>9 DEF Promise!Free
    <3>2. Contents' = Promise!With(others, bp, size, SubSeq(Contents[p].data, 1, n))
      BY <2>7, <2>9 DEF Promise!With
    <3>3. others = DOMAIN Contents \ {p}
      BY <2>4, <2>9
    <3> HIDE DEF others
    <3> QED
      BY <2>5, <2>9, <3>1, <3>2, <3>3 DEF Promise!Resize
  <2>11. bp \in Promise!Addresses /\ size \in Requests \ {0} /\ p \in DOMAIN Contents
    BY <1>2, <2>4, <2>9 DEF Promise!Addresses, Payloads
  <2> QED
    BY <2>10, <2>11
<1> QED
  BY <1>1, <1>2, ReallocHolds

\* The promise of malloc, free and realloc, call by call (mm.c:278-417), for
\* every arena, chunk size and list of requests: a call that stores no link
\* astray and does not fault leaves the blocks the program holds aligned,
\* inside the heap, apart and with what was written to them, although free
\* blocks keep their links where the data was; a resized block begins with the
\* words of the old one, and a request that fails changes nothing.
THEOREM PromiseKept == Spec => PromiseUnlessAstray
<1>1. HeapInv /\ HeapInv' /\ [Next]_vars => [health' # "sound" \/ Promise!Next]_Contents
  <2> SUFFICES ASSUME HeapInv, HeapInv', [Next]_vars, health' = "sound"
               PROVE  Promise!Next \/ Contents' = Contents
    OBVIOUS
  <2>1. CASE UNCHANGED vars
    BY <2>1, RestRefines
  <2>2. CASE Call /\ health = "sound"
    <3>1. CASE Start
      BY <2>2, <3>1, RestRefines
    <3>2. CASE Stop
      BY <3>2, RestRefines DEF Promise!Next
    <3>3. ASSUME NEW size \in Requests, Malloc(size)
          PROVE  Promise!Next \/ Contents' = Contents
      BY <2>2, <3>3, MallocRefines DEF Promise!Next
    <3>4. ASSUME NEW p \in DOMAIN live, Free(p)
          PROVE  Promise!Next
      BY <2>2, <3>4, FreeRefines DEF Promise!Next
    <3>5. ASSUME NEW p \in DOMAIN live, NEW size \in Requests, Realloc(p, size)
          PROVE  Promise!Next \/ Contents' = Contents
      BY <2>2, <3>5, ReallocRefines DEF Promise!Next
    <3>6. ASSUME NEW p \in DOMAIN live, NEW v \in {NULL} \cup DOMAIN live, Fill(p, v)
          PROVE  Promise!Next
      <4>1. Promise!Write(p, Link(v)) /\ p \in DOMAIN Contents
        BY <2>2, <3>6, FillRefines
      <4>2. v \in Payloads
        <5>1. Typed(live)
          BY <2>2, HoldingSays
        <5>2. NULL \in Payloads
          BY PayloadIs, MemLibAssumption DEF NULL, DWORD_SIZE
        <5> QED
          BY <5>1, <5>2 DEF Typed
      <4> QED
        BY <4>1, <4>2 DEF Promise!Next
    <3> QED
      BY <2>2, <3>1, <3>2, <3>3, <3>4, <3>5, <3>6 DEF Call
  <2> QED
    BY <2>1, <2>2 DEF Next
<1> QED
  BY <1>1, HeapInvariance, PTL DEF Spec, PromiseUnlessAstray
=============================================================================
