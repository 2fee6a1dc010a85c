--------------------------- MODULE BumpHeapProofs ---------------------------
(***************************************************************************)
(* The bump allocator for every arena, page size and list of requests: the *)
(* invariants of BumpHeap.tla, from the assumptions that a page fits into  *)
(* a size_t and two pages into an int.                                     *)
(***************************************************************************)
EXTENDS BumpHeap, TLAPS

-----------------------------------------------------------------------------
(* Arithmetic of a count that wraps. *)

\* A quotient and a remainder are unique.
LEMMA Remainder ==
  ASSUME NEW q \in Int, NEW r \in 0 .. SIZE_SPAN - 1, NEW n \in Int,
         n = q * SIZE_SPAN + r
  PROVE  n % SIZE_SPAN = r
<1> USE BumpAssumption
<1> DEFINE d == n \div SIZE_SPAN
           m == n % SIZE_SPAN
<1>1. d \in Int /\ m \in 0 .. SIZE_SPAN - 1 /\ n = d * SIZE_SPAN + m
  BY SMT
<1> HIDE DEF d, m
<1>2. (q - d) * SIZE_SPAN = m - r
  BY <1>1, SMT
<1>3. CASE q - d >= 1
  <2>1. (q - d) * SIZE_SPAN >= SIZE_SPAN
    BY <1>1, <1>3, SMT
  <2> QED
    BY <1>1, <1>2, <2>1
<1>4. CASE q - d <= -1
  <2>1. (q - d) * SIZE_SPAN <= -SIZE_SPAN
    BY <1>1, <1>4, SMT
  <2> QED
    BY <1>1, <1>2, <2>1
<1>5. CASE q - d = 0
  <2>1. m = r
    BY <1>1, <1>2, <1>5, SMT
  <2> QED
    BY <2>1 DEF m
<1> QED
  BY <1>1, <1>3, <1>4, <1>5

\* Subtracting from a wrapped number wraps as subtracting from the number.
LEMMA SubtractWrapped ==
  ASSUME NEW n \in Int, NEW k \in Int
  PROVE  /\ n % SIZE_SPAN \in 0 .. SIZE_SPAN - 1
         /\ ((n % SIZE_SPAN) - k) % SIZE_SPAN = (n - k) % SIZE_SPAN
<1> USE BumpAssumption
<1> DEFINE d == n \div SIZE_SPAN
           m == n % SIZE_SPAN
           e == (m - k) \div SIZE_SPAN
           r == (m - k) % SIZE_SPAN
<1>1. d \in Int /\ m \in 0 .. SIZE_SPAN - 1 /\ n = d * SIZE_SPAN + m
  BY SMT
<1>2. e \in Int /\ r \in 0 .. SIZE_SPAN - 1 /\ m - k = e * SIZE_SPAN + r
  BY <1>1, SMT
<1>3. (n - k) % SIZE_SPAN = r
  <2> HIDE DEF d, m, e, r
  <2>1. n - k = (d + e) * SIZE_SPAN + r
    BY <1>1, <1>2, SMT
  <2>2. d + e \in Int /\ n - k \in Int
    BY <1>1, <1>2
  <2> QED
    BY <1>2, <2>1, <2>2, Remainder
<1> QED
  BY <1>1, <1>3

\* Double words add up to double words.
LEMMA DoubleWords ==
  ASSUME NEW i \in Nat, NEW k \in Nat, i % DWORD_SIZE = 0, k % DWORD_SIZE = 0
  PROVE  (i + k) % DWORD_SIZE = 0
  BY DEF DWORD_SIZE

-----------------------------------------------------------------------------
(* The inductive invariant. *)

Block == [at : Nat, bytes : Nat, taken : Nat]
Ends(ptr) == \A k \in 1 .. Len(given) : given[k].at + given[k].bytes <= ptr
AllApart  == \A j, k \in 1 .. Len(given) : j # k => Apart(given[j], given[k])

\* The types the other parts need: the break is aligned as well, because the
\* heap grows by whole pages.
Typed ==
  /\ TypeOK /\ bump_brk % DWORD_SIZE = 0
  /\ extensions \in Nat /\ abandoned \in Int /\ given \in Seq(Block)

\* Before mm_init there is nothing.
Fresh == ~exited /\ heap_ptr = NoHeap => given = <<>> /\ extensions = 0 /\ abandoned = 0

\* In the first page the count is right; up to the second growth everything
\* handed out lies below heap_ptr.  ApartUntilSecondGrowth needs both: the
\* next block must begin where no older one reaches.
BelowPointer ==
  ~exited /\ heap_ptr # NoHeap =>
    /\ extensions = 0 => abandoned = 0 /\ remaining_heap = bump_brk - heap_ptr
    /\ extensions <= 1 => Ends(heap_ptr)

IInv == Typed /\ Fresh /\ BelowPointer /\ ApartUntilSecondGrowth /\ CountOffByAbandoned

\* A request is rounded up to double words and keeps room for itself.
LEMMA AdjustedSizeFacts ==
  ASSUME NEW size \in Nat
  PROVE  /\ BumpSize(size) \in Nat /\ BumpSize(size) % DWORD_SIZE = 0
         /\ size <= BumpSize(size)
<1>1. CASE size <= DWORD_SIZE
  BY <1>1 DEF BumpSize, DWORD_SIZE
<1>2. CASE size > DWORD_SIZE
  BY <1>2 DEF BumpSize, DWORD_SIZE
<1> QED
  BY <1>1, <1>2 DEF DWORD_SIZE

\* What mm_malloc works with is as good as the invariant, also when it has to
\* call mm_init first.
LEMMA StartFacts ==
  ASSUME IInv, ~exited
  PROVE  /\ Begun.ptr \in Nat /\ Begun.ptr % DWORD_SIZE = 0
         /\ Begun.left \in 0 .. SIZE_SPAN - 1
         /\ Begun.brk \in 0 .. MAX_HEAP /\ Begun.brk % DWORD_SIZE = 0
         /\ Begun.left = (Begun.brk - Begun.ptr + abandoned) % SIZE_SPAN
         /\ extensions = 0 => abandoned = 0 /\ Begun.left = Begun.brk - Begun.ptr
         /\ extensions <= 1 => Ends(Begun.ptr) /\ AllApart
<1> USE DEF IInv, Typed, TypeOK, BelowPointer, ApartUntilSecondGrowth, AllApart
<1>1. CASE heap_ptr = NoHeap
  <2>1. Begun.ptr = 0 /\ Begun.left = PAGE_SIZE /\ Begun.brk = PAGE_SIZE
    BY <1>1 DEF Begun
  <2>2. given = <<>> /\ extensions = 0 /\ abandoned = 0
    BY <1>1 DEF Fresh
  <2>3. PAGE_SIZE % SIZE_SPAN = PAGE_SIZE
    <3>1. PAGE_SIZE \in 0 .. SIZE_SPAN - 1 /\ PAGE_SIZE = 0 * SIZE_SPAN + PAGE_SIZE
      BY BumpAssumption
    <3> QED
      BY <3>1, Remainder
  <2> QED
    BY <2>1, <2>2, <2>3, BumpAssumption DEF DWORD_SIZE, Ends
<1>2. CASE heap_ptr # NoHeap
  <2>1. Begun.ptr = heap_ptr /\ Begun.left = remaining_heap /\ Begun.brk = bump_brk
    BY <1>2 DEF Begun
  <2> QED
    BY <1>2, <2>1 DEF CountOffByAbandoned
<1> QED
  BY <1>1, <1>2

\* A block put where no older one reaches overlaps none.
LEMMA BumpFacts ==
  ASSUME NEW size \in Nat, NEW ptr \in Nat, NEW left \in Int,
         Typed, ptr % DWORD_SIZE = 0, Bump(size, ptr, left)
  PROVE  /\ heap_ptr' \in Nat /\ heap_ptr' % DWORD_SIZE = 0
         /\ heap_ptr' = ptr + BumpSize(size)
         /\ remaining_heap' = (left - BumpSize(size)) % SIZE_SPAN
         /\ remaining_heap' \in 0 .. SIZE_SPAN - 1
         /\ given' \in Seq(Block)
         /\ \A k \in 1 .. Len(given') :
              given'[k].at \in Nat /\ given'[k].at % DWORD_SIZE = 0
         /\ Ends(ptr) /\ AllApart => Ends(heap_ptr)' /\ AllApart'
<1> DEFINE new == [at |-> ptr, bytes |-> size, taken |-> BumpSize(size)]
<1>1. /\ heap_ptr' = ptr + BumpSize(size)
      /\ remaining_heap' = (left - BumpSize(size)) % SIZE_SPAN
      /\ given' = Append(given, new)
  BY DEF Bump
<1>0. /\ BumpSize(size) \in Nat /\ BumpSize(size) % DWORD_SIZE = 0
      /\ size <= BumpSize(size)
  BY AdjustedSizeFacts
<1>2. heap_ptr' \in Nat /\ heap_ptr' % DWORD_SIZE = 0
  <2>1. (ptr + BumpSize(size)) % DWORD_SIZE = 0
    BY <1>0, DoubleWords
  <2> QED
    BY <1>1, <1>0, <2>1
<1>3. remaining_heap' \in 0 .. SIZE_SPAN - 1
  <2>1. left - BumpSize(size) \in Int
    BY <1>0
  <2> QED
    BY <1>1, <2>1, SubtractWrapped
<1>4. new \in Block /\ given' \in Seq(Block)
  BY <1>1, <1>0 DEF Block, Typed
<1>5. /\ Len(given) \in Nat /\ Len(given') = Len(given) + 1
      /\ given'[Len(given) + 1] = new
      /\ \A k \in 1 .. Len(given) : given'[k] = given[k] /\ given[k] \in Block
  BY <1>1, <1>4 DEF Typed
<1>6. ASSUME NEW k \in 1 .. Len(given')
      PROVE  given'[k].at \in Nat /\ given'[k].at % DWORD_SIZE = 0
  BY <1>5, <1>6 DEF Typed, TypeOK
<1>7. ASSUME Ends(ptr), AllApart PROVE Ends(heap_ptr)' /\ AllApart'
  <2>1. \A k \in 1 .. Len(given) : given[k].at + given[k].bytes <= ptr
    BY <1>7 DEF Ends
  <2>2. new.at = ptr /\ new.bytes = size /\ ptr + size <= heap_ptr' /\ ptr <= heap_ptr'
    BY <1>1, <1>0
  <2> HIDE DEF new
  <2>3. Ends(heap_ptr)'
    <3> SUFFICES ASSUME NEW k \in 1 .. Len(given')
                 PROVE  given'[k].at + given'[k].bytes <= heap_ptr'
      BY DEF Ends
    <3>1. CASE k \in 1 .. Len(given)
      <4>1. given'[k] = given[k] /\ given[k].at \in Int /\ given[k].bytes \in Int
        BY <1>5, <3>1 DEF Block
      <4>2. given[k].at + given[k].bytes <= ptr
        BY <2>1, <3>1
      <4> QED
        BY <1>2, <2>2, <4>1, <4>2
    <3>2. CASE k = Len(given) + 1
      BY <1>5, <2>2, <3>2
    <3> QED
      BY <1>5, <3>1, <3>2
  <2>4. AllApart'
    <3> SUFFICES ASSUME NEW j \in 1 .. Len(given'), NEW k \in 1 .. Len(given'), j # k
                 PROVE  Apart(given'[j], given'[k])
      BY DEF AllApart, Apart
    <3>1. CASE j \in 1 .. Len(given) /\ k \in 1 .. Len(given)
      BY <1>5, <1>7, <3>1 DEF AllApart
    <3>2. CASE j = Len(given) + 1 /\ k \in 1 .. Len(given)
      BY <1>5, <2>1, <2>2, <3>2 DEF Apart
    <3>3. CASE j \in 1 .. Len(given) /\ k = Len(given) + 1
      BY <1>5, <2>1, <2>2, <3>3 DEF Apart
    <3> QED
      BY <1>5, <3>1, <3>2, <3>3
  <2> QED
    BY <2>3, <2>4
<1> QED
  BY <1>1, <1>2, <1>3, <1>4, <1>6, <1>7

-----------------------------------------------------------------------------
\* The allocator before any call satisfies the invariant.
LEMMA InitIInv == BumpInit => IInv
<1> SUFFICES ASSUME BumpInit PROVE IInv
  OBVIOUS
<1> USE DEF BumpInit
<1>1. TypeOK
  <2>1. 0 \in 0 .. SIZE_SPAN - 1 /\ 0 \in 0 .. MAX_HEAP
    BY MemLibAssumption, BumpAssumption
  <2>2. \A k \in 1 .. Len(given) : given[k].at \in Nat /\ given[k].at % DWORD_SIZE = 0
    OBVIOUS
  <2> QED
    BY <2>1, <2>2, Zenon DEF TypeOK
<1>2. bump_brk % DWORD_SIZE = 0 /\ given \in Seq(Block)
  BY DEF DWORD_SIZE
<1>3. Fresh /\ BelowPointer /\ ApartUntilSecondGrowth /\ CountOffByAbandoned
  BY DEF Fresh, BelowPointer, ApartUntilSecondGrowth, CountOffByAbandoned
<1> QED
  BY <1>1, <1>2, <1>3 DEF IInv, Typed

\* Growth by one or two pages moves the break by exactly that.
LEMMA GrowthFacts ==
  ASSUME NEW brk \in 0 .. MAX_HEAP, brk % DWORD_SIZE = 0,
         NEW asize \in Nat, NEW left \in Int
  PROVE  LET grow == BumpGrowth(asize, left)
             area == mem_sbrk(brk, grow)
         IN  /\ grow \in Nat
             /\ area.at = brk
             /\ area.ok => /\ area.brk = brk + grow
                           /\ area.brk \in 0 .. MAX_HEAP /\ area.brk % DWORD_SIZE = 0
<1> DEFINE grow == BumpGrowth(asize, left)
<1> USE BumpAssumption, MemLibAssumption DEF DWORD_SIZE
<1>1. grow \in {PAGE_SIZE, 2 * PAGE_SIZE}
  BY DEF BumpGrowth
<1>2. grow \in Nat /\ grow % DWORD_SIZE = 0 /\ grow < INT_SPAN \div 2
  BY <1>1
<1> HIDE DEF grow
<1>3. INT_SPAN \div 2 <= INT_SPAN
  OBVIOUS
<1>4. grow % INT_SPAN = grow
  BY <1>2, <1>3
<1>5. AsInt(grow) = grow
  BY <1>2, <1>4 DEF AsInt
<1>6. mem_sbrk(brk, grow).at = brk
  BY DEF mem_sbrk
<1>7. ASSUME mem_sbrk(brk, grow).ok
      PROVE  /\ mem_sbrk(brk, grow).brk = brk + grow
             /\ brk + grow \in 0 .. MAX_HEAP /\ (brk + grow) % DWORD_SIZE = 0
  <2>1. ~(AsInt(grow) < 0 \/ brk + AsInt(grow) > MAX_HEAP)
    BY <1>7, Zenon DEF mem_sbrk
  <2>2. mem_sbrk(brk, grow).brk = brk + AsInt(grow)
    BY <2>1, Zenon DEF mem_sbrk
  <2>3. mem_sbrk(brk, grow).brk = brk + grow /\ brk + grow <= MAX_HEAP
    BY <1>2, <1>5, <2>1, <2>2
  <2>4. (brk + grow) % DWORD_SIZE = 0
    BY <1>2, DoubleWords
  <2> QED
    BY <1>2, <2>3, <2>4
<1> QED
  BY <1>2, <1>6, <1>7 DEF grow

\* A block out of the room that is left.
LEMMA MallocKeeps ==
  ASSUME IInv, NEW size \in BumpRequests, BumpMalloc(size)
  PROVE  IInv'
<1>1. size \in Nat /\ ~exited /\ BumpSize(size) <= Begun.left
      /\ Bump(size, Begun.ptr, Begun.left) /\ bump_brk' = Begun.brk
      /\ exited' = exited /\ extensions' = extensions /\ abandoned' = abandoned
  BY BumpAssumption DEF BumpMalloc
<1> DEFINE ptr == Begun.ptr
           left == Begun.left
           brk == Begun.brk
<1>2. /\ ptr \in Nat /\ ptr % DWORD_SIZE = 0
      /\ left \in 0 .. SIZE_SPAN - 1
      /\ brk \in 0 .. MAX_HEAP /\ brk % DWORD_SIZE = 0
      /\ left = (brk - ptr + abandoned) % SIZE_SPAN
      /\ extensions = 0 => abandoned = 0 /\ left = brk - ptr
      /\ extensions <= 1 => Ends(ptr) /\ AllApart
  BY <1>1, StartFacts
<1>3. BumpSize(size) \in Nat
  BY <1>1, AdjustedSizeFacts
<1> DEFINE asize == BumpSize(size)
<1>4. /\ heap_ptr' \in Nat /\ heap_ptr' % DWORD_SIZE = 0
      /\ heap_ptr' = ptr + asize
      /\ remaining_heap' = (left - asize) % SIZE_SPAN
      /\ remaining_heap' \in 0 .. SIZE_SPAN - 1
      /\ given' \in Seq(Block)
      /\ \A k \in 1 .. Len(given') :
           given'[k].at \in Nat /\ given'[k].at % DWORD_SIZE = 0
      /\ Ends(ptr) /\ AllApart => Ends(heap_ptr)' /\ AllApart'
  <2>1. left \in Int /\ Typed
    BY <1>2, BumpAssumption DEF IInv
  <2> QED
    BY <1>1, <1>2, <2>1, BumpFacts
<1>5. bump_brk' = brk /\ exited' = FALSE /\ UNCHANGED <<extensions, abandoned>>
      /\ asize <= left
  BY <1>1
<1> HIDE DEF ptr, left, brk, asize
<1>6. Typed'
  BY <1>2, <1>4, <1>5 DEF IInv, Typed, TypeOK
<1>7. Fresh'
  BY <1>4 DEF Fresh, NoHeap
<1>8. extensions' <= 1 => Ends(heap_ptr)' /\ AllApart'
  BY <1>2, <1>4, <1>5
<1>9. extensions' = 0 => abandoned' = 0 /\ remaining_heap' = bump_brk' - heap_ptr'
  <2> SUFFICES ASSUME extensions = 0 PROVE remaining_heap' = brk - heap_ptr' /\ abandoned = 0
    BY <1>5
  <2>1. left - asize \in 0 .. SIZE_SPAN - 1
    BY <1>2, <1>3, <1>5, BumpAssumption DEF asize
  <2>2. left - asize = 0 * SIZE_SPAN + (left - asize) /\ left - asize \in Int
    BY <2>1, BumpAssumption
  <2>3. (left - asize) % SIZE_SPAN = left - asize
    BY <2>1, <2>2, Remainder
  <2> QED
    BY <1>2, <1>3, <1>4, <2>3 DEF asize
<1>10. remaining_heap' = (bump_brk' - heap_ptr' + abandoned') % SIZE_SPAN
  <2>1. abandoned \in Int /\ brk - ptr + abandoned \in Int /\ asize \in Int
    BY <1>2, <1>3, MemLibAssumption DEF IInv, Typed, asize
  <2>2. (left - asize) % SIZE_SPAN = ((brk - ptr + abandoned) - asize) % SIZE_SPAN
    BY <1>2, <2>1, SubtractWrapped
  <2>3. (brk - ptr + abandoned) - asize = brk - (ptr + asize) + abandoned
    BY <1>2, <2>1, MemLibAssumption
  <2> QED
    BY <1>4, <1>5, <2>2, <2>3
<1> QED
  BY <1>5, <1>6, <1>7, <1>8, <1>9, <1>10
     DEF IInv, BelowPointer, ApartUntilSecondGrowth, AllApart, CountOffByAbandoned

\* A block from new pages, or the end of the process.
LEMMA MallocExtendingKeeps ==
  ASSUME IInv, NEW size \in BumpRequests, BumpMallocExtending(size)
  PROVE  IInv'
<1> DEFINE ptr == Begun.ptr
           left == Begun.left
           brk == Begun.brk
           asize == BumpSize(size)
           grow == BumpGrowth(asize, left)
           area == mem_sbrk(brk, grow)
<1>1. size \in Nat /\ ~exited
  BY BumpAssumption DEF BumpMallocExtending
<1>2. /\ ptr \in Nat /\ ptr % DWORD_SIZE = 0
      /\ left \in 0 .. SIZE_SPAN - 1
      /\ brk \in 0 .. MAX_HEAP /\ brk % DWORD_SIZE = 0
      /\ left = (brk - ptr + abandoned) % SIZE_SPAN
      /\ extensions = 0 => abandoned = 0 /\ left = brk - ptr
      /\ extensions <= 1 => Ends(ptr) /\ AllApart
  BY <1>1, StartFacts
<1>3. asize \in Nat /\ left \in Int /\ brk \in Nat
  BY <1>1, <1>2, AdjustedSizeFacts, BumpAssumption, MemLibAssumption
<1>4. /\ grow \in Nat /\ area.at = brk
      /\ area.ok => /\ area.brk = brk + grow
                    /\ area.brk \in 0 .. MAX_HEAP /\ area.brk % DWORD_SIZE = 0
  BY <1>2, <1>3, GrowthFacts
<1>5. Typed /\ abandoned \in Int /\ extensions \in Nat
  BY DEF IInv, Typed
<1>6. CASE area.ok
  <2>1. /\ Bump(size, area.at, left + grow) /\ bump_brk' = area.brk
        /\ extensions' = extensions + 1 /\ abandoned' = abandoned + (brk - ptr)
        /\ exited' = exited
    BY <1>6 DEF BumpMallocExtending
  <2>2. Bump(size, brk, left + grow)
    BY <1>4, <2>1
  <2>3. left + grow \in Int
    BY <1>3, <1>4
  <2>4. /\ heap_ptr' \in Nat /\ heap_ptr' % DWORD_SIZE = 0
        /\ heap_ptr' = brk + asize
        /\ remaining_heap' = ((left + grow) - asize) % SIZE_SPAN
        /\ remaining_heap' \in 0 .. SIZE_SPAN - 1
        /\ given' \in Seq(Block)
        /\ \A k \in 1 .. Len(given') :
             given'[k].at \in Nat /\ given'[k].at % DWORD_SIZE = 0
        /\ Ends(brk) /\ AllApart => Ends(heap_ptr)' /\ AllApart'
    BY <1>1, <1>2, <1>3, <1>5, <2>2, <2>3, BumpFacts
  <2>5. exited' = FALSE /\ bump_brk' = brk + grow
        /\ bump_brk' \in 0 .. MAX_HEAP /\ bump_brk' % DWORD_SIZE = 0
    BY <1>1, <1>4, <1>6, <2>1
  <2>6. Len(given) \in Nat /\ \A k \in 1 .. Len(given) : given[k] \in Block
    BY <1>5 DEF Typed
  <2> HIDE DEF ptr, left, brk, asize, grow, area
  <2>7. Typed'
    <3>1. TypeOK'
      BY <2>4, <2>5 DEF TypeOK
    <3>2. extensions' \in Nat /\ abandoned' \in Int
      BY <1>2, <1>3, <1>5, <2>1
    <3> QED
      BY <2>4, <2>5, <3>1, <3>2 DEF Typed
  <2>8. Fresh'
    BY <2>4 DEF Fresh, NoHeap
  <2>9. extensions' <= 1 => Ends(heap_ptr)' /\ AllApart'
    <3> SUFFICES ASSUME extensions = 0 PROVE Ends(brk) /\ AllApart
      BY <1>5, <2>1, <2>4
    <3>1. Ends(ptr) /\ AllApart /\ ptr <= brk
      BY <1>2, <1>3
    <3> QED
      BY <1>2, <1>3, <2>6, <3>1 DEF Ends, Block
  <2>10. remaining_heap' = (bump_brk' - heap_ptr' + abandoned') % SIZE_SPAN
    <3>1. left - (asize - grow) = (left + grow) - asize
      BY <1>3, <1>4
    <3>2. brk - ptr + abandoned \in Int /\ asize - grow \in Int
      BY <1>2, <1>3, <1>4, <1>5
    <3>3. (left - (asize - grow)) % SIZE_SPAN
          = ((brk - ptr + abandoned) - (asize - grow)) % SIZE_SPAN
      BY <1>2, <3>2, SubtractWrapped
    <3>4. (brk - ptr + abandoned) - (asize - grow)
          = bump_brk' - heap_ptr' + abandoned'
      BY <1>2, <1>3, <1>4, <1>5, <2>1, <2>4, <2>5
    <3> QED
      BY <2>4, <3>1, <3>3, <3>4
  <2>11. extensions' # 0
    BY <1>5, <2>1
  <2> QED
    BY <2>5, <2>7, <2>8, <2>9, <2>10, <2>11
       DEF IInv, BelowPointer, ApartUntilSecondGrowth, AllApart, CountOffByAbandoned
<1>7. CASE ~area.ok
  <2>1. /\ exited' = TRUE /\ heap_ptr' = NoHeap
        /\ remaining_heap' = left /\ bump_brk' = brk
        /\ given' = given /\ extensions' = extensions /\ abandoned' = abandoned
    BY <1>7 DEF BumpMallocExtending
  <2>2. Typed'
    BY <1>2, <1>5, <2>1 DEF Typed, TypeOK
  <2>3. Fresh' /\ BelowPointer' /\ CountOffByAbandoned'
    BY <2>1 DEF Fresh, BelowPointer, CountOffByAbandoned
  <2>4. ApartUntilSecondGrowth'
    BY <2>1 DEF IInv, ApartUntilSecondGrowth, Apart
  <2> QED
    BY <2>2, <2>3, <2>4 DEF IInv
<1> QED
  BY <1>6, <1>7

\* mm_init alone only makes the first page the heap.
LEMMA MmInitKeeps == IInv /\ mm_init => IInv'
<1> SUFFICES ASSUME IInv, mm_init PROVE IInv'
  OBVIOUS
<1>1. /\ heap_ptr = NoHeap /\ exited = FALSE /\ exited' = exited
      /\ heap_ptr' = Begun.ptr /\ remaining_heap' = Begun.left /\ bump_brk' = Begun.brk
      /\ given' = given /\ extensions' = extensions /\ abandoned' = abandoned
  BY DEF mm_init, IInv, Typed, TypeOK
<1>2. /\ Begun.ptr \in Nat /\ Begun.ptr % DWORD_SIZE = 0
      /\ Begun.left \in 0 .. SIZE_SPAN - 1
      /\ Begun.brk \in 0 .. MAX_HEAP /\ Begun.brk % DWORD_SIZE = 0
      /\ Begun.left = (Begun.brk - Begun.ptr + abandoned) % SIZE_SPAN
      /\ extensions = 0 => abandoned = 0 /\ Begun.left = Begun.brk - Begun.ptr
      /\ extensions <= 1 => Ends(Begun.ptr) /\ AllApart
  BY <1>1, StartFacts
<1>3. Typed'
  BY <1>1, <1>2 DEF IInv, Typed, TypeOK
<1>4. Fresh'
  BY <1>1, <1>2 DEF Fresh, NoHeap
<1>5. BelowPointer'
  BY <1>1, <1>2 DEF BelowPointer, Ends
<1>6. ApartUntilSecondGrowth' /\ CountOffByAbandoned'
  BY <1>1, <1>2 DEF IInv, ApartUntilSecondGrowth, CountOffByAbandoned, Apart
<1> QED
  BY <1>3, <1>4, <1>5, <1>6 DEF IInv

\* Every step keeps the invariant.
LEMMA NextIInv == IInv /\ [BumpNext]_bumpVars => IInv'
<1> SUFFICES ASSUME IInv, [BumpNext]_bumpVars PROVE IInv'
  OBVIOUS
<1>1. CASE UNCHANGED bumpVars
  BY <1>1 DEF bumpVars, IInv, Typed, TypeOK, Fresh, BelowPointer, Ends,
              ApartUntilSecondGrowth, Apart, CountOffByAbandoned
<1> QED
  BY <1>1, MmInitKeeps, MallocKeeps, MallocExtendingKeeps DEF BumpNext

\* The invariant holds from mm_init on.
LEMMA Invariance == BumpSpec => []IInv
  BY InitIInv, NextIInv, PTL DEF BumpSpec

\* Every block is aligned to a double word and the break stays inside the
\* arena, for every page size and arena (mm.c:33-78).
THEOREM TypeCorrect == BumpSpec => []TypeOK
<1>1. IInv => TypeOK
  BY DEF IInv, Typed
<1> QED
  BY <1>1, Invariance, PTL

\* No two blocks overlap before the heap has grown twice (mm.c:56-75).
THEOREM ApartAtFirst == BumpSpec => []ApartUntilSecondGrowth
<1>1. IInv => ApartUntilSecondGrowth
  BY DEF IInv
<1> QED
  BY <1>1, Invariance, PTL

\* remaining_heap is too high by exactly the bytes left behind at each growth,
\* modulo the width of a size_t (mm.c:63-75).
THEOREM CountTooHigh == BumpSpec => []CountOffByAbandoned
<1>1. IInv => CountOffByAbandoned
  BY DEF IInv
<1> QED
  BY <1>1, Invariance, PTL
=============================================================================
