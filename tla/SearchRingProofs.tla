-------------------------- MODULE SearchRingProofs --------------------------
(***************************************************************************)
(* Proofs about the ring buffer for every number of threads, every set of  *)
(* jobs and every capacity: the invariants of SearchRing.tla and the       *)
(* safety half of its refinement of JobQueue.tla.                          *)
(***************************************************************************)
EXTENDS SearchRing, TLAPS, SequenceTheorems, FiniteSetTheorems

-----------------------------------------------------------------------------
(* Arithmetic of an index that wraps. *)

\* Below the capacity, `% capacity` changes nothing.
LEMMA ModSmall ==
  ASSUME NEW n \in Nat, n < Capacity
  PROVE  n % Capacity = n
  BY CapacityAssumption, SMT

\* From the capacity to twice the capacity, it subtracts the capacity once.
LEMMA ModWraps ==
  ASSUME NEW n \in Nat, n >= Capacity, n < 2 * Capacity
  PROVE  n % Capacity = n - Capacity
  BY CapacityAssumption, SMT

\* Advancing a wrapped index wraps it as if it had never been wrapped.
LEMMA ModNext ==
  ASSUME NEW n \in Nat, n + 1 < 2 * Capacity
  PROVE  ((n % Capacity) + 1) % Capacity = (n + 1) % Capacity
<1> USE CapacityAssumption
<1>1. CASE n < Capacity
  <2>1. n % Capacity = n
    BY <1>1, ModSmall
  <2> QED
    BY <2>1
<1>2. CASE n >= Capacity
  <2>1. n % Capacity = n - Capacity /\ (n + 1) % Capacity = n + 1 - Capacity
    BY <1>2, ModWraps
  <2>2. (n - Capacity + 1) % Capacity = n - Capacity + 1
    BY <1>2, ModSmall
  <2> QED
    BY <1>2, <2>1, <2>2
<1> QED
  BY <1>1, <1>2

\* An index advanced by one stays in the array.
LEMMA NextIndex ==
  ASSUME NEW k \in Indices
  PROVE  (k + 1) % Capacity \in Indices
  BY CapacityAssumption, SMT DEF Indices

-----------------------------------------------------------------------------
(* The inductive invariant.  A caller inside rb_enqueue always carries a   *)
(* job: without it RingShape is not preserved by Store.                    *)
ArgsReady == \A p \in Producers : Pending(p) => arg[p] \in Jobs

IInv == TypeOK /\ MutualExclusion /\ RingShape /\ ArgsReady

\* The cells of a full or partly full ring, counted from the oldest, are
\* different places of the array, and the first free one is enqueue_index.
LEMMA CellFacts ==
  ASSUME TypeOK
  PROVE  /\ \A k \in 1 .. num_jobs : Cell(k) \in Indices
         /\ \A k, m \in 1 .. num_jobs : Cell(k) = Cell(m) => k = m
         /\ num_jobs < Capacity =>
              \A k \in 1 .. num_jobs : Cell(k) # (dequeue_index + num_jobs) % Capacity
         /\ num_jobs > 0 => Cell(1) = dequeue_index
<1> USE CapacityAssumption DEF TypeOK, Indices
<1>1. ASSUME NEW k \in 1 .. num_jobs
      PROVE  /\ Cell(k) \in Indices
             /\ Cell(k) = IF dequeue_index + k - 1 < Capacity
                          THEN dequeue_index + k - 1
                          ELSE dequeue_index + k - 1 - Capacity
  <2> DEFINE n == dequeue_index + k - 1
  <2>1. n \in Nat /\ n < 2 * Capacity
    OBVIOUS
  <2>2. CASE n < Capacity
    <3>1. n % Capacity = n
      BY <2>1, <2>2, ModSmall
    <3> QED
      BY <2>1, <2>2, <3>1 DEF Cell
  <2>3. CASE n >= Capacity
    <3>1. n % Capacity = n - Capacity
      BY <2>1, <2>3, ModWraps
    <3> QED
      BY <2>1, <2>3, <3>1 DEF Cell
  <2> QED
    BY <2>1, <2>2, <2>3
<1>2. ASSUME NEW k \in 1 .. num_jobs, NEW m \in 1 .. num_jobs, Cell(k) = Cell(m)
      PROVE  k = m
  BY <1>1, <1>2
<1>3. ASSUME num_jobs < Capacity, NEW k \in 1 .. num_jobs
      PROVE  Cell(k) # (dequeue_index + num_jobs) % Capacity
  <2> DEFINE n == dequeue_index + num_jobs
  <2>1. n \in Nat /\ n < 2 * Capacity
    BY <1>3
  <2>2. n % Capacity = IF n < Capacity THEN n ELSE n - Capacity
    <3> HIDE DEF n
    <3>1. CASE n < Capacity
      BY <2>1, <3>1, ModSmall
    <3>2. CASE n >= Capacity
      <4>1. n % Capacity = n - Capacity
        BY <2>1, <3>2, ModWraps
      <4>2. ~(n < Capacity)
        BY <2>1, <3>2, CapacityAssumption
      <4> QED
        BY <4>1, <4>2
    <3> QED
      BY <2>1, <3>1, <3>2, CapacityAssumption
  <2> QED
    BY <1>1, <1>3, <2>1, <2>2
<1>4. num_jobs > 0 => Cell(1) = dequeue_index
  BY <1>1
<1> QED
  BY <1>1, <1>2, <1>3, <1>4

-----------------------------------------------------------------------------
\* The initial ring satisfies the invariant.
LEMMA InitIInv == Init => IInv
<1> SUFFICES ASSUME Init PROVE IInv
  OBVIOUS
<1> USE CapacityAssumption, RingAssumption DEF Init
<1>1. TypeOK
  BY DEF TypeOK, Indices, Locations, Threads
<1>2. MutualExclusion
  BY DEF MutualExclusion, Critical
<1>3. RingShape
  BY ModSmall DEF RingShape
<1>4. ArgsReady
  BY DEF ArgsReady, Pending, Threads
<1> QED
  BY <1>1, <1>2, <1>3, <1>4 DEF IInv

\* Every step keeps the types.
LEMMA NextTypeOK == TypeOK /\ [Next]_vars => TypeOK'
<1> SUFFICES ASSUME TypeOK, [Next]_vars PROVE TypeOK'
  OBVIOUS
<1> USE CapacityAssumption, RingAssumption DEF TypeOK, Goto, ring, Threads, Locations
<1>1. ASSUME NEW p \in Producers, NEW job \in Jobs, CallEnqueue(p, job) PROVE TypeOK'
  BY <1>1 DEF CallEnqueue
<1>2. ASSUME NEW c \in Consumers, CallDequeue(c) PROVE TypeOK'
  BY <1>2 DEF CallDequeue
<1>3. ASSUME NEW t \in Threads, Acquire(t) PROVE TypeOK'
  BY <1>3 DEF Acquire
<1>4. ASSUME NEW p \in Producers, WaitForSpace(p) PROVE TypeOK'
  BY <1>4 DEF WaitForSpace
<1>5. ASSUME NEW p \in Producers, Store(p) PROVE TypeOK'
  BY <1>5, NextIndex DEF Store
<1>6. ASSUME NEW p \in Producers, FinishEnqueue(p) PROVE TypeOK'
  BY <1>6 DEF FinishEnqueue, Signalled
<1>7. ASSUME NEW c \in Consumers, WaitForJob(c) PROVE TypeOK'
  BY <1>7 DEF WaitForJob
<1>8. ASSUME NEW c \in Consumers, Fetch(c) PROVE TypeOK'
  BY <1>8, NextIndex DEF Fetch
<1>9. ASSUME NEW c \in Consumers, FinishDequeue(c) PROVE TypeOK'
  BY <1>9 DEF FinishDequeue, Signalled
<1>10. ASSUME NEW t \in Threads, SpuriousWake(t) PROVE TypeOK'
  BY <1>10 DEF SpuriousWake
<1>11. CASE UNCHANGED vars
  BY <1>11 DEF vars
<1> QED
  BY <1>1, <1>2, <1>3, <1>4, <1>5, <1>6, <1>7, <1>8, <1>9, <1>10, <1>11
     DEF Next, EnqueueStep, DequeueStep

\* Every step keeps the owner of the mutex and the critical thread the same.
LEMMA NextMutualExclusion ==
  TypeOK /\ MutualExclusion /\ [Next]_vars => MutualExclusion'
<1> SUFFICES ASSUME TypeOK, MutualExclusion, [Next]_vars PROVE MutualExclusion'
  OBVIOUS
<1> USE RingAssumption DEF TypeOK, MutualExclusion, Critical, Goto, Threads
<1>1. ASSUME NEW p \in Producers, NEW job \in Jobs, CallEnqueue(p, job)
      PROVE  MutualExclusion'
  BY <1>1 DEF CallEnqueue
<1>2. ASSUME NEW c \in Consumers, CallDequeue(c) PROVE MutualExclusion'
  BY <1>2 DEF CallDequeue
<1>3. ASSUME NEW t \in Threads, Acquire(t) PROVE MutualExclusion'
  BY <1>3 DEF Acquire
<1>4. ASSUME NEW p \in Producers, WaitForSpace(p) PROVE MutualExclusion'
  BY <1>4 DEF WaitForSpace
<1>5. ASSUME NEW p \in Producers, Store(p) PROVE MutualExclusion'
  BY <1>5 DEF Store
<1>6. ASSUME NEW p \in Producers, FinishEnqueue(p) PROVE MutualExclusion'
  BY <1>6 DEF FinishEnqueue
<1>7. ASSUME NEW c \in Consumers, WaitForJob(c) PROVE MutualExclusion'
  BY <1>7 DEF WaitForJob
<1>8. ASSUME NEW c \in Consumers, Fetch(c) PROVE MutualExclusion'
  BY <1>8 DEF Fetch
<1>9. ASSUME NEW c \in Consumers, FinishDequeue(c) PROVE MutualExclusion'
  BY <1>9 DEF FinishDequeue
<1>10. ASSUME NEW t \in Threads, SpuriousWake(t) PROVE MutualExclusion'
  BY <1>10 DEF SpuriousWake
<1>11. CASE UNCHANGED vars
  BY <1>11 DEF vars
<1> QED
  BY <1>1, <1>2, <1>3, <1>4, <1>5, <1>6, <1>7, <1>8, <1>9, <1>10, <1>11
     DEF Next, EnqueueStep, DequeueStep
-----------------------------------------------------------------------------
(* What the two assignments to the ring do to its contents. *)

\* Contents is a sequence of jobs of length num_jobs.
LEMMA ContentsSeq ==
  ASSUME TypeOK, RingShape
  PROVE  /\ Contents \in Seq(Jobs)
         /\ Len(Contents) = num_jobs
         /\ \A k \in 1 .. num_jobs : Contents[k] = jobs[Cell(k)]
<1>1. Contents \in [1 .. num_jobs -> Jobs]
  BY DEF Contents, RingShape
<1>2. num_jobs \in Nat
  BY CapacityAssumption DEF TypeOK
<1> QED
  BY <1>1, <1>2 DEF Contents

\* Store keeps the cells in use and fills the cell after the last one.
LEMMA StoreCells ==
  ASSUME TypeOK, RingShape, NEW p \in Producers, Store(p), arg[p] \in Jobs
  PROVE  /\ num_jobs' = num_jobs + 1
         /\ \A k \in 1 .. num_jobs :
              Cell(k)' = Cell(k) /\ jobs'[Cell(k)'] = jobs[Cell(k)]
         /\ jobs'[Cell(num_jobs)'] = arg[p]
         /\ RingShape'
<1> USE CapacityAssumption
<1>1. /\ num_jobs' = num_jobs + 1 /\ dequeue_index' = dequeue_index
      /\ enqueue_index' = (enqueue_index + 1) % Capacity
      /\ jobs' = [jobs EXCEPT ![enqueue_index] = arg[p]]
      /\ num_jobs < Capacity /\ num_jobs \in Nat
      /\ enqueue_index \in Indices /\ dequeue_index \in Indices
      /\ jobs \in [Indices -> Jobs \cup {NoJob}]
  BY DEF Store, TypeOK
<1>2. ASSUME NEW k \in 1 .. num_jobs
      PROVE  Cell(k)' = Cell(k) /\ jobs'[Cell(k)'] = jobs[Cell(k)]
  <2>1. Cell(k)' = Cell(k)
    BY <1>1 DEF Cell
  <2>2. Cell(k) # enqueue_index /\ Cell(k) \in Indices
    BY <1>1, CellFacts DEF RingShape
  <2> QED
    BY <1>1, <2>1, <2>2
<1>3. Cell(num_jobs)' = enqueue_index
  <2>1. Cell(num_jobs)' = (dequeue_index + (num_jobs + 1) - 1) % Capacity
    BY <1>1 DEF Cell
  <2>2. dequeue_index + (num_jobs + 1) - 1 = dequeue_index + num_jobs
    BY <1>1 DEF Indices
  <2> QED
    BY <2>1, <2>2 DEF RingShape
<1>4. jobs'[Cell(num_jobs)'] = arg[p]
  BY <1>1, <1>3
<1>5. RingShape'
  <2>1. (dequeue_index + (num_jobs + 1)) % Capacity
          = (((dequeue_index + num_jobs) % Capacity) + 1) % Capacity
    <3>1. /\ dequeue_index + num_jobs \in Nat
          /\ dequeue_index + num_jobs + 1 < 2 * Capacity
          /\ dequeue_index + num_jobs + 1 = dequeue_index + (num_jobs + 1)
      BY <1>1 DEF Indices
    <3> QED
      BY <3>1, ModNext
  <2>2. (dequeue_index' + num_jobs') % Capacity = enqueue_index'
    BY <1>1, <2>1 DEF RingShape
  <2>3. ASSUME NEW k \in 1 .. num_jobs' PROVE jobs'[Cell(k)'] \in Jobs
    <3>1. CASE k \in 1 .. num_jobs
      BY <3>1, <1>2 DEF RingShape
    <3>2. CASE k = num_jobs'
      <4>1. Cell(k)' = Cell(num_jobs)'
        BY <3>2 DEF Cell
      <4> QED
        BY <4>1, <1>4
    <3> QED
      BY <1>1, <3>1, <3>2
  <2> QED
    BY <2>2, <2>3 DEF RingShape
<1> QED
  BY <1>1, <1>2, <1>4, <1>5

\* Fetch reads the oldest cell and renumbers the others from the next one.
LEMMA FetchCells ==
  ASSUME TypeOK, RingShape, NEW c \in Consumers, Fetch(c)
  PROVE  /\ num_jobs > 0 /\ num_jobs' = num_jobs - 1 /\ jobs' = jobs
         /\ got' = [got EXCEPT ![c] = jobs[Cell(1)]]
         /\ \A k \in 1 .. num_jobs - 1 : Cell(k)' = Cell(k + 1)
         /\ RingShape'
<1> USE CapacityAssumption
<1>1. /\ num_jobs' = num_jobs - 1 /\ jobs' = jobs
      /\ dequeue_index' = (dequeue_index + 1) % Capacity
      /\ enqueue_index' = enqueue_index
      /\ num_jobs > 0 /\ num_jobs \in 0 .. Capacity
      /\ enqueue_index \in Indices /\ dequeue_index \in Indices
      /\ got' = [got EXCEPT ![c] = jobs[dequeue_index]]
  BY DEF Fetch, TypeOK, ring
<1>2. ASSUME NEW d \in 0 .. Capacity - 1
      PROVE  (((dequeue_index + 1) % Capacity) + d) % Capacity
               = (dequeue_index + 1 + d) % Capacity
  <2>1. CASE dequeue_index + 1 < Capacity
    <3>1. (dequeue_index + 1) % Capacity = dequeue_index + 1
      BY <1>1, <2>1, ModSmall DEF Indices
    <3> QED
      BY <3>1
  <2>2. CASE dequeue_index + 1 = Capacity
    <3>1. (dequeue_index + 1) % Capacity = 0
      BY <2>2, ModWraps
    <3>2. (0 + d) % Capacity = d
      BY ModSmall
    <3>3. (Capacity + d) % Capacity = d
      <4>1. Capacity + d \in Nat /\ Capacity + d >= Capacity
              /\ Capacity + d < 2 * Capacity /\ Capacity + d - Capacity = d
        OBVIOUS
      <4> QED
        BY <4>1, ModWraps
    <3> QED
      BY <2>2, <3>1, <3>2, <3>3
  <2> QED
    BY <1>1, <2>1, <2>2 DEF Indices
<1>3. ASSUME NEW k \in 1 .. num_jobs - 1 PROVE Cell(k)' = Cell(k + 1)
  <2>1. k - 1 \in 0 .. Capacity - 1
    BY <1>1
  <2>2. Cell(k)' = (((dequeue_index + 1) % Capacity) + k - 1) % Capacity
    BY <1>1 DEF Cell
  <2>3. ((dequeue_index + 1) % Capacity) + k - 1
          = ((dequeue_index + 1) % Capacity) + (k - 1)
    BY <1>1, NextIndex DEF Indices
  <2>4. dequeue_index + 1 + (k - 1) = dequeue_index + (k + 1) - 1
    BY <1>1 DEF Indices
  <2> QED
    BY <1>2, <2>1, <2>2, <2>3, <2>4 DEF Cell
<1>4. (dequeue_index' + num_jobs') % Capacity = enqueue_index'
  <2>1. num_jobs - 1 \in 0 .. Capacity - 1
    BY <1>1
  <2>2. dequeue_index + 1 + (num_jobs - 1) = dequeue_index + num_jobs
    BY <1>1 DEF Indices
  <2> QED
    BY <1>1, <1>2, <2>1, <2>2 DEF RingShape
<1>5. \A k \in 1 .. num_jobs' : jobs'[Cell(k)'] \in Jobs
  BY <1>1, <1>3 DEF RingShape
<1>6. Cell(1) = dequeue_index
  BY <1>1, CellFacts
<1> QED
  BY <1>1, <1>3, <1>4, <1>5, <1>6 DEF RingShape

\* Every step keeps the ring's shape.
LEMMA NextRingShape == IInv /\ [Next]_vars => RingShape'
<1> SUFFICES ASSUME IInv, [Next]_vars PROVE RingShape'
  OBVIOUS
<1> USE DEF IInv
<1>1. ASSUME NEW p \in Producers, Store(p) PROVE RingShape'
  <2>1. arg[p] \in Jobs
    BY <1>1 DEF Store, Goto, ArgsReady, Pending
  <2> QED
    BY <1>1, <2>1, StoreCells
<1>2. ASSUME NEW c \in Consumers, Fetch(c) PROVE RingShape'
  BY <1>2, FetchCells
<1>3. CASE UNCHANGED ring
  BY <1>3 DEF ring, RingShape, Cell
<1>4. UNCHANGED ring \/ (\E p \in Producers : Store(p)) \/ (\E c \in Consumers : Fetch(c))
  BY DEF Next, EnqueueStep, DequeueStep, CallEnqueue, CallDequeue, Acquire,
         WaitForSpace, FinishEnqueue, WaitForJob, FinishDequeue, SpuriousWake,
         ring, vars
<1> QED
  BY <1>1, <1>2, <1>3, <1>4

\* A caller keeps its job until it has stored it.
LEMMA NextArgsReady == IInv /\ [Next]_vars => ArgsReady'
<1> SUFFICES ASSUME IInv, [Next]_vars PROVE ArgsReady'
  OBVIOUS
<1> USE RingAssumption DEF IInv, TypeOK, ArgsReady, Pending, Goto, Threads
<1>1. ASSUME NEW p \in Producers, NEW job \in Jobs, CallEnqueue(p, job)
      PROVE  ArgsReady'
  BY <1>1 DEF CallEnqueue
<1>2. ASSUME NEW c \in Consumers, CallDequeue(c) PROVE ArgsReady'
  BY <1>2 DEF CallDequeue
<1>3. ASSUME NEW t \in Threads, Acquire(t) PROVE ArgsReady'
  BY <1>3 DEF Acquire
<1>4. ASSUME NEW p \in Producers, WaitForSpace(p) PROVE ArgsReady'
  BY <1>4 DEF WaitForSpace
<1>5. ASSUME NEW p \in Producers, Store(p) \/ FinishEnqueue(p) PROVE ArgsReady'
  BY <1>5 DEF Store, FinishEnqueue
<1>6. ASSUME NEW c \in Consumers, WaitForJob(c) \/ Fetch(c) \/ FinishDequeue(c)
      PROVE  ArgsReady'
  BY <1>6 DEF WaitForJob, Fetch, FinishDequeue
<1>7. ASSUME NEW t \in Threads, SpuriousWake(t) PROVE ArgsReady'
  BY <1>7 DEF SpuriousWake
<1>8. CASE UNCHANGED vars
  BY <1>8 DEF vars
<1> QED
  BY <1>1, <1>2, <1>3, <1>4, <1>5, <1>6, <1>7, <1>8 DEF Next, EnqueueStep, DequeueStep

-----------------------------------------------------------------------------
\* The inductive invariant holds of every behaviour.
THEOREM Invariance == SafeSpec => []IInv
<1>1. IInv /\ [Next]_vars => IInv'
  BY NextTypeOK, NextMutualExclusion, NextRingShape, NextArgsReady DEF IInv
<1> QED
  BY InitIInv, <1>1, PTL DEF SafeSpec

\* The types of the ring, in particular the range of the count and of both
\* indices (greptile.c:59-89).
THEOREM TypeCorrect == SafeSpec => []TypeOK
<1>1. IInv => TypeOK
  BY DEF IInv
<1> QED
  BY <1>1, Invariance, PTL

\* At most one thread, the owner of the mutex, is between the lock and the
\* unlock of rb_enqueue or rb_dequeue (greptile.c:60-71 and 76-87).
THEOREM MutexProtects == SafeSpec => []MutualExclusion
<1>1. IInv => MutualExclusion
  BY DEF IInv
<1> QED
  BY <1>1, Invariance, PTL

\* The count and the indices agree and no consumer reads a cell that was not
\* written (greptile.c:66-68 and 82-84).
THEOREM RingSound == SafeSpec => []RingShape
<1>1. IInv => RingShape
  BY DEF IInv
<1> QED
  BY <1>1, Invariance, PTL
-----------------------------------------------------------------------------
(* The ring implements the queue: CallEnqueue is Offer, Store is Put,      *)
(* CallDequeue is Ask, Fetch is Take, and every other step stutters.       *)

Offered == [p \in Producers |-> IF Pending(p) THEN arg[p] ELSE NoJob]
Wanting == {c \in Consumers : Pending(c)}

\* Store appends the caller's job to the contents.
LEMMA StoreAppends ==
  ASSUME IInv, NEW p \in Producers, Store(p)
  PROVE  Contents' = Append(Contents, arg[p]) /\ Len(Contents) < Capacity
<1> USE DEF IInv
<1>1. arg[p] \in Jobs
  BY DEF Store, Goto, ArgsReady, Pending
<1>2. /\ num_jobs' = num_jobs + 1 /\ num_jobs \in Nat /\ num_jobs < Capacity
  BY CapacityAssumption DEF Store, TypeOK
<1>3. Contents \in Seq(Jobs) /\ Len(Contents) = num_jobs
      /\ \A k \in 1 .. num_jobs : Contents[k] = jobs[Cell(k)]
  BY ContentsSeq
<1>4. Contents' = [k \in 1 .. num_jobs + 1 |-> jobs'[Cell(k)']]
  BY <1>2 DEF Contents
<1>5. \A k \in 1 .. num_jobs + 1 :
        jobs'[Cell(k)'] = IF k <= num_jobs THEN Contents[k] ELSE arg[p]
  <2>1. ASSUME NEW k \in 1 .. num_jobs PROVE jobs'[Cell(k)'] = Contents[k]
    BY <1>1, <1>3, StoreCells
  <2>2. jobs'[Cell(num_jobs)'] = arg[p]
    BY <1>1, StoreCells
  <2>3. ASSUME NEW k \in 1 .. num_jobs + 1, k = num_jobs'
        PROVE  jobs'[Cell(k)'] = arg[p]
    BY <2>2, <2>3 DEF Cell
  <2> QED
    BY <1>2, <2>1, <2>3
<1>6. Append(Contents, arg[p])
        = [k \in 1 .. num_jobs + 1 |-> IF k <= num_jobs THEN Contents[k] ELSE arg[p]]
  <2> DEFINE s == Append(Contents, arg[p])
             f == [k \in 1 .. num_jobs + 1 |-> IF k <= num_jobs THEN Contents[k] ELSE arg[p]]
  <2>1. s \in Seq(Jobs) /\ Len(s) = num_jobs + 1
        /\ \A k \in 1 .. num_jobs : s[k] = Contents[k]
        /\ s[num_jobs + 1] = arg[p]
    BY <1>1, <1>3, AppendProperties
  <2>2. s \in [1 .. num_jobs + 1 -> Jobs]
    BY <2>1, LenProperties
  <2>3. \A k \in 1 .. num_jobs + 1 : s[k] = f[k]
    BY <1>2, <2>1
  <2>4. f = [k \in 1 .. num_jobs + 1 |-> f[k]]
    OBVIOUS
  <2>5. s = [k \in 1 .. num_jobs + 1 |-> s[k]]
    BY <2>2
  <2> QED
    BY <2>3, <2>5
<1> QED
  BY <1>2, <1>3, <1>4, <1>5, <1>6

\* Fetch delivers the head of the contents and leaves the tail.
LEMMA FetchTakes ==
  ASSUME IInv, NEW c \in Consumers, Fetch(c)
  PROVE  /\ Contents # <<>>
         /\ got' = [got EXCEPT ![c] = Head(Contents)]
         /\ Contents' = Tail(Contents)
<1> USE DEF IInv
<1>1. /\ num_jobs' = num_jobs - 1 /\ num_jobs \in Nat /\ num_jobs > 0
      /\ jobs' = jobs /\ got' = [got EXCEPT ![c] = jobs[Cell(1)]]
      /\ \A k \in 1 .. num_jobs - 1 : Cell(k)' = Cell(k + 1)
  BY FetchCells, CapacityAssumption DEF TypeOK
<1>2. Contents \in Seq(Jobs) /\ Len(Contents) = num_jobs
      /\ \A k \in 1 .. num_jobs : Contents[k] = jobs[Cell(k)]
  BY ContentsSeq
<1>3. Contents # <<>>
  BY <1>1, <1>2
<1>4. Head(Contents) = jobs[Cell(1)]
  BY <1>1, <1>2, <1>3
<1>5. Contents' = [k \in 1 .. num_jobs - 1 |-> Contents[k + 1]]
  <2>1. Contents' = [k \in 1 .. num_jobs - 1 |-> jobs[Cell(k)']]
    BY <1>1 DEF Contents
  <2>2. \A k \in 1 .. num_jobs - 1 : jobs[Cell(k)'] = Contents[k + 1]
    BY <1>1, <1>2
  <2> QED
    BY <2>1, <2>2
<1>6. Tail(Contents) = [k \in 1 .. num_jobs - 1 |-> Contents[k + 1]]
  <2> DEFINE s == Tail(Contents)
  <2>1. s \in Seq(Jobs) /\ Len(s) = num_jobs - 1
        /\ \A k \in 1 .. num_jobs - 1 : s[k] = Contents[k + 1]
    BY <1>2, <1>3, HeadTailProperties
  <2>2. s = [k \in 1 .. num_jobs - 1 |-> s[k]]
    BY <2>1, LenProperties
  <2> QED
    BY <2>1, <2>2
<1> QED
  BY <1>1, <1>3, <1>4, <1>5, <1>6

\* The initial ring is the empty queue.
LEMMA InitQueue == Init => Queue!Init
<1> SUFFICES ASSUME Init PROVE Queue!Init
  OBVIOUS
<1>1. Contents = <<>>
  BY DEF Init, Contents
<1>2. Offered = [p \in Producers |-> NoJob] /\ Wanting = {}
  BY DEF Init, Offered, Wanting, Pending, Threads
<1> QED
  BY <1>1, <1>2 DEF Queue!Init, Init, Offered, Wanting

\* Every step of the ring is a step of the queue or leaves it unchanged.
LEMMA NextQueue == IInv /\ [Next]_vars => [Queue!Next]_(Queue!vars)
<1> SUFFICES ASSUME IInv, [Next]_vars PROVE [Queue!Next]_(Queue!vars)
  OBVIOUS
<1> USE RingAssumption DEF IInv, TypeOK, Goto, Threads
<1>1. ASSUME NEW p \in Producers, NEW job \in Jobs, CallEnqueue(p, job)
      PROVE  Queue!Offer(p, job)
  <2>1. Contents' = Contents
    BY <1>1 DEF CallEnqueue, Contents, Cell, ring
  <2>2. Wanting' = Wanting /\ got' = got
    BY <1>1 DEF CallEnqueue, Wanting, Pending
  <2>3. Offered[p] = NoJob /\ Offered' = [Offered EXCEPT ![p] = job]
    BY <1>1 DEF CallEnqueue, Offered, Pending
  <2> QED
    BY <2>1, <2>2, <2>3 DEF Queue!Offer, Offered, Wanting
<1>2. ASSUME NEW c \in Consumers, CallDequeue(c) PROVE Queue!Ask(c)
  <2>1. Contents' = Contents
    BY <1>2 DEF CallDequeue, Contents, Cell, ring
  <2>2. Offered' = Offered /\ got' = got
    BY <1>2 DEF CallDequeue, Offered, Pending
  <2>3. c \notin Wanting /\ Wanting' = Wanting \cup {c}
    BY <1>2 DEF CallDequeue, Wanting, Pending
  <2> QED
    BY <2>1, <2>2, <2>3 DEF Queue!Ask, Offered, Wanting
<1>3. ASSUME NEW p \in Producers, Store(p) PROVE Queue!Put(p)
  <2>1. Contents' = Append(Contents, arg[p]) /\ Len(Contents) < Capacity
    BY <1>3, StoreAppends
  <2>2. arg[p] \in Jobs
    BY <1>3 DEF Store, ArgsReady, Pending
  <2>3. Offered[p] = arg[p] /\ Offered' = [Offered EXCEPT ![p] = NoJob]
    BY <1>3 DEF Store, Offered, Pending
  <2>4. Wanting' = Wanting /\ got' = got
    BY <1>3 DEF Store, Wanting, Pending
  <2> QED
    BY <2>1, <2>2, <2>3, <2>4 DEF Queue!Put, Offered, Wanting
<1>4. ASSUME NEW c \in Consumers, Fetch(c) PROVE Queue!Take(c)
  <2>1. /\ Contents # <<>> /\ Contents' = Tail(Contents)
        /\ got' = [got EXCEPT ![c] = Head(Contents)]
    BY <1>4, FetchTakes
  <2>2. c \in Wanting /\ Wanting' = Wanting \ {c}
    BY <1>4 DEF Fetch, Wanting, Pending
  <2>3. Offered' = Offered
    BY <1>4 DEF Fetch, Offered, Pending
  <2> QED
    BY <2>1, <2>2, <2>3 DEF Queue!Take, Offered, Wanting
<1>5. ASSUME UNCHANGED <<ring, arg, got>>, \A t \in Threads : Pending(t)' <=> Pending(t)
      PROVE  UNCHANGED Queue!vars
  <2>1. Contents' = Contents
    BY <1>5 DEF Contents, Cell, ring
  <2>2. Offered' = Offered /\ Wanting' = Wanting /\ got' = got
    BY <1>5 DEF Offered, Wanting
  <2> QED
    BY <2>1, <2>2 DEF Queue!vars, Offered, Wanting
<1>6. ASSUME NEW t \in Threads, Acquire(t) \/ SpuriousWake(t)
      PROVE  UNCHANGED Queue!vars
  BY <1>5, <1>6 DEF Acquire, SpuriousWake, Pending
<1>7. ASSUME NEW p \in Producers, WaitForSpace(p) \/ FinishEnqueue(p)
      PROVE  UNCHANGED Queue!vars
  BY <1>5, <1>7 DEF WaitForSpace, FinishEnqueue, Pending
<1>8. ASSUME NEW c \in Consumers, WaitForJob(c) \/ FinishDequeue(c)
      PROVE  UNCHANGED Queue!vars
  BY <1>5, <1>8 DEF WaitForJob, FinishDequeue, Pending
<1>9. CASE UNCHANGED vars
  BY <1>5, <1>9 DEF vars, ring, Pending
<1> QED
  BY <1>1, <1>2, <1>3, <1>4, <1>6, <1>7, <1>8, <1>9
     DEF Next, EnqueueStep, DequeueStep, Queue!Next

\* Safety half of ImplementsQueue: jobs leave the ring in the order they
\* entered it, each to one caller, none lost and none delivered twice, for
\* every capacity and every number of threads (greptile.c:59-89).
THEOREM QueueRefinement == SafeSpec => Queue!SafeSpec
BY Invariance, InitQueue, NextQueue, PTL DEF SafeSpec, Queue!SafeSpec

-----------------------------------------------------------------------------
(* No wake-up is lost, for any finite number of threads and any capacity: a *)
(* counting argument over the sets of threads that will still look at       *)
(* num_jobs or will still signal.                                           *)

WInv == IInv /\ SleepersWait /\ JobWakeupsSuffice /\ SpaceWakeupsSuffice

-----------------------------------------------------------------------------
(* Cardinalities. *)

\* Sets of threads are finite and can be counted.
LEMMA Countable ==
  ASSUME NEW S \in SUBSET Threads
  PROVE  IsFiniteSet(S) /\ Cardinality(S) \in Nat
  BY ThreadsAssumption, FS_Subset, FS_CardinalityType

\* One more thread counts as one.
LEMMA OneMore ==
  ASSUME NEW S \in SUBSET Threads, NEW t \in Threads, t \notin S
  PROVE  Cardinality(S \cup {t}) = Cardinality(S) + 1
  BY Countable, FS_AddElement

\* Without one thread there is at most one less.
LEMMA OneLess ==
  ASSUME NEW S \in SUBSET Threads, NEW t \in Threads
  PROVE  /\ Cardinality(S \ {t}) \in Nat
         /\ Cardinality(S \ {t}) >= Cardinality(S) - 1
  BY Countable, FS_RemoveElement

\* A larger set counts no less.
LEMMA NoFewer ==
  ASSUME NEW S \in SUBSET Threads, NEW T \in SUBSET Threads, S \subseteq T
  PROVE  Cardinality(S) <= Cardinality(T)
  BY Countable, FS_Subset

-----------------------------------------------------------------------------
(* Consumers that wait for jobs. *)

\* As many jobs and no fewer threads to take care of them.
LEMMA JobsNoWorse ==
  ASSUME TypeOK, TypeOK', JobWakeupsSuffice,
         job_waiters' # {} => job_waiters # {}, num_jobs' = num_jobs,
         Awake(Consumers) \subseteq Awake(Consumers)',
         Signalling(Producers) \subseteq Signalling(Producers)'
  PROVE  JobWakeupsSuffice'
<1> SUFFICES ASSUME job_waiters' # {}
             PROVE  num_jobs' <= Cardinality(Awake(Consumers)')
                                   + Cardinality(Signalling(Producers)')
  BY DEF JobWakeupsSuffice
<1>1. num_jobs <= Cardinality(Awake(Consumers)) + Cardinality(Signalling(Producers))
  BY DEF JobWakeupsSuffice
<1>2. /\ Awake(Consumers) \in SUBSET Threads /\ Awake(Consumers)' \in SUBSET Threads
      /\ Signalling(Producers) \in SUBSET Threads
      /\ Signalling(Producers)' \in SUBSET Threads
  BY DEF Awake, Signalling, Threads
<1>3. /\ Cardinality(Awake(Consumers)) <= Cardinality(Awake(Consumers)')
      /\ Cardinality(Signalling(Producers)) <= Cardinality(Signalling(Producers)')
  BY <1>2, NoFewer
<1>4. /\ Cardinality(Awake(Consumers)) \in Nat /\ Cardinality(Awake(Consumers)') \in Nat
      /\ Cardinality(Signalling(Producers)) \in Nat
      /\ Cardinality(Signalling(Producers)') \in Nat
  BY <1>2, Countable
<1> HIDE DEF TypeOK
<1>5. num_jobs \in Nat
  BY DEF TypeOK
<1> QED
  BY <1>1, <1>3, <1>4, <1>5

\* Store adds a job and a thread that has yet to signal; the signal wakes a
\* consumer, who counts in the place of the signaller; a job that is taken
\* takes one consumer out of the count.
LEMMA JobsCovered ==
  ASSUME WInv, [Next]_vars, IInv'
  PROVE  JobWakeupsSuffice'
<1> USE RingAssumption DEF Threads
<1> DEFINE AC == Awake(Consumers)
           SP == Signalling(Producers)
<1>1. /\ TypeOK /\ TypeOK' /\ JobWakeupsSuffice
      /\ \A t \in job_waiters \cup space_waiters : at[t] = "wait"
      /\ job_waiters \subseteq Consumers /\ space_waiters \subseteq Producers
      /\ at \in [Threads -> Locations]
      /\ num_jobs \in Nat
  BY DEF WInv, IInv, TypeOK, SleepersWait
<1>2. /\ AC \in SUBSET Threads /\ SP \in SUBSET Threads
      /\ Cardinality(AC) \in Nat /\ Cardinality(SP) \in Nat
  BY Countable DEF Awake, Signalling
<1>3. ASSUME NEW p \in Producers, NEW job \in Jobs, CallEnqueue(p, job)
      PROVE  JobWakeupsSuffice'
  <2>1. AC \subseteq AC' /\ SP \subseteq SP'
    BY <1>1, <1>3 DEF CallEnqueue, Goto, Awake, Signalling, Pending
  <2> QED
    BY <1>1, <1>3, <2>1, JobsNoWorse DEF CallEnqueue, ring
<1>4. ASSUME NEW c \in Consumers, CallDequeue(c) PROVE JobWakeupsSuffice'
  <2>1. AC \subseteq AC' /\ SP \subseteq SP'
    BY <1>1, <1>4 DEF CallDequeue, Goto, Awake, Signalling, Pending
  <2> QED
    BY <1>1, <1>4, <2>1, JobsNoWorse DEF CallDequeue, ring
<1>5. ASSUME NEW t \in Threads, Acquire(t) PROVE JobWakeupsSuffice'
  <2>1. AC \subseteq AC' /\ SP \subseteq SP'
    BY <1>1, <1>5 DEF Acquire, Goto, Awake, Signalling, Pending
  <2> QED
    BY <1>1, <1>5, <2>1, JobsNoWorse DEF Acquire, ring
<1>6. ASSUME NEW p \in Producers, WaitForSpace(p) PROVE JobWakeupsSuffice'
  <2>1. AC \subseteq AC' /\ SP \subseteq SP'
    BY <1>1, <1>6 DEF WaitForSpace, Goto, Awake, Signalling, Pending
  <2> QED
    BY <1>1, <1>6, <2>1, JobsNoWorse DEF WaitForSpace, ring
<1>7. ASSUME NEW p \in Producers, Store(p) PROVE JobWakeupsSuffice'
  <2>1. AC' = AC /\ SP' = SP \cup {p} /\ p \notin SP
    BY <1>1, <1>7 DEF Store, Goto, Awake, Signalling, Pending
  <2>2. Cardinality(SP') = Cardinality(SP) + 1
    BY <1>2, <2>1, OneMore
  <2>3. num_jobs' = num_jobs + 1 /\ job_waiters' = job_waiters
    BY <1>7 DEF Store
  <2>4. job_waiters # {} => num_jobs' <= Cardinality(AC') + Cardinality(SP')
    BY <1>1, <1>2, <2>1, <2>2, <2>3 DEF JobWakeupsSuffice
  <2> QED
    BY <2>3, <2>4 DEF JobWakeupsSuffice
<1>8. ASSUME NEW p \in Producers, FinishEnqueue(p) PROVE JobWakeupsSuffice'
  <2>1. CASE job_waiters = {}
    BY <1>8, <2>1 DEF FinishEnqueue, Signalled, JobWakeupsSuffice
  <2>2. CASE job_waiters # {}
    <3>1. PICK t \in job_waiters : job_waiters' = job_waiters \ {t}
      BY <1>8, <2>2 DEF FinishEnqueue, Signalled
    <3>2. AC' = AC \cup {t} /\ t \notin AC /\ SP' = SP \ {p}
      BY <1>1, <1>8, <3>1 DEF FinishEnqueue, Goto, Awake, Signalling, Pending
    <3>3. /\ Cardinality(AC') = Cardinality(AC) + 1
          /\ Cardinality(SP') \in Nat /\ Cardinality(SP') >= Cardinality(SP) - 1
      BY <1>1, <1>2, <3>1, <3>2, OneMore, OneLess
    <3>4. num_jobs' = num_jobs
      BY <1>8 DEF FinishEnqueue, ring
    <3>5. num_jobs <= Cardinality(AC) + Cardinality(SP)
      BY <1>1, <2>2 DEF JobWakeupsSuffice
    <3>6. num_jobs' <= Cardinality(AC') + Cardinality(SP')
      BY <1>1, <1>2, <3>3, <3>4, <3>5
    <3> QED
      BY <3>6 DEF JobWakeupsSuffice
  <2> QED
    BY <2>1, <2>2
<1>9. ASSUME NEW c \in Consumers, WaitForJob(c) PROVE JobWakeupsSuffice'
  <2>1. num_jobs' = 0
    BY <1>9 DEF WaitForJob, ring
  <2>2. AC' \in SUBSET Threads /\ SP' \in SUBSET Threads
    BY DEF Awake, Signalling
  <2>3. Cardinality(AC') \in Nat /\ Cardinality(SP') \in Nat
    BY <2>2, Countable
  <2>4. num_jobs' <= Cardinality(AC') + Cardinality(SP')
    BY <2>1, <2>3
  <2> QED
    BY <2>4 DEF JobWakeupsSuffice
<1>10. ASSUME NEW c \in Consumers, Fetch(c) PROVE JobWakeupsSuffice'
  <2>1. AC' = AC \ {c} /\ SP' = SP
    BY <1>1, <1>10 DEF Fetch, Goto, Awake, Signalling, Pending
  <2>2. Cardinality(AC') \in Nat /\ Cardinality(AC') >= Cardinality(AC) - 1
    BY <1>2, <2>1, OneLess
  <2>3. num_jobs' = num_jobs - 1 /\ job_waiters' = job_waiters
    BY <1>10 DEF Fetch
  <2>4. job_waiters # {} => num_jobs' <= Cardinality(AC') + Cardinality(SP')
    BY <1>1, <1>2, <2>1, <2>2, <2>3 DEF JobWakeupsSuffice
  <2> QED
    BY <2>3, <2>4 DEF JobWakeupsSuffice
<1>11. ASSUME NEW c \in Consumers, FinishDequeue(c) PROVE JobWakeupsSuffice'
  <2>1. space_waiters' \subseteq space_waiters
    BY <1>11 DEF FinishDequeue, Signalled
  <2>2. AC \subseteq AC' /\ SP \subseteq SP'
    BY <1>1, <1>11, <2>1 DEF FinishDequeue, Goto, Awake, Signalling, Pending
  <2> QED
    BY <1>1, <1>11, <2>2, JobsNoWorse DEF FinishDequeue, ring
<1>12. ASSUME NEW t \in Threads, SpuriousWake(t) PROVE JobWakeupsSuffice'
  <2>1. AC \subseteq AC' /\ SP \subseteq SP'
    BY <1>1, <1>12 DEF SpuriousWake, Awake, Signalling, Pending
  <2> QED
    BY <1>1, <1>12, <2>1, JobsNoWorse DEF SpuriousWake, ring
<1>13. CASE UNCHANGED vars
  BY <1>1, <1>13 DEF vars, JobWakeupsSuffice, Awake, Signalling, Pending
<1> QED
  BY <1>3, <1>4, <1>5, <1>6, <1>7, <1>8, <1>9, <1>10, <1>11, <1>12, <1>13
     DEF Next, EnqueueStep, DequeueStep

-----------------------------------------------------------------------------
(* Producers that wait for space. *)

\* As many free cells and no fewer threads to take care of them.
LEMMA SpaceNoWorse ==
  ASSUME TypeOK, TypeOK', SpaceWakeupsSuffice,
         space_waiters' # {} => space_waiters # {}, num_jobs' = num_jobs,
         Awake(Producers) \subseteq Awake(Producers)',
         Signalling(Consumers) \subseteq Signalling(Consumers)'
  PROVE  SpaceWakeupsSuffice'
<1> SUFFICES ASSUME space_waiters' # {}
             PROVE  Capacity - num_jobs' <= Cardinality(Awake(Producers)')
                                              + Cardinality(Signalling(Consumers)')
  BY DEF SpaceWakeupsSuffice
<1>1. Capacity - num_jobs
        <= Cardinality(Awake(Producers)) + Cardinality(Signalling(Consumers))
  BY DEF SpaceWakeupsSuffice
<1>2. /\ Awake(Producers) \in SUBSET Threads /\ Awake(Producers)' \in SUBSET Threads
      /\ Signalling(Consumers) \in SUBSET Threads
      /\ Signalling(Consumers)' \in SUBSET Threads
  BY DEF Awake, Signalling, Threads
<1>3. /\ Cardinality(Awake(Producers)) <= Cardinality(Awake(Producers)')
      /\ Cardinality(Signalling(Consumers)) <= Cardinality(Signalling(Consumers)')
  BY <1>2, NoFewer
<1>4. /\ Cardinality(Awake(Producers)) \in Nat /\ Cardinality(Awake(Producers)') \in Nat
      /\ Cardinality(Signalling(Consumers)) \in Nat
      /\ Cardinality(Signalling(Consumers)') \in Nat
  BY <1>2, Countable
<1> HIDE DEF TypeOK
<1>5. num_jobs \in Nat /\ Capacity \in Nat
  BY CapacityAssumption DEF TypeOK
<1> QED
  BY <1>1, <1>3, <1>4, <1>5

\* The same account with the roles exchanged.
LEMMA SpaceCovered ==
  ASSUME WInv, [Next]_vars, IInv'
  PROVE  SpaceWakeupsSuffice'
<1> USE RingAssumption DEF Threads
<1> DEFINE AP == Awake(Producers)
           SC == Signalling(Consumers)
<1>1. /\ TypeOK /\ TypeOK' /\ SpaceWakeupsSuffice
      /\ \A t \in job_waiters \cup space_waiters : at[t] = "wait"
      /\ job_waiters \subseteq Consumers /\ space_waiters \subseteq Producers
      /\ at \in [Threads -> Locations]
      /\ num_jobs \in Nat /\ Capacity \in Nat
  BY CapacityAssumption DEF WInv, IInv, TypeOK, SleepersWait
<1>2. /\ AP \in SUBSET Threads /\ SC \in SUBSET Threads
      /\ Cardinality(AP) \in Nat /\ Cardinality(SC) \in Nat
  BY Countable DEF Awake, Signalling
<1>3. ASSUME NEW p \in Producers, NEW job \in Jobs, CallEnqueue(p, job)
      PROVE  SpaceWakeupsSuffice'
  <2>1. AP \subseteq AP' /\ SC \subseteq SC'
    BY <1>1, <1>3 DEF CallEnqueue, Goto, Awake, Signalling, Pending
  <2> QED
    BY <1>1, <1>3, <2>1, SpaceNoWorse DEF CallEnqueue, ring
<1>4. ASSUME NEW c \in Consumers, CallDequeue(c) PROVE SpaceWakeupsSuffice'
  <2>1. AP \subseteq AP' /\ SC \subseteq SC'
    BY <1>1, <1>4 DEF CallDequeue, Goto, Awake, Signalling, Pending
  <2> QED
    BY <1>1, <1>4, <2>1, SpaceNoWorse DEF CallDequeue, ring
<1>5. ASSUME NEW t \in Threads, Acquire(t) PROVE SpaceWakeupsSuffice'
  <2>1. AP \subseteq AP' /\ SC \subseteq SC'
    BY <1>1, <1>5 DEF Acquire, Goto, Awake, Signalling, Pending
  <2> QED
    BY <1>1, <1>5, <2>1, SpaceNoWorse DEF Acquire, ring
<1>6. ASSUME NEW c \in Consumers, WaitForJob(c) PROVE SpaceWakeupsSuffice'
  <2>1. AP \subseteq AP' /\ SC \subseteq SC'
    BY <1>1, <1>6 DEF WaitForJob, Goto, Awake, Signalling, Pending
  <2> QED
    BY <1>1, <1>6, <2>1, SpaceNoWorse DEF WaitForJob, ring
<1>7. ASSUME NEW c \in Consumers, Fetch(c) PROVE SpaceWakeupsSuffice'
  <2>1. AP' = AP /\ SC' = SC \cup {c} /\ c \notin SC
    BY <1>1, <1>7 DEF Fetch, Goto, Awake, Signalling, Pending
  <2>2. Cardinality(SC') = Cardinality(SC) + 1
    BY <1>2, <2>1, OneMore
  <2>3. num_jobs' = num_jobs - 1 /\ space_waiters' = space_waiters
    BY <1>7 DEF Fetch
  <2>4. space_waiters # {} =>
          Capacity - num_jobs' <= Cardinality(AP') + Cardinality(SC')
    BY <1>1, <1>2, <2>1, <2>2, <2>3 DEF SpaceWakeupsSuffice
  <2> QED
    BY <2>3, <2>4 DEF SpaceWakeupsSuffice
<1>8. ASSUME NEW c \in Consumers, FinishDequeue(c) PROVE SpaceWakeupsSuffice'
  <2>1. CASE space_waiters = {}
    BY <1>8, <2>1 DEF FinishDequeue, Signalled, SpaceWakeupsSuffice
  <2>2. CASE space_waiters # {}
    <3>1. PICK t \in space_waiters : space_waiters' = space_waiters \ {t}
      BY <1>8, <2>2 DEF FinishDequeue, Signalled
    <3>2. AP' = AP \cup {t} /\ t \notin AP /\ SC' = SC \ {c}
      BY <1>1, <1>8, <3>1 DEF FinishDequeue, Goto, Awake, Signalling, Pending
    <3>3. /\ Cardinality(AP') = Cardinality(AP) + 1
          /\ Cardinality(SC') \in Nat /\ Cardinality(SC') >= Cardinality(SC) - 1
      BY <1>1, <1>2, <3>1, <3>2, OneMore, OneLess
    <3>4. num_jobs' = num_jobs
      BY <1>8 DEF FinishDequeue, ring
    <3>5. Capacity - num_jobs <= Cardinality(AP) + Cardinality(SC)
      BY <1>1, <2>2 DEF SpaceWakeupsSuffice
    <3>6. Capacity - num_jobs' <= Cardinality(AP') + Cardinality(SC')
      BY <1>1, <1>2, <3>3, <3>4, <3>5
    <3> QED
      BY <3>6 DEF SpaceWakeupsSuffice
  <2> QED
    BY <2>1, <2>2
<1>9. ASSUME NEW p \in Producers, WaitForSpace(p) PROVE SpaceWakeupsSuffice'
  <2>1. Capacity - num_jobs' = 0
    BY <1>1, <1>9 DEF WaitForSpace, ring
  <2>2. AP' \in SUBSET Threads /\ SC' \in SUBSET Threads
    BY DEF Awake, Signalling
  <2>3. Cardinality(AP') \in Nat /\ Cardinality(SC') \in Nat
    BY <2>2, Countable
  <2>4. Capacity - num_jobs' <= Cardinality(AP') + Cardinality(SC')
    BY <2>1, <2>3
  <2> QED
    BY <2>4 DEF SpaceWakeupsSuffice
<1>10. ASSUME NEW p \in Producers, Store(p) PROVE SpaceWakeupsSuffice'
  <2>1. AP' = AP \ {p} /\ SC' = SC
    BY <1>1, <1>10 DEF Store, Goto, Awake, Signalling, Pending
  <2>2. Cardinality(AP') \in Nat /\ Cardinality(AP') >= Cardinality(AP) - 1
    BY <1>2, <2>1, OneLess
  <2>3. num_jobs' = num_jobs + 1 /\ space_waiters' = space_waiters
    BY <1>10 DEF Store
  <2>4. space_waiters # {} =>
          Capacity - num_jobs' <= Cardinality(AP') + Cardinality(SC')
    BY <1>1, <1>2, <2>1, <2>2, <2>3 DEF SpaceWakeupsSuffice
  <2> QED
    BY <2>3, <2>4 DEF SpaceWakeupsSuffice
<1>11. ASSUME NEW p \in Producers, FinishEnqueue(p) PROVE SpaceWakeupsSuffice'
  <2>1. job_waiters' \subseteq job_waiters
    BY <1>11 DEF FinishEnqueue, Signalled
  <2>2. AP \subseteq AP' /\ SC \subseteq SC'
    BY <1>1, <1>11, <2>1 DEF FinishEnqueue, Goto, Awake, Signalling, Pending
  <2> QED
    BY <1>1, <1>11, <2>2, SpaceNoWorse DEF FinishEnqueue, ring
<1>12. ASSUME NEW t \in Threads, SpuriousWake(t) PROVE SpaceWakeupsSuffice'
  <2>1. AP \subseteq AP' /\ SC \subseteq SC'
    BY <1>1, <1>12 DEF SpuriousWake, Awake, Signalling, Pending
  <2> QED
    BY <1>1, <1>12, <2>1, SpaceNoWorse DEF SpuriousWake, ring
<1>13. CASE UNCHANGED vars
  BY <1>1, <1>13 DEF vars, SpaceWakeupsSuffice, Awake, Signalling, Pending
<1> QED
  BY <1>3, <1>4, <1>5, <1>6, <1>7, <1>8, <1>9, <1>10, <1>11, <1>12, <1>13
     DEF Next, EnqueueStep, DequeueStep

-----------------------------------------------------------------------------
\* Nobody leaves the wait while asleep, and only a wait puts him to sleep.
LEMMA SleepersStay ==
  ASSUME IInv, SleepersWait, [Next]_vars
  PROVE  SleepersWait'
<1> USE RingAssumption DEF IInv, TypeOK, SleepersWait, Threads, Goto
<1>1. ASSUME NEW p \in Producers, NEW job \in Jobs, CallEnqueue(p, job) PROVE SleepersWait'
  BY <1>1 DEF CallEnqueue
<1>2. ASSUME NEW c \in Consumers, CallDequeue(c) PROVE SleepersWait'
  BY <1>2 DEF CallDequeue
<1>3. ASSUME NEW t \in Threads, Acquire(t) PROVE SleepersWait'
  BY <1>3 DEF Acquire
<1>4. ASSUME NEW p \in Producers, WaitForSpace(p) \/ Store(p) \/ FinishEnqueue(p)
      PROVE  SleepersWait'
  BY <1>4 DEF WaitForSpace, Store, FinishEnqueue, Signalled
<1>5. ASSUME NEW c \in Consumers, WaitForJob(c) \/ Fetch(c) \/ FinishDequeue(c)
      PROVE  SleepersWait'
  BY <1>5 DEF WaitForJob, Fetch, FinishDequeue, Signalled
<1>6. ASSUME NEW t \in Threads, SpuriousWake(t) PROVE SleepersWait'
  BY <1>6 DEF SpuriousWake
<1>7. CASE UNCHANGED vars
  BY <1>7 DEF vars
<1> QED
  BY <1>1, <1>2, <1>3, <1>4, <1>5, <1>6, <1>7 DEF Next, EnqueueStep, DequeueStep

\* Nobody sleeps in the beginning.
LEMMA InitWInv == Init => WInv
  BY InitIInv
     DEF Init, WInv, SleepersWait, JobWakeupsSuffice, SpaceWakeupsSuffice

\* Every step keeps the accounts.
LEMMA NextWInv == WInv /\ [Next]_vars /\ IInv' => WInv'
  BY SleepersStay, JobsCovered, SpaceCovered DEF WInv

\* While a consumer sleeps there are enough others under way for the jobs in
\* the ring: one signal per rb_enqueue is enough (greptile.c:70 against 79-80).
THEOREM NoJobForgotten == SafeSpec => []JobWakeupsSuffice
<1>1. WInv => JobWakeupsSuffice
  BY DEF WInv
<1> QED
  BY <1>1, Invariance, InitWInv, NextWInv, PTL DEF SafeSpec

\* While a producer sleeps there are enough others under way for the free
\* cells: one signal per rb_dequeue is enough (greptile.c:86 against 63-64).
THEOREM NoSpaceForgotten == SafeSpec => []SpaceWakeupsSuffice
<1>1. WInv => SpaceWakeupsSuffice
  BY DEF WInv
<1> QED
  BY <1>1, Invariance, InitWInv, NextWInv, PTL DEF SafeSpec
=============================================================================
