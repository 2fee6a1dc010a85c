----------------------------- MODULE SearchRing -----------------------------
(***************************************************************************)
(* struct search_ring_buffer of the multi-threaded greptile and the two    *)
(* procedures that use it, rb_enqueue and rb_dequeue, as the threads run   *)
(* them: a mutex, two condition variables whose waiters may also wake      *)
(* spuriously, an array used circularly and a count.                       *)
(*                                                                         *)
(* A step is what a thread does between two points where another thread    *)
(* can get in: taking the mutex; testing the loop condition and then       *)
(* either sleeping or updating the ring; signalling and unlocking.  The    *)
(* callers (CallEnqueue, CallDequeue) are the environment here and are     *)
(* main() and search_files() in Greptile.tla.                              *)
(***************************************************************************)
EXTENDS Naturals, Sequences, FiniteSets

CONSTANTS
  Producers,    \* threads that call rb_enqueue
  Consumers,    \* threads that call rb_dequeue
  Jobs,         \* values of a struct search_job
  Capacity,     \* rb->capacity, MAX_FILES in the program
  NoJob,        \* an array cell or local that was never written
  Nobody,       \* the owner of a free mutex
  MaxSpurious   \* bound: wake-ups without a signal in one behaviour

Threads == Producers \cup Consumers

ASSUME CapacityAssumption == Capacity \in Nat \ {0}
ASSUME RingAssumption ==
  /\ Producers \cap Consumers = {}
  /\ Nobody \notin Threads
  /\ NoJob \notin Jobs
  /\ MaxSpurious \in Nat
ASSUME ThreadsAssumption == IsFiniteSet(Threads)

VARIABLES
  jobs, num_jobs, enqueue_index, dequeue_index,   \* fields of the struct
  mutex,          \* owner of rb->mutex
  job_waiters,    \* threads asleep on rb->has_job_cond
  space_waiters,  \* threads asleep on rb->has_space_cond
  at,             \* where a thread is inside its ring call, or "out"
  arg,            \* per producer: the job its call is enqueuing
  got,            \* per consumer: its local `job`
  spurious        \* spurious wake-ups so far

vars == <<jobs, num_jobs, enqueue_index, dequeue_index, mutex, job_waiters,
          space_waiters, at, arg, got, spurious>>

Indices   == 0 .. Capacity - 1
Locations == {"out", "lock", "test", "wait", "signal"}
\* Locations inside pthread_mutex_lock .. pthread_mutex_unlock.
Critical  == {"test", "signal"}

-----------------------------------------------------------------------------
(* rb_init *)
Init ==
  /\ jobs = [i \in Indices |-> NoJob]
  /\ num_jobs = 0 /\ enqueue_index = 0 /\ dequeue_index = 0
  /\ mutex = Nobody /\ job_waiters = {} /\ space_waiters = {}
  /\ at = [t \in Threads |-> "out"]
  /\ arg = [p \in Producers |-> NoJob]
  /\ got = [c \in Consumers |-> NoJob]
  /\ spurious = 0

Goto(t, from, to) == at[t] = from /\ at' = [at EXCEPT ![t] = to]

ring == <<jobs, num_jobs, enqueue_index, dequeue_index>>

CallEnqueue(p, job) ==
  /\ Goto(p, "out", "lock")
  /\ arg' = [arg EXCEPT ![p] = job]
  /\ UNCHANGED <<ring, mutex, job_waiters, space_waiters, got, spurious>>

CallDequeue(c) ==
  /\ Goto(c, "out", "lock")
  /\ UNCHANGED <<ring, mutex, job_waiters, space_waiters, arg, got, spurious>>

\* Seeded bug: a woken thread goes on without retaking the mutex.
AcquireNoRelock(t) ==
  /\ \/ mutex = Nobody /\ Goto(t, "lock", "test")
     \/ t \notin job_waiters \cup space_waiters /\ Goto(t, "wait", "test")
  /\ mutex' = t
  /\ UNCHANGED <<ring, job_waiters, space_waiters, arg, got, spurious>>

\* pthread_mutex_lock, and the relock at the end of pthread_cond_wait by a
\* thread that is no longer asleep.
Acquire(t) ==
  /\ mutex = Nobody
  /\ \/ Goto(t, "lock", "test")
     \/ /\ t \notin job_waiters \cup space_waiters
        /\ Goto(t, "wait", "test")
  /\ mutex' = t
  /\ UNCHANGED <<ring, job_waiters, space_waiters, arg, got, spurious>>

\* while (rb->num_jobs == rb->capacity) pthread_cond_wait(has_space_cond):
\* the wait releases the mutex and sleeps in one step.
WaitForSpace(p) ==
  /\ num_jobs = Capacity
  /\ Goto(p, "test", "wait")
  /\ space_waiters' = space_waiters \cup {p}
  /\ mutex' = Nobody
  /\ UNCHANGED <<ring, job_waiters, arg, got, spurious>>

\* Seeded bug: the wait for space is missing.
StoreUnguarded(p) ==
  /\ Goto(p, "test", "signal")
  /\ jobs' = [jobs EXCEPT ![enqueue_index] = arg[p]]
  /\ enqueue_index' = (enqueue_index + 1) % Capacity
  /\ num_jobs' = num_jobs + 1
  /\ UNCHANGED <<dequeue_index, mutex, job_waiters, space_waiters, arg, got,
                 spurious>>

\* The assignments of rb_enqueue to the ring.
Store(p) ==
  /\ num_jobs # Capacity
  /\ Goto(p, "test", "signal")
  /\ jobs' = [jobs EXCEPT ![enqueue_index] = arg[p]]
  /\ enqueue_index' = (enqueue_index + 1) % Capacity
  /\ num_jobs' = num_jobs + 1
  /\ UNCHANGED <<dequeue_index, mutex, job_waiters, space_waiters, arg, got,
                 spurious>>

\* pthread_cond_signal: one sleeper, if there is one, is no longer asleep.
Signalled(waiters) ==
  IF waiters = {} THEN {{}} ELSE {waiters \ {t} : t \in waiters}

\* Seeded bug: signals only when the ring was empty.
FinishEnqueueIfFirst(p) ==
  /\ Goto(p, "signal", "out")
  /\ IF num_jobs = 1 THEN job_waiters' \in Signalled(job_waiters)
                     ELSE UNCHANGED job_waiters
  /\ mutex' = Nobody
  /\ UNCHANGED <<ring, space_waiters, arg, got, spurious>>

\* pthread_cond_signal(has_job_cond), pthread_mutex_unlock, return.
FinishEnqueue(p) ==
  /\ Goto(p, "signal", "out")
  /\ job_waiters' \in Signalled(job_waiters)
  /\ mutex' = Nobody
  /\ UNCHANGED <<ring, space_waiters, arg, got, spurious>>

WaitForJob(c) ==
  /\ num_jobs = 0
  /\ Goto(c, "test", "wait")
  /\ job_waiters' = job_waiters \cup {c}
  /\ mutex' = Nobody
  /\ UNCHANGED <<ring, space_waiters, arg, got, spurious>>

\* Seeded bugs: the index is advanced before the cell is read, or not at all.
FetchAdvanceFirst(c) ==
  /\ num_jobs # 0
  /\ Goto(c, "test", "signal")
  /\ dequeue_index' = (dequeue_index + 1) % Capacity
  /\ got' = [got EXCEPT ![c] = jobs[dequeue_index']]
  /\ num_jobs' = num_jobs - 1
  /\ UNCHANGED <<jobs, enqueue_index, mutex, job_waiters, space_waiters, arg,
                 spurious>>

FetchNoAdvance(c) ==
  /\ num_jobs # 0
  /\ Goto(c, "test", "signal")
  /\ got' = [got EXCEPT ![c] = jobs[dequeue_index]]
  /\ num_jobs' = num_jobs - 1
  /\ UNCHANGED <<jobs, enqueue_index, dequeue_index, mutex, job_waiters,
                 space_waiters, arg, spurious>>

\* The assignments of rb_dequeue to its local and to the ring.
Fetch(c) ==
  /\ num_jobs # 0
  /\ Goto(c, "test", "signal")
  /\ got' = [got EXCEPT ![c] = jobs[dequeue_index]]
  /\ dequeue_index' = (dequeue_index + 1) % Capacity
  /\ num_jobs' = num_jobs - 1
  /\ UNCHANGED <<jobs, enqueue_index, mutex, job_waiters, space_waiters, arg,
                 spurious>>

\* Seeded bug: signals only when the ring was full.
FinishDequeueIfFull(c) ==
  /\ Goto(c, "signal", "out")
  /\ IF num_jobs = Capacity - 1 THEN space_waiters' \in Signalled(space_waiters)
                                ELSE UNCHANGED space_waiters
  /\ mutex' = Nobody
  /\ UNCHANGED <<ring, job_waiters, arg, got, spurious>>

FinishDequeue(c) ==
  /\ Goto(c, "signal", "out")
  /\ space_waiters' \in Signalled(space_waiters)
  /\ mutex' = Nobody
  /\ UNCHANGED <<ring, job_waiters, arg, got, spurious>>

\* POSIX lets pthread_cond_wait return with no signal sent.
SpuriousWake(t) ==
  /\ spurious < MaxSpurious
  /\ t \in job_waiters \cup space_waiters
  /\ job_waiters' = job_waiters \ {t}
  /\ space_waiters' = space_waiters \ {t}
  /\ spurious' = spurious + 1
  /\ UNCHANGED <<ring, mutex, at, arg, got>>

EnqueueStep(p) == Acquire(p) \/ WaitForSpace(p) \/ Store(p) \/ FinishEnqueue(p)
DequeueStep(c) == Acquire(c) \/ WaitForJob(c) \/ Fetch(c) \/ FinishDequeue(c)

Next ==
  \/ \E p \in Producers : EnqueueStep(p) \/ \E job \in Jobs : CallEnqueue(p, job)
  \/ \E c \in Consumers : DequeueStep(c) \/ CallDequeue(c)
  \/ \E t \in Threads : SpuriousWake(t)

SafeSpec == Init /\ [][Next]_vars

\* The scheduler runs every thread that can run.  Nothing makes a client
\* call, and nothing makes pthread_cond_wait wake spuriously.
Fairness ==
  /\ \A p \in Producers : WF_vars(EnqueueStep(p))
  /\ \A c \in Consumers : WF_vars(DequeueStep(c))

Spec == SafeSpec /\ Fairness
-----------------------------------------------------------------------------
(* The abstract queue of a ring state. *)

\* The cell of the i-th oldest job.
Cell(i) == (dequeue_index + i - 1) % Capacity
Contents == [i \in 1 .. num_jobs |-> jobs[Cell(i)]]

\* Threads whose call has not had its effect yet.
Pending(t) == at[t] \in {"lock", "test", "wait"}

Queue == INSTANCE JobQueue WITH
  queue    <- Contents,
  offered  <- [p \in Producers |-> IF Pending(p) THEN arg[p] ELSE NoJob],
  wanting  <- {c \in Consumers : Pending(c)},
  received <- got

-----------------------------------------------------------------------------
(* Properties *)

\* Every field and local keeps its type: in particular the count stays
\* within the capacity and both indices within the array (rb_enqueue and
\* rb_dequeue, greptile.c:59-89).
TypeOK ==
  /\ jobs \in [Indices -> Jobs \cup {NoJob}]
  /\ num_jobs \in 0 .. Capacity
  /\ enqueue_index \in Indices /\ dequeue_index \in Indices
  /\ mutex \in Threads \cup {Nobody}
  /\ job_waiters \subseteq Consumers /\ space_waiters \subseteq Producers
  /\ at \in [Threads -> Locations]
  /\ arg \in [Producers -> Jobs \cup {NoJob}]
  /\ got \in [Consumers -> Jobs \cup {NoJob}]
  /\ spurious \in 0 .. MaxSpurious

\* The threads between lock and unlock are exactly the owner of the mutex,
\* also after a wait gave the mutex up and took it again: no two threads
\* touch the ring at once (greptile.c:60-71 and 76-87).
MutualExclusion == \A t \in Threads : at[t] \in Critical <=> mutex = t

\* The three numbers of the ring agree, and every cell they say is occupied
\* was written: rb_dequeue never returns an uninitialised cell, whatever the
\* number of times the indices wrapped (greptile.c:66-68 and 82-84).
RingShape ==
  /\ (dequeue_index + num_jobs) % Capacity = enqueue_index
  /\ \A i \in 1 .. num_jobs : jobs[Cell(i)] \in Jobs

\* Only threads inside a wait are asleep.
SleepersWait ==
  /\ \A t \in job_waiters \cup space_waiters : at[t] = "wait"

Awake(S) == {t \in S : Pending(t) /\ t \notin job_waiters \cup space_waiters}
Signalling(S) == {t \in S : at[t] = "signal"}

\* No wake-up is lost: while a consumer sleeps on has_job_cond, every job in
\* the ring is matched by a consumer on its way to test num_jobs again or by a
\* producer that has yet to signal, although each rb_enqueue signals only one
\* sleeper and a late caller may overtake it (greptile.c:70 against 79-80).
JobWakeupsSuffice ==
  job_waiters # {} =>
    num_jobs <= Cardinality(Awake(Consumers)) + Cardinality(Signalling(Producers))

\* The same for producers asleep on has_space_cond and the free cells
\* (greptile.c:86 against 63-64).
SpaceWakeupsSuffice ==
  space_waiters # {} =>
    Capacity - num_jobs <=
      Cardinality(Awake(Producers)) + Cardinality(Signalling(Consumers))

\* The ring is a bounded first-in first-out queue: each rb_enqueue call adds
\* its job once, each rb_dequeue call returns the oldest one, and when there
\* are a job and a caller for it (room and a caller with a job) a delivery
\* (an insertion) eventually happens.
ImplementsQueue == Queue!Spec
=============================================================================
