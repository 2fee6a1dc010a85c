--------------------------- MODULE GreptileProofs ---------------------------
(***************************************************************************)
(* The program uses the ring as the ring's specification lets its callers, *)
(* for every number of workers, capacity and directory tree: what the ring *)
(* promises to such callers it promises to this program.  From that: the   *)
(* types of the program, what each of its steps does to the jobs on their  *)
(* way from main() to the workers, and that the ring is destroyed unused.  *)
(* Then the jobs themselves: the NULL jobs come behind every file, and     *)
(* there are exactly as many on their way as workers to stop.              *)
(***************************************************************************)
EXTENDS Greptile, TLAPS, SequenceTheorems, FiniteSetTheorems

\* A step of the program calls the ring, runs inside it or leaves it alone.
LEMMA StepUsesRing == [Next]_vars => [Ring!Next]_(Ring!vars)
<1> SUFFICES ASSUME [Next]_vars PROVE Ring!Next \/ UNCHANGED Ring!vars
  OBVIOUS
<1>1. UNCHANGED ringVars => UNCHANGED Ring!vars
  BY DEF ringVars, Ring!vars
<1>2. ASSUME NEW job \in Files \cup {NULL}, Ring!CallEnqueue(Main, job) PROVE Ring!Next
  BY <1>2 DEF Ring!Next
<1>3. CASE MainLocal
  <2>1. CASE CreateThread \/ OpenRoot \/ LeaveDir \/ StartJoining \/ Join \/ Destroy
    BY <1>1, <2>1 DEF CreateThread, OpenRoot, LeaveDir, StartJoining, Join, Destroy
  <2>2. CASE SendSentinel
    BY <1>2, <2>2 DEF SendSentinel
  <2>3. ASSUME NEW e \in Entries, VisitFile(e) PROVE Ring!Next
    BY <1>2, <2>3 DEF VisitFile, ReadEntry
  <2>4. ASSUME NEW e \in Entries, VisitDir(e) \/ VisitOther(e) \/ MissEntry(e) \/ VisitFails(e)
        PROVE  UNCHANGED Ring!vars
    BY <1>1, <2>4 DEF VisitDir, VisitOther, MissEntry, VisitFails
  <2> QED
    BY <1>3, <2>1, <2>2, <2>3, <2>4 DEF MainLocal
<1>4. ASSUME NEW w \in Workers, WorkerLocal(w) PROVE Ring!Next \/ UNCHANGED Ring!vars
  <2>1. CASE BeginDequeue(w)
    BY <2>1 DEF BeginDequeue, Ring!Next
  <2>2. CASE ~BeginDequeue(w)
    BY <1>1, <1>4, <2>2 DEF WorkerLocal, Quit, SearchFile, SearchFails, Flock, PrintHeader,
                       PrintJob, Funlock, FreePath, WorkerGoto
  <2> QED
    BY <2>1, <2>2
<1>5. CASE Alive(MainStep)
  BY <1>3, <1>5 DEF Alive, MainStep, Ring!Next
<1>6. ASSUME NEW w \in Workers, Alive(WorkerStep(w)) PROVE Ring!Next \/ UNCHANGED Ring!vars
  BY <1>4, <1>6 DEF Alive, WorkerStep, Ring!Next
<1>7. CASE Alive(SpuriousWake)
  BY <1>7 DEF Alive, SpuriousWake, Ring!Next, Ring!Threads
<1>8. CASE Alive(ProcessExit)
  BY <1>1, <1>8 DEF Alive, ProcessExit
<1>9. ASSUME NEW e \in Entries, Alive(Vanish(e)) PROVE UNCHANGED Ring!vars
  BY <1>1, <1>9 DEF Alive, Vanish
<1>10. CASE UNCHANGED vars
  BY <1>1, <1>10 DEF vars
<1> QED
  BY <1>5, <1>6, <1>7, <1>8, <1>9, <1>10 DEF Next, Over

\* main() is the only producer and the workers are the only consumers, each
\* inside at most one ring call at a time (greptile.c:209-331).
THEOREM RingUsed == Spec => UsesRing
<1>1. Init => Ring!Init
  BY DEF Init
<1> QED
  BY <1>1, StepUsesRing, PTL DEF Spec, SafeSpec, UsesRing, Ring!SafeSpec
-----------------------------------------------------------------------------
(* The facts proved of the ring, for this program's threads and jobs.      *)

Jobs == Files \cup {NULL}
Threads == Workers \cup {Main}

RingFacts == INSTANCE SearchRingProofs WITH
  Producers <- {Main}, Consumers <- Workers, Jobs <- Files \cup {NULL},
  Capacity <- MAX_FILES

\* The assumptions of the ring hold of the program.
LEMMA CapacityOK == MAX_FILES \in Nat \ {0}
  BY GreptileAssumption

\* main() is no worker, and the markers are neither threads nor jobs.
LEMMA RingConstantsOK ==
  /\ {Main} \cap Workers = {}
  /\ Nobody \notin RingFacts!Threads
  /\ NoJob \notin Files \cup {NULL}
  /\ MaxSpurious \in Nat
  BY GreptileAssumption DEF RingFacts!Threads

\* The threads are finitely many: main() and NUM_THREADS workers.
LEMMA ThreadsOK == RingFacts!IsFiniteSet(RingFacts!Threads)
<1>1. IsFiniteSet(Workers)
  BY FS_Interval, GreptileAssumption DEF Workers
<1>2. IsFiniteSet(Workers \cup {Main})
  BY <1>1, FS_AddElement
<1>3. RingFacts!Threads = Workers \cup {Main}
  BY DEF RingFacts!Threads
<1> QED
  BY <1>2, <1>3 DEF IsFiniteSet, RingFacts!IsFiniteSet

\* The two instances of the ring say the same.
LEMMA SameRing ==
  /\ Ring!Contents = RingFacts!Contents
  /\ \A t : Ring!Pending(t) <=> RingFacts!Pending(t)
  /\ Ring!TypeOK <=> RingFacts!TypeOK
  /\ Ring!MutualExclusion <=> RingFacts!MutualExclusion
  /\ Ring!SleepersWait <=> RingFacts!SleepersWait
<1>1. Ring!Contents = RingFacts!Contents
  BY DEF Ring!Contents, RingFacts!Contents, Ring!Cell, RingFacts!Cell
<1>2. \A t : Ring!Pending(t) <=> RingFacts!Pending(t)
  BY DEF Ring!Pending, RingFacts!Pending
<1>3. Ring!TypeOK <=> RingFacts!TypeOK
  BY DEF Ring!TypeOK, RingFacts!TypeOK, Ring!Indices, RingFacts!Indices,
         Ring!Threads, RingFacts!Threads, Ring!Locations, RingFacts!Locations
<1>4. Ring!MutualExclusion <=> RingFacts!MutualExclusion
  BY DEF Ring!MutualExclusion, RingFacts!MutualExclusion, Ring!Critical,
         RingFacts!Critical, Ring!Threads, RingFacts!Threads
<1>5. Ring!SleepersWait <=> RingFacts!SleepersWait
  BY DEF Ring!SleepersWait, RingFacts!SleepersWait
<1> QED
  BY <1>1, <1>2, <1>3, <1>4, <1>5

\* What one instance of the ring can do, the other can.
LEMMA SameSteps ==
  /\ Ring!Store(Main) => RingFacts!Store(Main)
  /\ \A w \in Workers : Ring!Fetch(w) => RingFacts!Fetch(w)
  /\ Ring!Init => RingFacts!Init
  /\ [Ring!Next]_(Ring!vars) => [RingFacts!Next]_(RingFacts!vars)
  /\ Ring!Contents' = RingFacts!Contents'
<1> USE DEF Ring!Goto, RingFacts!Goto, Ring!ring, RingFacts!ring
<1>1. Ring!Store(Main) <=> RingFacts!Store(Main)
  BY DEF Ring!Store, RingFacts!Store
<1>2. \A w : Ring!Fetch(w) <=> RingFacts!Fetch(w)
  BY DEF Ring!Fetch, RingFacts!Fetch
<1>3. Ring!Init => RingFacts!Init
  BY DEF Ring!Init, RingFacts!Init, Ring!Indices, RingFacts!Indices, Ring!Threads,
         RingFacts!Threads
<1>4. \A t : Ring!Acquire(t) <=> RingFacts!Acquire(t)
  BY DEF Ring!Acquire, RingFacts!Acquire
<1>5. Ring!WaitForSpace(Main) <=> RingFacts!WaitForSpace(Main)
  BY DEF Ring!WaitForSpace, RingFacts!WaitForSpace
<1>6. Ring!FinishEnqueue(Main) <=> RingFacts!FinishEnqueue(Main)
  BY DEF Ring!FinishEnqueue, RingFacts!FinishEnqueue, Ring!Signalled, RingFacts!Signalled
<1>7. \A w : Ring!WaitForJob(w) <=> RingFacts!WaitForJob(w)
  BY DEF Ring!WaitForJob, RingFacts!WaitForJob
<1>8. \A w : Ring!FinishDequeue(w) <=> RingFacts!FinishDequeue(w)
  BY DEF Ring!FinishDequeue, RingFacts!FinishDequeue, Ring!Signalled, RingFacts!Signalled
<1>9. \A job : Ring!CallEnqueue(Main, job) <=> RingFacts!CallEnqueue(Main, job)
  BY DEF Ring!CallEnqueue, RingFacts!CallEnqueue
<1>10. \A w : Ring!CallDequeue(w) <=> RingFacts!CallDequeue(w)
  BY DEF Ring!CallDequeue, RingFacts!CallDequeue
<1>11. \A t : Ring!SpuriousWake(t) <=> RingFacts!SpuriousWake(t)
  BY DEF Ring!SpuriousWake, RingFacts!SpuriousWake
<1>12. Ring!Next => RingFacts!Next
  BY <1>1, <1>2, <1>4, <1>5, <1>6, <1>7, <1>8, <1>9, <1>10, <1>11
     DEF Ring!Next, RingFacts!Next, Ring!EnqueueStep, RingFacts!EnqueueStep,
         Ring!DequeueStep, RingFacts!DequeueStep, Ring!Threads, RingFacts!Threads
<1>13. Ring!vars = RingFacts!vars
  BY DEF Ring!vars, RingFacts!vars
<1>14. Ring!vars' = RingFacts!vars'
  BY DEF Ring!vars, RingFacts!vars
<1>15. Ring!Contents' = RingFacts!Contents'
  BY DEF Ring!Contents, RingFacts!Contents, Ring!Cell, RingFacts!Cell
<1> QED
  BY <1>1, <1>2, <1>3, <1>12, <1>13, <1>14, <1>15

\* What is proved of the ring, and used below.
RingInv == RingFacts!WInv

\* The ring's own inductive invariant holds inside the program.
\* Each step of the program is one the ring allows (StepUsesRing).
LEMMA RingInvOK ==
  /\ Init => RingInv
  /\ RingInv /\ [Next]_vars => RingInv'
<1>1. Init => RingInv
  BY SameSteps, CapacityOK, RingConstantsOK, ThreadsOK, RingFacts!InitWInv DEF Init, RingInv
<1>2. ASSUME RingInv, [Next]_vars PROVE RingInv'
  <2>1. [RingFacts!Next]_(RingFacts!vars)
    BY <1>2, StepUsesRing, SameSteps
  <2>2. RingFacts!IInv /\ RingFacts!WInv
    BY <1>2 DEF RingInv, RingFacts!WInv
  <2>3. RingFacts!TypeOK /\ RingFacts!MutualExclusion
    BY <2>2 DEF RingFacts!IInv
  <2>4. RingFacts!TypeOK'
    BY <2>1, <2>3, CapacityOK, RingConstantsOK, ThreadsOK, RingFacts!NextTypeOK
  <2>5. RingFacts!MutualExclusion'
    BY <2>1, <2>3, CapacityOK, RingConstantsOK, ThreadsOK, RingFacts!NextMutualExclusion
  <2>6. RingFacts!RingShape'
    BY <2>1, <2>2, CapacityOK, RingConstantsOK, ThreadsOK, RingFacts!NextRingShape
  <2>7. RingFacts!ArgsReady'
    BY <2>1, <2>2, CapacityOK, RingConstantsOK, ThreadsOK, RingFacts!NextArgsReady
  <2>8. RingFacts!IInv'
    BY <2>4, <2>5, <2>6, <2>7 DEF RingFacts!IInv
  <2> QED
    BY <2>1, <2>2, <2>8, CapacityOK, RingConstantsOK, ThreadsOK, RingFacts!NextWInv DEF RingInv
<1> QED
  BY <1>1, <1>2

\* What the program may rely on of a ring in use.
LEMMA RingInUse ==
  ASSUME RingInv
  PROVE  /\ Ring!TypeOK /\ Ring!MutualExclusion /\ Ring!SleepersWait
         /\ Ring!Contents \in Seq(Jobs) /\ Len(Ring!Contents) = num_jobs
         /\ Ring!Pending(Main) => arg[Main] \in Jobs
<1>1. RingFacts!IInv /\ RingFacts!SleepersWait
  BY DEF RingInv, RingFacts!WInv
<1>2. /\ RingFacts!TypeOK /\ RingFacts!MutualExclusion /\ RingFacts!RingShape
      /\ RingFacts!ArgsReady
  BY <1>1 DEF RingFacts!IInv
<1>3. RingFacts!Contents \in Seq(Files \cup {NULL}) /\ Len(RingFacts!Contents) = num_jobs
  BY <1>2, CapacityOK, RingConstantsOK, ThreadsOK, RingFacts!ContentsSeq
<1>4. RingFacts!Pending(Main) => arg[Main] \in Files \cup {NULL}
  BY <1>2 DEF RingFacts!ArgsReady
<1> QED
  BY <1>1, <1>2, <1>3, <1>4, SameRing DEF Jobs
-----------------------------------------------------------------------------
(* The jobs on their way: what main() offers, what the ring holds and what *)
(* each worker has in its hands.                                           *)

Queued == Ring!Contents
Offer  == IF Ring!Pending(Main) THEN arg[Main] ELSE NoJob

Holds(w) ==
  \/ wpc[w] = "dequeue" /\ at[w] \in {"signal", "out"}
  \/ wpc[w] \in {"flock", "header", "print", "free", "exit"}
Hands == [w \in Workers |-> IF Holds(w) THEN got[w] ELSE NoJob]

\* What a step does to them.
JobsStay     == UNCHANGED <<Queued, Offer, Hands>>
Offered(job) == Offer = NoJob /\ Offer' = job /\ UNCHANGED <<Queued, Hands>>
Stored ==
  /\ Offer \in Jobs /\ Offer' = NoJob
  /\ Queued' = Append(Queued, Offer)
  /\ UNCHANGED Hands
Fetched(w) ==
  /\ Queued # <<>> /\ Queued' = Tail(Queued)
  /\ Hands[w] = NoJob /\ Hands' = [Hands EXCEPT ![w] = Head(Queued)]
  /\ UNCHANGED Offer
Released(w) == Hands' = [Hands EXCEPT ![w] = NoJob] /\ UNCHANGED <<Queued, Offer>>

\* Steps inside the ring that move no job.
QuietIn(t) ==
  \/ Ring!Acquire(t) \/ Ring!SpuriousWake(t)
  \/ t = Main /\ (Ring!WaitForSpace(t) \/ Ring!FinishEnqueue(t))
  \/ t \in Workers /\ (Ring!WaitForJob(t) \/ Ring!FinishDequeue(t))

\* A step inside the ring: only Store and Fetch move a job, and no thread
\* enters the ring or leaves it with its call pending.
LEMMA QuietStep ==
  ASSUME RingInv, NEW t \in Threads, QuietIn(t)
  PROVE  /\ Queued' = Queued /\ arg' = arg /\ got' = got
         /\ \A u \in Threads : /\ Ring!Pending(u)' <=> Ring!Pending(u)
                               /\ at'[u] \in {"signal", "out"} <=> at[u] \in {"signal", "out"}
                               /\ at[u] = "out" => at'[u] = "out"
<1>1. /\ at \in [Threads -> {"out", "lock", "test", "wait", "signal"}]
      /\ arg \in [{Main} -> Jobs \cup {NoJob}]
  BY RingInUse DEF Ring!TypeOK, Ring!Threads, Ring!Locations, Threads, Jobs
<1>2. UNCHANGED <<jobs, num_jobs, enqueue_index, dequeue_index, arg, got>>
  BY DEF QuietIn, Ring!Acquire, Ring!SpuriousWake, Ring!WaitForSpace, Ring!FinishEnqueue,
         Ring!WaitForJob, Ring!FinishDequeue, Ring!ring
<1>3. Queued' = Queued
  BY <1>2 DEF Queued, Ring!Contents, Ring!Cell
<1>4. \/ at' = at
      \/ at[t] \in {"lock", "test", "wait"}
         /\ \E l \in {"test", "wait"} : at' = [at EXCEPT ![t] = l]
      \/ at[t] = "signal" /\ at' = [at EXCEPT ![t] = "out"]
  BY DEF QuietIn, Ring!Acquire, Ring!SpuriousWake, Ring!WaitForSpace, Ring!FinishEnqueue,
         Ring!WaitForJob, Ring!FinishDequeue, Ring!Goto
<1>5. ASSUME NEW u \in Threads
      PROVE  /\ Ring!Pending(u)' <=> Ring!Pending(u)
             /\ at'[u] \in {"signal", "out"} <=> at[u] \in {"signal", "out"}
             /\ at[u] = "out" => at'[u] = "out"
  BY <1>1, <1>4 DEF Ring!Pending
<1> QED
  BY <1>2, <1>3, <1>5

\* The step that puts main()'s job into the ring (greptile.c:66-70).
LEMMA StoreStep ==
  ASSUME RingInv, Ring!Store(Main)
  PROVE  /\ Ring!Pending(Main) /\ ~Ring!Pending(Main)' /\ arg[Main] \in Jobs
         /\ Queued' = Append(Queued, arg[Main]) /\ arg' = arg /\ got' = got
         /\ at[Main] = "test" /\ at' = [at EXCEPT ![Main] = "signal"]
<1>1. RingFacts!IInv
  BY DEF RingInv, RingFacts!WInv
<1>2. RingFacts!Contents' = Append(RingFacts!Contents, arg[Main])
  BY <1>1, SameSteps, CapacityOK, RingConstantsOK, ThreadsOK, RingFacts!StoreAppends
<1>3. Queued = RingFacts!Contents /\ Queued' = RingFacts!Contents'
  BY SameRing, SameSteps DEF Queued
<1>4. at \in [Threads -> {"out", "lock", "test", "wait", "signal"}]
  BY RingInUse DEF Ring!TypeOK, Ring!Threads, Ring!Locations, Threads
<1>5. at[Main] = "test" /\ at' = [at EXCEPT ![Main] = "signal"] /\ arg' = arg /\ got' = got
  BY DEF Ring!Store, Ring!Goto
<1>6. Ring!Pending(Main) /\ ~Ring!Pending(Main)'
  BY <1>4, <1>5 DEF Ring!Pending, Threads
<1> QED
  BY <1>2, <1>3, <1>5, <1>6, RingInUse

\* The step that takes a worker's job from the ring (greptile.c:82-86).
LEMMA FetchStep ==
  ASSUME RingInv, NEW w \in Workers, Ring!Fetch(w)
  PROVE  /\ Queued # <<>> /\ Queued' = Tail(Queued) /\ Head(Queued) \in Jobs
         /\ got' = [got EXCEPT ![w] = Head(Queued)] /\ arg' = arg
         /\ at[w] = "test" /\ at' = [at EXCEPT ![w] = "signal"]
<1>1. RingFacts!IInv
  BY DEF RingInv, RingFacts!WInv
<1>2. /\ RingFacts!Contents # <<>>
      /\ got' = [got EXCEPT ![w] = Head(RingFacts!Contents)]
      /\ RingFacts!Contents' = Tail(RingFacts!Contents)
  BY <1>1, SameSteps, CapacityOK, RingConstantsOK, ThreadsOK, RingFacts!FetchTakes
<1>3. Queued = RingFacts!Contents /\ Queued' = RingFacts!Contents'
  BY SameRing, SameSteps DEF Queued
<1>4. at[w] = "test" /\ at' = [at EXCEPT ![w] = "signal"] /\ arg' = arg
  BY DEF Ring!Fetch, Ring!Goto
<1>5. Head(Queued) \in Jobs
  BY <1>2, <1>3, RingInUse, HeadTailProperties DEF Queued
<1> QED
  BY <1>2, <1>3, <1>4, <1>5
-----------------------------------------------------------------------------
(* Types, and where the threads are.                                       *)

LocalTypes ==
  /\ mpc \in MainLocations /\ i \in 0 .. NUM_THREADS
  /\ stack \in Seq(Frames) /\ any_matched \in BOOLEAN
  /\ wpc \in [Workers -> WorkerLocations]
  /\ found_match \in [Workers -> BOOLEAN]
  /\ pq \in [Workers -> Seq(Nat)]
  /\ stdout_owner \in Workers \cup {Nobody}
  /\ out \in Seq([file : Files, nth : Nat])
  /\ live \subseteq Entries /\ gone \subseteq Entries
  /\ exit_status \in {Running, 0, 1, 2}

\* Threads are inside the ring only where their code calls it; main() gets
\* past a pthread_create or a pthread_join only with its thread born or gone.
ThreadsPlaced ==
  /\ at[Main] # "out" => mpc \in {"walk", "sentinels"}
  /\ \A w \in Workers : /\ at[w] # "out" => wpc[w] = "dequeue"
                        /\ mpc = "create" /\ w > i => wpc[w] = "unborn"
                        /\ mpc = "join" /\ w <= i => wpc[w] = "exited"
                        /\ mpc = "return" => wpc[w] = "exited"

\* What rb_dequeue returned is a job, and a file where it is used as one.
JobsHeld ==
  \A w \in Workers : /\ Holds(w) => got[w] \in Jobs
                     /\ wpc[w] \in {"flock", "header", "print", "free"} => got[w] \in Files

Base == RingInv /\ LocalTypes /\ ThreadsPlaced /\ JobsHeld

\* At the start main() is about to create the first thread, and no thread is
\* in the ring.
LEMMA InitBase == Init => Base
<1> SUFFICES ASSUME Init PROVE Base
  OBVIOUS
<1>1. LocalTypes
  <2>1. /\ mpc \in MainLocations /\ wpc \in [Workers -> WorkerLocations]
        /\ any_matched \in BOOLEAN /\ found_match \in [Workers -> BOOLEAN]
        /\ stdout_owner \in Workers \cup {Nobody}
        /\ live \subseteq Entries /\ gone \subseteq Entries
        /\ exit_status \in {Running, 0, 1, 2}
    BY DEF Init, MainLocations, WorkerLocations
  <2>4. i \in 0 .. NUM_THREADS
    BY GreptileAssumption DEF Init
  <2>2. stack \in Seq(Frames) /\ out \in Seq([file : Files, nth : Nat])
    BY EmptySeq DEF Init
  <2>3. pq \in [Workers -> Seq(Nat)]
    BY EmptySeq DEF Init
  <2> QED
    BY <2>1, <2>2, <2>3, <2>4 DEF LocalTypes
<1>2. \A t \in Threads : at[t] = "out"
  BY DEF Init, Ring!Init, Ring!Threads, Threads
<1>3. ThreadsPlaced
  BY <1>2 DEF Init, ThreadsPlaced, Threads
<1>4. JobsHeld
  BY DEF Init, JobsHeld, Holds
<1> QED
  BY <1>1, <1>3, <1>4, RingInvOK DEF Base

\* What the steps of main() outside the ring do to it.
LEMMA RingVarsStay ==
  ASSUME UNCHANGED ringVars
  PROVE  /\ Queued' = Queued /\ arg' = arg /\ got' = got /\ at' = at
         /\ \A t : Ring!Pending(t)' <=> Ring!Pending(t)
         /\ Offer' = Offer
<1>1. /\ arg' = arg /\ got' = got /\ at' = at
      /\ UNCHANGED <<jobs, num_jobs, dequeue_index>>
  BY DEF ringVars
<1>2. Queued' = Queued
  BY <1>1 DEF Queued, Ring!Contents, Ring!Cell
<1> QED
  BY <1>1, <1>2 DEF Ring!Pending, Offer

\* Opening a directory gives a frame, and taking an entry from a frame leaves one.
LEMMA FramesOK ==
  /\ \A d \in Dirs \cup {Root} : OpenDir(d) \in Frames
  /\ \A f \in Frames : \A e :
       /\ [f EXCEPT !.todo = @ \ {e}] = [dir |-> f.dir, todo |-> f.todo \ {e}]
       /\ [dir |-> f.dir, todo |-> f.todo \ {e}] \in Frames
<1>1. ASSUME NEW d \in Dirs \cup {Root} PROVE OpenDir(d) \in Frames
  BY GreptileAssumption DEF OpenDir, Frames
<1>2. ASSUME NEW f \in Frames, NEW e
      PROVE  /\ [f EXCEPT !.todo = @ \ {e}] = [dir |-> f.dir, todo |-> f.todo \ {e}]
             /\ [dir |-> f.dir, todo |-> f.todo \ {e}] \in Frames
  <2>1. PICK d \in Dirs \cup {Root}, s \in SUBSET Entries : f = [dir |-> d, todo |-> s]
    BY <1>2 DEF Frames
  <2>2. f.dir = d /\ f.todo = s /\ [f EXCEPT !.todo = @ \ {e}] = [dir |-> d, todo |-> s \ {e}]
    BY <2>1
  <2> QED
    BY <2>2 DEF Frames
<1> QED
  BY <1>1, <1>2

\* Returning an entry changes the innermost open directory only.
LEMMA AfterEntryOK ==
  ASSUME stack \in Seq(Frames), stack # <<>>, NEW e
  PROVE  /\ AfterEntry(e) \in Seq(Frames) /\ Len(AfterEntry(e)) = Len(stack)
         /\ \A k \in 1 .. Len(stack) :
              AfterEntry(e)[k] = IF k = Len(stack)
                                 THEN [dir |-> stack[k].dir, todo |-> stack[k].todo \ {e}]
                                 ELSE stack[k]
<1> DEFINE top == stack[Len(stack)]
           new == [dir |-> top.dir, todo |-> top.todo \ {e}]
<1>1. Len(stack) \in 1 .. Len(stack) /\ top \in Frames
  <2>1. Len(stack) \in Nat \ {0}
    BY EmptySeq
  <2> QED
    BY <2>1, ElementOfSeq
<1>2. new \in Frames /\ [top EXCEPT !.todo = @ \ {e}] = new
  BY <1>1, FramesOK
<1>3. AfterEntry(e) = [stack EXCEPT ![Len(stack)] = new]
  BY <1>1, <1>2 DEF AfterEntry
<1> HIDE DEF new
<1>4. /\ [stack EXCEPT ![Len(stack)] = new] \in Seq(Frames)
      /\ Len([stack EXCEPT ![Len(stack)] = new]) = Len(stack)
      /\ \A j \in 1 .. Len(stack) :
           [stack EXCEPT ![Len(stack)] = new][j] = IF j = Len(stack) THEN new ELSE stack[j]
  BY <1>1, <1>2, ExceptSeq
<1> QED
  BY <1>3, <1>4 DEF new

\* Every step of the program, by where its code runs.
LEMMA Steps ==
  ASSUME [Next]_vars
  PROVE  \/ exit_status = Running /\
              \/ CreateThread \/ OpenRoot \/ LeaveDir
              \/ SendSentinel \/ StartJoining \/ Join \/ Destroy
              \/ \E e \in Entries : \/ VisitDir(e) \/ VisitFile(e) \/ VisitOther(e)
                                    \/ MissEntry(e) \/ VisitFails(e) \/ Vanish(e)
              \/ \E w \in Workers :
                   \/ BeginDequeue(w) \/ Quit(w) \/ SearchFile(w) \/ SearchFails(w)
                   \/ Flock(w) \/ PrintHeader(w) \/ PrintJob(w) \/ Funlock(w) \/ FreePath(w)
              \/ Ring!Store(Main) /\ UNCHANGED clientVars
              \/ \E w \in Workers : Ring!Fetch(w) /\ UNCHANGED clientVars
              \/ \E t \in Threads : QuietIn(t) /\ UNCHANGED clientVars
              \/ ProcessExit
         \/ UNCHANGED vars
<1>1. CASE Alive(MainStep)
  <2>1. CASE MainLocal
    BY <1>1, <2>1 DEF Alive, MainLocal
  <2>2. CASE Ring!EnqueueStep(Main) /\ UNCHANGED clientVars
    BY <1>1, <2>2 DEF Alive, Ring!EnqueueStep, QuietIn, Threads
  <2> QED
    BY <1>1, <2>1, <2>2 DEF Alive, MainStep
<1>2. ASSUME NEW w \in Workers, Alive(WorkerStep(w))
      PROVE  exit_status = Running /\
              \/ \E v \in Workers :
                   \/ BeginDequeue(v) \/ Quit(v) \/ SearchFile(v) \/ SearchFails(v)
                   \/ Flock(v) \/ PrintHeader(v) \/ PrintJob(v) \/ Funlock(v) \/ FreePath(v)
              \/ \E v \in Workers : Ring!Fetch(v) /\ UNCHANGED clientVars
              \/ \E t \in Threads : QuietIn(t) /\ UNCHANGED clientVars
  <2>1. CASE WorkerLocal(w)
    BY <1>2, <2>1 DEF Alive, WorkerLocal
  <2>2. CASE Ring!DequeueStep(w) /\ UNCHANGED clientVars
    BY <1>2, <2>2 DEF Alive, Ring!DequeueStep, QuietIn, Threads
  <2> QED
    BY <1>2, <2>1, <2>2 DEF Alive, WorkerStep
<1>3. CASE Alive(SpuriousWake)
  BY <1>3 DEF Alive, SpuriousWake, QuietIn, Threads
<1>4. CASE Alive(ProcessExit)
  BY <1>4 DEF Alive
<1>5. ASSUME NEW e \in Entries, Alive(Vanish(e)) PROVE exit_status = Running /\ Vanish(e)
  BY <1>5 DEF Alive
<1> QED
  BY <1>1, <1>2, <1>3, <1>4, <1>5 DEF Next, Over

\* Types of the program's own variables.
LEMMA NextLocalTypes ==
  ASSUME Base, [Next]_vars
  PROVE  LocalTypes'
<1> USE DEF LocalTypes
<1>1. LocalTypes /\ JobsHeld
  BY DEF Base
<1>2. CASE UNCHANGED clientVars
  BY <1>1, <1>2 DEF clientVars, mainVars, workerVars
<1>3. CASE CreateThread
  BY <1>1, <1>3, GreptileAssumption DEF CreateThread, Workers, WorkerLocations
<1>4. CASE OpenRoot
  <2>1. stack' \in Seq(Frames)
    BY <1>4, FramesOK DEF OpenRoot
  <2> QED
    BY <1>1, <1>4, <2>1 DEF OpenRoot, MainLocations, workerVars
<1>5. CASE LeaveDir
  <2>1. stack' \in Seq(Frames)
    BY <1>1, <1>5, SubSeqProperties, ElementOfSeq, LenProperties DEF LeaveDir
  <2> QED
    BY <1>1, <1>5, <2>1, GreptileAssumption DEF LeaveDir, MainLocations, workerVars
<1>6. CASE SendSentinel \/ StartJoining \/ Destroy
  BY <1>1, <1>6, GreptileAssumption
     DEF SendSentinel, StartJoining, Destroy, MainLocations, workerVars
<1>7. CASE Join
  <2>1. any_matched' \in BOOLEAN
    BY <1>7 DEF Join
  <2> QED
    BY <1>1, <1>7, <2>1, GreptileAssumption DEF Join, workerVars
<1>8. ASSUME NEW e \in Entries, VisitDir(e) PROVE LocalTypes'
  <2>1. AfterEntry(e) \in Seq(Frames) /\ OpenDir(e) \in Frames
    BY <1>1, <1>8, AfterEntryOK, FramesOK DEF VisitDir, ReadEntry
  <2>2. stack' \in Seq(Frames)
    BY <1>8, <2>1, AppendProperties DEF VisitDir
  <2> QED
    BY <1>1, <1>8, <2>2 DEF VisitDir, workerVars
<1>9. ASSUME NEW e \in Entries,
             VisitFile(e) \/ VisitOther(e) \/ MissEntry(e) \/ VisitFails(e)
      PROVE  LocalTypes'
  <2>1. stack # <<>> /\ stack' = AfterEntry(e) /\ live' \subseteq Entries
        /\ mpc' \in MainLocations
        /\ UNCHANGED <<i, any_matched, workerVars, gone, exit_status>>
    BY <1>1, <1>9 DEF VisitFile, VisitOther, MissEntry, VisitFails, ReadEntry, MainLocations
  <2>2. stack' \in Seq(Frames)
    BY <1>1, <2>1, AfterEntryOK
  <2> QED
    BY <1>1, <2>1, <2>2 DEF workerVars
<1>10. ASSUME NEW w \in Workers, BeginDequeue(w) \/ Quit(w) \/ SearchFails(w)
       PROVE  LocalTypes'
  BY <1>1, <1>10 DEF BeginDequeue, Quit, SearchFails, WorkerGoto, mainVars, WorkerLocations
<1>11. ASSUME NEW w \in Workers, SearchFile(w) PROVE LocalTypes'
  <2>1. Matches[got[w]] \in Nat
    BY <1>11, GreptileAssumption DEF SearchFile
  <2>2. [k \in 1 .. Matches[got[w]] |-> k] \in Seq(Nat)
    BY <2>1
  <2>3. pq' \in [Workers -> Seq(Nat)]
    BY <1>1, <1>11, <2>2 DEF SearchFile
  <2>4. found_match' \in [Workers -> BOOLEAN]
    BY <1>1, <1>11, <2>1 DEF SearchFile
  <2>5. wpc' \in [Workers -> WorkerLocations]
    BY <1>1, <1>11 DEF SearchFile, WorkerGoto, WorkerLocations
  <2> QED
    BY <1>1, <1>11, <2>3, <2>4, <2>5 DEF SearchFile, WorkerGoto, mainVars
<1>12. ASSUME NEW w \in Workers, Flock(w) \/ Funlock(w) \/ FreePath(w) PROVE LocalTypes'
  BY <1>1, <1>12 DEF Flock, Funlock, FreePath, WorkerGoto, mainVars, WorkerLocations
<1>13. ASSUME NEW w \in Workers, PrintHeader(w) PROVE LocalTypes'
  <2>1. [file |-> got[w], nth |-> 0] \in [file : Files, nth : Nat]
    BY <1>1, <1>13 DEF PrintHeader, JobsHeld
  <2>2. out' \in Seq([file : Files, nth : Nat])
    BY <1>1, <1>13, <2>1, AppendProperties DEF PrintHeader, Printed
  <2> QED
    BY <1>1, <1>13, <2>2 DEF PrintHeader, WorkerGoto, mainVars, WorkerLocations
<1>14. ASSUME NEW w \in Workers, PrintJob(w) PROVE LocalTypes'
  <2>1. pq[w] \in Seq(Nat) /\ pq[w] # <<>>
    BY <1>1, <1>14 DEF PrintJob
  <2>2. Head(pq[w]) \in Nat /\ Tail(pq[w]) \in Seq(Nat)
    BY <2>1, HeadTailProperties
  <2>3. [file |-> got[w], nth |-> Head(pq[w])] \in [file : Files, nth : Nat]
    BY <1>1, <1>14, <2>2 DEF PrintJob, JobsHeld
  <2>4. out' \in Seq([file : Files, nth : Nat])
    BY <1>1, <1>14, <2>3, AppendProperties DEF PrintJob, Printed
  <2>5. pq' \in [Workers -> Seq(Nat)]
    BY <1>1, <1>14, <2>2 DEF PrintJob
  <2> QED
    BY <1>1, <1>14, <2>4, <2>5 DEF PrintJob, WorkerGoto, mainVars, WorkerLocations
<1>15. CASE ProcessExit
  BY <1>1, <1>15 DEF ProcessExit, mainVars, workerVars
<1>16. ASSUME NEW e \in Entries, Vanish(e) PROVE LocalTypes'
  BY <1>1, <1>16 DEF Vanish, mainVars, workerVars
<1>17. CASE UNCHANGED vars
  BY <1>1, <1>17 DEF vars, mainVars, workerVars
<1> QED
  BY <1>2, <1>3, <1>4, <1>5, <1>6, <1>7, <1>8, <1>9, <1>10, <1>11, <1>12, <1>13, <1>14,
     <1>15, <1>16, <1>17, Steps

\* Where the threads are after a step.
LEMMA NextThreadsPlaced ==
  ASSUME Base, [Next]_vars
  PROVE  ThreadsPlaced'
<1> USE DEF ThreadsPlaced
<1>1. /\ LocalTypes /\ ThreadsPlaced /\ JobsHeld /\ RingInv
      /\ at \in [Threads -> {"out", "lock", "test", "wait", "signal"}]
      /\ i \in Int /\ NUM_THREADS \in Nat
      /\ wpc \in [Workers -> WorkerLocations] /\ Main \notin Workers
  BY RingInUse, GreptileAssumption
     DEF Base, LocalTypes, Ring!TypeOK, Ring!Threads, Ring!Locations, Threads
<1>2. ASSUME NEW t \in Threads, QuietIn(t), UNCHANGED clientVars PROVE ThreadsPlaced'
  BY <1>1, <1>2, QuietStep DEF clientVars, mainVars, workerVars, Threads
<1>3. ASSUME Ring!Store(Main), UNCHANGED clientVars PROVE ThreadsPlaced'
  BY <1>1, <1>3, StoreStep DEF clientVars, mainVars, workerVars, Threads
<1>4. ASSUME NEW w \in Workers, Ring!Fetch(w), UNCHANGED clientVars PROVE ThreadsPlaced'
  BY <1>1, <1>4, FetchStep DEF clientVars, mainVars, workerVars, Threads
<1>5. CASE CreateThread
  BY <1>1, <1>5, RingVarsStay DEF CreateThread, MainAt, Workers
<1>6. CASE OpenRoot \/ StartJoining \/ Destroy
  BY <1>1, <1>6, RingVarsStay DEF OpenRoot, StartJoining, Destroy, MainAt, workerVars, Workers
<1>7. CASE LeaveDir
  BY <1>1, <1>7, RingVarsStay DEF LeaveDir, MainAt, workerVars
<1>8. CASE Join
  BY <1>1, <1>8, RingVarsStay DEF Join, MainAt, workerVars, Workers
<1>9. CASE SendSentinel
  BY <1>1, <1>9 DEF SendSentinel, MainAt, workerVars, Ring!CallEnqueue, Ring!Goto, Threads
<1>10. ASSUME NEW e \in Entries, VisitFile(e) PROVE ThreadsPlaced'
  BY <1>1, <1>10
     DEF VisitFile, ReadEntry, MainAt, workerVars, Ring!CallEnqueue, Ring!Goto, Threads
<1>11. ASSUME NEW e \in Entries,
              VisitDir(e) \/ VisitOther(e) \/ MissEntry(e) \/ VisitFails(e) \/ Vanish(e)
       PROVE  ThreadsPlaced'
  BY <1>1, <1>11, RingVarsStay
     DEF VisitDir, VisitOther, MissEntry, VisitFails, Vanish, ReadEntry, MainAt, mainVars, workerVars
<1>12. ASSUME NEW w \in Workers, BeginDequeue(w) PROVE ThreadsPlaced'
  BY <1>1, <1>12 DEF BeginDequeue, mainVars, Ring!CallDequeue, Ring!Goto, Threads
<1>13. ASSUME NEW w \in Workers,
              \/ Quit(w) \/ SearchFile(w) \/ SearchFails(w) \/ Flock(w) \/ PrintHeader(w)
              \/ PrintJob(w) \/ Funlock(w) \/ FreePath(w)
       PROVE  ThreadsPlaced'
  <2>1. UNCHANGED ringVars /\ UNCHANGED mainVars
    BY <1>13 DEF Quit, SearchFile, SearchFails, Flock, PrintHeader, PrintJob, Funlock,
                 FreePath, WorkerGoto
  <2>2. at[w] = "out" /\ wpc[w] \notin {"unborn", "exited"}
    BY <1>1, <1>13 DEF Quit, SearchFile, SearchFails, Dequeued, Flock, PrintHeader, PrintJob,
                       Funlock, FreePath
  <2>3. \E l \in WorkerLocations : wpc' = [wpc EXCEPT ![w] = l]
    BY <1>13 DEF Quit, SearchFile, SearchFails, Flock, PrintHeader, PrintJob, Funlock,
                 FreePath, WorkerGoto, WorkerLocations
  <2>4. at' = at /\ mpc' = mpc /\ i' = i
    BY <2>1, RingVarsStay DEF mainVars
  <2> QED
    BY <1>1, <2>2, <2>3, <2>4
<1>14. CASE ProcessExit
  BY <1>1, <1>14, RingVarsStay DEF ProcessExit, mainVars, workerVars
<1>15. CASE UNCHANGED vars
  BY <1>1, <1>15, RingVarsStay DEF vars, mainVars, workerVars
<1> QED
  BY <1>2, <1>3, <1>4, <1>5, <1>6, <1>7, <1>8, <1>9, <1>10, <1>11, <1>12, <1>13, <1>14,
     <1>15, Steps

\* What the workers hold after a step.
LEMMA NextJobsHeld ==
  ASSUME Base, [Next]_vars
  PROVE  JobsHeld'
<1> USE DEF JobsHeld, Holds
<1>1. /\ LocalTypes /\ ThreadsPlaced /\ JobsHeld /\ RingInv
      /\ at \in [Threads -> {"out", "lock", "test", "wait", "signal"}]
      /\ got \in [Workers -> Jobs \cup {NoJob}]
      /\ wpc \in [Workers -> WorkerLocations] /\ Main \notin Workers
  BY RingInUse, GreptileAssumption
     DEF Base, LocalTypes, Ring!TypeOK, Ring!Threads, Ring!Locations, Threads, Jobs
<1>2. ASSUME NEW t \in Threads, QuietIn(t), UNCHANGED clientVars PROVE JobsHeld'
  BY <1>1, <1>2, QuietStep DEF clientVars, workerVars, Threads
<1>3. ASSUME Ring!Store(Main), UNCHANGED clientVars PROVE JobsHeld'
  BY <1>1, <1>3, StoreStep DEF clientVars, workerVars, Threads
<1>4. ASSUME NEW w \in Workers, Ring!Fetch(w), UNCHANGED clientVars PROVE JobsHeld'
  <2>1. wpc[w] = "dequeue"
    BY <1>1, <1>4, FetchStep DEF ThreadsPlaced
  <2> QED
    BY <1>1, <1>4, <2>1, FetchStep DEF clientVars, workerVars, Threads
<1>5. CASE CreateThread
  BY <1>1, <1>5, RingVarsStay DEF CreateThread
<1>6. CASE OpenRoot \/ LeaveDir \/ StartJoining \/ Join \/ Destroy
  BY <1>1, <1>6, RingVarsStay DEF OpenRoot, LeaveDir, StartJoining, Join, Destroy, workerVars
<1>7. CASE SendSentinel
  BY <1>1, <1>7 DEF SendSentinel, workerVars, Ring!CallEnqueue, Ring!Goto, Threads
<1>8. ASSUME NEW e \in Entries, VisitFile(e) PROVE JobsHeld'
  BY <1>1, <1>8 DEF VisitFile, workerVars, Ring!CallEnqueue, Ring!Goto, Threads
<1>9. ASSUME NEW e \in Entries,
             VisitDir(e) \/ VisitOther(e) \/ MissEntry(e) \/ VisitFails(e) \/ Vanish(e)
      PROVE  JobsHeld'
  BY <1>1, <1>9, RingVarsStay
     DEF VisitDir, VisitOther, MissEntry, VisitFails, Vanish, workerVars
<1>10. ASSUME NEW w \in Workers, BeginDequeue(w) PROVE JobsHeld'
  BY <1>1, <1>10 DEF BeginDequeue, Ring!CallDequeue, Ring!Goto, Threads
<1>11. ASSUME NEW w \in Workers,
              Quit(w) \/ SearchFails(w) \/ Flock(w) \/ PrintHeader(w)
              \/ PrintJob(w) \/ Funlock(w) \/ FreePath(w)
       PROVE  JobsHeld'
  BY <1>1, <1>11, RingVarsStay
     DEF Quit, SearchFails, Dequeued, Flock, PrintHeader, PrintJob, Funlock, FreePath, WorkerGoto
<1>12. ASSUME NEW w \in Workers, SearchFile(w) PROVE JobsHeld'
  BY <1>1, <1>12, RingVarsStay DEF SearchFile, Dequeued, WorkerGoto
<1>13. CASE ProcessExit
  BY <1>1, <1>13, RingVarsStay DEF ProcessExit, workerVars
<1>14. CASE UNCHANGED vars
  BY <1>1, <1>14, RingVarsStay DEF vars, workerVars
<1> QED
  BY <1>2, <1>3, <1>4, <1>5, <1>6, <1>7, <1>8, <1>9, <1>10, <1>11, <1>12, <1>13, <1>14, Steps

\* The four parts together are kept by every step.
LEMMA NextBase == Base /\ [Next]_vars => Base'
  BY NextLocalTypes, NextThreadsPlaced, NextJobsHeld, RingInvOK DEF Base

\* The places of the threads agree with the ring and with each other, in every
\* reachable state (greptile.c:209-251, 278-331): what the proofs about jobs,
\* paths and the exit status build on.  No fairness is needed.
THEOREM Basics == SafeSpec => []Base
  BY InitBase, NextBase, PTL DEF SafeSpec

\* Every variable of the program keeps its type, for every number of workers,
\* every tree and every capacity: in particular what a worker prints from and
\* frees is a file, and main()'s counter stays within its threads
\* (greptile.c:209-251, 278-331).
THEOREM TypeCorrect == Spec => []TypeOK
<1>1. Base => TypeOK
  <2> SUFFICES ASSUME Base PROVE TypeOK
    OBVIOUS
  <2>1. Ring!TypeOK /\ LocalTypes
    BY RingInUse DEF Base
  <2> QED
    BY <2>1 DEF LocalTypes, TypeOK
<1> QED
  BY <1>1, Basics, PTL DEF Spec

\* main() joins every worker before it destroys the ring, and a worker that
\* has exited is not inside the ring, holds no mutex and sleeps on no
\* condition: pthread_mutex_destroy and pthread_cond_destroy find them unused
\* (greptile.c:334-340).
THEOREM RingUnusedWhenDestroyed == Spec => []DestroyedRingUnused
<1>1. Base => DestroyedRingUnused
  <2> SUFFICES ASSUME Base, mpc = "return"
               PROVE  /\ \A t \in Workers \cup {Main} : at[t] = "out"
                      /\ \A w \in Workers : wpc[w] = "exited"
                      /\ mutex = Nobody /\ job_waiters = {} /\ space_waiters = {}
    BY DEF DestroyedRingUnused
  <2>1. \A w \in Workers : wpc[w] = "exited"
    BY DEF Base, ThreadsPlaced
  <2>2. \A t \in Workers \cup {Main} : at[t] = "out"
    BY <2>1 DEF Base, ThreadsPlaced
  <2>3. Ring!TypeOK /\ Ring!MutualExclusion /\ Ring!SleepersWait
    BY RingInUse DEF Base
  <2>4. mutex = Nobody
    BY <2>2, <2>3 DEF Ring!TypeOK, Ring!MutualExclusion, Ring!Critical, Ring!Threads
  <2>5. job_waiters = {} /\ space_waiters = {}
    BY <2>2, <2>3 DEF Ring!TypeOK, Ring!SleepersWait
  <2> QED
    BY <2>1, <2>2, <2>4, <2>5
<1> QED
  BY <1>1, Basics, PTL DEF Spec
-----------------------------------------------------------------------------
(* What each step does to the jobs on their way.                           *)

\* Jobs in hands, on offer and in the ring are jobs.
LEMMA JobTypes ==
  ASSUME Base
  PROVE  /\ Hands \in [Workers -> Jobs \cup {NoJob}] /\ Offer \in Jobs \cup {NoJob}
         /\ Queued \in Seq(Jobs) /\ Len(Queued) = num_jobs /\ NoJob \notin Jobs
         /\ i \in 0 .. NUM_THREADS /\ NUM_THREADS \in Nat
         /\ wpc \in [Workers -> WorkerLocations]
  BY RingInUse, GreptileAssumption DEF Base, JobsHeld, LocalTypes, Hands, Offer, Queued, Jobs

\* A step inside the ring that neither stores nor fetches moves no job.
LEMMA QuietMoves ==
  ASSUME Base, NEW t \in Threads, QuietIn(t), UNCHANGED clientVars
  PROVE  JobsStay
<1>1. wpc' = wpc /\ Main \in Threads /\ Workers \subseteq Threads
  BY DEF clientVars, workerVars, Threads
<1> QED
  BY <1>1, QuietStep DEF Base, JobsStay, Offer, Hands, Holds

\* A job goes from main() into the ring.
LEMMA StoreMoves ==
  ASSUME Base, Ring!Store(Main), UNCHANGED clientVars
  PROVE  Stored
<1>1. wpc' = wpc /\ \A w \in Workers : at'[w] = at[w]
  BY StoreStep, RingInUse, GreptileAssumption
     DEF Base, clientVars, workerVars, Ring!TypeOK, Ring!Threads
<1> QED
  BY <1>1, StoreStep DEF Base, Stored, Offer, Hands, Holds

\* A job goes from the ring into a worker's hands.
LEMMA FetchMoves ==
  ASSUME Base, NEW w \in Workers, Ring!Fetch(w), UNCHANGED clientVars
  PROVE  Fetched(w) /\ wpc[w] = "dequeue"
<1>1. /\ at \in [Threads -> {"out", "lock", "test", "wait", "signal"}]
      /\ got \in [Workers -> Jobs \cup {NoJob}] /\ wpc' = wpc /\ Main \notin Workers
  BY RingInUse, GreptileAssumption
     DEF Base, clientVars, workerVars, Ring!TypeOK, Ring!Threads, Ring!Locations, Threads, Jobs
<1>2. wpc[w] = "dequeue"
  BY FetchStep DEF Base, ThreadsPlaced
<1>3. Offer' = Offer
  BY <1>1, FetchStep DEF Base, Offer, Ring!Pending, Threads
<1>4. Hands[w] = NoJob /\ Hands' = [Hands EXCEPT ![w] = Head(Queued)]
  BY <1>1, <1>2, FetchStep DEF Base, Hands, Holds, Threads
<1> QED
  BY <1>2, <1>3, <1>4, FetchStep DEF Base, Fetched

\* A call of rb_enqueue puts a job into main()'s hands.
LEMMA SendMoves ==
  ASSUME Base, NEW job \in Jobs, Ring!CallEnqueue(Main, job), wpc' = wpc
  PROVE  Offered(job)
<1>1. /\ at \in [Threads -> {"out", "lock", "test", "wait", "signal"}]
      /\ arg \in [{Main} -> Jobs \cup {NoJob}] /\ Main \notin Workers
  BY RingInUse, GreptileAssumption
     DEF Base, Ring!TypeOK, Ring!Threads, Ring!Locations, Threads, Jobs
<1>2. Queued' = Queued
  BY DEF Ring!CallEnqueue, Ring!ring, Queued, Ring!Contents, Ring!Cell
<1>3. Offer = NoJob /\ Offer' = job
  BY <1>1 DEF Ring!CallEnqueue, Ring!Goto, Offer, Ring!Pending, Threads
<1>4. Hands' = Hands
  BY <1>1 DEF Ring!CallEnqueue, Ring!Goto, Hands, Holds, Threads
<1> QED
  BY <1>2, <1>3, <1>4 DEF Offered

\* main() moves a job only when it calls rb_enqueue, for a file or for a
\* NULL job.
LEMMA MainMoves ==
  ASSUME Base
  PROVE  /\ CreateThread => JobsStay
         /\ OpenRoot \/ LeaveDir \/ StartJoining \/ Join \/ Destroy \/ ProcessExit => JobsStay
         /\ \A e : VisitDir(e) \/ VisitOther(e) \/ MissEntry(e) \/ VisitFails(e) \/ Vanish(e)
                  => JobsStay
         /\ \A e \in Files : VisitFile(e) => Offered(e)
         /\ SendSentinel => Offered(NULL)
         /\ UNCHANGED vars => JobsStay
<1>1. ASSUME CreateThread PROVE JobsStay
  <2>1. i + 1 \in Workers /\ i + 1 > i
    BY <1>1, JobTypes DEF CreateThread, Workers
  <2>2. wpc[i + 1] = "unborn"
    BY <1>1, <2>1 DEF Base, ThreadsPlaced, CreateThread, MainAt
  <2>3. wpc' = [wpc EXCEPT ![i + 1] = "loop"] /\ at' = at /\ got' = got
    BY <1>1, RingVarsStay DEF CreateThread
  <2>4. \A w \in Workers : Holds(w)' <=> Holds(w)
    BY <2>1, <2>2, <2>3, JobTypes DEF Holds
  <2>5. Hands' = Hands
    BY <2>3, <2>4 DEF Hands
  <2> QED
    BY <1>1, <2>5, RingVarsStay DEF CreateThread, JobsStay
<1>2. ASSUME UNCHANGED ringVars, UNCHANGED wpc PROVE JobsStay
  BY <1>2, RingVarsStay DEF JobsStay, Hands, Holds
<1>3. OpenRoot \/ LeaveDir \/ StartJoining \/ Join \/ Destroy \/ ProcessExit => JobsStay
  BY <1>2 DEF OpenRoot, LeaveDir, StartJoining, Join, Destroy, ProcessExit, workerVars
<1>4. \A e : VisitDir(e) \/ VisitOther(e) \/ MissEntry(e) \/ VisitFails(e) \/ Vanish(e)
          => JobsStay
  BY <1>2 DEF VisitDir, VisitOther, MissEntry, VisitFails, Vanish, workerVars
<1>5. \A e \in Files : VisitFile(e) => Offered(e)
  BY SendMoves DEF VisitFile, workerVars, Jobs
<1>6. SendSentinel => Offered(NULL)
  BY SendMoves DEF SendSentinel, workerVars, Jobs
<1>7. UNCHANGED vars => JobsStay
  BY <1>2 DEF vars, workerVars
<1> QED
  BY <1>1, <1>3, <1>4, <1>5, <1>6, <1>7

\* Outside the ring a worker only ever lets a job go: when it quits, or when
\* it has freed the path.
LEMMA WorkerMoves ==
  ASSUME Base, NEW w \in Workers
  PROVE  /\ BeginDequeue(w) => JobsStay /\ Hands[w] = NoJob
         /\ Quit(w) => Released(w) /\ Hands[w] = NULL
         /\ FreePath(w) => Released(w) /\ Hands[w] = got[w] /\ got[w] \in Files
         /\ SearchFile(w) => JobsStay /\ Hands[w] = got[w] /\ got[w] \in Files
         /\ SearchFails(w) => JobsStay /\ Hands[w] = got[w]
         /\ Flock(w) \/ PrintHeader(w) \/ PrintJob(w) \/ Funlock(w)
              => JobsStay /\ Hands[w] = got[w] /\ got[w] \in Files
<1>1. /\ at \in [Threads -> {"out", "lock", "test", "wait", "signal"}]
      /\ Main \notin Workers /\ wpc \in [Workers -> WorkerLocations] /\ JobsHeld
  BY RingInUse, GreptileAssumption
     DEF Base, LocalTypes, Ring!TypeOK, Ring!Threads, Ring!Locations, Threads
<1>2. ASSUME BeginDequeue(w) PROVE JobsStay /\ Hands[w] = NoJob
  <2>1. Queued' = Queued /\ Offer' = Offer
    BY <1>1, <1>2 DEF BeginDequeue, Ring!CallDequeue, Ring!Goto, Ring!ring, Queued,
         Ring!Contents, Ring!Cell, Offer, Ring!Pending, Threads
  <2>2. got' = got /\ ~Holds(w) /\ \A v \in Workers : Holds(v)' <=> Holds(v)
    BY <1>1, <1>2 DEF BeginDequeue, Ring!CallDequeue, Ring!Goto, Holds, Threads
  <2>3. Hands[w] = NoJob /\ Hands' = Hands
    BY <2>2 DEF Hands
  <2> QED
    BY <2>1, <2>3 DEF JobsStay
<1>3. ASSUME UNCHANGED ringVars, Holds(w),
             NEW l \in {"flock", "header", "print", "free", "exit"},
             wpc' = [wpc EXCEPT ![w] = l]
      PROVE  JobsStay /\ Hands[w] = got[w]
  <2>1. got' = got /\ \A v \in Workers : Holds(v)' <=> Holds(v)
    BY <1>1, <1>3, RingVarsStay DEF Holds
  <2> QED
    BY <1>3, <2>1, RingVarsStay DEF JobsStay, Hands
<1>4. ASSUME UNCHANGED ringVars, Holds(w), NEW l \in {"loop", "exited"},
             wpc' = [wpc EXCEPT ![w] = l]
      PROVE  Released(w) /\ Hands[w] = got[w]
  <2>1. got' = got /\ \A v \in Workers : Holds(v)' <=> Holds(v) /\ v # w
    BY <1>1, <1>4, RingVarsStay DEF Holds
  <2> QED
    BY <1>4, <2>1, RingVarsStay DEF Released, Hands
<1>5. ASSUME Quit(w) PROVE Released(w) /\ Hands[w] = NULL
  BY <1>4, <1>5 DEF Quit, Dequeued, WorkerGoto, Holds
<1>6. ASSUME FreePath(w) PROVE Released(w) /\ Hands[w] = got[w] /\ got[w] \in Files
  BY <1>1, <1>4, <1>6 DEF FreePath, WorkerGoto, Holds, JobsHeld
<1>7. ASSUME SearchFile(w) PROVE JobsStay /\ Hands[w] = got[w] /\ got[w] \in Files
  <2> DEFINE l == IF Matches[got[w]] > 0 THEN "flock" ELSE "free"
  <2>1. l \in {"flock", "free"} /\ wpc' = [wpc EXCEPT ![w] = l] /\ UNCHANGED ringVars
    BY <1>7 DEF SearchFile, WorkerGoto
  <2>2. Holds(w) /\ got[w] \in Files
    BY <1>7 DEF SearchFile, Dequeued, Holds
  <2> HIDE DEF l
  <2> QED
    BY <1>3, <2>1, <2>2
<1>8. ASSUME SearchFails(w) PROVE JobsStay /\ Hands[w] = got[w]
  BY <1>3, <1>8 DEF SearchFails, Dequeued, WorkerGoto, Holds
<1>9. ASSUME Flock(w) \/ PrintHeader(w) \/ PrintJob(w) \/ Funlock(w)
      PROVE  JobsStay /\ Hands[w] = got[w] /\ got[w] \in Files
  <2>1. /\ Holds(w) /\ got[w] \in Files /\ UNCHANGED ringVars
        /\ \E l \in {"header", "print", "free"} : wpc' = [wpc EXCEPT ![w] = l]
    BY <1>1, <1>9 DEF Flock, PrintHeader, PrintJob, Funlock, WorkerGoto, Holds, JobsHeld
  <2> QED
    BY <1>3, <2>1
<1> QED
  BY <1>2, <1>5, <1>6, <1>7, <1>8, <1>9

\* The ring's jobs, position by position.
LEMMA StoredView ==
  ASSUME Base, Stored
  PROVE  /\ Len(Queued) \in Nat /\ Len(Queued') = Len(Queued) + 1
         /\ \A k \in 1 .. Len(Queued) : Queued'[k] = Queued[k]
         /\ Queued'[Len(Queued) + 1] = Offer
         /\ Offer \in Jobs /\ Offer' = NoJob /\ Hands' = Hands
<1>1. Queued \in Seq(Jobs) /\ Offer \in Jobs /\ Queued' = Append(Queued, Offer)
  BY JobTypes DEF Stored
<1> QED
  BY <1>1, AppendProperties, LenProperties DEF Stored

\* The same for a fetch.
LEMMA FetchedView ==
  ASSUME Base, NEW w \in Workers, Fetched(w)
  PROVE  /\ Len(Queued) \in Nat \ {0} /\ Len(Queued') = Len(Queued) - 1
         /\ \A k \in 1 .. Len(Queued) - 1 : Queued'[k] = Queued[k + 1]
         /\ Queued[1] \in Jobs
         /\ Hands[w] = NoJob /\ Offer' = Offer
         /\ Hands'[w] = Queued[1] /\ \A v \in Workers \ {w} : Hands'[v] = Hands[v]
<1>1. Queued \in Seq(Jobs) /\ Queued # <<>> /\ Queued' = Tail(Queued)
  BY JobTypes DEF Fetched
<1>2. Len(Queued) \in Nat \ {0} /\ Head(Queued) = Queued[1] /\ Head(Queued) \in Jobs
  BY <1>1, EmptySeq, HeadTailProperties
<1>3. Len(Queued') = Len(Queued) - 1
        /\ \A k \in 1 .. Len(Queued) - 1 : Queued'[k] = Queued[k + 1]
  BY <1>1, HeadTailProperties
<1> QED
  BY <1>2, <1>3, JobTypes DEF Fetched

-----------------------------------------------------------------------------
(* The NULL jobs come last.                                                *)

WalkOver == mpc \in {"sentinels", "join", "return"}
Quitting(w) == wpc[w] = "exited" \/ Hands[w] = NULL

\* A NULL job, wherever it is, tells that main() has left the last directory;
\* from then on it hands in nothing else; behind a NULL job in the ring, and
\* once a worker has one, there are only NULL jobs.
JobsInOrder ==
  /\ WalkOver => stack = <<>> /\ Offer \in {NULL, NoJob}
  /\ Offer = NULL => WalkOver
  /\ \A w \in Workers : Quitting(w) => WalkOver
  /\ \A w \in Workers : Quitting(w) => \A k \in 1 .. Len(Queued) : Queued[k] = NULL
  /\ \A k \in 1 .. Len(Queued) : Queued[k] = NULL => WalkOver
  /\ \A k, n \in 1 .. Len(Queued) : Queued[k] = NULL /\ k < n => Queued[n] = NULL

\* At the start there is no job.
LEMMA InitOrder == Init => JobsInOrder
<1> SUFFICES ASSUME Init PROVE JobsInOrder
  OBVIOUS
<1>1. Base
  BY InitBase
<1>2. num_jobs = 0 /\ at[Main] = "out"
  BY DEF Init, Ring!Init, Ring!Threads
<1>3. Len(Queued) = 0 /\ Offer = NoJob
  BY <1>1, <1>2, JobTypes DEF Offer, Ring!Pending
<1>4. \A w \in Workers : ~Quitting(w)
  BY GreptileAssumption DEF Init, Quitting, Hands, Holds
<1> QED
  BY <1>3, <1>4, GreptileAssumption DEF Init, JobsInOrder, WalkOver

\* Nothing but the locations of main() and the workers and the jobs matters.
LEMMA OrderStays ==
  ASSUME Base, JobsInOrder, JobsStay, WalkOver' <=> WalkOver,
         WalkOver => stack' = stack, \A w \in Workers : wpc'[w] = "exited" => Quitting(w)
  PROVE  JobsInOrder'
  BY DEF JobsInOrder, JobsStay, Quitting

\* main() sends NULL only behind the last directory, the ring is first-in
\* first-out, and a worker that took NULL takes no other job.
LEMMA NextOrder ==
  ASSUME Base, JobsInOrder, [Next]_vars
  PROVE  JobsInOrder'
<1>1. /\ NoJob \notin Jobs /\ NULL \in Jobs /\ NULL \notin Files
      /\ wpc \in [Workers -> WorkerLocations] /\ Hands \in [Workers -> Jobs \cup {NoJob}]
  BY JobTypes, GreptileAssumption DEF Jobs
<1>2. ASSUME NEW t \in Threads, QuietIn(t), UNCHANGED clientVars PROVE JobsInOrder'
  BY <1>2, OrderStays, QuietMoves DEF clientVars, mainVars, workerVars, WalkOver, Quitting
<1>3. ASSUME Ring!Store(Main), UNCHANGED clientVars PROVE JobsInOrder'
  <2>1. wpc' = wpc /\ mpc' = mpc /\ stack' = stack
    BY <1>3 DEF clientVars, mainVars, workerVars
  <2> QED
    BY <1>1, <1>3, <2>1, StoreMoves, StoredView DEF JobsInOrder, WalkOver, Quitting
<1>4. ASSUME NEW w \in Workers, Ring!Fetch(w), UNCHANGED clientVars PROVE JobsInOrder'
  <2>1. wpc' = wpc /\ mpc' = mpc /\ stack' = stack
    BY <1>4 DEF clientVars, mainVars, workerVars
  <2>2. Fetched(w) /\ wpc[w] = "dequeue"
    BY <1>4, FetchMoves
  <2>3. /\ Len(Queued) \in Nat \ {0} /\ Len(Queued') = Len(Queued) - 1
        /\ \A k \in 1 .. Len(Queued') : Queued'[k] = Queued[k + 1]
        /\ Offer' = Offer /\ Hands'[w] = Queued[1]
        /\ \A v \in Workers \ {w} : Hands'[v] = Hands[v]
    BY <2>2, FetchedView
  <2>4. WalkOver' <=> WalkOver
    BY <2>1 DEF WalkOver
  <2>5. \A v \in Workers : Quitting(v)' => Quitting(v) \/ Queued[1] = NULL
    BY <2>1, <2>3 DEF Quitting
  <2>6. Queued[1] = NULL => WalkOver /\ \A k \in 1 .. Len(Queued) : Queued[k] = NULL
    BY <2>3 DEF JobsInOrder
  <2> QED
    BY <2>1, <2>3, <2>4, <2>5, <2>6 DEF JobsInOrder
<1>5. CASE CreateThread
  BY <1>1, <1>5, OrderStays, MainMoves
     DEF CreateThread, MainAt, WalkOver, Quitting
<1>6. CASE OpenRoot \/ StartJoining \/ Join \/ Destroy \/ ProcessExit
  BY <1>1, <1>6, OrderStays, MainMoves
     DEF OpenRoot, StartJoining, Join, Destroy, ProcessExit, MainAt, mainVars, workerVars, WalkOver, Quitting
<1>7. CASE LeaveDir
  <2>1. JobsStay /\ wpc' = wpc /\ mpc = "walk" /\ Offer = NoJob
    BY <1>7, MainMoves DEF LeaveDir, MainAt, workerVars, Offer, Ring!Pending
  <2>2. CASE Len(stack) = 1
    <3>1. stack' = <<>> /\ mpc' = "sentinels"
      BY <1>7, <2>2, SubSeqEmpty DEF LeaveDir
    <3> QED
      BY <2>1, <3>1 DEF JobsInOrder, JobsStay, WalkOver, Quitting
  <2>3. CASE Len(stack) # 1
    BY <1>7, <2>1, <2>3 DEF LeaveDir, JobsInOrder, JobsStay, WalkOver, Quitting
  <2> QED
    BY <2>2, <2>3
<1>8. CASE SendSentinel
  <2>1. Offered(NULL) /\ wpc' = wpc /\ mpc = "sentinels" /\ mpc' = mpc /\ stack' = stack
    BY <1>8, MainMoves DEF SendSentinel, MainAt, workerVars
  <2> QED
    BY <1>1, <2>1 DEF JobsInOrder, Offered, WalkOver, Quitting
<1>9. ASSUME NEW e \in Entries, VisitFile(e) PROVE JobsInOrder'
  <2>1. e \in Files /\ Offered(e) /\ wpc' = wpc /\ mpc = "walk" /\ mpc' = mpc
    BY <1>9, MainMoves DEF VisitFile, ReadEntry, MainAt, workerVars
  <2> QED
    BY <1>1, <2>1 DEF JobsInOrder, Offered, WalkOver, Quitting
<1>10. ASSUME NEW e \in Entries, VisitDir(e) \/ VisitOther(e) \/ MissEntry(e) \/ VisitFails(e)
       PROVE  JobsInOrder'
  <2>1. JobsStay /\ wpc' = wpc /\ mpc = "walk" /\ mpc' \in {"walk", "exit"}
    BY <1>10, MainMoves
       DEF VisitDir, VisitOther, MissEntry, VisitFails, ReadEntry, MainAt, workerVars
  <2> QED
    BY <2>1 DEF JobsInOrder, JobsStay, WalkOver, Quitting
<1>11. ASSUME NEW e \in Entries, Vanish(e) PROVE JobsInOrder'
  BY <1>11, OrderStays, MainMoves DEF Vanish, mainVars, workerVars, WalkOver, Quitting
<1>12. ASSUME NEW w \in Workers,
              BeginDequeue(w) \/ SearchFile(w) \/ SearchFails(w) \/ Flock(w)
              \/ PrintHeader(w) \/ PrintJob(w) \/ Funlock(w)
       PROVE  JobsInOrder'
  <2>1. JobsStay
    BY <1>12, WorkerMoves
  <2>2. /\ UNCHANGED mainVars
        /\ \E l \in {"dequeue", "flock", "header", "print", "free", "exit"} :
             wpc' = [wpc EXCEPT ![w] = l]
    BY <1>12 DEF BeginDequeue, SearchFile, SearchFails, Flock, PrintHeader, PrintJob,
                 Funlock, WorkerGoto
  <2> QED
    BY <1>1, <2>1, <2>2, OrderStays DEF mainVars, WalkOver, Quitting
<1>13. ASSUME NEW w \in Workers, Quit(w) \/ FreePath(w) PROVE JobsInOrder'
  <2>1. /\ Released(w) /\ UNCHANGED mainVars
        /\ \/ Quit(w) /\ Hands[w] = NULL /\ wpc' = [wpc EXCEPT ![w] = "exited"]
           \/ wpc' = [wpc EXCEPT ![w] = "loop"]
    BY <1>13, WorkerMoves DEF Quit, FreePath, WorkerGoto
  <2>2. /\ UNCHANGED <<Queued, Offer>> /\ WalkOver' = WalkOver /\ stack' = stack
        /\ \A v \in Workers : Quitting(v)' => Quitting(v)
    BY <1>1, <2>1 DEF Released, mainVars, WalkOver, Quitting
  <2> QED
    BY <2>2 DEF JobsInOrder
<1>14. CASE UNCHANGED vars
  BY <1>14, OrderStays, MainMoves DEF vars, mainVars, workerVars, WalkOver, Quitting
<1> QED
  BY <1>2, <1>3, <1>4, <1>5, <1>6, <1>7, <1>8, <1>9, <1>10, <1>11, <1>12, <1>13, <1>14, Steps

\* The order of the jobs holds in every reachable state.
LEMMA OrderInvariant == SafeSpec => [](Base /\ JobsInOrder)
<1>1. Init => Base /\ JobsInOrder
  BY InitBase, InitOrder
<1>2. Base /\ JobsInOrder /\ [Next]_vars => (Base /\ JobsInOrder)'
  BY NextBase, NextOrder
<1> QED
  BY <1>1, <1>2, PTL DEF SafeSpec

\* The views of a job in the proofs and in the properties are the same.
LEMMA Views ==
  ASSUME Base
  PROVE  \A job \in Jobs :
           /\ MainOffers(job) <=> Offer = job
           /\ \A w \in Workers : HoldsFile(w, job) <=> Hands[w] = job
<1>1. NoJob \notin Jobs
  BY JobTypes
<1>2. \A w \in Workers : \A job : HoldsFile(w, job) <=> Holds(w) /\ got[w] = job
  BY DEF HoldsFile, Holds
<1> QED
  BY <1>1, <1>2 DEF MainOffers, Offer, Hands

\* A worker that has quit has left no file to be searched: none in the ring,
\* none in main()'s hands and none in a directory not yet read, for every tree
\* and every number of workers (greptile.c:329-331 and 213-214).
THEOREM SentinelsComeLast == Spec => []NoFileAfterQuit
<1>1. Base /\ JobsInOrder => NoFileAfterQuit
  <2> SUFFICES ASSUME Base, JobsInOrder, NEW w \in Workers, wpc[w] = "exited"
               PROVE  /\ stack = <<>>
                      /\ \A f \in Files : ~MainOffers(f)
                      /\ \A k \in 1 .. num_jobs : Ring!Contents[k] = NULL
    BY DEF NoFileAfterQuit
  <2>1. Quitting(w)
    BY DEF Quitting
  <2>2. stack = <<>> /\ Offer \in {NULL, NoJob} /\ \A k \in 1 .. Len(Queued) : Queued[k] = NULL
    BY <2>1 DEF JobsInOrder
  <2>3. \A f \in Files : ~MainOffers(f)
    BY <2>2, Views, GreptileAssumption DEF Jobs
  <2> QED
    BY <2>2, <2>3, JobTypes DEF Queued
<1> QED
  BY <1>1, OrderInvariant, PTL DEF Spec

-----------------------------------------------------------------------------
(* Counting the NULL jobs.                                                 *)

\* The places of v in the sequence s.
Places(s, v) == {k \in 1 .. Len(s) : s[k] = v}

\* A sequence has finitely many places of a value.
LEMMA PlacesFinite ==
  ASSUME NEW S, NEW s \in Seq(S), NEW v
  PROVE  IsFiniteSet(Places(s, v)) /\ Cardinality(Places(s, v)) \in Nat
<1>1. IsFiniteSet(1 .. Len(s)) /\ Places(s, v) \in SUBSET (1 .. Len(s))
  BY FS_Interval, LenProperties DEF Places
<1>2. IsFiniteSet(Places(s, v))
  BY <1>1, FS_Subset
<1> QED
  BY <1>2, FS_CardinalityType

\* Appending adds a place exactly if it appends v.
LEMMA PlacesAppend ==
  ASSUME NEW S, NEW s \in Seq(S), NEW x \in S, NEW v
  PROVE  Cardinality(Places(Append(s, x), v))
           = Cardinality(Places(s, v)) + (IF x = v THEN 1 ELSE 0)
<1> DEFINE n == Len(s) + 1
<1>1. /\ Len(s) \in Nat /\ Len(Append(s, x)) = n /\ Append(s, x)[n] = x
      /\ \A k \in 1 .. Len(s) : Append(s, x)[k] = s[k]
  BY AppendProperties, LenProperties
<1>2. Places(Append(s, x), v) = IF x = v THEN Places(s, v) \cup {n} ELSE Places(s, v)
  BY <1>1 DEF Places
<1>3. n \notin Places(s, v)
  BY <1>1 DEF Places
<1>4. IsFiniteSet(Places(s, v)) /\ Cardinality(Places(s, v)) \in Nat
  BY PlacesFinite
<1>5. Cardinality(Places(s, v) \cup {n}) = Cardinality(Places(s, v)) + 1
  BY <1>3, <1>4, FS_AddElement
<1> QED
  BY <1>2, <1>4, <1>5

\* Taking the head removes a place exactly if the head was v.
LEMMA PlacesTail ==
  ASSUME NEW S, NEW s \in Seq(S), s # <<>>, NEW v
  PROVE  Cardinality(Places(s, v))
           = Cardinality(Places(Tail(s), v)) + (IF Head(s) = v THEN 1 ELSE 0)
<1>1. /\ Len(s) \in Nat \ {0} /\ Head(s) = s[1] /\ Tail(s) \in Seq(S)
      /\ Len(Tail(s)) = Len(s) - 1
      /\ \A k \in 1 .. Len(s) - 1 : Tail(s)[k] = s[k + 1]
  BY EmptySeq, HeadTailProperties
<1> DEFINE A == Places(Tail(s), v)
           B == Places(s, v) \ {1}
           f == [k \in A |-> k + 1]
<1>2. ExistsBijection(A, B)
  <2>1. \A k \in A : k \in Int /\ k + 1 \in B
    BY <1>1 DEF Places
  <2>2. \A m \in B : m - 1 \in A /\ (m - 1) + 1 = m
    BY <1>1 DEF Places
  <2> HIDE DEF A, B
  <2>3. f \in Injection(A, B)
    BY <2>1 DEF Injection, IsInjective
  <2>4. f \in Surjection(A, B)
    BY <2>1, <2>2 DEF Surjection
  <2> QED
    BY <2>3, <2>4 DEF ExistsBijection, Bijection
<1>3. IsFiniteSet(A) /\ Cardinality(A) \in Nat
  BY <1>1, PlacesFinite
<1>4. Cardinality(B) = Cardinality(A)
  BY <1>2, <1>3, FS_Bijection
<1>5. IsFiniteSet(Places(s, v)) /\ Cardinality(Places(s, v)) \in Nat
  BY PlacesFinite
<1>6. Cardinality(B) = IF 1 \in Places(s, v) THEN Cardinality(Places(s, v)) - 1
                                             ELSE Cardinality(Places(s, v))
  BY <1>5, FS_RemoveElement
<1>7. 1 \in Places(s, v) <=> Head(s) = v
  BY <1>1 DEF Places
<1> HIDE DEF B
<1> QED
  BY <1>3, <1>4, <1>5, <1>6, <1>7

-----------------------------------------------------------------------------
(* One NULL job for each worker still to be stopped.                       *)

NotQuitting == {w \in Workers : ~Quitting(w)}
Unsent == IF ~WalkOver THEN NUM_THREADS
          ELSE IF mpc = "sentinels" THEN NUM_THREADS - i ELSE 0
NullsAhead == Cardinality(Places(Queued, NULL)) + (IF Offer = NULL THEN 1 ELSE 0) + Unsent

\* OneSentinelEach as an equation of every state: before main() sends the
\* first NULL job, all of them are unsent.
Balance == Cardinality(NotQuitting) = NullsAhead

\* What Balance counts is finite.
LEMMA Counted ==
  ASSUME Base
  PROVE  /\ IsFiniteSet(NotQuitting) /\ Cardinality(NotQuitting) \in Nat
         /\ Cardinality(Places(Queued, NULL)) \in Nat /\ Unsent \in Nat
<1>1. IsFiniteSet(Workers) /\ NotQuitting \in SUBSET Workers
  BY FS_Interval, GreptileAssumption DEF Workers, NotQuitting
<1>2. IsFiniteSet(NotQuitting) /\ Cardinality(NotQuitting) \in Nat
  BY <1>1, FS_Subset, FS_CardinalityType
<1>3. Cardinality(Places(Queued, NULL)) \in Nat
  BY JobTypes, PlacesFinite
<1>4. Unsent \in Nat
  BY JobTypes DEF Unsent
<1> QED
  BY <1>2, <1>3, <1>4

\* At the start no worker quits and all NULL jobs are unsent.
LEMMA InitBalance == Init => Balance
<1> SUFFICES ASSUME Init PROVE Balance
  OBVIOUS
<1>1. Base
  BY InitBase
<1>2. num_jobs = 0 /\ at[Main] = "out"
  BY DEF Init, Ring!Init, Ring!Threads
<1>3. Len(Queued) = 0 /\ Offer = NoJob
  BY <1>1, <1>2, JobTypes DEF Offer, Ring!Pending
<1>4. NotQuitting = 1 .. NUM_THREADS
  BY GreptileAssumption DEF Init, NotQuitting, Quitting, Hands, Holds, Workers
<1>5. Cardinality(NotQuitting) = NUM_THREADS
  BY <1>4, FS_Interval, GreptileAssumption
<1>6. Places(Queued, NULL) = {}
  BY <1>3 DEF Places
<1>7. Cardinality(Places(Queued, NULL)) = 0
  BY <1>6, FS_EmptySet
<1>8. Unsent = NUM_THREADS
  BY DEF Init, Unsent, WalkOver
<1> QED
  BY <1>3, <1>5, <1>7, <1>8, GreptileAssumption DEF Balance, NullsAhead

\* A step that moves no job and sends none leaves both sides alone.
LEMMA BalanceStays ==
  ASSUME Balance, JobsStay, Unsent' = Unsent, \A w \in Workers : Quitting(w)' <=> Quitting(w)
  PROVE  Balance'
<1>1. NotQuitting' = NotQuitting
  BY DEF NotQuitting
<1> QED
  BY <1>1 DEF Balance, NullsAhead, JobsStay, Places

\* SendSentinel turns an unsent NULL job into one on offer, Store puts it into
\* the ring, and Fetch takes it there and makes one more worker quit.
LEMMA NextBalance ==
  ASSUME Base, JobsInOrder, Balance, [Next]_vars
  PROVE  Balance'
<1>1. /\ NoJob \notin Jobs /\ NULL \in Jobs /\ NULL \notin Files /\ Queued \in Seq(Jobs)
      /\ wpc \in [Workers -> WorkerLocations] /\ Hands \in [Workers -> Jobs \cup {NoJob}]
      /\ i \in 0 .. NUM_THREADS /\ NUM_THREADS \in Nat /\ Offer \in Jobs \cup {NoJob}
  BY JobTypes, GreptileAssumption DEF Jobs
<1>2. ASSUME NEW t \in Threads, QuietIn(t), UNCHANGED clientVars PROVE Balance'
  BY <1>2, BalanceStays, QuietMoves
     DEF clientVars, mainVars, workerVars, WalkOver, Unsent, Quitting, JobsStay
<1>3. ASSUME Ring!Store(Main), UNCHANGED clientVars PROVE Balance'
  <2>1. Stored /\ Unsent' = Unsent /\ NotQuitting' = NotQuitting
    BY <1>3, StoreMoves
       DEF clientVars, mainVars, workerVars, Stored, Unsent, WalkOver, NotQuitting, Quitting
  <2>2. Cardinality(Places(Queued', NULL))
          = Cardinality(Places(Queued, NULL)) + (IF Offer = NULL THEN 1 ELSE 0)
    BY <1>1, <2>1, PlacesAppend DEF Stored
  <2>3. Offer' = NoJob /\ Places(Queued, NULL)' = Places(Queued', NULL)
    BY <2>1 DEF Stored, Places
  <2> QED
    BY <1>1, <2>1, <2>2, <2>3, Counted DEF Balance, NullsAhead
<1>4. ASSUME NEW w \in Workers, Ring!Fetch(w), UNCHANGED clientVars PROVE Balance'
  <2>1. Fetched(w) /\ wpc[w] = "dequeue" /\ Unsent' = Unsent /\ wpc' = wpc
    BY <1>4, FetchMoves DEF clientVars, mainVars, workerVars, Unsent, WalkOver
  <2>2. /\ Offer' = Offer /\ Hands[w] = NoJob /\ Hands'[w] = Head(Queued)
        /\ \A v \in Workers \ {w} : Hands'[v] = Hands[v]
    BY <1>1, <2>1 DEF Fetched
  <2>3. Cardinality(Places(Queued, NULL))
          = Cardinality(Places(Queued', NULL)) + (IF Head(Queued) = NULL THEN 1 ELSE 0)
    BY <1>1, <2>1, PlacesTail DEF Fetched
  <2>4. Places(Queued, NULL)' = Places(Queued', NULL)
    BY DEF Places
  <2>5. w \in NotQuitting
    BY <1>1, <2>1, <2>2 DEF NotQuitting, Quitting
  <2>6. NotQuitting' = IF Head(Queued) = NULL THEN NotQuitting \ {w} ELSE NotQuitting
    BY <2>1, <2>2, <2>5 DEF NotQuitting, Quitting
  <2>7. Cardinality(NotQuitting \ {w}) = Cardinality(NotQuitting) - 1
    BY <2>5, Counted, FS_RemoveElement
  <2>8. Cardinality(Places(Queued', NULL)) \in Nat
    BY <1>1, <2>1, HeadTailProperties, PlacesFinite DEF Fetched
  <2> QED
    BY <2>1, <2>2, <2>3, <2>4, <2>6, <2>7, <2>8, Counted DEF Balance, NullsAhead
<1>5. CASE CreateThread
  <2>1. \A w \in Workers : ~Quitting(w)
    BY <1>5 DEF CreateThread, MainAt, JobsInOrder, WalkOver
  <2>2. \A w \in Workers : Quitting(w)' <=> Quitting(w)
    BY <1>1, <1>5, <2>1, MainMoves DEF CreateThread, Quitting, JobsStay
  <2> QED
    BY <1>5, <2>2, BalanceStays, MainMoves DEF CreateThread, MainAt, Unsent, WalkOver
<1>6. CASE OpenRoot \/ StartJoining \/ Join \/ Destroy \/ ProcessExit
  <2>1. Unsent' = Unsent
    BY <1>1, <1>6
       DEF OpenRoot, StartJoining, Join, Destroy, ProcessExit, MainAt, mainVars, Unsent, WalkOver
  <2> QED
    BY <1>6, <2>1, BalanceStays, MainMoves
       DEF OpenRoot, StartJoining, Join, Destroy, ProcessExit, workerVars, Quitting, JobsStay
<1>7. CASE LeaveDir
  <2>1. Unsent' = Unsent
    BY <1>1, <1>7 DEF LeaveDir, MainAt, Unsent, WalkOver
  <2> QED
    BY <1>7, <2>1, BalanceStays, MainMoves DEF LeaveDir, workerVars, Quitting, JobsStay
<1>8. CASE SendSentinel
  <2>1. /\ Offered(NULL) /\ wpc' = wpc /\ i < NUM_THREADS
        /\ WalkOver /\ mpc = "sentinels" /\ mpc' = mpc /\ i' = i + 1
    BY <1>8, MainMoves DEF SendSentinel, MainAt, workerVars, WalkOver
  <2>2. Unsent = NUM_THREADS - i /\ Unsent' = NUM_THREADS - (i + 1)
    BY <2>1 DEF Unsent, WalkOver
  <2>3. /\ Offer # NULL /\ Offer' = NULL /\ NotQuitting' = NotQuitting
        /\ Places(Queued, NULL)' = Places(Queued, NULL)
    BY <1>1, <2>1 DEF Offered, NotQuitting, Quitting, Places
  <2> QED
    BY <1>1, <2>2, <2>3, Counted DEF Balance, NullsAhead
<1>9. ASSUME NEW e \in Entries, VisitFile(e) PROVE Balance'
  <2>1. e \in Files /\ Offered(e) /\ wpc' = wpc /\ Unsent' = Unsent
    BY <1>9, MainMoves DEF VisitFile, workerVars, Unsent, WalkOver
  <2>2. /\ Offer # NULL /\ Offer' # NULL /\ NotQuitting' = NotQuitting
        /\ Places(Queued, NULL)' = Places(Queued, NULL)
    BY <1>1, <2>1 DEF Offered, NotQuitting, Quitting, Places
  <2> QED
    BY <2>1, <2>2 DEF Balance, NullsAhead
<1>10. ASSUME NEW e \in Entries,
              VisitDir(e) \/ VisitOther(e) \/ MissEntry(e) \/ VisitFails(e) \/ Vanish(e)
       PROVE  Balance'
  <2>1. Unsent' = Unsent
    BY <1>10 DEF VisitDir, VisitOther, MissEntry, VisitFails, Vanish, ReadEntry, MainAt,
                 mainVars, Unsent, WalkOver
  <2> QED
    BY <1>10, <2>1, BalanceStays, MainMoves
       DEF VisitDir, VisitOther, MissEntry, VisitFails, Vanish, workerVars, Quitting, JobsStay
<1>11. ASSUME NEW w \in Workers,
              BeginDequeue(w) \/ SearchFile(w) \/ SearchFails(w) \/ Flock(w)
              \/ PrintHeader(w) \/ PrintJob(w) \/ Funlock(w)
       PROVE  Balance'
  <2>1. JobsStay
    BY <1>11, WorkerMoves
  <2>2. /\ UNCHANGED mainVars /\ wpc[w] # "exited"
        /\ \E l \in {"dequeue", "flock", "header", "print", "free", "exit"} :
             wpc' = [wpc EXCEPT ![w] = l]
    BY <1>11 DEF BeginDequeue, SearchFile, SearchFails, Dequeued, Flock, PrintHeader, PrintJob,
                 Funlock, WorkerGoto
  <2>3. Unsent' = Unsent
    BY <2>2 DEF mainVars, Unsent, WalkOver
  <2> QED
    BY <1>1, <2>1, <2>2, <2>3, BalanceStays DEF Quitting, JobsStay
<1>12. ASSUME NEW w \in Workers, Quit(w) \/ FreePath(w) PROVE Balance'
  <2>1. /\ Released(w) /\ UNCHANGED mainVars
        /\ \/ Hands[w] = NULL /\ wpc' = [wpc EXCEPT ![w] = "exited"]
           \/ Hands[w] \in Files /\ wpc[w] = "free" /\ wpc' = [wpc EXCEPT ![w] = "loop"]
    BY <1>12, WorkerMoves DEF Quit, FreePath, WorkerGoto
  <2>2. \A v \in Workers : Quitting(v)' <=> Quitting(v)
    BY <1>1, <2>1 DEF Released, Quitting
  <2>3. /\ NotQuitting' = NotQuitting /\ Unsent' = Unsent /\ Offer' = Offer
        /\ Places(Queued, NULL)' = Places(Queued, NULL)
    BY <2>1, <2>2 DEF Released, NotQuitting, mainVars, Unsent, WalkOver, Places
  <2> QED
    BY <2>3 DEF Balance, NullsAhead
<1>13. CASE UNCHANGED vars
  BY <1>13, BalanceStays, MainMoves
     DEF vars, mainVars, workerVars, WalkOver, Unsent, Quitting, JobsStay
<1> QED
  BY <1>2, <1>3, <1>4, <1>5, <1>6, <1>7, <1>8, <1>9, <1>10, <1>11, <1>12, <1>13, Steps

\* In every state from the first NULL job to the end of the process, the
\* workers still to be stopped are as many as the NULL jobs in the ring, in
\* main()'s hands and still to be sent: no worker waits for ever and no NULL
\* job is left over, for every number of workers (greptile.c:330-331).
THEOREM SentinelsMatchWorkers == Spec => []OneSentinelEach
<1>1. Init => Base /\ JobsInOrder /\ Balance
  BY InitBase, InitOrder, InitBalance
<1>2. Base /\ JobsInOrder /\ Balance /\ [Next]_vars => (Base /\ JobsInOrder /\ Balance)'
  BY NextBase, NextOrder, NextBalance
<1>3. Base /\ Balance => OneSentinelEach
  <2> SUFFICES ASSUME Base, Balance, WalkOver
               PROVE  Cardinality({w \in Workers : wpc[w] # "exited" /\ ~HoldsFile(w, NULL)})
                        = Cardinality({k \in 1 .. num_jobs : Ring!Contents[k] = NULL})
                          + (IF MainOffers(NULL) THEN 1 ELSE 0)
                          + (IF mpc = "sentinels" THEN NUM_THREADS - i ELSE 0)
    BY DEF OneSentinelEach, WalkOver
  <2>1. {w \in Workers : wpc[w] # "exited" /\ ~HoldsFile(w, NULL)} = NotQuitting
    BY Views DEF NotQuitting, Quitting, Jobs
  <2>2. {k \in 1 .. num_jobs : Ring!Contents[k] = NULL} = Places(Queued, NULL)
    BY JobTypes DEF Places, Queued
  <2>3. MainOffers(NULL) <=> Offer = NULL
    BY Views DEF Jobs
  <2>4. Unsent = IF mpc = "sentinels" THEN NUM_THREADS - i ELSE 0
    BY DEF Unsent
  <2> QED
    BY <2>1, <2>2, <2>3, <2>4 DEF Balance, NullsAhead
<1> QED
  BY <1>1, <1>2, <1>3, PTL DEF Spec, SafeSpec

-----------------------------------------------------------------------------
(***************************************************************************)
(* The files of the program: each path has one owner from its malloc to    *)
(* its free, and each file's lines are printed once and in one piece.      *)
(*                                                                         *)
(* The invariants speak of the entries readdir has not returned yet.  No   *)
(* variable holds that set, and a path that leaves the program leaves no   *)
(* trace in it; so the inductive invariant says that there is such a set.  *)
(*                                                                         *)
(* Last, the exit status tells the truth: a status of 0 or 1 is returned   *)
(* only when every file of the tree that was not removed by others         *)
(* meanwhile was printed to its last match.                                *)
(***************************************************************************)

\* main() found entry e.
VisitStep(e) == VisitDir(e) \/ VisitFile(e) \/ VisitOther(e) \/ VisitFails(e)

WorkerPrivate(w) == BeginDequeue(w) \/ SearchFile(w) \/ SearchFails(w)
WorkerPrints(w)  == Flock(w) \/ PrintHeader(w) \/ PrintJob(w) \/ Funlock(w)

OtherStep ==
  \/ CreateThread \/ OpenRoot \/ LeaveDir
  \/ SendSentinel \/ StartJoining \/ Join \/ Destroy \/ ProcessExit
  \/ \E e \in Entries : MissEntry(e) \/ Vanish(e)
  \/ \E w \in Workers : WorkerPrivate(w) \/ WorkerPrints(w) \/ Quit(w) \/ FreePath(w)
  \/ Ring!Store(Main) /\ UNCHANGED clientVars
  \/ \E w \in Workers : Ring!Fetch(w) /\ UNCHANGED clientVars
  \/ \E t \in Threads : QuietIn(t) /\ UNCHANGED clientVars
  \/ UNCHANGED vars

\* A step finds an entry or is one of the others.
LEMMA StepKinds ==
  ASSUME [Next]_vars
  PROVE  (\E e \in Entries : VisitStep(e)) \/ OtherStep
  BY Steps DEF VisitStep, OtherStep, WorkerPrivate, WorkerPrints

-----------------------------------------------------------------------------
(* The walk.  U is the set of entries not yet returned by readdir.         *)

\* What is open is no longer in U, what is in U has nothing below it outside
\* U, and no path of an entry in U is allocated.
Tree(U) ==
  /\ \A d \in U \cap Dirs : Kids[d] \subseteq U
  /\ mpc = "create" => U = Entries /\ stack = <<>>
  /\ \A k \in 1 .. Len(stack) :
       stack[k].dir \notin U /\ stack[k].todo \subseteq Kids[stack[k].dir] \cap U
  /\ \A k, n \in 1 .. Len(stack) : stack[k].dir = stack[n].dir => k = n
  /\ live \cap U = {}

\* At the start nothing is open and U is all entries.
LEMMA InitTree == Init => Tree(Entries)
  BY GreptileAssumption DEF Init, Tree

\* The innermost open directory.
LEMMA TopFrame ==
  ASSUME Base, stack # <<>>
  PROVE  /\ Len(stack) \in Nat \ {0} /\ stack \in Seq(Frames)
         /\ \A k \in 1 .. Len(stack) : stack[k] \in Frames
         /\ stack[Len(stack)].dir \in Dirs \cup {Root}
<1>1. stack \in Seq(Frames)
  BY DEF Base, LocalTypes
<1>2. Len(stack) \in Nat \ {0}
  BY <1>1, EmptySeq
<1>3. \A k \in 1 .. Len(stack) : stack[k] \in Frames
  BY <1>1, ElementOfSeq
<1>4. stack[Len(stack)] \in Frames
  BY <1>2, <1>3
<1> QED
  BY <1>1, <1>2, <1>3, <1>4 DEF Frames

\* An entry that readdir returns is in U, below no other directory, and not
\* allocated.
LEMMA FreshEntry ==
  ASSUME Base, NEW U \in SUBSET Entries, Tree(U), NEW e \in Entries, ReadEntry(e)
  PROVE  /\ e \in U /\ e \notin live
         /\ e \in Kids[stack[Len(stack)].dir]
         /\ \A d \in Dirs \cup {Root} : e \in Kids[d] => d = stack[Len(stack)].dir
         /\ stack # <<>> /\ mpc = "walk"
<1>1. stack # <<>> /\ mpc = "walk" /\ e \in stack[Len(stack)].todo
  BY DEF ReadEntry, MainAt
<1>2. Len(stack) \in 1 .. Len(stack) /\ stack[Len(stack)].dir \in Dirs \cup {Root}
  BY <1>1, TopFrame
<1> QED
  BY <1>1, <1>2, GreptileAssumption DEF Tree

\* AfterEntry takes one entry from the innermost open directory.
LEMMA AfterEntryView ==
  ASSUME Base, stack # <<>>, NEW e
  PROVE  /\ AfterEntry(e) \in Seq(Frames) /\ Len(AfterEntry(e)) = Len(stack)
         /\ \A k \in 1 .. Len(stack) :
              /\ AfterEntry(e)[k].dir = stack[k].dir
              /\ AfterEntry(e)[k].todo
                   = IF k = Len(stack) THEN stack[k].todo \ {e} ELSE stack[k].todo
<1>1. stack \in Seq(Frames)
  BY TopFrame
<1>2. /\ AfterEntry(e) \in Seq(Frames) /\ Len(AfterEntry(e)) = Len(stack)
      /\ \A k \in 1 .. Len(stack) :
           AfterEntry(e)[k] = IF k = Len(stack)
                              THEN [dir |-> stack[k].dir, todo |-> stack[k].todo \ {e}]
                              ELSE stack[k]
  BY <1>1, AfterEntryOK
<1>3. ASSUME NEW k \in 1 .. Len(stack)
      PROVE  /\ AfterEntry(e)[k].dir = stack[k].dir
             /\ AfterEntry(e)[k].todo
                  = IF k = Len(stack) THEN stack[k].todo \ {e} ELSE stack[k].todo
  <2>1. CASE k = Len(stack)
    <3>1. AfterEntry(e)[k] = [dir |-> stack[k].dir, todo |-> stack[k].todo \ {e}]
      BY <1>2, <2>1
    <3> QED
      BY <2>1, <3>1
  <2>2. CASE k # Len(stack)
    BY <1>2, <2>2
  <2> QED
    BY <2>1, <2>2
<1> QED
  BY <1>2, <1>3

\* A found entry leaves U; if it is a directory that opens, everything below
\* it is still in U.
LEMMA VisitTree ==
  ASSUME Base, NEW U \in SUBSET Entries, Tree(U), NEW e \in Entries, VisitStep(e)
  PROVE  Tree(U \ {e})'
<1> DEFINE top == stack[Len(stack)].dir
           V == U \ {e}
<1>1. ReadEntry(e) /\ mpc' \in {"walk", "exit"} /\ live' \subseteq live \cup {e}
  BY DEF VisitStep, VisitDir, VisitFile, VisitOther, VisitFails, ReadEntry, MainAt
<1>2. /\ e \in U /\ e \notin live /\ e \in Kids[top] /\ stack # <<>>
      /\ \A d \in Dirs \cup {Root} : e \in Kids[d] => d = top
  BY <1>1, FreshEntry
<1>3. /\ Len(stack) \in Nat \ {0} /\ stack \in Seq(Frames)
      /\ \A k \in 1 .. Len(stack) : stack[k] \in Frames
  BY <1>2, TopFrame
<1>4. /\ AfterEntry(e) \in Seq(Frames) /\ Len(AfterEntry(e)) = Len(stack)
      /\ \A k \in 1 .. Len(stack) :
           /\ AfterEntry(e)[k].dir = stack[k].dir
           /\ AfterEntry(e)[k].todo
                = IF k = Len(stack) THEN stack[k].todo \ {e} ELSE stack[k].todo
  BY <1>2, AfterEntryView
<1>5. ASSUME NEW d \in U \cap Dirs PROVE Kids[d] \subseteq V \/ d = e
  <2>1. top \notin U
    BY <1>3 DEF Tree
  <2> QED
    BY <1>2, <2>1 DEF Tree
<1>6. \A d \in V \cap Dirs : Kids[d] \subseteq V
  BY <1>5
<1>7. \A k \in 1 .. Len(stack) : /\ AfterEntry(e)[k].dir \notin V
                                 /\ AfterEntry(e)[k].todo \subseteq Kids[AfterEntry(e)[k].dir] \cap V
  <2> SUFFICES ASSUME NEW k \in 1 .. Len(stack)
               PROVE  /\ AfterEntry(e)[k].dir \notin V
                      /\ AfterEntry(e)[k].todo \subseteq Kids[AfterEntry(e)[k].dir] \cap V
    OBVIOUS
  <2>1. /\ stack[k].dir \in Dirs \cup {Root}
        /\ stack[k].dir \notin U /\ stack[k].todo \subseteq Kids[stack[k].dir] \cap U
    BY <1>3 DEF Tree, Frames
  <2>2. CASE k = Len(stack)
    BY <1>4, <2>1, <2>2
  <2>3. CASE k # Len(stack)
    <3>1. stack[k].dir # top
      BY <1>3, <2>3 DEF Tree
    <3>2. e \notin Kids[stack[k].dir]
      BY <1>2, <2>1, <3>1
    <3> QED
      BY <1>4, <2>1, <3>2
  <2> QED
    BY <2>2, <2>3
<1>8. \A k, n \in 1 .. Len(stack) : AfterEntry(e)[k].dir = AfterEntry(e)[n].dir => k = n
  BY <1>4 DEF Tree
<1>9. live' \cap V = {}
  BY <1>1 DEF Tree
<1>10. CASE stack' = AfterEntry(e)
  BY <1>1, <1>4, <1>6, <1>7, <1>8, <1>9, <1>10 DEF Tree
<1>11. CASE e \in Dirs /\ stack' = Append(AfterEntry(e), OpenDir(e))
  <2>1. OpenDir(e) \in Frames /\ OpenDir(e).dir = e /\ OpenDir(e).todo = Kids[e]
    BY <1>11, FramesOK DEF OpenDir
  <2>2. /\ Len(stack') = Len(stack) + 1 /\ stack'[Len(stack) + 1] = OpenDir(e)
        /\ \A k \in 1 .. Len(stack) : stack'[k] = AfterEntry(e)[k]
    BY <1>4, <1>11, <2>1, AppendProperties
  <2>3. e # top
    BY <1>2, <1>3 DEF Tree
  <2>4. Kids[e] \subseteq V
    BY <1>2, <1>11, <2>3 DEF Tree
  <2>5. \A k \in 1 .. Len(stack) : AfterEntry(e)[k].dir # e
    <3>1. \A k \in 1 .. Len(stack) : stack[k].dir # e
      BY <1>2 DEF Tree
    <3> QED
      BY <1>4, <3>1
  <2>6. \A k \in 1 .. Len(stack') : k \in 1 .. Len(stack) \/ k = Len(stack) + 1
    BY <1>3, <2>2
  <2>7. \A k \in 1 .. Len(stack') :
          stack'[k].dir \notin V /\ stack'[k].todo \subseteq Kids[stack'[k].dir] \cap V
    BY <1>7, <2>1, <2>2, <2>4, <2>6
  <2>8. \A k, n \in 1 .. Len(stack') : stack'[k].dir = stack'[n].dir => k = n
    BY <1>8, <2>1, <2>2, <2>5, <2>6
  <2> QED
    BY <1>1, <1>6, <1>9, <2>7, <2>8 DEF Tree
<1> QED
  BY <1>10, <1>11 DEF VisitStep, VisitDir, VisitFile, VisitOther, VisitFails

\* Leaving the innermost directory.
LEMMA Popped ==
  ASSUME Base, stack # <<>>, stack' = SubSeq(stack, 1, Len(stack) - 1)
  PROVE  Len(stack') = Len(stack) - 1 /\ \A k \in 1 .. Len(stack) - 1 : stack'[k] = stack[k]
<1> DEFINE n == Len(stack) - 1
<1>1. n \in Nat /\ \A k \in 1 .. n : stack[k] \in Frames
  BY TopFrame
<1> HIDE DEF n
<1>2. /\ Len(SubSeq(stack, 1, n)) = IF 1 <= n THEN n - 1 + 1 ELSE 0
      /\ \A k \in 1 .. n - 1 + 1 : SubSeq(stack, 1, n)[k] = stack[1 + k - 1]
  BY <1>1, SubSeqProperties
<1>3. /\ Len(SubSeq(stack, 1, n)) = n
      /\ \A k \in 1 .. n : SubSeq(stack, 1, n)[k] = stack[k]
  BY <1>1, <1>2
<1> QED
  BY <1>3 DEF n

\* Every other step keeps U.
LEMMA OtherTree ==
  ASSUME Base, NEW U \in SUBSET Entries, Tree(U), OtherStep
  PROVE  Tree(U)'
<1>1. ASSUME UNCHANGED stack, live' \subseteq live, mpc' = "create" => mpc = "create"
      PROVE  Tree(U)'
  BY <1>1 DEF Tree
<1>2. CASE OpenRoot
  <2>1. stack' = <<OpenDir(Root)>> /\ mpc' = "walk" /\ live' = live /\ U = Entries
    BY <1>2 DEF OpenRoot, MainAt, Tree
  <2>2. Len(stack') = 1 /\ stack'[1].dir = Root /\ stack'[1].todo = Kids[Root]
    BY <2>1 DEF OpenDir
  <2> QED
    BY <2>1, <2>2, GreptileAssumption DEF Tree
<1>3. CASE LeaveDir
  <2>1. /\ stack # <<>> /\ stack' = SubSeq(stack, 1, Len(stack) - 1)
        /\ live' \subseteq live /\ mpc' # "create"
    BY <1>3 DEF LeaveDir, MainAt
  <2>2. Len(stack) \in Nat \ {0} /\ \A k \in 1 .. Len(stack) : stack[k] \in Frames
    BY <2>1, TopFrame
  <2>3. Len(stack') = Len(stack) - 1 /\ \A k \in 1 .. Len(stack) - 1 : stack'[k] = stack[k]
    BY <2>1, <2>2, Popped
  <2> QED
    BY <2>1, <2>2, <2>3 DEF Tree
<1>4. ASSUME NEW e \in Entries, MissEntry(e) PROVE Tree(U)'
  <2>1. stack # <<>> /\ stack' = AfterEntry(e) /\ live' = live /\ mpc' = mpc
    BY <1>4 DEF MissEntry, ReadEntry
  <2>2. /\ Len(stack') = Len(stack)
        /\ \A k \in 1 .. Len(stack) : /\ stack'[k].dir = stack[k].dir
                                      /\ stack'[k].todo \subseteq stack[k].todo
    BY <2>1, AfterEntryView
  <2> QED
    BY <1>4, <2>1, <2>2 DEF Tree, MissEntry, ReadEntry, MainAt
<1>5. CASE CreateThread \/ SendSentinel \/ StartJoining \/ Join \/ Destroy \/ ProcessExit
  BY <1>1, <1>5
     DEF CreateThread, SendSentinel, StartJoining, Join, Destroy, ProcessExit, mainVars
<1>6. ASSUME NEW e \in Entries, Vanish(e) PROVE Tree(U)'
  BY <1>1, <1>6 DEF Vanish, mainVars
<1>7. ASSUME NEW w \in Workers, WorkerPrivate(w) \/ WorkerPrints(w) \/ Quit(w) \/ FreePath(w)
      PROVE  Tree(U)'
  BY <1>1, <1>7 DEF WorkerPrivate, WorkerPrints, BeginDequeue, Quit, SearchFile, SearchFails,
        Flock, PrintHeader, PrintJob, Funlock, FreePath, WorkerGoto, mainVars
<1>8. CASE UNCHANGED clientVars \/ UNCHANGED vars
  BY <1>1, <1>8 DEF clientVars, vars, mainVars
<1> QED
  BY <1>2, <1>3, <1>4, <1>5, <1>6, <1>7, <1>8 DEF OtherStep

-----------------------------------------------------------------------------
(* Who owns a path.                                                        *)

InHands(f) == \E w \in Workers : Hands[w] = f
InRing(f)  == \E k \in 1 .. Len(Queued) : Queued[k] = f
Owned(f)   == InHands(f) \/ InRing(f) \/ Offer = f

\* A path is in one place at most, and in one exactly while it is allocated;
\* except that a main() that is about to end the process for an entry it
\* cannot open has just allocated a path that nobody else has seen.
OneOwner ==
  \A f \in Files :
    /\ \A w, v \in Workers : Hands[w] = f /\ Hands[v] = f => w = v
    /\ \A k, n \in 1 .. Len(Queued) : Queued[k] = f /\ Queued[n] = f => k = n
    /\ ~(InHands(f) /\ InRing(f)) /\ ~(InHands(f) /\ Offer = f) /\ ~(InRing(f) /\ Offer = f)
    /\ Owned(f) => f \in live
    /\ f \in live /\ mpc # "exit" => Owned(f)

\* At the start no path is allocated.
LEMMA InitOwner == Init => OneOwner
<1> SUFFICES ASSUME Init PROVE OneOwner
  OBVIOUS
<1>1. Base /\ num_jobs = 0 /\ at[Main] = "out" /\ live = {}
  BY InitBase DEF Init, Ring!Init, Ring!Threads
<1>2. Len(Queued) = 0 /\ Offer = NoJob
  BY <1>1, JobTypes DEF Offer, Ring!Pending
<1>3. \A w \in Workers : Hands[w] = NoJob
  BY DEF Init, Hands, Holds
<1> QED
  BY <1>1, <1>2, <1>3, GreptileAssumption DEF OneOwner, Owned, InHands, InRing

\* When no job moves, only what happens to live matters.
LEMMA OwnerStays ==
  ASSUME OneOwner, JobsStay, live' \cap Files = live \cap Files, mpc' # "exit" => mpc # "exit"
  PROVE  OneOwner'
BY DEF OneOwner, JobsStay, Owned, InHands, InRing

\* The path of a found file is new and is in main()'s hands.
LEMMA VisitOwner ==
  ASSUME Base, NEW U \in SUBSET Entries, Tree(U), OneOwner, NEW e \in Entries, VisitStep(e)
  PROVE  OneOwner'
<1>1. e \notin live
  BY FreshEntry DEF VisitStep, VisitDir, VisitFile, VisitOther, VisitFails
<1>2. CASE VisitFile(e)
  <2>1. /\ e \in Files /\ Offered(e) /\ live' = live \cup {e} /\ mpc' = mpc
    BY <1>2, MainMoves DEF VisitFile
  <2>2. NoJob \notin Files
    BY GreptileAssumption
  <2> QED
    BY <1>1, <2>1, <2>2 DEF OneOwner, Offered, Owned, InHands, InRing
<1>3. CASE VisitDir(e) \/ VisitOther(e)
  BY <1>3, OwnerStays, MainMoves, GreptileAssumption DEF VisitDir, VisitOther
<1>4. CASE VisitFails(e)
  <2>1. JobsStay /\ live' = live \cup {e} /\ mpc' = "exit"
    BY <1>4, MainMoves DEF VisitFails
  <2> QED
    BY <2>1 DEF OneOwner, JobsStay, Owned, InHands, InRing
<1> QED
  BY <1>2, <1>3, <1>4 DEF VisitStep

\* All other steps pass a path on, or free the one they hold.
LEMMA OtherOwner ==
  ASSUME Base, OneOwner, OtherStep
  PROVE  OneOwner'
<1>1. /\ NoJob \notin Jobs /\ Files \subseteq Jobs /\ NULL \notin Files
      /\ Hands \in [Workers -> Jobs \cup {NoJob}]
  BY JobTypes, GreptileAssumption DEF Jobs
<1>2. ASSUME Ring!Store(Main), UNCHANGED clientVars PROVE OneOwner'
  <2>1. Stored /\ live' = live /\ mpc' = mpc
    BY <1>2, StoreMoves DEF clientVars, mainVars
  <2>2. /\ Len(Queued) \in Nat /\ Len(Queued') = Len(Queued) + 1
        /\ \A k \in 1 .. Len(Queued) : Queued'[k] = Queued[k]
        /\ Queued'[Len(Queued) + 1] = Offer
        /\ Offer' = NoJob /\ Hands' = Hands
    BY <2>1, StoredView
  <2>3. \A f \in Files : /\ InHands(f)' <=> InHands(f)
                         /\ InRing(f)' <=> InRing(f) \/ Offer = f
    BY <2>2 DEF InHands, InRing
  <2>4. \A k \in 1 .. Len(Queued') : k \in 1 .. Len(Queued) \/ k = Len(Queued) + 1
    BY <2>2
  <2>5. \A f \in Files : \A k, n \in 1 .. Len(Queued') :
          Queued'[k] = f /\ Queued'[n] = f => k = n
    BY <2>2, <2>4 DEF OneOwner, InRing
  <2> QED
    BY <1>1, <2>1, <2>2, <2>3, <2>5 DEF OneOwner, Owned
<1>3. ASSUME NEW w \in Workers, Ring!Fetch(w), UNCHANGED clientVars PROVE OneOwner'
  <2>1. Fetched(w) /\ live' = live /\ mpc' = mpc
    BY <1>3, FetchMoves DEF clientVars, mainVars
  <2>2. /\ Len(Queued) \in Nat \ {0} /\ Len(Queued') = Len(Queued) - 1
        /\ \A k \in 1 .. Len(Queued') : Queued'[k] = Queued[k + 1]
        /\ Offer' = Offer /\ Hands[w] = NoJob /\ Hands'[w] = Queued[1]
        /\ \A v \in Workers \ {w} : Hands'[v] = Hands[v]
    BY <2>1, FetchedView
  <2>3. \A f \in Files : InHands(f)' <=> InHands(f) \/ Queued[1] = f
    BY <1>1, <2>2 DEF InHands
  <2>4. ASSUME NEW f \in Files
        PROVE  /\ InRing(f)' => InRing(f) /\ Queued[1] # f
               /\ InRing(f) => InRing(f)' \/ Queued[1] = f
    <3>1. ASSUME NEW k \in 1 .. Len(Queued'), Queued'[k] = f
          PROVE  InRing(f) /\ Queued[1] # f
      <4>1. k + 1 \in 1 .. Len(Queued) /\ k + 1 # 1 /\ 1 \in 1 .. Len(Queued) /\ Queued[k + 1] = f
        BY <2>2, <3>1
      <4> QED
        BY <4>1 DEF OneOwner, InRing
    <3>2. ASSUME NEW k \in 1 .. Len(Queued), Queued[k] = f, Queued[1] # f
          PROVE  InRing(f)'
      <4>1. k - 1 \in 1 .. Len(Queued') /\ Queued'[k - 1] = f
        BY <2>2, <3>2
      <4> QED
        BY <4>1 DEF InRing
    <3> QED
      BY <3>1, <3>2 DEF InRing
  <2>5. ASSUME NEW f \in Files, NEW k \in 1 .. Len(Queued'), NEW n \in 1 .. Len(Queued'),
               Queued'[k] = f, Queued'[n] = f
        PROVE  k = n
    <3>1. /\ k + 1 \in 1 .. Len(Queued) /\ n + 1 \in 1 .. Len(Queued)
          /\ Queued[k + 1] = f /\ Queued[n + 1] = f
      BY <2>2, <2>5
    <3>2. k + 1 = n + 1
      BY <3>1 DEF OneOwner
    <3> QED
      BY <3>2
  <2>6. ASSUME NEW f \in Files, NEW u \in Workers, NEW v \in Workers,
               Hands'[u] = f, Hands'[v] = f
        PROVE  u = v
    <3>1. Queued[1] = f => InRing(f)
      BY <2>2 DEF InRing
    <3>2. ~(InHands(f) /\ InRing(f))
      BY DEF OneOwner
    <3> QED
      BY <2>2, <2>6, <3>1, <3>2 DEF OneOwner, InHands
  <2>7. \A f \in Files : Queued[1] = f => InRing(f)
    BY <2>2 DEF InRing
  <2> QED
    BY <2>1, <2>2, <2>3, <2>4, <2>5, <2>6, <2>7 DEF OneOwner, Owned
<1>4. ASSUME NEW w \in Workers, Quit(w) PROVE OneOwner'
  <2>1. Released(w) /\ Hands[w] = NULL /\ live' = live /\ mpc' = mpc
    BY <1>4, WorkerMoves DEF Quit, WorkerGoto, mainVars
  <2>2. \A f \in Files, v \in Workers : Hands'[v] = f <=> Hands[v] = f
    BY <1>1, <2>1 DEF Released
  <2> QED
    BY <2>1, <2>2 DEF OneOwner, Released, Owned, InHands, InRing
<1>5. ASSUME NEW w \in Workers, FreePath(w) PROVE OneOwner'
  <2>1. Released(w) /\ Hands[w] \in Files /\ live' = live \ {Hands[w]} /\ mpc' = mpc
    BY <1>5, WorkerMoves DEF FreePath, WorkerGoto, mainVars
  <2>2. \A f \in Files, v \in Workers : Hands'[v] = f <=> Hands[v] = f /\ v # w
    BY <1>1, <2>1 DEF Released
  <2>3. \A f \in Files : /\ InHands(f)' <=> InHands(f) /\ f # Hands[w]
                         /\ InRing(f)' <=> InRing(f)
    BY <2>1, <2>2 DEF OneOwner, Released, InHands, InRing
  <2>4. \A f \in Files : f = Hands[w] => ~InRing(f) /\ Offer # f
    BY DEF OneOwner, InHands
  <2> QED
    BY <2>1, <2>2, <2>3, <2>4 DEF OneOwner, Released, Owned
<1>6. CASE LeaveDir
  <2>1. stack # <<>> /\ live' = live \ {stack[Len(stack)].dir} /\ mpc' \in {mpc, "sentinels"}
           /\ mpc = "walk"
    BY <1>6 DEF LeaveDir, MainAt
  <2>2. stack[Len(stack)].dir \notin Files
    BY <2>1, TopFrame, GreptileAssumption DEF Entries
  <2> QED
    BY <1>6, <2>1, <2>2, OwnerStays, MainMoves
<1>7. CASE SendSentinel
  <2>1. Offered(NULL) /\ live' = live /\ mpc' = mpc
    BY <1>7, MainMoves DEF SendSentinel
  <2> QED
    BY <1>1, <2>1 DEF OneOwner, Offered, Owned, InHands, InRing
<1>8. CASE CreateThread \/ OpenRoot \/ StartJoining \/ Join \/ Destroy \/ ProcessExit
  <2>1. JobsStay /\ live' = live /\ (mpc' # "exit" => mpc # "exit")
    BY <1>8, MainMoves
       DEF CreateThread, OpenRoot, StartJoining, Join, Destroy, ProcessExit, mainVars, MainAt
  <2> QED
    BY <2>1, OwnerStays
<1>9. ASSUME NEW e \in Entries, MissEntry(e) \/ Vanish(e) PROVE OneOwner'
  BY <1>9, OwnerStays, MainMoves DEF MissEntry, Vanish, mainVars
<1>10. ASSUME NEW w \in Workers, WorkerPrivate(w) \/ WorkerPrints(w) PROVE OneOwner'
  <2>1. JobsStay
    BY <1>10, WorkerMoves DEF WorkerPrivate, WorkerPrints
  <2>2. live' = live /\ mpc' = mpc
    BY <1>10 DEF WorkerPrivate, WorkerPrints, BeginDequeue, SearchFile, SearchFails, Flock,
                 PrintHeader, PrintJob, Funlock, WorkerGoto, mainVars
  <2> QED
    BY <2>1, <2>2, OwnerStays
<1>11. ASSUME NEW t \in Threads, QuietIn(t), UNCHANGED clientVars PROVE OneOwner'
  BY <1>11, OwnerStays, QuietMoves DEF clientVars, mainVars
<1>12. CASE UNCHANGED vars
  BY <1>12, OwnerStays, MainMoves DEF vars, mainVars
<1> QED
  BY <1>2, <1>3, <1>4, <1>5, <1>6, <1>7, <1>8, <1>9, <1>10, <1>11, <1>12 DEF OtherStep

-----------------------------------------------------------------------------
(* One owner per path.                                                     *)

OwnersInv == Base /\ OneOwner /\ \E U \in SUBSET Entries : Tree(U)

\* OwnersInv is inductive.
LEMMA OwnersInvariant == SafeSpec => []OwnersInv
<1>1. Init => OwnersInv
  BY InitBase, InitOwner, InitTree DEF OwnersInv
<1>2. OwnersInv /\ [Next]_vars => OwnersInv'
  <2> SUFFICES ASSUME OwnersInv, [Next]_vars PROVE OwnersInv'
    OBVIOUS
  <2>1. Base /\ OneOwner /\ Base'
    BY NextBase DEF OwnersInv
  <2>2. PICK U \in SUBSET Entries : Tree(U)
    BY DEF OwnersInv
  <2>3. ASSUME NEW e \in Entries, VisitStep(e) PROVE OwnersInv'
    <3>1. Tree(U \ {e})' /\ OneOwner'
      BY <2>1, <2>2, <2>3, VisitTree, VisitOwner
    <3>2. U \ {e} \in SUBSET Entries
      OBVIOUS
    <3> QED
      BY <2>1, <3>1, <3>2 DEF OwnersInv
  <2>4. CASE OtherStep
    <3>1. Tree(U)' /\ OneOwner'
      BY <2>1, <2>2, <2>4, OtherTree, OtherOwner
    <3> QED
      BY <2>1, <3>1 DEF OwnersInv
  <2> QED
    BY <2>3, <2>4, StepKinds
<1> QED
  BY <1>1, <1>2, PTL DEF SafeSpec

\* The owners of f, in the terms of OneOwner.
LEMMA OwnersAre ==
  ASSUME Base, OneOwner, NEW f \in Files
  PROVE  /\ \A w \in Workers : Hands[w] = f => Owners(f) = {<<"worker", w>>}
         /\ \A k \in 1 .. Len(Queued) : Queued[k] = f => Owners(f) = {<<"ring", k>>}
         /\ Offer = f => Owners(f) = {<<"main", 0>>}
         /\ ~Owned(f) => Owners(f) = {}
<1> DEFINE A == {w \in Workers : Hands[w] = f}
           B == {k \in 1 .. Len(Queued) : Queued[k] = f}
           C == {n \in {0} : Offer = f}
<1>1. /\ {v \in Workers : HoldsFile(v, f)} = A
      /\ {n \in 1 .. num_jobs : Ring!Contents[n] = f} = B
      /\ {n \in {0} : MainOffers(f)} = C
  BY Views, JobTypes DEF Jobs, Queued
<1>2. Owners(f) = {<<"worker", w>> : w \in A} \cup {<<"ring", k>> : k \in B}
                  \cup {<<"main", m>> : m \in C}
  BY <1>1 DEF Owners
<1>3. \A w \in Workers : Hands[w] = f => A = {w} /\ B = {} /\ C = {}
  BY DEF OneOwner, InHands, InRing
<1>4. \A k \in 1 .. Len(Queued) : Queued[k] = f => A = {} /\ B = {k} /\ C = {}
  BY DEF OneOwner, InHands, InRing
<1>5. Offer = f => A = {} /\ B = {} /\ C = {0}
  BY DEF OneOwner, InHands, InRing
<1>6. ~Owned(f) => A = {} /\ B = {} /\ C = {}
  BY DEF Owned, InHands, InRing
<1> HIDE DEF A, B, C
<1> QED
  BY <1>2, <1>3, <1>4, <1>5, <1>6

\* Every path malloc'd for a file in traverse_directory is at every moment in
\* the hands of exactly one thread or in exactly one place of the ring, until
\* the worker that searched it frees it: none is freed twice, used when freed,
\* or lost on the way, for every tree and every number of workers
\* (greptile.c:278-292 and 209-250).
THEOREM PathsOwned == Spec => []PathOwnership
<1>1. Base /\ OneOwner => PathOwnership
  <2> SUFFICES ASSUME Base, OneOwner, mpc # "exit", NEW f \in Files
               PROVE  Cardinality(Owners(f)) = IF f \in live THEN 1 ELSE 0
    BY DEF PathOwnership
  <2>1. f \in live <=> Owned(f)
    BY DEF OneOwner
  <2>2. CASE Owned(f)
    <3>1. \E x : Owners(f) = {x}
      BY <2>2, OwnersAre DEF Owned, InHands, InRing
    <3> QED
      BY <2>1, <2>2, <3>1, FS_Singleton
  <2>3. CASE ~Owned(f)
    BY <2>1, <2>3, OwnersAre, FS_EmptySet
  <2> QED
    BY <2>2, <2>3
<1>2. OwnersInv => PathOwnership
  BY <1>1 DEF OwnersInv
<1> QED
  BY <1>2, OwnersInvariant, PTL DEF Spec

-----------------------------------------------------------------------------
(* What the workers print.                                                 *)

Lines == [file : Files, nth : Nat]
Last  == out[Len(out)]

\* The block of a worker that is printing is the last of the output, complete
\* but for the lines in its print queue.
Printing(w) ==
  /\ out # <<>> /\ Last.file = Hands[w]
  /\ Last.nth + Len(pq[w]) = Matches[Hands[w]]
  /\ \A k \in 1 .. Len(pq[w]) : pq[w][k] = Last.nth + k
  /\ \A k \in 1 .. Len(out) : out[k].file = Hands[w] => out[k].nth <= Last.nth

\* While nobody prints the last block is complete.
Blocks ==
  /\ \A w \in Workers : stdout_owner = w <=> wpc[w] \in {"header", "print"}
  /\ \A w \in Workers : wpc[w] \in {"flock", "header"} =>
       pq[w] = [k \in 1 .. Matches[Hands[w]] |-> k]
  /\ \A w \in Workers : wpc[w] = "print" => Printing(w)
  /\ (\A w \in Workers : wpc[w] # "print") /\ out # <<>> => Last.nth = Matches[Last.file]
  /\ OutputUnbroken

\* No file is printed before a worker has it, and none twice: a file in the
\* output is not to be found any more, and the worker that has it is printing
\* it or has printed it.
PrintedOnce(U) ==
  \A k \in 1 .. Len(out) : LET f == out[k].file IN
    /\ f \notin U /\ Offer # f /\ ~InRing(f)
    /\ \A w \in Workers : Hands[w] = f => wpc[w] \in {"print", "free"}

\* Nothing is printed at the start.
LEMMA InitOutput == Init => Blocks /\ PrintedOnce(Entries)
<1> SUFFICES ASSUME Init PROVE Blocks /\ PrintedOnce(Entries)
  OBVIOUS
<1>1. /\ out = <<>> /\ Len(out) = 0 /\ stdout_owner = Nobody
      /\ \A w \in Workers : wpc[w] = "unborn"
  BY DEF Init
<1> QED
  BY <1>1, GreptileAssumption DEF Blocks, PrintedOnce, OutputUnbroken

\* A worker outside the code that prints does not matter to the blocks.
LEMMA BlocksStay ==
  ASSUME Blocks, UNCHANGED <<out, stdout_owner>>,
         \A w \in Workers :
           \/ wpc'[w] = wpc[w] /\ pq'[w] = pq[w] /\ Hands'[w] = Hands[w]
           \/ /\ wpc[w]  \notin {"flock", "header", "print"}
              /\ wpc'[w] \notin {"flock", "header", "print"}
  PROVE  Blocks'
<1>1. Last' = Last /\ OutputUnbroken'
  BY DEF Last, Blocks, OutputUnbroken
<1>2. \A w \in Workers : /\ wpc'[w] = "print" <=> wpc[w] = "print"
                         /\ wpc'[w] \in {"header", "print"} <=> wpc[w] \in {"header", "print"}
  OBVIOUS
<1>3. \A w \in Workers : wpc'[w] = "print" => Printing(w)'
  BY <1>1 DEF Blocks, Printing
<1>4. \A w \in Workers : wpc'[w] \in {"flock", "header"} =>
        pq'[w] = [k \in 1 .. Matches[Hands'[w]] |-> k]
  BY DEF Blocks
<1> QED
  BY <1>1, <1>2, <1>3, <1>4 DEF Blocks

\* A line that continues the last block, or starts a block behind a complete
\* one, and is not there yet.
LEMMA LineFollows ==
  ASSUME Base, OutputUnbroken, NEW line \in Lines, out' = Append(out, line),
         \A k \in 1 .. Len(out) : out[k] # line,
         IF line.nth = 0 THEN out # <<>> => Last.nth = Matches[Last.file]
         ELSE out # <<>> /\ Last.file = line.file /\ Last.nth = line.nth - 1
  PROVE  OutputUnbroken'
<1> DEFINE n == Len(out)
<1>1. out \in Seq(Lines)
  BY DEF Base, LocalTypes, Lines
<1>2. /\ n \in Nat /\ Len(out') = n + 1 /\ out'[n + 1] = line
      /\ \A k \in 1 .. n : out'[k] = out[k] /\ out[k] \in Lines
      /\ out # <<>> => n > 0
  BY <1>1, AppendProperties, LenProperties, ElementOfSeq, EmptySeq
<1>3. \A k \in 1 .. n + 1 : k \in 1 .. n \/ k = n + 1
  BY <1>2
<1>4. \A k, m \in 1 .. n + 1 : out'[k] = out'[m] => k = m
  BY <1>2, <1>3 DEF OutputUnbroken
<1>5. \A k \in 1 .. n :
        IF out'[k].nth = 0
        THEN k > 1 => out'[k - 1].nth = Matches[out'[k - 1].file]
        ELSE k > 1 /\ out'[k - 1] = [out'[k] EXCEPT !.nth = @ - 1]
  <2> SUFFICES ASSUME NEW k \in 1 .. n
               PROVE  IF out'[k].nth = 0
                      THEN k > 1 => out'[k - 1].nth = Matches[out'[k - 1].file]
                      ELSE k > 1 /\ out'[k - 1] = [out'[k] EXCEPT !.nth = @ - 1]
    OBVIOUS
  <2>1. out'[k] = out[k] /\ (k > 1 => k - 1 \in 1 .. n /\ out'[k - 1] = out[k - 1])
    BY <1>2
  <2>2. IF out[k].nth = 0
        THEN k > 1 => out[k - 1].nth = Matches[out[k - 1].file]
        ELSE k > 1 /\ out[k - 1] = [out[k] EXCEPT !.nth = @ - 1]
    BY DEF OutputUnbroken
  <2> QED
    BY <2>1, <2>2
<1>6. IF line.nth = 0
      THEN n + 1 > 1 => out'[n].nth = Matches[out'[n].file]
      ELSE n + 1 > 1 /\ out'[n] = [line EXCEPT !.nth = @ - 1]
  <2>1. n > 0 => n \in 1 .. n /\ out'[n] = Last /\ Last \in Lines
    BY <1>2 DEF Last
  <2>2. CASE line.nth = 0
    BY <1>2, <2>1, <2>2, EmptySeq
  <2>3. CASE line.nth # 0
    <3>1. out # <<>> /\ n > 0 /\ Last.file = line.file /\ Last.nth = line.nth - 1
      BY <1>2, <2>3
    <3>2. Last = [file |-> line.file, nth |-> line.nth - 1]
      BY <2>1, <3>1 DEF Lines
    <3>3. [line EXCEPT !.nth = @ - 1] = [file |-> line.file, nth |-> line.nth - 1]
      BY DEF Lines
    <3> QED
      BY <1>2, <2>1, <2>3, <3>1, <3>2, <3>3
  <2> QED
    BY <2>2, <2>3
<1> HIDE DEF n
<1>7. \A k \in 1 .. n + 1 :
        IF out'[k].nth = 0
        THEN k > 1 => out'[k - 1].nth = Matches[out'[k - 1].file]
        ELSE k > 1 /\ out'[k - 1] = [out'[k] EXCEPT !.nth = @ - 1]
  <2> SUFFICES ASSUME NEW k \in 1 .. n + 1
               PROVE  IF out'[k].nth = 0
                      THEN k > 1 => out'[k - 1].nth = Matches[out'[k - 1].file]
                      ELSE k > 1 /\ out'[k - 1] = [out'[k] EXCEPT !.nth = @ - 1]
    OBVIOUS
  <2>1. CASE k \in 1 .. n
    BY <1>5, <2>1
  <2>2. CASE k = n + 1
    <3>1. out'[k] = line /\ k - 1 = n
      BY <1>2, <2>2 DEF n
    <3> QED
      BY <1>6, <2>2, <3>1
  <2> QED
    BY <1>3, <2>1, <2>2
<1> QED
  BY <1>2, <1>4, <1>7 DEF OutputUnbroken, n

\* Nor does a step that moves no job and prints nothing.
LEMMA OnceStays ==
  ASSUME NEW U, PrintedOnce(U), out' = out, JobsStay,
         \A w \in Workers : wpc[w] \in {"print", "free"} =>
            wpc'[w] \in {"print", "free"} \/ Hands[w] \notin Files,
         Base
  PROVE  PrintedOnce(U)'
<1>1. out \in Seq(Lines)
  BY DEF Base, LocalTypes, Lines
<1>2. \A k \in 1 .. Len(out) : out[k].file \in Files
  <2>1. \A k \in 1 .. Len(out) : out[k] \in Lines
    BY <1>1, ElementOfSeq
  <2> QED
    BY <2>1 DEF Lines
<1>3. Offer' = Offer /\ Hands' = Hands /\ \A f : InRing(f)' <=> InRing(f)
  BY DEF JobsStay, InRing
<1> QED
  BY <1>2, <1>3 DEF PrintedOnce

\* Of a worker that searches or prints file f: nobody else has f.
LEMMA OnlyMine ==
  ASSUME Base, NEW U \in SUBSET Entries, Tree(U), OneOwner, NEW w \in Workers, Hands[w] \in Files
  PROVE  /\ Hands[w] \notin U /\ Offer # Hands[w] /\ ~InRing(Hands[w])
         /\ \A v \in Workers : Hands[v] = Hands[w] => v = w
BY DEF Tree, OneOwner, Owned, InHands

\* search_files up to flockfile: the file of the print queue is in no block.
LEMMA SearchOutput ==
  ASSUME Base, NEW U \in SUBSET Entries, Blocks, PrintedOnce(U),
         NEW w \in Workers, SearchFile(w)
  PROVE  Blocks' /\ PrintedOnce(U)'
<1>1. /\ JobsStay /\ Hands[w] = got[w] /\ got[w] \in Files
      /\ wpc \in [Workers -> WorkerLocations] /\ pq \in [Workers -> Seq(Nat)]
  BY WorkerMoves DEF Base, LocalTypes
<1>2. /\ out' = out /\ stdout_owner' = stdout_owner /\ wpc[w] = "dequeue"
      /\ pq' = [pq EXCEPT ![w] = [k \in 1 .. Matches[got[w]] |-> k]]
      /\ wpc' = [wpc EXCEPT ![w] = IF Matches[got[w]] > 0 THEN "flock" ELSE "free"]
  BY DEF SearchFile, Dequeued, WorkerGoto
<1>3. PrintedOnce(U)'
  BY <1>1, <1>2, OnceStays
<1>4. /\ wpc'[w] \in {"flock", "free"} /\ pq'[w] = [k \in 1 .. Matches[Hands'[w]] |-> k]
      /\ \A v \in Workers \ {w} : wpc'[v] = wpc[v] /\ pq'[v] = pq[v]
      /\ Hands' = Hands
  BY <1>1, <1>2 DEF JobsStay
<1>5. Last' = Last /\ OutputUnbroken'
  BY <1>2 DEF Last, Blocks, OutputUnbroken
<1>6. \A v \in Workers : wpc'[v] = "print" => Printing(v)'
  BY <1>2, <1>4, <1>5 DEF Blocks, Printing
<1>7. \A v \in Workers : wpc'[v] = "print" <=> wpc[v] = "print"
  BY <1>2, <1>4
<1>8. \A v \in Workers : stdout_owner' = v <=> wpc'[v] \in {"header", "print"}
  BY <1>2, <1>4 DEF Blocks
<1>9. \A v \in Workers : wpc'[v] \in {"flock", "header"} =>
        pq'[v] = [k \in 1 .. Matches[Hands'[v]] |-> k]
  BY <1>4 DEF Blocks
<1> QED
  BY <1>2, <1>3, <1>5, <1>6, <1>7, <1>8, <1>9 DEF Blocks

\* flockfile: the worker that gets stdout is the only one between the header
\* and funlockfile.
LEMMA FlockOutput ==
  ASSUME Base, NEW U \in SUBSET Entries, Blocks, PrintedOnce(U), NEW w \in Workers, Flock(w)
  PROVE  Blocks' /\ PrintedOnce(U)'
<1>1. JobsStay /\ wpc \in [Workers -> WorkerLocations] /\ Nobody \notin Workers
  BY WorkerMoves, GreptileAssumption DEF Base, LocalTypes
<1>2. /\ out' = out /\ pq' = pq /\ stdout_owner = Nobody /\ stdout_owner' = w
      /\ wpc[w] = "flock" /\ wpc' = [wpc EXCEPT ![w] = "header"]
  BY DEF Flock, WorkerGoto
<1>3. PrintedOnce(U)'
  BY <1>1, <1>2, OnceStays
<1>4. wpc'[w] = "header" /\ (\A v \in Workers \ {w} : wpc'[v] = wpc[v]) /\ Hands' = Hands
  BY <1>1, <1>2 DEF JobsStay
<1>5. Last' = Last /\ OutputUnbroken'
  BY <1>2 DEF Last, Blocks, OutputUnbroken
<1>6. \A v \in Workers : wpc[v] \notin {"header", "print"}
  BY <1>1, <1>2 DEF Blocks
<1>7. \A v \in Workers : wpc'[v] # "print"
  BY <1>4, <1>6
<1>8. \A v \in Workers : stdout_owner' = v <=> wpc'[v] \in {"header", "print"}
  BY <1>2, <1>4, <1>6
<1>9. \A v \in Workers : wpc'[v] \in {"flock", "header"} =>
        pq'[v] = [k \in 1 .. Matches[Hands'[v]] |-> k]
  BY <1>2, <1>4 DEF Blocks
<1> QED
  BY <1>2, <1>3, <1>5, <1>6, <1>7, <1>8, <1>9 DEF Blocks

\* The header starts a block behind a complete one.
LEMMA HeaderOutput ==
  ASSUME Base, NEW U \in SUBSET Entries, Tree(U), OneOwner, Blocks, PrintedOnce(U),
         NEW w \in Workers, PrintHeader(w)
  PROVE  Blocks' /\ PrintedOnce(U)'
<1> DEFINE f == Hands[w]
           line == [file |-> f, nth |-> 0]
<1>1. /\ JobsStay /\ f = got[w] /\ f \in Files /\ Matches[f] \in Nat
      /\ wpc \in [Workers -> WorkerLocations] /\ out \in Seq(Lines)
      /\ pq \in [Workers -> Seq(Nat)]
  BY WorkerMoves, GreptileAssumption DEF Base, LocalTypes, Lines
<1>2. /\ out' = Append(out, line) /\ pq' = pq /\ stdout_owner' = stdout_owner
      /\ wpc[w] = "header" /\ wpc' = [wpc EXCEPT ![w] = "print"]
  BY <1>1 DEF PrintHeader, Printed, WorkerGoto
<1>3. wpc'[w] = "print" /\ (\A v \in Workers \ {w} : wpc'[v] = wpc[v]) /\ Hands' = Hands
  BY <1>1, <1>2 DEF JobsStay
<1>4. line \in Lines /\ line.file = f /\ line.nth = 0
  BY <1>1 DEF Lines
<1> HIDE DEF line
<1>5. /\ Len(out) \in Nat /\ Len(out') = Len(out) + 1 /\ out'[Len(out) + 1] = line
      /\ out' # <<>> /\ \A k \in 1 .. Len(out) : out'[k] = out[k]
  BY <1>1, <1>2, <1>4, AppendProperties, LenProperties
<1>6. \A k \in 1 .. Len(out) : out[k].file # f
  BY <1>2 DEF PrintedOnce
<1>7. stdout_owner = w /\ \A v \in Workers : wpc[v] # "print"
  BY <1>2 DEF Blocks
<1>8. OutputUnbroken'
  BY <1>2, <1>4, <1>6, <1>7, LineFollows DEF Blocks
<1>9. Last' = line
  BY <1>5 DEF Last
<1>10. Printing(w)'
  <2>1. pq'[w] = [k \in 1 .. Matches[f] |-> k]
    BY <1>2 DEF Blocks
  <2>2. Len(pq'[w]) = Matches[f] /\ \A k \in 1 .. Matches[f] : pq'[w][k] = k
    BY <1>1, <2>1
  <2>3. \A k \in 1 .. Len(out') : out'[k].file = f => out'[k].nth <= 0
    BY <1>4, <1>5, <1>6
  <2> QED
    BY <1>1, <1>3, <1>4, <1>5, <1>9, <2>2, <2>3 DEF Printing
<1>11. \A v \in Workers : stdout_owner' = v <=> wpc'[v] \in {"header", "print"}
  BY <1>2, <1>3, <1>7 DEF Blocks
<1>12. \A v \in Workers : wpc'[v] = "print" => v = w
  BY <1>3, <1>7
<1>13. \A v \in Workers : wpc'[v] \in {"flock", "header"} =>
         pq'[v] = [k \in 1 .. Matches[Hands'[v]] |-> k]
  BY <1>2, <1>3 DEF Blocks
<1>14. Blocks'
  BY <1>3, <1>8, <1>10, <1>11, <1>12, <1>13 DEF Blocks
<1>15. PrintedOnce(U)'
  <2>1. /\ f \notin U /\ Offer # f /\ ~InRing(f)
        /\ \A v \in Workers : Hands[v] = f => v = w
    BY <1>1, OnlyMine
  <2>2. \A k \in 1 .. Len(out') : out'[k].file = f \/ (k \in 1 .. Len(out) /\ out'[k] = out[k])
    BY <1>4, <1>5
  <2>3. Offer' = Offer /\ \A g : InRing(g)' <=> InRing(g)
    BY <1>1 DEF JobsStay, InRing
  <2> QED
    BY <1>2, <1>3, <2>1, <2>2, <2>3 DEF PrintedOnce
<1> QED
  BY <1>14, <1>15

\* A match is printed behind the one before it.
LEMMA LineOutput ==
  ASSUME Base, NEW U \in SUBSET Entries, Tree(U), OneOwner, Blocks, PrintedOnce(U),
         NEW w \in Workers, PrintJob(w)
  PROVE  Blocks' /\ PrintedOnce(U)'
<1> DEFINE f == Hands[w]
           m == Head(pq[w])
           line == [file |-> f, nth |-> m]
<1>1. /\ JobsStay /\ f = got[w] /\ f \in Files /\ Matches[f] \in Nat
      /\ wpc \in [Workers -> WorkerLocations] /\ out \in Seq(Lines)
      /\ pq \in [Workers -> Seq(Nat)] /\ pq[w] # <<>>
  BY WorkerMoves, GreptileAssumption DEF Base, LocalTypes, Lines, PrintJob
<1>2. /\ out' = Append(out, line) /\ pq' = [pq EXCEPT ![w] = Tail(@)]
      /\ stdout_owner' = stdout_owner
      /\ wpc[w] = "print" /\ wpc' = [wpc EXCEPT ![w] = "print"]
  BY <1>1 DEF PrintJob, Printed, WorkerGoto
<1>3. wpc' = wpc /\ pq'[w] = Tail(pq[w]) /\ (\A v \in Workers \ {w} : pq'[v] = pq[v])
      /\ Hands' = Hands
  BY <1>1, <1>2 DEF JobsStay
<1>4. /\ m = pq[w][1] /\ m \in Nat /\ Len(pq[w]) \in Nat \ {0}
      /\ Len(Tail(pq[w])) = Len(pq[w]) - 1
      /\ \A k \in 1 .. Len(pq[w]) - 1 : Tail(pq[w])[k] = pq[w][k + 1]
  BY <1>1, HeadTailProperties, EmptySeq
<1>5. line \in Lines /\ line.file = f /\ line.nth = m
  BY <1>1, <1>4 DEF Lines
<1> HIDE DEF line, m
<1>6. /\ Len(out) \in Nat /\ Len(out') = Len(out) + 1 /\ out'[Len(out) + 1] = line
      /\ out' # <<>> /\ \A k \in 1 .. Len(out) : out'[k] = out[k] /\ out[k] \in Lines
  BY <1>1, <1>2, <1>5, AppendProperties, LenProperties, ElementOfSeq
<1>7. /\ out # <<>> /\ Last.file = f /\ Last.nth + Len(pq[w]) = Matches[f]
      /\ \A k \in 1 .. Len(pq[w]) : pq[w][k] = Last.nth + k
      /\ \A k \in 1 .. Len(out) : out[k].file = f => out[k].nth <= Last.nth
  BY <1>2 DEF Blocks, Printing
<1>8. Last \in Lines
  BY <1>1, <1>6, <1>7, EmptySeq DEF Last
<1>9. m = Last.nth + 1 /\ Last.nth \in Nat
  BY <1>4, <1>7, <1>8 DEF Lines
<1>10. \A k \in 1 .. Len(out) : out[k] # line
  BY <1>5, <1>6, <1>7, <1>9 DEF Lines
<1>11. OutputUnbroken'
  <2>1. line.nth # 0 /\ Last.file = line.file /\ Last.nth = line.nth - 1
    BY <1>5, <1>7, <1>9
  <2> QED
    BY <1>2, <1>5, <1>7, <1>10, <2>1, LineFollows DEF Blocks
<1>12. Last' = line
  BY <1>6 DEF Last
<1>13. Printing(w)'
  <2>1. Len(pq'[w]) = Len(pq[w]) - 1 /\ m + Len(pq'[w]) = Matches[f]
    <3>1. Len(pq'[w]) = Len(pq[w]) - 1 /\ Len(pq[w]) \in Int
      BY <1>3, <1>4
    <3>2. Last.nth + Len(pq[w]) = Matches[f]
      BY <1>7
    <3> QED
      BY <1>9, <3>1, <3>2
  <2>2. \A k \in 1 .. Len(pq'[w]) : pq'[w][k] = m + k
    <3> SUFFICES ASSUME NEW k \in 1 .. Len(pq[w]) - 1 PROVE Tail(pq[w])[k] = m + k
      BY <1>3, <2>1
    <3>1. k + 1 \in 1 .. Len(pq[w]) /\ Tail(pq[w])[k] = pq[w][k + 1]
      BY <1>4
    <3>2. pq[w][k + 1] = Last.nth + (k + 1)
      BY <1>7, <3>1
    <3>3. Last.nth + (k + 1) = m + k
      <4>1. k \in Int
        BY <1>4
      <4> QED
        BY <1>9, <4>1
    <3> QED
      BY <3>1, <3>2, <3>3
  <2>3. \A k \in 1 .. Len(out') : out'[k].file = f => out'[k].nth <= m
    <3> SUFFICES ASSUME NEW k \in 1 .. Len(out'), out'[k].file = f PROVE out'[k].nth <= m
      OBVIOUS
    <3>1. CASE k \in 1 .. Len(out)
      <4>1. out'[k].nth \in Nat /\ out'[k].nth <= Last.nth
        BY <1>6, <1>7, <3>1 DEF Lines
      <4> QED
        BY <1>9, <4>1
    <3>2. CASE k = Len(out) + 1
      BY <1>4, <1>5, <1>6, <3>2
    <3> QED
      BY <1>6, <3>1, <3>2
  <2> QED
    BY <1>3, <1>5, <1>6, <1>12, <2>1, <2>2, <2>3 DEF Printing
<1>14. \A v \in Workers : wpc[v] \in {"header", "print"} => v = w
  BY <1>2 DEF Blocks
<1>15. \A v \in Workers : wpc'[v] = "print" => Printing(v)'
  BY <1>3, <1>13, <1>14
<1>16. \A v \in Workers : wpc'[v] \in {"flock", "header"} =>
         pq'[v] = [k \in 1 .. Matches[Hands'[v]] |-> k]
  BY <1>2, <1>3 DEF Blocks
<1>17. Blocks'
  <2>1. \A v \in Workers : stdout_owner' = v <=> wpc'[v] \in {"header", "print"}
    BY <1>2, <1>3 DEF Blocks
  <2> QED
    BY <1>2, <1>3, <1>11, <1>15, <1>16, <2>1 DEF Blocks
<1>18. PrintedOnce(U)'
  <2>1. /\ f \notin U /\ Offer # f /\ ~InRing(f)
        /\ \A v \in Workers : Hands[v] = f => v = w
    BY <1>1, OnlyMine
  <2>2. \A k \in 1 .. Len(out') : out'[k].file = f \/ (k \in 1 .. Len(out) /\ out'[k] = out[k])
    BY <1>5, <1>6
  <2>3. Offer' = Offer /\ \A g : InRing(g)' <=> InRing(g)
    BY <1>1 DEF JobsStay, InRing
  <2> QED
    BY <1>2, <1>3, <2>1, <2>2, <2>3 DEF PrintedOnce
<1> QED
  BY <1>17, <1>18

\* funlockfile: the block is complete.
LEMMA FunlockOutput ==
  ASSUME Base, NEW U \in SUBSET Entries, Blocks, PrintedOnce(U), NEW w \in Workers, Funlock(w)
  PROVE  Blocks' /\ PrintedOnce(U)'
<1>1. /\ JobsStay /\ wpc \in [Workers -> WorkerLocations] /\ Nobody \notin Workers
      /\ out \in Seq(Lines)
  BY WorkerMoves, GreptileAssumption DEF Base, LocalTypes, Lines
<1>2. /\ out' = out /\ pq' = pq /\ stdout_owner' = Nobody /\ pq[w] = <<>>
      /\ wpc[w] = "print" /\ wpc' = [wpc EXCEPT ![w] = "free"]
  BY DEF Funlock, WorkerGoto
<1>3. PrintedOnce(U)'
  BY <1>1, <1>2, OnceStays
<1>4. wpc'[w] = "free" /\ (\A v \in Workers \ {w} : wpc'[v] = wpc[v]) /\ Hands' = Hands
  BY <1>1, <1>2 DEF JobsStay
<1>5. Last' = Last /\ OutputUnbroken'
  BY <1>2 DEF Last, Blocks, OutputUnbroken
<1>6. stdout_owner = w
  BY <1>2 DEF Blocks
<1>7. \A v \in Workers \ {w} : wpc[v] \notin {"header", "print"}
  BY <1>6 DEF Blocks
<1>8. Last.nth = Matches[Last.file]
  <2>1. /\ out # <<>> /\ Last.file = Hands[w] /\ Last.nth + Len(pq[w]) = Matches[Hands[w]]
    BY <1>2 DEF Blocks, Printing
  <2>2. Last \in Lines
    BY <1>1, <2>1, EmptySeq, ElementOfSeq DEF Last
  <2> QED
    BY <1>2, <2>1, <2>2 DEF Lines
<1>9. \A v \in Workers : wpc'[v] \notin {"header", "print"} /\ stdout_owner' # v
  BY <1>1, <1>2, <1>4, <1>7
<1>10. \A v \in Workers : wpc'[v] \in {"flock", "header"} =>
         pq'[v] = [k \in 1 .. Matches[Hands'[v]] |-> k]
  BY <1>2, <1>4 DEF Blocks
<1> QED
  BY <1>3, <1>5, <1>8, <1>9, <1>10 DEF Blocks

\* A step of main() onto an entry prints nothing, and the entry was not
\* printed.
LEMMA VisitOutput ==
  ASSUME Base, NEW U \in SUBSET Entries, Tree(U), Blocks, PrintedOnce(U),
         NEW e \in Entries, VisitStep(e)
  PROVE  Blocks' /\ PrintedOnce(U \ {e})'
<1>1. e \in U
  BY FreshEntry DEF VisitStep, VisitDir, VisitFile, VisitOther, VisitFails
<1>2. UNCHANGED <<wpc, pq, stdout_owner, out>>
  BY DEF VisitStep, VisitDir, VisitFile, VisitOther, VisitFails, workerVars
<1>3. Hands' = Hands /\ Offer' \in {Offer, e} /\ \A f : InRing(f)' <=> InRing(f)
  BY MainMoves DEF VisitStep, VisitFile, JobsStay, Offered, InRing
<1>4. Blocks'
  BY <1>2, <1>3, BlocksStay
<1>5. PrintedOnce(U \ {e})'
  BY <1>1, <1>2, <1>3 DEF PrintedOnce
<1> QED
  BY <1>4, <1>5

\* Nor does any other step mix blocks or print a file again.
LEMMA OtherOutput ==
  ASSUME Base, NEW U \in SUBSET Entries, Tree(U), OneOwner, Blocks, PrintedOnce(U), OtherStep
  PROVE  Blocks' /\ PrintedOnce(U)'
<1>1. /\ NoJob \notin Files /\ NULL \notin Files /\ out \in Seq(Lines)
      /\ wpc \in [Workers -> WorkerLocations] /\ Hands \in [Workers -> Jobs \cup {NoJob}]
  BY JobTypes, GreptileAssumption DEF Base, LocalTypes, Lines
<1>2. \A k \in 1 .. Len(out) : out[k].file \in Files
  <2>1. \A k \in 1 .. Len(out) : out[k] \in Lines
    BY <1>1, ElementOfSeq
  <2> QED
    BY <2>1 DEF Lines
<1>3. CASE UNCHANGED workerVars /\ JobsStay
  <2>1. UNCHANGED <<wpc, pq, stdout_owner, out>> /\ Hands' = Hands
    BY <1>3 DEF workerVars, JobsStay
  <2> QED
    BY <2>1, <1>3, BlocksStay, OnceStays
<1>4. ASSUME Ring!Store(Main), UNCHANGED clientVars PROVE Blocks' /\ PrintedOnce(U)'
  <2>1. Stored /\ UNCHANGED <<wpc, pq, stdout_owner, out>>
    BY <1>4, StoreMoves DEF clientVars, workerVars
  <2>2. /\ Hands' = Hands /\ Offer' = NoJob
        /\ \A f : InRing(f)' => InRing(f) \/ Offer = f
    <3>1. /\ Len(Queued) \in Nat /\ Len(Queued') = Len(Queued) + 1
          /\ \A k \in 1 .. Len(Queued) : Queued'[k] = Queued[k]
          /\ Queued'[Len(Queued) + 1] = Offer
          /\ Offer' = NoJob /\ Hands' = Hands
      BY <2>1, StoredView
    <3>2. \A k \in 1 .. Len(Queued') : k \in 1 .. Len(Queued) \/ k = Len(Queued) + 1
      BY <3>1
    <3> QED
      BY <3>1, <3>2 DEF InRing
  <2>3. PrintedOnce(U)'
    BY <1>1, <1>2, <2>1, <2>2 DEF PrintedOnce
  <2> QED
    BY <2>1, <2>2, <2>3, BlocksStay
<1>5. ASSUME NEW w \in Workers, Ring!Fetch(w), UNCHANGED clientVars
      PROVE  Blocks' /\ PrintedOnce(U)'
  <2>1. Fetched(w) /\ wpc[w] = "dequeue" /\ UNCHANGED <<wpc, pq, stdout_owner, out>>
    BY <1>5, FetchMoves DEF clientVars, workerVars
  <2>2. /\ Len(Queued) \in Nat \ {0} /\ Len(Queued') = Len(Queued) - 1
        /\ \A k \in 1 .. Len(Queued') : Queued'[k] = Queued[k + 1]
        /\ Offer' = Offer /\ Hands[w] = NoJob /\ Hands'[w] = Queued[1]
        /\ \A v \in Workers \ {w} : Hands'[v] = Hands[v]
    BY <2>1, FetchedView
  <2>3. InRing(Queued[1])
    BY <2>2 DEF InRing
  <2>4. \A f : InRing(f)' => InRing(f)
    <3> SUFFICES ASSUME NEW k \in 1 .. Len(Queued') PROVE InRing(Queued'[k])
      BY DEF InRing
    <3>1. k + 1 \in 1 .. Len(Queued) /\ Queued'[k] = Queued[k + 1]
      BY <2>2
    <3> QED
      BY <3>1 DEF InRing
  <2>5. PrintedOnce(U)'
    BY <1>1, <1>2, <2>1, <2>2, <2>3, <2>4 DEF PrintedOnce
  <2> QED
    BY <2>1, <2>2, <2>5, BlocksStay
<1>6. CASE CreateThread
  <2>1. /\ JobsStay /\ i + 1 \in Workers /\ wpc' = [wpc EXCEPT ![i + 1] = "loop"]
        /\ UNCHANGED <<pq, stdout_owner, out>> /\ wpc[i + 1] = "unborn"
    <3>1. i + 1 \in Workers /\ i + 1 > i
      BY <1>6, JobTypes DEF CreateThread, Workers
    <3> QED
      BY <1>6, <3>1, MainMoves DEF Base, ThreadsPlaced, CreateThread, MainAt
  <2>2. Hands' = Hands /\ \A w \in Workers \ {i + 1} : wpc'[w] = wpc[w]
    BY <1>1, <2>1 DEF JobsStay
  <2>3. wpc'[i + 1] = "loop"
    BY <1>1, <2>1
  <2> QED
    BY <2>1, <2>2, <2>3, BlocksStay, OnceStays
<1>7. ASSUME NEW w \in Workers, BeginDequeue(w) \/ SearchFails(w)
      PROVE  Blocks' /\ PrintedOnce(U)'
  <2>1. /\ JobsStay /\ UNCHANGED <<pq, stdout_owner, out>> /\ wpc[w] \in {"loop", "dequeue"}
        /\ \E l \in {"dequeue", "exit"} : wpc' = [wpc EXCEPT ![w] = l]
    BY <1>7, WorkerMoves DEF BeginDequeue, SearchFails, Dequeued, WorkerGoto
  <2>2. /\ Hands' = Hands /\ wpc'[w] \in {"dequeue", "exit"}
        /\ \A v \in Workers \ {w} : wpc'[v] = wpc[v]
    BY <1>1, <2>1 DEF JobsStay
  <2> QED
    BY <2>1, <2>2, BlocksStay, OnceStays
<1>8. ASSUME NEW w \in Workers, Quit(w) \/ FreePath(w) PROVE Blocks' /\ PrintedOnce(U)'
  <2>1. /\ Released(w) /\ UNCHANGED <<pq, stdout_owner, out>> /\ wpc[w] \in {"free", "dequeue"}
        /\ \E l \in {"exited", "loop"} : wpc' = [wpc EXCEPT ![w] = l]
    BY <1>8, WorkerMoves DEF Quit, FreePath, Dequeued, WorkerGoto
  <2>2. /\ Hands'[w] = NoJob /\ wpc'[w] \in {"exited", "loop"} /\ Offer' = Offer
        /\ \A v \in Workers \ {w} : wpc'[v] = wpc[v] /\ Hands'[v] = Hands[v]
        /\ \A f : InRing(f)' <=> InRing(f)
    BY <1>1, <2>1 DEF Released, InRing
  <2>3. PrintedOnce(U)'
    BY <1>1, <1>2, <2>1, <2>2 DEF PrintedOnce
  <2> QED
    BY <2>1, <2>2, <2>3, BlocksStay
<1>9. ASSUME NEW w \in Workers, SearchFile(w) \/ WorkerPrints(w)
      PROVE  Blocks' /\ PrintedOnce(U)'
  BY <1>9, SearchOutput, FlockOutput, HeaderOutput, LineOutput, FunlockOutput DEF WorkerPrints
<1>10. CASE OpenRoot \/ LeaveDir \/ StartJoining \/ Join \/ Destroy \/ ProcessExit
  BY <1>3, <1>10, MainMoves DEF OpenRoot, LeaveDir, StartJoining, Join, Destroy, ProcessExit
<1>11. CASE SendSentinel
  <2>1. Offered(NULL) /\ UNCHANGED <<wpc, pq, stdout_owner, out>>
    BY <1>11, MainMoves DEF SendSentinel, workerVars
  <2>2. Hands' = Hands /\ Offer' = NULL /\ \A f : InRing(f)' <=> InRing(f)
    BY <2>1 DEF Offered, InRing
  <2>3. PrintedOnce(U)'
    BY <1>1, <1>2, <2>1, <2>2 DEF PrintedOnce
  <2> QED
    BY <2>1, <2>2, <2>3, BlocksStay
<1>12. ASSUME NEW e \in Entries, MissEntry(e) \/ Vanish(e) PROVE Blocks' /\ PrintedOnce(U)'
  BY <1>3, <1>12, MainMoves DEF MissEntry, Vanish
<1>13. ASSUME NEW t \in Threads, QuietIn(t), UNCHANGED clientVars
       PROVE  Blocks' /\ PrintedOnce(U)'
  BY <1>3, <1>13, QuietMoves DEF clientVars
<1>14. CASE UNCHANGED vars
  BY <1>3, <1>14, MainMoves DEF vars
<1> QED
  BY <1>4, <1>5, <1>6, <1>7, <1>8, <1>9, <1>10, <1>11, <1>12, <1>13, <1>14
     DEF OtherStep, WorkerPrivate

-----------------------------------------------------------------------------
(* The output is a sequence of whole blocks.                               *)

OutputInv ==
  /\ Base /\ OneOwner /\ Blocks
  /\ \E U \in SUBSET Entries : Tree(U) /\ PrintedOnce(U)

\* OutputInv is inductive.
LEMMA OutputInvariant == SafeSpec => []OutputInv
<1>1. Init => OutputInv
  BY InitBase, InitOwner, InitTree, InitOutput DEF OutputInv
<1>2. OutputInv /\ [Next]_vars => OutputInv'
  <2> SUFFICES ASSUME OutputInv, [Next]_vars PROVE OutputInv'
    OBVIOUS
  <2>1. Base /\ OneOwner /\ Blocks /\ Base'
    BY NextBase DEF OutputInv
  <2>2. PICK U \in SUBSET Entries : Tree(U) /\ PrintedOnce(U)
    BY DEF OutputInv
  <2>3. ASSUME NEW e \in Entries, VisitStep(e) PROVE OutputInv'
    <3>1. Tree(U \ {e})' /\ OneOwner' /\ Blocks' /\ PrintedOnce(U \ {e})'
      BY <2>1, <2>2, <2>3, VisitTree, VisitOwner, VisitOutput
    <3>2. U \ {e} \in SUBSET Entries
      OBVIOUS
    <3> QED
      BY <2>1, <3>1, <3>2 DEF OutputInv
  <2>4. CASE OtherStep
    <3>1. Tree(U)' /\ OneOwner' /\ Blocks' /\ PrintedOnce(U)'
      BY <2>1, <2>2, <2>4, OtherTree, OtherOwner, OtherOutput
    <3> QED
      BY <2>1, <3>1 DEF OutputInv
  <2> QED
    BY <2>3, <2>4, StepKinds
<1> QED
  BY <1>1, <1>2, PTL DEF SafeSpec

\* Whatever the order in which the workers reach flockfile, stdout is the
\* headers of the files that matched, each followed by the file's matches in
\* order; no file is printed twice and no two blocks are mixed, for every tree
\* and every number of workers (greptile.c:243-247, 126-149).
THEOREM PrintedInBlocks == Spec => []OutputUnbroken
<1>1. OutputInv => OutputUnbroken
  BY DEF OutputInv, Blocks
<1> QED
  BY <1>1, OutputInvariant, PTL DEF Spec
-----------------------------------------------------------------------------
(* The walk leaves nothing out.                                            *)

Open(d)      == \E k \in 1 .. Len(stack) : stack[k].dir = d
Unread(d, e) == \E k \in 1 .. Len(stack) : stack[k].dir = d /\ e \in stack[k].todo

\* An entry of a directory that main() has found was returned, was removed,
\* or is still to be read; others remove a directory only when it is empty;
\* the path of a directory is allocated only while it is open.
Complete(U) ==
  /\ \A d \in (Dirs \cup {Root}) \ U : mpc # "create" =>
       \A e \in Kids[d] : e \notin U \/ e \in gone \/ Unread(d, e)
  /\ \A d \in Dirs \cap gone : Kids[d] \subseteq gone
  /\ mpc # "exit" => \A e \in live \ Files : Open(e)

\* Nothing is found at the start.
LEMMA InitComplete == Init => Complete(Entries)
  BY DEF Init, Complete

\* The walk goes on: an entry leaves its directory and opens its own.
LEMMA VisitComplete ==
  ASSUME Base, NEW U \in SUBSET Entries, Tree(U), Complete(U), NEW e \in Entries, VisitStep(e)
  PROVE  Complete(U \ {e})'
<1> DEFINE V == U \ {e}
<1>1. ReadEntry(e)
  BY DEF VisitStep, VisitDir, VisitFile, VisitOther, VisitFails
<1>2. e \in U /\ e \notin live /\ stack # <<>> /\ mpc = "walk"
  BY <1>1, FreshEntry
<1>3. /\ AfterEntry(e) \in Seq(Frames) /\ Len(AfterEntry(e)) = Len(stack)
      /\ \A k \in 1 .. Len(stack) :
           /\ AfterEntry(e)[k].dir = stack[k].dir
           /\ AfterEntry(e)[k].todo
                = IF k = Len(stack) THEN stack[k].todo \ {e} ELSE stack[k].todo
  BY <1>2, AfterEntryView
<1>4. /\ gone' = gone /\ live' \subseteq live \cup {e}
      /\ \/ e \in Dirs /\ stack' = Append(AfterEntry(e), OpenDir(e)) /\ mpc' = "walk"
         \/ e \in Files /\ stack' = AfterEntry(e) /\ mpc' = "walk"
         \/ e \in Others /\ stack' = AfterEntry(e) /\ mpc' = "walk" /\ live' = live
         \/ e \in gone /\ stack' = AfterEntry(e) /\ mpc' = "exit"
  BY <1>2 DEF VisitStep, VisitDir, VisitFile, VisitOther, VisitFails
<1>5. /\ Len(stack) \in Nat /\ Len(stack') >= Len(stack) /\ Len(stack') \in Nat
      /\ \A k \in 1 .. Len(stack) : stack'[k] = AfterEntry(e)[k]
      /\ e \in Dirs /\ mpc' = "walk" =>
           Len(stack') = Len(stack) + 1 /\ stack'[Len(stack) + 1] = OpenDir(e)
  <2>1. Len(stack) \in Nat
    BY <1>2, TopFrame
  <2>2. CASE stack' = AfterEntry(e) /\ ~(e \in Dirs /\ mpc' = "walk")
    BY <1>3, <2>1, <2>2
  <2>3. CASE e \in Dirs /\ stack' = Append(AfterEntry(e), OpenDir(e))
    <3>1. OpenDir(e) \in Frames
      BY <2>3, FramesOK
    <3> QED
      BY <1>3, <2>1, <2>3, <3>1, AppendProperties
  <2> QED
    BY <1>4, <2>2, <2>3, GreptileAssumption
<1>6. \A k \in 1 .. Len(stack) : /\ k \in 1 .. Len(stack')
                                 /\ stack'[k].dir = stack[k].dir
                                 /\ stack[k].todo \ {e} \subseteq stack'[k].todo
  <2> SUFFICES ASSUME NEW k \in 1 .. Len(stack)
               PROVE  /\ k \in 1 .. Len(stack')
                      /\ stack'[k].dir = stack[k].dir
                      /\ stack[k].todo \ {e} \subseteq stack'[k].todo
    OBVIOUS
  <2>1. k \in 1 .. Len(stack') /\ stack'[k] = AfterEntry(e)[k]
    BY <1>5
  <2>2. /\ AfterEntry(e)[k].dir = stack[k].dir
        /\ stack[k].todo \ {e} \subseteq AfterEntry(e)[k].todo
    BY <1>3
  <2> QED
    BY <2>1, <2>2
<1>7. /\ \A d : Open(d) => Open(d)'
      /\ \A d, x : Unread(d, x) /\ x # e => Unread(d, x)'
  BY <1>6 DEF Open, Unread
<1>8. e \in Dirs /\ mpc' = "walk" => Open(e)' /\ \A x \in Kids[e] : Unread(e, x)'
  <2> SUFFICES ASSUME e \in Dirs, mpc' = "walk"
               PROVE  Open(e)' /\ \A x \in Kids[e] : Unread(e, x)'
    OBVIOUS
  <2>1. /\ Len(stack) + 1 \in 1 .. Len(stack')
        /\ stack'[Len(stack) + 1].dir = e /\ stack'[Len(stack) + 1].todo = Kids[e]
    BY <1>5 DEF OpenDir
  <2> QED
    BY <2>1 DEF Open, Unread
<1>9. ASSUME NEW d \in (Dirs \cup {Root}) \ V, NEW x \in Kids[d]
      PROVE  x \notin V \/ x \in gone' \/ Unread(d, x)'
  <2>1. CASE d # e
    <3>1. x \notin U \/ x \in gone \/ Unread(d, x)
      BY <1>2, <1>9, <2>1 DEF Complete
    <3> QED
      BY <1>4, <1>7, <3>1
  <2>2. CASE d = e /\ mpc' = "walk"
    BY <1>8, <1>9, <2>2, GreptileAssumption
  <2>3. CASE d = e /\ mpc' = "exit"
    <3>1. e \in Dirs \cap gone
      BY <1>4, <1>9, <2>3, GreptileAssumption
    <3> QED
      BY <1>4, <1>9, <2>3, <3>1 DEF Complete
  <2> QED
    BY <1>4, <2>1, <2>2, <2>3
<1>10. ASSUME mpc' # "exit", NEW x \in live' \ Files PROVE Open(x)'
  <2>1. CASE x \in live
    BY <1>2, <1>7, <1>10, <2>1 DEF Complete
  <2>2. CASE x \notin live
    <3>1. x = e /\ e \in Dirs /\ mpc' = "walk"
      BY <1>4, <1>10, <2>2
    <3> QED
      BY <1>8, <3>1
  <2> QED
    BY <2>1, <2>2
<1>11. \A d \in Dirs \cap gone' : Kids[d] \subseteq gone'
  BY <1>4 DEF Complete
<1> HIDE DEF V
<1>12. Complete(V)'
  BY <1>9, <1>10, <1>11 DEF Complete
<1> QED
  BY <1>12 DEF V

\* Nor does any other step leave something out.
LEMMA OtherComplete ==
  ASSUME Base, NEW U \in SUBSET Entries, Tree(U), Complete(U), OtherStep
  PROVE  Complete(U)'
<1>1. ASSUME stack' = stack, live' \subseteq live, gone' = gone, mpc' = "exit" <=> mpc = "exit",
             mpc' # "create" => mpc # "create"
      PROVE  Complete(U)'
  BY <1>1 DEF Complete, Open, Unread
<1>2. CASE OpenRoot
  <2>1. /\ stack = <<>> /\ stack' = <<OpenDir(Root)>> /\ mpc = "create" /\ mpc' = "walk"
        /\ live' = live /\ gone' = gone /\ U = Entries
    BY <1>2 DEF OpenRoot, MainAt, Tree
  <2>2. 1 \in 1 .. Len(stack') /\ stack'[1].dir = Root /\ stack'[1].todo = Kids[Root]
    BY <2>1 DEF OpenDir
  <2>3. \A e \in Kids[Root] : Unread(Root, e)'
    BY <2>2 DEF Unread
  <2>4. \A d \in (Dirs \cup {Root}) \ U : d = Root
    BY <2>1 DEF Entries
  <2>5. live \ Files = {}
    BY <2>1 DEF Complete, Open
  <2> QED
    BY <2>1, <2>3, <2>4, <2>5 DEF Complete
<1>3. CASE LeaveDir
  <2>1. /\ stack # <<>> /\ stack' = SubSeq(stack, 1, Len(stack) - 1)
        /\ stack[Len(stack)].todo = {} /\ live' = live \ {stack[Len(stack)].dir}
        /\ mpc = "walk" /\ gone' = gone
    BY <1>3 DEF LeaveDir, MainAt
  <2>2. Len(stack) \in Nat \ {0} /\ \A k \in 1 .. Len(stack) : stack[k] \in Frames
    BY <2>1, TopFrame
  <2>3. Len(stack') = Len(stack) - 1 /\ \A k \in 1 .. Len(stack) - 1 : stack'[k] = stack[k]
    BY <2>1, <2>2, Popped
  <2>4. \A k \in 1 .. Len(stack) : k = Len(stack) \/ k \in 1 .. Len(stack')
    BY <2>2, <2>3
  <2>5. \A d, e : Unread(d, e) => Unread(d, e)'
    BY <2>1, <2>3, <2>4 DEF Unread
  <2>6. \A d : Open(d) /\ d # stack[Len(stack)].dir => Open(d)'
    BY <2>3, <2>4 DEF Open
  <2> QED
    BY <2>1, <2>5, <2>6 DEF Complete
<1>4. ASSUME NEW e \in Entries, MissEntry(e) PROVE Complete(U)'
  <2>1. /\ stack # <<>> /\ stack' = AfterEntry(e) /\ e \in gone /\ mpc = "walk" /\ mpc' = mpc
        /\ live' = live /\ gone' = gone
    BY <1>4 DEF MissEntry, ReadEntry, MainAt
  <2>2. /\ Len(stack') = Len(stack)
        /\ \A k \in 1 .. Len(stack) : /\ stack'[k].dir = stack[k].dir
                                      /\ stack[k].todo \ {e} \subseteq stack'[k].todo
    BY <2>1, AfterEntryView
  <2>3. /\ \A d : Open(d) => Open(d)'
        /\ \A d, x : Unread(d, x) /\ x # e => Unread(d, x)'
    BY <2>2 DEF Open, Unread
  <2> QED
    BY <2>1, <2>3 DEF Complete
<1>5. ASSUME NEW e \in Entries, Vanish(e) PROVE Complete(U)'
  <2>1. /\ stack' = stack /\ mpc' = mpc /\ live' = live /\ gone' = gone \cup {e}
        /\ (e \in Dirs => Kids[e] \subseteq gone)
    BY <1>5 DEF Vanish, mainVars
  <2>2. \A d, x : (Open(d) <=> Open(d)') /\ (Unread(d, x) <=> Unread(d, x)')
    BY <2>1 DEF Open, Unread
  <2>3. \A d \in Dirs \cap gone' : Kids[d] \subseteq gone'
    BY <2>1 DEF Complete
  <2> QED
    BY <2>1, <2>2, <2>3 DEF Complete
<1>6. CASE CreateThread \/ SendSentinel \/ StartJoining \/ Join \/ Destroy \/ ProcessExit
  BY <1>1, <1>6
     DEF CreateThread, SendSentinel, StartJoining, Join, Destroy, ProcessExit, MainAt, mainVars
<1>7. ASSUME NEW w \in Workers, WorkerPrivate(w) \/ WorkerPrints(w) \/ Quit(w) \/ FreePath(w)
      PROVE  Complete(U)'
  BY <1>1, <1>7 DEF WorkerPrivate, WorkerPrints, BeginDequeue, Quit, SearchFile, SearchFails,
        Flock, PrintHeader, PrintJob, Funlock, FreePath, WorkerGoto, mainVars
<1>8. CASE UNCHANGED clientVars \/ UNCHANGED vars
  BY <1>1, <1>8 DEF clientVars, vars, mainVars
<1> QED
  BY <1>2, <1>3, <1>4, <1>5, <1>6, <1>7, <1>8 DEF OtherStep

-----------------------------------------------------------------------------
(* What is printed of each file, and the flags that tell of it.            *)

PrintedAll(f) ==
  Matches[f] = 0 \/ \E k \in 1 .. Len(out) : out[k] = [file |-> f, nth |-> Matches[f]]

\* A file that was found is printed to its last match before its path is
\* freed.
Found(U) ==
  /\ \A f \in Files \ U : f \in live \/ PrintedAll(f)
  /\ \A w \in Workers : wpc[w] = "free" => PrintedAll(Hands[w])

\* A worker's flag is set exactly if it printed or is about to; the return
\* value of main() collects those of the workers it has joined.
WorkerFlags ==
  /\ \A w \in Workers : wpc[w] \in {"flock", "header", "print"} => found_match[w]
  /\ \A w \in Workers : found_match[w] /\ wpc[w] \notin {"flock", "header"} => out # <<>>
  /\ out # <<>> => \E w \in Workers : found_match[w]
Joined(w) == mpc = "return" \/ (mpc = "join" /\ w <= i)
MainFlags ==
  /\ any_matched <=> \E w \in Workers : found_match[w] /\ Joined(w)
  /\ exit_status \in {0, 1} => mpc = "return" /\ (exit_status = 0 <=> any_matched)

\* Nothing is found at the start.
LEMMA InitFound == Init => Found(Entries) /\ WorkerFlags /\ MainFlags
  BY GreptileAssumption DEF Init, Found, WorkerFlags, MainFlags, Entries, Running

\* What is printed stays printed.
LEMMA OutputGrows ==
  ASSUME Base, (\E e \in Entries : VisitStep(e)) \/ OtherStep
  PROVE  /\ out' = out \/ \E w \in Workers : PrintHeader(w) \/ PrintJob(w)
         /\ \A w \in Workers : PrintHeader(w) \/ PrintJob(w) => out' # <<>>
         /\ \A f : PrintedAll(f) => PrintedAll(f)'
<1>1. out \in Seq(Lines)
  BY DEF Base, LocalTypes, Lines
<1>2. ASSUME out' = out PROVE \A f : PrintedAll(f) => PrintedAll(f)'
  BY <1>2 DEF PrintedAll
<1>3. ASSUME NEW w \in Workers, PrintHeader(w) \/ PrintJob(w)
      PROVE  out' # <<>> /\ \A f : PrintedAll(f) => PrintedAll(f)'
  <2>1. PICK k : out' = Append(out, [file |-> got[w], nth |-> k]) /\ k \in Nat
    <3>1. CASE PrintHeader(w)
      BY <3>1 DEF PrintHeader, Printed
    <3>2. CASE PrintJob(w)
      <4>1. pq[w] \in Seq(Nat) /\ pq[w] # <<>>
        BY <3>2 DEF PrintJob, Base, LocalTypes
      <4> QED
        BY <3>2, <4>1, HeadTailProperties DEF PrintJob, Printed
    <3> QED
      BY <1>3, <3>1, <3>2
  <2>2. [file |-> got[w], nth |-> k] \in Lines
    BY <1>3, <2>1, WorkerMoves DEF Lines
  <2>3. /\ Len(out) \in Nat /\ Len(out') = Len(out) + 1 /\ out' # <<>>
        /\ \A n \in 1 .. Len(out) : out'[n] = out[n]
    BY <1>1, <2>1, <2>2, AppendProperties, LenProperties
  <2>4. \A n \in 1 .. Len(out) : n \in 1 .. Len(out')
    BY <2>3
  <2> QED
    BY <2>3, <2>4 DEF PrintedAll
<1>4. ASSUME \A w \in Workers : ~(PrintHeader(w) \/ PrintJob(w))
      PROVE  out' = out
  <2>1. ASSUME NEW e \in Entries, VisitStep(e) PROVE out' = out
    BY <2>1 DEF VisitStep, VisitDir, VisitFile, VisitOther, VisitFails, workerVars
  <2>2. CASE \/ CreateThread \/ OpenRoot \/ LeaveDir \/ SendSentinel \/ StartJoining \/ Join
             \/ Destroy \/ ProcessExit
    BY <2>2 DEF CreateThread, OpenRoot, LeaveDir, SendSentinel, StartJoining, Join, Destroy,
                ProcessExit, workerVars
  <2>3. ASSUME NEW e \in Entries, MissEntry(e) \/ Vanish(e) PROVE out' = out
    BY <2>3 DEF MissEntry, Vanish, workerVars
  <2>4. ASSUME NEW w \in Workers, WorkerPrivate(w) \/ WorkerPrints(w) \/ Quit(w) \/ FreePath(w)
        PROVE  out' = out
    BY <1>4, <2>4 DEF WorkerPrivate, WorkerPrints, BeginDequeue, Quit, SearchFile, SearchFails,
                      Flock, Funlock, FreePath
  <2>5. CASE UNCHANGED clientVars \/ UNCHANGED vars
    BY <2>5 DEF clientVars, vars, workerVars
  <2>6. CASE OtherStep
    BY <2>2, <2>3, <2>4, <2>5, <2>6 DEF OtherStep
  <2> QED
    BY <2>1, <2>6
<1> QED
  BY <1>2, <1>3, <1>4

\* Found speaks of the files and of the workers about to free one.
LEMMA FoundStays ==
  ASSUME NEW U, Found(U), \A f : PrintedAll(f) => PrintedAll(f)', live \cap Files \subseteq live',
         \A w \in Workers : wpc'[w] = "free" => wpc[w] = "free" /\ Hands'[w] = Hands[w]
  PROVE  Found(U)'
BY DEF Found

\* A file that main() finds is allocated.
LEMMA VisitFound ==
  ASSUME Base, NEW U \in SUBSET Entries, Found(U), NEW e \in Entries, VisitStep(e)
  PROVE  Found(U \ {e})'
<1>1. \A f : PrintedAll(f) => PrintedAll(f)'
  BY OutputGrows
<1>2. live \subseteq live' /\ (e \in Files => e \in live') /\ wpc' = wpc
  BY GreptileAssumption
     DEF VisitStep, VisitDir, VisitFile, VisitOther, VisitFails, workerVars
<1>3. Hands' = Hands
  BY MainMoves DEF VisitStep, VisitFile, JobsStay, Offered
<1> QED
  BY <1>1, <1>2, <1>3 DEF Found

\* A path is freed only when its file is printed.
LEMMA OtherFound ==
  ASSUME Base, NEW U \in SUBSET Entries, Blocks, Found(U), OtherStep
  PROVE  Found(U)'
<1>1. /\ wpc \in [Workers -> WorkerLocations] /\ \A f : PrintedAll(f) => PrintedAll(f)'
      /\ \A f \in Files : Matches[f] \in Nat
  BY OutputGrows, GreptileAssumption DEF Base, LocalTypes
<1>2. ASSUME NEW w \in Workers, FreePath(w) PROVE Found(U)'
  <2>1. /\ Released(w) /\ Hands[w] \in Files /\ live' = live \ {Hands[w]} /\ wpc[w] = "free"
        /\ wpc' = [wpc EXCEPT ![w] = "loop"]
    BY <1>2, WorkerMoves DEF FreePath, WorkerGoto
  <2>2. /\ wpc'[w] = "loop" /\ PrintedAll(Hands[w])
        /\ \A v \in Workers \ {w} : wpc'[v] = wpc[v] /\ Hands'[v] = Hands[v]
    BY <1>1, <2>1 DEF Found, Released
  <2>3. \A f \in Files \ U : f \in live' \/ PrintedAll(f)'
    BY <1>1, <2>1, <2>2 DEF Found
  <2>4. \A v \in Workers : (wpc[v] = "free" => PrintedAll(Hands[v]))'
    <3> SUFFICES ASSUME NEW v \in Workers, wpc'[v] = "free" PROVE PrintedAll(Hands[v])'
      OBVIOUS
    <3>1. v # w /\ wpc[v] = "free" /\ Hands'[v] = Hands[v]
      BY <2>2
    <3>2. PICK f : f = Hands[v]
      OBVIOUS
    <3>3. PrintedAll(f)'
      BY <1>1, <3>1, <3>2 DEF Found
    <3> QED
      BY <3>1, <3>2, <3>3 DEF PrintedAll
  <2> QED
    BY <2>3, <2>4 DEF Found
<1>3. ASSUME NEW w \in Workers, SearchFile(w) \/ Funlock(w) PROVE Found(U)'
  <2>1. /\ JobsStay /\ live' = live /\ Hands[w] = got[w] /\ got[w] \in Files
        /\ \E l \in {"flock", "free"} : wpc' = [wpc EXCEPT ![w] = l]
    <3> DEFINE l == IF Matches[got[w]] > 0 THEN "flock" ELSE "free"
    <3>1. SearchFile(w) => l \in {"flock", "free"} /\ wpc' = [wpc EXCEPT ![w] = l]
      BY DEF SearchFile, WorkerGoto
    <3> HIDE DEF l
    <3> QED
      BY <1>3, <3>1, WorkerMoves DEF SearchFile, Funlock, WorkerGoto
  <2>2. Hands' = Hands /\ \A v \in Workers \ {w} : wpc'[v] = wpc[v]
    BY <1>1, <2>1 DEF JobsStay
  <2>3. wpc'[w] = "free" => PrintedAll(Hands[w])
    <3>1. CASE SearchFile(w)
      <4>1. wpc'[w] = IF Matches[Hands[w]] > 0 THEN "flock" ELSE "free"
        BY <1>1, <2>1, <3>1 DEF SearchFile, WorkerGoto
      <4>2. wpc'[w] = "free" => Matches[Hands[w]] = 0
        BY <1>1, <2>1, <4>1
      <4> QED
        BY <4>2 DEF PrintedAll
    <3>2. CASE Funlock(w)
      <4>1. wpc[w] = "print" /\ pq[w] = <<>>
        BY <3>2 DEF Funlock
      <4>2. /\ out # <<>> /\ Last.file = Hands[w]
            /\ Last.nth + Len(pq[w]) = Matches[Hands[w]]
        BY <4>1 DEF Blocks, Printing
      <4>3. out \in Seq(Lines) /\ Len(out) \in 1 .. Len(out) /\ Last \in Lines
        <5>1. out \in Seq(Lines)
          BY DEF Base, LocalTypes, Lines
        <5> QED
          BY <4>2, <5>1, EmptySeq, ElementOfSeq, LenProperties DEF Last
      <4>4. Last.nth = Matches[Hands[w]]
        BY <4>1, <4>2, <4>3 DEF Lines
      <4>5. Last = [file |-> Hands[w], nth |-> Matches[Hands[w]]]
        BY <4>2, <4>3, <4>4 DEF Lines
      <4> QED
        BY <4>3, <4>5 DEF PrintedAll, Last
    <3> QED
      BY <1>3, <3>1, <3>2
  <2>4. \A v \in Workers : wpc'[v] = "free" => PrintedAll(Hands[v])
    BY <2>2, <2>3 DEF Found
  <2> QED
    BY <1>1, <2>1, <2>2, <2>4 DEF Found
<1>4. ASSUME live' \cap Files = live \cap Files,
             \A w \in Workers : wpc'[w] = "free" => wpc[w] = "free" /\ Hands'[w] = Hands[w]
      PROVE  Found(U)'
  BY <1>1, <1>4, FoundStays
<1>5. CASE CreateThread
  <2>1. JobsStay /\ live' = live /\ wpc' = [wpc EXCEPT ![i + 1] = "loop"]
    BY <1>5, MainMoves DEF CreateThread
  <2> QED
    BY <1>1, <1>4, <2>1 DEF JobsStay
<1>6. CASE OpenRoot \/ StartJoining \/ Join \/ Destroy \/ ProcessExit \/ SendSentinel
  <2>1. live' = live /\ wpc' = wpc /\ Hands' = Hands
    BY <1>6, MainMoves DEF OpenRoot, StartJoining, Join, Destroy, ProcessExit, SendSentinel,
                           workerVars, JobsStay, Offered
  <2> QED
    BY <1>4, <2>1
<1>7. CASE LeaveDir
  <2>1. /\ stack # <<>> /\ live' = live \ {stack[Len(stack)].dir} /\ wpc' = wpc
        /\ Hands' = Hands
    BY <1>7, MainMoves DEF LeaveDir, workerVars, JobsStay
  <2>2. stack[Len(stack)].dir \notin Files
    BY <2>1, TopFrame, GreptileAssumption DEF Entries
  <2> QED
    BY <1>4, <2>1, <2>2
<1>8. ASSUME NEW e \in Entries, MissEntry(e) \/ Vanish(e) PROVE Found(U)'
  <2>1. live' = live /\ wpc' = wpc /\ Hands' = Hands
    BY <1>8, MainMoves DEF MissEntry, Vanish, workerVars, JobsStay
  <2> QED
    BY <1>4, <2>1
<1>9. ASSUME NEW w \in Workers,
             BeginDequeue(w) \/ SearchFails(w) \/ Flock(w) \/ PrintHeader(w) \/ PrintJob(w)
      PROVE  Found(U)'
  <2>1. /\ JobsStay /\ live' = live
        /\ \E l \in {"dequeue", "exit", "header", "print"} : wpc' = [wpc EXCEPT ![w] = l]
    BY <1>9, WorkerMoves DEF BeginDequeue, SearchFails, Flock, PrintHeader, PrintJob, WorkerGoto
  <2> QED
    BY <1>1, <1>4, <2>1 DEF JobsStay
<1>10. ASSUME NEW w \in Workers, Quit(w) PROVE Found(U)'
  <2>1. Released(w) /\ live' = live /\ wpc' = [wpc EXCEPT ![w] = "exited"]
    BY <1>10, WorkerMoves DEF Quit, WorkerGoto
  <2>2. /\ wpc'[w] = "exited"
        /\ \A v \in Workers \ {w} : wpc'[v] = wpc[v] /\ Hands'[v] = Hands[v]
    BY <1>1, <2>1 DEF Released
  <2> QED
    BY <1>4, <2>1, <2>2
<1>11. ASSUME Ring!Store(Main), UNCHANGED clientVars PROVE Found(U)'
  BY <1>4, <1>11, StoreMoves DEF clientVars, workerVars, Stored
<1>12. ASSUME NEW w \in Workers, Ring!Fetch(w), UNCHANGED clientVars PROVE Found(U)'
  <2>1. Fetched(w) /\ wpc[w] = "dequeue" /\ wpc' = wpc /\ live' = live
    BY <1>12, FetchMoves DEF clientVars, workerVars
  <2>2. \A v \in Workers \ {w} : Hands'[v] = Hands[v]
    BY <2>1, FetchedView
  <2> QED
    BY <1>4, <2>1, <2>2
<1>13. ASSUME NEW t \in Threads, QuietIn(t), UNCHANGED clientVars PROVE Found(U)'
  BY <1>4, <1>13, QuietMoves DEF clientVars, workerVars, JobsStay
<1>14. CASE UNCHANGED vars
  BY <1>4, <1>14, MainMoves DEF vars, workerVars, JobsStay
<1> QED
  BY <1>2, <1>3, <1>5, <1>6, <1>7, <1>8, <1>9, <1>10, <1>11, <1>12, <1>13, <1>14
     DEF OtherStep, WorkerPrivate, WorkerPrints

\* What a step does to the workers' flags.
LEMMA FlagSteps ==
  ASSUME Base, (\E e \in Entries : VisitStep(e)) \/ OtherStep
  PROVE  \/ \E w \in Workers : SearchFile(w)
         \/ found_match' = found_match
<1>1. ASSUME NEW e \in Entries, VisitStep(e) PROVE found_match' = found_match
  BY <1>1 DEF VisitStep, VisitDir, VisitFile, VisitOther, VisitFails, workerVars
<1>2. CASE \/ CreateThread \/ OpenRoot \/ LeaveDir \/ SendSentinel \/ StartJoining \/ Join
           \/ Destroy \/ ProcessExit
  BY <1>2 DEF CreateThread, OpenRoot, LeaveDir, SendSentinel, StartJoining, Join, Destroy,
              ProcessExit, workerVars
<1>3. ASSUME NEW e \in Entries, MissEntry(e) \/ Vanish(e) PROVE found_match' = found_match
  BY <1>3 DEF MissEntry, Vanish, workerVars
<1>4. ASSUME NEW w \in Workers, WorkerPrivate(w) \/ WorkerPrints(w) \/ Quit(w) \/ FreePath(w),
             ~SearchFile(w)
      PROVE  found_match' = found_match
  BY <1>4 DEF WorkerPrivate, WorkerPrints, BeginDequeue, Quit, SearchFails, Flock, PrintHeader,
              PrintJob, Funlock, FreePath
<1>5. CASE UNCHANGED clientVars \/ UNCHANGED vars
  BY <1>5 DEF clientVars, vars, workerVars
<1>6. CASE OtherStep
  BY <1>2, <1>3, <1>4, <1>5, <1>6 DEF OtherStep
<1> QED
  BY <1>1, <1>6

\* Each worker's location after a step; only CreateThread moves another.
LEMMA LocationSteps ==
  ASSUME Base, (\E e \in Entries : VisitStep(e)) \/ OtherStep
  PROVE  \A w \in Workers :
           \/ wpc'[w] = wpc[w]
           \/ SearchFile(w)
           \/ wpc[w] = "flock" /\ wpc'[w] = "header"
           \/ PrintHeader(w)
           \/ wpc[w] \notin {"flock", "header"}
              /\ wpc'[w] \notin {"flock", "header", "print"}
<1>1. wpc \in [Workers -> WorkerLocations]
  BY DEF Base, LocalTypes
<1>2. ASSUME NEW e \in Entries, VisitStep(e) PROVE wpc' = wpc
  BY <1>2 DEF VisitStep, VisitDir, VisitFile, VisitOther, VisitFails, workerVars
<1>3. CASE \/ OpenRoot \/ LeaveDir \/ SendSentinel \/ StartJoining \/ Join \/ Destroy
           \/ ProcessExit
  BY <1>3 DEF OpenRoot, LeaveDir, SendSentinel, StartJoining, Join, Destroy, ProcessExit,
              workerVars
<1>4. CASE CreateThread
  <2>1. wpc' = [wpc EXCEPT ![i + 1] = "loop"] /\ i + 1 \in Workers /\ i + 1 > i
    BY <1>4, JobTypes DEF CreateThread, Workers
  <2>2. wpc[i + 1] = "unborn"
    BY <1>4, <2>1 DEF Base, ThreadsPlaced, CreateThread, MainAt
  <2> QED
    BY <1>1, <2>1, <2>2
<1>5. ASSUME NEW e \in Entries, MissEntry(e) \/ Vanish(e) PROVE wpc' = wpc
  BY <1>5 DEF MissEntry, Vanish, workerVars
<1>6. ASSUME NEW w \in Workers, SearchFile(w) \/ PrintHeader(w)
      PROVE  \A v \in Workers \ {w} : wpc'[v] = wpc[v]
  BY <1>1, <1>6 DEF SearchFile, PrintHeader, WorkerGoto
<1>7. ASSUME NEW w \in Workers, Flock(w)
      PROVE  /\ wpc[w] = "flock" /\ wpc'[w] = "header"
             /\ \A v \in Workers \ {w} : wpc'[v] = wpc[v]
  BY <1>1, <1>7 DEF Flock, WorkerGoto
<1>8. ASSUME NEW w \in Workers,
             BeginDequeue(w) \/ SearchFails(w) \/ Quit(w) \/ FreePath(w) \/ Funlock(w)
      PROVE  /\ wpc[w] \notin {"flock", "header"} /\ wpc'[w] \notin {"flock", "header", "print"}
             /\ \A v \in Workers \ {w} : wpc'[v] = wpc[v]
  <2>1. /\ wpc[w] \in {"loop", "dequeue", "free", "print"}
        /\ \E l \in {"dequeue", "exit", "exited", "loop", "free"} : wpc' = [wpc EXCEPT ![w] = l]
    BY <1>8 DEF BeginDequeue, SearchFails, Quit, FreePath, Funlock, Dequeued, WorkerGoto
  <2> QED
    BY <1>1, <2>1
<1>9. ASSUME NEW w \in Workers, PrintJob(w) PROVE wpc' = wpc
  BY <1>1, <1>9 DEF PrintJob, WorkerGoto
<1>10. CASE UNCHANGED clientVars \/ UNCHANGED vars
  BY <1>10 DEF clientVars, vars, workerVars
<1>11. CASE OtherStep
  BY <1>3, <1>4, <1>5, <1>6, <1>7, <1>8, <1>9, <1>10, <1>11
     DEF OtherStep, WorkerPrivate, WorkerPrints
<1> QED
  BY <1>2, <1>11

\* SearchFile only ever sets its worker's flag.
LEMMA SearchFlags ==
  ASSUME Base, NEW w \in Workers, SearchFile(w)
  PROVE  /\ \A v \in Workers : found_match[v] => found_match'[v]
         /\ \A v \in Workers : found_match'[v] => found_match[v] \/ (v = w /\ wpc'[w] = "flock")
         /\ wpc'[w] = "flock" => found_match'[w]
         /\ \A v \in Workers \ {w} : wpc'[v] = wpc[v]
         /\ wpc[w] = "dequeue" /\ wpc'[w] \in {"flock", "free"} /\ out' = out
<1> DEFINE n == Matches[got[w]]
<1>1. /\ wpc \in [Workers -> WorkerLocations] /\ found_match \in [Workers -> BOOLEAN]
  BY DEF Base, LocalTypes
<1>2. /\ wpc' = [wpc EXCEPT ![w] = IF n > 0 THEN "flock" ELSE "free"]
      /\ found_match' = [found_match EXCEPT ![w] = @ \/ n > 0]
      /\ wpc[w] = "dequeue" /\ out' = out
  BY DEF SearchFile, Dequeued, WorkerGoto
<1>3. /\ found_match'[w] <=> found_match[w] \/ n > 0
      /\ \A v \in Workers \ {w} : found_match'[v] = found_match[v]
  BY <1>1, <1>2
<1>4. wpc'[w] = (IF n > 0 THEN "flock" ELSE "free") /\ \A v \in Workers \ {w} : wpc'[v] = wpc[v]
  BY <1>1, <1>2
<1> HIDE DEF n
<1> QED
  BY <1>2, <1>3, <1>4

\* found_match goes up before the file is printed and never down.
LEMMA NextWorkerFlags ==
  ASSUME Base, WorkerFlags, (\E e \in Entries : VisitStep(e)) \/ OtherStep
  PROVE  WorkerFlags'
<1>1. CASE \E w \in Workers : SearchFile(w)
  <2>1. PICK w \in Workers : SearchFile(w)
    BY <1>1
  <2>2. /\ \A v \in Workers : found_match[v] => found_match'[v]
        /\ \A v \in Workers : found_match'[v] => found_match[v] \/ (v = w /\ wpc'[w] = "flock")
        /\ wpc'[w] = "flock" => found_match'[w]
        /\ \A v \in Workers \ {w} : wpc'[v] = wpc[v]
        /\ wpc[w] = "dequeue" /\ wpc'[w] \in {"flock", "free"} /\ out' = out
    BY <2>1, SearchFlags
  <2>3. \A v \in Workers : wpc'[v] \in {"flock", "header", "print"} => found_match'[v]
    BY <2>2 DEF WorkerFlags
  <2>4. \A v \in Workers : found_match'[v] /\ wpc'[v] \notin {"flock", "header"} => out' # <<>>
    BY <2>2 DEF WorkerFlags
  <2>5. out' # <<>> => \E v \in Workers : found_match'[v]
    BY <2>2 DEF WorkerFlags
  <2> QED
    BY <2>3, <2>4, <2>5 DEF WorkerFlags
<1>2. CASE ~\E w \in Workers : SearchFile(w)
  <2>1. found_match' = found_match
    BY <1>2, FlagSteps
  <2>2. /\ out' = out \/ \E w \in Workers : PrintHeader(w) \/ PrintJob(w)
        /\ \A w \in Workers : PrintHeader(w) \/ PrintJob(w) => out' # <<>>
    BY OutputGrows
  <2>3. \A w \in Workers :
          \/ wpc'[w] = wpc[w]
          \/ wpc[w] = "flock" /\ wpc'[w] = "header"
          \/ PrintHeader(w)
          \/ wpc[w] \notin {"flock", "header"}
             /\ wpc'[w] \notin {"flock", "header", "print"}
    BY <1>2, LocationSteps
  <2>4. /\ \A w \in Workers : PrintHeader(w) => wpc[w] = "header" /\ wpc'[w] = "print"
        /\ \A w \in Workers : PrintJob(w) => wpc[w] = "print"
    BY DEF Base, LocalTypes, PrintHeader, PrintJob, WorkerGoto
  <2>5. \A w \in Workers : wpc'[w] \in {"flock", "header", "print"} => found_match'[w]
    BY <2>1, <2>3, <2>4 DEF WorkerFlags
  <2>6. \A w \in Workers : found_match'[w] /\ wpc'[w] \notin {"flock", "header"} => out' # <<>>
    BY <2>1, <2>2, <2>3, <2>4 DEF WorkerFlags
  <2>7. out' # <<>> => \E w \in Workers : found_match'[w]
    BY <2>1, <2>2, <2>4 DEF WorkerFlags
  <2> QED
    BY <2>5, <2>6, <2>7 DEF WorkerFlags
<1> QED
  BY <1>1, <1>2

\* main()'s return value and the status of the process.
LEMMA NextMainFlags ==
  ASSUME Base, MainFlags, (\E e \in Entries : VisitStep(e)) \/ OtherStep
  PROVE  MainFlags'
<1>1. /\ any_matched \in BOOLEAN /\ i \in 0 .. NUM_THREADS /\ NUM_THREADS \in Nat
      /\ found_match \in [Workers -> BOOLEAN] /\ Workers = 1 .. NUM_THREADS
  BY JobTypes DEF Base, LocalTypes, Workers
<1>2. ASSUME any_matched' = any_matched, exit_status' = exit_status,
             mpc = "return" => mpc' = "return",
             \A w \in Workers : (found_match'[w] /\ Joined(w)') <=> (found_match[w] /\ Joined(w))
      PROVE  MainFlags'
  BY <1>2 DEF MainFlags
<1>3. CASE \E w \in Workers : SearchFile(w)
  <2>1. PICK w \in Workers : SearchFile(w)
    BY <1>3
  <2>2. /\ any_matched' = any_matched /\ exit_status' = exit_status /\ mpc' = mpc /\ i' = i
    BY <2>1 DEF SearchFile, WorkerGoto, mainVars
  <2>3. wpc[w] = "dequeue" /\ \A v \in Workers \ {w} : found_match'[v] <=> found_match[v]
    BY <2>1, SearchFlags
  <2>4. ~Joined(w)
    BY <2>3 DEF Joined, Base, ThreadsPlaced
  <2>5. \A v \in Workers : Joined(v)' <=> Joined(v)
    BY <2>2 DEF Joined
  <2> QED
    BY <1>2, <2>2, <2>3, <2>4, <2>5
<1>4. ASSUME found_match' = found_match, any_matched' = any_matched,
             exit_status' = exit_status, mpc = "return" => mpc' = "return",
             \A w \in Workers : Joined(w)' <=> Joined(w)
      PROVE  MainFlags'
  BY <1>2, <1>4
<1>5. ASSUME found_match' = found_match PROVE MainFlags'
  <2>1. CASE \/ CreateThread \/ OpenRoot \/ LeaveDir \/ SendSentinel
    <3>1. /\ any_matched' = any_matched /\ exit_status' = exit_status
          /\ mpc \in {"create", "walk", "sentinels"} /\ mpc' \in {"create", "walk", "sentinels"}
      BY <2>1 DEF CreateThread, OpenRoot, LeaveDir, SendSentinel, MainAt
    <3>2. \A w \in Workers : ~Joined(w) /\ ~Joined(w)'
      BY <3>1 DEF Joined
    <3> QED
      BY <1>4, <1>5, <3>1, <3>2
  <2>2. ASSUME NEW e \in Entries, VisitStep(e) \/ MissEntry(e) PROVE MainFlags'
    <3>1. /\ any_matched' = any_matched /\ exit_status' = exit_status
          /\ mpc = "walk" /\ mpc' \in {"walk", "exit"}
      BY <2>2 DEF VisitStep, VisitDir, VisitFile, VisitOther, VisitFails, MissEntry,
                  ReadEntry, MainAt
    <3>2. \A w \in Workers : ~Joined(w) /\ ~Joined(w)'
      BY <3>1 DEF Joined
    <3> QED
      BY <1>4, <1>5, <3>1, <3>2
  <2>3. CASE StartJoining
    <3>1. /\ any_matched' = any_matched /\ exit_status' = exit_status
          /\ mpc = "sentinels" /\ mpc' = "join" /\ i' = 0
      BY <2>3 DEF StartJoining, MainAt
    <3>2. \A w \in Workers : ~Joined(w) /\ ~Joined(w)'
      BY <1>1, <3>1 DEF Joined
    <3> QED
      BY <1>4, <1>5, <3>1, <3>2
  <2>4. CASE Join
    <3>1. /\ any_matched' = (any_matched \/ found_match[i + 1]) /\ i' = i + 1
          /\ exit_status' = exit_status /\ mpc = "join" /\ mpc' = "join" /\ i + 1 \in Workers
      BY <1>1, <2>4 DEF Join, MainAt
    <3>2. \A w \in Workers : Joined(w)' <=> Joined(w) \/ w = i + 1
      BY <1>1, <3>1 DEF Joined
    <3>3. any_matched' <=> any_matched \/ found_match[i + 1]
      BY <3>1
    <3>4. any_matched' <=> \E w \in Workers : found_match'[w] /\ Joined(w)'
      BY <1>5, <3>1, <3>2, <3>3 DEF MainFlags
    <3>5. exit_status' \notin {0, 1}
      BY <3>1 DEF MainFlags
    <3> QED
      BY <3>4, <3>5 DEF MainFlags
  <2>5. CASE Destroy
    <3>1. /\ any_matched' = any_matched /\ exit_status' = exit_status /\ i = NUM_THREADS
          /\ mpc = "join" /\ mpc' = "return"
      BY <2>5 DEF Destroy, MainAt
    <3>2. \A w \in Workers : Joined(w) /\ Joined(w)'
      BY <1>1, <3>1 DEF Joined
    <3> QED
      BY <1>4, <1>5, <3>1, <3>2
  <2>6. CASE ProcessExit
    <3>1. /\ any_matched' = any_matched /\ mpc' = mpc /\ i' = i
      BY <2>6 DEF ProcessExit, mainVars
    <3>2. exit_status' \in {0, 1} => mpc = "return" /\ (exit_status' = 0 <=> any_matched)
      <4>1. \/ exit_status' = 2
            \/ mpc = "return" /\ exit_status' = IF any_matched THEN 0 ELSE 1
        BY <2>6 DEF ProcessExit
      <4> QED
        BY <1>1, <4>1
    <3>3. \A w \in Workers : Joined(w)' <=> Joined(w)
      BY <3>1 DEF Joined
    <3> QED
      BY <1>5, <3>1, <3>2, <3>3 DEF MainFlags
  <2>7. ASSUME NEW e \in Entries, Vanish(e) PROVE MainFlags'
    <3>1. UNCHANGED <<any_matched, exit_status, mpc, i>>
      BY <2>7 DEF Vanish, mainVars
    <3> QED
      BY <1>4, <1>5, <3>1 DEF Joined
  <2>8. ASSUME NEW w \in Workers, WorkerPrivate(w) \/ WorkerPrints(w) \/ Quit(w) \/ FreePath(w)
        PROVE  MainFlags'
    <3>1. UNCHANGED <<any_matched, exit_status, mpc, i>>
      BY <2>8 DEF WorkerPrivate, WorkerPrints, BeginDequeue, Quit, SearchFile, SearchFails,
        Flock, PrintHeader, PrintJob, Funlock, FreePath, WorkerGoto, mainVars
    <3> QED
      BY <1>4, <1>5, <3>1 DEF Joined
  <2>9. CASE UNCHANGED clientVars \/ UNCHANGED vars
    <3>1. UNCHANGED <<any_matched, exit_status, mpc, i>>
      BY <2>9 DEF clientVars, vars, mainVars
    <3> QED
      BY <1>4, <1>5, <3>1 DEF Joined
  <2> QED
    BY <2>1, <2>2, <2>3, <2>4, <2>5, <2>6, <2>7, <2>8, <2>9 DEF OtherStep
<1> QED
  BY <1>3, <1>5, FlagSteps

-----------------------------------------------------------------------------
(* Status 0 or 1.                                                          *)

StatusInv ==
  /\ Base /\ JobsInOrder /\ OneOwner /\ Blocks /\ WorkerFlags /\ MainFlags
  /\ \E U \in SUBSET Entries : Tree(U) /\ PrintedOnce(U) /\ Complete(U) /\ Found(U)

\* StatusInv is inductive.
LEMMA StatusInvariant == SafeSpec => []StatusInv
<1>1. Init => StatusInv
  BY InitBase, InitOrder, InitOwner, InitTree, InitOutput, InitComplete, InitFound DEF StatusInv
<1>2. StatusInv /\ [Next]_vars => StatusInv'
  <2> SUFFICES ASSUME StatusInv, [Next]_vars PROVE StatusInv'
    OBVIOUS
  <2>1. Base /\ JobsInOrder /\ OneOwner /\ Blocks /\ WorkerFlags /\ MainFlags
    BY DEF StatusInv
  <2>2. Base' /\ JobsInOrder' /\ WorkerFlags' /\ MainFlags'
    BY <2>1, NextBase, NextOrder, NextWorkerFlags, NextMainFlags, StepKinds
  <2>3. PICK U \in SUBSET Entries : Tree(U) /\ PrintedOnce(U) /\ Complete(U) /\ Found(U)
    BY DEF StatusInv
  <2>4. ASSUME NEW e \in Entries, VisitStep(e) PROVE StatusInv'
    <3>1. OneOwner' /\ Blocks'
      BY <2>1, <2>3, <2>4, VisitOwner, VisitOutput
    <3>2. /\ Tree(U \ {e})' /\ PrintedOnce(U \ {e})' /\ Complete(U \ {e})' /\ Found(U \ {e})'
      BY <2>1, <2>3, <2>4, VisitTree, VisitOutput, VisitComplete, VisitFound
    <3>3. U \ {e} \in SUBSET Entries
      OBVIOUS
    <3> QED
      BY <2>2, <3>1, <3>2, <3>3 DEF StatusInv
  <2>5. CASE OtherStep
    <3>1. OneOwner' /\ Blocks'
      BY <2>1, <2>3, <2>5, OtherOwner, OtherOutput
    <3>2. Tree(U)' /\ PrintedOnce(U)' /\ Complete(U)' /\ Found(U)'
      BY <2>1, <2>3, <2>5, OtherTree, OtherOutput, OtherComplete, OtherFound
    <3> QED
      BY <2>2, <3>1, <3>2 DEF StatusInv
  <2> QED
    BY <2>4, <2>5, StepKinds
<1> QED
  BY <1>1, <1>2, PTL DEF SafeSpec

\* When main() is about to return, no path is allocated.
LEMMA NothingLeft ==
  ASSUME Base, JobsInOrder, OneOwner, NEW U, Complete(U), mpc = "return"
  PROVE  live = {} /\ stack = <<>>
<1>1. /\ \A w \in Workers : wpc[w] = "exited"
      /\ stack = <<>> /\ Offer \in {NULL, NoJob}
  BY DEF Base, ThreadsPlaced, JobsInOrder, WalkOver
<1>2. 1 \in Workers
  BY GreptileAssumption DEF Workers
<1>3. \A k \in 1 .. Len(Queued) : Queued[k] = NULL
  BY <1>1, <1>2 DEF JobsInOrder, Quitting
<1>4. \A w \in Workers : Hands[w] = NoJob
  BY <1>1 DEF Hands, Holds
<1>5. \A f \in Files : ~Owned(f)
  BY <1>1, <1>3, <1>4, GreptileAssumption DEF Owned, InHands, InRing
<1>6. live \cap Files = {}
  BY <1>5 DEF OneOwner
<1>7. Len(stack) = 0 /\ \A e : ~Open(e)
  BY <1>1 DEF Open
<1>8. live \ Files = {}
  BY <1>7 DEF Complete
<1> QED
  BY <1>1, <1>6, <1>8

\* When main() is about to return, what is still there was found.
LEMMA AllFound ==
  ASSUME NEW U \in SUBSET Entries, Complete(U), mpc = "return", stack = <<>>
  PROVE  U \subseteq gone
<1> DEFINE S == U \ gone
<1>1. ASSUME NEW d \in (Dirs \cup {Root}) \ S PROVE Kids[d] \cap S = {}
  <2>1. CASE d \notin U
    <3>1. \A e : ~Unread(d, e)
      BY DEF Unread
    <3> QED
      BY <1>1, <2>1, <3>1 DEF Complete
  <2>2. CASE d \in U
    <3>1. d \in Dirs \cap gone
      BY <1>1, <2>2, GreptileAssumption
    <3> QED
      BY <3>1 DEF Complete
  <2> QED
    BY <2>1, <2>2
<1>2. S \in SUBSET Entries
  OBVIOUS
<1> HIDE DEF S
<1>3. S = {}
  BY <1>1, <1>2, TreeAssumption
<1> QED
  BY <1>3 DEF S

\* Status 0 or 1 is never reported for a search cut short: every file that is
\* still there was printed to its last match, every path is freed, and the
\* status is 0 exactly if something was printed, for every tree, every number
\* of workers and whatever is removed meanwhile (greptile.c:217-219, 333-343).
THEOREM StatusIsTrue == Spec => []StatusTellsAll
<1>1. StatusInv => StatusTellsAll
  <2> SUFFICES ASSUME StatusInv, exit_status \in {0, 1}
               PROVE  /\ \A f \in Files \ gone : Matches[f] > 0 =>
                           \E k \in 1 .. Len(out) : out[k] = [file |-> f, nth |-> Matches[f]]
                      /\ live = {}
                      /\ exit_status = 0 <=> out # <<>>
    BY DEF StatusTellsAll
  <2>1. /\ Base /\ JobsInOrder /\ OneOwner /\ WorkerFlags /\ MainFlags
    BY DEF StatusInv
  <2>2. PICK U \in SUBSET Entries : Complete(U) /\ Found(U)
    BY DEF StatusInv
  <2>3. mpc = "return" /\ (exit_status = 0 <=> any_matched)
    BY <2>1 DEF MainFlags
  <2>4. live = {} /\ stack = <<>>
    BY <2>1, <2>2, <2>3, NothingLeft
  <2>5. U \subseteq gone
    BY <2>2, <2>3, <2>4, AllFound
  <2>6. ASSUME NEW f \in Files \ gone, Matches[f] > 0
        PROVE  \E k \in 1 .. Len(out) : out[k] = [file |-> f, nth |-> Matches[f]]
    <3>1. PrintedAll(f)
      BY <2>2, <2>4, <2>5 DEF Found
    <3> QED
      BY <2>6, <3>1 DEF PrintedAll
  <2>7. any_matched <=> \E w \in Workers : found_match[w]
    BY <2>1, <2>3 DEF MainFlags, Joined
  <2>8. \A w \in Workers : wpc[w] = "exited"
    BY <2>1, <2>3 DEF Base, ThreadsPlaced
  <2>9. out # <<>> <=> \E w \in Workers : found_match[w]
    BY <2>1, <2>8 DEF WorkerFlags
  <2> QED
    BY <2>3, <2>4, <2>6, <2>7, <2>9
<1> QED
  BY <1>1, StatusInvariant, PTL DEF Spec
=============================================================================
