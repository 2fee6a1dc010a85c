------------------------------ MODULE Greptile ------------------------------
(***************************************************************************)
(* The multi-threaded greptile as a process: main() starts the workers,    *)
(* walks the directory tree enqueuing every non-empty regular file, sends  *)
(* one NULL path per worker, joins them and returns the exit status;       *)
(* search_files() runs in each worker.  They share the ring buffer         *)
(* (SearchRing), the heap that holds the paths, stdout and, because any    *)
(* thread may call exit(2), the life of the process.                       *)
(*                                                                         *)
(* Another process may remove files while greptile runs (Vanish).          *)
(***************************************************************************)
EXTENDS Integers, Sequences, FiniteSets

CONSTANTS
  Main,         \* the main thread
  NUM_THREADS,  \* number of workers
  MAX_FILES,    \* capacity of the ring
  NULL,         \* the NULL path that tells a worker to exit
  Root,         \* the directory given on the command line
  Dirs, Files,  \* the other directories; the non-empty regular files
  Others,       \* every other entry: empty files, links, devices
  Kids,         \* the entries of each directory
  Matches,      \* per file, the number of its lines that hold the pattern
  NoJob, Nobody,
  MaxSpurious,  \* bound: wake-ups without a signal
  MaxVanish     \* bound: entries removed by others while greptile runs

Workers == 1 .. NUM_THREADS
Entries == Dirs \cup Files \cup Others

ASSUME GreptileAssumption ==
  /\ NUM_THREADS \in Nat \ {0} /\ MAX_FILES \in Nat \ {0}
  /\ MaxSpurious \in Nat /\ MaxVanish \in Nat
  /\ Main \notin Workers /\ Nobody \notin Workers \cup {Main}
  /\ NULL \notin Files /\ NoJob \notin Files \cup {NULL}
  /\ Root \notin Entries
  /\ Dirs \cap Files = {} /\ Dirs \cap Others = {} /\ Files \cap Others = {}
  /\ Kids \in [Dirs \cup {Root} -> SUBSET Entries]
  /\ Matches \in [Files -> Nat]
  /\ \A d, e \in Dirs \cup {Root} : d # e => Kids[d] \cap Kids[e] = {}

\* It is one tree: every entry is reached from Root.
ASSUME TreeAssumption ==
  \A S \in SUBSET Entries :
    S # {} => \E d \in (Dirs \cup {Root}) \ S : Kids[d] \cap S # {}

VARIABLES
  jobs, num_jobs, enqueue_index, dequeue_index, mutex, job_waiters,
  space_waiters, at, arg, got, spurious,     \* see SearchRing
  mpc,           \* where main() is
  i,             \* the counter of main()'s current loop over the threads
  stack,         \* frames of traverse_directory, outermost first
  any_matched,   \* any_threads_matched
  wpc,           \* where each worker is in search_files
  found_match,   \* its local of that name
  pq,            \* its print queue
  stdout_owner,  \* the thread between flockfile and funlockfile, or Nobody
  out,           \* what was written to stdout
  live,          \* entries whose malloc'd full_path is not freed
  gone,          \* entries others have removed
  exit_status    \* Running, or the status the process ended with

Ring == INSTANCE SearchRing WITH
  Producers <- {Main}, Consumers <- Workers, Jobs <- Files \cup {NULL},
  Capacity <- MAX_FILES

ringVars    == <<jobs, num_jobs, enqueue_index, dequeue_index, mutex, job_waiters,
                 space_waiters, at, arg, got, spurious>>
mainVars    == <<mpc, i, stack, any_matched>>
workerVars  == <<wpc, found_match, pq, stdout_owner, out>>
vars == <<ringVars, mainVars, workerVars, live, gone, exit_status>>

Running == -1
MainLocations   == {"create", "walk", "sentinels", "join", "return", "exit"}
WorkerLocations == {"unborn", "loop", "dequeue", "flock", "header", "print",
                    "free", "exited", "exit"}

Init ==
  /\ Ring!Init
  /\ mpc = "create" /\ i = 0 /\ stack = <<>> /\ any_matched = FALSE
  /\ wpc = [w \in Workers |-> "unborn"]
  /\ found_match = [w \in Workers |-> FALSE]
  /\ pq = [w \in Workers |-> <<>>]
  /\ stdout_owner = Nobody /\ out = <<>>
  /\ live = {} /\ gone = {} /\ exit_status = Running

-----------------------------------------------------------------------------
(* main() and traverse_directory *)

\* main() runs its own code: it is not inside rb_enqueue.
MainAt(loc) == mpc = loc /\ at[Main] = "out"

CreateThread ==
  /\ MainAt("create") /\ i < NUM_THREADS
  /\ wpc' = [wpc EXCEPT ![i + 1] = "loop"]
  /\ i' = i + 1
  /\ UNCHANGED <<ringVars, mpc, stack, any_matched, found_match, pq,
                 stdout_owner, out, live, gone, exit_status>>

OpenDir(d) == [dir |-> d, todo |-> Kids[d]]

\* The outermost call of traverse_directory: lstat and opendir succeed.
OpenRoot ==
  /\ MainAt("create") /\ i = NUM_THREADS
  /\ mpc' = "walk"
  /\ stack' = <<OpenDir(Root)>>
  /\ UNCHANGED <<ringVars, i, any_matched, workerVars, live, gone, exit_status>>

\* readdir returned entry e of the innermost open directory.
ReadEntry(e) ==
  /\ MainAt("walk") /\ stack # <<>>
  /\ e \in stack[Len(stack)].todo

AfterEntry(e) == [stack EXCEPT ![Len(stack)].todo = @ \ {e}]

\* A subdirectory: the recursive call.
VisitDir(e) ==
  /\ ReadEntry(e) /\ e \in Dirs \ gone
  /\ live' = live \cup {e}
  /\ stack' = Append(AfterEntry(e), OpenDir(e))
  /\ UNCHANGED <<ringVars, mpc, i, any_matched, workerVars, gone, exit_status>>

\* Seeded bug: stores into the ring without the mutex when there is room.
VisitFileUnlocked(e) ==
  /\ ReadEntry(e) /\ e \in Files \ gone
  /\ live' = live \cup {e}
  /\ stack' = AfterEntry(e)
  /\ num_jobs # MAX_FILES
  /\ jobs' = [jobs EXCEPT ![enqueue_index] = e]
  /\ enqueue_index' = (enqueue_index + 1) % MAX_FILES
  /\ num_jobs' = num_jobs + 1
  /\ UNCHANGED <<dequeue_index, mutex, job_waiters, space_waiters, at, arg, got,
                 spurious, mpc, i, any_matched, workerVars, gone, exit_status>>

\* A non-empty regular file: a worker will free its path.
VisitFile(e) ==
  /\ ReadEntry(e) /\ e \in Files \ gone
  /\ live' = live \cup {e}
  /\ stack' = AfterEntry(e)
  /\ Ring!CallEnqueue(Main, e)
  /\ UNCHANGED <<mpc, i, any_matched, workerVars, gone, exit_status>>

\* Anything else: the path is freed at once.
VisitOther(e) ==
  /\ ReadEntry(e) /\ e \in Others \ gone
  /\ stack' = AfterEntry(e)
  /\ UNCHANGED <<ringVars, mpc, i, any_matched, workerVars, live, gone,
                 exit_status>>

\* An entry removed before readdir reached it need not be returned.
MissEntry(e) ==
  /\ ReadEntry(e) /\ e \in gone
  /\ stack' = AfterEntry(e)
  /\ UNCHANGED <<ringVars, mpc, i, any_matched, workerVars, live, gone,
                 exit_status>>

\* An entry removed after readdir returned it: lstat or opendir fails.
VisitFails(e) ==
  /\ ReadEntry(e) /\ e \in gone
  /\ mpc' = "exit"
  /\ stack' = AfterEntry(e)
  /\ live' = live \cup {e}
  /\ UNCHANGED <<ringVars, i, any_matched, workerVars, gone, exit_status>>

\* Seeded bug: the NULL jobs follow the first directory that is finished.
LeaveDirEarly ==
  /\ MainAt("walk") /\ stack # <<>>
  /\ stack[Len(stack)].todo = {}
  /\ live' = live \ {stack[Len(stack)].dir}
  /\ stack' = SubSeq(stack, 1, Len(stack) - 1)
  /\ mpc' = "sentinels" /\ i' = 0
  /\ UNCHANGED <<ringVars, any_matched, workerVars, gone, exit_status>>

\* closedir, return to the caller, which frees the path of a subdirectory.
LeaveDir ==
  /\ MainAt("walk") /\ stack # <<>>
  /\ stack[Len(stack)].todo = {}
  /\ live' = live \ {stack[Len(stack)].dir}
  /\ stack' = SubSeq(stack, 1, Len(stack) - 1)
  /\ IF Len(stack) = 1 THEN mpc' = "sentinels" /\ i' = 0 ELSE UNCHANGED <<mpc, i>>
  /\ UNCHANGED <<ringVars, any_matched, workerVars, gone, exit_status>>

\* Seeded bug: one NULL job too many.
SendSentinelExtra ==
  /\ MainAt("sentinels") /\ i <= NUM_THREADS
  /\ Ring!CallEnqueue(Main, NULL)
  /\ i' = i + 1
  /\ UNCHANGED <<mpc, stack, any_matched, workerVars, live, gone, exit_status>>

SendSentinel ==
  /\ MainAt("sentinels") /\ i < NUM_THREADS
  /\ Ring!CallEnqueue(Main, NULL)
  /\ i' = i + 1
  /\ UNCHANGED <<mpc, stack, any_matched, workerVars, live, gone, exit_status>>

\* Seeded bug: one NULL job for all the workers.
StartJoiningSoon ==
  /\ MainAt("sentinels") /\ i > 0
  /\ mpc' = "join" /\ i' = 0
  /\ UNCHANGED <<ringVars, stack, any_matched, workerVars, live, gone,
                 exit_status>>

StartJoining ==
  /\ MainAt("sentinels") /\ i = NUM_THREADS
  /\ mpc' = "join" /\ i' = 0
  /\ UNCHANGED <<ringVars, stack, any_matched, workerVars, live, gone,
                 exit_status>>

\* pthread_join(threads[i]) and the |= of its result.
Join ==
  /\ MainAt("join") /\ i < NUM_THREADS
  /\ wpc[i + 1] = "exited"
  /\ any_matched' = (any_matched \/ found_match[i + 1])
  /\ i' = i + 1
  /\ UNCHANGED <<ringVars, mpc, stack, workerVars, live, gone, exit_status>>

\* Seeded bug: the ring is destroyed before the workers are joined.
DestroyEarly ==
  /\ MainAt("join")
  /\ mpc' = "return"
  /\ UNCHANGED <<ringVars, i, stack, any_matched, workerVars, live, gone,
                 exit_status>>

\* rb_destroy: from here on the ring must not be used.
Destroy ==
  /\ MainAt("join") /\ i = NUM_THREADS
  /\ mpc' = "return"
  /\ UNCHANGED <<ringVars, i, stack, any_matched, workerVars, live, gone,
                 exit_status>>

-----------------------------------------------------------------------------
(* search_files *)

BeginDequeue(w) ==
  /\ wpc[w] = "loop"
  /\ Ring!CallDequeue(w)
  /\ wpc' = [wpc EXCEPT ![w] = "dequeue"]
  /\ UNCHANGED <<mainVars, found_match, pq, stdout_owner, out, live, gone,
                 exit_status>>

\* rb_dequeue has returned got[w].
Dequeued(w) == wpc[w] = "dequeue" /\ at[w] = "out"

WorkerGoto(w, loc) ==
  /\ wpc' = [wpc EXCEPT ![w] = loc]
  /\ UNCHANGED <<ringVars, mainVars, gone, exit_status>>

\* pthread_exit(found_match)
Quit(w) ==
  /\ Dequeued(w) /\ got[w] = NULL
  /\ WorkerGoto(w, "exited")
  /\ UNCHANGED <<found_match, pq, stdout_owner, out, live>>

\* Seeded bugs: a file without a match is dropped with its path; the flag
\* says whether the last file matched.
SearchFileDropped(w) ==
  /\ Dequeued(w) /\ got[w] \in Files \ gone
  /\ LET n == Matches[got[w]] IN
       /\ pq' = [pq EXCEPT ![w] = [k \in 1 .. n |-> k]]
       /\ found_match' = [found_match EXCEPT ![w] = @ \/ n > 0]
       /\ WorkerGoto(w, IF n > 0 THEN "flock" ELSE "loop")
  /\ UNCHANGED <<stdout_owner, out, live>>

SearchFileForgets(w) ==
  /\ Dequeued(w) /\ got[w] \in Files \ gone
  /\ LET n == Matches[got[w]] IN
       /\ pq' = [pq EXCEPT ![w] = [k \in 1 .. n |-> k]]
       /\ found_match' = [found_match EXCEPT ![w] = n > 0]
       /\ WorkerGoto(w, IF n > 0 THEN "flock" ELSE "free")
  /\ UNCHANGED <<stdout_owner, out, live>>

\* The file is read and its lines scanned: the print queue holds its matching
\* lines in order.  Only this thread sees any of it.
SearchFile(w) ==
  /\ Dequeued(w) /\ got[w] \in Files \ gone
  /\ LET n == Matches[got[w]] IN
       /\ pq' = [pq EXCEPT ![w] = [k \in 1 .. n |-> k]]
       /\ found_match' = [found_match EXCEPT ![w] = @ \/ n > 0]
       /\ WorkerGoto(w, IF n > 0 THEN "flock" ELSE "free")
  /\ UNCHANGED <<stdout_owner, out, live>>

\* fopen fails: error() ends the whole process.
SearchFails(w) ==
  /\ Dequeued(w) /\ got[w] \in gone
  /\ WorkerGoto(w, "exit")
  /\ UNCHANGED <<found_match, pq, stdout_owner, out, live>>

\* Seeded bug: flockfile is missing.
FlockMissing(w) ==
  /\ wpc[w] = "flock"
  /\ stdout_owner' = w
  /\ WorkerGoto(w, "header")
  /\ UNCHANGED <<found_match, pq, out, live>>

Flock(w) ==
  /\ wpc[w] = "flock" /\ stdout_owner = Nobody
  /\ stdout_owner' = w
  /\ WorkerGoto(w, "header")
  /\ UNCHANGED <<found_match, pq, out, live>>

\* Line 0 of a block is its header, the path.
Printed(w, k) == out' = Append(out, [file |-> got[w], nth |-> k])

PrintHeader(w) ==
  /\ wpc[w] = "header"
  /\ Printed(w, 0)
  /\ WorkerGoto(w, "print")
  /\ UNCHANGED <<found_match, pq, stdout_owner, live>>

PrintJob(w) ==
  /\ wpc[w] = "print" /\ pq[w] # <<>>
  /\ Printed(w, Head(pq[w]))
  /\ pq' = [pq EXCEPT ![w] = Tail(@)]
  /\ WorkerGoto(w, "print")
  /\ UNCHANGED <<found_match, stdout_owner, live>>

\* Seeded bug: funlockfile is missing.
FunlockMissing(w) ==
  /\ wpc[w] = "print" /\ pq[w] = <<>>
  /\ WorkerGoto(w, "free")
  /\ UNCHANGED <<found_match, pq, stdout_owner, out, live>>

Funlock(w) ==
  /\ wpc[w] = "print" /\ pq[w] = <<>>
  /\ stdout_owner' = Nobody
  /\ WorkerGoto(w, "free")
  /\ UNCHANGED <<found_match, pq, out, live>>

FreePath(w) ==
  /\ wpc[w] = "free"
  /\ live' = live \ {got[w]}
  /\ WorkerGoto(w, "loop")
  /\ UNCHANGED <<found_match, pq, stdout_owner, out>>

-----------------------------------------------------------------------------
(* The process and its environment *)

\* exit(2) in any thread, or the return of main(), ends the process at some
\* later moment; until then the other threads keep running.
ProcessExit ==
  /\ exit_status' \in
       {2 : t \in {w \in Workers : wpc[w] = "exit"} \cup {m \in {Main} : mpc = "exit"}}
       \cup {IF any_matched THEN 0 ELSE 1 : t \in {m \in {Main} : mpc = "return"}}
  /\ UNCHANGED <<ringVars, mainVars, workerVars, live, gone>>

\* Somebody else removes an entry; a directory only once it is empty.
Vanish(e) ==
  /\ e \notin gone /\ Cardinality(gone) < MaxVanish
  /\ e \in Dirs => Kids[e] \subseteq gone
  /\ gone' = gone \cup {e}
  /\ UNCHANGED <<ringVars, mainVars, workerVars, live, exit_status>>

MainLocal ==
  \/ CreateThread \/ OpenRoot \/ LeaveDir
  \/ SendSentinel \/ StartJoining \/ Join \/ Destroy
  \/ \E e \in Entries : \/ VisitDir(e) \/ VisitFile(e) \/ VisitOther(e)
                        \/ MissEntry(e) \/ VisitFails(e)

WorkerLocal(w) ==
  \/ BeginDequeue(w) \/ Quit(w) \/ SearchFile(w) \/ SearchFails(w)
  \/ Flock(w) \/ PrintHeader(w) \/ PrintJob(w) \/ Funlock(w) \/ FreePath(w)

clientVars == <<mainVars, workerVars, live, gone, exit_status>>

MainStep == MainLocal \/ (Ring!EnqueueStep(Main) /\ UNCHANGED clientVars)
WorkerStep(w) == WorkerLocal(w) \/ (Ring!DequeueStep(w) /\ UNCHANGED clientVars)
SpuriousWake == /\ \E t \in Workers \cup {Main} : Ring!SpuriousWake(t)
                /\ UNCHANGED clientVars

Alive(A) == exit_status = Running /\ A

\* The process is gone.
Over == exit_status # Running /\ UNCHANGED vars

Next ==
  \/ Alive(MainStep)
  \/ \E w \in Workers : Alive(WorkerStep(w))
  \/ Alive(SpuriousWake)
  \/ Alive(ProcessExit)
  \/ \E e \in Entries : Alive(Vanish(e))
  \/ Over

SafeSpec == Init /\ [][Next]_vars

\* The scheduler runs every thread that can run, and an exit completes.
Fairness ==
  /\ WF_vars(Alive(MainStep))
  /\ \A w \in Workers : WF_vars(Alive(WorkerStep(w)))
  /\ WF_vars(Alive(ProcessExit))

Spec == SafeSpec /\ Fairness
-----------------------------------------------------------------------------
(* Properties *)

Frames == [dir : Dirs \cup {Root}, todo : SUBSET Entries]

\* Every variable of main(), of the workers and of the process keeps its type.
TypeOK ==
  /\ Ring!TypeOK
  /\ mpc \in MainLocations /\ i \in 0 .. NUM_THREADS
  /\ stack \in Seq(Frames) /\ any_matched \in BOOLEAN
  /\ wpc \in [Workers -> WorkerLocations]
  /\ found_match \in [Workers -> BOOLEAN]
  /\ pq \in [Workers -> Seq(Nat)]
  /\ stdout_owner \in Workers \cup {Nobody}
  /\ out \in Seq([file : Files, nth : Nat])
  /\ live \subseteq Entries /\ gone \subseteq Entries
  /\ exit_status \in {Running, 0, 1, 2}

\* Worker w has file f and has not freed its path.
HoldsFile(w, f) ==
  /\ got[w] = f
  /\ \/ wpc[w] = "dequeue" /\ at[w] \in {"signal", "out"}
     \/ wpc[w] \in {"flock", "header", "print", "free", "exit"}

MainOffers(job) == Ring!Pending(Main) /\ arg[Main] = job

\* Everyone who would free the path of f, or pass it on to be freed.
Owners(f) ==
  {<<"worker", w>> : w \in {v \in Workers : HoldsFile(v, f)}}
  \cup {<<"ring", k>> : k \in {n \in 1 .. num_jobs : Ring!Contents[n] = f}}
  \cup {<<"main", m>> : m \in {n \in {0} : MainOffers(f)}}

\* The path of a file has exactly one owner from its malloc in
\* traverse_directory to its free in search_files, and none outside: it is
\* never freed twice, used after being freed, or lost between the threads
\* (greptile.c:278-292 and 209-250).
PathOwnership ==
  mpc # "exit" =>
    \A f \in Files : Cardinality(Owners(f)) = IF f \in live THEN 1 ELSE 0

\* stdout is a sequence of blocks, one per file that matched, each a header
\* followed by the file's matches in order; blocks of different workers are
\* never mixed, and only the last one can be incomplete (greptile.c:243-247,
\* 126-149).
OutputUnbroken ==
  /\ \A k, n \in 1 .. Len(out) : out[k] = out[n] => k = n
  /\ \A k \in 1 .. Len(out) :
       IF out[k].nth = 0
       THEN k > 1 => out[k - 1].nth = Matches[out[k - 1].file]
       ELSE k > 1 /\ out[k - 1] = [out[k] EXCEPT !.nth = @ - 1]

\* A worker quits only when no file is left: none in the ring, none in the
\* hands of main() and none still to be found (the NULL jobs come last,
\* greptile.c:329-331 and 213-214).
NoFileAfterQuit ==
  (\E w \in Workers : wpc[w] = "exited") =>
    /\ stack = <<>>
    /\ \A f \in Files : ~MainOffers(f)
    /\ \A k \in 1 .. num_jobs : Ring!Contents[k] = NULL

\* Each worker that still runs has one NULL job on its way, in the ring or to
\* be sent, and there is none to spare (greptile.c:330-331).
OneSentinelEach ==
  mpc \in {"sentinels", "join", "return"} =>
    Cardinality({w \in Workers : wpc[w] # "exited" /\ ~HoldsFile(w, NULL)})
      = Cardinality({k \in 1 .. num_jobs : Ring!Contents[k] = NULL})
        + (IF MainOffers(NULL) THEN 1 ELSE 0)
        + (IF mpc = "sentinels" THEN NUM_THREADS - i ELSE 0)

\* When main() destroys the ring no thread is inside rb_enqueue or rb_dequeue,
\* asleep on its conditions or going to use it (greptile.c:334-340).
DestroyedRingUnused ==
  mpc = "return" =>
    /\ \A t \in Workers \cup {Main} : at[t] = "out"
    /\ \A w \in Workers : wpc[w] = "exited"
    /\ mutex = Nobody /\ job_waiters = {} /\ space_waiters = {}

\* Status 0 or 1 means the search was complete: every file that is still
\* there was printed to its last match, no path is left allocated, and the
\* status is 0 exactly if something was printed.  A failure in any thread,
\* whatever the others do meanwhile, yields neither (greptile.c:217-219 and
\* 333-343).
StatusTellsAll ==
  exit_status \in {0, 1} =>
    /\ \A f \in Files \ gone :
         Matches[f] > 0 => \E k \in 1 .. Len(out) : out[k] = [file |-> f, nth |-> Matches[f]]
    /\ live = {}
    /\ exit_status = 0 <=> out # <<>>

\* The threads use the ring as its specification lets its callers.
UsesRing == Ring!SafeSpec

\* Whatever the order of the steps, the process ends: no wake-up is lost, no
\* worker waits for a job that does not come, and main() joins them all.
Termination == <>(exit_status # Running)
=============================================================================
