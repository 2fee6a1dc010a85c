# A formal model of the pattern matcher and the memory allocators

TLA+ specifications of the programs in this repository, model-checked with TLC
and, for the concurrent program, the serial walk and two other sequential parts,
proved with TLAPS. Where the code does otherwise than its comments say, a run
whose counterexample shows it is kept as well (section 5).
Paths are relative to the repository; "greptile.c" is
`thread_and_sychronization/multi_threaded_patternMatch/greptile.c`, "the
single-threaded greptile.c" the one in `single_threaded_pattern_matcher/` beside
it, "the 64-bit mm.c" is `memory_allocator/32bit_to_64bit_practice/mm.c`, "the
explicit mm.c" `memory_allocator/ExplicitFreeList/mm.c`.

## 1. Inventory

| Component | State | Operations | Interacts with |
|---|---|---|---|
| ring buffer, greptile.c 34-89 | `jobs`, `num_jobs`, `enqueue_index`, `dequeue_index`, mutex, two condition variables | `rb_init`, `rb_enqueue`, `rb_dequeue`, `rb_destroy` | main produces, the workers consume |
| main and `traverse_directory`, greptile.c 258-344 | directory recursion, thread ids, `any_threads_matched` | start workers, walk, send one NULL job per worker, join, destroy, return | ring, file system, workers |
| `search_files` and its print queue, greptile.c 91-252 | `found_match`, `pq`, buffer | take a job, read, scan, print under `flockfile`, free | ring, stdout, heap, `exit` |
| file reading and line scan, greptile.c 151-241 | buffer, file sizes from `lstat` and `fstat` | `fopen`, `fstat`, `fread`, `strtok_r` | file system |
| single-threaded greptile | open directories, the entry at hand, file size, line number | `helper_func`, `search_file` with its `fgets` loop, `exit_error` | file system |
| libmem | `mem_heap`, `mem_brk`, `mem_max_addr` | `mem_init`, `mem_sbrk`, `mem_deinit` | every allocator |
| 64-bit allocator | tags in the heap, `heap_listp`, `errno` | `mm_init/malloc/free/realloc/deinit/checkheap` | libmem, calling program |
| bump allocator | `heap_ptr`, `remaining_heap` | `mm_init/malloc/free/deinit` | libmem |
| implicit list allocator | tags as bit fields | the same calls | libmem |
| explicit list allocator | tags and a doubly linked list | the same calls | libmem |
| error.c, the file `c`, test drivers | none that matters | output; not compiled; fixed call sequences | - |

Hard behaviours. The matcher is concurrent: producers and consumers sleep on
two condition variables that may wake spuriously, one signal is sent per
operation, a caller may overtake a woken thread, the ring is bounded and wraps,
workers end on NULL jobs that must match them one to one, heap-allocated paths
change owner between threads, any thread may `exit(2)` while the others are
anywhere, and files disappear between `readdir` and `fopen`. The allocators are
sequential; there the difficulty is long call sequences over a heap whose
metadata lie between the data of the program, or, in the explicit list, inside
them. Both matchers take the size of a file at one moment and use it at
another, while other processes rewrite, shorten or remove the file.

What makes each part correct:

* ring: a bounded first-in first-out queue, each job delivered once, nobody
  asleep while there is something for it to do;
* process: every file searched once and its path freed once, output of files
  not mixed, NULL jobs last and one per worker, ring destroyed when unused,
  exit status that tells the truth, and an end on every path;
* line scans: no store outside the buffer, the matching lines reported once, in
  order, with the numbers they have, and an end, whatever bytes a file holds;
* single-threaded walk: every file searched once or passed over for a reason,
  an exit status that says which, and an end;
* allocators: blocks aligned, disjoint, inside the heap, contents kept until
  freed; tags that always tile the heap; no two free neighbours; refusal only
  when nothing fits.

The hazards behind these properties are listed line by line in `PROJECT.json`.

## 2. Modules

| Module | Models | Notes |
|---|---|---|
| `JobQueue` | what the ring promises | abstract: offers, a queue, deliveries; fairness that a possible insertion or delivery happens |
| `SearchRing` | `struct search_ring_buffer`, `rb_init`, `rb_enqueue`, `rb_dequeue` | one step between two points where another thread can enter; `Queue` is the refinement mapping |
| `Greptile` | `main`, `traverse_directory`, `search_files`, `pq_*`, `error` | composes the ring (`Ring == INSTANCE SearchRing`) with the threads that use it |
| `TextLines` | lines, non-empty lines, C strings and occurrences of a pattern | reference definitions for the two scans |
| `FileScan` | `read_file_into_buffer`, the `strtok_r` loop of `search_files`, the size taken by `traverse_directory` | one file, rewritten by others meanwhile |
| `FgetsScan` | `search_file` of the single-threaded greptile | one file, rewritten or removed by others |
| `SerialWalk` | `helper_func`, `traverse_directory`, `main` of the single-threaded greptile | recursion as a stack of open directories; permissions, descriptors, removals |
| `MemLib` | `mem_sbrk` | a function of the break, with the `int` parameter |
| `Allocation` | what malloc, free and realloc promise | abstract: blocks with size and contents |
| `Mm64` | the 64-bit allocator | memory as words, tags found by the code's own pointer arithmetic |
| `BumpHeap` | the bump allocator | `size_t` count with wrap-around |
| `ImplicitList` | the implicit list allocator | words as a size field and an allocation bit; `misread` records that `prev_payload` did not find the previous block |
| `ExplicitList` | the explicit list allocator | tags and links on the same words; `health` records a stray store or a fault |
| `SearchRingProofs` | - | proofs about the ring, section 4 |
| `GreptileProofs` | - | proofs about the process |
| `SerialWalkProofs`, `LineScanProofs`, `BumpHeapProofs`, `Mm64Proofs`, `ImplicitListProofs`, `ExplicitListProofs` | - | proofs about these modules |
| `MCSearchRing`, `MCGreptile`, `MCImplicitList`, `MCExplicitList` | - | values of the constants for TLC |
| `MCSearches` | - | composes `FileScan`, `FgetsScan` and `SerialWalk`: a behaviour is one of them |
| `MCHeaps` | - | composes `Mm64` and `BumpHeap` on the one `MemLib`: a program is linked with one of them |

Correspondence, ring. `at[t]` is the place of thread t in its call: `lock`
before `pthread_mutex_lock`, `test` with the mutex at the `while`, `wait` inside
`pthread_cond_wait`, `signal` after the ring was updated. A thread at `wait`
sleeps as long as it is in the wait set; signalled or woken spuriously it leaves
the set and needs the mutex (`Acquire`) before it tests again. The wait set is a
set: POSIX promises no order. `arg` is the job a producer carries, `got` the local
`job` of `rb_dequeue`.

Correspondence, process. `mpc` and `wpc` are the places of main and of each
worker outside ring calls; `stack` holds the frames of `traverse_directory`
with the entries `readdir` has still to return, in any order; `live` is the set
of entries whose `full_path` is allocated; `out` is stdout as a list of lines.
A file is a model value with a number of matching lines. `Vanish` is another
process removing entries; the entry is then missed (`MissEntry`) or the
following `lstat`, `opendir` or `fopen` fails and the thread calls `error()`.
`exit` is not atomic: a thread at `exit` has called it, and until `ProcessExit`
the others run on.

Correspondence, line scans. In `FileScan` `file_size` is the size main's `lstat`
put in the job and `seen` what the file held then; `room` is the size of the
buffer, from the worker's own `fstat`; `buf` is the memory from the start of the
buffer, so a store behind `room` is visible. `appended` says that others have
done nothing but append since main looked; `Rewrite` puts any text in place from
the `lstat` to the `fread`, after which nothing reads the file. `Read` may be
short, and what `malloc` returned is one of `Fresh`, a set of arbitrary functions
from the cells to bytes. `Line` is one turn of the loop, including the byte
`strtok_r` overwrites. In `FgetsScan` `Piece` is what one `fgets` with a buffer of
`file_size` bytes takes; a file of the modelled size reaches the stream with the
first `fgets`, so later changes are not seen.

A file may hold any byte. At a NUL the string functions stop: the threaded
program searches a file up to its first NUL, since `strtok_r` ends there; the
serial one searches every line up to the first NUL in it, since `strstr` does.
`CString` is that prefix, and `Visible` says that no NUL lies before a byte in its
line. `ReportsWhatMainSaw` and `Reported` are stated with them.

Correspondence, serial walk. `stack` holds the directories that are open, one
per active `helper_func`; `entry` and `stage` are the argument of the innermost
call and its place; `refused` are the entries without permission and `limit`
the number of descriptors, both chosen at the start. `opendir` failing is
reported and the call returns 0; `fopen` failing ends the process (`Exit`).

Correspondence, allocators. Addresses are offsets from `mem_heap`, which is page
aligned. In `Mm64` the memory is a function from word addresses to numbers; a
tag is `size + alloc` because sizes are multiples of 16, which is what `|`
computes. One call is one action: there is no other thread. `live` is what the
calling program holds and is never read by the allocator's part of an action.
`mm_malloc(0)`, the first `mm_malloc` that initialises, growth with and without
a free last block, failure and `errno` are all part of `Malloc`.
`Walk` is the walk over the headers of `find_fit` and `mm_checkheap`, for as many steps as
there can be blocks; it stays at the epilogue once it is there.
`mm_free(NULL)` changes nothing; `mm_realloc(p, 0)` is `Free(p)` and
`mm_realloc(NULL, n)` is `Malloc(n)`.
`mm_deinit` leaves `heap_listp` set; that there is no arena is `mem_brk = 0`, and
the program is assumed to call `mm_init` before it allocates again.

`ImplicitList` has the same actions on tags that are bit fields. Its
`prev_payload` reads one word below the footer it means (`header - DWORD_SIZE`),
so what `coalesce` does depends on the last word of the previous payload. The
model computes that as the code does, sets `misread` when the result is not the
previous block, and ends the behaviour with that call: what follows in the
program is reading and writing through corrupt tags, inside and outside the
arena. All other properties are about calls that were not misled. If the heap was
misled while it grew for an `mm_realloc`, the copy is not followed either.

`ExplicitList` keeps the links in the payload, where the program's data are as
well. A free block is linked to itself when it is alone; merged with a free right
neighbour it is linked through the second word of its payload, whatever the
program left there. `LinkBack` says where that store goes, and `health` how the
call ended: `sound`, `astray` (over another block) or a fault. A behaviour ends
with the first call that is not sound. `find_fit` goes along the links (`LinkWalk`)
until they lead to a block that is large enough or back to the prologue. `Fill` lets the program write zeros or
addresses of its own blocks.

Next to an action there may be a "seeded bug": a variant with a plausible
mistake. No specification uses them; for each property of each passing run
`PROJECT.json` names one that makes TLC report that property, so that
no property is satisfied vacuously.

## 3. Runs

| Run | Instance | What it shows |
|---|---|---|
| `ring` | 2 producers, 2 consumers, capacity 2, 2 jobs, 1 spurious wake-up; 480 thousand states | exclusion, ring shape, no lost wake-up on either side, refinement of the live queue |
| `greptile` | 2 workers, capacity 1, root with a file, a link and a subdirectory of two files, 1 removal, 1 spurious wake-up; 613 thousand states | ownership of paths, output, NULL jobs, safe destruction, exit status, correct use of the ring, termination |
| `searches` | texts of up to 5 bytes over two letters, the newline and the NUL, 2 rewrites, removal, three kinds of fresh memory; 3 nested directories with 4 files and a link, any permissions, 2 or 4 descriptors, 2 removals; 318 thousand states | terminator in the buffer and the lines main saw, as long as others only append; the lines the serial program prints of a file of several lines; each file searched once and what the status means; the three ends |
| `heaps` | 64-bit: arena of 224 bytes in chunks of 64, requests of 0, 16, 24, 72, data that look like a tag, 7 calls; bump: 7 pages of 32 bytes, requests up to 100, 6 blocks; 248 thousand states | tags, coalescing, no leak, the promise of malloc with contents, refusal only when nothing fits; alignment, the meaning of the count, no overlap before the second growth |
| `implicit` | arena of 192 bytes in chunks of 80, requests of 0, 16, 32, 136, two written values, 9 calls; 113 thousand states | tags, coalescing, no leak and the promise of malloc as long as the previous block is found |
| `explicit` | arena of 368 bytes in chunks of 160, requests of 16, 40, 64, blocks filled with zeros or addresses, 7 calls; 60 thousand states | tags, held blocks, self links, growth by half, exactly when `mm_free` follows the program's data, and the promise of malloc unless it does |
| `line_numbers`, `line_by_line`, `bump_inside`, `implicit_prev`, `explicit_list`, `explicit_free` | as above | counterexamples, section 5 |

The runs `searches` and `heaps` put sequential programs side by side that do not
interact. The initial state chooses one, and the others have no step: the set of
behaviours is the union of theirs, and each property speaks of its own variables.

Why the bounds are enough. Two threads per side are the least with which one
signal reaches the wrong kind of sleeper, a late caller overtakes, and two
sleepers compete; capacity 2 lets the indices differ and wrap, capacity 1 in
`greptile` makes main block often. The tree has a nested directory, files with
no, one and several matches and an entry that is no file. One spurious wake-up
and one removal can hit any point.

The texts of `searches` are 27 concatenations of at most five bytes: empty lines
before and between others, an unfinished last line, a pattern of two letters at
either end, one that straddles the last byte of the file, and a NUL before and
behind a match. Two rewrites let the file shrink after `lstat` and grow again
before `fread`, and turn any of the texts into any other. Fresh memory is full of
newlines, of NULs, or of matches. In the tree two descriptors are used
up by the second directory, so a file there cannot be opened and the directory
below it cannot be read; with four everything can.

In the heap the least block is 32 bytes, so a chunk of 64 holds two and a
48-byte block leaves a remainder of 16 that is not split off; all four cases
of `coalesce` occur, also after growth and in realloc; a 72-byte request needs two
chunks at once, or the free end of one and another. 16 bytes are the largest request
of the least block; 24 stands for 17 as well, both take 48 bytes with the tags and the
model's memory is made of words. In `implicit` the data values
32 and 48, written into the last word of a block of that size, lead
`prev_payload` to the right place; the run reaches sound heaps of two chunks with
three blocks, merges on both sides at once, growth behind a free last block and a
`realloc` that moves down from the second chunk. In `explicit` a first growth by
half leaves 80 bytes, of which 32, 64 and 80 bytes can be cut, with a remainder
and without; all four cases of `coalesce` were seen to happen, with links that are
sound and links that are not.

The allocators stop at the bound on calls (`MaxCalls`, `MaxBlocks`) and the
file and walk models end with the process, hence without deadlock checking; the
two concurrent runs check deadlock (in `ring` the callers can always call again
or are served, in `greptile` only the ended process stutters). `ring`'s clients
call as often as they like.

Fairness. In `SearchRing` weak fairness of each thread inside a call: the
scheduler runs a thread that can run. Nothing forces a call or a spurious
wake-up. Weak fairness of `Acquire` does not promise a contended mutex to a
particular thread, and no property asks for it: the queue promises that some
producer or consumer is served. In `Greptile` weak fairness of main, of each
worker and of a started `exit`. Termination needs no more, since every thread
releases the mutex and the stream lock after finitely many steps. In `FileScan`,
`FgetsScan` and `SerialWalk` weak fairness of the one process (`SearchesSpec` has all three, and
the two that are over have no step to be fair to); other processes
need not do anything.

## 4. Proofs

For every set of producers, consumers and jobs, every capacity above zero and
every number of spurious wake-ups, `SearchRingProofs` proves:

* `TypeCorrect`, `MutexProtects`, `RingSound`: the invariants `TypeOK`,
  `MutualExclusion`, `RingShape`;
* `QueueRefinement`: `SafeSpec => Queue!SafeSpec`, the safety half of
  `ImplementsQueue`;
* `NoJobForgotten`, `NoSpaceForgotten`: the invariants `JobWakeupsSuffice` and
  `SpaceWakeupsSuffice`.

Assumptions: `CapacityAssumption` (the capacity is positive), `RingAssumption`
(producers and consumers are different threads, `NoJob` and `Nobody` are outside
their sets) and `ThreadsAssumption` (finitely many threads).

The argument. `IInv` is the conjunction of the three invariants and `ArgsReady`:
a producer whose call has not stored yet carries a job. The last is needed
because `RingShape` says that occupied cells hold jobs and `Store` writes `arg`.
Each conjunct is preserved action by action. Only `Store` and `Fetch` touch the
ring. Their lemmas (`StoreCells`, `FetchCells`) rest on `CellFacts`, that the
occupied cells are distinct and distinct from the next free one, and on the
arithmetic of an index that wraps (`ModSmall`, `ModWraps`, `ModNext`). From
them `StoreAppends` and `FetchTakes` show that the contents, read off the array
from `dequeue_index` on, change exactly by `Append` and `Tail`, and `NextQueue`
maps every step to a step of the queue or a stutter.

The wake-ups are a count. While a consumer sleeps, `num_jobs` is at most the
number of consumers on their way to the test plus that of producers that have
yet to signal. `Store` raises both sides, `Fetch` lowers both, and a signal
exchanges the signaller for the thread it wakes; that this thread really
is on its way again needs `SleepersWait`, the fourth conjunct of `WInv`. All other
steps make the right side no smaller (`JobsNoWorse`, `SpaceNoWorse`).

`GreptileProofs` proves `RingUsed`, `Spec => UsesRing`, for every number of workers,
capacity and tree: each step of the program is a call of the ring, a step inside
it or leaves it alone. The theorems above speak of every behaviour of the ring's
`SafeSpec`, hence of the ring inside the program.

For the process the following is proved for every tree, every number of files,
matches and workers, every capacity of the ring, and any number of removals and
spurious wake-ups; each is an invariant of the run `greptile`.

| Theorem | Invariant |
|---|---|
| `TypeCorrect` | `TypeOK` |
| `RingUnusedWhenDestroyed` | `DestroyedRingUnused` |
| `SentinelsComeLast` | `NoFileAfterQuit` |
| `SentinelsMatchWorkers` | `OneSentinelEach` |
| `PathsOwned` | `PathOwnership` |
| `PrintedInBlocks` | `OutputUnbroken` |
| `StatusIsTrue` | `StatusTellsAll` |

Assumptions: `GreptileAssumption` (at least one worker and one cell, the kinds of
entries are disjoint, no entry is in two directories) and, for `StatusIsTrue` only,
`TreeAssumption`: every set of entries has one that lies in a directory outside
the set, so that everything is reached from the root. That is what a directory
tree is, stated without recursion; it takes the place of an induction over
the depth of the tree.

The argument is in layers, each inductive together with those before it.

* `Base`: the ring's invariant `WInv`, taken over from the ring's proofs by a second
  instance of the module (`RingFacts`; `SameRing` and `SameSteps` say that the
  two instances are the same); where the threads are in the ring and outside
  it; and that what a worker got from `rb_dequeue` is a job, and a file where it
  is used as one. `StoreStep` and `FetchStep` say that the ring's contents change by
  `Append` and `Tail`, and every other step leaves them alone.
* `JobsInOrder`: a NULL job anywhere (on offer, in the ring, in a worker's hands)
  tells that the walk is over, and behind it come only NULL jobs. Without the
  order inside the ring the claim about workers that have quit is not inductive.
* `Balance`: `OneSentinelEach` as an equation of every state, also of those before the
  walk is over, where all NULL jobs are unsent. It rests on counting the places
  of a value in a sequence (`PlacesAppend`, `PlacesTail`).
* `Tree(U)` and `OneOwner`: U is the set of entries that `readdir` has not
  returned. No variable of the program holds it, and it cannot be computed from
  the others, since a freed path leaves no trace; so the inductive invariant
  (`OwnersInv`) says that there is such a set, a step that returns an entry takes
  it out, and every other step keeps it.
* `Blocks` and `PrintedOnce(U)`: what the last block of the output lacks is what the
  worker between `flockfile` and `funlockfile` has still in its print queue;
  while nobody is there the last block is complete; no file printed is in U, in the
  ring or with a worker that has not begun to print.
* `Complete(U)`, `Found(U)`, `WorkerFlags`, `MainFlags`: a file of a directory that was
  found is in U only while it is still to be read or was removed; a file outside U
  has its path allocated or was printed to its last match; the flags of the
  workers and of `main` say who has printed. With status 0 or 1 nothing is
  allocated and nothing is unread, and `TreeAssumption` makes U hold removed
  entries only.

Before the proofs TLC checked every layer as an invariant of the instance of the
run `greptile`, with U ranging over all sets of entries.

`SerialWalkProofs` proves `EveryFileSearchedOnce`, the invariant `SearchedOnce` of
the run `searches`, for every tree, any permissions and removals and any number of
descriptors. Assumptions: `SerialWalkAssumption`, in particular finitely many
entries, and the `TreeAssumption` of that module. `WalkInv` has the same set U of
entries not yet returned, and `Chain`: the open directories are exactly those
above the entry at hand, so that the length of the recursion is the depth of
the entry (`DepthIsLength`, `EntryDepth`) and a full table of descriptors means an
entry that is too deep. The directories above an entry are the least set closed
upwards (`Path`); `PathRoot` and `PathKid` compute it without recursion. `NoneLeft` is
the last step: a file that was never returned would lie below a directory that
was passed over.

`BumpHeapProofs` proves the three invariants of that module, checked by the run `heaps`, for every arena,
page size and set of requests (`TypeCorrect`, `ApartAtFirst`, `CountTooHigh`),
from `MemLibAssumption` and `BumpAssumption`: a page fits into a `size_t` and two
pages into an `int`, without which the break would not move by what was asked.
`BelowPointer` is the strengthening: in the first page the count is right, and up to
the second growth everything handed out lies below `heap_ptr`. The count
modulo the width of a `size_t` rests on `SubtractWrapped`.

`LineScanProofs` proves the two invariants of `FileScan` and that of `FgetsScan`, checked
by the run `searches`, for every alphabet, pattern, set of texts, file size and number of
rewrites. A text is any sequence of bytes, NULs among them; the assumptions are
`TextAssumption` (newline, NUL and letters differ, the pattern is not empty and made
of letters) and `FileScanAssumption` (fresh memory holds bytes, any).

`TerminatorInBuffer` needs
`NotShorter`: between `lstat` and `fstat` a file that was only appended to is no
shorter than the size in the job. `LinesOfTheFile`, `Spec => []ReportsWhatMainSaw`,
needs `Search`. `Shown` is what main saw up to its first NUL (`CStringIs`). As long as
the file was only appended to and the buffer was filled, the bytes from `strtok_r`'s
position on are those of `Shown`, with a terminator behind them, which is either a NUL
of the file or the one the worker stored (`Intact`); the counter is the number of
non-empty lines begun before that position, and the queue holds the matching ones
among them (`ReportedSoFar`). `OccurrenceInToken` is why a search of one token
finds what the text has: an occurrence holds no newline, so it lies in one line.
`MatchingToken` turns that into the step of the loop. Lines are counted as the set
of their first bytes (`Starts`), hence no recursion.

`LinesPrinted`, `FgetsSpec => []Reported`, is about files of several lines that nobody has
touched. `FgetsInv` says that `fgets` stands at the beginning of a line, that
`line_number` is its number, and that what is printed is what is due up to there (`Due`).
A whole line fits into the buffer exactly because there is another one
(`LineTaken`), an occurrence that begins in a line ends in it (`OccurrenceInLine`),
and `strstr` finds it exactly if no NUL lies before it in the line (`LineShows`).

`Mm64Proofs` proves all five properties of `Mm64` in the run `heaps`, for every size of the
arena and of a chunk, any requests and any words the program writes.

| Theorem | Property |
|---|---|
| `HeapStaysTiled` | `HeapTiled` |
| `CoalescingIsComplete` | `NoFreeNeighbours` |
| `HeldBlocksAllocated` | `HeldBlocks` |
| `RefusalsJustified` | `RefusedOnlyIfFull` |
| `PromiseKept` | `KeepsPromise`: `Mm64` implements `Allocation` |

Assumptions: `MemLibAssumption`; `Mm64Assumption` (chunks and arena are whole double
words, a chunk holds a block, four words and a chunk fit into the arena, requests
are whole words, which is the unit of the model's memory); and
`GrowthAssumption`, that what the heap grows by fits into the `int` of `mem_sbrk`.
Without the last one the tags would record bytes the heap has not got. The
code's own values satisfy them: 4096 for the chunk, 4 MB for the arena (mem.c 15).

The properties speak of the blocks a walk over the headers finds, and a walk is
an awkward thing to keep through a step. `HeapInv`, the inductive invariant, says
instead that there is a set B of addresses, the prologue among them, which tiles
the heap (`Tiles`: both tags of a block agree, the next block begins where one
ends, every block but the first begins where one ends, no two overlap, the last
ends at the break), in which no two neighbours are free, and whose allocated
members are what the program holds (`Owns`). Each routine then is a statement
about sets of blocks: coalescing removes members, `place` may add one,
`extend_heap` adds one and coalesces.

* `Retile` is the lemma behind all of them: if the tags outside a stretch of the
  heap are unchanged and the stretch is filled by one block (`OneBlock`) or two
  (`TwoBlocks`), the new set tiles the heap. `MoreHeap` is the growth.
* `CoalesceGives`, `PlaceGives`, `ExtendGives`, `FreshHeapGives`: what `coalesce`, `place`,
  `extend_heap` and `mm_init` make of such a heap, for all four cases of `coalesce`, each
  with `Keeps`: the data of the blocks held are where they were. Tags are
  written one word at a time, a footer where the new header says it is;
  `TagsPut` and `CoalesceWrites` say which words that changes.
* `DataWritten`: what the program writes between the tags of its block leaves
  the tiling alone, whatever the words look like.
* `ObtainGives`, `ReallocGives`: `mm_malloc` and `mm_realloc` from these. `CopyArrives`: after the
  copy and the release of the old block the words both sizes have are in the
  new one.
* `WalkVisits`: in a tiled heap the walk finds every member of B and ends at the
  break, which turns `HeapInv` into the properties (`HeapInvSays`) and says that first
  fit misses no block (`FitFound`).
* `MallocRefines`, `FreeRefines`, `ReallocRefines`, `FillRefines`, `RestRefines`: the mapping to
  `Allocation`, one lemma per action. The addresses are apart because the blocks
  of B are (`HeldApart`); the contents are kept because of `Keeps` (`KnownKept`).

A walk is a recursive function. That such a function is defined is an induction;
the library's induction theorems cannot be instantiated here, but the
least element of a set of numbers can be had from well-foundedness (`FirstIs`), and
a least counterexample does the same work (`WalkIs`, `WalkVisits`).

`ImplicitListProofs` proves the four properties of the run `implicit`, again for every
arena, chunk, list of requests and whatever the program writes.

| Theorem | Property |
|---|---|
| `HeapStaysTiled` | `HeapTiled` |
| `CoalescingIsComplete` | `NoFreeNeighbours` |
| `HeldBlocksAllocated` | `HeldBlocks` |
| `PromiseKept` | `PromiseUnlessMisled` |

Together with the run `implicit_prev`, where `misread` does come true, they say that
`prev_payload` is the one fault of this allocator: a call in which it leads to
the previous block leaves a sound heap and keeps the promise. The argument is the
one above. `HeapInv` says what it says there while `misread` is false and
nothing once it is true; no call follows then. What differs:

* The code's `coalesce` asks `prev_payload` again after every write. The word it
  reads lies in the payload of the previous block, so the writes to the tags
  must be shown to miss it (`PreviousWritten`, in two steps because size and bit are
  stored one after the other), and the block that is returned is the one that
  was merged (`CoalesceWrites`).
* `Misled` compares `prev_payload` with the blocks a walk finds. `Neighbours` turns its
  negation into the member of B before the block; that is the only place
  where the way of finding the previous block matters.
* The growth and the release can be misled, so `ExtendGives`, `ObtainGives` and `FreedGives`
  have a third outcome, of which nothing is claimed (`Astray`).
* Blocks of the heap that are not held keep their tags but nothing is said of
  their data; a payload word that `prev_payload` takes for a size is arbitrary
  in every lemma.

The assumptions are those of `Mm64Proofs`, by the names of this module. `GrowthAssumption`
says here that chunk, start of the heap and adjusted requests are below 2^31:
from there on `MAX` compares negative numbers (mm.c 203).

`ExplicitListProofs` proves the six properties of the run `explicit`, again for every
arena, chunk, list of requests and whatever the program writes.

| Theorem | Property |
|---|---|
| `HeapStaysTiled` | `HeapTiled` |
| `HeldBlocksAllocated` | `HeldBlocks` |
| `ListStaysEmpty` | `LinkedToThemselves` |
| `HalfChunkSuffices` | `SmallRequestsServed` |
| `FreeFollowsOwnLinks` | `FreeSoundUnlessLinkIsData` |
| `PromiseKept` | `PromiseUnlessAstray` |

The assumptions are `MemLibAssumption`, `ExplicitListAssumption` (chunks and arena are
whole double words, the first heap fits, requests are whole words) and
`GrowthAssumption` (every growth fits into an `int`). All six follow from one
invariant. As long as `health` is `sound`, `HeapInv` says that there is a set B of
addresses such that

* `Tiles`: B tiles the heap. Only the sizes of the two tags of a block agree:
  `coalesce` changes the size alone in one of them, and after some merges header
  and footer differ in their allocated bits.
* `Tied`: the prologue and every block of B with a free header are linked to
  themselves. This is the part that is not in the other allocators, and the
  reason why this one works at all.
* `Owns`: the program holds the blocks of B that are allocated at both ends; a
  block allocated at one end only is free.

Once `health` is not `sound` it says only how that can be: `malloc faults` needs a
request above half a chunk. The argument:

* Because of `Tied`, `find_fit` is back at the prologue after one step and finds nothing
  (`NothingFits`), so each request grows the heap (`ObtainIs`), and removing a block
  from its list writes what is there already (`NothingToRemove`). A link never
  has to be followed into another block.
* What a routine does is stated as the stretch of words it changes
  (`SameOutside`): `OutsideSame` carries everything known of a block across,
  and `Retile` with `OneBlock` or `TwoBlocks` makes the new tiling.
* `MergeMadeInCases` is `coalesce` in its four cases, `LinkBack` included: the stray store is
  possible only when the right neighbour alone is free. `CoalesceGives` adds the
  link back; either the heap is sound, or `health` is not. `ExtendGives`, `PlaceGives`,
  `ObtainGives` and `ReallocGives` build on it. The remainder `place` splits off lies in
  front of the epilogue, so its merge is always sound.
* `DataWritten`: what the program writes stays between the tags of blocks that
  are allocated at both ends. `Tied` says nothing of those, so their links may be overwritten.
* `WalkVisits` and `BlocksAre` turn B into what a walk over the headers finds, and
  `HeapInvSays` into the properties.
* `FreeFollowsOwnLinks` says both directions: in the other three cases, or if the second word
  of the payload leads to the block or its free neighbour, the links `coalesce` follows are those
  of `Tied` and the heap stays sound (`FreeIsSound`); otherwise the store lands elsewhere.

The first attempt showed that `LinkBack`, written as a `CASE`, had guards that overlap:
a link of the block to itself is also an address of the heap, so which of the
two results it had was left to the choice of TLC. It is now a chain of
conditions.

Only model-checked: all liveness, `Termination` of the process and the ends of the
scans included, and `ImplementsQueue`'s fairness, which are outside the prover.

## 5. Disagreements between code and comments

Each has a run that checks what the comment says and fails.

* Explicit list allocator, `explicit_list`: "Newly freed blocks are inserted at the head of
  the free list, which allows for efficient allocation of recently freed memory"
  (mm.c 274, also 354 and 413). `add_merge_block_to_freelist` (121-134) links the block
  to itself: its stores go to the block's own links, or through its own `fnext`; the head
  of the list is never written.
  The head of the list leads to itself before and after (`FreedAtHead` fails with the
  first `mm_free`). What the code does instead is `LinkedToThemselves`, proved as `ListStaysEmpty`: no
  block is ever linked to another, so `find_fit` never finds one and every request
  grows the heap.
* Explicit list allocator, `explicit_free`: `mm_free` does not always add "it
  to the free list" (mm.c 334). When only the right neighbour is free, it stores
  through the second word of the payload, which is the program's. `FreeSoundUnlessLinkIsData` says
  when exactly.
* Multi-threaded scan, `line_numbers`: "line number where the match is found" (greptile.h
  57). `strtok_r` skips empty lines (greptile.c 228-240), so behind one the number is
  too low. `ReportsWhatMainSaw` says which number it is instead.
* Single-threaded scan, `line_by_line`: "file is read line by line and each line it checks
  if the pattern exist" (the single-threaded greptile.c 123-124). `fgets` is given
  `file_size` bytes (125), one too few for a file of a single line: its last byte is
  read as a line of its own, and a match that reaches to it is lost. A NUL in a line
  hides what follows it there. For files of several lines `Reported` says what is
  printed.
* Bump allocator, `bump_inside`: a block can end beyond the heap, although
  README.md 10 says the remaining space is checked. When the heap grows,
  `heap_ptr` jumps to the new area while `remaining_heap` still counts the
  rest of the old one (mm.c 63-69), so it is not "the amount of remaining space
  in the heap" (mm.c 14). `CountOffByAbandoned` says by how much the count is
  wrong, `ApartUntilSecondGrowth` until when this is harmless.
* Implicit list allocator, `implicit_prev`: `prev_payload` does not take one
  "to the previous payload in the heap" (mm.c 93). A word never written
  reads as size 0: a block is then its own previous block, free, and is tagged
  with twice its size. `PromiseUnlessMisled` and the other theorems of
  `ImplicitListProofs` show that this is the only fault.

Found while modelling; no comment says otherwise, or no state depends on it:

* Explicit list allocator: `extend_heap` gets half of the words
  needed, so a request above half a chunk finds itself in a block that is too
  small and writes its remainder's tags far outside. `SmallRequestsServed` says which
  requests are safe; the others are not claimed to be. After a merge with the right
  neighbour only, header and footer disagree about the allocation. `HeapTiled` leaves
  these bits out and `HeldBlocks` calls a block held if both say so: a freed block that
  keeps one of them is unusable, but so is every freed block of this allocator.
* 64-bit allocator: "user cannot request more than the allowable memory" (mm.c
  155), but such a request only sets `errno` and is then tried all the same.
* Multi-threaded scan: a file that
  shrinks between main's `lstat` and the worker's `fstat` gets its terminator
  stored outside its buffer; `StaysInBuffer` claims nothing of such a file.
* Single-threaded scan: a file of one byte keeps the loop running for ever
  (`fgets` with a size of 1). A directory that cannot be opened or read is passed over
  and the exit status is 0 all the same.

## 6. Plan

Done: every module of section 2, and a proof of every safety property a run checks. Next:

1. Failure paths of `main` in the multi-threaded greptile: a failing `malloc` (an
   exit, like the failures already modelled) and a failing `pthread_create`.

## 7. Not modelled

error.c and apue.h (message formatting), the file `c` (a listing no build
compiles), colours and layout of the output, test drivers (fixed sequences,
covered by the models' callers), failing `malloc` and pthread initialisation in
greptile, paths longer than MAXLINE and the unused counters in the
single-threaded one, the page protection and contents of memory outside the
arena, calls after `mm_deinit` without `mm_init`, requests of half the range of an
`int` or more, the printing of `mm_checkheap` (what it inspects is `HeapTiled`).

Narrower than the code, on purpose:

* The pattern is not empty and holds no newline; a command line can have both.
* `Greptile`: `main`'s usage errors and a root that cannot be looked at or opened (both
  end the process before a worker has a job), and the ways other than removal in which
  `lstat`, `opendir` or `fopen` can fail. All lead to the `error()` that a removal leads to.
* `ExplicitList`: the program writes zeros and addresses of its own blocks; other words
  behave like one or the other when followed. A link to the block's own payload counts as
  astray, although the store is harmless. `errno` (mm.c 294-296) is left out, nothing reads it;
  `ALIGN` (mm.c 141) is the identity on sizes that are multiples of 16.

Type invariants of the allocators other than `BumpHeap` are not stated: there
`HeapTiled` says more of the same variables.
