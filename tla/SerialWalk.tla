------------------------------ MODULE SerialWalk ------------------------------
(***************************************************************************)
(* The walk of single_threaded_pattern_matcher/greptile.c: main calls      *)
(* helper_func on the path of the command line, which calls itself on      *)
(* every entry of a directory while the directory stays open.  What a file *)
(* is opened for is FgetsScan's matter; here it is one step, which does    *)
(* not end for a file of one byte.                                         *)
(*                                                                         *)
(* Some entries cannot be opened, other processes remove entries during    *)
(* the walk, and the process may hold only so many descriptors.            *)
(***************************************************************************)
EXTENDS Integers, Sequences, FiniteSets

CONSTANTS
  Root,       \* the path on the command line
  Dirs,       \* the directories
  Files,      \* regular files with an allowed extension
  Others,     \* every other entry: other extensions, links, devices
  OneByte,    \* the members of Files that hold one byte
  Kids,       \* the entries of each directory
  Limits,     \* how many directories and files a process may hold open
  MaxVanish   \* bound: entries removed by others during the walk

Entries == Dirs \cup Files \cup Others

ASSUME SerialWalkAssumption ==
  /\ Root \in Entries /\ OneByte \subseteq Files
  /\ Dirs \cap Files = {} /\ Dirs \cap Others = {} /\ Files \cap Others = {}
  /\ Kids \in [Dirs -> SUBSET (Entries \ {Root})]
  /\ \A d, e \in Dirs : d # e => Kids[d] \cap Kids[e] = {}
  /\ IsFiniteSet(Entries)
  /\ Limits \subseteq Nat \ {0} /\ MaxVanish \in Nat

\* It is one tree: every entry is Root or below it.
ASSUME TreeAssumption ==
  \A S \in SUBSET (Entries \ {Root}) :
    S # {} => \E d \in Dirs \ S : Kids[d] \cap S # {}

VARIABLES
  refused,  \* entries the process has no permission to open
  limit,    \* how many it may hold open
  vanished, \* entries others have removed
  stack,    \* open directories, outermost first, with what readdir has still to return
  entry,    \* the argument of the innermost helper_func
  stage,    \* where that call is; "read" in the loop over the directory
  searched, \* files search_file has gone through, in order
  status    \* Running, or what the process ended with

walkVars == <<refused, limit, vanished, stack, entry, stage, searched, status>>

Running == -1

WalkInit ==
  /\ refused \in SUBSET (Dirs \cup Files) /\ limit \in Limits /\ vanished = {}
  /\ stack = <<>> /\ entry = Root /\ stage = "lstat" /\ searched = <<>> /\ status = Running

At(loc) == stage = loc /\ status = Running

\* Another process; a directory only once it is empty.
Vanish(e) ==
  /\ status = Running /\ e \notin vanished /\ Cardinality(vanished) < MaxVanish
  /\ e \in Dirs => Kids[e] \subseteq vanished
  /\ vanished' = vanished \cup {e}
  /\ UNCHANGED <<refused, limit, stack, entry, stage, searched, status>>

\* helper_func returns 0, to the loop of its caller or to main.
Return == stage' = "read" /\ UNCHANGED <<entry, stack, searched, status>>

\* exit_error
Exit == status' = 2 /\ UNCHANGED <<entry, stack, searched, stage>>

Goto(loc) == stage' = loc /\ UNCHANGED <<entry, stack, searched, status>>

\* What is gone, a link, or has another extension is passed over.
WalkLstat ==
  /\ At("lstat")
  /\ CASE entry \in vanished \cup Others -> Return
       [] entry \in Files \ vanished     -> Goto("search_file")
       [] entry \in Dirs \ vanished      -> Goto("opendir")
  /\ UNCHANGED <<refused, limit, vanished>>

Openable(e) == e \notin vanished \cup refused /\ Len(stack) < limit

\* The second lstat.
SearchFile ==
  /\ At("search_file")
  /\ IF entry \in vanished THEN Exit ELSE Goto("fopen")
  /\ UNCHANGED <<refused, limit, vanished>>

Fopen ==
  /\ At("fopen")
  /\ IF Openable(entry) THEN Goto("fgets") ELSE Exit
  /\ UNCHANGED <<refused, limit, vanished>>

\* Seeded bug: search_file's number of lines is taken for an error by the loop.
ScanBreaks ==
  /\ At("fgets") /\ entry \notin OneByte
  /\ searched' = Append(searched, entry)
  /\ stage' = "read" /\ stack' = [k \in DOMAIN stack |->
                                 IF k = Len(stack) THEN [stack[k] EXCEPT !.todo = {}] ELSE stack[k]]
  /\ UNCHANGED <<entry, status, refused, limit, vanished>>

\* The loop over the lines ends unless the file had one byte.
Scan ==
  /\ At("fgets") /\ entry \notin OneByte
  /\ searched' = Append(searched, entry) /\ stage' = "read"
  /\ UNCHANGED <<entry, stack, status, refused, limit, vanished>>

\* A directory that cannot be opened is reported and passed over.
Opendir ==
  /\ At("opendir") /\ stage' = "read"
  /\ stack' = IF Openable(entry) THEN Append(stack, [dir |-> entry, todo |-> Kids[entry]]) ELSE stack
  /\ UNCHANGED <<entry, searched, status, refused, limit, vanished>>

\* Seeded bug: "." is not skipped.
ReaddirSelf ==
  /\ At("read") /\ stack # <<>>
  /\ LET top == stack[Len(stack)] IN
     \E e \in top.todo \cup {top.dir} :
       /\ stack' = [stack EXCEPT ![Len(stack)].todo = @ \ {e}]
       /\ entry' = e /\ stage' = "lstat"
  /\ UNCHANGED <<searched, status, refused, limit, vanished>>

\* readdir need not return what has been removed.
Readdir ==
  /\ At("read") /\ stack # <<>>
  /\ \E e \in stack[Len(stack)].todo :
       /\ stack' = [stack EXCEPT ![Len(stack)].todo = @ \ {e}]
       /\ \/ entry' = e /\ stage' = "lstat"
          \/ e \in vanished /\ UNCHANGED <<entry, stage>>
  /\ UNCHANGED <<searched, status, refused, limit, vanished>>

\* The directory is read: closedir, and the call returns 0.
Closedir ==
  /\ At("read") /\ stack # <<>> /\ stack[Len(stack)].todo = {}
  /\ stack' = SubSeq(stack, 1, Len(stack) - 1)
  /\ UNCHANGED <<entry, stage, searched, status, refused, limit, vanished>>

\* main returns the result of the outermost call, which is 0.
MainReturns ==
  /\ At("read") /\ stack = <<>> /\ status' = 0
  /\ UNCHANGED <<entry, stage, stack, searched, refused, limit, vanished>>

WalkStep ==
  \/ WalkLstat \/ SearchFile \/ Fopen \/ Scan \/ Opendir \/ Readdir \/ Closedir \/ MainReturns

WalkNext == WalkStep \/ \E e \in Entries : Vanish(e)

\* The process is scheduled.
WalkSpec == WalkInit /\ [][WalkNext]_walkVars /\ WF_walkVars(WalkStep)
-----------------------------------------------------------------------------
(* Properties *)

\* An entry with the directories above it: what every set has that holds the
\* entry and, with anything, the directory it is in.
Upward(S) == \A d \in Dirs : Kids[d] \cap S # {} => d \in S
Path == [e \in Entries |->
           {a \in Entries : \A S \in SUBSET Entries : e \in S /\ Upward(S) => a \in S}]

\* What the walk passes over without a failure: what has been removed, lies
\* below a directory that may not be opened, or below more directories than
\* can be open at a time.
PassedOver(f) ==
  \/ Path[f] \cap (vanished \cup (refused \cap Dirs)) # {}
  \/ Cardinality(Path[f] \cap Dirs) > limit

\* A process that ends with 0 has searched every file it was to search, once,
\* apart from those it passed over; if it ends with 2, it could not open the
\* file it was at and has searched none twice (greptile.c:161-201, 228).
SearchedOnce ==
  /\ \A j, k \in DOMAIN searched : j # k => searched[j] # searched[k]
  /\ status = 0 => \A f \in Files \cap UNION {Kids[d] : d \in Dirs} :
                     PassedOver(f) \/ \E k \in DOMAIN searched : searched[k] = f
  /\ status = 2 => /\ entry \in Files /\ \A k \in DOMAIN searched : searched[k] # entry
                   /\ \/ entry \in vanished \cup refused
                      \/ Cardinality(Path[entry] \cap Dirs) = limit

\* The walk ends, whatever is removed or refused, unless it meets a file of
\* one byte (greptile.c:125, 185-195).
WalkEnds == <>(status # Running \/ (stage = "fgets" /\ entry \in OneByte))
=============================================================================
