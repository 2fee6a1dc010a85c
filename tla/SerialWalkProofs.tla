-------------------------- MODULE SerialWalkProofs --------------------------
(***************************************************************************)
(* Proofs about the walk of the single-threaded greptile, for every tree,  *)
(* every choice of what cannot be opened, every number of descriptors and  *)
(* whatever is removed meanwhile: the files it has searched and what its   *)
(* exit status says of the others.                                         *)
(***************************************************************************)
EXTENDS SerialWalk, TLAPS, SequenceTheorems, FiniteSetTheorems

Frames    == [dir : Dirs, todo : SUBSET Entries]
Locations == {"lstat", "search_file", "fopen", "fgets", "opendir", "read"}

\* A call of helper_func is at work on its argument.
Active == stage # "read"

OpenDirs     == {stack[k].dir : k \in 1 .. Len(stack)}
Unread(d, e) == \E k \in 1 .. Len(stack) : stack[k].dir = d /\ e \in stack[k].todo

\* Directory d was not read, and that was reported.
NotRead(d) == d \in vanished \cup refused \/ Cardinality(Path[d] \cap Dirs) > limit

\* What a call has in hand is what its place says it is; status 0 is returned
\* by main alone, status 2 at the file that could not be opened.
Base ==
  /\ refused \subseteq Dirs \cup Files /\ limit \in Nat /\ vanished \subseteq Entries
  /\ stack \in Seq(Frames) /\ entry \in Entries /\ stage \in Locations
  /\ searched \in Seq(Files) /\ status \in {Running, 0, 2}
  /\ stage \in {"search_file", "fopen", "fgets"} => entry \in Files
  /\ stage = "opendir" => entry \in Dirs
  /\ Len(stack) <= limit
  /\ status = 0 => stage = "read" /\ stack = <<>>
  /\ status = 2 => /\ stage \in {"search_file", "fopen"}
                   /\ entry \in vanished \cup refused \/ Len(stack) = limit

\* The open directories are those above the entry at hand.
Chain ==
  /\ \A k \in 1 .. Len(stack) : Path[stack[k].dir] = {stack[j].dir : j \in 1 .. k}
  /\ \A k, n \in 1 .. Len(stack) : stack[k].dir = stack[n].dir => k = n
  /\ Active => Path[entry] = {entry} \cup OpenDirs /\ entry \notin OpenDirs

\* U is the set of entries not yet returned by readdir: no file of it was
\* searched, and with a directory all that is below it is in U.
Tree(U) ==
  /\ entry \notin U /\ OpenDirs \cap U = {}
  /\ \A d \in Dirs : d \in U \/ (Active /\ d = entry) => Kids[d] \subseteq U
  /\ \A k \in 1 .. Len(stack) : stack[k].todo \subseteq Kids[stack[k].dir] \cap U
  /\ \A k \in 1 .. Len(searched) : searched[k] \notin U /\ (Active => searched[k] # entry)
  /\ \A j, k \in 1 .. Len(searched) : searched[j] = searched[k] => j = k

\* Whatever was returned is at hand, was dealt with, or was passed over.
Complete(U) ==
  /\ \A d \in Dirs \ U : \/ Active /\ d = entry
                         \/ NotRead(d)
                         \/ \A e \in Kids[d] : e \notin U \/ e \in vanished \/ Unread(d, e)
  /\ \A f \in Files \ U : \/ Active /\ f = entry
                          \/ f \in vanished
                          \/ \E k \in 1 .. Len(searched) : searched[k] = f

WalkInv == Base /\ Chain /\ \E U \in SUBSET (Entries \ {Root}) : Tree(U) /\ Complete(U)
-----------------------------------------------------------------------------
(* The directories above an entry.                                         *)

\* The path of an entry holds the entry, and the directory of all it holds.
LEMMA PathClosed ==
  ASSUME NEW e \in Entries
  PROVE  e \in Path[e] /\ Path[e] \subseteq Entries /\ Upward(Path[e])
<1>1. Path[e] = {a \in Entries : \A S \in SUBSET Entries : e \in S /\ Upward(S) => a \in S}
  BY DEF Path
<1>2. ASSUME NEW d \in Dirs, Kids[d] \cap Path[e] # {} PROVE d \in Path[e]
  <2>1. PICK a \in Kids[d] : a \in Path[e]
    BY <1>2
  <2>2. ASSUME NEW S \in SUBSET Entries, e \in S, Upward(S) PROVE d \in S
    BY <1>1, <2>1, <2>2 DEF Upward
  <2>3. d \in Entries
    BY DEF Entries
  <2> QED
    BY <1>1, <2>2, <2>3
<1> QED
  BY <1>1, <1>2 DEF Upward

\* It is the least such set.
LEMMA PathLeast ==
  ASSUME NEW e \in Entries, NEW S \in SUBSET Entries, e \in S, Upward(S)
  PROVE  Path[e] \subseteq S
  BY DEF Path

\* There is nothing above the path on the command line.
LEMMA PathRoot == Path[Root] = {Root}
<1>1. Root \in Entries /\ Upward({Root})
  BY SerialWalkAssumption DEF Upward
<1> QED
  BY <1>1, PathClosed, PathLeast

\* Above an entry of a directory are the directory and what is above it.
LEMMA PathKid ==
  ASSUME NEW d \in Dirs, NEW e \in Kids[d]
  PROVE  Path[e] = {e} \cup Path[d]
<1>1. d \in Entries /\ e \in Entries
  BY SerialWalkAssumption DEF Entries
<1>2. d \in Path[e]
  BY <1>1, PathClosed DEF Upward
<1>3. Path[d] \subseteq Path[e]
  BY <1>1, <1>2, PathClosed, PathLeast
<1>4. ASSUME NEW c \in Dirs, Kids[c] \cap ({e} \cup Path[d]) # {} PROVE c \in {e} \cup Path[d]
  <2>1. CASE e \in Kids[c]
    <3>1. c = d
      BY <2>1, SerialWalkAssumption
    <3> QED
      BY <1>1, <3>1, PathClosed
  <2>2. CASE Kids[c] \cap Path[d] # {}
    BY <1>1, <2>2, PathClosed DEF Upward
  <2> QED
    BY <1>4, <2>1, <2>2
<1>5. Upward({e} \cup Path[d]) /\ {e} \cup Path[d] \in SUBSET Entries
  BY <1>1, <1>4, PathClosed DEF Upward
<1>6. Path[e] \subseteq {e} \cup Path[d]
  BY <1>1, <1>5, PathLeast
<1> QED
  BY <1>1, <1>3, <1>6, PathClosed

\* The open directories are as many as the stack is long.
LEMMA DepthIsLength ==
  ASSUME Base, Chain
  PROVE  /\ OpenDirs \subseteq Dirs /\ IsFiniteSet(OpenDirs)
         /\ Cardinality(OpenDirs) = Len(stack)
<1> DEFINE n == Len(stack)
           f == [k \in 1 .. n |-> stack[k].dir]
<1>1. n \in Nat /\ \A k \in 1 .. n : stack[k] \in Frames
  BY LenProperties, ElementOfSeq DEF Base
<1>2. \A k \in 1 .. n : stack[k].dir \in Dirs
  BY <1>1 DEF Frames
<1>3. \A j, k \in 1 .. n : stack[j].dir = stack[k].dir => j = k
  BY DEF Chain
<1>4. OpenDirs = {stack[k].dir : k \in 1 .. n}
  BY DEF OpenDirs
<1> HIDE DEF n
<1>5. f \in [1 .. n -> OpenDirs]
  BY <1>4
<1>6. f \in Injection(1 .. n, OpenDirs)
  BY <1>3, <1>5 DEF Injection, IsInjective
<1>7. f \in Surjection(1 .. n, OpenDirs)
  BY <1>4, <1>5 DEF Surjection
<1>8. ExistsBijection(1 .. n, OpenDirs)
  BY <1>6, <1>7 DEF ExistsBijection, Bijection
<1>9. IsFiniteSet(1 .. n) /\ Cardinality(1 .. n) = n
  BY <1>1, FS_Interval
<1>10. IsFiniteSet(OpenDirs) /\ Cardinality(OpenDirs) = n
  BY <1>8, <1>9, FS_Bijection
<1> QED
  BY <1>2, <1>4, <1>10 DEF n
-----------------------------------------------------------------------------
(* What the steps do to the stack.                                         *)

\* The innermost open directory.
LEMMA TopFrame ==
  ASSUME Base, stack # <<>>
  PROVE  /\ Len(stack) \in Nat \ {0} /\ stack[Len(stack)] \in Frames
         /\ stack[Len(stack)].dir \in Dirs /\ stack[Len(stack)].todo \subseteq Entries
<1>1. Len(stack) \in Nat \ {0} /\ stack \in Seq(Frames)
  BY EmptySeq, LenProperties DEF Base
<1>2. stack[Len(stack)] \in Frames
  BY <1>1, ElementOfSeq
<1> QED
  BY <1>1, <1>2 DEF Frames

\* The open directories are directories, and what is still to be read is in
\* them.
LEMMA FrameTypes ==
  ASSUME Base
  PROVE  /\ Len(stack) \in Nat
         /\ \A k \in 1 .. Len(stack) : /\ stack[k] \in Frames
                                       /\ stack[k].dir \in Dirs /\ stack[k].todo \subseteq Entries
<1>1. Len(stack) \in Nat /\ stack \in Seq(Frames)
  BY LenProperties DEF Base
<1>2. \A k \in 1 .. Len(stack) : stack[k] \in Frames
  BY <1>1, ElementOfSeq
<1> QED
  BY <1>1, <1>2 DEF Frames

\* A frame without one of its entries is a frame.
LEMMA FrameLess ==
  \A f \in Frames : \A e : /\ [f EXCEPT !.todo = @ \ {e}] = [dir |-> f.dir, todo |-> f.todo \ {e}]
                            /\ [dir |-> f.dir, todo |-> f.todo \ {e}] \in Frames
<1> SUFFICES ASSUME NEW f \in Frames, NEW e
             PROVE  /\ [f EXCEPT !.todo = @ \ {e}] = [dir |-> f.dir, todo |-> f.todo \ {e}]
                    /\ [dir |-> f.dir, todo |-> f.todo \ {e}] \in Frames
  OBVIOUS
<1>1. PICK d \in Dirs, s \in SUBSET Entries : f = [dir |-> d, todo |-> s]
  BY DEF Frames
<1>2. f.dir = d /\ f.todo = s /\ [f EXCEPT !.todo = @ \ {e}] = [dir |-> d, todo |-> s \ {e}]
  BY <1>1
<1> QED
  BY <1>2 DEF Frames

AfterEntry(e) == [stack EXCEPT ![Len(stack)].todo = @ \ {e}]

\* readdir takes one entry from the innermost open directory.
LEMMA Taken ==
  ASSUME Base, stack # <<>>, NEW e
  PROVE  /\ AfterEntry(e) \in Seq(Frames) /\ Len(AfterEntry(e)) = Len(stack)
         /\ \A k \in 1 .. Len(stack) :
              /\ AfterEntry(e)[k].dir = stack[k].dir
              /\ AfterEntry(e)[k].todo
                   = IF k = Len(stack) THEN stack[k].todo \ {e} ELSE stack[k].todo
<1> DEFINE top == stack[Len(stack)]
           new == [dir |-> top.dir, todo |-> top.todo \ {e}]
<1>1. Len(stack) \in 1 .. Len(stack) /\ stack \in Seq(Frames) /\ top \in Frames
  BY TopFrame DEF Base
<1>2. new \in Frames /\ [top EXCEPT !.todo = @ \ {e}] = new
  BY <1>1, FrameLess
<1>3. AfterEntry(e) = [stack EXCEPT ![Len(stack)] = new]
  BY <1>1, <1>2 DEF AfterEntry
<1>4. new.dir = top.dir /\ new.todo = top.todo \ {e}
  OBVIOUS
<1> HIDE DEF new
<1>5. /\ [stack EXCEPT ![Len(stack)] = new] \in Seq(Frames)
      /\ Len([stack EXCEPT ![Len(stack)] = new]) = Len(stack)
      /\ \A k \in 1 .. Len(stack) :
           [stack EXCEPT ![Len(stack)] = new][k] = IF k = Len(stack) THEN new ELSE stack[k]
  BY <1>1, <1>2, ExceptSeq
<1> QED
  BY <1>3, <1>4, <1>5

\* opendir adds a frame with all the entries of the directory.
LEMMA Pushed ==
  ASSUME Base, entry \in Dirs,
         stack' = Append(stack, [dir |-> entry, todo |-> Kids[entry]])
  PROVE  /\ stack' \in Seq(Frames) /\ Len(stack') = Len(stack) + 1
         /\ \A k \in 1 .. Len(stack) : stack'[k] = stack[k]
         /\ stack'[Len(stack) + 1].dir = entry /\ stack'[Len(stack) + 1].todo = Kids[entry]
<1> DEFINE new == [dir |-> entry, todo |-> Kids[entry]]
<1>1. new \in Frames /\ stack \in Seq(Frames) /\ new.dir = entry /\ new.todo = Kids[entry]
  BY SerialWalkAssumption DEF Base, Frames
<1> HIDE DEF new
<1> QED
  BY <1>1, AppendProperties DEF new

\* closedir removes the last frame.
LEMMA Popped ==
  ASSUME Base, stack # <<>>, stack' = SubSeq(stack, 1, Len(stack) - 1)
  PROVE  /\ stack' \in Seq(Frames) /\ Len(stack') = Len(stack) - 1
         /\ \A k \in 1 .. Len(stack) - 1 : stack'[k] = stack[k]
<1> DEFINE n == Len(stack) - 1
<1>1. n \in Nat /\ n + 1 = Len(stack) /\ stack \in Seq(Frames)
  BY TopFrame DEF Base
<1>2. \A k \in 1 .. n : stack[k] \in Frames
  BY FrameTypes, <1>1
<1> HIDE DEF n
<1>3. /\ SubSeq(stack, 1, n) \in Seq(Frames) /\ Len(SubSeq(stack, 1, n)) = n
      /\ \A k \in 1 .. n : SubSeq(stack, 1, n)[k] = stack[k]
  BY <1>1, <1>2, SubSeqProperties
<1> QED
  BY <1>3 DEF n

-----------------------------------------------------------------------------
(* The start.                                                              *)

\* main calls helper_func on the path of the command line; nothing is open.
LEMMA InitWalk == WalkInit => WalkInv
<1> SUFFICES ASSUME WalkInit PROVE WalkInv
  OBVIOUS
<1>1. Base
  <2>1. stack = <<>> /\ searched = <<>> /\ Len(stack) = 0 /\ limit \in Nat
    BY SerialWalkAssumption DEF WalkInit
  <2>2. stack \in Seq(Frames) /\ searched \in Seq(Files)
    BY <2>1, EmptySeq
  <2>3. status = Running /\ Running # 0 /\ Running # 2
    BY DEF WalkInit, Running
  <2> QED
    BY <2>1, <2>2, <2>3, SerialWalkAssumption DEF WalkInit, Base, Locations
<1>2. Len(stack) = 0 /\ Len(searched) = 0 /\ OpenDirs = {}
  BY DEF WalkInit, OpenDirs
<1>3. Chain
  BY <1>2, PathRoot DEF WalkInit, Chain
<1> DEFINE U == Entries \ {Root}
<1>4. \A d \in Dirs : Kids[d] \subseteq U
  BY SerialWalkAssumption
<1>5. Tree(U)
  BY <1>2, <1>4 DEF WalkInit, Tree
<1>6. Complete(U)
  BY DEF WalkInit, Complete, Active, Entries
<1> QED
  BY <1>1, <1>3, <1>5, <1>6 DEF WalkInv
-----------------------------------------------------------------------------
(* Every step keeps the invariant.                                         *)

\* The types and places.
LEMMA NextBase == Base /\ [WalkNext]_walkVars => Base'
<1> SUFFICES ASSUME Base, [WalkNext]_walkVars PROVE Base'
  OBVIOUS
<1> USE DEF Base
<1>1. /\ Len(stack) \in Nat /\ Running # 0 /\ Running # 2
      /\ \A d \in Dirs : Kids[d] \subseteq Entries /\ d \in Entries
  BY FrameTypes, SerialWalkAssumption DEF Running, Entries
<1>2. CASE WalkLstat
  BY <1>1, <1>2, SerialWalkAssumption
     DEF WalkLstat, At, Return, Goto, Entries, Locations, Running
<1>3. CASE SearchFile
  BY <1>1, <1>3 DEF SearchFile, At, Goto, Exit, Locations
<1>4. CASE Fopen
  BY <1>1, <1>4 DEF Fopen, At, Goto, Exit, Openable, Locations
<1>5. CASE Scan
  <2>1. searched' \in Seq(Files)
    BY <1>5, AppendProperties DEF Scan, At
  <2> QED
    BY <1>1, <1>5, <2>1 DEF Scan, At, Locations
<1>6. CASE Opendir
  <2>1. CASE Openable(entry)
    <3>1. stack' \in Seq(Frames) /\ Len(stack') = Len(stack) + 1
      BY <1>6, <2>1, Pushed DEF Opendir, At
    <3> QED
      BY <1>1, <1>6, <2>1, <3>1 DEF Opendir, At, Openable, Locations
  <2>2. CASE ~Openable(entry)
    BY <1>1, <1>6, <2>2 DEF Opendir, At, Locations
  <2> QED
    BY <2>1, <2>2
<1>7. CASE Readdir
  <2>1. PICK e \in stack[Len(stack)].todo :
          /\ stack' = AfterEntry(e)
          /\ \/ entry' = e /\ stage' = "lstat"
             \/ UNCHANGED <<entry, stage>>
    BY <1>7 DEF Readdir, AfterEntry
  <2>2. e \in Entries /\ stack' \in Seq(Frames) /\ Len(stack') = Len(stack)
    BY <1>7, <2>1, TopFrame, Taken DEF Readdir
  <2> QED
    BY <1>1, <1>7, <2>1, <2>2 DEF Readdir, At, Locations
<1>8. CASE Closedir
  <2>1. stack' \in Seq(Frames) /\ Len(stack') = Len(stack) - 1
    BY <1>8, Popped DEF Closedir
  <2> QED
    BY <1>1, <1>8, <2>1 DEF Closedir, At, Locations
<1>9. CASE MainReturns
  BY <1>1, <1>9 DEF MainReturns, At
<1>10. ASSUME NEW e \in Entries, Vanish(e) PROVE Base'
  BY <1>1, <1>10 DEF Vanish
<1>11. CASE UNCHANGED walkVars
  BY <1>11 DEF walkVars
<1> QED
  BY <1>2, <1>3, <1>4, <1>5, <1>6, <1>7, <1>8, <1>9, <1>10, <1>11 DEF WalkNext, WalkStep

\* What a step does to the walk, apart from the places inside a call.
Stays     == /\ UNCHANGED <<refused, limit, stack, entry, searched>>
             /\ vanished \subseteq vanished' /\ (Active' <=> Active)
Passes    == /\ UNCHANGED <<refused, limit, vanished, stack, entry, searched>>
             /\ Active /\ ~Active'
             /\ entry \in vanished \cup Others \/ (entry \in Dirs /\ ~Openable(entry))
Searches  == /\ UNCHANGED <<refused, limit, vanished, stack, entry>>
             /\ Active /\ ~Active' /\ entry \in Files /\ searched' = Append(searched, entry)
Opens     == /\ UNCHANGED <<refused, limit, vanished, entry, searched>>
             /\ Active /\ ~Active' /\ entry \in Dirs
             /\ stack' = Append(stack, [dir |-> entry, todo |-> Kids[entry]])
Takes(e)  == /\ UNCHANGED <<refused, limit, vanished, searched>>
             /\ stack # <<>> /\ e \in stack[Len(stack)].todo /\ stack' = AfterEntry(e)
             /\ ~Active /\ Active' /\ entry' = e
Skips(e)  == /\ UNCHANGED <<refused, limit, vanished, entry, searched>>
             /\ stack # <<>> /\ e \in vanished /\ stack' = AfterEntry(e)
             /\ ~Active /\ ~Active'
Closes    == /\ UNCHANGED <<refused, limit, vanished, entry, searched>>
             /\ stack # <<>> /\ stack[Len(stack)].todo = {}
             /\ stack' = SubSeq(stack, 1, Len(stack) - 1)
             /\ ~Active /\ ~Active'

\* Every step is one of these.
LEMMA StepKinds ==
  ASSUME Base, [WalkNext]_walkVars
  PROVE  \/ Stays \/ Passes \/ Searches \/ Opens \/ Closes
         \/ \E e \in Entries : Takes(e) \/ Skips(e)
<1> USE DEF Active
<1>1. CASE WalkLstat
  <2>1. CASE entry \in vanished \cup Others
    <3>1. Return
      BY <1>1, <2>1, SerialWalkAssumption DEF WalkLstat
    <3> QED
      BY <1>1, <2>1, <3>1 DEF WalkLstat, At, Return, Passes
  <2>2. CASE entry \notin vanished \cup Others
    <3>1. Goto("search_file") \/ Goto("opendir")
      BY <1>1, <2>2, SerialWalkAssumption DEF Base, WalkLstat, Entries
    <3> QED
      BY <1>1, <3>1 DEF WalkLstat, At, Goto, Stays
  <2> QED
    BY <2>1, <2>2
<1>2. CASE SearchFile \/ Fopen
  BY <1>2 DEF SearchFile, Fopen, At, Goto, Exit, Stays
<1>3. CASE Scan
  BY <1>3 DEF Base, Scan, At, Searches
<1>4. CASE Opendir
  BY <1>4 DEF Base, Opendir, At, Opens, Passes
<1>5. CASE Readdir
  <2>1. PICK e \in stack[Len(stack)].todo :
          /\ stack' = AfterEntry(e)
          /\ \/ entry' = e /\ stage' = "lstat"
             \/ e \in vanished /\ UNCHANGED <<entry, stage>>
    BY <1>5 DEF Readdir, AfterEntry
  <2>2. e \in Entries
    BY <1>5, TopFrame DEF Readdir
  <2> QED
    BY <1>5, <2>1, <2>2 DEF Readdir, At, Takes, Skips
<1>6. CASE Closedir
  BY <1>6 DEF Closedir, At, Closes
<1>7. CASE MainReturns \/ UNCHANGED walkVars
  BY <1>7 DEF MainReturns, At, walkVars, Stays
<1>8. ASSUME NEW e \in Entries, Vanish(e) PROVE Stays
  BY <1>8 DEF Vanish, Stays
<1> QED
  BY <1>1, <1>2, <1>3, <1>4, <1>5, <1>6, <1>7, <1>8 DEF WalkNext, WalkStep
\* readdir returns entries of the innermost directory that were not returned
\* before.
LEMMA Fresh ==
  ASSUME Base, NEW U \in SUBSET (Entries \ {Root}), Tree(U), stack # <<>>,
         NEW e \in stack[Len(stack)].todo
  PROVE  /\ e \in U /\ e \in Kids[stack[Len(stack)].dir]
         /\ \A d \in Dirs : e \in Kids[d] => d = stack[Len(stack)].dir
         /\ stack[Len(stack)].dir \in OpenDirs
<1>1. Len(stack) \in 1 .. Len(stack) /\ stack[Len(stack)].dir \in Dirs
  BY TopFrame
<1>2. e \in U /\ e \in Kids[stack[Len(stack)].dir]
  BY <1>1 DEF Tree
<1>3. \A d \in Dirs : e \in Kids[d] => d = stack[Len(stack)].dir
  BY <1>1, <1>2, SerialWalkAssumption
<1> QED
  BY <1>1, <1>2, <1>3 DEF OpenDirs

\* The same directories are open after readdir.
LEMMA SameDirs ==
  ASSUME Base, stack # <<>>, NEW e, stack' = AfterEntry(e)
  PROVE  /\ Len(stack') = Len(stack) /\ OpenDirs' = OpenDirs
         /\ \A k \in 1 .. Len(stack) : stack'[k].dir = stack[k].dir
<1>1. /\ Len(stack') = Len(stack)
      /\ \A k \in 1 .. Len(stack) : stack'[k].dir = stack[k].dir
  BY Taken
<1>2. {stack'[k].dir : k \in 1 .. Len(stack')} = {stack[k].dir : k \in 1 .. Len(stack)}
  BY <1>1
<1> QED
  BY <1>1, <1>2 DEF OpenDirs

\* The stack follows the tree.
LEMMA NextChain ==
  ASSUME Base, Chain, NEW U \in SUBSET (Entries \ {Root}), Tree(U), [WalkNext]_walkVars
  PROVE  Chain'
<1>1. Len(stack) \in Nat
  BY FrameTypes
<1>2. CASE Stays \/ Passes \/ Searches
  <2>1. stack' = stack /\ OpenDirs' = OpenDirs /\ entry' = entry /\ (Active' => Active)
    BY <1>2 DEF Stays, Passes, Searches, OpenDirs
  <2>2. \A k \in 1 .. Len(stack') : Path[stack'[k].dir] = {stack'[j].dir : j \in 1 .. k}
    BY <2>1 DEF Chain
  <2>3. \A k, n \in 1 .. Len(stack') : stack'[k].dir = stack'[n].dir => k = n
    BY <2>1 DEF Chain
  <2>4. Active' => Path[entry'] = {entry'} \cup OpenDirs' /\ entry' \notin OpenDirs'
    BY <2>1 DEF Chain
  <2> QED
    BY <2>2, <2>3, <2>4 DEF Chain
<1>3. CASE Opens
  <2> DEFINE n == Len(stack)
  <2>1. /\ Len(stack') = n + 1 /\ stack'[n + 1].dir = entry
        /\ \A k \in 1 .. n : stack'[k] = stack[k]
    BY <1>3, Pushed DEF Opens
  <2>2. Active /\ ~Active'
    BY <1>3 DEF Opens
  <2>3. Path[entry] = {entry} \cup OpenDirs /\ entry \notin OpenDirs
    BY <2>2 DEF Chain
  <2>4. ASSUME NEW k \in 1 .. n + 1
        PROVE  Path[stack'[k].dir] = {stack'[j].dir : j \in 1 .. k}
    <3>1. CASE k = n + 1
      <4>1. {stack'[j].dir : j \in 1 .. k} = {stack[j].dir : j \in 1 .. n} \cup {entry}
        BY <1>1, <2>1, <3>1
      <4> QED
        BY <2>1, <2>3, <3>1, <4>1 DEF OpenDirs
    <3>2. CASE k \in 1 .. n
      <4>1. {stack'[j].dir : j \in 1 .. k} = {stack[j].dir : j \in 1 .. k}
        BY <1>1, <2>1, <3>2
      <4> QED
        BY <2>1, <3>2, <4>1 DEF Chain
    <3> QED
      BY <1>1, <3>1, <3>2
  <2>5. ASSUME NEW k \in 1 .. n + 1, NEW m \in 1 .. n + 1, stack'[k].dir = stack'[m].dir
        PROVE  k = m
    <3>1. CASE k = n + 1 \/ m = n + 1
      BY <1>1, <2>1, <2>3, <2>5, <3>1 DEF OpenDirs
    <3>2. CASE k \in 1 .. n /\ m \in 1 .. n
      BY <2>1, <2>5, <3>2 DEF Chain
    <3> QED
      BY <1>1, <3>1, <3>2
  <2> QED
    BY <2>1, <2>2, <2>4, <2>5 DEF Chain
<1>4. ASSUME NEW e \in Entries, Takes(e) PROVE Chain'
  <2> DEFINE top == stack[Len(stack)].dir
  <2>1. /\ Len(stack') = Len(stack) /\ OpenDirs' = OpenDirs
        /\ \A k \in 1 .. Len(stack) : stack'[k].dir = stack[k].dir
    BY <1>4, SameDirs DEF Takes
  <2>2. /\ e \in U /\ e \in Kids[top] /\ top \in Dirs /\ Len(stack) \in 1 .. Len(stack)
        /\ entry' = e /\ OpenDirs \cap U = {}
    BY <1>4, Fresh, TopFrame DEF Takes, Tree
  <2>3. Path[top] = OpenDirs
    BY <2>2 DEF Chain, OpenDirs
  <2>4. Path[e] = {e} \cup OpenDirs /\ e \notin OpenDirs
    BY <2>2, <2>3, PathKid
  <2>5. ASSUME NEW k \in 1 .. Len(stack)
        PROVE  {stack'[j].dir : j \in 1 .. k} = {stack[j].dir : j \in 1 .. k}
    BY <1>1, <2>1
  <2> QED
    BY <2>1, <2>2, <2>4, <2>5 DEF Chain
<1>5. ASSUME NEW e \in Entries, Skips(e) PROVE Chain'
  <2>1. /\ Len(stack') = Len(stack) /\ ~Active'
        /\ \A k \in 1 .. Len(stack) : stack'[k].dir = stack[k].dir
    BY <1>5, SameDirs DEF Skips
  <2>2. ASSUME NEW k \in 1 .. Len(stack)
        PROVE  {stack'[j].dir : j \in 1 .. k} = {stack[j].dir : j \in 1 .. k}
    BY <1>1, <2>1
  <2> QED
    BY <2>1, <2>2 DEF Chain
<1>6. CASE Closes
  <2>1. /\ Len(stack') = Len(stack) - 1 /\ ~Active'
        /\ \A k \in 1 .. Len(stack) - 1 : stack'[k] = stack[k]
    BY <1>6, Popped DEF Closes
  <2>2. ASSUME NEW k \in 1 .. Len(stack) - 1
        PROVE  {stack'[j].dir : j \in 1 .. k} = {stack[j].dir : j \in 1 .. k}
    BY <1>1, <2>1
  <2>3. ASSUME NEW k \in 1 .. Len(stack) - 1
        PROVE  k \in 1 .. Len(stack) /\ stack'[k].dir = stack[k].dir
    BY <1>1, <2>1
  <2>4. \A k \in 1 .. Len(stack) - 1 : Path[stack'[k].dir] = {stack'[j].dir : j \in 1 .. k}
    BY <2>2, <2>3 DEF Chain
  <2>5. \A k, n \in 1 .. Len(stack) - 1 : stack'[k].dir = stack'[n].dir => k = n
    BY <2>3 DEF Chain
  <2> QED
    BY <2>1, <2>4, <2>5 DEF Chain
<1> QED
  BY <1>2, <1>3, <1>4, <1>5, <1>6, StepKinds
\* Steps that return no entry.
Keeps == Stays \/ Passes \/ Searches \/ Opens \/ Closes \/ \E e \in Entries : Skips(e)

\* No file is returned, and so none is searched, a second time.
LEMMA NextTree ==
  ASSUME Base, Chain, NEW U \in SUBSET (Entries \ {Root}), Tree(U)
  PROVE  /\ Keeps => Tree(U)'
         /\ \A e \in Entries : Takes(e) => Tree(U \ {e})'
<1>1. Len(stack) \in Nat /\ Len(searched) \in Nat /\ searched \in Seq(Files)
  BY FrameTypes, LenProperties DEF Base
<1>3. ASSUME Stays \/ Passes PROVE Tree(U)'
  <2>1. UNCHANGED <<stack, entry, searched>> /\ (Active' => Active) /\ OpenDirs' = OpenDirs
    BY <1>3 DEF Stays, Passes, OpenDirs
  <2> QED
    BY <2>1 DEF Tree
<1>4. ASSUME Searches PROVE Tree(U)'
  <2>1. /\ Len(searched') = Len(searched) + 1 /\ searched'[Len(searched) + 1] = entry
        /\ \A k \in 1 .. Len(searched) : searched'[k] = searched[k]
    BY <1>1, <1>4, AppendProperties DEF Searches
  <2>2. UNCHANGED <<stack, entry>> /\ Active /\ ~Active' /\ OpenDirs' = OpenDirs
    BY <1>4 DEF Searches, OpenDirs
  <2>3. \A k \in 1 .. Len(searched) : searched'[k] \notin U /\ searched'[k] # entry
    BY <2>1, <2>2 DEF Tree
  <2>4. \A k \in 1 .. Len(searched') :
          k \in 1 .. Len(searched) \/ (k = Len(searched) + 1 /\ searched'[k] = entry)
    BY <1>1, <2>1
  <2>5. \A k \in 1 .. Len(searched') : searched'[k] \notin U
    BY <2>3, <2>4 DEF Tree
  <2>6. \A j, k \in 1 .. Len(searched') : searched'[j] = searched'[k] => j = k
    BY <2>1, <2>3, <2>4 DEF Tree
  <2> QED
    BY <2>2, <2>5, <2>6 DEF Tree
<1>5. ASSUME Opens PROVE Tree(U)'
  <2> DEFINE n == Len(stack)
  <2>1. /\ Len(stack') = n + 1 /\ stack'[n + 1].dir = entry /\ stack'[n + 1].todo = Kids[entry]
        /\ \A k \in 1 .. n : stack'[k] = stack[k]
    BY <1>5, Pushed DEF Opens
  <2>2. UNCHANGED <<entry, searched>> /\ Active /\ ~Active' /\ entry \in Dirs
    BY <1>5 DEF Opens
  <2>3. entry \notin U /\ Kids[entry] \subseteq U
    BY <2>2 DEF Tree
  <2>4. \A k \in 1 .. n + 1 : k \in 1 .. n \/ k = n + 1
    BY <1>1
  <2>5. \A k \in 1 .. n + 1 : stack'[k].dir \notin U
    BY <2>1, <2>3, <2>4 DEF Tree, OpenDirs
  <2>6. \A k \in 1 .. n + 1 : stack'[k].todo \subseteq Kids[stack'[k].dir] \cap U
    BY <2>1, <2>3, <2>4 DEF Tree
  <2>7. (OpenDirs \cap U = {})'
    BY <2>1, <2>5 DEF OpenDirs
  <2> QED
    BY <2>1, <2>2, <2>6, <2>7 DEF Tree
<1>6. ASSUME Closes PROVE Tree(U)'
  <2>1. /\ Len(stack') = Len(stack) - 1 /\ ~Active /\ ~Active' /\ UNCHANGED <<entry, searched>>
        /\ \A k \in 1 .. Len(stack) - 1 : stack'[k] = stack[k] /\ k \in 1 .. Len(stack)
    BY <1>1, <1>6, Popped DEF Closes
  <2>2. (OpenDirs \cap U = {})'
    BY <2>1 DEF OpenDirs, Tree
  <2> QED
    BY <2>1, <2>2 DEF Tree
<1>7. ASSUME NEW e \in Entries, Skips(e) PROVE Tree(U)'
  <2>0. stack # <<>> /\ stack' = AfterEntry(e)
    BY <1>7 DEF Skips
  <2>4. \A k \in 1 .. Len(stack) :
          stack'[k].todo = IF k = Len(stack) THEN stack[k].todo \ {e} ELSE stack[k].todo
    BY <2>0, Taken
  <2>1. /\ Len(stack') = Len(stack) /\ OpenDirs' = OpenDirs
        /\ \A k \in 1 .. Len(stack) : /\ stack'[k].dir = stack[k].dir
                                      /\ stack'[k].todo \subseteq stack[k].todo
    BY <2>0, <2>4, SameDirs
  <2>2. ~Active /\ ~Active' /\ UNCHANGED <<entry, searched>>
    BY <1>7 DEF Skips
  <2> QED
    BY <2>1, <2>2 DEF Tree
<1>8. ASSUME NEW e \in Entries, Takes(e) PROVE Tree(U \ {e})'
  <2> DEFINE V == U \ {e}
             top == stack[Len(stack)].dir
  <2>1. /\ Len(stack') = Len(stack) /\ OpenDirs' = OpenDirs
        /\ \A k \in 1 .. Len(stack) :
             /\ stack'[k].dir = stack[k].dir
             /\ stack'[k].todo = IF k = Len(stack) THEN stack[k].todo \ {e} ELSE stack[k].todo
    BY <1>8, SameDirs, Taken DEF Takes
  <2>2. ~Active /\ Active' /\ entry' = e /\ searched' = searched
    BY <1>8 DEF Takes
  <2>3. /\ e \in U /\ top \in OpenDirs /\ top \notin U /\ Len(stack) \in 1 .. Len(stack)
        /\ \A d \in Dirs : e \in Kids[d] => d = top
    BY <1>8, Fresh, TopFrame DEF Takes, Tree
  <2>4. \A d \in Dirs : d \in U => Kids[d] \subseteq V
    BY <2>3 DEF Tree
  <2>5. \A k \in 1 .. Len(stack) : stack'[k].todo \subseteq Kids[stack'[k].dir] \cap V
    <3> SUFFICES ASSUME NEW k \in 1 .. Len(stack)
                 PROVE  stack'[k].todo \subseteq Kids[stack[k].dir] \cap V
      BY <2>1
    <3>1. stack[k].todo \subseteq Kids[stack[k].dir] \cap U /\ stack[k].dir \in Dirs
      BY FrameTypes DEF Tree
    <3>2. e \in stack[k].todo => k = Len(stack)
      BY <2>3, <3>1 DEF Chain
    <3> QED
      BY <2>1, <3>1, <3>2
  <2>6. \A k \in 1 .. Len(searched) : searched[k] \notin V /\ searched[k] # e
    BY <2>3 DEF Tree
  <2>7. \A j, k \in 1 .. Len(searched) : searched[j] = searched[k] => j = k
    BY DEF Tree
  <2>8. e \notin V /\ OpenDirs \cap V = {}
    BY DEF Tree
  <2>9. \A d \in Dirs : d \in V \/ d = e => Kids[d] \subseteq V
    BY <2>3, <2>4
  <2> HIDE DEF V
  <2>10. Tree(V)'
    BY <2>1, <2>2, <2>5, <2>6, <2>7, <2>8, <2>9 DEF Tree
  <2> QED
    BY <2>10 DEF V
<1> QED
  BY <1>3, <1>4, <1>5, <1>6, <1>7, <1>8 DEF Keeps
\* An open directory is as deep as the stack is long, the entry at hand one
\* below the innermost.
LEMMA EntryDepth ==
  ASSUME Base, Chain, Active
  PROVE  Cardinality(Path[entry] \cap Dirs)
           = Len(stack) + (IF entry \in Dirs THEN 1 ELSE 0)
<1>1. /\ OpenDirs \subseteq Dirs /\ IsFiniteSet(OpenDirs) /\ Cardinality(OpenDirs) = Len(stack)
      /\ Len(stack) \in Nat
  BY DepthIsLength, FrameTypes
<1>2. Path[entry] = {entry} \cup OpenDirs /\ entry \notin OpenDirs
  BY DEF Chain
<1>3. CASE entry \in Dirs
  <2>1. Path[entry] \cap Dirs = OpenDirs \cup {entry}
    BY <1>1, <1>2, <1>3
  <2>2. Cardinality(OpenDirs \cup {entry}) = Len(stack) + 1
    BY <1>1, <1>2, FS_AddElement
  <2> QED
    BY <1>3, <2>1, <2>2
<1>4. CASE entry \notin Dirs
  <2>1. Path[entry] \cap Dirs = OpenDirs
    BY <1>1, <1>2, <1>4
  <2>2. Cardinality(Path[entry] \cap Dirs) = Cardinality(OpenDirs)
    BY <2>1, Zenon
  <2>3. Len(stack) = Len(stack) + 0
    BY <1>1
  <2> QED
    BY <1>1, <1>4, <2>2, <2>3
<1> QED
  BY <1>3, <1>4

\* A directory that is not opened cannot be read.
LEMMA NotOpened ==
  ASSUME Base, Chain, Active, entry \in Dirs, ~Openable(entry)
  PROVE  NotRead(entry)
  BY EntryDepth, FrameTypes DEF Base, NotRead, Openable

\* What readdir returned is at hand, dealt with, or passed over.
LEMMA NextComplete ==
  ASSUME Base, Chain, NEW U \in SUBSET (Entries \ {Root}), Tree(U), Complete(U)
  PROVE  /\ Keeps => Complete(U)'
         /\ \A e \in Entries : Takes(e) => Complete(U \ {e})'
<1>1. Len(stack) \in Nat /\ Len(searched) \in Nat /\ searched \in Seq(Files)
  BY FrameTypes, LenProperties DEF Base
<1>2. ASSUME Stays PROVE Complete(U)'
  BY <1>2 DEF Stays, Complete, NotRead, Unread
<1>3. ASSUME Passes PROVE Complete(U)'
  <2>1. /\ UNCHANGED <<refused, limit, vanished, stack, entry, searched>> /\ ~Active'
        /\ entry \in vanished \cup Others \/ (entry \in Dirs /\ NotRead(entry))
    BY <1>3, NotOpened DEF Passes
  <2>2. entry \in Dirs => NotRead(entry)
    BY <2>1, SerialWalkAssumption DEF NotRead
  <2>3. entry \in Files => entry \in vanished
    BY <2>1, SerialWalkAssumption
  <2>4. (\A d, e : Unread(d, e)' <=> Unread(d, e)) /\ (\A d : NotRead(d)' <=> NotRead(d))
    BY <2>1 DEF NotRead, Unread
  <2>5. \A d \in Dirs \ U : NotRead(d)' \/ \A e \in Kids[d] : e \notin U \/ e \in vanished' \/ Unread(d, e)'
    BY <2>1, <2>2, <2>4 DEF Complete
  <2>6. \A f \in Files \ U : f \in vanished' \/ \E k \in 1 .. Len(searched') : searched'[k] = f
    BY <2>1, <2>3 DEF Complete
  <2> QED
    BY <2>5, <2>6 DEF Complete
<1>4. ASSUME Searches PROVE Complete(U)'
  <2>1. /\ Len(searched') = Len(searched) + 1 /\ searched'[Len(searched) + 1] = entry
        /\ \A k \in 1 .. Len(searched) : searched'[k] = searched[k]
    BY <1>1, <1>4, AppendProperties DEF Searches
  <2>2. /\ UNCHANGED <<refused, limit, vanished, stack, entry>> /\ ~Active'
        /\ entry \in Files /\ entry \notin Dirs
    BY <1>4, SerialWalkAssumption DEF Searches
  <2>3. Len(searched) + 1 \in 1 .. Len(searched')
          /\ \A k \in 1 .. Len(searched) : k \in 1 .. Len(searched')
    BY <1>1, <2>1
  <2>4. \A f : f = entry \/ (\E k \in 1 .. Len(searched) : searched[k] = f)
          => \E k \in 1 .. Len(searched') : searched'[k] = f
    BY <2>1, <2>3
  <2> QED
    BY <2>2, <2>4 DEF Complete, NotRead, Unread
<1>5. ASSUME Opens PROVE Complete(U)'
  <2>1. /\ Len(stack') = Len(stack) + 1 /\ stack'[Len(stack) + 1].dir = entry
        /\ stack'[Len(stack) + 1].todo = Kids[entry]
        /\ \A k \in 1 .. Len(stack) : stack'[k] = stack[k]
    BY <1>5, Pushed DEF Opens
  <2>2. /\ UNCHANGED <<refused, limit, vanished, entry, searched>> /\ ~Active'
        /\ entry \in Dirs /\ entry \notin Files
    BY <1>5, SerialWalkAssumption DEF Opens
  <2>3. Len(stack) + 1 \in 1 .. Len(stack')
          /\ \A k \in 1 .. Len(stack) : k \in 1 .. Len(stack')
    BY <1>1, <2>1
  <2>4. /\ \A d, e : Unread(d, e) => Unread(d, e)'
        /\ \A e \in Kids[entry] : Unread(entry, e)'
    BY <2>1, <2>2, <2>3 DEF Unread
  <2> QED
    BY <2>2, <2>4 DEF Complete, NotRead
<1>6. ASSUME Closes PROVE Complete(U)'
  <2>1. /\ Len(stack') = Len(stack) - 1 /\ stack[Len(stack)].todo = {}
        /\ \A k \in 1 .. Len(stack) - 1 : stack'[k] = stack[k]
    BY <1>6, Popped DEF Closes
  <2>2. UNCHANGED <<refused, limit, vanished, entry, searched>> /\ ~Active /\ ~Active'
    BY <1>6 DEF Closes
  <2>3. \A k \in 1 .. Len(stack) : k \in 1 .. Len(stack') \/ k = Len(stack)
    BY <1>1, <2>1
  <2>4. \A d, e : Unread(d, e) => Unread(d, e)'
    BY <2>1, <2>3 DEF Unread
  <2> QED
    BY <2>2, <2>4 DEF Complete, NotRead
<1>7. ASSUME NEW e \in Entries, Skips(e) PROVE Complete(U)'
  <2>1. /\ Len(stack') = Len(stack)
        /\ \A k \in 1 .. Len(stack) :
             /\ stack'[k].dir = stack[k].dir
             /\ stack'[k].todo = IF k = Len(stack) THEN stack[k].todo \ {e} ELSE stack[k].todo
    BY <1>7, Taken DEF Skips
  <2>2. UNCHANGED <<refused, limit, vanished, entry, searched>> /\ ~Active /\ ~Active' /\ e \in vanished
    BY <1>7 DEF Skips
  <2>3. \A d, x : Unread(d, x) => x = e \/ Unread(d, x)'
    BY <2>1 DEF Unread
  <2> QED
    BY <2>2, <2>3 DEF Complete, NotRead
<1>8. ASSUME NEW e \in Entries, Takes(e) PROVE Complete(U \ {e})'
  <2>1. /\ Len(stack') = Len(stack)
        /\ \A k \in 1 .. Len(stack) :
             /\ stack'[k].dir = stack[k].dir
             /\ stack'[k].todo = IF k = Len(stack) THEN stack[k].todo \ {e} ELSE stack[k].todo
    BY <1>8, Taken DEF Takes
  <2>2. UNCHANGED <<refused, limit, vanished, searched>> /\ ~Active /\ Active' /\ entry' = e
    BY <1>8 DEF Takes
  <2>3. \A d, x : Unread(d, x) => x = e \/ Unread(d, x)'
    BY <2>1 DEF Unread
  <2> QED
    BY <2>2, <2>3 DEF Complete, NotRead
<1> QED
  BY <1>2, <1>3, <1>4, <1>5, <1>6, <1>7, <1>8 DEF Keeps

\* WalkInv is inductive.
LEMMA Walked == WalkSpec => []WalkInv
<1>1. WalkInv /\ [WalkNext]_walkVars => WalkInv'
  <2> SUFFICES ASSUME WalkInv, [WalkNext]_walkVars PROVE WalkInv'
    OBVIOUS
  <2>1. PICK U \in SUBSET (Entries \ {Root}) : Tree(U) /\ Complete(U)
    BY DEF WalkInv
  <2>2. Base /\ Chain
    BY DEF WalkInv
  <2>3. Base' /\ Chain'
    BY <2>1, <2>2, NextBase, NextChain
  <2>4. ASSUME Keeps PROVE WalkInv'
    BY <2>1, <2>2, <2>3, <2>4, NextTree, NextComplete DEF WalkInv
  <2>5. ASSUME NEW e \in Entries, Takes(e) PROVE WalkInv'
    <3>1. Tree(U \ {e})' /\ Complete(U \ {e})'
      BY <2>1, <2>2, <2>5, NextTree, NextComplete
    <3>2. U \ {e} \in SUBSET (Entries \ {Root})
      OBVIOUS
    <3> QED
      BY <2>3, <3>1, <3>2 DEF WalkInv
  <2> QED
    BY <2>2, <2>4, <2>5, StepKinds DEF Keeps
<1> QED
  BY <1>1, InitWalk, PTL DEF WalkSpec

-----------------------------------------------------------------------------
(* What the exit status says.                                              *)

\* When main returns 0 every file was returned by readdir, unless the walk
\* passed it over: otherwise, of the entries on its path that were not
\* returned, one lies in a directory that was.
LEMMA NoneLeft ==
  ASSUME Base, Chain, NEW U \in SUBSET (Entries \ {Root}), Tree(U), Complete(U),
         status = 0, NEW f \in Files, ~PassedOver(f)
  PROVE  f \notin U
<1> DEFINE S == Path[f] \cap U
<1>1. f \in Path[f] /\ Path[f] \subseteq Entries /\ Upward(Path[f])
  BY PathClosed DEF Entries
<1>2. /\ Path[f] \cap (vanished \cup (refused \cap Dirs)) = {}
      /\ ~(Cardinality(Path[f] \cap Dirs) > limit)
  BY DEF PassedOver
<1>3. ~Active /\ Len(stack) = 0 /\ \A d, e : ~Unread(d, e)
  BY DEF Base, Active, Unread
<1>4. ASSUME NEW d \in Dirs \ S, Kids[d] \cap S # {} PROVE FALSE
  <2>1. PICK e \in Kids[d] : e \in Path[f] /\ e \in U
    BY <1>4
  <2>2. d \in Path[f] /\ d \notin U
    BY <1>1, <1>4, <2>1 DEF Upward
  <2>3. Path[d] \subseteq Path[f]
    BY <1>1, <2>2, PathLeast DEF Entries
  <2>4. Cardinality(Path[d] \cap Dirs) <= Cardinality(Path[f] \cap Dirs)
          /\ Cardinality(Path[d] \cap Dirs) \in Nat /\ Cardinality(Path[f] \cap Dirs) \in Nat
    <3>1. IsFiniteSet(Path[f] \cap Dirs)
      BY <1>1, SerialWalkAssumption, FS_Subset
    <3> QED
      BY <2>3, <3>1, FS_Subset, FS_CardinalityType
  <2>5. ~NotRead(d)
    BY <1>2, <2>2, <2>4 DEF NotRead, Base
  <2>6. e \notin vanished
    BY <1>2, <2>1
  <2> QED
    BY <1>3, <2>1, <2>2, <2>5, <2>6 DEF Complete
<1>5. S \in SUBSET (Entries \ {Root})
  OBVIOUS
<1>6. S = {}
  BY <1>4, <1>5, TreeAssumption
<1> QED
  BY <1>1, <1>6

\* A process that ends with 0 has searched every file it was to search, once,
\* apart from those it passed over; one that ends with 2 could not open the
\* file it was at and has searched none twice; for every tree, any permissions
\* and removals and every number of descriptors (greptile.c:161-201, 228).
THEOREM EveryFileSearchedOnce == WalkSpec => []SearchedOnce
<1>1. WalkInv => SearchedOnce
  <2> SUFFICES ASSUME WalkInv PROVE SearchedOnce
    OBVIOUS
  <2>1. PICK U \in SUBSET (Entries \ {Root}) : Tree(U) /\ Complete(U)
    BY DEF WalkInv
  <2>2. Base /\ Chain /\ DOMAIN searched = 1 .. Len(searched)
    BY LenProperties DEF WalkInv, Base
  <2>3. \A j, k \in DOMAIN searched : j # k => searched[j] # searched[k]
    BY <2>1, <2>2 DEF Tree
  <2>4. ASSUME status = 0, NEW f \in Files, ~PassedOver(f)
        PROVE  \E k \in DOMAIN searched : searched[k] = f
    <3>1. f \notin U
      BY <2>1, <2>2, <2>4, NoneLeft
    <3>2. f \notin vanished
      BY <2>4, PathClosed DEF PassedOver, Entries
    <3>3. ~Active
      BY <2>2, <2>4 DEF Base, Active
    <3> QED
      BY <2>1, <2>2, <3>1, <3>2, <3>3 DEF Complete
  <2>5. ASSUME status = 2
        PROVE  /\ entry \in Files /\ \A k \in DOMAIN searched : searched[k] # entry
               /\ \/ entry \in vanished \cup refused
                  \/ Cardinality(Path[entry] \cap Dirs) = limit
    <3>1. Active /\ entry \in Files /\ entry \notin Dirs
      BY <2>2, <2>5, SerialWalkAssumption DEF Base, Active
    <3>2. Cardinality(Path[entry] \cap Dirs) = Len(stack)
      BY <2>2, <3>1, EntryDepth, FrameTypes
    <3>3. entry \in vanished \cup refused \/ Len(stack) = limit
      BY <2>2, <2>5 DEF Base
    <3>4. \A k \in DOMAIN searched : searched[k] # entry
      BY <2>1, <2>2, <3>1 DEF Tree
    <3> QED
      BY <3>1, <3>2, <3>3, <3>4
  <2> QED
    BY <2>3, <2>4, <2>5 DEF SearchedOnce
<1> QED
  BY <1>1, Walked, PTL
=============================================================================
