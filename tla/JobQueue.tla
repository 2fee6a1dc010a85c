------------------------------ MODULE JobQueue ------------------------------
(***************************************************************************)
(* What the ring buffer of the multi-threaded greptile promises to the     *)
(* threads that call it: a bounded first-in first-out queue in which every *)
(* job handed to one rb_enqueue call is delivered by exactly one rb_dequeue*)
(* call.  No mutex, condition variable, index or counter appears here;     *)
(* SearchRing.tla implements this specification with all of them.          *)
(***************************************************************************)
EXTENDS Naturals, Sequences

CONSTANTS
  Producers,  \* threads that hand jobs in
  Consumers,  \* threads that take jobs out
  Jobs,       \* what a job can be
  Capacity,   \* most jobs the queue holds
  NoJob       \* the absence of a job

VARIABLES
  queue,      \* jobs accepted and not yet delivered, oldest first
  offered,    \* per producer: the job of its pending call, or NoJob
  wanting,    \* consumers with a pending call
  received    \* per consumer: the last job delivered to it, or NoJob

vars == <<queue, offered, wanting, received>>

Init ==
  /\ queue = <<>>
  /\ offered = [p \in Producers |-> NoJob]
  /\ wanting = {}
  /\ received = [c \in Consumers |-> NoJob]

\* A producer calls; its job waits to be accepted.
Offer(p, job) ==
  /\ offered[p] = NoJob
  /\ offered' = [offered EXCEPT ![p] = job]
  /\ UNCHANGED <<queue, wanting, received>>

\* The offered job is accepted, once, when there is room.
Put(p) ==
  /\ offered[p] # NoJob
  /\ Len(queue) < Capacity
  /\ queue' = Append(queue, offered[p])
  /\ offered' = [offered EXCEPT ![p] = NoJob]
  /\ UNCHANGED <<wanting, received>>

\* A consumer calls.
Ask(c) ==
  /\ c \notin wanting
  /\ wanting' = wanting \cup {c}
  /\ UNCHANGED <<queue, offered, received>>

\* The oldest job goes to one consumer with a pending call.
Take(c) ==
  /\ c \in wanting
  /\ queue # <<>>
  /\ received' = [received EXCEPT ![c] = Head(queue)]
  /\ queue' = Tail(queue)
  /\ wanting' = wanting \ {c}
  /\ UNCHANGED offered

Next ==
  \/ \E p \in Producers : Put(p) \/ \E job \in Jobs : Offer(p, job)
  \/ \E c \in Consumers : Ask(c) \/ Take(c)

\* Neither side is stuck while the queue could serve it.
Fairness ==
  /\ WF_vars(\E p \in Producers : Put(p))
  /\ WF_vars(\E c \in Consumers : Take(c))

SafeSpec == Init /\ [][Next]_vars

Spec == SafeSpec /\ Fairness
=============================================================================
