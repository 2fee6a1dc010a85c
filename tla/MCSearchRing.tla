---------------------------- MODULE MCSearchRing ----------------------------
(***************************************************************************)
(* Two producers and two consumers on a ring of two cells: both conditions *)
(* have two sleepers at once, callers overtake woken sleepers, and the     *)
(* indices wrap.                                                           *)
(***************************************************************************)
EXTENDS SearchRing

CONSTANTS p1, p2, c1, c2, a, b, none, nobody

MCProducers == {p1, p2}
MCConsumers == {c1, c2}
MCJobs      == {a, b}
=============================================================================
