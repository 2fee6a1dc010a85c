------------------------------- MODULE MCHeaps -------------------------------
(***************************************************************************)
(* Two allocators that are linked against the same arena, one of them in a *)
(* program: the tags of 32bit_to_64bit_practice (Mm64) and the bump        *)
(* pointer (BumpHeap).  They share its size and the conversion of its      *)
(* argument, and no state; the one not linked takes no step.               *)
(*                                                                         *)
(* Mm64: an arena of three chunks, the sizes at and above the smallest     *)
(* block, one that needs two chunks, and a program that writes words that  *)
(* look like the tag of a free block.  BumpHeap: an arena of seven pages,  *)
(* sizes below, at and beyond what one growth by two pages adds.           *)
(***************************************************************************)
EXTENDS Mm64, BumpHeap

MCRequests     == {0, 16, 24, 72}
MCValues       == {pack(32, 0)}
MCBumpRequests == {0, 8, 24, 60, 100}

VARIABLE linked  \* the allocator of the program

HeapsInit == Init /\ BumpInit /\ linked \in {"mm64", "bump"}

HeapsNext ==
  /\ \/ linked = "mm64" /\ Next /\ UNCHANGED bumpVars
     \/ linked = "bump" /\ BumpNext /\ UNCHANGED vars
  /\ UNCHANGED linked

HeapsSpec == HeapsInit /\ [][HeapsNext]_<<vars, bumpVars, linked>>
=============================================================================
