---------------------------- MODULE MCExplicitList ----------------------------
(***************************************************************************)
(* Chunks of 160 bytes, of which extend_heap gets 80: the program asks for *)
(* blocks of 32, 64 and 80 bytes, with and without a remainder.            *)
(***************************************************************************)
EXTENDS ExplicitList

MCRequests == {16, 40, 64}
=============================================================================
