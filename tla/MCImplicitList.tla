--------------------------- MODULE MCImplicitList ---------------------------
(***************************************************************************)
(* An arena for the first chunk and one more.  The program writes words    *)
(* that, at the end of a block, lead prev_payload to the right place (32   *)
(* and 48 are the sizes of the small blocks), and one that does not.       *)
(***************************************************************************)
EXTENDS ImplicitList

MCRequests == {0, 16, 32, 136}
MCValues   == {Tag(32, 0), Tag(48, 1)}
=============================================================================
