------------------------------ MODULE MCSearches ------------------------------
(***************************************************************************)
(* The searches that need no threads, checked together: how the threaded   *)
(* program scans a file (FileScan), how the serial one does (FgetsScan)    *)
(* and walks a tree (SerialWalk).  They share no state.  A behaviour is    *)
(* one of them; the other two are over, after an empty file and after a    *)
(* root they had no permission to open, and have no step left.             *)
(*                                                                         *)
(* The texts: up to five bytes with empty lines before and between others, *)
(* one line whose match straddles the last byte, a NUL before and behind a *)
(* match.  Fresh memory holds newlines, terminators, or the pattern over   *)
(* and over.                                                               *)
(*                                                                         *)
(* The tree: three nested directories with a file each, one of one byte,   *)
(* and a link.  With two descriptors the file of the second directory      *)
(* cannot be opened and the third directory is passed over; with four all  *)
(* can be.                                                                 *)
(***************************************************************************)
EXTENDS FileScan, FgetsScan, SerialWalk, TLC

CONSTANTS root, sub, deep, f, g, h, one, link

MCPattern == <<"a", "b">>

MCTexts ==
  {s \o m \o e : s \in {<<>>, <<"a", "b">>, <<NL>>},
                 m \in {<<>>, <<NL>>, <<NUL>>},
                 e \in {<<>>, <<"b">>, <<"a", "b">>}}

MCFresh ==
  {[i \in Cells |-> c] : c \in {NL, NUL}} \cup {[i \in Cells |-> IF i % 2 = 0 THEN "a" ELSE "b"]}

MCDirs  == {root, sub, deep}
MCFiles == {f, g, h, one}
MCKids  == root :> {f, sub, link} @@ sub :> {g, deep} @@ deep :> {h, one}

ScanOver ==
  /\ content = <<>> /\ changes = 0 /\ appended = TRUE
  /\ file_size = 0 /\ seen = <<>> /\ room = 0 /\ buf = [i \in Cells |-> NUL]
  /\ items_read = 0 /\ next_line = 0 /\ line_num = 1 /\ jobs = <<>> /\ pc = "done"

FgetsOver ==
  /\ bytes = <<>> /\ gone = FALSE /\ rewrites = 0 /\ st_size = 0
  /\ pos = 0 /\ line_number = 1 /\ printed = <<>> /\ where = "done"

WalkOver ==
  /\ refused = {Root} /\ limit = 2 /\ vanished = {}
  /\ stack = <<>> /\ entry = Root /\ stage = "read" /\ searched = <<>> /\ status = 0

SearchesInit ==
  \/ Init /\ FgetsOver /\ WalkOver
  \/ ScanOver /\ FgetsInit /\ WalkOver
  \/ ScanOver /\ FgetsOver /\ WalkInit

SearchesNext ==
  \/ Next /\ UNCHANGED <<fgetsVars, walkVars>>
  \/ FgetsNext /\ UNCHANGED <<vars, walkVars>>
  \/ WalkNext /\ UNCHANGED <<vars, fgetsVars>>

\* The fairness of each program; those that are over have no step to take.
SearchesSpec ==
  /\ SearchesInit /\ [][SearchesNext]_<<vars, fgetsVars, walkVars>>
  /\ WF_vars(Step) /\ WF_fgetsVars(FgetsStep) /\ WF_walkVars(WalkStep)
=============================================================================
