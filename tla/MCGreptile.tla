----------------------------- MODULE MCGreptile -----------------------------
(***************************************************************************)
(* Two workers, a ring of one cell, a tree with a subdirectory and three   *)
(* files: two that match, on one line and on two, and one that does not.   *)
(***************************************************************************)
EXTENDS Greptile, TLC

CONSTANTS root, sub, one, two, none, link

MCDirs    == {sub}
MCFiles   == {one, two, none}
MCOthers  == {link}
MCKids    == (root :> {one, sub, link}) @@ (sub :> {two, none})
MCMatches == (one :> 1) @@ (two :> 2) @@ (none :> 0)
=============================================================================
