----------------------------- MODULE Allocation -----------------------------
(***************************************************************************)
(* What malloc, free and realloc promise to the program that calls them:   *)
(* the blocks it holds are aligned, lie inside the heap, do not overlap,   *)
(* and keep what the program wrote until it frees them; realloc carries    *)
(* the common prefix over.  Nothing says where a block is placed or when a *)
(* request is refused.                                                     *)
(***************************************************************************)
EXTENDS Integers, Sequences

CONSTANTS
  Limit,      \* bytes of the arena
  Alignment,  \* every block starts at a multiple of it
  Sizes,      \* what a program may ask for, in bytes
  WordBytes,  \* bytes of a word the program writes
  Values      \* what it writes

VARIABLE
  blocks      \* per block held, by address: its size and what is known of
              \* its words, from the first on

Addresses == {Alignment * k : k \in 0 .. Limit \div Alignment}

Init == blocks = <<>>

\* bytes at a lie in the heap and outside the blocks at S.
Free(a, bytes, S) ==
  /\ a + bytes <= Limit
  /\ \A b \in S : a + bytes <= b \/ b + blocks[b].bytes <= a

\* The blocks at S, and one more.
With(S, a, bytes, data) ==
  [b \in S \cup {a} |-> IF b = a THEN [bytes |-> bytes, data |-> data] ELSE blocks[b]]

Allocate(a, bytes) ==
  /\ Free(a, bytes, DOMAIN blocks)
  /\ blocks' = With(DOMAIN blocks, a, bytes, <<>>)

Release(a) == blocks' = [b \in DOMAIN blocks \ {a} |-> blocks[b]]

\* The block at a moves to b; the words both sizes have are kept.
Resize(a, b, bytes) ==
  LET others == DOMAIN blocks \ {a}
      kept   == {bytes \div WordBytes, Len(blocks[a].data)}
      n      == CHOOSE k \in kept : \A m \in kept : k <= m
  IN  /\ Free(b, bytes, others)
      /\ blocks' = With(others, b, bytes, SubSeq(blocks[a].data, 1, n))

\* The program fills a block it holds.
Write(a, v) ==
  blocks' = [blocks EXCEPT ![a].data = [k \in 1 .. blocks[a].bytes \div WordBytes |-> v]]

\* The whole heap is given back.
Discard == blocks' = <<>>

Next ==
  \/ \E a \in Addresses, bytes \in Sizes : Allocate(a, bytes)
  \/ \E a \in DOMAIN blocks : Release(a)
  \/ \E a \in DOMAIN blocks, v \in Values : Write(a, v)
  \/ Discard
  \/ \E a \in DOMAIN blocks, b \in Addresses, bytes \in Sizes : Resize(a, b, bytes)

Spec == Init /\ [][Next]_blocks
=============================================================================
