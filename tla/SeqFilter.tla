------------------------------ MODULE SeqFilter ------------------------------
(***************************************************************************)
(* What a loop over a vector keeps of it, with remove_if and erase or by   *)
(* pushing what passes a test to another vector: the elements that are in  *)
(* a set, in their order.                                                  *)
(***************************************************************************)
EXTENDS Naturals, Sequences

Kept(s, S) ==
  LET kept[i \in 0..Len(s)] ==
        IF i = 0 THEN <<>>
        ELSE IF s[i] \in S THEN Append(kept[i - 1], s[i]) ELSE kept[i - 1]
  IN  kept[Len(s)]
==============================================================================
