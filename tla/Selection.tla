------------------------------ MODULE Selection ------------------------------
(***************************************************************************)
(* SelectSeq of the standard module Sequences, as a recursive function     *)
(* about which proofs are possible.                                        *)
(***************************************************************************)
EXTENDS Naturals, Sequences

(* The elements of s that are in keep, in their order.                     *)
Select(s, keep) ==
  LET kept[k \in 0 .. Len(s)] ==
        IF k = 0 THEN <<>>
        ELSE IF s[k] \in keep THEN Append(kept[k - 1], s[k]) ELSE kept[k - 1]
  IN  kept[Len(s)]
=============================================================================
