------------------------------ MODULE WorkPool ------------------------------
(***************************************************************************)
(* What the catalogue fetcher (src/fetcher.js) promises: of a list of jobs *)
(* every one is settled just once, and when all are, and only then, the    *)
(* outcome is saved.                                                       *)
(***************************************************************************)
EXTENDS Naturals

VARIABLES
  total,    \* how many jobs there are
  settled,  \* the jobs that are done, one way or the other
  phase     \* "listing", "working" or "saved"

vars == <<total, settled, phase>>

Init == total = 0 /\ settled = {} /\ phase = "listing"

List ==
  /\ phase = "listing" /\ phase' = "working"
  /\ total' \in Nat
  /\ UNCHANGED settled

Settle ==
  /\ phase = "working"
  /\ \E job \in 1 .. total \ settled : settled' = settled \cup {job}
  /\ UNCHANGED <<total, phase>>

Save ==
  /\ phase = "working" /\ settled = 1 .. total
  /\ phase' = "saved"
  /\ UNCHANGED <<total, settled>>

Next == List \/ Settle \/ Save

Spec == Init /\ [][Next]_vars
=============================================================================
