------------------------- MODULE MCRunnerLifecycle -------------------------
(* RunnerLifecycle with interchangeable runs of the adapter process: they  *)
(* are numbered in the order they start.  Of a named Pod there are two,    *)
(* one after the other; else two that may overlap, and one that meets what *)
(* they left behind, or joins the second while that is between the List    *)
(* and the Delete of its reaper.                                           *)
EXTENDS RunnerLifecycle, Naturals, TLC

AnyRun == Permutations(Adapters)

ThreeRuns == 1 .. 3

Started == {a \in Adapters : pc[a] # "unstarted"}

MCNext ==
  /\ Next /\ Started' = 1 .. Cardinality(Started')
  /\ 3 \in Started' \ Started => ~ config.named /\ ~ Up(1) /\ (Up(2) => pc[2] = "sweeping")

MCSpec == Init /\ [][MCNext]_vars /\ Fairness
=============================================================================
