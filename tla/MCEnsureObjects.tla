--------------------------- MODULE MCEnsureObjects --------------------------
(* EnsureObjects with the specs TLC tries.                                 *)
EXTENDS EnsureObjects

Ask(labels, port, headless, type) ==
  [labels |-> labels, port |-> port, headless |-> headless, type |-> type]

SomeSpecs ==
  { Ask(1, 1, FALSE, "ClusterIP"), Ask(1, 2, TRUE, "ClusterIP"), Ask(2, 1, FALSE, "ClusterIP"),
    Ask(1, 1, FALSE, "NodePort"), Ask(1, 1, TRUE, "ExternalName") }
=============================================================================
