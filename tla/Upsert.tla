------------------------------- MODULE Upsert -------------------------------
(***************************************************************************)
(* What Ensure (pkg/kube/ensure.go) comes to, however its Gets, Creates    *)
(* and Updates interleave with those of other calls: the Deployment, then  *)
(* the Service, is put in place in one step each, or the call fails.       *)
(***************************************************************************)
EXTENDS Naturals

CONSTANTS
  Calls,  \* calls of Ensure, of one process or several
  Specs   \* what they ask for: labels, port, and the kind of Service

VARIABLES
  store,  \* per object: its spec and cluster IP, Nothing if it is not there
  stage,  \* per call: the object it is at
  at,     \* per call: "new", "busy", "ok" or "error"
  spec    \* per call: what it asks for

vars == <<store, stage, at, spec>>

Objects == {"deployment", "service"}

(* Cluster IPs: not set, headless, and those the API server hands out.     *)
Unset == 0
None == 1
Address == Nat \ {Unset, None}

Blank == [labels |-> 0, port |-> 0, headless |-> FALSE, type |-> "ClusterIP"]
Nothing == [spec |-> Blank, ip |-> Unset]

-----------------------------------------------------------------------------
Init ==
  /\ store = [o \in Objects |-> Nothing]
  /\ stage = [c \in Calls |-> "deployment"]
  /\ at = [c \in Calls |-> "new"]
  /\ spec = [c \in Calls |-> Blank]

Start(c) ==
  /\ at[c] = "new" /\ at' = [at EXCEPT ![c] = "busy"]
  /\ \E s \in Specs : spec' = [spec EXCEPT ![c] = s]
  /\ UNCHANGED <<store, stage>>

(* What an object may become. The selector of a Deployment cannot change,  *)
(* nor can the cluster IP of a Service, whatever the spec says of it; and  *)
(* a Service without one has no ports of nodes.                            *)
Becomes(o, old, new, s) ==
  /\ new = [spec |-> s, ip |-> new.ip]
  /\ o = "deployment" => new.ip = Unset /\ (old # Nothing => old.spec.labels = s.labels)
  /\ o = "service" => IF old # Nothing THEN new.ip = old.ip
                      ELSE IF s.headless THEN new.ip = None ELSE new.ip \in Address
  /\ o = "service" => s.type # "ExternalName" /\ (new.ip = None => s.type = "ClusterIP")

Proceed(c) ==
  IF stage[c] = "deployment"
  THEN stage' = [stage EXCEPT ![c] = "service"] /\ UNCHANGED at
  ELSE at' = [at EXCEPT ![c] = "ok"] /\ UNCHANGED stage

Abandon(c) == at' = [at EXCEPT ![c] = "error"] /\ UNCHANGED stage

(* The reply may be lost, which fails the call all the same.               *)
Put(c) ==
  /\ at[c] = "busy"
  /\ Becomes(stage[c], store[stage[c]], store'[stage[c]], spec[c])
  /\ store' = [store EXCEPT ![stage[c]] = store'[stage[c]]]
  /\ Proceed(c) \/ Abandon(c)
  /\ UNCHANGED spec

Fail(c) ==
  /\ at[c] = "busy" /\ Abandon(c)
  /\ UNCHANGED <<store, spec>>

Remove(o) ==
  /\ store' = [store EXCEPT ![o] = Nothing]
  /\ UNCHANGED <<stage, at, spec>>

Next ==
  \/ \E c \in Calls : Start(c) \/ Put(c) \/ Fail(c)
  \/ \E o \in Objects : Remove(o)

Spec == Init /\ [][Next]_vars
=============================================================================
