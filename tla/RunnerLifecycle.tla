-------------------------- MODULE RunnerLifecycle --------------------------
(***************************************************************************)
(* The life of the stdio runner Pod: initStdio, the cleanup at the end of  *)
(* Process or Stream (pkg/adapter/handler.go) and the calls of             *)
(* pkg/kube/runner_pod.go they make, one Kubernetes call at a time.        *)
(*                                                                         *)
(* An adapter here is one run of the adapter process.  When the Pod name   *)
(* is known to it (config.named), runs with the same runner name are       *)
(* restarts of the container in one Pod, one after the other; when it is   *)
(* not, the runner is named after the step, and the runs of different      *)
(* adapter Pods, a retry or a replica, share that name and may overlap.    *)
(* Only one runner name exists in the model.                               *)
(*                                                                         *)
(* Outside the repository: the API server, whose calls may fail with or    *)
(* without having taken effect, the kubelet, and the garbage collector     *)
(* that follows owner references.                                          *)
(***************************************************************************)
EXTENDS FiniteSets

CONSTANT Adapters  \* runs of the adapter process

VARIABLES
  config,   \* named: Pod name known; keep: deletionPolicy; ephemeral: the secret copy
  home,     \* the adapter Pod that owner references point to: "up" or "gone"
  runner,   \* the runner Pod of that name, if any
  secret,   \* the Secret <runner>-env, if any
  pc,       \* per run: where it is
  created,  \* per run: EnsureRunnerPod's first result, which the caller drops
  sealed,   \* per run: it holds the name of an ephemeral secret
  ctxDone,  \* per run: the context its cleanup uses is cancelled or expired
  faulted   \* per run: an API call of it failed without cause

cluster == <<home, runner, secret>>
locals  == <<created, sealed, ctxDone, faulted>>
vars == <<config, cluster, pc, locals>>

Phases == {"absent", "pending", "running", "finished"}
NoRunner == [phase |-> "absent", deleting |-> FALSE, old |-> FALSE,
             owned |-> FALSE, sealed |-> FALSE]
NoSecret == [present |-> FALSE, owned |-> FALSE]
Exists == runner.phase # "absent"

Stopped == {"failed", "done", "down"}
Up(a) == pc[a] \notin Stopped \cup {"unstarted"}

Init ==
  /\ config \in [named : BOOLEAN, keep : BOOLEAN, ephemeral : BOOLEAN]
  /\ home = "up" /\ runner = NoRunner /\ secret = NoSecret
  /\ pc = [a \in Adapters |-> "unstarted"]
  /\ created = [a \in Adapters |-> FALSE] /\ sealed = [a \in Adapters |-> FALSE]
  /\ ctxDone = [a \in Adapters |-> FALSE] /\ faulted = [a \in Adapters |-> FALSE]

(* Run a goes from one point to another; the second form is for an API     *)
(* call that returned an error it had no reason for.                       *)
Goes(a, from, to) == pc[a] = from /\ pc' = [pc EXCEPT ![a] = to]
Faults(a) == faulted' = [faulted EXCEPT ![a] = TRUE]

(* What a delete leaves: the Pod is there until the kubelet is done.  (The *)
(* mutant deletes a Pod that is not there.)                                *)
DeletedBlindly == [runner EXCEPT !.deleting = TRUE]
Deleted == IF Exists THEN [runner EXCEPT !.deleting = TRUE] ELSE runner

-----------------------------------------------------------------------------
(* Mutants: secret or Pod without its owner, a cleanup blind to the policy, *)
(* a cleanup that starts with the secret, one that stops after the Pod.    *)
NoOwner == FALSE
DeleteAlways == FALSE
SealFirst(a) ==
  /\ Goes(a, "cleaning", "unsealing")
  /\ ~ config.keep /\ secret.present
  /\ secret' = NoSecret
  /\ UNCHANGED <<config, home, runner, locals>>
ForgetSecret(a) == "done"

-----------------------------------------------------------------------------
(* initStdio.                                                              *)

Start(a) ==
  /\ Goes(a, "unstarted", "reaping")
  /\ config.named => home = "up" /\ \A b \in Adapters : ~ Up(b)
  /\ UNCHANGED <<config, cluster, locals>>

(* The reaper reads which runners of this owner's label are older than two *)
(* hours, and deletes each by its name, whatever has that name by then;    *)
(* its errors are ignored.                                                 *)
Outlived == runner.old

Reap(a) ==
  /\ \/ /\ Goes(a, "reaping", IF Outlived THEN "sweeping" ELSE "owning")
        /\ UNCHANGED faulted
     \/ Goes(a, "reaping", "owning") /\ Faults(a)
  /\ UNCHANGED <<config, cluster, created, sealed, ctxDone>>

Sweep(a) ==
  /\ Goes(a, "sweeping", "owning")
  /\ \/ runner' = Deleted /\ UNCHANGED faulted
     \/ runner' \in {runner, Deleted} /\ Faults(a)
  /\ UNCHANGED <<config, home, secret, created, sealed, ctxDone>>

GetOwner(a) ==
  /\ \/ /\ Goes(a, "owning", "looking") /\ (config.named => home = "up")
        /\ UNCHANGED faulted
     \/ /\ Goes(a, "owning", "failed") /\ config.named
        /\ IF home = "up" THEN Faults(a) ELSE UNCHANGED faulted
  /\ UNCHANGED <<config, cluster, created, sealed, ctxDone>>

(* podExists: any error of the Get reads as absence.  An existing Pod is   *)
(* adopted as it is, with no secret name.                                  *)
LookUp(a) ==
  /\ \/ /\ Goes(a, "looking", IF Exists THEN "waiting" ELSE "securing")
        /\ UNCHANGED faulted
     \/ Goes(a, "looking", "securing") /\ Faults(a)
  /\ UNCHANGED <<config, cluster, created, sealed, ctxDone>>

OwnerOfSecret == config.named

CreateSecret(a) ==
  /\ \/ /\ Goes(a, "securing", "creating") /\ ~ config.ephemeral
        /\ UNCHANGED <<secret, faulted>>
     \/ /\ Goes(a, "securing", "creating") /\ config.ephemeral /\ ~ secret.present
        /\ secret' = [present |-> TRUE, owned |-> OwnerOfSecret]
        /\ UNCHANGED faulted
     \/ /\ Goes(a, "securing", "failed") /\ config.ephemeral /\ secret.present
        /\ UNCHANGED <<secret, faulted>>
     \/ /\ Goes(a, "securing", "failed") /\ config.ephemeral
        /\ \/ UNCHANGED secret
           \/ ~ secret.present /\ secret' = [present |-> TRUE, owned |-> OwnerOfSecret]
        /\ Faults(a)
  /\ UNCHANGED <<config, home, runner, created, sealed, ctxDone>>

OwnerOfPod == config.named
NewRunner == [NoRunner EXCEPT !.phase = "pending", !.owned = OwnerOfPod,
                              !.sealed = config.ephemeral]

CreatePod(a) ==
  /\ \/ /\ Goes(a, "creating", "waiting") /\ ~ Exists
        /\ runner' = NewRunner
        /\ created' = [created EXCEPT ![a] = TRUE]
        /\ sealed' = [sealed EXCEPT ![a] = config.ephemeral]
        /\ UNCHANGED faulted
     \/ /\ Goes(a, "creating", "failed") /\ Exists
        /\ UNCHANGED <<runner, created, sealed, faulted>>
     \/ /\ Goes(a, "creating", "failed")
        /\ UNCHANGED runner \/ (~ Exists /\ runner' = NewRunner)
        /\ Faults(a)
        /\ UNCHANGED <<created, sealed>>
  /\ UNCHANGED <<config, home, secret, ctxDone>>

(* WaitForPodRunning: a Pod on its way out counts as running as long as    *)
(* its container is ready; a failed Get is retried until the deadline.     *)
Wait(a) ==
  /\ \/ Goes(a, "waiting", "attaching") /\ runner.phase = "running"
     \/ Goes(a, "waiting", "failed")
  /\ UNCHANGED <<config, cluster, locals>>

(* NewStdioClient and the MCP handshake (module StdioTransport).  Only now *)
(* is the cleanup installed.                                               *)
Handshake(a) ==
  /\ \/ Goes(a, "attaching", "serving") /\ runner.phase = "running"
     \/ Goes(a, "attaching", "failed")
  /\ UNCHANGED <<config, cluster, locals>>

-----------------------------------------------------------------------------
(* The end of Process or of Stream, and DeleteRunnerPod.                   *)

Cancel(a) ==
  /\ pc[a] \in {"serving", "cleaning", "unsealing"} /\ ~ ctxDone[a]
  /\ ctxDone' = [ctxDone EXCEPT ![a] = TRUE]
  /\ UNCHANGED <<config, cluster, pc, created, sealed, faulted>>

Finish(a) ==
  /\ Goes(a, "serving", "cleaning")
  /\ UNCHANGED <<config, cluster, locals>>

Keeps == config.keep
AfterPod(a) == IF sealed[a] THEN "unsealing" ELSE "done"

(* The error of the Pod's delete, a dead context's and NotFound included,  *)
(* ends the cleanup before the secret.                                     *)
DeletePod(a) ==
  /\ \/ /\ Goes(a, "cleaning", AfterPod(a)) /\ ~ Keeps /\ Exists /\ ~ ctxDone[a]
        /\ runner' = Deleted /\ UNCHANGED faulted
     \/ /\ Goes(a, "cleaning", "done") /\ (Keeps \/ ~ Exists \/ ctxDone[a])
        /\ UNCHANGED <<runner, faulted>>
     \/ /\ Goes(a, "cleaning", "done") /\ ~ Keeps /\ ~ ctxDone[a]
        /\ runner' \in {runner, Deleted} /\ Faults(a)
  /\ UNCHANGED <<config, home, secret, created, sealed, ctxDone>>

DeleteSecret(a) ==
  /\ Goes(a, "unsealing", "done")
  /\ \/ secret' = (IF ctxDone[a] THEN secret ELSE NoSecret) /\ UNCHANGED faulted
     \/ secret' \in {secret, NoSecret} /\ Faults(a)
  /\ UNCHANGED <<config, home, runner, created, sealed, ctxDone>>

(* A kill, a panic or a node failure.                                      *)
Crash(a) ==
  /\ Up(a)
  /\ pc' = [pc EXCEPT ![a] = "down"]
  /\ UNCHANGED <<config, cluster, locals>>

-----------------------------------------------------------------------------
(* The cluster.                                                            *)

PodRuns ==
  /\ runner.phase = "pending" /\ ~ runner.deleting
  /\ runner.sealed => secret.present
  /\ runner' = [runner EXCEPT !.phase = "running"]
  /\ UNCHANGED <<config, home, secret, pc, locals>>

PodExits ==
  /\ runner.phase = "running"
  /\ runner' = [runner EXCEPT !.phase = "finished"]
  /\ UNCHANGED <<config, home, secret, pc, locals>>

PodRemoved ==
  /\ runner.deleting
  /\ runner' = NoRunner
  /\ UNCHANGED <<config, home, secret, pc, locals>>

(* Somebody else deletes the runner: a node drain, an operator.            *)
Evicted ==
  /\ Exists /\ ~ runner.deleting
  /\ runner' = Deleted
  /\ UNCHANGED <<config, home, secret, pc, locals>>

TwoHoursPass ==
  /\ Exists /\ ~ runner.old
  /\ runner' = [runner EXCEPT !.old = TRUE]
  /\ UNCHANGED <<config, home, secret, pc, locals>>

AdapterPodDeleted ==
  /\ config.named /\ home = "up"
  /\ home' = "gone"
  /\ UNCHANGED <<config, runner, secret, pc, locals>>

CollectPod ==
  /\ home = "gone" /\ runner.owned /\ ~ runner.deleting
  /\ runner' = Deleted
  /\ UNCHANGED <<config, home, secret, pc, locals>>

CollectSecret ==
  /\ home = "gone" /\ secret.owned
  /\ secret' = NoSecret
  /\ UNCHANGED <<config, home, runner, pc, locals>>

-----------------------------------------------------------------------------
Run(a) == \/ Reap(a) \/ Sweep(a) \/ GetOwner(a) \/ LookUp(a) \/ CreateSecret(a)
          \/ CreatePod(a) \/ Wait(a) \/ Handshake(a) \/ Finish(a) \/ DeletePod(a) \/ DeleteSecret(a)

Collector == CollectPod \/ CollectSecret

Kubelet == PodRuns \/ PodExits \/ PodRemoved

World == Kubelet \/ Collector \/ Evicted \/ TwoHoursPass \/ AdapterPodDeleted

Next == World \/ \E a \in Adapters : Run(a) \/ Start(a) \/ Cancel(a) \/ Crash(a)

Spec == Init /\ [][Next]_vars

(* The controllers of the cluster do their work, and a run that is up goes *)
(* on: each call returns, each wait has a deadline.                        *)
Fairness == /\ WF_vars(CollectPod) /\ WF_vars(CollectSecret) /\ WF_vars(PodRemoved)
            /\ \A a \in Adapters : WF_vars(Run(a))

FairSpec == Spec /\ Fairness

-----------------------------------------------------------------------------
Points == Stopped \cup {"unstarted", "reaping", "sweeping", "owning", "looking",
  "securing", "creating", "waiting", "attaching", "serving", "cleaning", "unsealing"}

(* Every variable keeps to its range, and a Pod that is not there has no   *)
(* attributes.                                                             *)
TypeOK ==
  /\ config \in [named : BOOLEAN, keep : BOOLEAN, ephemeral : BOOLEAN]
  /\ home \in {"up", "gone"}
  /\ runner \in [phase : Phases, deleting : BOOLEAN, old : BOOLEAN,
                 owned : BOOLEAN, sealed : BOOLEAN]
  /\ ~ Exists => runner = NoRunner
  /\ secret \in [present : BOOLEAN, owned : BOOLEAN]
  /\ pc \in [Adapters -> Points]
  /\ created \in [Adapters -> BOOLEAN] /\ sealed \in [Adapters -> BOOLEAN]
  /\ ctxDone \in [Adapters -> BOOLEAN] /\ faulted \in [Adapters -> BOOLEAN]

(* A runner that mounts the ephemeral secret has it as long as it is meant *)
(* to live, whichever runs create, adopt, clean up, fail or crash          *)
(* (buildEnvSources before the Pod's Create, runner_pod.go:74-80; the Pod's *)
(* Delete before the secret's, 362-367).                                   *)
SecretOutlivesUse ==
  Exists /\ runner.sealed /\ ~ runner.deleting /\ home = "up" => secret.present

(* With deletionPolicy Keep no run of the adapter deletes a runner younger *)
(* than two hours (handler.go:182), restarts of a container between the    *)
(* reaper's List and its Delete included (runner_pod.go:381-390).  Runs    *)
(* without a Pod name share the runner with others, one of which may have  *)
(* replaced it between the two: what their reaper deletes may be young.    *)
KeepHonoured ==
  [][ \A a \in Adapters :
        /\ config.keep /\ pc'[a] # pc[a]
        /\ runner'.deleting /\ ~ runner.deleting
        => \/ runner.old
           \/ pc[a] = "sweeping" /\ ~ config.named ]_vars

(* A run with a Pod name that created its runner, met no API fault and     *)
(* cleans up under a live context leaves neither Pod nor secret behind     *)
(* (DeleteRunnerPod, runner_pod.go:354-372), unless the Pod was gone       *)
(* before it came to delete it.                                            *)
OrderlyEnd ==
  [][ \A a \in Adapters :
        /\ pc[a] \in {"cleaning", "unsealing"} /\ pc'[a] = "done"
        /\ config.named /\ ~ config.keep
        /\ created[a] /\ ~ faulted'[a] /\ ~ ctxDone[a]
        /\ pc[a] = "cleaning" => Exists
        => /\ runner'.phase = "absent" \/ runner'.deleting
           /\ ~ secret'.present ]_vars

(* "Owner references ... prevent orphan runner Pods" (README.md:10): once  *)
(* the adapter Pod is gone, so are, for good, the runner and its secret,   *)
(* even one created by a run that outlived its Pod's deletion.             *)
OwnedGoesWithOwner ==
  home = "gone" ~> [](runner.phase = "absent" /\ ~ secret.present)

(* "EnsureRunnerPod creates the runner Pod if it doesn't exist"            *)
(* (runner_pod.go:45): it fails on an API fault, or because a Pod exists   *)
(* after all, not otherwise; no other run is up to get in its way.         *)
EnsureCreates ==
  [][ \A a \in Adapters :
        /\ pc[a] \in {"securing", "creating"} /\ pc'[a] = "failed"
        /\ ~ faulted'[a] /\ \A b \in Adapters \ {a} : ~ Up(b)
        => Exists ]_vars

(* "creates a short-lived per-run Secret" (README.md:127): a run whose     *)
(* cleanup goes through, with no other run up, takes the runner's secret   *)
(* with it.                                                                *)
SecretShortLived ==
  [][ \A a \in Adapters :
        /\ pc[a] \in {"cleaning", "unsealing"} /\ pc'[a] = "done"
        /\ ~ config.keep /\ Exists
        /\ \A b \in Adapters : ~ faulted'[b] /\ ~ ctxDone[b]
        /\ \A b \in Adapters \ {a} : ~ Up(b)
        => ~ secret'.present ]_vars

(* "one-off stdio Pods with automatic cleanup" (README.md:7): unless the   *)
(* policy is Keep, when all runs have ended normally and no API call ever  *)
(* failed, the runner goes.                                                *)
NoOrphans ==
  (/\ ~ config.keep
   /\ \A a \in Adapters : pc[a] \in {"done", "unstarted"} /\ ~ faulted[a])
  ~> (\/ runner.phase = "absent"
      \/ \E a \in Adapters : pc[a] \notin {"done", "unstarted"} \/ faulted[a])
=============================================================================
