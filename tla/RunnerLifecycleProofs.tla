----------------------- MODULE RunnerLifecycleProofs -----------------------
(***************************************************************************)
(* Proofs about RunnerLifecycle, for any number of runs of the adapter,    *)
(* sequential or overlapping.  The argument is about who may delete the    *)
(* ephemeral secret: only the run that holds it, and as long as the        *)
(* adapter Pod lives at most one run does.                                 *)
(***************************************************************************)
EXTENDS RunnerLifecycle, Naturals, TLAPS

Early == {"unstarted", "reaping", "sweeping", "owning", "looking", "securing", "creating"}
Late == {"waiting", "attaching", "serving", "cleaning", "unsealing"}

(* The run created the secret, and has yet to delete it.                   *)
Holder(a) == \/ pc[a] = "creating" /\ config.ephemeral
             \/ pc[a] \in Late /\ sealed[a]

(* Some runner is meant to live and mounts the secret.                     *)
InUse == Exists /\ runner.sealed /\ ~ runner.deleting

(* What a run knows of the secret agrees with the configuration.           *)
LocalInv ==
  /\ \A a \in Adapters :
       /\ pc[a] \in Early => ~ sealed[a]
       /\ sealed[a] => config.ephemeral
       /\ created[a] /\ config.ephemeral => sealed[a]
       /\ pc[a] = "unsealing" => sealed[a]
  /\ runner.sealed => config.ephemeral
  /\ secret.present => config.ephemeral

(* As long as the owner lives, the secret has at most one holder, and goes *)
(* after the runner that uses it.                                          *)
HolderInv ==
  home = "up" =>
    /\ \A a \in Adapters : Holder(a) => secret.present
    /\ \A a, b \in Adapters : Holder(a) /\ Holder(b) => a = b
    /\ \A a \in Adapters : pc[a] = "unsealing" => ~ InUse

(* Runs of one adapter Pod follow one another; the runner of the one that  *)
(* cleans up is on its way out before its secret is, and what the reaper   *)
(* of one has listed is not replaced before it deletes it.                 *)
NamedInv ==
  config.named =>
    /\ \A a, b \in Adapters : Up(a) /\ Up(b) => a = b
    /\ \A a \in Adapters : pc[a] = "unsealing" => ~ Exists \/ runner.deleting
    /\ \A a \in Adapters : pc[a] = "sweeping" => ~ Exists \/ runner.old

RunnerInv == TypeOK /\ LocalInv /\ HolderInv /\ NamedInv /\ SecretOutlivesUse

(* The initial states satisfy the invariant.                               *)
LEMMA InitRunnerInv == Init => RunnerInv
  BY DEF Init, RunnerInv, TypeOK, LocalInv, HolderInv, NamedInv, SecretOutlivesUse, Holder,
     InUse, Up, Exists, NoRunner, NoSecret, Points, Stopped, Phases, Early, Late

-----------------------------------------------------------------------------
(* The values the actions put together keep to their types.                *)
LEMMA Values ==
  ASSUME TypeOK
  PROVE  /\ NoRunner \in [phase : Phases, deleting : BOOLEAN, old : BOOLEAN,
                          owned : BOOLEAN, sealed : BOOLEAN]
         /\ NewRunner \in [phase : Phases, deleting : BOOLEAN, old : BOOLEAN,
                           owned : BOOLEAN, sealed : BOOLEAN]
         /\ Deleted \in [phase : Phases, deleting : BOOLEAN, old : BOOLEAN,
                         owned : BOOLEAN, sealed : BOOLEAN]
         /\ Deleted.phase = runner.phase /\ Deleted.sealed = runner.sealed
         /\ Deleted.old = runner.old
         /\ Exists => Deleted.deleting
         /\ ~ Exists => Deleted = NoRunner
         /\ NewRunner.phase = "pending" /\ ~ NewRunner.deleting
         /\ NewRunner.sealed = config.ephemeral
         /\ NoRunner.phase = "absent" /\ ~ NoRunner.deleting /\ ~ NoRunner.sealed
         /\ NoSecret \in [present : BOOLEAN, owned : BOOLEAN] /\ ~ NoSecret.present
<1>1. /\ NoRunner \in [phase : Phases, deleting : BOOLEAN, old : BOOLEAN,
                       owned : BOOLEAN, sealed : BOOLEAN]
      /\ NoRunner.phase = "absent" /\ ~ NoRunner.deleting /\ ~ NoRunner.sealed
      /\ NoSecret \in [present : BOOLEAN, owned : BOOLEAN] /\ ~ NoSecret.present
  BY DEF NoRunner, NoSecret, Phases
<1>2. /\ NewRunner \in [phase : Phases, deleting : BOOLEAN, old : BOOLEAN,
                        owned : BOOLEAN, sealed : BOOLEAN]
      /\ NewRunner.phase = "pending" /\ ~ NewRunner.deleting
      /\ NewRunner.sealed = config.ephemeral
  BY DEF TypeOK, NewRunner, NoRunner, OwnerOfPod, Phases
<1>3. /\ Deleted \in [phase : Phases, deleting : BOOLEAN, old : BOOLEAN,
                      owned : BOOLEAN, sealed : BOOLEAN]
      /\ Deleted.phase = runner.phase /\ Deleted.sealed = runner.sealed
      /\ Deleted.old = runner.old
      /\ Exists => Deleted.deleting
      /\ ~ Exists => Deleted = NoRunner
  BY DEF TypeOK, Deleted
<1>4. QED
  BY <1>1, <1>2, <1>3

(* A step of a run moves that run alone.                                   *)
LEMMA OneMoves ==
  ASSUME TypeOK, NEW a \in Adapters, Run(a) \/ Start(a) \/ Cancel(a) \/ Crash(a)
  PROVE  /\ config' = config /\ home' = home
         /\ pc'[a] \in Points /\ pc' = [pc EXCEPT ![a] = pc'[a]]
         /\ \A b \in Adapters : b # a => /\ pc'[b] = pc[b] /\ sealed'[b] = sealed[b]
                                         /\ created'[b] = created[b]
<1> USE DEF TypeOK, Points, Stopped, Goes
<1>1. CASE Reap(a) \/ Sweep(a) \/ GetOwner(a) \/ LookUp(a)
  BY <1>1 DEF Reap, Sweep, GetOwner, LookUp, cluster
<1>2. CASE CreateSecret(a)
  BY <1>2 DEF CreateSecret
<1>3. CASE CreatePod(a)
  BY <1>3 DEF CreatePod
<1>4. CASE Wait(a) \/ Handshake(a) \/ Finish(a)
  BY <1>4 DEF Wait, Handshake, Finish, cluster, locals
<1>5. CASE DeletePod(a) \/ DeleteSecret(a)
  BY <1>5 DEF DeletePod, DeleteSecret, AfterPod
<1>6. CASE Start(a) \/ Cancel(a) \/ Crash(a)
  BY <1>6 DEF Start, Cancel, Crash, cluster, locals
<1>7. QED
  BY <1>1, <1>2, <1>3, <1>4, <1>5, <1>6 DEF Run

(* The type invariant is inductive.                                        *)
LEMMA TypeStep == TypeOK /\ [Next]_vars => TypeOK'
<1> SUFFICES ASSUME TypeOK, [Next]_vars PROVE TypeOK'
  OBVIOUS
<1>1. ASSUME NEW a \in Adapters, Run(a) \/ Start(a) \/ Cancel(a) \/ Crash(a) PROVE TypeOK'
  <2>1. config' = config /\ home' = home /\ pc' \in [Adapters -> Points]
    BY <1>1, OneMoves DEF TypeOK
  <2>2. /\ runner' \in [phase : Phases, deleting : BOOLEAN, old : BOOLEAN,
                        owned : BOOLEAN, sealed : BOOLEAN]
        /\ ~ Exists' => runner' = NoRunner
    <3>1. runner' = runner \/ runner' = Deleted \/ runner' = NewRunner
      BY <1>1 DEF Run, Reap, Sweep, GetOwner, LookUp, CreateSecret, CreatePod, Wait, Handshake,
         Finish, DeletePod, DeleteSecret, Start, Cancel, Crash, cluster
    <3>2. QED
      BY <3>1, Values DEF TypeOK, Exists
  <2>3. secret' \in [present : BOOLEAN, owned : BOOLEAN]
    <3>1. \/ secret' = secret \/ secret' = NoSecret
          \/ secret' = [present |-> TRUE, owned |-> OwnerOfSecret]
      BY <1>1 DEF Run, Reap, Sweep, GetOwner, LookUp, CreateSecret, CreatePod, Wait, Handshake,
         Finish, DeletePod, DeleteSecret, Start, Cancel, Crash, cluster
    <3>2. QED
      <4>1. config.named \in BOOLEAN
        BY DEF TypeOK
      <4>2. [present |-> TRUE, owned |-> config.named] \in [present : BOOLEAN, owned : BOOLEAN]
        BY <4>1
      <4>3. QED
        BY <3>1, <4>2, Values DEF TypeOK, OwnerOfSecret
  <2>4. /\ created' \in [Adapters -> BOOLEAN] /\ sealed' \in [Adapters -> BOOLEAN]
        /\ ctxDone' \in [Adapters -> BOOLEAN] /\ faulted' \in [Adapters -> BOOLEAN]
    BY <1>1 DEF TypeOK, Run, Reap, Sweep, GetOwner, LookUp, CreateSecret, CreatePod, Wait,
       Handshake, Finish, DeletePod, DeleteSecret, Start, Cancel, Crash, Faults, locals
  <2>5. QED
    BY <2>1, <2>2, <2>3, <2>4 DEF TypeOK
<1>2. CASE World
  <2>1. UNCHANGED <<config, pc, created, sealed, ctxDone, faulted>>
    BY <1>2 DEF World, Kubelet, Collector, PodRuns, PodExits, PodRemoved, Evicted, TwoHoursPass,
       AdapterPodDeleted, CollectPod, CollectSecret, locals
  <2>2. home' \in {"up", "gone"} /\ secret' \in [present : BOOLEAN, owned : BOOLEAN]
    BY <1>2, Values DEF TypeOK, World, Kubelet, Collector, PodRuns, PodExits, PodRemoved,
       Evicted, TwoHoursPass, AdapterPodDeleted, CollectPod, CollectSecret
  <2>3. /\ runner' \in [phase : Phases, deleting : BOOLEAN, old : BOOLEAN,
                        owned : BOOLEAN, sealed : BOOLEAN]
        /\ ~ Exists' => runner' = NoRunner
    <3>1. CASE PodRuns \/ PodExits \/ TwoHoursPass
      BY <3>1 DEF TypeOK, PodRuns, PodExits, TwoHoursPass, Exists, Phases
    <3>2. CASE PodRemoved \/ Evicted \/ CollectPod
      BY <3>2, Values DEF TypeOK, PodRemoved, Evicted, CollectPod, Exists
    <3>3. CASE AdapterPodDeleted \/ CollectSecret
      BY <3>3 DEF TypeOK, AdapterPodDeleted, CollectSecret, Exists
    <3>4. QED
      BY <1>2, <3>1, <3>2, <3>3 DEF World, Kubelet, Collector
  <2>4. QED
    BY <2>1, <2>2, <2>3 DEF TypeOK
<1>3. CASE UNCHANGED vars
  BY <1>3 DEF TypeOK, Exists, vars, cluster, locals
<1>4. QED
  BY <1>1, <1>2, <1>3 DEF Next

(* What a step of the world does to the runner and the secret.             *)
LEMMA WorldEffect ==
  ASSUME TypeOK, World
  PROVE  /\ UNCHANGED <<config, pc, created, sealed, ctxDone, faulted>>
         /\ home' = "up" => home = "up" /\ secret' = secret
         /\ secret' = secret \/ ~ secret'.present
         /\ runner'.sealed => runner.sealed
         /\ Exists' /\ ~ runner'.deleting => Exists /\ ~ runner.deleting
         /\ Exists' => Exists /\ (runner.old => runner'.old)
<1>1. CASE PodRuns \/ PodExits \/ TwoHoursPass
  BY <1>1 DEF TypeOK, PodRuns, PodExits, TwoHoursPass, Exists, locals, Phases
<1>2. CASE PodRemoved \/ Evicted \/ CollectPod
  BY <1>2, Values DEF TypeOK, PodRemoved, Evicted, CollectPod, Exists, locals
<1>3. CASE AdapterPodDeleted \/ CollectSecret
  BY <1>3, Values DEF TypeOK, AdapterPodDeleted, CollectSecret, Exists, locals
<1>4. QED
  BY <1>1, <1>2, <1>3 DEF World, Kubelet, Collector

-----------------------------------------------------------------------------
(* LocalInv is inductive.                                                  *)
LEMMA LocalStep ==
  ASSUME TypeOK, LocalInv, [Next]_vars
  PROVE  LocalInv'
<1>1. ASSUME NEW a \in Adapters, Run(a) \/ Start(a) \/ Cancel(a) \/ Crash(a) PROVE LocalInv'
  <2> USE DEF LocalInv, Early, Goes
  <2>1. /\ config' = config /\ home' = home
        /\ \A b \in Adapters : b # a => /\ pc'[b] = pc[b] /\ sealed'[b] = sealed[b]
                                        /\ created'[b] = created[b]
    BY <1>1, OneMoves
  <2>2. SUFFICES /\ /\ pc'[a] \in Early => ~ sealed'[a]
                    /\ sealed'[a] => config.ephemeral
                    /\ created'[a] /\ config.ephemeral => sealed'[a]
                    /\ pc'[a] = "unsealing" => sealed'[a]
                 /\ runner'.sealed => config.ephemeral
                 /\ secret'.present => config.ephemeral
    BY <2>1
  <2>3. CASE Reap(a) \/ Sweep(a)
    BY <2>3, Values DEF Reap, Sweep, TypeOK, cluster
  <2>4. CASE GetOwner(a) \/ LookUp(a)
    BY <2>4 DEF GetOwner, LookUp, cluster, TypeOK
  <2>5. CASE CreateSecret(a)
    BY <2>5 DEF CreateSecret, TypeOK
  <2>6. CASE CreatePod(a)
    BY <2>6, Values DEF CreatePod, TypeOK
  <2>7. CASE Wait(a) \/ Handshake(a) \/ Finish(a) \/ Start(a) \/ Cancel(a) \/ Crash(a)
    BY <2>7 DEF Wait, Handshake, Finish, Start, Cancel, Crash, cluster, locals, TypeOK
  <2>8. CASE DeletePod(a)
    BY <2>8, Values DEF DeletePod, AfterPod, TypeOK
  <2>9. CASE DeleteSecret(a)
    BY <2>9, Values DEF DeleteSecret, TypeOK
  <2>10. QED
    BY <1>1, <2>3, <2>4, <2>5, <2>6, <2>7, <2>8, <2>9 DEF Run
<1>2. CASE World
  BY <1>2, WorldEffect DEF LocalInv
<1>3. CASE UNCHANGED vars
  BY <1>3 DEF LocalInv, vars, cluster, locals
<1>4. QED
  BY <1>1, <1>2, <1>3 DEF Next

(* A run becomes a holder by creating the secret, which is not there then; *)
(* only a holder deletes it, and it is one no more.                        *)
LEMMA HolderEffect ==
  ASSUME TypeOK, LocalInv, NEW a \in Adapters,
         Run(a) \/ Start(a) \/ Cancel(a) \/ Crash(a)
  PROVE  /\ \A b \in Adapters : b # a => (Holder(b)' <=> Holder(b))
         /\ Holder(a)' => \/ Holder(a) /\ secret' = secret
                          \/ ~ secret.present /\ secret'.present
         /\ secret.present => secret'.present \/ pc[a] = "unsealing"
         /\ pc[a] = "unsealing" => Holder(a) /\ runner' = runner
<1> USE DEF Holder, Late
<1>1. \A b \in Adapters : b # a => (Holder(b)' <=> Holder(b))
  BY OneMoves
<1>2. CASE Reap(a) \/ Sweep(a) \/ GetOwner(a) \/ LookUp(a)
  BY <1>1, <1>2 DEF Reap, Sweep, GetOwner, LookUp, cluster, Goes, TypeOK, LocalInv, Early
<1>3. CASE CreateSecret(a)
  BY <1>1, <1>3 DEF CreateSecret, Goes, TypeOK, LocalInv, Early
<1>4. CASE CreatePod(a)
  BY <1>1, <1>4 DEF CreatePod, Goes, TypeOK, LocalInv, Early
<1>5. CASE Wait(a) \/ Handshake(a) \/ Finish(a) \/ Cancel(a) \/ Crash(a) \/ Start(a)
  BY <1>1, <1>5 DEF Wait, Handshake, Finish, Cancel, Crash, Start, Goes, TypeOK, LocalInv,
     Early, cluster, locals
<1>6. CASE DeletePod(a)
  BY <1>1, <1>6, Values DEF DeletePod, AfterPod, Goes, TypeOK, LocalInv, Early
<1>7. CASE DeleteSecret(a)
  BY <1>1, <1>7 DEF DeleteSecret, Goes, TypeOK, LocalInv, Early
<1>8. QED
  BY <1>2, <1>3, <1>4, <1>5, <1>6, <1>7 DEF Run

(* What a step of a run does to the runner.                                *)
LEMMA RunnerEffect ==
  ASSUME TypeOK, NEW a \in Adapters, Run(a) \/ Start(a) \/ Cancel(a) \/ Crash(a)
  PROVE  /\ \/ runner' = runner
            \/ runner' = Deleted
            \/ runner' = NewRunner /\ ~ Exists /\ pc[a] = "creating"
         /\ pc'[a] = "unsealing" => pc[a] = "unsealing" \/ runner' = Deleted
         /\ pc'[a] = "unsealing" /\ pc[a] = "unsealing" => runner' = runner
         /\ pc'[a] = "sweeping" /\ pc[a] # "sweeping" => runner' = runner /\ runner.old
         /\ Up(a)' => Up(a) \/ (config.named => \A b \in Adapters : ~ Up(b))
<1> USE DEF Goes, Up, Stopped, TypeOK
<1>1. CASE Reap(a) \/ Sweep(a)
  BY <1>1 DEF Reap, Sweep, Outlived, cluster
<1>2. CASE GetOwner(a) \/ LookUp(a)
  BY <1>2 DEF GetOwner, LookUp, cluster
<1>3. CASE CreateSecret(a)
  BY <1>3 DEF CreateSecret
<1>4. CASE CreatePod(a)
  BY <1>4 DEF CreatePod
<1>5. CASE Wait(a) \/ Handshake(a) \/ Finish(a) \/ Cancel(a) \/ Crash(a)
  BY <1>5 DEF Wait, Handshake, Finish, Cancel, Crash, cluster
<1>6. CASE Start(a)
  BY <1>6 DEF Start, cluster
<1>7. CASE DeletePod(a)
  BY <1>7 DEF DeletePod, AfterPod
<1>8. CASE DeleteSecret(a)
  BY <1>8 DEF DeleteSecret
<1>9. QED
  BY <1>1, <1>2, <1>3, <1>4, <1>5, <1>6, <1>7, <1>8 DEF Run

(* HolderInv is inductive, and with it SecretOutlivesUse: a run cleaning   *)
(* up has the secret to itself, so no other can create a runner meanwhile. *)
LEMMA HolderStep ==
  ASSUME TypeOK, LocalInv, HolderInv, SecretOutlivesUse, [Next]_vars
  PROVE  HolderInv' /\ SecretOutlivesUse'
<1>1. ASSUME NEW a \in Adapters, Run(a) \/ Start(a) \/ Cancel(a) \/ Crash(a)
      PROVE  HolderInv' /\ SecretOutlivesUse'
  <2>1. config' = config /\ home' = home
        /\ \A b \in Adapters : b # a => pc'[b] = pc[b]
    BY <1>1, OneMoves
  <2>2. /\ \A b \in Adapters : b # a => (Holder(b)' <=> Holder(b))
        /\ Holder(a)' => \/ Holder(a) /\ secret' = secret
                         \/ ~ secret.present /\ secret'.present
        /\ secret.present => secret'.present \/ pc[a] = "unsealing"
        /\ pc[a] = "unsealing" => Holder(a) /\ runner' = runner
    BY <1>1, HolderEffect
  <2>3. /\ \/ runner' = runner
           \/ runner' = Deleted
           \/ runner' = NewRunner /\ ~ Exists /\ pc[a] = "creating"
        /\ pc'[a] = "unsealing" => pc[a] = "unsealing" \/ runner' = Deleted
        /\ pc'[a] = "unsealing" /\ pc[a] = "unsealing" => runner' = runner
    BY <1>1, RunnerEffect
  <2> SUFFICES ASSUME home = "up" PROVE HolderInv' /\ SecretOutlivesUse'
    BY <2>1 DEF HolderInv, SecretOutlivesUse
  <2>4. \A b \in Adapters : Holder(b)' => secret'.present
    <3>1. ASSUME NEW b \in Adapters, b # a, Holder(b)' PROVE secret'.present
      <4>1. Holder(b) /\ secret.present
        BY <2>2, <3>1 DEF HolderInv
      <4>2. pc[a] # "unsealing"
        BY <2>2, <3>1, <4>1 DEF HolderInv
      <4>3. QED
        BY <2>2, <4>1, <4>2
    <3>2. Holder(a)' => secret'.present
      BY <2>2 DEF HolderInv
    <3>3. QED
      BY <3>1, <3>2
  <2>5. \A b, c \in Adapters : Holder(b)' /\ Holder(c)' => b = c
    <3>1. ASSUME NEW b \in Adapters, b # a, Holder(b)', Holder(a)' PROVE FALSE
      BY <2>2, <3>1 DEF HolderInv
    <3>2. ASSUME NEW b \in Adapters, NEW c \in Adapters, b # a, c # a, Holder(b)', Holder(c)'
          PROVE  b = c
      BY <2>2, <3>2 DEF HolderInv
    <3>3. QED
      BY <3>1, <3>2
  <2>6. InUse' => InUse \/ (pc[a] = "creating" /\ config.ephemeral)
    <3>1. CASE runner' = runner
      BY <3>1 DEF InUse, Exists
    <3>2. CASE runner' = Deleted
      BY <3>2, Values DEF InUse, Exists
    <3>3. CASE runner' = NewRunner /\ pc[a] = "creating"
      BY <3>3, Values DEF InUse, Exists
    <3>4. QED
      BY <2>3, <3>1, <3>2, <3>3
  <2>7. \A b \in Adapters : pc'[b] = "unsealing" => ~ InUse'
    <3>1. ASSUME NEW b \in Adapters, pc'[b] = "unsealing", pc[b] = "unsealing", InUse'
          PROVE  FALSE
      <4>1. ~ InUse
        BY <3>1 DEF HolderInv
      <4>2. pc[a] = "creating" /\ config.ephemeral
        BY <2>6, <3>1, <4>1
      <4>3. Holder(a) /\ Holder(b) /\ a # b
        BY <3>1, <4>2 DEF Holder, Late, LocalInv
      <4>4. QED
        BY <4>3 DEF HolderInv
    <3>2. ASSUME NEW b \in Adapters, pc'[b] = "unsealing", pc[b] # "unsealing" PROVE ~ InUse'
      <4>1. runner' = Deleted
        BY <2>1, <2>3, <3>2
      <4>2. QED
        BY <4>1, Values DEF InUse, Exists
    <3>3. QED
      BY <3>1, <3>2
  <2>8. InUse' => secret'.present
    <3>1. CASE pc[a] = "creating" /\ config.ephemeral
      <4>1. secret.present
        BY <3>1 DEF HolderInv, Holder
      <4>2. QED
        BY <2>2, <3>1, <4>1
    <3>2. CASE InUse
      <4>1. secret.present /\ pc[a] # "unsealing"
        BY <3>2 DEF SecretOutlivesUse, HolderInv, InUse
      <4>2. QED
        BY <2>2, <4>1
    <3>3. QED
      BY <2>6, <3>1, <3>2
  <2>9. HolderInv'
    BY <2>4, <2>5, <2>7 DEF HolderInv
  <2>10. SecretOutlivesUse'
    BY <2>8 DEF SecretOutlivesUse, InUse
  <2>11. QED
    BY <2>9, <2>10
<1>2. CASE World
  BY <1>2, WorldEffect DEF HolderInv, SecretOutlivesUse, Holder, InUse
<1>3. CASE UNCHANGED vars
  BY <1>3 DEF HolderInv, SecretOutlivesUse, Holder, InUse, Exists, vars, cluster, locals
<1>4. QED
  BY <1>1, <1>2, <1>3 DEF Next

(* NamedInv is inductive.                                                  *)
LEMMA NamedStep ==
  ASSUME TypeOK, LocalInv, NamedInv, [Next]_vars
  PROVE  NamedInv'
<1>1. ASSUME NEW a \in Adapters, Run(a) \/ Start(a) \/ Cancel(a) \/ Crash(a) PROVE NamedInv'
  <2>1. config' = config /\ \A b \in Adapters : b # a => pc'[b] = pc[b]
    BY <1>1, OneMoves
  <2>2. /\ \/ runner' = runner
           \/ runner' = Deleted
           \/ runner' = NewRunner /\ ~ Exists /\ pc[a] = "creating"
        /\ pc'[a] = "unsealing" => pc[a] = "unsealing" \/ runner' = Deleted
        /\ pc'[a] = "sweeping" /\ pc[a] # "sweeping" => runner' = runner /\ runner.old
        /\ Up(a)' => Up(a) \/ (config.named => \A b \in Adapters : ~ Up(b))
    BY <1>1, RunnerEffect
  <2> SUFFICES ASSUME config.named PROVE NamedInv'
    BY <2>1 DEF NamedInv
  <2>3. \A b, c \in Adapters : Up(b)' /\ Up(c)' => b = c
    <3>1. \A b \in Adapters : b # a => (Up(b)' <=> Up(b))
      BY <2>1 DEF Up
    <3>2. QED
      BY <2>2, <3>1 DEF NamedInv
  <2>4. \A b \in Adapters : pc'[b] = "unsealing" => ~ Exists' \/ runner'.deleting
    <3>1. ASSUME NEW b \in Adapters, pc'[b] = "unsealing", pc[b] = "unsealing"
          PROVE  ~ Exists' \/ runner'.deleting
      <4>1. Up(b) /\ (~ Exists \/ runner.deleting)
        BY <3>1 DEF NamedInv, Up, Stopped
      <4>2. pc[a] # "creating"
        BY <3>1, <4>1 DEF NamedInv, Up, Stopped
      <4>3. QED
        BY <2>2, <4>1, <4>2, Values DEF Exists
    <3>2. ASSUME NEW b \in Adapters, pc'[b] = "unsealing", pc[b] # "unsealing"
          PROVE  ~ Exists' \/ runner'.deleting
      BY <2>1, <2>2, <3>2, Values DEF Exists
    <3>3. QED
      BY <3>1, <3>2
  <2>5. \A b \in Adapters : pc'[b] = "sweeping" => ~ Exists' \/ runner'.old
    <3>1. ASSUME NEW b \in Adapters, pc'[b] = "sweeping", pc[b] = "sweeping"
          PROVE  ~ Exists' \/ runner'.old
      <4>1. Up(b) /\ (~ Exists \/ runner.old)
        BY <3>1 DEF NamedInv, Up, Stopped
      <4>2. pc[a] # "creating"
        BY <3>1, <4>1 DEF NamedInv, Up, Stopped
      <4>3. QED
        BY <2>2, <4>1, <4>2, Values DEF Exists
    <3>2. ASSUME NEW b \in Adapters, pc'[b] = "sweeping", pc[b] # "sweeping"
          PROVE  ~ Exists' \/ runner'.old
      BY <2>1, <2>2, <3>2
    <3>3. QED
      BY <3>1, <3>2
  <2>6. QED
    BY <2>3, <2>4, <2>5 DEF NamedInv
<1>2. CASE World
  BY <1>2, WorldEffect DEF NamedInv, Up
<1>3. CASE UNCHANGED vars
  BY <1>3 DEF NamedInv, Up, Exists, vars, cluster, locals
<1>4. QED
  BY <1>1, <1>2, <1>3 DEF Next

(* The invariant holds in every reachable state.                           *)
LEMMA RunnerInvHolds == Spec => []RunnerInv
<1>1. RunnerInv /\ [Next]_vars => RunnerInv'
  BY TypeStep, LocalStep, HolderStep, NamedStep DEF RunnerInv
<1>2. QED
  BY <1>1, InitRunnerInv, PTL DEF Spec

-----------------------------------------------------------------------------
(* What OwnedGoesWithOwner rests on besides fairness: what is left is the  *)
(* collector's, a run ends, and what has gone is not made again.           *)

(* Only an adapter Pod whose name is known is gone for its runs, and what  *)
(* they create under that name is owned.                                   *)
Owned ==
  /\ home = "gone" => config.named
  /\ config.named => (Exists => runner.owned) /\ (secret.present => secret.owned)

(* Owned is inductive.                                                     *)
LEMMA OwnedStep == TypeOK /\ Owned /\ [Next]_vars => Owned'
<1> SUFFICES ASSUME TypeOK, Owned, [Next]_vars PROVE Owned'
  OBVIOUS
<1>1. NewRunner.owned = config.named /\ (Exists => Deleted.owned = runner.owned)
  BY DEF NewRunner, NoRunner, OwnerOfPod, Deleted, TypeOK
<1>2. ASSUME NEW a \in Adapters, Run(a) \/ Start(a) \/ Cancel(a) \/ Crash(a) PROVE Owned'
  <2>1. config' = config /\ home' = home
    BY <1>2, OneMoves
  <2>2. runner' = runner \/ runner' = Deleted \/ runner' = NewRunner
    BY <1>2, RunnerEffect
  <2>3. \/ secret' = secret \/ secret' = NoSecret
        \/ secret' = [present |-> TRUE, owned |-> OwnerOfSecret]
    BY <1>2 DEF Run, Reap, Sweep, GetOwner, LookUp, CreateSecret, CreatePod, Wait, Handshake,
       Finish, DeletePod, DeleteSecret, Start, Cancel, Crash, cluster
  <2>4. config.named => (Exists' => runner'.owned)
    BY <1>1, <2>2, Values DEF Owned, Exists
  <2>5. config.named => (secret'.present => secret'.owned)
    BY <2>3, Values DEF Owned, OwnerOfSecret
  <2>6. QED
    BY <2>1, <2>4, <2>5 DEF Owned
<1>3. CASE World
  <2>1. CASE PodRuns \/ PodExits \/ TwoHoursPass
    BY <2>1 DEF TypeOK, PodRuns, PodExits, TwoHoursPass, Exists, Owned, locals
  <2>2. CASE PodRemoved \/ Evicted \/ CollectPod
    BY <1>1, <2>2, Values DEF TypeOK, PodRemoved, Evicted, CollectPod, Exists, Owned, locals
  <2>3. CASE AdapterPodDeleted \/ CollectSecret
    BY <2>3, Values DEF TypeOK, AdapterPodDeleted, CollectSecret, Exists, Owned, locals
  <2>4. QED
    BY <1>3, <2>1, <2>2, <2>3 DEF World, Kubelet, Collector
<1>4. CASE UNCHANGED vars
  BY <1>4 DEF Owned, Exists, vars, cluster
<1>5. QED
  BY <1>2, <1>3, <1>4 DEF Next

(* The steps a run has left, if it does not fail.                          *)
StepsLeft ==
  [at \in Points |->
     CASE at = "unstarted" -> 12 [] at = "reaping" -> 11 [] at = "sweeping" -> 10
       [] at = "owning" -> 9 [] at = "looking" -> 8 [] at = "securing" -> 7 [] at = "creating" -> 6
       [] at = "waiting" -> 5 [] at = "attaching" -> 4 [] at = "serving" -> 3
       [] at = "cleaning" -> 2 [] at = "unsealing" -> 1 [] OTHER -> 0]

(* From where to where a step takes a run.                                 *)
Forward ==
  {<<"unstarted", "reaping">>, <<"reaping", "owning">>, <<"reaping", "sweeping">>,
   <<"sweeping", "owning">>, <<"owning", "looking">>, <<"looking", "securing">>,
   <<"looking", "waiting">>, <<"securing", "creating">>, <<"creating", "waiting">>,
   <<"waiting", "attaching">>, <<"attaching", "serving">>,
   <<"serving", "cleaning">>, <<"cleaning", "unsealing">>}

(* Every move of a run is forward or its last.                             *)
LEMMA MovesOn ==
  ASSUME TypeOK, NEW a \in Adapters, Run(a) \/ Start(a) \/ Crash(a)
  PROVE  <<pc[a], pc'[a]>> \in Forward \/ (pc[a] \notin Stopped /\ pc'[a] \in Stopped)
<1> USE DEF TypeOK, Goes, Stopped, Forward
<1>1. CASE Reap(a) \/ Sweep(a) \/ GetOwner(a) \/ LookUp(a)
  BY <1>1 DEF Reap, Sweep, GetOwner, LookUp
<1>2. CASE CreateSecret(a) \/ CreatePod(a)
  BY <1>2 DEF CreateSecret, CreatePod
<1>3. CASE Wait(a) \/ Handshake(a) \/ Finish(a)
  BY <1>3 DEF Wait, Handshake, Finish
<1>4. CASE DeletePod(a) \/ DeleteSecret(a)
  BY <1>4 DEF DeletePod, DeleteSecret, AfterPod
<1>5. CASE Start(a) \/ Crash(a)
  BY <1>5 DEF Start, Crash, Up
<1>6. QED
  BY <1>1, <1>2, <1>3, <1>4, <1>5 DEF Run

(* A move leaves fewer steps.                                              *)
LEMMA FewerSteps ==
  ASSUME NEW from \in Points, NEW to \in Points,
         <<from, to>> \in Forward \/ (from \notin Stopped /\ to \in Stopped)
  PROVE  StepsLeft[from] \in Nat /\ StepsLeft[to] \in Nat /\ StepsLeft[to] < StepsLeft[from]
<1>1. ASSUME NEW at \in Points
      PROVE  /\ StepsLeft[at] \in Nat
             /\ at \in Stopped => StepsLeft[at] = 0
             /\ at \notin Stopped => StepsLeft[at] > 0
  BY DEF StepsLeft, Points, Stopped
<1>2. CASE <<from, to>> \in Forward
  BY <1>2 DEF StepsLeft, Points, Stopped, Forward
<1>3. CASE from \notin Stopped /\ to \in Stopped
  BY <1>1, <1>3
<1>4. QED
  BY <1>1, <1>2, <1>3

-----------------------------------------------------------------------------
(* Every variable keeps to its range.                                      *)
THEOREM RunnerTypeCorrect == Spec => []TypeOK
  BY RunnerInvHolds, PTL DEF RunnerInv

(* However many runs create, adopt, clean up, fail or crash: a runner that *)
(* mounts the secret has it as long as it is meant to live.                *)
THEOREM SecretIsThere == Spec => []SecretOutlivesUse
  BY RunnerInvHolds, PTL DEF RunnerInv

(* Under deletionPolicy Keep no run deletes a runner younger than two      *)
(* hours, be it its own or one it adopted, but for a reaper whose runner   *)
(* has no Pod name to set it apart from those of other runs.               *)
THEOREM KeptRunnersStay == Spec => KeepHonoured
<1>1. RunnerInv /\ [Next]_vars =>
        [\A a \in Adapters :
           /\ config.keep /\ pc'[a] # pc[a]
           /\ runner'.deleting /\ ~ runner.deleting
           => \/ runner.old
              \/ pc[a] = "sweeping" /\ ~ config.named]_vars
  <2> SUFFICES ASSUME RunnerInv, Next, NEW a \in Adapters, config.keep, pc'[a] # pc[a],
                      runner'.deleting, ~ runner.deleting
               PROVE  runner.old \/ (pc[a] = "sweeping" /\ ~ config.named)
    OBVIOUS
  <2>1. TypeOK /\ NamedInv
    BY DEF RunnerInv
  <2>2. PICK b \in Adapters : Run(b) \/ Start(b) \/ Cancel(b) \/ Crash(b)
    BY <2>1, WorldEffect DEF Next
  <2>3. b = a
    BY <2>1, <2>2, OneMoves
  <2>4. CASE Sweep(a)
    <3>1. pc[a] = "sweeping" /\ runner' = Deleted
      BY <2>4 DEF Sweep, Goes
    <3>2. Exists
      BY <2>1, <3>1, Values DEF TypeOK
    <3>3. QED
      BY <2>1, <3>1, <3>2 DEF NamedInv
  <2>5. CASE CreatePod(a)
    BY <2>1, <2>5, Values DEF CreatePod
  <2>6. CASE DeletePod(a)
    BY <2>6 DEF DeletePod, Keeps
  <2>7. CASE ~ (Sweep(a) \/ CreatePod(a) \/ DeletePod(a))
    BY <2>2, <2>3, <2>7 DEF Run, Reap, GetOwner, LookUp, CreateSecret, Wait, Handshake, Finish,
       DeleteSecret, Start, Cancel, Crash, cluster
  <2>8. QED
    BY <2>4, <2>5, <2>6, <2>7
<1>2. QED
  BY <1>1, RunnerInvHolds, PTL DEF Spec, KeepHonoured

(* A run whose cleanup goes through leaves neither Pod nor secret.         *)
THEOREM CleanupIsComplete == Spec => OrderlyEnd
<1>1. RunnerInv /\ [Next]_vars =>
        [\A a \in Adapters :
           /\ pc[a] \in {"cleaning", "unsealing"} /\ pc'[a] = "done"
           /\ config.named /\ ~ config.keep
           /\ created[a] /\ ~ faulted'[a] /\ ~ ctxDone[a]
           /\ pc[a] = "cleaning" => Exists
           => /\ runner'.phase = "absent" \/ runner'.deleting
              /\ ~ secret'.present]_vars
  <2> SUFFICES ASSUME RunnerInv, Next, NEW a \in Adapters,
                      pc[a] \in {"cleaning", "unsealing"}, pc'[a] = "done",
                      config.named, ~ config.keep, created[a], ~ faulted'[a], ~ ctxDone[a],
                      pc[a] = "cleaning" => Exists
               PROVE  /\ runner'.phase = "absent" \/ runner'.deleting
                      /\ ~ secret'.present
    OBVIOUS
  <2>1. TypeOK /\ LocalInv /\ NamedInv
    BY DEF RunnerInv
  <2>2. PICK b \in Adapters : Run(b) \/ Start(b) \/ Cancel(b) \/ Crash(b)
    BY <2>1, WorldEffect DEF Next
  <2>3. b = a
    BY <2>1, <2>2, OneMoves
  <2>4. CASE DeletePod(a)
    <3>1. Exists /\ runner' = Deleted /\ secret' = secret /\ ~ sealed[a]
      BY <2>1, <2>4 DEF DeletePod, AfterPod, Goes, Keeps, Faults, TypeOK
    <3>2. QED
      BY <2>1, <3>1, Values DEF LocalInv
  <2>5. CASE DeleteSecret(a)
    <3>1. runner' = runner /\ secret' = NoSecret /\ pc[a] = "unsealing"
      BY <2>1, <2>5 DEF DeleteSecret, Goes, Faults, TypeOK
    <3>2. QED
      BY <2>1, <3>1, Values DEF NamedInv, Exists
  <2>6. DeletePod(a) \/ DeleteSecret(a)
    BY <2>1, <2>2, <2>3 DEF TypeOK, Run, Reap, Sweep, GetOwner, LookUp, CreateSecret, CreatePod, Wait,
       Handshake, Finish, Start, Cancel, Crash, Goes
  <2>7. QED
    BY <2>4, <2>5, <2>6
<1>2. QED
  BY <1>1, RunnerInvHolds, PTL DEF Spec, OrderlyEnd

(* Once the adapter Pod is gone, what is left of its runs names it as      *)
(* owner, so that the garbage collector may take it                        *)
(* (runner_pod.go:229-230, 284-285; README.md:10).                         *)
THEOREM LeftToCollector ==
  Spec => [](home = "gone" =>
               (Exists => runner.owned) /\ (secret.present => secret.owned))
<1>1. Init => Owned
  BY DEF Init, Owned, Exists, NoRunner, NoSecret
<1>2. RunnerInv /\ Owned /\ [Next]_vars => Owned'
  BY OwnedStep DEF RunnerInv
<1>3. Owned => (home = "gone" =>
                  (Exists => runner.owned) /\ (secret.present => secret.owned))
  BY DEF Owned
<1>4. QED
  BY <1>1, <1>2, <1>3, RunnerInvHolds, PTL DEF Spec

(* A run of the adapter never goes back: whatever it meets, each step of   *)
(* its own, its start or its crash leaves it fewer, and nobody else's      *)
(* leaves it more; twelve at the most (handler.go:107-188).                *)
THEOREM RunsEnd ==
  Spec => [][ \A a \in Adapters :
                /\ StepsLeft[pc[a]] \in 0 .. 12
                /\ Run(a) \/ Start(a) \/ Crash(a) => StepsLeft[pc'[a]] < StepsLeft[pc[a]]
                /\ pc'[a] # pc[a] => StepsLeft[pc'[a]] < StepsLeft[pc[a]] ]_vars
<1>1. TypeOK /\ [Next]_vars =>
        [ \A a \in Adapters :
            /\ StepsLeft[pc[a]] \in 0 .. 12
            /\ Run(a) \/ Start(a) \/ Crash(a) => StepsLeft[pc'[a]] < StepsLeft[pc[a]]
            /\ pc'[a] # pc[a] => StepsLeft[pc'[a]] < StepsLeft[pc[a]] ]_vars
  <2> SUFFICES ASSUME TypeOK, Next, NEW a \in Adapters
               PROVE  /\ StepsLeft[pc[a]] \in 0 .. 12
                      /\ Run(a) \/ Start(a) \/ Crash(a) => StepsLeft[pc'[a]] < StepsLeft[pc[a]]
                      /\ pc'[a] # pc[a] => StepsLeft[pc'[a]] < StepsLeft[pc[a]]
    OBVIOUS
  <2>1. pc[a] \in Points
    BY DEF TypeOK
  <2>2. StepsLeft[pc[a]] \in 0 .. 12
    BY <2>1 DEF StepsLeft
  <2>3. Run(a) \/ Start(a) \/ Crash(a) => StepsLeft[pc'[a]] < StepsLeft[pc[a]]
    BY <2>1, OneMoves, MovesOn, FewerSteps
  <2>4. pc'[a] # pc[a] => Run(a) \/ Start(a) \/ Crash(a)
    <3>1. CASE World
      BY <3>1, WorldEffect
    <3>2. ASSUME NEW b \in Adapters, Run(b) \/ Start(b) \/ Cancel(b) \/ Crash(b), pc'[a] # pc[a]
          PROVE  Run(a) \/ Start(a) \/ Crash(a)
      BY <3>2, OneMoves DEF Cancel
    <3>3. QED
      BY <3>1, <3>2 DEF Next
  <2>5. QED
    BY <2>2, <2>3, <2>4
<1>2. QED
  BY <1>1, RunnerTypeCorrect, PTL DEF Spec

(* Once the adapter Pod is gone and none of its runs is up, that stays so, *)
(* and neither the runner nor its secret is made again; a runner on its    *)
(* way out stays on it (runner_pod.go:58-84).                              *)
THEOREM GoneForGood ==
  Spec => [][ home = "gone" /\ (\A a \in Adapters : ~ Up(a)) =>
                /\ home' = "gone" /\ \A a \in Adapters : ~ Up(a)'
                /\ ~ Exists => ~ Exists'
                /\ runner.deleting => ~ Exists' \/ runner'.deleting
                /\ ~ secret.present => ~ secret'.present ]_vars
<1>1. TypeOK /\ Owned /\ [Next]_vars =>
        [ home = "gone" /\ (\A a \in Adapters : ~ Up(a)) =>
            /\ home' = "gone" /\ \A a \in Adapters : ~ Up(a)'
            /\ ~ Exists => ~ Exists'
            /\ runner.deleting => ~ Exists' \/ runner'.deleting
            /\ ~ secret.present => ~ secret'.present ]_vars
  <2> SUFFICES ASSUME TypeOK, Owned, Next, home = "gone", \A a \in Adapters : ~ Up(a)
               PROVE  /\ home' = "gone" /\ \A a \in Adapters : ~ Up(a)'
                      /\ ~ Exists => ~ Exists'
                      /\ runner.deleting => ~ Exists' \/ runner'.deleting
                      /\ ~ secret.present => ~ secret'.present
    OBVIOUS
  <2>1. ASSUME NEW a \in Adapters, Run(a) \/ Start(a) \/ Cancel(a) \/ Crash(a) PROVE FALSE
    <3>1. pc[a] \in Stopped \cup {"unstarted"}
      BY DEF Up
    <3>2. ~ Run(a)
      BY <3>1 DEF Run, Reap, Sweep, GetOwner, LookUp, CreateSecret, CreatePod, Wait, Handshake, Finish,
         DeletePod, DeleteSecret, Goes, Stopped
    <3>3. ~ Start(a)
      BY DEF Start, Owned
    <3>4. ~ Cancel(a) /\ ~ Crash(a)
      BY <3>1 DEF Cancel, Crash, Stopped
    <3>5. QED
      BY <2>1, <3>2, <3>3, <3>4
  <2>2. World
    BY <2>1 DEF Next
  <2>3. home' = "gone" /\ pc' = pc /\ (~ secret.present => ~ secret'.present)
    BY <2>2, WorldEffect DEF TypeOK, World, Kubelet, Collector, PodRuns, PodExits, PodRemoved,
       Evicted, TwoHoursPass, AdapterPodDeleted, CollectPod, CollectSecret
  <2>4. ~ Exists => ~ Exists'
    <3>1. ~ Exists => ~ runner.deleting /\ runner.phase = "absent"
      BY Values DEF TypeOK, Exists
    <3>2. CASE PodRuns \/ PodExits \/ TwoHoursPass \/ Evicted
      BY <3>2 DEF PodRuns, PodExits, TwoHoursPass, Evicted, Exists
    <3>3. CASE PodRemoved \/ CollectPod \/ AdapterPodDeleted \/ CollectSecret
      BY <3>3, Values DEF PodRemoved, CollectPod, AdapterPodDeleted, CollectSecret, Exists
    <3>4. QED
      BY <2>2, <3>2, <3>3 DEF World, Kubelet, Collector
  <2>5. runner.deleting => ~ Exists' \/ runner'.deleting
    BY <2>2, WorldEffect
  <2>6. QED
    BY <2>3, <2>4, <2>5 DEF Up
<1>2. Init => Owned
  BY DEF Init, Owned, Exists, NoRunner, NoSecret
<1>3. RunnerInv /\ Owned /\ [Next]_vars => Owned'
  BY OwnedStep DEF RunnerInv
<1>4. RunnerInv => TypeOK
  BY DEF RunnerInv
<1>5. QED
  BY <1>1, <1>2, <1>3, <1>4, RunnerInvHolds, PTL DEF Spec
=============================================================================
