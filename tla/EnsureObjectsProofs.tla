------------------------- MODULE EnsureObjectsProofs ------------------------
(***************************************************************************)
(* Safety of Ensure for any number of calls and specs, and any number of   *)
(* faults and deletions.  All rests on a version naming one state of its   *)
(* object, for ever: that is what an update sends back.                    *)
(***************************************************************************)
EXTENDS EnsureObjects, TLAPS

(* Versions were given out before, and a call that has read one and finds  *)
(* it again finds the object as it was.                                    *)
VersionsIdentify ==
  /\ \A o \in Objects : store[o].rv <= clock
  /\ \A c \in Calls : at[c] = "write" => base[c].rv <= clock
  /\ \A c \in Calls :
       at[c] = "write" /\ base[c] # Absent /\ base[c].rv = store[stage[c]].rv
         => base[c] = store[stage[c]]

(* A call that nothing disturbs is the only one active, has read what is   *)
(* there, and comes to the Service with the Deployment in place.           *)
Undisturbed ==
  \A c \in lone :
    /\ at[c] # "new"
    /\ c \in Active => Active = {c}
    /\ at[c] = "write" => base[c] = store[stage[c]]
    /\ c \in Active /\ stage[c] = "service" => store["deployment"].spec = spec[c]

(* A call begins with the Deployment.                                      *)
DeploymentFirst == \A c \in Calls : at[c] = "new" => stage[c] = "deployment"

EnsureInv == TypeOK /\ VersionsIdentify /\ DeploymentFirst /\ Undisturbed

-----------------------------------------------------------------------------
(* The initial states satisfy the invariant.                               *)
LEMMA InitEnsureInv == Init => EnsureInv
<1> SUFFICES ASSUME Init PROVE EnsureInv
  OBVIOUS
<1> USE BoundsAssumption DEF Init
<1>1. TypeOK
  BY DEF TypeOK, Object, Objects
<1>2. VersionsIdentify
  BY DEF VersionsIdentify, Absent
<1>3. DeploymentFirst /\ Undisturbed
  BY DEF DeploymentFirst, Undisturbed
<1>4. QED
  BY <1>1, <1>2, <1>3 DEF EnsureInv

(* What an accepted write puts in place, and on what.                      *)
LEMMA WriteBasis ==
  ASSUME TypeOK, VersionsIdentify, NEW c \in Calls, at[c] = "write", Accepted(c)
  PROVE  base[c] = store[stage[c]]
<1>1. stage[c] \in Objects /\ base[c] \in Object(stage[c])
  BY DEF TypeOK
<1>2. CASE CreateAccepted(c)
  BY <1>2 DEF CreateAccepted
<1>3. CASE UpdateAccepted(c)
  <2>1. base[c] # Absent /\ base[c].rv \in {0, store[stage[c]].rv}
    BY <1>3 DEF UpdateAccepted, Version
  <2>2. base[c].rv # 0
    BY <1>1, <2>1 DEF Object
  <2>3. QED
    BY <2>1, <2>2 DEF VersionsIdentify
<1>4. QED
  BY <1>2, <1>3 DEF Accepted

(* What a write stores is an object.                                       *)
LEMMA WrittenType ==
  ASSUME TypeOK, NEW c \in Calls, at[c] = "write", Accepted(c)
  PROVE  /\ Stored(c) \in Object(stage[c])
         /\ Stored(c) = [rv |-> clock + 1, spec |-> spec[c], ip |-> StoredIp(c)]
<1>1. /\ stage[c] \in Objects /\ base[c] \in Object(stage[c]) /\ clock \in Nat
      /\ spec[c] \in Specs /\ store[stage[c]] \in Object(stage[c])
  BY DEF TypeOK
<1>2. CASE stage[c] = "deployment"
  BY <1>1, <1>2 DEF Stored, StoredIp, Ip, Object
<1>3. CASE stage[c] # "deployment"
  <2>1. stage[c] = "service"
    BY <1>1, <1>3 DEF Objects
  <2>2. base[c].ip \in Nat
    BY <1>1, <2>1 DEF Object, Absent, Unset
  <2>3. Ip(c) \in Nat
    BY <2>1, <2>2 DEF Ip, WantedIp, None, Unset
  <2>4. store[stage[c]] # Absent => store[stage[c]].ip \in Nat \ {Unset}
    BY <1>1, <2>1 DEF Object
  <2>5. StoredIp(c) \in Nat \ {Unset}
    BY <1>1, <2>1, <2>3, <2>4 DEF StoredIp, Unset
  <2>6. QED
    BY <1>1, <2>1, <2>5 DEF Stored, Object
<1>4. QED
  BY <1>2, <1>3

(* Where a call is after a write.                                          *)
LEMMA Moves ==
  ASSUME TypeOK, NEW c \in Calls, Proceed(c) \/ Abandon(c)
  PROVE  /\ at' \in [Calls -> {"new", "get", "write", "ok", "error"}]
         /\ at'[c] \in {"get", "ok", "error"}
         /\ \A d \in Calls : d # c => at'[d] = at[d] /\ stage'[d] = stage[d]
         /\ stage' \in [Calls -> Objects]
BY DEF TypeOK, Proceed, Abandon, Objects

-----------------------------------------------------------------------------
(* Type correctness.                                                       *)
LEMMA TypeStep ==
  ASSUME TypeOK, [Next]_vars
  PROVE  TypeOK'
<1> USE BoundsAssumption DEF TypeOK
<1>1. ASSUME NEW c \in Calls, Begin(c) PROVE TypeOK'
  <2>1. PICK s \in Specs : spec' = [spec EXCEPT ![c] = s]
    BY <1>1 DEF Begin
  <2>2. /\ at' = [at EXCEPT ![c] = "get"] /\ at[c] = "new"
        /\ UNCHANGED <<store, clock, stage, base, faults, deletes>>
        /\ lone' \subseteq lone \cup {c}
    BY <1>1 DEF Begin, apiVars, bounds
  <2>3. QED
    BY <2>1, <2>2
<1>2. ASSUME NEW c \in Calls, Get(c) PROVE TypeOK'
  <2>1. PICK b \in {store[stage[c]], Absent} : base' = [base EXCEPT ![c] = b]
    BY <1>2 DEF Get
  <2>2. /\ at' = [at EXCEPT ![c] = "write"] /\ at[c] = "get"
        /\ UNCHANGED <<store, clock, stage, spec, deletes>>
        /\ lone' \subseteq lone /\ faults' \in 0 .. MaxFaults
    BY <1>2 DEF Get, NoFault, Fault, apiVars
  <2>3. b \in Object(stage[c])
    BY DEF Object
  <2>4. QED
    BY <2>1, <2>2, <2>3
<1>3. ASSUME NEW c \in Calls, Write(c) PROVE TypeOK'
  <2>1. /\ store' = [store EXCEPT ![stage[c]] = Stored(c)] /\ clock' = clock + 1
        /\ UNCHANGED <<spec, base, deletes>>
        /\ lone' \subseteq lone /\ faults' \in 0 .. MaxFaults
        /\ Proceed(c) \/ Abandon(c)
    BY <1>3 DEF Write, NoFault, Fault
  <2>2. Stored(c) \in Object(stage[c]) /\ stage[c] \in Objects
    BY <1>3, WrittenType DEF Write
  <2>3. /\ \A o \in Objects : store'[o] \in Object(o)
        /\ store' = [o \in Objects |-> store'[o]]
    BY <2>1, <2>2
  <2>4. /\ at' \in [Calls -> {"new", "get", "write", "ok", "error"}]
        /\ stage' \in [Calls -> Objects]
        /\ \A d \in Calls : at'[d] # "new" => spec'[d] \in Specs
        /\ \A d \in Calls : at'[d] = "write" => base'[d] \in Object(stage'[d])
    BY <1>3, <2>1, Moves DEF Write
  <2>5. QED
    BY <2>1, <2>3, <2>4
<1>4. ASSUME NEW c \in Calls, Refuse(c) PROVE TypeOK'
  <2>1. /\ at' = [at EXCEPT ![c] = "error"] /\ at[c] = "write"
        /\ UNCHANGED <<store, clock, stage, spec, base, deletes>>
        /\ lone' \subseteq lone /\ faults' \in 0 .. MaxFaults
    BY <1>4 DEF Refuse, Refused, Abandon, NoFault, Fault, apiVars
  <2>2. QED
    BY <2>1
<1>5. ASSUME NEW o \in Objects, Delete(o) PROVE TypeOK'
  <2>1. /\ store' = [store EXCEPT ![o] = Absent] /\ deletes' \in 0 .. MaxDeletes
        /\ UNCHANGED <<clock, stage, at, spec, base, faults>> /\ lone' \subseteq lone
    BY <1>5 DEF Delete, callVars
  <2>2. QED
    BY <2>1 DEF Object
<1>6. CASE UNCHANGED vars
  BY <1>6 DEF vars, apiVars, callVars, bounds
<1>7. QED
  BY <1>1, <1>2, <1>3, <1>4, <1>5, <1>6 DEF Next, Step

(* No version is given out twice.                                          *)
LEMMA VersionsStep ==
  ASSUME TypeOK, VersionsIdentify, [Next]_vars
  PROVE  VersionsIdentify'
<1> USE DEF VersionsIdentify
<1>0. /\ clock \in Nat /\ \A o \in Objects : store[o] \in Object(o) /\ store[o].rv \in Nat
      /\ \A c \in Calls : at[c] = "write" => base[c] \in Object(stage[c]) /\ base[c].rv \in Nat
      /\ \A c \in Calls : stage[c] \in Objects
  BY DEF TypeOK, Object, Absent
<1>1. ASSUME NEW c \in Calls, Begin(c) PROVE VersionsIdentify'
  BY <1>1 DEF Begin, TypeOK, apiVars
<1>2. ASSUME NEW c \in Calls, Get(c) PROVE VersionsIdentify'
  <2>1. PICK b \in {store[stage[c]], Absent} : base' = [base EXCEPT ![c] = b]
    BY <1>2 DEF Get
  <2>2. at' = [at EXCEPT ![c] = "write"] /\ UNCHANGED <<store, clock, stage>>
    BY <1>2 DEF Get, apiVars
  <2>3. /\ base'[c] = b /\ \A d \in Calls : d # c => base'[d] = base[d] /\ at'[d] = at[d]
    BY <2>1, <2>2 DEF TypeOK
  <2>4. b.rv <= clock
    BY <1>0 DEF Absent
  <2>5. QED
    BY <2>2, <2>3, <2>4
<1>3. ASSUME NEW c \in Calls, Write(c) PROVE VersionsIdentify'
  <2>1. /\ store' = [store EXCEPT ![stage[c]] = Stored(c)] /\ clock' = clock + 1
        /\ base' = base /\ Stored(c).rv = clock + 1
    BY <1>3 DEF Write, Stored
  <2>2. /\ at'[c] # "write"
        /\ \A d \in Calls : d # c => at'[d] = at[d] /\ stage'[d] = stage[d]
    BY <1>3, Moves DEF Write
  <2>3. \A o \in Objects :
          store'[o] = IF o = stage[c] THEN Stored(c) ELSE store[o]
    BY <2>1 DEF TypeOK
  <2>4. \A o \in Objects : store'[o].rv <= clock'
    BY <1>0, <2>1, <2>3
  <2>5. ASSUME NEW d \in Calls, at'[d] = "write" PROVE base'[d].rv <= clock'
    BY <1>0, <2>1, <2>2, <2>5
  <2>6. ASSUME NEW d \in Calls, at'[d] = "write", base'[d] # Absent,
               base'[d].rv = store'[stage'[d]].rv
        PROVE  base'[d] = store'[stage'[d]]
    <3>1. d # c /\ at[d] = "write" /\ stage'[d] = stage[d] /\ base'[d] = base[d]
      BY <2>1, <2>2, <2>6
    <3>2. base[d].rv <= clock /\ base[d].rv \in Nat /\ stage[d] \in Objects
      BY <1>0, <3>1
    <3>3. stage[d] # stage[c]
      BY <1>0, <2>1, <2>3, <2>6, <3>1, <3>2
    <3>4. QED
      BY <2>3, <2>6, <3>1, <3>2, <3>3
  <2>7. QED
    BY <2>4, <2>5, <2>6
<1>4. ASSUME NEW c \in Calls, Refuse(c) PROVE VersionsIdentify'
  BY <1>4 DEF Refuse, Refused, Abandon, apiVars, TypeOK
<1>5. ASSUME NEW o \in Objects, Delete(o) PROVE VersionsIdentify'
  <2>1. /\ store' = [store EXCEPT ![o] = Absent] /\ UNCHANGED <<clock, stage, at, spec, base>>
    BY <1>5 DEF Delete, callVars
  <2>2. /\ store'[o] = Absent /\ Absent.rv = 0
        /\ \A p \in Objects : p # o => store'[p] = store[p]
    BY <2>1 DEF TypeOK, Absent
  <2>3. \A c \in Calls : at[c] = "write" /\ base[c] # Absent => base[c].rv # 0
    BY <1>0 DEF Object
  <2>4. QED
    BY <1>0, <2>1, <2>2, <2>3
<1>6. CASE UNCHANGED vars
  BY <1>6 DEF vars, apiVars, callVars
<1>7. QED
  BY <1>1, <1>2, <1>3, <1>4, <1>5, <1>6 DEF Next, Step

(* DeploymentFirst is inductive.                                           *)
LEMMA FirstStep ==
  ASSUME TypeOK, DeploymentFirst, [Next]_vars
  PROVE  DeploymentFirst'
<1> USE DEF DeploymentFirst
<1>1. ASSUME NEW c \in Calls, Begin(c) \/ Get(c) \/ Refuse(c) PROVE DeploymentFirst'
  BY <1>1 DEF Begin, Get, Refuse, Refused, Abandon, TypeOK
<1>2. ASSUME NEW c \in Calls, Write(c) PROVE DeploymentFirst'
  <2>1. /\ at'[c] # "new"
        /\ \A d \in Calls : d # c => at'[d] = at[d] /\ stage'[d] = stage[d]
    BY <1>2, Moves DEF Write
  <2>2. QED
    BY <2>1
<1>3. CASE UNCHANGED vars \/ \E o \in Objects : Delete(o)
  BY <1>3 DEF vars, Delete, callVars
<1>4. QED
  BY <1>1, <1>2, <1>3 DEF Next, Step

-----------------------------------------------------------------------------
(* A step of one call leaves the lone others alone.                        *)
LEMMA OthersUndisturbed ==
  ASSUME TypeOK, Undisturbed, NEW c \in Active, NEW d \in lone, d # c,
         at'[d] = at[d]
  PROVE  d \notin Active /\ d \notin Active' /\ at'[d] \notin {"new", "write"}
<1>1. d \in Calls /\ (d \in Active => Active = {d})
  BY DEF Undisturbed, TypeOK
<1>2. QED
  BY <1>1 DEF Active, Undisturbed

(* Whoever steps in, or fails, ends the quiet of a call.                   *)
LEMMA UndisturbedStep ==
  ASSUME TypeOK, DeploymentFirst, Undisturbed, [Next]_vars
  PROVE  Undisturbed'
<1>0. lone \subseteq Calls /\ at \in [Calls -> {"new", "get", "write", "ok", "error"}]
  BY DEF TypeOK
<1>1. ASSUME NEW c \in Calls, Begin(c) PROVE Undisturbed'
  <2>1. /\ at' = [at EXCEPT ![c] = "get"] /\ at[c] = "new"
        /\ UNCHANGED <<store, stage, base>> /\ c \notin lone /\ c \notin Active
        /\ \A d \in Calls : d # c => spec'[d] = spec[d]
    BY <1>1 DEF Begin, apiVars, TypeOK, Active, Undisturbed
  <2>2. /\ Active' = Active \cup {c} /\ at'[c] = "get"
        /\ \A d \in Calls : d # c => at'[d] = at[d]
    BY <1>0, <2>1 DEF Active
  <2>3. CASE Active = {}
    <3>1. lone' = lone \cup {c} /\ Active' = {c}
      BY <1>1, <2>2, <2>3 DEF Begin
    <3>2. stage[c] = "deployment"
      BY <2>1 DEF DeploymentFirst
    <3>3. \A d \in lone : at'[d] = at[d] /\ at[d] # "new" /\ d \notin Active /\ at[d] # "write"
      BY <1>0, <2>1, <2>2, <2>3 DEF Active, Undisturbed
    <3>4. QED
      BY <1>0, <2>1, <2>2, <3>1, <3>2, <3>3 DEF Undisturbed
  <2>4. CASE Active # {}
    <3>1. lone' = lone \ Active /\ c \notin lone'
      BY <1>1, <2>1, <2>4 DEF Begin
    <3>2. \A d \in lone' : d \notin Active' /\ at'[d] \notin {"new", "write"}
      BY <1>0, <2>1, <2>2, <3>1 DEF Active, Undisturbed
    <3>3. QED
      BY <3>2 DEF Undisturbed
  <2>5. QED
    BY <2>3, <2>4
<1>2. ASSUME NEW c \in Calls, Get(c) PROVE Undisturbed'
  <2>1. /\ c \in Active /\ at' = [at EXCEPT ![c] = "write"] /\ UNCHANGED <<store, stage, spec>>
    BY <1>2 DEF Get, Active, apiVars
  <2>2. /\ at'[c] = "write" /\ \A d \in Calls : d # c => at'[d] = at[d]
    BY <1>0, <2>1
  <2>3. Active' = Active
    BY <1>0, <1>2, <2>2 DEF Active, Get
  <2>4. lone' = lone \/ lone' = lone \ Active
    BY <1>2 DEF Get, NoFault, Fault
  <2>5. c \in lone' => base'[c] = store[stage[c]]
    BY <1>2, <2>1 DEF Get, NoFault, Fault, TypeOK
  <2>6. ASSUME NEW d \in lone', d # c PROVE d \notin Active' /\ at'[d] \notin {"new", "write"}
    BY <1>0, <2>1, <2>2, <2>4, <2>6, OthersUndisturbed
  <2>7. QED
    BY <2>1, <2>2, <2>3, <2>4, <2>5, <2>6 DEF Undisturbed
<1>3. ASSUME NEW c \in Calls, Write(c) PROVE Undisturbed'
  <2>1. /\ c \in Active /\ spec' = spec /\ (lone' = lone \/ lone' = lone \ Active)
        /\ store' = [store EXCEPT ![stage[c]] = Stored(c)]
    BY <1>3 DEF Write, Active, NoFault, Fault
  <2>2. /\ at'[c] \in {"get", "ok", "error"}
        /\ \A d \in Calls : d # c => at'[d] = at[d]
    BY <1>3, Moves DEF Write
  <2>3. ASSUME NEW d \in lone', d # c PROVE d \notin Active' /\ at'[d] \notin {"new", "write"}
    BY <1>0, <2>1, <2>2, <2>3, OthersUndisturbed
  <2>4. ASSUME c \in lone' PROVE Active' \subseteq {c}
    <3>1. Active = {c}
      BY <2>1, <2>4 DEF Undisturbed
    <3>2. QED
      BY <2>2, <3>1 DEF Active
  <2>5. ASSUME at'[c] = "get" PROVE store'["deployment"].spec = spec[c]
    <3>1. stage[c] = "deployment"
      BY <1>0, <1>3, <2>5 DEF Write, Proceed, Abandon
    <3>2. QED
      BY <2>1, <3>1 DEF Stored, TypeOK, Objects
  <2>6. QED
    BY <2>1, <2>2, <2>3, <2>4, <2>5 DEF Undisturbed, Active
<1>4. ASSUME NEW c \in Calls, Refuse(c) PROVE Undisturbed'
  <2>1. /\ c \in Active /\ at' = [at EXCEPT ![c] = "error"]
        /\ (lone' = lone \/ lone' = lone \ Active)
    BY <1>4 DEF Refuse, Refused, Abandon, Active, NoFault, Fault
  <2>2. /\ at'[c] = "error" /\ \A d \in Calls : d # c => at'[d] = at[d]
    BY <1>0, <2>1
  <2>3. ASSUME NEW d \in lone', d # c PROVE d \notin Active' /\ at'[d] \notin {"new", "write"}
    BY <1>0, <2>1, <2>2, <2>3, OthersUndisturbed
  <2>4. c \notin Active'
    BY <2>2 DEF Active
  <2>5. QED
    BY <2>2, <2>3, <2>4 DEF Undisturbed
<1>5. ASSUME NEW o \in Objects, Delete(o) PROVE Undisturbed'
  <2>1. lone' = lone \ Active /\ at' = at
    BY <1>5 DEF Delete, callVars
  <2>2. \A d \in lone' : d \notin Active' /\ at'[d] \notin {"new", "write"}
    BY <1>0, <2>1 DEF Active, Undisturbed
  <2>3. QED
    BY <2>2 DEF Undisturbed
<1>6. CASE UNCHANGED vars
  BY <1>6 DEF vars, apiVars, callVars, Undisturbed, Active
<1>7. QED
  BY <1>1, <1>2, <1>3, <1>4, <1>5, <1>6 DEF Next, Step

(* The invariant holds in every reachable state.                           *)
LEMMA EnsureInvHolds == Spec => []EnsureInv
<1>1. EnsureInv /\ [Next]_vars => EnsureInv'
  BY TypeStep, VersionsStep, FirstStep, UndisturbedStep DEF EnsureInv
<1>2. QED
  BY <1>1, InitEnsureInv, PTL DEF Spec

-----------------------------------------------------------------------------
(* Which step moves a call on, or changes an object.                       *)
LEMMA MovingStep ==
  ASSUME TypeOK, [Next]_vars, NEW c \in Calls, at'[c] # at[c]
  PROVE  Begin(c) \/ Get(c) \/ Write(c) \/ Refuse(c)
<1>1. ASSUME NEW d \in Calls, d # c, Step(d) PROVE at'[c] = at[c]
  <2>1. CASE Begin(d) \/ Get(d) \/ Refuse(d)
    BY <1>1, <2>1 DEF Begin, Get, Refuse, Refused, Abandon, TypeOK
  <2>2. CASE Write(d)
    BY <1>1, <2>2, Moves DEF Write
  <2>3. QED
    BY <1>1, <2>1, <2>2 DEF Step
<1>2. ~ UNCHANGED vars /\ ~ \E o \in Objects : Delete(o)
  BY DEF vars, callVars, Delete
<1>3. QED
  BY <1>1, <1>2 DEF Next, Step

(* A call that changes the store has read the object as it is.             *)
LEMMA OverwriteStep ==
  ASSUME EnsureInv, [Next]_vars, NEW c \in Calls,
         at[c] = "write", at'[c] # at[c], store' # store
  PROVE  base[c] = store[stage[c]]
<1>1. Write(c)
  BY MovingStep DEF EnsureInv, Begin, Get, Refuse, apiVars
<1>2. QED
  BY <1>1, WriteBasis DEF EnsureInv, Write

(* A quiet call is refused for the labels of the Deployment or the IP of   *)
(* the Service only.                                                       *)
LEMMA QuietRefusal ==
  ASSUME EnsureInv, NEW c \in lone, at[c] = "write", ~ Accepted(c)
  PROVE  IF stage[c] = "deployment"
         THEN store["deployment"].spec.labels # spec[c].labels
         ELSE /\ ~ Fits(spec[c].type, GivenIp(c))
              /\ store["deployment"].spec = spec[c]
<1>1. /\ c \in Calls /\ stage[c] \in Objects /\ base[c] = store[stage[c]]
      /\ base[c] \in Object(stage[c]) /\ c \in Active
  BY DEF EnsureInv, TypeOK, Undisturbed, Active
<1>2. CASE stage[c] = "deployment"
  <2>1. Valid(c) /\ base[c] # Absent
    BY <1>1, <1>2 DEF Valid, Accepted, CreateAccepted
  <2>2. QED
    BY <1>1, <1>2, <2>1 DEF Accepted, UpdateAccepted, Version
<1>3. CASE stage[c] = "service"
  <2>1. store["deployment"].spec = spec[c]
    BY <1>1, <1>3 DEF EnsureInv, Undisturbed
  <2>2. base[c] # Absent => Ip(c) = base[c].ip /\ base[c].ip # Unset
    BY <1>1, <1>3 DEF Ip, WantedIp, Object, Unset
  <2>3. ~ Valid(c)
    BY <1>1, <1>3, <2>2 DEF Accepted, CreateAccepted, UpdateAccepted, Version
  <2>4. StoredIp(c) = GivenIp(c)
    BY <1>1, <1>3, <2>2 DEF StoredIp, GivenIp, Ip, WantedIp, Absent, Unset, None
  <2>5. QED
    BY <1>3, <2>1, <2>3, <2>4 DEF Valid
<1>4. QED
  BY <1>1, <1>2, <1>3 DEF Objects

(* What an undisturbed call leaves when it fails and when it is done.      *)
LEMMA LoneStep ==
  ASSUME EnsureInv, [Next]_vars, NEW c \in lone, at'[c] # at[c], c \in lone'
  PROVE  /\ at'[c] = "error" =>
              IF stage[c] = "deployment"
              THEN store["deployment"].spec.labels # spec[c].labels
              ELSE /\ ~ Fits(spec[c].type, GivenIp(c))
                   /\ store["deployment"].spec = spec[c]
         /\ at'[c] = "ok" =>
              /\ \A o \in Objects : store'[o].spec = spec[c]
              /\ store["service"] # Absent => store'["service"].ip = store["service"].ip
<1> USE DEF EnsureInv
<1>0. /\ c \in Calls /\ at \in [Calls -> {"new", "get", "write", "ok", "error"}]
      /\ stage[c] \in Objects
  BY DEF TypeOK
<1>1. CASE Begin(c) \/ Get(c)
  BY <1>0, <1>1 DEF Begin, Get
<1>2. CASE Refuse(c)
  <2>1. at[c] = "write" /\ ~ Accepted(c) /\ at'[c] = "error"
    BY <1>0, <1>2 DEF Refuse, Refused, Abandon, Fault, NoFault, Active
  <2>2. QED
    BY <2>1, QuietRefusal
<1>3. CASE Write(c)
  <2>1. /\ at[c] = "write" /\ Accepted(c) /\ Proceed(c)
        /\ store' = [store EXCEPT ![stage[c]] = Stored(c)]
    BY <1>0, <1>3 DEF Write, Fault, Active
  <2>2. at'[c] \in {"get", "ok"}
    BY <1>0, <2>1 DEF Proceed
  <2>3. ASSUME at'[c] = "ok"
        PROVE  /\ \A o \in Objects : store'[o].spec = spec[c]
               /\ store["service"] # Absent => store'["service"].ip = store["service"].ip
    <3>1. stage[c] = "service"
      BY <1>0, <2>1, <2>3 DEF Proceed, Objects
    <3>2. store'["deployment"] = store["deployment"] /\ store'["service"] = Stored(c)
      BY <2>1, <3>1 DEF TypeOK, Objects
    <3>3. store["deployment"].spec = spec[c] /\ base[c] = store["service"]
      BY <1>0, <2>1, <3>1 DEF Undisturbed, Active
    <3>4. store["service"] # Absent => StoredIp(c) = store["service"].ip
      <4>1. store["service"] \in Object("service")
        BY <1>0, <3>1 DEF TypeOK
      <4>2. QED
        BY <3>1, <3>3, <4>1 DEF StoredIp, Ip, WantedIp, Object
    <3>5. QED
      BY <3>2, <3>3, <3>4 DEF Stored, Objects
  <2>4. QED
    BY <2>2, <2>3
<1>4. QED
  BY <1>0, <1>1, <1>2, <1>3, MovingStep

-----------------------------------------------------------------------------
(* The API server's rules, seen without versions.                          *)
LEMMA WriteBecomes ==
  ASSUME TypeOK, NEW c \in Calls, at[c] = "write", Accepted(c)
  PROVE  U!Becomes(stage[c], Contents[stage[c]],
                   [spec |-> spec[c], ip |-> StoredIp(c)], spec[c])
<1> DEFINE o == stage[c]
           old == store[o]
<1>1. /\ o \in Objects /\ old \in Object(o) /\ base[c] \in Object(o) /\ clock \in Nat
      /\ Contents[o] = [spec |-> old.spec, ip |-> old.ip]
  BY DEF TypeOK, Contents
<1>2. Contents[o] # U!Nothing <=> old # Absent
  <2>1. old # Absent => old.spec \in Specs
    BY <1>1 DEF Object
  <2>2. old # Absent => old.spec # Blank
    BY <2>1, SpecsAssumption DEF Blank
  <2>3. U!Nothing = [spec |-> Blank, ip |-> Unset]
    BY DEF U!Nothing, U!Blank, U!Unset, Blank, Unset
  <2>4. QED
    BY <1>1, <2>2, <2>3 DEF Absent
<1>6. o = "service" => /\ spec[c].type # "ExternalName"
                       /\ StoredIp(c) = U!None => spec[c].type = "ClusterIP"
  BY DEF Accepted, CreateAccepted, UpdateAccepted, Valid, Fits, None, U!None
<1>3. CASE o = "deployment"
  <2>1. StoredIp(c) = U!Unset
    BY <1>3 DEF StoredIp, Ip, Unset, U!Unset
  <2>2. old # Absent => old.spec.labels = spec[c].labels
    BY <1>3 DEF Accepted, CreateAccepted, UpdateAccepted
  <2>3. QED
    BY <1>1, <1>2, <1>3, <2>1, <2>2 DEF U!Becomes
<1>4. CASE o = "service"
  <2>1. CASE old # Absent
    <3>1. Ip(c) \in {Unset, old.ip}
      BY <1>4, <2>1 DEF Accepted, CreateAccepted, UpdateAccepted
    <3>2. StoredIp(c) = old.ip
      BY <1>4, <2>1, <3>1 DEF StoredIp
    <3>3. QED
      BY <1>1, <1>2, <1>4, <1>6, <2>1, <3>2 DEF U!Becomes
  <2>2. CASE old = Absent
    <3>1. base[c].ip = Unset
      BY <2>2 DEF Accepted, CreateAccepted, UpdateAccepted, Absent
    <3>2. StoredIp(c) = IF spec[c].headless THEN None ELSE clock + 2
      BY <1>4, <2>2, <3>1 DEF StoredIp, Ip, WantedIp, Unset, None
    <3>3. IF spec[c].headless THEN StoredIp(c) = U!None ELSE StoredIp(c) \in U!Address
      BY <1>1, <3>2 DEF None, U!None, U!Address, U!Unset
    <3>4. QED
      BY <1>2, <1>4, <1>6, <2>2, <3>3 DEF U!Becomes
  <2>3. QED
    BY <2>1, <2>2
<1>5. QED
  BY <1>1, <1>3, <1>4 DEF Objects

(* Steps of Ensure are steps of Upsert, Gets and changes of version none.  *)
LEMMA StepActsAtomically ==
  ASSUME TypeOK, [Next]_vars
  PROVE  [U!Next]_(U!vars)
<1> USE DEF TypeOK
<1>1. ASSUME NEW c \in Calls, Begin(c) PROVE [U!Next]_(U!vars)
  <2>1. /\ at[c] = "new" /\ at' = [at EXCEPT ![c] = "get"]
        /\ \E s \in Specs : spec' = [spec EXCEPT ![c] = s]
        /\ UNCHANGED <<store, stage>>
    BY <1>1 DEF Begin, apiVars
  <2>2. AbstractAt[c] = "new" /\ AbstractAt' = [AbstractAt EXCEPT ![c] = "busy"]
    BY <2>1 DEF AbstractAt
  <2>3. Contents' = Contents
    BY <2>1 DEF Contents
  <2>4. QED
    BY <2>1, <2>2, <2>3 DEF U!Next, U!Start
<1>2. ASSUME NEW c \in Calls, Get(c) PROVE [U!Next]_(U!vars)
  <2>1. /\ at[c] = "get" /\ at' = [at EXCEPT ![c] = "write"]
        /\ UNCHANGED <<store, stage, spec>>
    BY <1>2 DEF Get, apiVars
  <2>2. AbstractAt' = AbstractAt /\ Contents' = Contents
    BY <2>1 DEF AbstractAt, Contents
  <2>3. QED
    BY <2>1, <2>2 DEF U!vars
<1>3. ASSUME NEW c \in Calls, Write(c) PROVE [U!Next]_(U!vars)
  <2>1. /\ at[c] = "write" /\ store' = [store EXCEPT ![stage[c]] = Stored(c)]
        /\ spec' = spec /\ (Proceed(c) \/ Abandon(c)) /\ stage[c] \in Objects
    BY <1>3 DEF Write
  <2>2. Contents'[stage[c]] = [spec |-> spec[c], ip |-> StoredIp(c)]
    BY <2>1 DEF Contents, Stored
  <2>3. Contents' = [Contents EXCEPT ![stage[c]] = Contents'[stage[c]]]
    BY <2>1 DEF Contents
  <2>4. U!Becomes(stage[c], Contents[stage[c]], Contents'[stage[c]], spec[c])
    BY <1>3, <2>2, WriteBecomes DEF Write
  <2>5. U!Proceed(c) \/ U!Abandon(c)
    <3>1. CASE Abandon(c)
      BY <2>1, <3>1 DEF Abandon, AbstractAt, U!Abandon
    <3>2. CASE Proceed(c) /\ stage[c] = "deployment"
      BY <2>1, <3>2 DEF Proceed, AbstractAt, U!Proceed
    <3>3. CASE Proceed(c) /\ stage[c] # "deployment"
      BY <2>1, <3>3 DEF Proceed, AbstractAt, U!Proceed
    <3>4. QED
      BY <2>1, <3>1, <3>2, <3>3
  <2>6. AbstractAt[c] = "busy"
    BY <2>1 DEF AbstractAt
  <2>7. QED
    BY <2>1, <2>3, <2>4, <2>5, <2>6 DEF U!Next, U!Put
<1>4. ASSUME NEW c \in Calls, Refuse(c) PROVE [U!Next]_(U!vars)
  <2>1. /\ at[c] = "write" /\ at' = [at EXCEPT ![c] = "error"]
        /\ UNCHANGED <<store, stage, spec>>
    BY <1>4 DEF Refuse, Refused, Abandon, apiVars
  <2>2. AbstractAt[c] = "busy" /\ AbstractAt' = [AbstractAt EXCEPT ![c] = "error"]
    BY <2>1 DEF AbstractAt
  <2>3. Contents' = Contents
    BY <2>1 DEF Contents
  <2>4. QED
    BY <2>1, <2>2, <2>3 DEF U!Next, U!Fail, U!Abandon
<1>5. ASSUME NEW o \in Objects, Delete(o) PROVE [U!Next]_(U!vars)
  <2>1. store' = [store EXCEPT ![o] = Absent] /\ UNCHANGED <<stage, at, spec>>
    BY <1>5 DEF Delete, callVars
  <2>2. Contents' = [Contents EXCEPT ![o] = U!Nothing] /\ AbstractAt' = AbstractAt
    BY <2>1 DEF Contents, AbstractAt, Absent, Blank, Unset, U!Nothing, U!Blank, U!Unset
  <2>3. o \in U!Objects
    BY DEF Objects, U!Objects
  <2>4. QED
    BY <2>1, <2>2, <2>3 DEF U!Next, U!Remove
<1>6. CASE UNCHANGED vars
  BY <1>6 DEF vars, apiVars, callVars, U!vars, AbstractAt, Contents
<1>7. QED
  BY <1>1, <1>2, <1>3, <1>4, <1>5, <1>6 DEF Next, Step

-----------------------------------------------------------------------------
(* Every variable of Ensure keeps to its range.                            *)
THEOREM EnsureTypeCorrect == Spec => []TypeOK
BY EnsureInvHolds, PTL DEF EnsureInv

(* Nothing is replaced by a call that has not read it (client.go:31, 45).  *)
THEOREM NothingOverwritten == Spec => NoBlindOverwrite
<1>1. EnsureInv /\ [Next]_vars =>
        [\A c \in Calls :
           at[c] = "write" /\ at'[c] # at[c] /\ store' # store
             => base[c] = store[stage[c]]]_vars
  BY OverwriteStep
<1>2. QED
  BY <1>1, EnsureInvHolds, PTL DEF Spec, NoBlindOverwrite

(* An undisturbed call does what it was asked to, unless it asks for other *)
(* labels, or for a type of Service that the IP it has or is to have does  *)
(* not fit, which leaves the Deployment changed (client.go:44-48).         *)
THEOREM LoneCallsTakeEffect == Spec => LoneCallTakesEffect
<1>1. EnsureInv /\ [Next]_vars =>
        [\A c \in lone :
           at'[c] # at[c] /\ c \in lone' =>
             /\ at'[c] = "error" =>
                  IF stage[c] = "deployment"
                  THEN store["deployment"].spec.labels # spec[c].labels
                  ELSE /\ ~ Fits(spec[c].type, GivenIp(c))
                       /\ store["deployment"].spec = spec[c]
             /\ at'[c] = "ok" =>
                  /\ \A o \in Objects : store'[o].spec = spec[c]
                  /\ store["service"] # Absent
                       => store'["service"].ip = store["service"].ip]_vars
  BY LoneStep
<1>2. QED
  BY <1>1, EnsureInvHolds, PTL DEF Spec, LoneCallTakesEffect

(* Ensure implements Upsert (ensure.go:86-114).                            *)
THEOREM ImplementsUpsert == Spec => ActsAtomically
<1>1. Init => U!Init
  <2> SUFFICES ASSUME Init PROVE U!Init
    OBVIOUS
  <2>1. Contents = [o \in U!Objects |-> U!Nothing]
    BY DEF Init, Contents, Objects, Absent, Blank, Unset, U!Objects, U!Nothing, U!Blank, U!Unset
  <2>2. AbstractAt = [c \in Calls |-> "new"]
    BY DEF Init, AbstractAt
  <2>3. QED
    BY <2>1, <2>2 DEF Init, Blank, U!Init, U!Blank
<1>2. EnsureInv /\ [Next]_vars => [U!Next]_(U!vars)
  BY StepActsAtomically DEF EnsureInv
<1>3. QED
  BY <1>1, <1>2, EnsureInvHolds, PTL DEF Spec, ActsAtomically, U!Spec
=============================================================================
