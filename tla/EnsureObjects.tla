---------------------------- MODULE EnsureObjects ---------------------------
(***************************************************************************)
(* Ensure (pkg/kube/ensure.go) with EnsureDeployment and EnsureService     *)
(* (client.go), one API call at a time: an object is read, then created if *)
(* the read failed, for whatever reason, or else replaced under the        *)
(* version that was read.  Several calls for the same names run side by    *)
(* side; others may delete the objects; calls of the API may fail.         *)
(*                                                                         *)
(* The API server is outside the repository.                               *)
(***************************************************************************)
EXTENDS Naturals

CONSTANTS
  Calls,      \* calls of Ensure
  Specs,      \* what they may ask for
  MaxFaults,  \* bound: API calls that fail by themselves
  MaxDeletes  \* bound: deletions by others

ASSUME BoundsAssumption == MaxFaults \in Nat /\ MaxDeletes \in Nat

(* An empty ServiceType is the API's default, ClusterIP.                   *)
ServiceTypes == {"ClusterIP", "NodePort", "LoadBalancer", "ExternalName"}

ASSUME SpecsAssumption ==
  Specs \subseteq [labels : Nat \ {0}, port : Nat \ {0}, headless : BOOLEAN, type : ServiceTypes]

VARIABLES
  store,    \* per object: its version, 0 if it is not there, spec and cluster IP
  clock,    \* the last version given out
  stage,    \* per call: the object it is at
  at,       \* per call: where it is with that object
  spec,     \* per call: what it asks for
  base,     \* per call: what its Get returned
  lone,     \* ghost: calls nothing else has disturbed
  faults, deletes

apiVars == <<store, clock>>
callVars == <<stage, at, spec, base>>
bounds == <<faults, deletes>>
vars == <<apiVars, callVars, lone, bounds>>

Objects == {"deployment", "service"}

Unset == 0  \* no cluster IP
None == 1   \* a headless Service's; all others are addresses

Blank == [labels |-> 0, port |-> 0, headless |-> FALSE, type |-> "ClusterIP"]
Absent == [rv |-> 0, spec |-> Blank, ip |-> Unset]

Init ==
  /\ store = [o \in Objects |-> Absent] /\ clock = 0
  /\ stage = [c \in Calls |-> "deployment"]
  /\ at = [c \in Calls |-> "new"]
  /\ spec = [c \in Calls |-> Blank] /\ base = [c \in Calls |-> Absent]
  /\ lone = {} /\ faults = 0 /\ deletes = 0

Active == {c \in Calls : at[c] \in {"get", "write"}}

-----------------------------------------------------------------------------
(* Mutants: an update under no version; the cluster IP of the spec sent    *)
(* again; a Service written on the strength of the Deployment's Get; a     *)
(* failed Deployment that does not end the call.                           *)
NoVersion(c) == 0
IpAsAsked(c) == IF spec[c].headless THEN None ELSE Unset
ProceedAtOnce(c) ==
  IF stage[c] = "deployment"
  THEN stage' = [stage EXCEPT ![c] = "service"] /\ UNCHANGED at
  ELSE at' = [at EXCEPT ![c] = "ok"] /\ UNCHANGED stage
GoOn(c) ==
  /\ stage' = [stage EXCEPT ![c] = "service"]
  /\ at' = [at EXCEPT ![c] = IF stage[c] = "service" THEN "error" ELSE "get"]

-----------------------------------------------------------------------------
Begin(c) ==
  /\ at[c] = "new" /\ at' = [at EXCEPT ![c] = "get"]
  /\ \E s \in Specs : spec' = [spec EXCEPT ![c] = s]
  /\ lone' = IF Active = {} THEN lone \cup {c} ELSE lone \ Active
  /\ UNCHANGED <<apiVars, stage, base, bounds>>

Fault ==
  /\ faults < MaxFaults /\ faults' = faults + 1
  /\ lone' = lone \ Active

NoFault == UNCHANGED <<faults, lone>>

(* Any error reads as absence.                                             *)
Get(c) ==
  /\ at[c] = "get" /\ at' = [at EXCEPT ![c] = "write"]
  /\ \/ base' = [base EXCEPT ![c] = store[stage[c]]] /\ NoFault
     \/ base' = [base EXCEPT ![c] = Absent] /\ Fault
  /\ UNCHANGED <<apiVars, stage, spec, deletes>>

(* What is sent: the version, and for a Service the cluster IP.            *)
Version(c) == base[c].rv

WantedIp(c) ==
  IF base[c].ip # Unset THEN base[c].ip ELSE IF spec[c].headless THEN None ELSE Unset

Ip(c) == IF stage[c] = "service" THEN WantedIp(c) ELSE Unset

Proceed(c) ==
  IF stage[c] = "deployment"
  THEN /\ stage' = [stage EXCEPT ![c] = "service"]
       /\ at' = [at EXCEPT ![c] = "get"]
  ELSE at' = [at EXCEPT ![c] = "ok"] /\ UNCHANGED stage

Abandon(c) == at' = [at EXCEPT ![c] = "error"] /\ UNCHANGED stage

-----------------------------------------------------------------------------
(* The API server.                                                         *)

(* A Service that asks for no IP keeps its own, or is given a new one.     *)
StoredIp(c) ==
  LET old == store[stage[c]] IN
  IF stage[c] = "deployment" \/ Ip(c) # Unset THEN Ip(c)
  ELSE IF old # Absent THEN old.ip ELSE clock + 2

(* What of a Service is refused for good: an ExternalName, for there is no *)
(* name with it, and ports of nodes or a load balancer without an IP.      *)
Fits(type, ip) == type # "ExternalName" /\ (ip = None => type = "ClusterIP")

Valid(c) == stage[c] = "service" => Fits(spec[c].type, StoredIp(c))

CreateAccepted(c) == base[c] = Absent /\ store[stage[c]] = Absent /\ Valid(c)

(* An update is refused if the object has changed or is gone, or if it     *)
(* would change the selector of a Deployment or the IP of a Service.       *)
UpdateAccepted(c) ==
  LET old == store[stage[c]] IN
  /\ base[c] # Absent /\ old # Absent /\ Valid(c)
  /\ Version(c) \in {0, old.rv}
  /\ IF stage[c] = "deployment" THEN spec[c].labels = old.spec.labels
     ELSE Ip(c) \in {Unset, old.ip}

Accepted(c) == CreateAccepted(c) \/ UpdateAccepted(c)

Stored(c) == [rv |-> clock + 1, spec |-> spec[c], ip |-> StoredIp(c)]

Write(c) ==
  /\ at[c] = "write" /\ Accepted(c)
  /\ store' = [store EXCEPT ![stage[c]] = Stored(c)]
  /\ clock' = clock + 1
  /\ \/ Proceed(c) /\ NoFault
     \/ Abandon(c) /\ Fault  \* the reply is lost
  /\ UNCHANGED <<spec, base, deletes>>

(* The error of the API server is the error of the call.                   *)
Refused(c) == Abandon(c)

Refuse(c) ==
  /\ at[c] = "write" /\ Refused(c)
  /\ \/ ~ Accepted(c) /\ NoFault
     \/ Fault
  /\ UNCHANGED <<apiVars, spec, base, deletes>>

Delete(o) ==
  /\ deletes < MaxDeletes /\ store[o] # Absent
  /\ deletes' = deletes + 1
  /\ store' = [store EXCEPT ![o] = Absent]
  /\ lone' = lone \ Active
  /\ UNCHANGED <<clock, callVars, faults>>

-----------------------------------------------------------------------------
Step(c) == Begin(c) \/ Get(c) \/ Write(c) \/ Refuse(c)

Next == (\E c \in Calls : Step(c)) \/ (\E o \in Objects : Delete(o))

Spec == Init /\ [][Next]_vars

-----------------------------------------------------------------------------
(* Every variable keeps to its range, and what a call writes is based on a *)
(* state of that object.                                                   *)
Object(o) ==
  {Absent} \cup [rv : Nat \ {0}, spec : Specs,
                 ip : IF o = "deployment" THEN {Unset} ELSE Nat \ {Unset}]

TypeOK ==
  /\ \A o \in Objects : store[o] \in Object(o)
  /\ store = [o \in Objects |-> store[o]] /\ clock \in Nat
  /\ stage \in [Calls -> Objects]
  /\ at \in [Calls -> {"new", "get", "write", "ok", "error"}]
  /\ spec \in [Calls -> Specs \cup {Blank}]
  /\ \A c \in Calls : at[c] # "new" => spec[c] \in Specs
  /\ base = [c \in Calls |-> base[c]]
  /\ \A c \in Calls : at[c] = "write" => base[c] \in Object(stage[c])
  /\ lone \subseteq Calls
  /\ faults \in 0 .. MaxFaults /\ deletes \in 0 .. MaxDeletes

(* An object is only ever replaced by a call that has read that very       *)
(* state of it: what another call wrote since the Get is not overwritten   *)
(* (client.go:31, 45).                                                     *)
NoBlindOverwrite ==
  [][ \A c \in Calls :
        at[c] = "write" /\ at'[c] # at[c] /\ store' # store => base[c] = store[stage[c]] ]_vars

(* The IP the Service has, or is to have if there is none yet: what a call *)
(* that finds it so has to live with.                                      *)
GivenIp(c) ==
  IF store["service"] # Absent THEN store["service"].ip
  ELSE IF spec[c].headless THEN None ELSE clock + 2

(* An Ensure that nothing disturbs fails for two reasons only, and then    *)
(* for good: other labels than the Deployment has, or a type that does not *)
(* fit the IP the Service has and keeps, a headless one's included, when   *)
(* its Deployment is in place already.  Else both objects are what it      *)
(* asked for, whatever it toggles, with the IP the Service had             *)
(* (ensure.go:86-114, client.go:44-48).                                    *)
LoneCallTakesEffect ==
  [][ \A c \in lone :
        at'[c] # at[c] /\ c \in lone' =>
          /\ at'[c] = "error" =>
               IF stage[c] = "deployment"
               THEN store["deployment"].spec.labels # spec[c].labels
               ELSE /\ ~ Fits(spec[c].type, GivenIp(c))
                    /\ store["deployment"].spec = spec[c]
          /\ at'[c] = "ok" =>
               /\ \A o \in Objects : store'[o].spec = spec[c]
               /\ store["service"] # Absent => store'["service"].ip = store["service"].ip ]_vars

(* Ensure keeps the promise of Upsert.                                     *)
AbstractAt == [c \in Calls |-> IF at[c] \in {"get", "write"} THEN "busy" ELSE at[c]]
Contents == [o \in Objects |-> [spec |-> store[o].spec, ip |-> store[o].ip]]

U == INSTANCE Upsert WITH store <- Contents, at <- AbstractAt

(* The Deployment and then the Service go from one state to the next as if *)
(* in one step each, the Service only after the Deployment was put in      *)
(* place, and what the API keeps of an object stays (ensure.go:86-114).    *)
ActsAtomically == U!Spec
=============================================================================
