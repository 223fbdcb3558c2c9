----------------------------- MODULE McpClient -----------------------------
(***************************************************************************)
(* What mcp.Client (pkg/mcp/client.go) promises its caller, whichever      *)
(* transport stands behind it: calls are made one at a time, a call that   *)
(* returns an answer returns the answer to that very call, after the       *)
(* server has executed it, and no call, however it ends, is executed more  *)
(* than Budget times.  An execution may come after the call has returned:  *)
(* a request already handed over is not taken back.                        *)
(***************************************************************************)
EXTENDS Naturals

CONSTANTS Requests,  \* the requests a client sends, numbered in order
          Budget,    \* how often a transport may have one request executed
          Silent     \* whether a call may succeed without an answer

VARIABLES outcome,   \* what has become of each request
          served,    \* how often the server has executed it
          answer     \* whose answer the caller received, 0 for none

promise == <<outcome, served, answer>>

Init ==
  /\ outcome = [i \in Requests |-> "unsent"]
  /\ served = [i \in Requests |-> 0]
  /\ answer = [i \in Requests |-> 0]

Start(i) ==
  /\ outcome[i] = "unsent"
  /\ \A j \in Requests : outcome[j] # "pending"
  /\ \A j \in Requests : j < i => outcome[j] # "unsent"
  /\ outcome' = [outcome EXCEPT ![i] = "pending"]
  /\ UNCHANGED <<served, answer>>

Execute(i) ==
  /\ outcome[i] # "unsent"
  /\ served[i] < Budget
  /\ served' = [served EXCEPT ![i] = @ + 1]
  /\ UNCHANGED <<outcome, answer>>

Succeed(i) ==
  /\ outcome[i] = "pending"
  /\ outcome' = [outcome EXCEPT ![i] = "ok"]
  /\ \/ served[i] > 0 /\ answer' = [answer EXCEPT ![i] = i]
     \/ Silent /\ UNCHANGED answer
  /\ UNCHANGED served

Fail(i) ==
  /\ outcome[i] = "pending"
  /\ outcome' = [outcome EXCEPT ![i] = "failed"]
  /\ UNCHANGED <<served, answer>>

Next == \E i \in Requests : Start(i) \/ Execute(i) \/ Succeed(i) \/ Fail(i)

Spec == Init /\ [][Next]_promise
=============================================================================
