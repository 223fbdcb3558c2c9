----------------------------- MODULE MessageRun -----------------------------
(***************************************************************************)
(* Stream with the actions its messages ask for: StreamLoop and ToolCall   *)
(* put together.  What StreamLoop takes for one step, Process, is here     *)
(* everything executeAndNormalize does for the message, call by call, with *)
(* messages arriving, the channel closed and the context cancelled in      *)
(* between.                                                                *)
(***************************************************************************)
EXTENDS StreamLoop, ToolCall

runVars == <<vars, toolVars>>

RunInit == Init /\ ToolInit

-----------------------------------------------------------------------------
(* Mutants: Process returning before the action is over; an action started *)
(* for any message taken.                                                  *)
ReturnAnytime == at # "idle"
AnyMessage == TRUE

-----------------------------------------------------------------------------
(* Stream's own steps, and the SDK's.                                      *)
StreamStep == OwnStep /\ UNCHANGED toolVars

(* A reply is the SDK's step as much as Stream's.                          *)
Deliver == Reply /\ UNCHANGED toolVars

Feed == (Arrive \/ Close) /\ UNCHANGED toolVars

(* The context of the action is derived from Stream's.                     *)
CancelAll ==
  /\ Cancel
  /\ done' = (done \/ at # "idle")
  /\ UNCHANGED <<tool, inputs, at, attempt, reply, items, cursor, result, outcome, calls>>

HasInputs == Decodes(msg)

Enter ==
  /\ pc = "decoding" /\ HasInputs
  /\ Execute /\ done' = ctxDone
  /\ UNCHANGED vars

(* A call of the client returns.                                           *)
ClientCall == Ask /\ UNCHANGED vars

Work == Move /\ UNCHANGED vars

Finished == at = "over"

Leave == Process /\ Finished /\ Forget

TimeOut == Expire /\ UNCHANGED vars

-----------------------------------------------------------------------------
(* One goroutine: Stream, and Process in it, as far as it does not wait.   *)
Goroutine == StreamStep \/ Enter \/ Work \/ Leave

RunNext == Goroutine \/ ClientCall \/ Deliver \/ Feed \/ CancelAll \/ TimeOut

(* A goroutine that can run does.  A call need not return, whether its     *)
(* context is done or not: over stdio a write to a pipe without a reader   *)
(* and a read from a session attached under Init's context are ended by    *)
(* neither (stdio_client.go:184, 216).                                     *)
RunSpec == RunInit /\ [][RunNext]_runVars /\ WF_runVars(Goroutine)

(* The premise of what is said of the future: the client's calls return.   *)
ClientReturns == WF_runVars(ClientCall)

-----------------------------------------------------------------------------
(* Every variable of the two keeps to its range.                           *)
TypesOK == TypeOK /\ ToolTypeOK

(* A call is made for the message in hand only, before it is answered or   *)
(* acknowledged, and on a runner that is up: whatever arrives or is        *)
(* cancelled, nothing is done for a message twice or after the fact        *)
(* (handler.go:421-438).                                                   *)
CallsForMessageInHand ==
  [][ Len(calls') > Len(calls)
        => /\ pc = "decoding" /\ kind[msg] = "inputs"
           /\ msg \notin Range(executed) \cup acked
           /\ runner = "up" ]_runVars

(* If the calls of the client return, a cancelled Stream returns, even if  *)
(* nobody takes its reply any more (handler.go:400-407, 433-438): whatever *)
(* the calls result in, and wherever cursors lead, the action under way    *)
(* comes to its end.                                                       *)
CancelEnds == ClientReturns => (ctxDone /\ pc # "starting" ~> pc = "returned")

(* If the calls of the client return and replies keep being taken, an      *)
(* undecodable message, one whose action fails, or one whose cursors lead  *)
(* in circles does not hold up the ones behind it (handler.go:409-438).    *)
ArrivedIsSettled ==
  ClientReturns /\ WF_runVars(Deliver)
    => \A m \in Messages : arrived >= m ~> m \in acked \/ ctxDone

(* The loop keeps to StreamLoop and to its fairness: Process is one step   *)
(* there, and if the calls of the client return, it comes to its end.      *)
KeepsLoop == LoopSpec /\ (ClientReturns => WF_vars(Process))

(* To ToolCall the loop shows as one message after another: Process is not *)
(* left before its action is over, not by a cancelled context either.      *)
KeepsTool == ToolSpec
=============================================================================
