-------------------------- MODULE StdioTransport --------------------------
(***************************************************************************)
(* The stdio transport: pkg/mcp/stdio_client.go as pkg/adapter/handler.go  *)
(* drives it.  The adapter performs the handshake (initialize, the         *)
(* initialized notification, the tools/list probe), then one Process call  *)
(* after another, each under a context of its own that is cancelled when   *)
(* Process returns.  A request is a line written to the stdin pipe of the  *)
(* current pods/attach session, its answer a line read from the session's  *)
(* stdout pipe; any failure attaches anew and repeats the same request.    *)
(*                                                                         *)
(* Outside the repository, and modelled from how it is used: the attach    *)
(* library, which connects and ends sessions asynchronously, and the MCP   *)
(* server in the runner Pod, which executes what it receives in any order  *)
(* and may print lines that are not answers.                               *)
(*                                                                         *)
(* c.mu admits one rpc at a time and the handler calls sequentially, so    *)
(* the client is one process; attachMu is never contended.                 *)
(***************************************************************************)
EXTENDS Naturals, Sequences

CONSTANTS
  MaxAttempts,  \* maxAttempts of rpc
  MaxRequests,  \* bound: requests sent in a behaviour, each with a fresh id
  MaxContexts,  \* bound: Process calls, each with its own context
  MaxNoise,     \* bound: unread lines before the server stops adding noise
  Remains       \* what may be left of the stdin pipe of an ended session

(***************************************************************************)
(* attach never closes the stdin pipe itself, so what a later Write meets  *)
(* is the library's doing: its copying goroutine is still waiting and      *)
(* takes one more write nobody will see ("lingering"); it is gone, so that *)
(* a write blocks for ever ("severed"); or it closed the reading side, so  *)
(* that a write returns an error ("refused"), the case rpc is written for. *)
(***************************************************************************)
Ruins == {"lingering", "severed", "refused"}

ASSUME ConstantsAssumption ==
  /\ MaxAttempts \in Nat \ {0}
  /\ MaxRequests \in Nat
  /\ MaxContexts \in Nat
  /\ MaxNoise \in Nat
  /\ Remains \subseteq Ruins

Ids == 1 .. MaxRequests
Contexts == 0 .. MaxContexts   \* 0 is the context of Init and of the process

VARIABLES
  stage,    \* how far the adapter is: handshake, then Process calls
  ctx,      \* the context the adapter works under
  expired,  \* contexts that are done: cancelled or past their deadline
  pc,       \* where rpc is
  id,       \* the id of the last request
  attempt,  \* the loop counter of rpc
  link,     \* the session behind writer and reader, and its context
  lines,    \* what the reader has not read
  inbox,    \* per id: copies of the request the server has not executed
  served,   \* per id: how often the server has executed it
  outcome,  \* per id: what became of the call
  answer    \* per id: the id of the line the caller was given, 0 for none

session == <<link, lines>>
server  == <<inbox, served>>
calls   == <<outcome, answer>>
vars == <<stage, ctx, expired, pc, id, attempt, session, server, calls>>

Line == [kind : {"answer", "notification", "garbage"}, id : 0 .. MaxRequests]
Answer(i)    == [kind |-> "answer", id |-> i]
Notification == [kind |-> "notification", id |-> 0]
Garbage      == [kind |-> "garbage", id |-> 0]

Connecting(c) == [state |-> "opening", ctx |-> c]

Init ==
  /\ stage = "initialize" /\ ctx = 0 /\ expired = {}
  /\ pc = "idle" /\ id = 0 /\ attempt = 0
  /\ link = Connecting(0) /\ lines = <<>>
  /\ inbox = [i \in Ids |-> 0] /\ served = [i \in Ids |-> 0]
  /\ outcome = [i \in Ids |-> "unsent"] /\ answer = [i \in Ids |-> 0]

-----------------------------------------------------------------------------
(* The handler: initStdio, then Process under withOptionalTimeout.         *)

Enter ==
  /\ stage = "resting" /\ ctx < MaxContexts
  /\ stage' = "processing" /\ ctx' = ctx + 1
  /\ expired' = IF 0 \in expired THEN expired \cup {ctx'} ELSE expired
  /\ UNCHANGED <<pc, id, attempt, session, server, calls>>

Leave ==
  /\ stage = "processing" /\ pc = "idle"
  /\ stage' = "resting"
  /\ expired' = expired \cup {ctx}
  /\ UNCHANGED <<ctx, pc, id, attempt, session, server, calls>>

Deadline ==
  /\ stage = "processing" /\ ctx \notin expired
  /\ expired' = expired \cup {ctx}
  /\ UNCHANGED <<stage, ctx, pc, id, attempt, session, server, calls>>

(* SIGTERM: signal.NotifyContext cancels the root of every context.        *)
Terminate ==
  /\ 0 \notin expired
  /\ expired' = expired \cup {0, ctx}
  /\ UNCHANGED <<stage, ctx, pc, id, attempt, session, server, calls>>

(* Mutants: Init goes on after a failed initialize; a reader that takes    *)
(* any answer; a loop that runs once too often; a reader that is never     *)
(* told of the end of its session.                                         *)
AfterAnything(result) ==
  CASE stage = "initialize" -> "notify"
    [] stage = "probe" -> "resting"
    [] OTHER -> stage
MatchesAny(line) == line.kind = "answer"
OneAttemptMore == attempt < MaxAttempts
NeverEnded == FALSE

(* What the handler does next when a call returns: Init gives up on a      *)
(* failed initialize and ignores what the probe returned.                  *)
After(result) ==
  CASE stage = "initialize" -> IF result = "ok" THEN "notify" ELSE "failed"
    [] stage = "probe" -> "resting"
    [] OTHER -> stage

(* NotifyInitialized writes once; its error is ignored.                    *)
Notify ==
  /\ stage = "notify"
  /\ link.state \in {"open", "lingering", "refused"}
  /\ stage' = "probe"
  /\ link' = IF link.state = "lingering"
             THEN [link EXCEPT !.state = "severed"] ELSE link
  /\ UNCHANGED <<ctx, expired, pc, id, attempt, lines, server, calls>>

-----------------------------------------------------------------------------
(* rpc and readResponse.                                                   *)

Invoke ==
  /\ pc = "idle" /\ stage \in {"initialize", "probe", "processing"}
  /\ id < MaxRequests
  /\ id' = id + 1 /\ attempt' = 0 /\ pc' = "writing"
  /\ outcome' = [outcome EXCEPT ![id'] = "pending"]
  /\ UNCHANGED <<stage, ctx, expired, session, server, answer>>

WriteDelivered ==
  /\ pc = "writing" /\ link.state = "open"
  /\ inbox' = [inbox EXCEPT ![id] = @ + 1]
  /\ pc' = "checking"
  /\ UNCHANGED <<stage, ctx, expired, id, attempt, session, served, calls>>

WriteSwallowed ==
  /\ pc = "writing" /\ link.state = "lingering"
  /\ link' = [link EXCEPT !.state = "severed"]
  /\ pc' = "checking"
  /\ UNCHANGED <<stage, ctx, expired, id, attempt, lines, server, calls>>

WriteFails ==
  /\ pc = "writing" /\ link.state = "refused"
  /\ pc' = "reattaching"
  /\ UNCHANGED <<stage, ctx, expired, id, attempt, session, server, calls>>

(* The context is consulted between lines only, never inside ReadBytes.    *)
CheckContext ==
  /\ pc = "checking"
  /\ pc' = IF ctx \in expired THEN "reattaching" ELSE "reading"
  /\ UNCHANGED <<stage, ctx, expired, id, attempt, session, server, calls>>

(* jsonRPCIDMatches on the uuids newID makes: plain equality.              *)
Matches(line) == line.kind = "answer" /\ line.id = id

ReadAnswer ==
  /\ pc = "reading" /\ lines # <<>> /\ Matches(Head(lines))
  /\ lines' = Tail(lines)
  /\ outcome' = [outcome EXCEPT ![id] = "ok"]
  /\ answer' = [answer EXCEPT ![id] = Head(lines).id]
  /\ pc' = "idle" /\ stage' = After("ok")
  /\ UNCHANGED <<ctx, expired, id, attempt, link, server>>

ReadSkipped ==
  /\ pc = "reading" /\ lines # <<>>
  /\ Head(lines).kind # "garbage" /\ ~ Matches(Head(lines))
  /\ lines' = Tail(lines)
  /\ pc' = "checking"
  /\ UNCHANGED <<stage, ctx, expired, id, attempt, link, server, calls>>

ReadGarbage ==
  /\ pc = "reading" /\ lines # <<>> /\ Head(lines).kind = "garbage"
  /\ lines' = Tail(lines)
  /\ pc' = "reattaching"
  /\ UNCHANGED <<stage, ctx, expired, id, attempt, link, server, calls>>

(* The goroutine closes stdout when the session has ended.                 *)
Ended == link.state \in Ruins

ReadEOF ==
  /\ pc = "reading" /\ lines = <<>> /\ Ended
  /\ pc' = "reattaching"
  /\ UNCHANGED <<stage, ctx, expired, id, attempt, session, server, calls>>

(* The end of one turn of rpc's loop: another attempt, or the last error.  *)
AttemptLeft == attempt + 1 < MaxAttempts

NextAttempt ==
  IF AttemptLeft
  THEN /\ attempt' = attempt + 1 /\ pc' = "writing"
       /\ UNCHANGED <<outcome, stage>>
  ELSE /\ outcome' = [outcome EXCEPT ![id] = "failed"]
       /\ pc' = "idle" /\ stage' = After("failed")
       /\ UNCHANGED attempt

(* A new session under the caller's context takes the place of the old one. *)
(* (That one is not closed; what its reader would get is read by nobody.)  *)
Reattach ==
  /\ pc = "reattaching"
  /\ link' = Connecting(ctx) /\ lines' = <<>>
  /\ NextAttempt
  /\ UNCHANGED <<ctx, expired, id, server, answer>>

ReattachFails ==
  /\ pc = "reattaching"
  /\ NextAttempt
  /\ UNCHANGED <<ctx, expired, id, session, server, answer>>

-----------------------------------------------------------------------------
(* The attach library: StreamWithContext in its goroutine.                 *)

Connect ==
  /\ link.state = "opening"
  /\ link' = [link EXCEPT !.state = "open"]
  /\ UNCHANGED <<stage, ctx, expired, pc, id, attempt, lines, server, calls>>

ConnectFails ==
  /\ link.state = "opening"
  /\ \E r \in Remains \ {"lingering"} : link' = [link EXCEPT !.state = r]
  /\ UNCHANGED <<stage, ctx, expired, pc, id, attempt, lines, server, calls>>

(* The session ends: what it had not copied to the reader is lost.         *)
Drop ==
  /\ link.state = "open"
  /\ \E r \in Remains : link' = [link EXCEPT !.state = r]
  /\ \E n \in 0 .. Len(lines) : lines' = SubSeq(lines, 1, n)
  /\ UNCHANGED <<stage, ctx, expired, pc, id, attempt, server, calls>>

-----------------------------------------------------------------------------
(* The MCP server: its output reaches the sessions that are up.            *)

Output(line) == lines' = IF link.state = "open" THEN Append(lines, line) ELSE lines

Serve(i) ==
  /\ inbox[i] > 0
  /\ inbox' = [inbox EXCEPT ![i] = @ - 1]
  /\ served' = [served EXCEPT ![i] = @ + 1]
  /\ Output(Answer(i))
  /\ UNCHANGED <<stage, ctx, expired, pc, id, attempt, link, calls>>

Chatter ==
  /\ link.state = "open" /\ Len(lines) < MaxNoise
  /\ Output(Notification) \/ Output(Garbage)
  /\ UNCHANGED <<stage, ctx, expired, pc, id, attempt, link, server, calls>>

-----------------------------------------------------------------------------
Handler == Enter \/ Leave \/ Deadline \/ Terminate \/ Notify \/ Invoke

Rpc == \/ WriteDelivered \/ WriteSwallowed \/ WriteFails
       \/ CheckContext \/ ReadAnswer \/ ReadSkipped \/ ReadGarbage \/ ReadEOF
       \/ Reattach \/ ReattachFails

Library == Connect \/ ConnectFails \/ Drop

Server == Chatter \/ \E i \in Ids : Serve(i)

Next == Handler \/ Rpc \/ Library \/ Server

Spec == Init /\ [][Next]_vars

(* A runnable goroutine runs: rpc is never abandoned where it can go on,   *)
(* an attach attempt comes to an end, and a session ends with its context. *)
ClientFairness ==
  /\ WF_vars(Rpc)
  /\ WF_vars(Notify)
  /\ WF_vars(Connect \/ ConnectFails)
  /\ WF_vars(link.ctx \in expired /\ Drop)

(* A server that answers what it has received.                             *)
ServerFairness == \A i \in Ids : WF_vars(Serve(i))

(* The client alone: the server may hang.                                  *)
ClientSpec == Spec /\ ClientFairness

FairSpec == ClientSpec /\ ServerFairness

-----------------------------------------------------------------------------
Stages == {"initialize", "notify", "probe", "resting", "processing", "failed"}
Points == {"idle", "writing", "checking", "reading", "reattaching"}

ControlOK ==
  /\ stage \in Stages /\ pc \in Points
  /\ ctx \in Contexts /\ expired \subseteq Contexts
  /\ id \in 0 .. MaxRequests /\ attempt \in 0 .. MaxAttempts - 1
  /\ pc # "idle" => id \in Ids /\ stage \in {"initialize", "probe", "processing"}
SessionOK ==
  /\ link \in [state : {"opening", "open"} \cup Ruins, ctx : Contexts]
  /\ lines \in Seq(Line)
ServerOK ==
  /\ inbox \in [Ids -> Nat]
  /\ served \in [Ids -> Nat]
CallsOK ==
  /\ outcome \in [Ids -> {"unsent", "pending", "ok", "failed"}]
  /\ answer \in [Ids -> 0 .. MaxRequests]

(* Every variable keeps to its range; rpc runs only where the handler      *)
(* calls it.                                                               *)
TypeOK == ControlOK /\ SessionOK /\ ServerOK /\ CallsOK

(* A call that succeeds returns the answer to that call, from a server     *)
(* that has executed it: across retries, reattached streams, interleaved   *)
(* notifications and the late answers of earlier calls                     *)
(* (readResponse, stdio_client.go:238-246).                                *)
OwnAnswerOnly ==
  \A i \in Ids : outcome[i] = "ok" => answer[i] = i /\ served[i] > 0

(* However the stream breaks, no request reaches the server more than      *)
(* maxAttempts times (stdio_client.go:183), a failed call's copies that    *)
(* are still queued in the runner included.                                *)
AttemptBudget ==
  \A i \in Ids : inbox[i] + served[i] <= MaxAttempts

(* The server is handed no request before it has been initialized: the     *)
(* first request is answered before a second one is ever written           *)
(* (handler.go:169-176).                                                   *)
HandshakeFirst ==
  \A i \in Ids : i > 1 /\ inbox[i] + served[i] > 0 => outcome[1] = "ok"

(* If the server answers, a call is held up for ever by nothing but a      *)
(* write to a pipe without a reader: no interleaving of drops, swallowed   *)
(* writes, reattaches, noise and deadlines leaves rpc waiting to read      *)
(* (stdio_client.go:84-92, 202-247).                                       *)
CallsReturn ==
  \A i \in Ids : outcome[i] = "pending" ~>
    outcome[i] # "pending" \/ (pc = "writing" /\ link.state = "severed")

(* "Retry send+receive on disconnect" (stdio_client.go:180): a send that   *)
(* meets a dead session is not stuck in it, as long as the process is not  *)
(* being terminated.                                                       *)
SendReturns == pc = "writing" ~> (pc # "writing" \/ 0 \in expired)

(* "Optional per-call timeout" (README.md:99): a call whose deadline has   *)
(* passed returns, whatever the server does.                               *)
DeadlineHonoured ==
  (pc # "idle" /\ ctx \in expired) ~> pc = "idle"

(* The promise of mcp.Client, with as many executions as rpc has attempts. *)
Promise == INSTANCE McpClient WITH Requests <- Ids, Budget <- MaxAttempts,
                                   Silent <- FALSE

KeepsPromise == Promise!Spec
=============================================================================
