--------------------------- MODULE HttpTransport ---------------------------
(***************************************************************************)
(* The streamable HTTP transport: pkg/mcp/http_client.go as initHTTP and   *)
(* Process (pkg/adapter/handler.go) drive it.  Each message of the client, *)
(* the initialized notification included, is one POST whose response is a  *)
(* JSON body or a stream of server-sent events, read to its end.  Nothing  *)
(* is retried, and no id is compared: the response of a POST is taken for  *)
(* the answer to what was posted.                                          *)
(*                                                                         *)
(* Outside the repository: net/http, which delivers a POST at most once    *)
(* and wakes a pending call when its context is done, and the MCP server.  *)
(***************************************************************************)
EXTENDS Naturals, Sequences, EventStream

CONSTANTS
  MaxRequests,  \* bound: messages sent in a behaviour
  MaxLines      \* bound: lines of one event stream

ASSUME HttpAssumption == MaxRequests \in Nat /\ MaxLines \in Nat

Ids == 1 .. MaxRequests

(* A line of the stream as NextEvent tells lines apart: data with the      *)
(* answer, or with another message; a blank line; one that says nothing to *)
(* the caller (data: with nothing after it, a comment, event:, retry:, and *)
(* id: too, since decodeSSEFrames drops an event of an id alone).          *)
Line == {"answer", "other", "blank", "hollow"}

VARIABLES
  stage,    \* how far the adapter is
  ending,   \* the process is being terminated
  expired,  \* the context of the Process call is past its deadline
  pc,       \* where the call is
  id,       \* number of the last message
  sent,     \* the lines of the response so far
  body,     \* the stream's end: "open", "closed", or "torn" within its last line
  read,     \* how many lines were read
  block,    \* NextEvent's dataBuf
  frames,   \* decodeSSEFrames' result so far, each frame a block's data
  inbox,    \* messages delivered to the server and not executed
  served,   \* per message: how often it was executed
  outcome,  \* per message: what became of the call
  answer    \* per message: the message whose answer the caller got, 0 for none

stream == <<sent, body, read, block, frames>>
vars == <<stage, ending, expired, pc, id, stream, inbox, served, outcome, answer>>

Init ==
  /\ stage = "initialize" /\ ending = FALSE /\ expired = FALSE
  /\ pc = "idle" /\ id = 0
  /\ sent = <<>> /\ body = "closed" /\ read = 0 /\ block = <<>> /\ frames = <<>>
  /\ inbox = {} /\ served = [i \in Ids |-> 0]
  /\ outcome = [i \in Ids |-> "unsent"] /\ answer = [i \in Ids |-> 0]

CtxDone == ending \/ expired

(* Mutants: a POST that may be repeated; an event that keeps the data of   *)
(* the one before; payloads not trimmed.                                   *)
DeliverAgain ==
  /\ pc = "posting"
  /\ inbox' = inbox \cup {id} /\ pc' \in {"posting", "awaiting"}
  /\ UNCHANGED <<stage, ending, expired, id, stream, served, outcome, answer>>
Stale == block
AnyData == {"answer", "other", "hollow"}

-----------------------------------------------------------------------------
(* The handler: initHTTP, then calls made by Process.                      *)

After(result) ==
  CASE stage = "initialize" -> IF result = "ok" THEN "notify" ELSE "failed"
    [] stage = "notify" -> "probe"
    [] OTHER -> "processing"

(* The call returns, and closes the body; r is the message whose answer it *)
(* carries, if any.                                                        *)
Return(result, r) ==
  /\ outcome' = [outcome EXCEPT ![id] = result]
  /\ answer' = [answer EXCEPT ![id] = r]
  /\ pc' = "idle" /\ stage' = After(result)
  /\ sent' = <<>> /\ body' = "closed" /\ read' = 0 /\ block' = <<>> /\ frames' = <<>>

(* A call under the context of the Process call before it, or of a new one. *)
Invoke ==
  /\ pc = "idle" /\ stage # "failed" /\ id < MaxRequests
  /\ id' = id + 1 /\ pc' = "posting"
  /\ outcome' = [outcome EXCEPT ![id'] = "pending"]
  /\ expired' \in {expired, FALSE}
  /\ UNCHANGED <<stage, ending, stream, inbox, served, answer>>

(* No tool, resource or prompt named: an error, and nothing is posted.     *)
RejectArguments ==
  /\ pc = "posting" /\ stage = "processing"
  /\ Return("failed", 0)
  /\ UNCHANGED <<ending, expired, id, inbox, served>>

Deadline ==
  /\ stage = "processing" /\ ~ expired
  /\ expired' = TRUE
  /\ UNCHANGED <<stage, ending, pc, id, stream, inbox, served, outcome, answer>>

Terminate ==
  /\ ~ ending
  /\ ending' = TRUE
  /\ UNCHANGED <<stage, expired, pc, id, stream, inbox, served, outcome, answer>>

-----------------------------------------------------------------------------
(* postJSONRPCMaybeStream.                                                 *)

Deliver ==
  /\ pc = "posting"
  /\ inbox' = inbox \cup {id} /\ pc' = "awaiting"
  /\ UNCHANGED <<stage, ending, expired, id, stream, served, outcome, answer>>

(* No connection, a broken one, or a status other than 2xx.                *)
Broken ==
  /\ pc \in {"posting", "awaiting", "reading"}
  /\ Return("failed", 0)
  /\ UNCHANGED <<ending, expired, id, inbox, served>>

Interrupted ==
  /\ pc # "idle" /\ CtxDone
  /\ Return("failed", 0)
  /\ UNCHANGED <<ending, expired, id, inbox, served>>

(* decodeJSONOrText: the answer, or a body that is empty or no JSON-RPC,   *)
(* which is as good.                                                       *)
ReadBody ==
  /\ pc = "awaiting"
  /\ \/ served[id] > 0 /\ Return("ok", id)
     \/ Return("ok", 0)
  /\ UNCHANGED <<ending, expired, id, inbox, served>>

OpenStream ==
  /\ pc = "awaiting"
  /\ pc' = "checking"
  /\ body' = "open"
  /\ UNCHANGED <<stage, ending, expired, id, sent, read, block, frames,
                 inbox, served, outcome, answer>>

-----------------------------------------------------------------------------
(* decodeSSEFrames and NextEvent.                                          *)

CheckContext ==
  /\ pc = "checking" /\ ~ CtxDone
  /\ pc' = "reading"
  /\ UNCHANGED <<stage, ending, expired, id, stream, inbox, served, outcome, answer>>

(* Lines that ended in a newline; ReadString drops a last one that did not. *)
Whole == IF body = "torn" THEN Len(sent) - 1 ELSE Len(sent)

Payloads == {"answer", "other"}

Fresh == <<>>

(* An event without data is dropped.                                       *)
Flush ==
  /\ frames' = IF block = <<>> THEN frames ELSE Append(frames, block)
  /\ block' = Fresh

ReadLine ==
  /\ pc = "reading" /\ read < Whole
  /\ read' = read + 1 /\ pc' = "checking"
  /\ LET line == sent[read'] IN
     \/ line = "blank" /\ Flush
     \/ line \in Payloads /\ block' = Append(block, line) /\ UNCHANGED frames
     \/ line \notin Payloads /\ line # "blank" /\ UNCHANGED <<block, frames>>
  /\ UNCHANGED <<stage, ending, expired, id, sent, body, inbox, served, outcome, answer>>

AtEnd == pc = "reading" /\ body # "open" /\ read = Whole

(* What was gathered when the stream ends is an event too.                 *)
FlushAtEnd ==
  /\ AtEnd /\ block # <<>>
  /\ Flush /\ pc' = "checking"
  /\ UNCHANGED <<stage, ending, expired, id, sent, body, read, inbox, served, outcome, answer>>

(* The frames are the result, whether there is an answer among them or not. *)
ReadEnd ==
  /\ AtEnd /\ block = <<>>
  /\ Return("ok", IF \E k \in 1 .. Len(frames) : frames[k] = <<"answer">> THEN id ELSE 0)
  /\ UNCHANGED <<ending, expired, id, inbox, served>>

-----------------------------------------------------------------------------
(* The MCP server.                                                         *)

Serve(i) ==
  /\ i \in inbox
  /\ inbox' = inbox \ {i} /\ served' = [served EXCEPT ![i] = @ + 1]
  /\ UNCHANGED <<stage, ending, expired, pc, id, stream, outcome, answer>>

Streaming == pc \in {"checking", "reading"} /\ body = "open"

SendLine ==
  /\ Streaming /\ Len(sent) < MaxLines
  /\ \E line \in Line : /\ line = "answer" => served[id] > 0
                        /\ sent' = Append(sent, line)
  /\ UNCHANGED <<stage, ending, expired, pc, id, body, read, block, frames,
                 inbox, served, outcome, answer>>

EndStream ==
  /\ Streaming
  /\ body' = "closed" \/ (read < Len(sent) /\ body' = "torn")
  /\ UNCHANGED <<stage, ending, expired, pc, id, sent, read, block, frames,
                 inbox, served, outcome, answer>>

-----------------------------------------------------------------------------
Call == \/ Deliver \/ Interrupted \/ ReadBody \/ OpenStream
        \/ CheckContext \/ ReadLine \/ FlushAtEnd \/ ReadEnd

Server == SendLine \/ EndStream \/ \E i \in Ids : Serve(i)

Next == \/ Invoke \/ RejectArguments \/ Deadline \/ Terminate \/ Broken
        \/ Call \/ Server

Spec == Init /\ [][Next]_vars

(* A runnable goroutine runs, and net/http returns when the context is     *)
(* done; the server may hang or stream for ever.                           *)
ClientSpec ==
  /\ Spec
  /\ WF_vars(Deliver) /\ WF_vars(Interrupted)
  /\ WF_vars(CheckContext \/ ReadLine \/ FlushAtEnd \/ ReadEnd)

-----------------------------------------------------------------------------
(* Every variable keeps to its range; what the decoder holds is payload.   *)
TypeOK ==
  /\ stage \in {"initialize", "notify", "probe", "processing", "failed"}
  /\ ending \in BOOLEAN /\ expired \in BOOLEAN
  /\ pc \in {"idle", "posting", "awaiting", "checking", "reading"}
  /\ id \in 0 .. MaxRequests
  /\ pc # "idle" => id \in Ids /\ stage # "failed"
  /\ sent \in Seq(Line) /\ body \in {"open", "closed", "torn"}
  /\ read \in 0 .. Len(sent) /\ block \in Seq({"answer", "other"})
  /\ frames \in Seq(Seq({"answer", "other"}))
  /\ inbox \subseteq Ids /\ served \in [Ids -> Nat]
  /\ outcome \in [Ids -> {"unsent", "pending", "ok", "failed"}]
  /\ answer \in [Ids -> 0 .. MaxRequests]

(* "SSE frames are returned verbatim to callers" (http_client.go:23): at   *)
(* any point, and so when it returns, the frames with the one it gathers   *)
(* are the events of the lines read, none lost, merged or split.           *)
FramesVerbatim ==
  frames \o (IF block = <<>> THEN <<>> ELSE <<block>>)
    = Events(SubSeq(sent, 1, read))

(* "Supports long-lived sessions using JSON polling or SSE"                *)
(* (README.md:123): a call whose answer has come, in an event that is      *)
(* complete, returns, though the server keeps the stream open.             *)
AnsweredReturns ==
  (pc # "idle" /\ <<"answer">> \in {frames[k] : k \in 1 .. Len(frames)}) ~> pc = "idle"

(* The promise of mcp.Client with a single execution; success does not     *)
(* imply an answer.                                                        *)
Promise == INSTANCE McpClient WITH Requests <- Ids, Budget <- 1, Silent <- TRUE

KeepsPromise == Promise!Spec
=============================================================================
