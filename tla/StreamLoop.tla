----------------------------- MODULE StreamLoop -----------------------------
(***************************************************************************)
(* The streaming mode of pkg/adapter/handler.go: Stream takes a message    *)
(* from in, decodes it, has Process execute it, hands the reply to out and *)
(* only then acknowledges the message; on return it runs the cleanup.      *)
(* Process is the batch entry point as well, and there the cleanup is its  *)
(* own last step: the streaming flag is what tells the two apart.          *)
(*                                                                         *)
(* Outside the repository: the SDK, which fills and closes in, takes from  *)
(* out, and cancels the context.  What a message's action does at the MCP  *)
(* server is the matter of ToolCall and StdioTransport.                    *)
(***************************************************************************)
EXTENDS Naturals, Sequences, Functions

CONSTANTS
  MaxMessages,  \* bound: messages that arrive, numbered in order
  Capacity      \* messages the in channel holds

ASSUME StreamAssumption == MaxMessages \in Nat /\ Capacity \in Nat \ {0}

Messages == 1 .. MaxMessages

(* A message as decodeStreamInputs sees it: inputs it can decode; nothing  *)
(* to decode; JSON that is not inputs, a timeout given as a string say.    *)
Kinds == {"inputs", "empty", "malformed"}

VARIABLES
  kind,       \* what each message is
  arrived,    \* how many messages have been put into in
  in,         \* the messages in the channel
  closed,     \* the SDK has closed it
  ctxDone,    \* the context of Stream is cancelled
  pc,         \* where Stream is
  msg,        \* the message in hand, 0 for none
  streaming,  \* e.streaming
  executed,   \* messages Process has executed, in order
  replies,    \* messages whose reply was taken from out, in order
  acked,      \* messages whose Done was called
  runner      \* the stdio runner: "up", or "deleted" by a cleanup

sdk == <<arrived, in, closed, ctxDone>>
vars == <<kind, sdk, pc, msg, streaming, executed, replies, acked, runner>>

Init ==
  /\ kind \in [Messages -> Kinds]
  /\ arrived = 0 /\ in = <<>> /\ closed = FALSE /\ ctxDone = FALSE
  /\ pc = "starting" /\ msg = 0 /\ streaming = FALSE
  /\ executed = <<>> /\ replies = <<>> /\ acked = {} /\ runner = "up"

-----------------------------------------------------------------------------
(* The SDK.                                                                *)

Arrive ==
  /\ ~ closed /\ arrived < MaxMessages /\ Len(in) < Capacity
  /\ arrived' = arrived + 1
  /\ in' = Append(in, arrived')
  /\ UNCHANGED <<kind, closed, ctxDone, pc, msg, streaming, executed, replies, acked, runner>>

Close ==
  /\ ~ closed
  /\ closed' = TRUE
  /\ UNCHANGED <<kind, arrived, in, ctxDone, pc, msg, streaming, executed, replies, acked, runner>>

Cancel ==
  /\ ~ ctxDone
  /\ ctxDone' = TRUE
  /\ UNCHANGED <<kind, arrived, in, closed, pc, msg, streaming, executed, replies, acked, runner>>

-----------------------------------------------------------------------------
(* Mutants: a decode error that ends the turn without Done; a message      *)
(* acknowledged before its reply is sent; Process cleaning up in either    *)
(* mode; the two selects without their ctx.Done branch; Stream not marking *)
(* itself; a reply sent again after it was taken.                          *)
AckNothing == acked
AckOnExecution == acked \cup {msg}
CleansAlways == TRUE
IgnoreCancel == FALSE
NotMarked == FALSE
ReplyAgain ==
  /\ pc = "replying"
  /\ replies' = Append(replies, msg) /\ acked' = acked \cup {msg}
  /\ pc' = IF msg \in acked THEN "selecting" ELSE pc
  /\ UNCHANGED <<kind, sdk, msg, streaming, executed, runner>>

-----------------------------------------------------------------------------
(* Stream.                                                                 *)

InStream == TRUE

Begin ==
  /\ pc = "starting"
  /\ streaming' = InStream /\ pc' = "selecting"
  /\ UNCHANGED <<kind, sdk, msg, executed, replies, acked, runner>>

(* The select takes either ready branch.                                   *)
SeeCancel == ctxDone

Receive ==
  /\ pc = "selecting" /\ in # <<>>
  /\ msg' = Head(in) /\ in' = Tail(in) /\ pc' = "decoding"
  /\ UNCHANGED <<kind, arrived, closed, ctxDone, streaming, executed, replies, acked, runner>>

StopReceiving ==
  /\ pc = "selecting"
  /\ SeeCancel \/ (closed /\ in = <<>>)
  /\ pc' = "cleaning"
  /\ UNCHANGED <<kind, sdk, msg, streaming, executed, replies, acked, runner>>

(* json.Unmarshal reads timeout into a time.Duration: a string is an error. *)
Decodes(m) == kind[m] = "inputs"

AckDropped == acked \cup {msg}

(* decodeStreamInputs failed, or had nothing to decode: Done, no reply.    *)
Discard ==
  /\ pc = "decoding" /\ ~ Decodes(msg)
  /\ acked' = AckDropped
  /\ msg' = 0 /\ pc' = "selecting"
  /\ UNCHANGED <<kind, sdk, streaming, executed, replies, runner>>

ProcessCleansUp == ~ streaming
AckOnProcess == acked

(* Process returns data, possibly an error envelope, never an error.       *)
Process ==
  /\ pc = "decoding" /\ Decodes(msg)
  /\ executed' = Append(executed, msg)
  /\ runner' = IF ProcessCleansUp /\ ~ ctxDone THEN "deleted" ELSE runner
  /\ acked' = AckOnProcess
  /\ pc' = "replying"
  /\ UNCHANGED <<kind, sdk, msg, streaming, replies>>

Reply ==
  /\ pc = "replying"
  /\ replies' = Append(replies, msg) /\ acked' = acked \cup {msg}
  /\ msg' = 0 /\ pc' = "selecting"
  /\ UNCHANGED <<kind, sdk, streaming, executed, runner>>

AbandonReply ==
  /\ pc = "replying" /\ SeeCancel
  /\ pc' = "cleaning"
  /\ UNCHANGED <<kind, sdk, msg, streaming, executed, replies, acked, runner>>

(* The deferred cleanup, under the context of Stream: a cancelled one      *)
(* deletes nothing.                                                        *)
Cleanup ==
  /\ pc = "cleaning"
  /\ streaming' = FALSE
  /\ runner' = IF ctxDone THEN runner ELSE "deleted"
  /\ pc' = "returned"
  /\ UNCHANGED <<kind, sdk, msg, executed, replies, acked>>

-----------------------------------------------------------------------------
OwnStep == Begin \/ Receive \/ StopReceiving \/ Discard \/ AbandonReply \/ Cleanup

Loop == OwnStep \/ Process

Next == Arrive \/ Close \/ Cancel \/ Loop \/ Reply

Spec == Init /\ [][Next]_vars

(* Stream runs while it can.  That Process returns is not assumed, for it  *)
(* waits for the client; the SDK may stop taking replies.                  *)
LoopSpec == Spec /\ WF_vars(OwnStep)

-----------------------------------------------------------------------------
(* Every variable keeps to its range, a message is in hand where           *)
(* Stream works on one, and streaming is set exactly while Stream runs.    *)
TypeOK ==
  /\ kind \in [Messages -> Kinds]
  /\ arrived \in 0 .. MaxMessages /\ in \in Seq(Messages)
  /\ closed \in BOOLEAN /\ ctxDone \in BOOLEAN /\ streaming \in BOOLEAN
  /\ pc \in {"starting", "selecting", "decoding", "replying", "cleaning", "returned"}
  /\ msg \in 0 .. MaxMessages
  /\ pc \in {"decoding", "replying"} => msg # 0
  /\ streaming <=> pc \notin {"starting", "returned"}
  /\ executed \in Seq(Messages) /\ replies \in Seq(Messages)
  /\ acked \subseteq Messages /\ runner \in {"up", "deleted"}

Taken(m) == m <= arrived /\ m \notin Range(in)

(* A message with inputs is acknowledged only after its reply was handed   *)
(* over: cancelled in between, it stays unacknowledged and can be          *)
(* redelivered (handler.go:433-438).                                       *)
AckAfterReply ==
  \A m \in acked : Decodes(m) => m \in Range(replies)

(* Every message taken from in is settled before the next one is taken:    *)
(* only the one in hand is unacknowledged, undecodable ones included.      *)
TakenIsSettled ==
  \A m \in Messages : Taken(m) => m \in acked \/ m = msg

(* Replies leave in the order the messages came, one each at the most, and *)
(* each was executed just once, the one in hand perhaps without a reply.   *)
RepliesFollowExecution ==
  /\ \A i, j \in 1 .. Len(executed) : i < j => executed[i] < executed[j]
  /\ Len(executed) \in Len(replies) .. Len(replies) + 1
  /\ replies = SubSeq(executed, 1, Len(replies))

(* The runner outlives the loop: no message is executed on a runner that a *)
(* previous message's Process has deleted (handler.go:213).                *)
RunnerServesTheLoop ==
  pc \in {"selecting", "decoding", "replying"} => runner = "up"
=============================================================================
