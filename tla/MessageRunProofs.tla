-------------------------- MODULE MessageRunProofs --------------------------
(***************************************************************************)
(* Safety of the stream loop for any number of messages and any capacity   *)
(* of the channel.  The invariants the runs check are not inductive: they  *)
(* rest on the messages in the channel being the last that arrived, in     *)
(* order, and on the message in hand being the one before them.            *)
(*                                                                         *)
(* Then, that Stream and the actions of its messages together keep to both *)
(* modules they are made of, so that all that is proved of these holds of  *)
(* the whole; and that calls are made for the message in hand only.        *)
(***************************************************************************)
EXTENDS MessageRun, ToolCallProofs


(* The messages taken from the channel are the first so many.              *)
LastTaken == arrived - Len(in)

InOrder ==
  /\ Len(in) <= arrived
  /\ \A k \in 1 .. Len(in) : in[k] = LastTaken + k

(* The message in hand is the last one taken.                              *)
InHand ==
  /\ pc \in {"starting", "selecting"} => msg = 0
  /\ msg # 0 => msg = LastTaken

(* Only messages taken are acknowledged, the one in hand is not yet, and   *)
(* all others taken are.                                                   *)
Settlement ==
  /\ \A m \in acked : m <= LastTaken /\ m # msg
  /\ \A m \in 1 .. LastTaken : m \in acked \/ m = msg

(* Execution is in the order of arrival, and not ahead of the message in   *)
(* hand.                                                                   *)
Executions ==
  /\ \A i, j \in 1 .. Len(executed) : i < j => executed[i] < executed[j]
  /\ \A i \in 1 .. Len(executed) :
       /\ executed[i] <= LastTaken
       /\ pc = "decoding" => executed[i] < msg

(* What was executed was replied to, except for the message in hand.       *)
Answers ==
  /\ \A i \in 1 .. Len(replies) : replies[i] = executed[i]
  /\ Len(replies) <= Len(executed) /\ Len(executed) <= Len(replies) + 1
  /\ pc \in {"starting", "selecting", "decoding"} => Len(executed) = Len(replies)
  /\ pc = "replying" => /\ Len(executed) = Len(replies) + 1
                        /\ executed[Len(executed)] = msg

LoopInv ==
  /\ TypeOK
  /\ InOrder
  /\ InHand
  /\ Settlement
  /\ Executions
  /\ Answers
  /\ AckAfterReply
  /\ RunnerServesTheLoop /\ (pc = "starting" => runner = "up")

-----------------------------------------------------------------------------
(* The initial states satisfy the invariant.                               *)
LEMMA InitLoopInv == Init => LoopInv
<1> SUFFICES ASSUME Init PROVE LoopInv
  OBVIOUS
<1> USE StreamAssumption DEF Init
<1>1. TypeOK
  <2>1. closed \in BOOLEAN /\ ctxDone \in BOOLEAN /\ streaming \in BOOLEAN
    OBVIOUS
  <2>2. /\ kind \in [Messages -> Kinds]
        /\ arrived \in 0 .. MaxMessages /\ in \in Seq(Messages)
        /\ pc \in {"starting", "selecting", "decoding", "replying", "cleaning", "returned"}
        /\ msg \in 0 .. MaxMessages
        /\ pc \in {"decoding", "replying"} => msg # 0
        /\ executed \in Seq(Messages) /\ replies \in Seq(Messages)
        /\ acked \subseteq Messages /\ runner \in {"up", "deleted"}
    BY DEF Messages
  <2>3. streaming <=> pc \notin {"starting", "returned"}
    OBVIOUS
  <2>4. QED
    BY <2>1, <2>2, <2>3 DEF TypeOK
<1>2. InOrder /\ InHand /\ Settlement /\ Executions /\ Answers
  BY DEF InOrder, InHand, Settlement, Executions, Answers, LastTaken
<1>3. AckAfterReply /\ RunnerServesTheLoop
  BY DEF AckAfterReply, RunnerServesTheLoop
<1>4. QED
  BY <1>1, <1>2, <1>3 DEF LoopInv

(* Type correctness is inductive by itself.                                *)
LEMMA TypeStep == ASSUME TypeOK, [Next]_vars PROVE TypeOK'
<1> USE StreamAssumption DEF TypeOK, Messages, sdk
<1>1. CASE Arrive
  <2>1. arrived + 1 \in Messages
    BY <1>1 DEF Arrive
  <2>2. QED
    BY <1>1, <2>1 DEF Arrive
<1>2. CASE Close \/ Cancel
  <2>1. closed' \in BOOLEAN /\ ctxDone' \in BOOLEAN
    BY <1>2 DEF Close, Cancel
  <2>2. UNCHANGED <<kind, arrived, in, pc, msg, streaming, executed, replies, acked, runner>>
    BY <1>2 DEF Close, Cancel
  <2>3. QED
    BY <2>1, <2>2
<1>3. CASE Begin \/ StopReceiving \/ AbandonReply \/ Cleanup
  <2>1. (streaming <=> pc \notin {"starting", "returned"})' /\ streaming' \in BOOLEAN
    BY <1>3 DEF Begin, InStream, StopReceiving, AbandonReply, Cleanup
  <2>2. /\ pc' \in {"selecting", "cleaning", "returned"} /\ runner' \in {"up", "deleted"}
        /\ UNCHANGED <<kind, sdk, msg, executed, replies, acked>>
    BY <1>3 DEF Begin, InStream, StopReceiving, SeeCancel, AbandonReply, Cleanup
  <2>3. QED
    BY <2>1, <2>2
<1>4. CASE Receive
  <2>1. Head(in) \in Messages /\ Tail(in) \in Seq(Messages)
    BY <1>4 DEF Receive
  <2>2. QED
    BY <1>4, <2>1 DEF Receive
<1>5. CASE Discard
  BY <1>5 DEF Discard, AckDropped
<1>6. CASE Process
  BY <1>6 DEF Process, AckOnProcess, ProcessCleansUp
<1>7. CASE Reply
  BY <1>7 DEF Reply
<1>8. CASE UNCHANGED vars
  BY <1>8 DEF vars
<1>9. QED
  BY <1>1, <1>2, <1>3, <1>4, <1>5, <1>6, <1>7, <1>8 DEF Next, Loop, OwnStep

(* The channel, and the message taken from it last.                        *)
LEMMA ChannelStep ==
  ASSUME TypeOK, InOrder, InHand, [Next]_vars
  PROVE  InOrder' /\ InHand' /\ (Receive \/ LastTaken' = LastTaken)
<1> USE StreamAssumption DEF TypeOK, Messages, InOrder, InHand, LastTaken
<1>1. CASE Arrive
  BY <1>1 DEF Arrive
<1>2. CASE Close \/ Cancel \/ Begin \/ StopReceiving \/ AbandonReply \/ Cleanup
  BY <1>2 DEF Close, Cancel, Begin, InStream, StopReceiving, SeeCancel, AbandonReply, Cleanup, sdk
<1>3. CASE Receive
  BY <1>3 DEF Receive
<1>4. CASE Discard \/ Process \/ Reply
  BY <1>4 DEF Discard, Process, Reply, sdk
<1>5. CASE UNCHANGED vars
  BY <1>5 DEF vars, sdk
<1>6. QED
  BY <1>1, <1>2, <1>3, <1>4, <1>5 DEF Next, Loop, OwnStep

(* Acknowledgements.                                                       *)
LEMMA SettlementStep ==
  ASSUME TypeOK, TypeOK', InOrder, InHand, Settlement, [Next]_vars
  PROVE  Settlement'
<1> USE StreamAssumption DEF TypeOK, Messages, Settlement
<1>0. LastTaken \in Nat /\ LastTaken' \in Nat
  BY ChannelStep DEF InOrder, LastTaken
<1>1. CASE Receive
  <2>1. LastTaken' = LastTaken + 1 /\ msg' = LastTaken + 1 /\ msg = 0
    BY <1>1 DEF Receive, InOrder, InHand, LastTaken
  <2>2. QED
    BY <1>0, <1>1, <2>1 DEF Receive
<1>2. CASE Discard
  BY <1>0, <1>2, ChannelStep DEF Discard, AckDropped, InHand, LastTaken, sdk
<1>3. CASE Reply
  BY <1>0, <1>3, ChannelStep DEF Reply, InHand, LastTaken, sdk
<1>4. CASE Process
  BY <1>4 DEF Process, AckOnProcess, LastTaken, sdk
<1>5. CASE Arrive
  BY <1>5, ChannelStep DEF Arrive, Receive
<1>6. CASE Close \/ Cancel \/ Begin \/ StopReceiving \/ AbandonReply \/ Cleanup \/ UNCHANGED vars
  BY <1>6 DEF Close, Cancel, Begin, StopReceiving, AbandonReply, Cleanup, LastTaken, vars, sdk
<1>7. QED
  BY <1>1, <1>2, <1>3, <1>4, <1>5, <1>6 DEF Next, Loop, OwnStep

(* Executions.                                                             *)
LEMMA ExecutionsStep ==
  ASSUME TypeOK, TypeOK', InOrder, InHand, Executions, [Next]_vars
  PROVE  Executions'
<1> USE StreamAssumption DEF TypeOK, Messages, Executions
<1>0. LastTaken \in Nat /\ LastTaken' \in Nat
  BY ChannelStep DEF InOrder, LastTaken
<1>1. CASE Receive
  <2>1. LastTaken' = LastTaken + 1 /\ msg' = LastTaken + 1
    BY <1>1 DEF Receive, InOrder, LastTaken
  <2>2. QED
    BY <1>0, <1>1, <2>1 DEF Receive
<1>2. CASE Process
  BY <1>0, <1>2 DEF Process, InHand, LastTaken, sdk
<1>3. CASE Arrive
  BY <1>3, ChannelStep DEF Arrive, Receive
<1>4. CASE Discard \/ Reply
  BY <1>4 DEF Discard, Reply, LastTaken, sdk
<1>5. CASE Close \/ Cancel \/ Begin \/ StopReceiving \/ AbandonReply \/ Cleanup \/ UNCHANGED vars
  BY <1>5 DEF Close, Cancel, Begin, StopReceiving, AbandonReply, Cleanup, LastTaken, vars, sdk
<1>6. QED
  BY <1>1, <1>2, <1>3, <1>4, <1>5 DEF Next, Loop, OwnStep

(* Replies.                                                                *)
LEMMA AnswersStep ==
  ASSUME TypeOK, TypeOK', Answers, [Next]_vars
  PROVE  Answers'
<1> USE StreamAssumption DEF TypeOK, Messages, Answers
<1>1. CASE Process
  BY <1>1 DEF Process
<1>2. CASE Reply
  BY <1>2 DEF Reply
<1>3. CASE Arrive \/ Receive \/ Discard
  BY <1>3 DEF Arrive, Receive, Discard
<1>4. CASE Close \/ Cancel \/ Begin \/ StopReceiving \/ AbandonReply \/ Cleanup \/ UNCHANGED vars
  BY <1>4 DEF Close, Cancel, Begin, StopReceiving, AbandonReply, Cleanup, vars, sdk
<1>5. QED
  BY <1>1, <1>2, <1>3, <1>4 DEF Next, Loop, OwnStep

(* An element appended is in the range, and so is what was.                *)
LEMMA RangeAppend ==
  ASSUME NEW S, NEW s \in Seq(S), NEW e \in S
  PROVE  Range(Append(s, e)) = Range(s) \cup {e}
<1> DEFINE t == Append(s, e)
<1>1. /\ t \in Seq(S) /\ Len(t) = Len(s) + 1 /\ t[Len(s) + 1] = e
      /\ \A k \in 1 .. Len(s) : t[k] = s[k]
  OBVIOUS
<1>2. DOMAIN t = 1 .. Len(s) + 1 /\ DOMAIN s = 1 .. Len(s) /\ Len(s) \in Nat
  BY <1>1
<1> HIDE DEF t
<1>3. QED
  BY <1>1, <1>2 DEF Range, t

(* Acknowledged messages have their reply.                                 *)
LEMMA AckStep ==
  ASSUME TypeOK, AckAfterReply, [Next]_vars
  PROVE  AckAfterReply'
<1> USE DEF AckAfterReply, Decodes
<1>1. CASE Reply
  <2>1. msg \in Messages /\ replies \in Seq(Messages)
    BY <1>1, StreamAssumption DEF TypeOK, Reply, Messages
  <2>2. Range(replies') = Range(replies) \cup {msg}
    BY <1>1, <2>1, RangeAppend DEF Reply
  <2>3. QED
    BY <1>1, <2>2 DEF Reply
<1>2. CASE Discard
  BY <1>2 DEF Discard, AckDropped
<1>3. CASE Arrive \/ Receive \/ Process
  BY <1>3 DEF Arrive, Receive, Process, AckOnProcess
<1>4. CASE Close \/ Cancel \/ Begin \/ StopReceiving \/ AbandonReply \/ Cleanup \/ UNCHANGED vars
  BY <1>4 DEF Close, Cancel, Begin, StopReceiving, AbandonReply, Cleanup, vars, sdk
<1>5. QED
  BY <1>1, <1>2, <1>3, <1>4 DEF Next, Loop, OwnStep

(* The runner is deleted by the last step of the loop only.                *)
LEMMA RunnerStep ==
  ASSUME TypeOK, RunnerServesTheLoop, pc = "starting" => runner = "up", [Next]_vars
  PROVE  RunnerServesTheLoop' /\ (pc = "starting" => runner = "up")'
BY DEF TypeOK, RunnerServesTheLoop, Next, Loop, OwnStep, Arrive, Close, Cancel, Begin, Receive,
   StopReceiving, Discard, Process, ProcessCleansUp, Reply, AbandonReply, Cleanup, vars, sdk

(* The invariant is inductive.                                             *)
LEMMA StepLoopInv == LoopInv /\ [Next]_vars => LoopInv'
<1> SUFFICES ASSUME LoopInv, [Next]_vars PROVE LoopInv'
  OBVIOUS
<1>1. TypeOK'
  BY TypeStep DEF LoopInv
<1>2. InOrder' /\ InHand'
  BY ChannelStep DEF LoopInv
<1>3. Settlement'
  BY <1>1, SettlementStep DEF LoopInv
<1>4. Executions'
  BY <1>1, ExecutionsStep DEF LoopInv
<1>5. Answers'
  BY <1>1, AnswersStep DEF LoopInv
<1>6. AckAfterReply'
  BY AckStep DEF LoopInv
<1>7. RunnerServesTheLoop' /\ (pc = "starting" => runner = "up")'
  BY RunnerStep DEF LoopInv
<1>8. QED
  BY <1>1, <1>2, <1>3, <1>4, <1>5, <1>6, <1>7 DEF LoopInv

(* The invariant holds in every reachable state.                           *)
LEMMA LoopInvHolds == Spec => []LoopInv
BY InitLoopInv, StepLoopInv, PTL DEF Spec

-----------------------------------------------------------------------------
(* Of the messages that arrived, those not taken are in the channel.       *)
LEMMA TakenIsLastTaken ==
  ASSUME LoopInv, NEW m \in Messages, Taken(m)
  PROVE  m <= LastTaken
<1> USE DEF LoopInv, TypeOK, InOrder, Messages
<1>1. /\ m <= arrived /\ m \notin Range(in) /\ LastTaken \in Nat /\ Len(in) \in Nat
      /\ DOMAIN in = 1 .. Len(in)
  BY StreamAssumption DEF Taken, LastTaken
<1>2. ASSUME m > LastTaken PROVE FALSE
  <2>1. m - LastTaken \in 1 .. Len(in)
    BY <1>1, <1>2, StreamAssumption DEF LastTaken
  <2>2. in[m - LastTaken] = m
    BY <1>1, <2>1, StreamAssumption
  <2>3. QED
    BY <1>1, <2>1, <2>2 DEF Range
<1>3. QED
  BY <1>1, <1>2, StreamAssumption

(* What the loop promises follows from the invariant.                      *)
LEMMA LoopConsequences == LoopInv => TakenIsSettled /\ RepliesFollowExecution
<1> SUFFICES ASSUME LoopInv PROVE TakenIsSettled /\ RepliesFollowExecution
  OBVIOUS
<1>1. TakenIsSettled
  <2> SUFFICES ASSUME NEW m \in Messages, Taken(m) PROVE m \in acked \/ m = msg
    BY DEF TakenIsSettled
  <2>1. m \in 1 .. LastTaken
    BY TakenIsLastTaken, StreamAssumption DEF LoopInv, TypeOK, InOrder, LastTaken, Messages
  <2>2. QED
    BY <2>1 DEF LoopInv, Settlement
<1>2. RepliesFollowExecution
  <2>1. /\ executed \in Seq(Messages) /\ replies \in Seq(Messages)
        /\ Len(replies) <= Len(executed) /\ Len(executed) <= Len(replies) + 1
        /\ \A i \in 1 .. Len(replies) : replies[i] = executed[i]
    BY DEF LoopInv, TypeOK, Answers
  <2>2. replies = SubSeq(executed, 1, Len(replies))
    BY <2>1
  <2>3. QED
    BY <2>1, <2>2 DEF RepliesFollowExecution, LoopInv, Executions
<1>3. QED
  BY <1>1, <1>2

-----------------------------------------------------------------------------
(* The steps Stream has left: up to four a message that was not taken, and *)
(* those from where it is.                                                 *)
FromHere ==
  CASE pc = "starting" -> 3 [] pc = "selecting" -> 2 [] pc = "decoding" -> 5
    [] pc = "replying" -> 4 [] pc = "cleaning" -> 1 [] pc = "returned" -> 0

LoopLeft == 4 * (MaxMessages - LastTaken) + FromHere

(* Each step of Stream leaves fewer, and no step of the SDK more.          *)
LoopRunsOut ==
  [][ \/ (Loop \/ Reply) /\ LoopLeft' < LoopLeft
      \/ (Arrive \/ Close \/ Cancel) /\ LoopLeft' = LoopLeft ]_vars

(* There is no less than no step left.                                     *)
LEMMA LoopLeftType ==
  ASSUME LoopInv
  PROVE  /\ LoopLeft \in Nat /\ FromHere \in Nat
         /\ LastTaken \in 0 .. MaxMessages
<1>1. /\ MaxMessages \in Nat /\ arrived \in 0 .. MaxMessages
      /\ Len(in) \in Nat /\ Len(in) <= arrived
      /\ pc \in {"starting", "selecting", "decoding", "replying", "cleaning", "returned"}
  BY StreamAssumption DEF LoopInv, TypeOK, InOrder
<1>2. FromHere \in Nat
  BY <1>1 DEF FromHere
<1>3. LastTaken \in 0 .. MaxMessages
  BY <1>1 DEF LastTaken
<1>4. QED
  BY <1>1, <1>2, <1>3 DEF LoopLeft

(* Less after the same.                                                    *)
LEMMA LessAfter ==
  ASSUME NEW n \in Int, NEW k \in Nat, NEW m \in Nat, k < m
  PROVE  n + k < n + m
OBVIOUS

(* One step of the loop or of the SDK.                                     *)
LEMMA LoopLeftStep ==
  ASSUME LoopInv, LoopInv', Next
  PROVE  \/ (Loop \/ Reply) /\ LoopLeft' < LoopLeft
         \/ (Arrive \/ Close \/ Cancel) /\ LoopLeft' = LoopLeft
<1>1. /\ MaxMessages \in Nat /\ LastTaken \in Nat /\ LastTaken' \in Nat
      /\ FromHere \in Nat /\ FromHere' \in Nat
      /\ LoopLeft = 4 * (MaxMessages - LastTaken) + FromHere
      /\ LoopLeft' = 4 * (MaxMessages - LastTaken') + FromHere'
  <2>1. LoopInv => FromHere \in Nat /\ LastTaken \in Nat
    BY LoopLeftType
  <2>2. /\ arrived' \in 0 .. MaxMessages /\ Len(in') \in Nat /\ Len(in') <= arrived'
        /\ pc' \in {"starting", "selecting", "decoding", "replying", "cleaning", "returned"}
    BY StreamAssumption DEF LoopInv, TypeOK, InOrder
  <2>3. FromHere' \in Nat /\ LastTaken' \in Nat
    BY <2>2, StreamAssumption DEF FromHere, LastTaken
  <2>4. QED
    BY <2>1, <2>3, StreamAssumption DEF LoopLeft
<1>2. in \in Seq(Messages) /\ arrived \in Nat
  BY DEF LoopInv, TypeOK
<1>3. CASE Arrive
  <2>1. Len(in') = Len(in) + 1 /\ arrived' = arrived + 1 /\ pc' = pc
    BY <1>2, <1>3 DEF Arrive
  <2>2. LastTaken' = LastTaken /\ FromHere' = FromHere
    BY <1>2, <2>1 DEF LastTaken, FromHere
  <2>3. QED
    BY <1>1, <1>3, <2>2
<1>4. CASE Close \/ Cancel
  <2>1. LastTaken' = LastTaken /\ FromHere' = FromHere
    BY <1>4 DEF Close, Cancel, LastTaken, FromHere
  <2>2. QED
    BY <1>1, <1>4, <2>1
<1>5. CASE Receive
  <2>1. Len(in') = Len(in) - 1 /\ arrived' = arrived /\ pc = "selecting" /\ pc' = "decoding"
    BY <1>2, <1>5 DEF Receive
  <2>2. LastTaken' = LastTaken + 1 /\ FromHere = 2 /\ FromHere' = 5
    BY <1>2, <2>1 DEF LastTaken, FromHere
  <2>3. LoopLeft' < LoopLeft
    BY <1>1, <2>2
  <2>4. QED
    BY <1>5, <2>3 DEF Loop, OwnStep
<1>6. CASE Begin \/ StopReceiving \/ Discard \/ Process \/ AbandonReply \/ Cleanup \/ Reply
  <2>1. UNCHANGED <<arrived, in>>
    BY <1>6 DEF Begin, StopReceiving, Discard, Process, AbandonReply, Cleanup, Reply, sdk
  <2>2. LastTaken' = LastTaken
    BY <2>1 DEF LastTaken
  <2>3. FromHere' < FromHere
    <3>1. CASE Begin \/ Cleanup
      BY <3>1 DEF Begin, Cleanup, FromHere
    <3>2. CASE StopReceiving \/ AbandonReply
      BY <3>2 DEF StopReceiving, AbandonReply, FromHere
    <3>3. CASE Discard \/ Process \/ Reply
      BY <3>3 DEF Discard, Process, Reply, FromHere
    <3>4. QED
      BY <1>6, <3>1, <3>2, <3>3
  <2>4. LoopLeft' < LoopLeft
    <3> DEFINE ahead == 4 * (MaxMessages - LastTaken)
    <3>1. ahead \in Int
      BY <1>1
    <3>2. LoopLeft = ahead + FromHere
      BY <1>1
    <3>3. LoopLeft' = ahead + FromHere'
      BY <1>1, <2>2
    <3> HIDE DEF ahead
    <3>4. ahead + FromHere' < ahead + FromHere
      BY <1>1, <2>3, <3>1, LessAfter
    <3>5. QED
      BY <3>2, <3>3, <3>4
  <2>5. QED
    BY <1>6, <2>4 DEF Loop, OwnStep
<1>7. QED
  BY <1>3, <1>4, <1>5, <1>6 DEF Next, Loop, OwnStep

-----------------------------------------------------------------------------
(* Every variable of the stream loop keeps to its range.                   *)
THEOREM LoopTypeCorrect == Spec => []TypeOK
BY LoopInvHolds, PTL DEF LoopInv

(* A message with inputs is acknowledged only after its reply was handed   *)
(* over (handler.go:433-438).                                              *)
THEOREM AcksFollowReplies == Spec => []AckAfterReply
BY LoopInvHolds, PTL DEF LoopInv

(* No message but the one in hand is taken and not acknowledged.           *)
THEOREM TakenSettled == Spec => []TakenIsSettled
BY LoopInvHolds, LoopConsequences, PTL

(* Replies leave in order, one per execution, executions one per message.  *)
THEOREM RepliesInOrder == Spec => []RepliesFollowExecution
BY LoopInvHolds, LoopConsequences, PTL

(* No message is executed on a runner that was cleaned up (handler.go:213). *)
THEOREM RunnerServes == Spec => []RunnerServesTheLoop
BY LoopInvHolds, PTL DEF LoopInv

(* Stream does not go on for ever: it takes 4 * MaxMessages + 3 steps at   *)
(* the most, a cancelled one at most those it has left (handler.go:385-443). *)
THEOREM StreamRunsOut == Spec => [](LoopLeft \in Nat) /\ LoopRunsOut
<1>1. LoopInv => LoopLeft \in Nat
  BY LoopLeftType
<1>2. LoopInv /\ LoopInv' /\ [Next]_vars =>
        [ \/ (Loop \/ Reply) /\ LoopLeft' < LoopLeft
          \/ (Arrive \/ Close \/ Cancel) /\ LoopLeft' = LoopLeft ]_vars
  BY LoopLeftStep
<1>3. QED
  BY <1>1, <1>2, LoopInvHolds, PTL DEF Spec, LoopRunsOut

-----------------------------------------------------------------------------
(* Stream and the actions of its messages.                                 *)

(* An action is under way only while its message is being processed.       *)
WorksOnMessage == at # "idle" => pc = "decoding" /\ Decodes(msg)

-----------------------------------------------------------------------------
(* To StreamLoop, Process is one step and the calls in it are none.        *)
LEMMA LoopStep == [RunNext]_runVars => [Next]_vars
<1> SUFFICES ASSUME [RunNext]_runVars PROVE [Next]_vars
  OBVIOUS
<1>1. CASE StreamStep \/ Deliver \/ Feed \/ CancelAll \/ Leave
  BY <1>1 DEF StreamStep, Deliver, Feed, CancelAll, Leave, Next, Loop
<1>2. CASE Enter \/ ClientCall \/ Work \/ TimeOut \/ UNCHANGED runVars
  BY <1>2 DEF Enter, ClientCall, Work, TimeOut, runVars
<1>3. QED
  BY <1>1, <1>2 DEF RunNext, Goroutine

(* To ToolCall, a cancelled Stream is a context that is done.              *)
LEMMA ToolStep == ToolTypeOK /\ [RunNext]_runVars => [ToolNext]_toolVars
<1> SUFFICES ASSUME ToolTypeOK, [RunNext]_runVars PROVE [ToolNext]_toolVars
  OBVIOUS
<1>1. CASE StreamStep \/ Deliver \/ Feed \/ UNCHANGED runVars
  BY <1>1 DEF StreamStep, Deliver, Feed, runVars
<1>2. CASE CancelAll
  <2>1. done \in BOOLEAN
    BY DEF ToolTypeOK
  <2>2. CASE ~ done /\ at # "idle"
    BY <1>2, <2>2 DEF CancelAll, ToolNext, Expire
  <2>3. CASE done \/ at = "idle"
    <3>1. done' = done
      BY <1>2, <2>1, <2>3 DEF CancelAll
    <3>2. QED
      BY <1>2, <3>1 DEF CancelAll, toolVars
  <2>4. QED
    BY <2>2, <2>3
<1>3. CASE Enter \/ ClientCall \/ Work \/ TimeOut
  BY <1>3 DEF Enter, ClientCall, Work, TimeOut, ToolNext, Step
<1>4. CASE Leave
  BY <1>4 DEF Leave, Finished, ToolNext, Report
<1>5. QED
  BY <1>1, <1>2, <1>3, <1>4 DEF RunNext, Goroutine

(* The invariant of the loop holds of the composition.                     *)
LEMMA RunKeepsLoopInv == RunSpec => []LoopInv
<1>1. RunInit => LoopInv
  BY InitLoopInv DEF RunInit
<1>2. LoopInv /\ [RunNext]_runVars => LoopInv'
  BY LoopStep, StepLoopInv
<1>3. QED
  BY <1>1, <1>2, PTL DEF RunSpec

(* So does that of the action.                                             *)
LEMMA RunKeepsToolInv == RunSpec => []ToolInv
<1>1. RunInit => ToolInv
  BY InitToolInv DEF RunInit
<1>2. ToolInv /\ [RunNext]_runVars => ToolInv'
  BY ToolStep, StepToolInv DEF ToolInv
<1>3. QED
  BY <1>1, <1>2, PTL DEF RunSpec

-----------------------------------------------------------------------------
(* Neither what arrives nor a cancelled context takes the message away     *)
(* from its action.                                                        *)
LEMMA WorkStep == WorksOnMessage /\ [RunNext]_runVars => WorksOnMessage'
<1> SUFFICES ASSUME WorksOnMessage, [RunNext]_runVars PROVE WorksOnMessage'
  OBVIOUS
<1> USE DEF WorksOnMessage, Decodes
<1>1. CASE StreamStep
  BY <1>1 DEF StreamStep, OwnStep, Begin, Receive, StopReceiving, Discard, AbandonReply,
              Cleanup, toolVars
<1>2. CASE Deliver \/ Feed
  BY <1>2 DEF Deliver, Feed, Reply, Arrive, Close, toolVars
<1>3. CASE CancelAll
  BY <1>3 DEF CancelAll, Cancel
<1>4. CASE Enter
  BY <1>4 DEF Enter, HasInputs, vars
<1>5. CASE ClientCall \/ Work
  <2>1. at # "idle" /\ UNCHANGED vars
    BY <1>5 DEF ClientCall, Work, Ask, Move, Call, Backoff, Retry, GiveUpWaiting, Settle, FirstPage,
                Fetch, Assemble
  <2>2. QED
    BY <2>1 DEF vars
<1>6. CASE Leave
  BY <1>6 DEF Leave, Forget
<1>7. CASE TimeOut \/ UNCHANGED runVars
  BY <1>7 DEF TimeOut, Expire, runVars, vars, toolVars
<1>8. QED
  BY <1>1, <1>2, <1>3, <1>4, <1>5, <1>6, <1>7 DEF RunNext, Goroutine

(* An action is under way for a message in hand, always.                   *)
LEMMA RunKeepsWork == RunSpec => []WorksOnMessage
<1>1. RunInit => WorksOnMessage
  BY DEF RunInit, ToolInit, WorksOnMessage
<1>2. QED
  BY <1>1, WorkStep, PTL DEF RunSpec

(* Only two steps call, both of an action under way.                       *)
LEMMA CallingStep ==
  ASSUME ToolTypeOK, [RunNext]_runVars, Len(calls') > Len(calls)
  PROVE  at # "idle"
<1>1. calls \in Seq(1 .. Pages)
  BY DEF ToolTypeOK
<1>2. ASSUME at = "idle" PROVE calls' = calls \/ calls' = <<>>
  BY <1>2, ToolStep
     DEF ToolNext, Step, Ask, Move, Execute, Call, Backoff, Retry, GiveUpWaiting, Settle, FirstPage,
         Fetch, Assemble, Report, Forget, Expire, toolVars
<1>3. QED
  BY <1>1, <1>2

(* The message in hand is new to all that was done before.                 *)
LEMMA HandIsFresh ==
  ASSUME LoopInv, pc = "decoding"
  PROVE  msg \notin Range(executed) \cup acked /\ runner = "up"
<1>1. runner = "up" /\ msg \notin acked
  BY DEF LoopInv, RunnerServesTheLoop, Settlement
<1>2. \A i \in 1 .. Len(executed) : executed[i] # msg
  <2>1. /\ executed \in Seq(Messages) /\ msg \in Nat
        /\ \A i \in 1 .. Len(executed) : executed[i] < msg
    BY StreamAssumption DEF LoopInv, TypeOK, Executions
  <2>2. \A i \in 1 .. Len(executed) : executed[i] \in Nat
    BY <2>1, StreamAssumption DEF Messages
  <2>3. QED
    BY <2>1, <2>2
<1>3. DOMAIN executed = 1 .. Len(executed)
  BY DEF LoopInv, TypeOK
<1>4. QED
  BY <1>1, <1>2, <1>3 DEF Range

-----------------------------------------------------------------------------
(* Every variable of the composition keeps to its range.                   *)
THEOREM RunTypesCorrect == RunSpec => []TypesOK
BY RunKeepsLoopInv, RunKeepsToolInv, PTL DEF LoopInv, ToolInv, TypesOK

(* Process is one step of the loop, whatever its calls meet.               *)
THEOREM RunIsLoop == RunSpec => Spec
<1>1. RunInit => Init
  BY DEF RunInit
<1>2. QED
  BY <1>1, LoopStep, PTL DEF RunSpec, Spec

(* The loop gives every action its turn and leaves it its state.           *)
THEOREM RunKeepsTool == RunSpec => KeepsTool
<1>1. RunInit => ToolInit
  BY DEF RunInit
<1>2. ToolInv => ToolTypeOK
  BY DEF ToolInv
<1>3. QED
  BY <1>1, <1>2, ToolStep, RunKeepsToolInv, PTL DEF RunSpec, ToolSpec, KeepsTool

(* What is proved of the loop and of an action by itself holds of the two  *)
(* together: acknowledgements, replies and the runner's life, and the      *)
(* calls, aggregate and result of every action; and both run out of steps, *)
(* so that nothing but a call of the client, or nobody taking a reply, can *)
(* keep them from their end.                                               *)
THEOREM RunKeepsSafety ==
  RunSpec => /\ [](AckAfterReply /\ TakenIsSettled /\ RepliesFollowExecution)
             /\ []RunnerServesTheLoop
             /\ [](CallsBounded /\ AggregateIsChain /\ PagesAccountedFor /\ ResultAgrees)
             /\ RepeatsOnlyTransient
             /\ [](StepsLeft \in Nat) /\ RunsOut
             /\ [](LoopLeft \in Nat) /\ LoopRunsOut
<1>1. RunSpec => Spec /\ ToolSpec
  BY RunIsLoop, RunKeepsTool DEF KeepsTool
<1>2. QED
  BY <1>1, AcksFollowReplies, TakenSettled, RepliesInOrder, RunnerServes, BoundedCalls,
     AggregatesAreChains, PagesAreAccountedFor, ResultsAgree, OnlyTransientRepeated,
     ActionsRunOut, StreamRunsOut, PTL

(* A call is made only for the message in hand, which was neither executed *)
(* nor acknowledged, and on a runner that is up (handler.go:421-438).      *)
THEOREM CallsInHand == RunSpec => CallsForMessageInHand
<1>1. LoopInv /\ ToolInv /\ WorksOnMessage /\ [RunNext]_runVars =>
        [Len(calls') > Len(calls)
           => /\ pc = "decoding" /\ kind[msg] = "inputs"
              /\ msg \notin Range(executed) \cup acked
              /\ runner = "up"]_runVars
  BY CallingStep, HandIsFresh DEF ToolInv, WorksOnMessage, Decodes
<1>2. QED
  BY <1>1, RunKeepsLoopInv, RunKeepsToolInv, RunKeepsWork, PTL
     DEF RunSpec, CallsForMessageInHand
=============================================================================
