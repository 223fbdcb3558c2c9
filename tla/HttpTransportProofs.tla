------------------------ MODULE HttpTransportProofs -------------------------
(***************************************************************************)
(* Safety of the streamable HTTP transport for any number of messages and  *)
(* lines: it implements McpClient, with one execution of a message at the  *)
(* most, though a call may succeed without an answer.  And its decoder     *)
(* computes the events of the stream, for any stream: whatever was read,   *)
(* the frames are the events of the pieces that are over, and the block is *)
(* what the piece under way has said so far.                               *)
(***************************************************************************)
EXTENDS HttpTransport, SelectionProofs, TLAPS

(* The last message is pending exactly while a call is under way; those    *)
(* before it have returned and those after it do not exist yet.            *)
OneAtATime ==
  /\ pc # "idle" => outcome[id] = "pending"
  /\ \A i \in Ids : (i < id \/ (i = id /\ pc = "idle")) => outcome[i] \in {"ok", "failed"}
  /\ \A i \in Ids : i > id => outcome[i] = "unsent" /\ i \notin inbox /\ served[i] = 0

(* A message is delivered once, then executed once.                        *)
ExecutedOnce ==
  /\ \A i \in Ids : served[i] <= 1 /\ (i \in inbox => served[i] = 0)
  /\ pc = "posting" => id \notin inbox /\ served[id] = 0

(* Only a call that succeeded has an answer.                               *)
NoAnswerYet == \A i \in Ids : outcome[i] # "ok" => answer[i] = 0

(* The response is empty until it is opened as a stream, and holds an      *)
(* answer only after the message was executed.                             *)
AnswersFollowService ==
  /\ pc \in {"idle", "posting", "awaiting"} => sent = <<>> /\ block = <<>> /\ frames = <<>>
  /\ (\E k \in 1 .. Len(sent) : sent[k] = "answer") => served[id] > 0
  /\ (\E k \in 1 .. Len(block) : block[k] = "answer") => served[id] > 0
  /\ (\E k \in 1 .. Len(frames) : frames[k] = <<"answer">>) => served[id] > 0

HttpInv ==
  /\ TypeOK
  /\ OneAtATime
  /\ ExecutedOnce
  /\ NoAnswerYet
  /\ AnswersFollowService

-----------------------------------------------------------------------------
(* The initial states satisfy the invariant.                               *)
LEMMA InitHttpInv == Init => HttpInv
<1> SUFFICES ASSUME Init PROVE HttpInv
  OBVIOUS
<1> USE HttpAssumption DEF Init, Ids
<1>1. ending \in BOOLEAN /\ expired \in BOOLEAN
  OBVIOUS
<1>2. TypeOK
  BY <1>1 DEF TypeOK
<1>3. OneAtATime /\ ExecutedOnce /\ NoAnswerYet /\ AnswersFollowService
  BY DEF OneAtATime, ExecutedOnce, NoAnswerYet, AnswersFollowService
<1>4. QED
  BY <1>2, <1>3 DEF HttpInv

(* A call returns: failed, or with its own answer, or with none.           *)
Ends(result, r) ==
  /\ pc # "idle" /\ Return(result, r)
  /\ \/ result = "failed" /\ r = 0
     \/ result = "ok" /\ (r = 0 \/ (r = id /\ served[id] > 0))
  /\ UNCHANGED <<ending, expired, id, inbox, served>>

(* The five ways to return.                                                *)
LEMMA Returning ==
  ASSUME AnswersFollowService, RejectArguments \/ Broken \/ Interrupted \/ ReadBody \/ ReadEnd
  PROVE  \E result \in {"ok", "failed"} : \E r : Ends(result, r)
<1>1. CASE RejectArguments \/ Broken \/ Interrupted
  <2>1. Ends("failed", 0)
    BY <1>1 DEF RejectArguments, Broken, Interrupted, Ends
  <2>2. QED
    BY <2>1
<1>2. CASE ReadBody
  <2>1. Ends("ok", id) \/ Ends("ok", 0)
    BY <1>2 DEF ReadBody, Ends
  <2>2. QED
    BY <2>1
<1>3. CASE ReadEnd
  <2>1. CASE \E k \in 1 .. Len(frames) : frames[k] = <<"answer">>
    <3>1. served[id] > 0
      BY <2>1 DEF AnswersFollowService
    <3>2. Ends("ok", id)
      BY <1>3, <2>1, <3>1 DEF ReadEnd, AtEnd, Ends
    <3>3. QED
      BY <3>2
  <2>2. CASE ~ \E k \in 1 .. Len(frames) : frames[k] = <<"answer">>
    <3>1. Ends("ok", 0)
      BY <1>3, <2>2 DEF ReadEnd, AtEnd, Ends
    <3>2. QED
      BY <3>1
  <2>3. QED
    BY <2>1, <2>2
<1>4. QED
  BY <1>1, <1>2, <1>3

(* The steps that are left.                                                *)
Decoding == OpenStream \/ CheckContext \/ ReadLine \/ FlushAtEnd \/ SendLine \/ EndStream

(* Every step, sorted by what it may disturb.                              *)
LEMMA Steps ==
  ASSUME AnswersFollowService, [Next]_vars
  PROVE  \/ Invoke \/ Deliver \/ \E i \in Ids : Serve(i)
         \/ \E result \in {"ok", "failed"} : \E r : Ends(result, r)
         \/ Deadline \/ Terminate \/ UNCHANGED vars \/ Decoding
BY Returning DEF Next, Call, Server, Decoding

(* What decoding leaves alone.                                             *)
LEMMA DecodingKeeps ==
  ASSUME Decoding
  PROVE  /\ UNCHANGED <<stage, ending, expired, id, inbox, served, outcome, answer>>
         /\ pc \in {"awaiting", "checking", "reading"}
         /\ pc' \in {"checking", "reading"}
BY DEF Decoding, OpenStream, CheckContext, ReadLine, FlushAtEnd, AtEnd, SendLine, EndStream,
       Streaming

-----------------------------------------------------------------------------
(* Type correctness.                                                       *)
LEMMA TypeStep ==
  ASSUME TypeOK, AnswersFollowService, [Next]_vars
  PROVE  TypeOK'
<1> USE HttpAssumption DEF TypeOK, Ids
<1>1. CASE Invoke
  <2>1. ending' \in BOOLEAN /\ expired' \in BOOLEAN
    BY <1>1 DEF Invoke
  <2>2. id' \in Ids /\ outcome' \in [Ids -> {"unsent", "pending", "ok", "failed"}]
    BY <1>1 DEF Invoke
  <2>3. /\ pc' = "posting" /\ stage # "failed"
        /\ UNCHANGED <<stage, sent, body, read, block, frames, inbox, served, answer>>
    BY <1>1 DEF Invoke, stream
  <2>4. QED
    BY <2>1, <2>2, <2>3
<1>2. CASE Deliver
  BY <1>2 DEF Deliver, stream
<1>3. ASSUME NEW i \in Ids, Serve(i) PROVE TypeOK'
  <2>1. served' \in [Ids -> Nat] /\ inbox' \subseteq Ids
    BY <1>3 DEF Serve
  <2>2. UNCHANGED <<stage, ending, expired, pc, id, sent, body, read, block, frames,
                    outcome, answer>>
    BY <1>3 DEF Serve, stream
  <2>3. QED
    BY <2>1, <2>2
<1>4. ASSUME NEW result \in {"ok", "failed"}, NEW r, Ends(result, r) PROVE TypeOK'
  <2>1. id \in Ids /\ r \in 0 .. MaxRequests
    BY <1>4 DEF Ends
  <2>2. /\ outcome' \in [Ids -> {"unsent", "pending", "ok", "failed"}]
        /\ answer' \in [Ids -> 0 .. MaxRequests]
    BY <1>4, <2>1 DEF Ends, Return
  <2>3. stage' \in {"notify", "probe", "processing", "failed"}
    BY <1>4 DEF Ends, Return, After
  <2>4. /\ pc' = "idle" /\ sent' = <<>> /\ body' = "closed" /\ read' = 0
        /\ block' = <<>> /\ frames' = <<>>
        /\ UNCHANGED <<ending, expired, id, inbox, served>>
    BY <1>4 DEF Ends, Return
  <2>5. QED
    BY <2>2, <2>3, <2>4
<1>5. CASE Deadline \/ Terminate \/ UNCHANGED vars
  <2>1. ending' \in BOOLEAN /\ expired' \in BOOLEAN
    BY <1>5 DEF Deadline, Terminate, vars
  <2>2. UNCHANGED <<stage, pc, id, sent, body, read, block, frames, inbox, served,
                    outcome, answer>>
    BY <1>5 DEF Deadline, Terminate, vars, stream
  <2>3. QED
    BY <2>1, <2>2
<1>6. CASE Decoding
  <2>1. /\ sent' \in Seq(Line) /\ body' \in {"open", "closed", "torn"}
        /\ read' \in 0 .. Len(sent')
    <3>1. CASE OpenStream \/ CheckContext \/ FlushAtEnd
      BY <3>1 DEF OpenStream, CheckContext, FlushAtEnd, stream
    <3>2. CASE ReadLine
      BY <3>2 DEF ReadLine, Whole
    <3>3. CASE SendLine
      BY <3>3 DEF SendLine
    <3>4. CASE EndStream
      BY <3>4 DEF EndStream
    <3>5. QED
      BY <1>6, <3>1, <3>2, <3>3, <3>4 DEF Decoding
  <2>2. /\ block' \in Seq({"answer", "other"})
        /\ frames' \in Seq(Seq({"answer", "other"}))
    <3>1. CASE Flush
      BY <3>1 DEF Flush, Fresh
    <3>2. CASE UNCHANGED <<block, frames>>
      BY <3>2
    <3>3. ASSUME NEW line \in Payloads, block' = Append(block, line), UNCHANGED frames
          PROVE  /\ block' \in Seq({"answer", "other"})
                 /\ frames' \in Seq(Seq({"answer", "other"}))
      BY <3>3 DEF Payloads
    <3>4. QED
      BY <1>6, <3>1, <3>2, <3>3 DEF Decoding, OpenStream, CheckContext, ReadLine, FlushAtEnd,
         SendLine, EndStream, stream
  <2>3. id \in Ids /\ stage # "failed"
    BY <1>6, DecodingKeeps
  <2>4. QED
    BY <1>6, <2>1, <2>2, <2>3, DecodingKeeps
<1>7. QED
  BY <1>1, <1>2, <1>3, <1>4, <1>5, <1>6, Steps

(* Calls, deliveries and executions.                                       *)
LEMMA CallsStep ==
  ASSUME TypeOK, OneAtATime, ExecutedOnce, NoAnswerYet, AnswersFollowService, [Next]_vars
  PROVE  OneAtATime' /\ ExecutedOnce' /\ NoAnswerYet'
<1> USE HttpAssumption DEF TypeOK, Ids, OneAtATime, ExecutedOnce, NoAnswerYet
<1>1. CASE Invoke
  <2>1. /\ id' = id + 1 /\ id' \in Ids /\ pc' = "posting" /\ pc = "idle"
        /\ outcome' = [outcome EXCEPT ![id'] = "pending"]
        /\ UNCHANGED <<inbox, served, answer>>
    BY <1>1 DEF Invoke
  <2>2. /\ outcome'[id'] = "pending"
        /\ \A i \in Ids : i # id' => outcome'[i] = outcome[i]
    BY <2>1
  <2>3. QED
    BY <2>1, <2>2
<1>2. CASE Deliver
  BY <1>2 DEF Deliver
<1>3. ASSUME NEW i \in Ids, Serve(i) PROVE OneAtATime' /\ ExecutedOnce' /\ NoAnswerYet'
  <2>1. /\ i \in inbox /\ inbox' = inbox \ {i} /\ served'[i] = served[i] + 1
        /\ \A j \in Ids : j # i => served'[j] = served[j]
        /\ UNCHANGED <<pc, id, outcome, answer>>
    BY <1>3 DEF Serve
  <2>2. served[i] = 0 /\ i <= id
    BY <2>1
  <2>3. QED
    BY <2>1, <2>2
<1>4. ASSUME NEW result \in {"ok", "failed"}, NEW r, Ends(result, r)
      PROVE  OneAtATime' /\ ExecutedOnce' /\ NoAnswerYet'
  <2>1. /\ id \in Ids /\ pc' = "idle" /\ outcome'[id] = result /\ answer'[id] = r
        /\ result = "failed" => r = 0
        /\ \A i \in Ids : i # id => outcome'[i] = outcome[i] /\ answer'[i] = answer[i]
        /\ UNCHANGED <<id, inbox, served>>
    BY <1>4 DEF Ends, Return
  <2>2. QED
    BY <2>1
<1>5. CASE Deadline \/ Terminate \/ UNCHANGED vars
  BY <1>5 DEF Deadline, Terminate, vars
<1>6. CASE Decoding
  BY <1>6, DecodingKeeps
<1>7. QED
  BY <1>1, <1>2, <1>3, <1>4, <1>5, <1>6, Steps

(* An event that is complete moves from one place to the other.            *)
LEMMA FlushKeeps ==
  ASSUME TypeOK, AnswersFollowService, Flush, UNCHANGED <<id, served>>
  PROVE  /\ (\E k \in 1 .. Len(block') : block'[k] = "answer") => served'[id'] > 0
         /\ (\E k \in 1 .. Len(frames') : frames'[k] = <<"answer">>) => served'[id'] > 0
<1>1. block' = <<>>
  BY DEF Flush, Fresh
<1>2. CASE frames' = frames
  BY <1>1, <1>2 DEF AnswersFollowService
<1>3. CASE frames' = Append(frames, block)
  <2>1. block = <<"answer">> => served[id] > 0
    BY DEF AnswersFollowService
  <2>2. /\ frames \in Seq(Seq({"answer", "other"})) /\ block \in Seq({"answer", "other"})
        /\ (\E k \in 1 .. Len(frames) : frames[k] = <<"answer">>) => served[id] > 0
    BY DEF AnswersFollowService, TypeOK
  <2>3. \A k \in 1 .. Len(frames') :
          frames'[k] = block \/ (k \in 1 .. Len(frames) /\ frames'[k] = frames[k])
    BY <1>3, <2>2
  <2>4. ASSUME NEW k \in 1 .. Len(frames'), frames'[k] = <<"answer">> PROVE served[id] > 0
    BY <2>1, <2>2, <2>3, <2>4
  <2>5. QED
    BY <1>1, <2>4
<1>4. QED
  BY <1>2, <1>3 DEF Flush

(* What was executed stays executed.                                       *)
LEMMA ServeCounts ==
  ASSUME TypeOK, NEW i \in Ids, Serve(i), id \in Ids, served[id] > 0
  PROVE  served'[id] > 0
<1>1. served \in [Ids -> Nat] /\ served' = [served EXCEPT ![i] = served[i] + 1]
  BY DEF TypeOK, Serve
<1>2. CASE id = i
  <2>1. served'[id] = served[id] + 1 /\ served[id] \in Nat
    BY <1>1, <1>2
  <2>2. QED
    BY <2>1
<1>3. CASE id # i
  BY <1>1, <1>3
<1>4. QED
  BY <1>2, <1>3

(* What the decoder holds was sent, and an answer only after execution.    *)
LEMMA AnswersStep ==
  ASSUME TypeOK, AnswersFollowService, [Next]_vars
  PROVE  AnswersFollowService'
<1> USE HttpAssumption DEF TypeOK, Ids, AnswersFollowService
<1>1. CASE Invoke
  BY <1>1 DEF Invoke, stream
<1>2. CASE Deliver \/ Deadline \/ Terminate \/ UNCHANGED vars
  BY <1>2 DEF Deliver, Deadline, Terminate, vars, stream
<1>3. ASSUME NEW i \in Ids, Serve(i) PROVE AnswersFollowService'
  <2>1. UNCHANGED <<pc, id, sent, block, frames>>
    BY <1>3 DEF Serve, stream
  <2>2. CASE pc = "idle"
    BY <2>1, <2>2
  <2>3. CASE pc # "idle"
    BY <1>3, <2>1, <2>3, ServeCounts
  <2>4. QED
    BY <2>2, <2>3
<1>4. ASSUME NEW result \in {"ok", "failed"}, NEW r, Ends(result, r)
      PROVE  AnswersFollowService'
  BY <1>4 DEF Ends, Return
<1>5. CASE OpenStream \/ CheckContext \/ EndStream
  BY <1>5 DEF OpenStream, CheckContext, EndStream, Streaming, stream
<1>6. CASE SendLine
  <2>1. PICK line \in Line : /\ line = "answer" => served[id] > 0
                             /\ sent' = Append(sent, line)
    BY <1>6 DEF SendLine
  <2>2. /\ pc \in {"checking", "reading"}
        /\ UNCHANGED <<pc, id, block, frames, served>>
    BY <1>6 DEF SendLine, Streaming
  <2>3. QED
    BY <2>1, <2>2
<1>7. CASE ReadLine
  <2>1. /\ read' = read + 1 /\ read' \in 1 .. Len(sent) /\ pc' = "checking"
        /\ UNCHANGED <<sent, id, served>>
    BY <1>7 DEF ReadLine, Whole
  <2>2. CASE Flush
    BY <2>1, <2>2, FlushKeeps DEF Flush
  <2>3. CASE UNCHANGED <<block, frames>>
    BY <2>1, <2>3
  <2>4. CASE block' = Append(block, sent[read']) /\ UNCHANGED frames /\ sent[read'] \in Payloads
    <3>1. sent[read'] = "answer" => served[id] > 0
      BY <2>1
    <3>2. \A k \in 1 .. Len(block') :
            block'[k] = sent[read'] \/ (k \in 1 .. Len(block) /\ block'[k] = block[k])
      BY <2>4 DEF Payloads
    <3>3. QED
      BY <2>1, <2>4, <3>1, <3>2
  <2>5. QED
    BY <1>7, <2>2, <2>3, <2>4 DEF ReadLine
<1>8. CASE FlushAtEnd
  BY <1>8, FlushKeeps DEF FlushAtEnd, Flush
<1>9. QED
  BY <1>1, <1>2, <1>3, <1>4, <1>5, <1>6, <1>7, <1>8, Steps DEF Decoding

(* The invariant holds in every reachable state.                           *)
LEMMA HttpInvHolds == Spec => []HttpInv
<1>1. HttpInv /\ [Next]_vars => HttpInv'
  BY TypeStep, CallsStep, AnswersStep DEF HttpInv
<1>2. QED
  BY <1>1, InitHttpInv, PTL DEF Spec

-----------------------------------------------------------------------------
(* Data are said.                                                          *)
LEMMA DataType ==
  ASSUME NEW lines \in Seq(Line)
  PROVE  Data(lines) \in Seq(Said)
<1>1. Line \cap Said = Said
  BY DEF Line, Said
<1>2. QED
  BY <1>1, SelectType DEF Data

(* A piece ends somewhere.                                                 *)
LEMMA EndExists ==
  ASSUME NEW lines \in Seq(Line), NEW k \in 0 .. Len(lines)
  PROVE  \E e \in k .. Len(lines) : EndsAt(lines, k, e)
<1> DEFINE E == {e \in k .. Len(lines) : e = Len(lines) \/ lines[e + 1] = "blank"}
<1>1. Len(lines) \in Nat /\ k \in Nat /\ k <= Len(lines)
  OBVIOUS
<1>2. Len(lines) \in E /\ E \subseteq Nat
  BY <1>1
<1>3. PICK e \in E : \A d \in E : e <= d
  <2> HIDE DEF E
  <2>1. QED
    BY <1>2, LeastElement
<1>4. ASSUME NEW j \in k + 1 .. e, lines[j] = "blank" PROVE FALSE
  <2>1. j - 1 \in k .. Len(lines) /\ (j - 1) + 1 = j /\ j - 1 < e /\ e \in Nat
    BY <1>1, <1>3
  <2>2. j - 1 \in E
    BY <1>4, <2>1
  <2> HIDE DEF E
  <2>3. e <= j - 1
    BY <1>3, <2>2
  <2>4. QED
    BY <1>1, <2>1, <2>3
<1>5. QED
  BY <1>3, <1>4 DEF EndsAt

(* And nowhere else.                                                       *)
LEMMA EndUnique ==
  ASSUME NEW lines \in Seq(Line), NEW k \in 0 .. Len(lines),
         NEW d \in k .. Len(lines), EndsAt(lines, k, d),
         NEW e \in k .. Len(lines), EndsAt(lines, k, e)
  PROVE  d = e
<1>1. Len(lines) \in Nat /\ k \in Nat /\ d \in Nat /\ e \in Nat
  OBVIOUS
<1>2. ~ (d < e)
  <2>1. d < e => d + 1 \in k + 1 .. e /\ d # Len(lines)
    BY <1>1
  <2>2. QED
    BY <2>1 DEF EndsAt
<1>3. ~ (e < d)
  <2>1. e < d => e + 1 \in k + 1 .. d /\ e # Len(lines)
    BY <1>1
  <2>2. QED
    BY <2>1 DEF EndsAt
<1>4. QED
  BY <1>1, <1>2, <1>3

(* The event after line k is the data up to the end of the piece.          *)
LEMMA EventIs ==
  ASSUME NEW lines \in Seq(Line), NEW k \in 0 .. Len(lines), BeginsAt(lines, k),
         NEW e \in k .. Len(lines), EndsAt(lines, k, e)
  PROVE  EventAfter(lines, k) = Data(SubSeq(lines, k + 1, e))
<1> DEFINE c == CHOOSE d \in k .. Len(lines) : EndsAt(lines, k, d)
<1>1. c \in k .. Len(lines) /\ EndsAt(lines, k, c)
  OBVIOUS
<1> HIDE DEF c
<1>2. c = e
  BY <1>1, EndUnique
<1>3. QED
  BY <1>2 DEF EventAfter, c

(* An event is data.                                                       *)
LEMMA EventType ==
  ASSUME NEW lines \in Seq(Line), NEW k \in 0 .. Len(lines)
  PROVE  EventAfter(lines, k) \in Seq(Said)
<1>1. CASE BeginsAt(lines, k)
  <2>1. PICK e \in k .. Len(lines) : EndsAt(lines, k, e)
    BY EndExists
  <2>2. SubSeq(lines, k + 1, e) \in Seq(Line)
    OBVIOUS
  <2>3. QED
    BY <1>1, <2>1, <2>2, EventIs, DataType
<1>2. CASE ~ BeginsAt(lines, k)
  BY <1>2 DEF EventAfter
<1>3. QED
  BY <1>1, <1>2

(* A line more does not change the lines before.                           *)
LEMMA LineMore ==
  ASSUME NEW lines \in Seq(Line), NEW x \in Line
  PROVE  /\ Append(lines, x) \in Seq(Line) /\ Len(Append(lines, x)) = Len(lines) + 1
         /\ Append(lines, x)[Len(lines) + 1] = x
         /\ \A j \in 1 .. Len(lines) : Append(lines, x)[j] = lines[j]
OBVIOUS

(* Nor what lies between two of them.                                      *)
LEMMA SubSeqKept ==
  ASSUME NEW lines \in Seq(Line), NEW x \in Line, NEW a \in Nat \ {0}, NEW b \in 0 .. Len(lines)
  PROVE  SubSeq(Append(lines, x), a, b) = SubSeq(lines, a, b)
OBVIOUS

(* What pieces before a blank line say, they say for good.                 *)
LEMMA EventsKept ==
  ASSUME NEW lines \in Seq(Line), NEW x \in Line, NEW p \in 0 .. Len(lines), BeginsAt(lines, p)
  PROVE  EventsUpTo(Append(lines, x), p) = EventsUpTo(lines, p)
<1> DEFINE more == Append(lines, x)
<1>1. /\ more \in Seq(Line) /\ Len(more) = Len(lines) + 1
      /\ \A j \in 1 .. Len(lines) : more[j] = lines[j]
  BY LineMore
<1>2. /\ Len(lines) \in Nat /\ p \in Nat /\ p <= Len(lines)
      /\ \A b \in 0 .. Len(lines), a \in Nat \ {0} : SubSeq(more, a, b) = SubSeq(lines, a, b)
  BY SubSeqKept
<1> HIDE DEF more
<1>3. ASSUME NEW k \in 1 .. p PROVE EventAfter(more, k - 1) = EventAfter(lines, k - 1)
  <2> DEFINE h == k - 1
  <2>1. h \in 0 .. Len(lines) /\ h < p /\ h \in 0 .. Len(more) /\ h + 1 \in Nat \ {0}
    BY <1>1, <1>2
  <2>2. BeginsAt(more, h) <=> BeginsAt(lines, h)
    BY <1>1, <2>1 DEF BeginsAt
  <2>3. lines[p] = "blank" /\ p # 0
    BY <1>2 DEF BeginsAt
  <2>4. CASE BeginsAt(lines, h)
    <3>1. PICK e \in h .. Len(lines) : EndsAt(lines, h, e)
      BY <2>1, EndExists
    <3>2. e < p
      <4>1. p <= e => p \in h + 1 .. e
        BY <1>2, <2>1
      <4>2. QED
        BY <1>2, <2>1, <2>3, <3>1, <4>1 DEF EndsAt
    <3>3. /\ e # Len(lines) /\ e + 1 \in 1 .. Len(lines) /\ e \in h .. Len(more) /\ e \in 0 .. Len(lines)
          /\ \A j \in h + 1 .. e : j \in 1 .. Len(lines)
      BY <1>1, <1>2, <2>1, <3>2
    <3>4. EndsAt(more, h, e)
      BY <1>1, <3>1, <3>3 DEF EndsAt
    <3> HIDE DEF h
    <3>5. /\ EventAfter(lines, h) = Data(SubSeq(lines, h + 1, e))
          /\ EventAfter(more, h) = Data(SubSeq(more, h + 1, e))
      BY <1>1, <2>1, <2>2, <2>4, <3>1, <3>3, <3>4, EventIs
    <3>6. QED
      BY <1>2, <2>1, <3>3, <3>5 DEF h
  <2>5. CASE ~ BeginsAt(lines, h)
    BY <2>2, <2>5 DEF EventAfter
  <2>6. QED
    BY <2>4, <2>5
<1>4. [k \in 1 .. p |-> EventAfter(more, k - 1)] = [k \in 1 .. p |-> EventAfter(lines, k - 1)]
  BY <1>3
<1>5. QED
  BY <1>4 DEF EventsUpTo, more

(* frames with a block, if it is not empty.                                *)
Flushed(frs, blk) == IF blk = <<>> THEN frs ELSE Append(frs, blk)

(* A piece adds its data to the events, if it has any.                     *)
LEMMA PieceFlushed ==
  ASSUME NEW lines \in Seq(Line), NEW p \in 0 .. Len(lines), BeginsAt(lines, p),
         NEW n \in p .. Len(lines), EndsAt(lines, p, n)
  PROVE  EventsUpTo(lines, n + 1) = Flushed(EventsUpTo(lines, p), Data(SubSeq(lines, p + 1, n)))
<1> DEFINE evs == [k \in 1 .. n + 1 |-> EventAfter(lines, k - 1)]
           before == SubSeq(evs, 1, p)
           d == Data(SubSeq(lines, p + 1, n))
<1>1. Len(lines) \in Nat /\ p \in Nat /\ n \in Nat /\ p <= n /\ n <= Len(lines)
  OBVIOUS
<1>2. evs \in Seq(Seq(Said)) /\ Len(evs) = n + 1
  <2>1. \A k \in 1 .. n + 1 : EventAfter(lines, k - 1) \in Seq(Said)
    <3>1. \A k \in 1 .. n + 1 : k - 1 \in 0 .. Len(lines)
      BY <1>1
    <3>2. QED
      BY <3>1, EventType
  <2>2. QED
    BY <1>1, <2>1
<1>3. \A k \in 1 .. n + 1 : evs[k] = EventAfter(lines, k - 1)
  OBVIOUS
<1>4. before = [k \in 1 .. p |-> EventAfter(lines, k - 1)]
  <2>1. before = [k \in 1 .. p |-> evs[k]]
    BY <1>1, <1>2
  <2>2. \A k \in 1 .. p : evs[k] = EventAfter(lines, k - 1)
    BY <1>1, <1>3
  <2> HIDE DEF evs, before
  <2>3. QED
    BY <2>1, <2>2
<1> HIDE DEF evs
<1>5. before \in Seq(Seq(Said)) /\ SubSeq(evs, 1, p + 1) = Append(before, evs[p + 1])
  <2>1. p + 1 <= Len(evs) /\ 1 <= p + 1 /\ 1 \in Nat \ {0}
    BY <1>1, <1>2
  <2>2. QED
    BY <1>1, <1>2, <2>1, SubSeqGrows
<1>6. evs[p + 1] = d /\ d \in Seq(Said)
  <2>1. p + 1 \in 1 .. n + 1 /\ (p + 1) - 1 = p
    BY <1>1
  <2>2. EventAfter(lines, p) = d
    BY EventIs
  <2>3. EventAfter(lines, p) \in Seq(Said)
    BY EventType
  <2>4. QED
    BY <1>3, <2>1, <2>2, <2>3
<1>7. ASSUME NEW k \in p + 1 + 1 .. n + 1 PROVE evs[k] = <<>>
  <2>1. k - 1 \in p + 1 .. n /\ k \in 1 .. n + 1 /\ k - 1 # 0
    BY <1>1
  <2>2. ~ BeginsAt(lines, k - 1)
    BY <2>1 DEF BeginsAt, EndsAt
  <2>3. QED
    BY <1>3, <2>1, <2>2 DEF EventAfter
<1> HIDE DEF before, d
<1>8. Select(evs, NonEmpty) = Select(SubSeq(evs, 1, p + 1), NonEmpty)
  <2>1. p + 1 \in 0 .. Len(evs) /\ \A k \in p + 1 + 1 .. Len(evs) : evs[k] \notin NonEmpty
    BY <1>1, <1>2, <1>7 DEF NonEmpty
  <2>2. QED
    BY <1>2, <2>1, SelectPadded
<1>9. Select(Append(before, d), NonEmpty) =
        IF d \in NonEmpty THEN Append(Select(before, NonEmpty), d) ELSE Select(before, NonEmpty)
  BY <1>5, <1>6, SelectAppend
<1>10. d \in NonEmpty <=> d # <<>>
  BY <1>6 DEF NonEmpty
<1>11. EventsUpTo(lines, n + 1) = Select(evs, NonEmpty)
       /\ EventsUpTo(lines, p) = Select(before, NonEmpty)
  BY <1>4 DEF EventsUpTo, evs
<1>12. QED
  BY <1>5, <1>6, <1>8, <1>9, <1>10, <1>11 DEF Flushed, d

-----------------------------------------------------------------------------
(* The decoder within a piece that begins after line p of those read: the  *)
(* block is what the piece said so far, the frames the events before it.   *)
Within(lines, p, blk, frs) ==
  /\ p \in 0 .. Len(lines) /\ BeginsAt(lines, p)
  /\ \A j \in p + 1 .. Len(lines) : lines[j] # "blank"
  /\ blk = Data(SubSeq(lines, p + 1, Len(lines)))
  /\ frs = EventsUpTo(lines, p)

(* Nothing read.                                                           *)
LEMMA WithinNothing == Within(<<>>, 0, <<>>, <<>>)
<1>1. Len(<<>>) = 0 /\ SubSeq(<<>>, 0 + 1, Len(<<>>)) = <<>>
  OBVIOUS
<1>2. [k \in 1 .. 0 |-> EventAfter(<<>>, k - 1)] = <<>>
  OBVIOUS
<1>3. Data(<<>>) = <<>> /\ EventsUpTo(<<>>, 0) = <<>>
  BY <1>2, SelectEmpty DEF Data, EventsUpTo
<1>4. 0 \in 0 .. Len(<<>>) /\ \A j \in 0 + 1 .. Len(<<>>) : FALSE
  OBVIOUS
<1>5. BeginsAt(<<>>, 0)
  BY DEF BeginsAt
<1>6. QED
  BY <1>1, <1>3, <1>4, <1>5, Zenon DEF Within

(* A line that is not blank is of the same piece.                          *)
LEMMA WithinSame ==
  ASSUME NEW lines \in Seq(Line), NEW x \in Line, x # "blank",
         NEW p, NEW blk, NEW frs, Within(lines, p, blk, frs)
  PROVE  Within(Append(lines, x), p, IF x \in Said THEN Append(blk, x) ELSE blk, frs)
<1> DEFINE more == Append(lines, x)
           n == Len(lines)
<1>1. /\ more \in Seq(Line) /\ Len(more) = n + 1 /\ more[n + 1] = x
      /\ \A j \in 1 .. n : more[j] = lines[j]
  BY LineMore
<1>2. n \in Nat /\ p \in Nat /\ p <= n /\ BeginsAt(lines, p)
  BY DEF Within
<1>3. EventsUpTo(more, p) = frs
  BY EventsKept DEF Within
<1>4. SubSeq(more, p + 1, n) = SubSeq(lines, p + 1, n)
  BY <1>2, SubSeqKept
<1> HIDE DEF more, n
<1>5. p \in 0 .. Len(more) /\ BeginsAt(more, p)
  BY <1>1, <1>2 DEF BeginsAt
<1>6. ASSUME NEW j \in p + 1 .. Len(more) PROVE more[j] # "blank"
  <2>1. j = n + 1 \/ (j \in p + 1 .. n /\ j \in 1 .. n)
    BY <1>1, <1>2
  <2>2. QED
    BY <1>1, <2>1 DEF Within, n
<1>7. /\ SubSeq(more, p + 1, n) \in Seq(Line)
      /\ SubSeq(more, p + 1, n + 1) = Append(SubSeq(more, p + 1, n), x)
  <2>1. p + 1 \in Nat \ {0} /\ p + 1 <= n + 1 /\ n + 1 <= Len(more)
    BY <1>1, <1>2
  <2>2. QED
    BY <1>1, <1>2, <2>1, SubSeqGrows
<1>8. Data(SubSeq(more, p + 1, Len(more))) = IF x \in Said THEN Append(blk, x) ELSE blk
  <2> DEFINE piece == SubSeq(more, p + 1, n)
  <2>1. blk = Data(piece)
    BY <1>4 DEF Within, n
  <2>2. piece \in Seq(Line) /\ SubSeq(more, p + 1, Len(more)) = Append(piece, x)
    BY <1>1, <1>7
  <2> HIDE DEF piece
  <2>3. QED
    BY <2>1, <2>2, SelectAppend DEF Data
<1>9. QED
  BY <1>3, <1>5, <1>6, <1>8 DEF Within, more

(* A blank line ends the piece and begins the next.                        *)
LEMMA WithinNext ==
  ASSUME NEW lines \in Seq(Line), NEW p, NEW blk, NEW frs, Within(lines, p, blk, frs)
  PROVE  Within(Append(lines, "blank"), Len(lines) + 1, <<>>, Flushed(frs, blk))
<1> DEFINE more == Append(lines, "blank")
           n == Len(lines)
<1>0. "blank" \in Line
  BY DEF Line
<1>1. /\ more \in Seq(Line) /\ Len(more) = n + 1 /\ more[n + 1] = "blank"
      /\ \A j \in 1 .. n : more[j] = lines[j]
  BY <1>0, LineMore
<1>2. n \in Nat /\ p \in Nat /\ p <= n /\ p \in 0 .. n /\ BeginsAt(lines, p)
  BY DEF Within
<1>3. EventsUpTo(more, p) = frs
  BY <1>0, EventsKept DEF Within
<1>4. SubSeq(more, p + 1, n) = SubSeq(lines, p + 1, n)
  BY <1>0, <1>2, SubSeqKept
<1> HIDE DEF more
<1>5. p \in 0 .. Len(more) /\ n \in p .. Len(more) /\ BeginsAt(more, p)
  BY <1>1, <1>2 DEF BeginsAt
<1>6. EndsAt(more, p, n)
  <2>1. \A j \in p + 1 .. n : j \in 1 .. n
    BY <1>2
  <2>2. QED
    BY <1>1, <2>1 DEF EndsAt, Within
<1>7. EventsUpTo(more, n + 1) = Flushed(frs, blk)
  BY <1>1, <1>3, <1>4, <1>5, <1>6, PieceFlushed DEF Within
<1>8. SubSeq(more, (n + 1) + 1, n + 1) = <<>>
  BY <1>1, <1>2
<1>9. Data(<<>>) = <<>>
  BY SelectEmpty DEF Data
<1> HIDE DEF n
<1>10. /\ n + 1 \in 0 .. Len(more) /\ BeginsAt(more, n + 1)
       /\ \A j \in (n + 1) + 1 .. Len(more) : more[j] # "blank"
  BY <1>1, <1>2 DEF BeginsAt
<1>11. Within(more, n + 1, <<>>, Flushed(frs, blk))
  BY <1>1, <1>7, <1>8, <1>9, <1>10 DEF Within
<1>12. QED
  BY <1>11 DEF more, n

(* Where the stream ends, so does the piece.                               *)
LEMMA WithinEvents ==
  ASSUME NEW lines \in Seq(Line), NEW p, NEW blk, NEW frs, Within(lines, p, blk, frs)
  PROVE  Events(lines) = Flushed(frs, blk)
<1>1. Len(lines) \in p .. Len(lines) /\ EndsAt(lines, p, Len(lines))
  BY DEF Within, EndsAt
<1>2. QED
  BY <1>1, PieceFlushed DEF Within, Events

-----------------------------------------------------------------------------
(* The lines read.                                                         *)
Lines == SubSeq(sent, 1, read)

(* The decoder is within a piece of the lines read, or has flushed the     *)
(* last one at the end of the stream.                                      *)
DecoderInv ==
  \/ \E p \in 0 .. read : Within(Lines, p, block, frames)
  \/ body # "open" /\ read = Whole /\ block = <<>> /\ frames = Events(Lines)

(* Nothing read, nothing decoded.                                          *)
LEMMA DecoderStarts ==
  ASSUME sent = <<>>, read = 0, block = <<>>, frames = <<>>
  PROVE  DecoderInv
<1>1. Lines = <<>>
  BY DEF Lines
<1>2. 0 \in 0 .. read
  OBVIOUS
<1>3. QED
  BY <1>1, <1>2, WithinNothing, Zenon DEF DecoderInv

(* What decodes nothing leaves the decoder as it is, or starts it anew.    *)
LEMMA DecoderRests ==
  ASSUME TypeOK, AnswersFollowService, DecoderInv, [Next]_vars
  PROVE  \/ UNCHANGED stream
         \/ sent' = <<>> /\ read' = 0 /\ block' = <<>> /\ frames' = <<>>
         \/ ReadLine \/ FlushAtEnd \/ SendLine \/ EndStream
<1>1. CASE OpenStream
  <2>1. sent = <<>> /\ block = <<>> /\ frames = <<>> /\ read = 0
    BY <1>1 DEF OpenStream, AnswersFollowService, TypeOK
  <2>2. QED
    BY <1>1, <2>1 DEF OpenStream
<1>2. ASSUME NEW result, NEW r, Ends(result, r)
      PROVE  sent' = <<>> /\ read' = 0 /\ block' = <<>> /\ frames' = <<>>
  BY <1>2 DEF Ends, Return
<1>3. ASSUME NEW i \in Ids, Serve(i) PROVE UNCHANGED stream
  BY <1>3 DEF Serve
<1>4. CASE Invoke \/ Deliver \/ Deadline \/ Terminate \/ CheckContext \/ UNCHANGED vars
  BY <1>4 DEF Invoke, Deliver, Deadline, Terminate, CheckContext, vars
<1>5. QED
  BY <1>1, <1>2, <1>3, <1>4, Steps DEF Decoding

(* A line is read.                                                         *)
LEMMA DecoderReads ==
  ASSUME TypeOK, DecoderInv, ReadLine
  PROVE  DecoderInv'
<1> DEFINE x == sent[read + 1]
<1>1. /\ sent \in Seq(Line) /\ read \in 0 .. Len(sent) /\ read < Len(sent)
      /\ read' = read + 1 /\ sent' = sent
  BY DEF TypeOK, ReadLine, Whole
<1>2. Lines \in Seq(Line) /\ Len(Lines) = read /\ x \in Line /\ Lines' = Append(Lines, x)
  <2>1. SubSeq(sent, 1, read + 1) = Append(SubSeq(sent, 1, read), x)
    BY <1>1, SubSeqGrows
  <2>2. QED
    BY <1>1, <2>1 DEF Lines
<1>3. PICK p \in 0 .. read : Within(Lines, p, block, frames)
  BY DEF DecoderInv, ReadLine, Whole, TypeOK
<1> HIDE DEF x
<1>4. CASE x = "blank" /\ Flush
  <2>1. Within(Lines', Len(Lines) + 1, <<>>, Flushed(frames, block))
    BY <1>2, <1>3, <1>4, WithinNext
  <2>2. block' = <<>> /\ frames' = Flushed(frames, block)
    BY <1>4 DEF Flush, Fresh, Flushed
  <2>3. read + 1 \in 0 .. read' /\ Len(Lines) + 1 = read + 1
    BY <1>1, <1>2
  <2>4. QED
    BY <2>1, <2>2, <2>3 DEF DecoderInv
<1>5. CASE /\ x # "blank" /\ UNCHANGED frames
           /\ block' = IF x \in Said THEN Append(block, x) ELSE block
  <2>1. Within(Lines', p, block', frames')
    BY <1>2, <1>3, <1>5, WithinSame
  <2>2. p \in 0 .. read'
    BY <1>1
  <2>3. QED
    BY <2>1, <2>2 DEF DecoderInv
<1>6. QED
  BY <1>1, <1>4, <1>5 DEF ReadLine, Payloads, Said, x

(* Every step leaves the decoder right.                                    *)
LEMMA DecoderStep ==
  ASSUME TypeOK, AnswersFollowService, DecoderInv, [Next]_vars
  PROVE  DecoderInv'
<1>1. CASE UNCHANGED stream
  BY <1>1 DEF DecoderInv, Lines, Whole, stream
<1>2. CASE sent' = <<>> /\ read' = 0 /\ block' = <<>> /\ frames' = <<>>
  <2>1. Lines' = <<>>
    BY <1>2 DEF Lines
  <2>2. 0 \in 0 .. read'
    BY <1>2
  <2>3. QED
    BY <1>2, <2>1, <2>2, WithinNothing, Zenon DEF DecoderInv
<1>3. CASE ReadLine
  BY <1>3, DecoderReads
<1>4. CASE FlushAtEnd
  <2>1. PICK p \in 0 .. read : Within(Lines, p, block, frames)
    BY <1>4 DEF FlushAtEnd, DecoderInv
  <2>2. frames' = Flushed(frames, block) /\ block' = <<>>
    BY <1>4 DEF FlushAtEnd, Flush, Fresh, Flushed
  <2>3. Events(Lines) = Flushed(frames, block)
    <3>1. Lines \in Seq(Line)
      BY DEF TypeOK, Lines
    <3>2. QED
      BY <2>1, <3>1, WithinEvents
  <2>4. QED
    BY <1>4, <2>2, <2>3 DEF FlushAtEnd, AtEnd, DecoderInv, Lines, Whole
<1>5. CASE SendLine \/ EndStream
  <2>1. body = "open" /\ UNCHANGED <<read, block, frames>>
    BY <1>5 DEF SendLine, EndStream, Streaming
  <2>2. Lines' = Lines
    <3>1. CASE EndStream
      BY <2>1, <3>1 DEF EndStream, Lines
    <3>2. CASE SendLine
      <4>1. PICK line \in Line : sent' = Append(sent, line)
        BY <3>2 DEF SendLine
      <4>2. sent \in Seq(Line) /\ read \in 0 .. Len(sent) /\ 1 \in Nat \ {0}
        BY DEF TypeOK
      <4>3. SubSeq(sent', 1, read) = SubSeq(sent, 1, read)
        BY <4>1, <4>2, SubSeqKept
      <4>4. QED
        BY <2>1, <4>3 DEF Lines
    <3>3. QED
      BY <1>5, <3>1, <3>2
  <2>3. QED
    BY <2>1, <2>2 DEF DecoderInv
<1>6. QED
  BY <1>1, <1>2, <1>3, <1>4, <1>5, DecoderRests

(* The decoder is right in every reachable state.                          *)
LEMMA DecoderInvHolds == Spec => []DecoderInv
<1>1. Init => DecoderInv
  BY DecoderStarts DEF Init
<1>2. HttpInv /\ DecoderInv /\ [Next]_vars => DecoderInv'
  BY DecoderStep DEF HttpInv
<1>3. QED
  BY <1>1, <1>2, HttpInvHolds, PTL DEF Spec

(* The frames with the block are the events read.                          *)
LEMMA FramesAreEvents ==
  ASSUME TypeOK, DecoderInv
  PROVE  FramesVerbatim
<1>1. /\ Lines \in Seq(Line) /\ block \in Seq(Said) /\ frames \in Seq(Seq(Said))
  BY DEF TypeOK, Lines, Said
<1>2. Events(Lines) = Flushed(frames, block)
  <2>1. CASE \E p \in 0 .. read : Within(Lines, p, block, frames)
    BY <1>1, <2>1, WithinEvents
  <2>2. CASE block = <<>> /\ frames = Events(Lines)
    BY <2>2 DEF Flushed
  <2>3. QED
    BY <2>1, <2>2 DEF DecoderInv
<1>3. Flushed(frames, block) = frames \o (IF block = <<>> THEN <<>> ELSE <<block>>)
  <2>1. CASE block = <<>>
    BY <1>1, <2>1 DEF Flushed
  <2>2. CASE block # <<>>
    BY <1>1, <2>2 DEF Flushed
  <2>3. QED
    BY <2>1, <2>2
<1>4. QED
  BY <1>2, <1>3 DEF FramesVerbatim, Lines

-----------------------------------------------------------------------------
(* The steps of the transport are steps of McpClient.                      *)
LEMMA StepKeepsPromise ==
  ASSUME HttpInv, [Next]_vars
  PROVE  [Promise!Next]_(Promise!promise)
<1> USE DEF HttpInv, Ids
<1>0. /\ id \in 0 .. MaxRequests /\ MaxRequests \in Nat /\ (pc # "idle" => id \in Ids)
      /\ inbox \subseteq Ids /\ served \in [Ids -> Nat]
      /\ outcome \in [Ids -> {"unsent", "pending", "ok", "failed"}]
      /\ answer \in [Ids -> 0 .. MaxRequests]
  BY HttpAssumption DEF TypeOK
<1>1. CASE Invoke
  <2>1. /\ id' = id + 1 /\ id' \in Ids /\ pc = "idle"
        /\ outcome' = [outcome EXCEPT ![id'] = "pending"] /\ UNCHANGED <<served, answer>>
    BY <1>0, <1>1 DEF Invoke
  <2>2. /\ \A j \in Ids : j <= id => outcome[j] \in {"ok", "failed"}
        /\ \A j \in Ids : j > id => outcome[j] = "unsent"
    BY <1>0, <2>1 DEF OneAtATime
  <2>3. Promise!Start(id')
    <3>1. \A j \in Ids : j <= id \/ j > id
      BY <1>0
    <3>2. \A j \in Ids : j < id' => j <= id
      BY <1>0, <2>1
    <3>3. \A j \in Ids : outcome[j] # "pending"
      BY <2>2, <3>1
    <3>4. \A j \in Ids : j < id' => outcome[j] # "unsent"
      BY <2>2, <3>2
    <3>5. outcome[id'] = "unsent"
      BY <1>0, <2>1, <2>2
    <3>6. QED
      BY <2>1, <3>3, <3>4, <3>5 DEF Promise!Start
  <2>4. QED
    BY <2>1, <2>3 DEF Promise!Next
<1>2. ASSUME NEW i \in Ids, Serve(i) PROVE [Promise!Next]_(Promise!promise)
  <2>1. outcome[i] # "unsent" /\ served[i] < 1
    BY <1>0, <1>2 DEF Serve, OneAtATime, ExecutedOnce
  <2>2. Promise!Execute(i)
    BY <1>2, <2>1 DEF Serve, Promise!Execute
  <2>3. QED
    BY <2>2 DEF Promise!Next
<1>3. ASSUME NEW result \in {"ok", "failed"}, NEW r, Ends(result, r)
      PROVE  [Promise!Next]_(Promise!promise)
  <2>1. /\ id \in Ids /\ outcome[id] = "pending" /\ answer[id] = 0
        /\ outcome' = [outcome EXCEPT ![id] = result]
        /\ answer' = [answer EXCEPT ![id] = r] /\ served' = served
    BY <1>0, <1>3 DEF Ends, Return, OneAtATime, NoAnswerYet
  <2>2. r = 0 => answer' = answer
    BY <1>0, <2>1
  <2>3. CASE result = "failed"
    <3>1. Promise!Fail(id)
      BY <1>3, <2>1, <2>2, <2>3 DEF Ends, Promise!Fail
    <3>2. QED
      BY <2>1, <3>1 DEF Promise!Next
  <2>4. CASE result = "ok"
    <3>1. r = 0 \/ (r = id /\ served[id] > 0)
      BY <1>3, <2>4 DEF Ends
    <3>2. Promise!Succeed(id)
      BY <2>1, <2>2, <2>4, <3>1 DEF Promise!Succeed
    <3>3. QED
      BY <2>1, <3>2 DEF Promise!Next
  <2>5. QED
    BY <2>3, <2>4
<1>4. CASE Deliver \/ Deadline \/ Terminate \/ UNCHANGED vars
  BY <1>4 DEF Deliver, Deadline, Terminate, vars, Promise!promise
<1>5. CASE Decoding
  BY <1>5, DecodingKeeps DEF Promise!promise
<1>6. QED
  BY <1>1, <1>2, <1>3, <1>4, <1>5, Steps

-----------------------------------------------------------------------------
(* Every variable of the HTTP transport keeps to its range.                *)
THEOREM HttpTypeCorrect == Spec => []TypeOK
BY HttpInvHolds, PTL DEF HttpInv

(* The HTTP transport implements McpClient with a budget of one execution. *)
THEOREM HttpRefinement == Spec => KeepsPromise
<1>1. Init => Promise!Init
  BY DEF Init, Promise!Init
<1>2. HttpInv /\ [Next]_vars => [Promise!Next]_(Promise!promise)
  BY StepKeepsPromise
<1>3. QED
  BY <1>1, <1>2, HttpInvHolds, PTL DEF Spec, KeepsPromise, Promise!Spec

(* Frames are returned verbatim (http_client.go:23): no event of the       *)
(* stream is lost, merged with another or split, whatever comes when and   *)
(* however the stream ends.                                                *)
THEOREM FramesFaithful == Spec => []FramesVerbatim
<1>1. HttpInv /\ DecoderInv => FramesVerbatim
  BY FramesAreEvents DEF HttpInv
<1>2. QED
  BY <1>1, HttpInvHolds, DecoderInvHolds, PTL

-----------------------------------------------------------------------------
(* A call whose context is done while it is under way.                     *)
Late == pc # "idle" /\ CtxDone

(* How many steps it has left: the next line is read only if its turn came *)
(* before the deadline.                                                    *)
StepsToReturn ==
  CASE pc = "idle" -> 0
    [] pc = "posting" -> 4
    [] pc = "awaiting" -> 3
    [] pc = "reading" -> 2
    [] pc = "checking" -> 1

ClientStep == Call \/ RejectArguments \/ Broken

(* Every step of a late call leaves fewer, and no step of anybody else     *)
(* gives it more or makes it less late.                                    *)
LateCallsRunOut ==
  [][ Late => /\ ClientStep => StepsToReturn' < StepsToReturn
              /\ ~ ClientStep => Late' /\ StepsToReturn' = StepsToReturn ]_vars

(* The steps of the call, then those of the others.                        *)
LEMMA StepsToReturnStep ==
  ASSUME TypeOK, [Next]_vars, Late
  PROVE  /\ ClientStep => StepsToReturn' < StepsToReturn
         /\ ~ ClientStep => Late' /\ StepsToReturn' = StepsToReturn
<1>1. pc \in {"posting", "awaiting", "checking", "reading"}
  BY DEF TypeOK, Late
<1>2. ASSUME ClientStep PROVE StepsToReturn' < StepsToReturn
  <2>1. CASE RejectArguments \/ Broken \/ Interrupted \/ ReadBody \/ ReadEnd
    <3>1. pc' = "idle"
      BY <2>1 DEF RejectArguments, Broken, Interrupted, ReadBody, ReadEnd, Return
    <3>2. QED
      BY <1>1, <3>1 DEF StepsToReturn
  <2>2. CASE Deliver \/ OpenStream
    BY <2>2 DEF Deliver, OpenStream, StepsToReturn
  <2>3. CASE CheckContext
    BY <2>3 DEF CheckContext, Late
  <2>4. CASE ReadLine \/ FlushAtEnd
    BY <2>4 DEF ReadLine, FlushAtEnd, AtEnd, StepsToReturn
  <2>5. QED
    BY <1>2, <2>1, <2>2, <2>3, <2>4 DEF ClientStep, Call
<1>3. ASSUME ~ ClientStep PROVE Late' /\ StepsToReturn' = StepsToReturn
  <2>1. CASE Invoke
    BY <2>1 DEF Invoke, Late
  <2>2. CASE Deadline \/ Terminate \/ Server \/ UNCHANGED vars
    BY <2>2 DEF Deadline, Terminate, Server, SendLine, EndStream, Serve, vars, Late, CtxDone,
       StepsToReturn
  <2>3. QED
    BY <1>3, <2>1, <2>2 DEF Next, ClientStep
<1>4. QED
  BY <1>2, <1>3

(* A call past its deadline takes four steps more at the most, however     *)
(* much the server streams: it reads one line at the most, because the     *)
(* context is asked before every line (http_client.go:224-228).            *)
THEOREM LateCallsBounded == Spec => [](StepsToReturn \in 0 .. 4) /\ LateCallsRunOut
<1>1. TypeOK => StepsToReturn \in 0 .. 4
  BY DEF TypeOK, StepsToReturn
<1>2. TypeOK /\ [Next]_vars =>
        [Late => /\ ClientStep => StepsToReturn' < StepsToReturn
                 /\ ~ ClientStep => Late' /\ StepsToReturn' = StepsToReturn]_vars
  BY StepsToReturnStep
<1>3. QED
  BY <1>1, <1>2, HttpTypeCorrect, PTL DEF Spec, LateCallsRunOut
=============================================================================
