----------------------- MODULE StdioTransportProofs -----------------------
(***************************************************************************)
(* Safety of the stdio transport for every number of attempts, requests,   *)
(* contexts and lines, and whatever the attach library leaves of a         *)
(* session's stdin: IInv is inductive, and the invariants the runs check   *)
(* and the refinement of McpClient follow from it.                         *)
(***************************************************************************)
EXTENDS StdioTransport, TLAPS

(* rpc works on the last request, which is pending exactly while it does;  *)
(* those before it have returned and those after it do not exist yet.      *)
OneAtATime ==
  /\ pc # "idle" => outcome[id] = "pending"
  /\ \A i \in Ids : (i < id \/ (i = id /\ pc = "idle")) => outcome[i] \in {"ok", "failed"}
  /\ \A i \in Ids : i > id => /\ outcome[i] = "unsent"
                              /\ inbox[i] = 0 /\ served[i] = 0

(* An answer among the unread lines belongs to a request that was executed. *)
AnswersFollowService ==
  \A k \in 1 .. Len(lines) :
    lines[k].kind = "answer" => lines[k].id \in Ids /\ served[lines[k].id] > 0

(* Only a call that succeeded has an answer.                               *)
NoAnswerYet == \A i \in Ids : outcome[i] # "ok" => answer[i] = 0

(* While rpc is at the write, it has handed the request over no more often *)
(* than it has completed turns of its loop; after the write, once more.    *)
TurnsBound ==
  pc # "idle" =>
    inbox[id] + served[id] <= IF pc = "writing" THEN attempt ELSE attempt + 1

(* The handshake gates everything after the first request.                 *)
Gate ==
  /\ stage = "initialize" => id = 0 \/ (id = 1 /\ pc # "idle")
  /\ stage = "failed" => id = 1 /\ pc = "idle"
  /\ stage \in {"notify", "probe", "resting", "processing"} =>
       1 \in Ids /\ id >= 1 /\ outcome[1] = "ok"

IInv == /\ TypeOK
        /\ OneAtATime
        /\ AnswersFollowService
        /\ OwnAnswerOnly
        /\ NoAnswerYet
        /\ TurnsBound
        /\ AttemptBudget
        /\ Gate

-----------------------------------------------------------------------------
(* The initial state satisfies the inductive invariant.                    *)
LEMMA InitIInv == Init => IInv
<1> SUFFICES ASSUME Init PROVE IInv
  OBVIOUS
<1> USE ConstantsAssumption DEF Init, Ids, Contexts
<1>1. TypeOK
  BY DEF TypeOK, ControlOK, SessionOK, ServerOK, CallsOK, Connecting, Stages, Points
<1>2. QED
  BY <1>1 DEF IInv, OneAtATime, AnswersFollowService, OwnAnswerOnly,
     NoAnswerYet, TurnsBound, AttemptBudget, Gate

(* Which actions touch the server's side, the caller's side and the session. *)
LEMMA Untouched ==
  ASSUME [Next]_vars
  PROVE  /\ WriteDelivered \/ (\E i \in Ids : Serve(i)) \/ UNCHANGED server
         /\ Invoke \/ ReadAnswer \/ Reattach \/ ReattachFails \/ UNCHANGED calls
         /\ \/ Notify \/ WriteSwallowed \/ ReadAnswer \/ ReadSkipped
            \/ ReadGarbage \/ Reattach \/ Library \/ Server
            \/ UNCHANGED session
BY DEF Next, vars, Handler, Rpc, Library, Server, Enter, Leave, Deadline,
   Terminate, Notify, Invoke, WriteDelivered, WriteSwallowed, WriteFails,
   CheckContext, ReadAnswer, ReadSkipped, ReadGarbage, ReadEOF, Reattach,
   ReattachFails, Connect, ConnectFails, Drop, Chatter,
   Serve, session, server, calls

(* Type correctness of what the server has.                                *)
LEMMA ServerStep == ASSUME TypeOK, [Next]_vars PROVE ServerOK'
<1> USE DEF TypeOK, ServerOK
<1>1. CASE WriteDelivered
  <2>1. id \in Ids
    BY <1>1 DEF WriteDelivered, ControlOK
  <2>2. QED
    BY <1>1, <2>1 DEF WriteDelivered
<1>2. ASSUME NEW i \in Ids, Serve(i) PROVE ServerOK'
  BY <1>2 DEF Serve
<1>3. CASE UNCHANGED server
  BY <1>3 DEF server
<1>4. QED
  BY <1>1, <1>2, <1>3, Untouched

(* Type correctness of what the callers have.                              *)
LEMMA CallsStep == ASSUME TypeOK, [Next]_vars PROVE CallsOK'
<1> USE DEF TypeOK, CallsOK
<1>1. CASE Invoke
  BY <1>1 DEF Invoke
<1>2. CASE ReadAnswer
  <2>1. Head(lines) \in Line
    BY <1>2 DEF ReadAnswer, SessionOK
  <2>2. QED
    BY <1>2, <2>1 DEF ReadAnswer, Line
<1>3. CASE Reattach \/ ReattachFails
  BY <1>3 DEF Reattach, ReattachFails, NextAttempt
<1>4. CASE UNCHANGED calls
  BY <1>4 DEF calls
<1>5. QED
  BY <1>1, <1>2, <1>3, <1>4, Untouched

(* Type correctness of the session.                                        *)
LEMMA SessionStep == ASSUME TypeOK, [Next]_vars PROVE SessionOK'
<1> USE ConstantsAssumption DEF TypeOK, SessionOK
<1>1. CASE Notify \/ WriteSwallowed
  BY <1>1 DEF Notify, WriteSwallowed, Ruins
<1>2. CASE ReadAnswer \/ ReadSkipped \/ ReadGarbage
  <2>1. Tail(lines) \in Seq(Line)
    BY <1>2 DEF ReadAnswer, ReadSkipped, ReadGarbage
  <2>2. QED
    BY <1>2, <2>1 DEF ReadAnswer, ReadSkipped, ReadGarbage
<1>3. CASE Reattach
  <2>1. link' \in [state : {"opening", "open"} \cup Ruins, ctx : Contexts]
    BY <1>3 DEF Reattach, Connecting, ControlOK
  <2>2. QED
    BY <1>3, <2>1 DEF Reattach
<1>4. CASE Library
  <2>1. CASE Connect \/ ConnectFails
    BY <2>1 DEF Connect, ConnectFails
  <2>2. CASE Drop
    <3>1. lines' \in Seq(Line)
      BY <2>2 DEF Drop
    <3>2. QED
      BY <2>2, <3>1 DEF Drop
  <2>3. QED
    BY <1>4, <2>1, <2>2 DEF Library
<1>5. CASE Server
  <2>1. ASSUME NEW line \in Line, Output(line) PROVE lines' \in Seq(Line)
    BY <2>1 DEF Output
  <2>2. Notification \in Line /\ Garbage \in Line /\ \A i \in Ids : Answer(i) \in Line
    BY DEF Notification, Garbage, Answer, Line, Ids
  <2>3. CASE Chatter
    BY <2>1, <2>2, <2>3 DEF Chatter
  <2>4. ASSUME NEW i \in Ids, Serve(i) PROVE SessionOK'
    BY <2>1, <2>2, <2>4 DEF Serve
  <2>5. QED
    BY <1>5, <2>3, <2>4 DEF Server
<1>6. CASE UNCHANGED session
  BY <1>6 DEF session
<1>7. QED
  BY <1>1, <1>2, <1>3, <1>4, <1>5, <1>6, Untouched

(* Type correctness of the adapter's own control state.                    *)
LEMMA ControlStep == ASSUME TypeOK, [Next]_vars PROVE ControlOK'
<1> USE ConstantsAssumption DEF TypeOK, ControlOK, Ids, Contexts, Stages, Points
<1>1. CASE Handler
  BY <1>1 DEF Handler, Enter, Leave, Deadline, Terminate, Notify, Invoke
<1>2. CASE Reattach \/ ReattachFails
  BY <1>2 DEF Reattach, ReattachFails, NextAttempt, AttemptLeft, After
<1>3. CASE ReadAnswer
  BY <1>3 DEF ReadAnswer, After
<1>4. CASE Rpc /\ ~ (ReadAnswer \/ Reattach \/ ReattachFails)
  BY <1>4 DEF Rpc, WriteDelivered, WriteSwallowed, WriteFails, CheckContext,
     ReadSkipped, ReadGarbage, ReadEOF
<1>5. CASE Library \/ Server \/ UNCHANGED vars
  BY <1>5 DEF Library, Server, Connect, ConnectFails, Drop,
     Chatter, Serve, vars
<1>6. QED
  BY <1>1, <1>2, <1>3, <1>4, <1>5 DEF Next

(* Type correctness: every variable keeps to its range.                    *)
THEOREM TypeCorrect == Spec => []TypeOK
<1>1. Init => TypeOK
  BY InitIInv DEF IInv
<1>2. TypeOK /\ [Next]_vars => TypeOK'
  BY ControlStep, SessionStep, ServerStep, CallsStep DEF TypeOK
<1>3. QED
  BY <1>1, <1>2, PTL DEF Spec

-----------------------------------------------------------------------------
(* Where a step can move rpc, its loop counter or the number of the call.  *)
LEMMA RpcMoves ==
  ASSUME [Next]_vars
  PROVE  \/ Invoke \/ WriteDelivered \/ ReadAnswer \/ Reattach \/ ReattachFails
         \/ /\ UNCHANGED <<id, attempt, outcome, inbox>>
            /\ UNCHANGED pc \/ (pc # "idle" /\ pc' # "idle")
            /\ UNCHANGED served
            /\ pc = "writing" <=> pc' = "writing"
         \/ /\ UNCHANGED <<id, attempt, outcome, inbox, served>>
            /\ pc \in {"writing", "checking", "reading"}
            /\ pc' \in {"checking", "reading", "reattaching"}
         \/ /\ UNCHANGED <<pc, id, attempt, outcome, stage>>
            /\ \E i \in Ids : Serve(i)
BY DEF Next, vars, Handler, Rpc, Library, Server, Enter, Leave, Deadline,
   Terminate, Notify, Invoke, WriteDelivered, WriteSwallowed, WriteFails,
   CheckContext, ReadAnswer, ReadSkipped, ReadGarbage, ReadEOF, Reattach,
   ReattachFails, Connect, ConnectFails, Drop, Chatter, Serve,
   session, server, calls

(* One call at a time.                                                     *)
LEMMA OneAtATimeStep ==
  ASSUME TypeOK, OneAtATime, [Next]_vars PROVE OneAtATime'
<1> USE ConstantsAssumption DEF TypeOK, ControlOK, ServerOK, CallsOK, OneAtATime, Ids
<1>1. CASE Invoke
  BY <1>1 DEF Invoke, server
<1>2. CASE WriteDelivered
  BY <1>2 DEF WriteDelivered, calls
<1>3. CASE ReadAnswer
  BY <1>3 DEF ReadAnswer, server
<1>4. CASE Reattach \/ ReattachFails
  BY <1>4 DEF Reattach, ReattachFails, NextAttempt, server
<1>5. CASE /\ UNCHANGED <<id, attempt, outcome, inbox, served>>
           /\ UNCHANGED pc \/ (pc # "idle" /\ pc' # "idle")
  BY <1>5
<1>6. ASSUME NEW i \in Ids, Serve(i), UNCHANGED <<pc, id, outcome>>
      PROVE  OneAtATime'
  BY <1>6 DEF Serve
<1>7. QED
  BY <1>1, <1>2, <1>3, <1>4, <1>5, <1>6, RpcMoves

(* The handshake gates everything after the first request.                 *)
LEMMA GateStep ==
  ASSUME TypeOK, OneAtATime, Gate, [Next]_vars PROVE Gate'
<1> USE ConstantsAssumption DEF TypeOK, ControlOK, CallsOK, OneAtATime, Gate, Ids
<1>1. CASE Handler
  <2>1. CASE Invoke
    BY <2>1 DEF Invoke
  <2>2. CASE Notify
    BY <2>2 DEF Notify, calls
  <2>3. CASE Enter \/ Leave \/ Deadline \/ Terminate
    BY <2>3 DEF Enter, Leave, Deadline, Terminate, calls
  <2>4. QED
    BY <1>1, <2>1, <2>2, <2>3 DEF Handler
<1>2. CASE Reattach \/ ReattachFails
  BY <1>2 DEF Reattach, ReattachFails, NextAttempt, After
<1>3. CASE ReadAnswer
  BY <1>3 DEF ReadAnswer, After
<1>4. CASE Rpc /\ ~ (ReadAnswer \/ Reattach \/ ReattachFails)
  BY <1>4 DEF Rpc, WriteDelivered, WriteSwallowed, WriteFails, CheckContext,
     ReadSkipped, ReadGarbage, ReadEOF, calls
<1>5. CASE Library \/ Server \/ UNCHANGED vars
  BY <1>5 DEF Library, Server, Connect, ConnectFails, Drop,
     Chatter, Serve, vars, calls
<1>6. QED
  BY <1>1, <1>2, <1>3, <1>4, <1>5 DEF Next

(* What the server has executed it has executed for good.                  *)
LEMMA ServedGrows ==
  ASSUME TypeOK, [Next]_vars PROVE \A i \in Ids : served[i] > 0 => served'[i] > 0
<1> USE DEF TypeOK, ServerOK
<1>1. ASSUME NEW j \in Ids, Serve(j)
      PROVE  \A i \in Ids : served[i] > 0 => served'[i] > 0
  BY <1>1 DEF Serve
<1>2. WriteDelivered => UNCHANGED served
  BY DEF WriteDelivered
<1>3. QED
  BY <1>1, <1>2, Untouched DEF server

(* The unread lines shrink from the front, are cut at the back, are thrown *)
(* away, or grow by a line the server has just printed.                    *)
LEMMA AnswersFollowServiceStep ==
  ASSUME TypeOK, AnswersFollowService, [Next]_vars PROVE AnswersFollowService'
<1> USE DEF TypeOK, SessionOK, AnswersFollowService
<1>0. \A i \in Ids : served[i] > 0 => served'[i] > 0
  BY ServedGrows
<1>1. CASE UNCHANGED lines
  BY <1>0, <1>1
<1>2. CASE ReadAnswer \/ ReadSkipped \/ ReadGarbage
  <2>1. lines # <<>> /\ lines' = Tail(lines)
    BY <1>2 DEF ReadAnswer, ReadSkipped, ReadGarbage
  <2>2. Len(lines') = Len(lines) - 1
    BY <2>1
  <2>3. \A k \in 1 .. Len(lines') : lines'[k] = lines[k + 1] /\ k + 1 \in 1 .. Len(lines)
    BY <2>1, <2>2
  <2>4. QED
    BY <1>0, <2>3
<1>3. CASE Reattach
  BY <1>3 DEF Reattach
<1>4. CASE Drop
  <2>1. PICK n \in 0 .. Len(lines) : lines' = SubSeq(lines, 1, n)
    BY <1>4 DEF Drop
  <2>2. Len(lines') = n /\ \A k \in 1 .. n : lines'[k] = lines[k]
    BY <2>1
  <2>3. QED
    BY <1>0, <2>2
<1>5. ASSUME NEW line \in Line, Output(line),
             line.kind = "answer" => line.id \in Ids /\ served'[line.id] > 0
      PROVE  AnswersFollowService'
  <2>1. CASE link.state = "open"
    <3>1. Len(lines') = Len(lines) + 1 /\ lines'[Len(lines) + 1] = line
      BY <1>5, <2>1 DEF Output
    <3>2. \A k \in 1 .. Len(lines) : lines'[k] = lines[k]
      BY <1>5, <2>1 DEF Output
    <3>3. \A k \in 1 .. Len(lines') : k \in 1 .. Len(lines) \/ k = Len(lines) + 1
      BY <3>1
    <3>4. QED
      BY <1>0, <1>5, <3>1, <3>2, <3>3
  <2>2. CASE link.state # "open"
    BY <1>0, <1>5, <2>2 DEF Output
  <2>3. QED
    BY <2>1, <2>2
<1>6. ASSUME NEW i \in Ids, Serve(i) PROVE AnswersFollowService'
  <2>1. Answer(i) \in Line /\ Answer(i).id = i
    BY DEF Answer, Line, Ids
  <2>2. served'[i] > 0
    BY <1>6 DEF Serve, ServerOK
  <2>3. Output(Answer(i))
    BY <1>6 DEF Serve
  <2>4. QED
    BY <1>5, <2>1, <2>2, <2>3
<1>7. CASE Chatter
  <2>1. Notification \in Line /\ Garbage \in Line
    BY ConstantsAssumption DEF Notification, Garbage, Line
  <2>2. Notification.kind # "answer" /\ Garbage.kind # "answer"
    BY DEF Notification, Garbage
  <2>3. QED
    BY <1>5, <1>7, <2>1, <2>2 DEF Chatter
<1>8. UNCHANGED session => UNCHANGED lines
  BY DEF session
<1>9. Notify \/ WriteSwallowed \/ Connect \/ ConnectFails => UNCHANGED lines
  BY DEF Notify, WriteSwallowed, Connect, ConnectFails
<1>10. QED
  BY <1>1, <1>2, <1>3, <1>4, <1>6, <1>7, <1>8, <1>9, Untouched DEF Library, Server

(* An answer is only ever handed to the call it belongs to.                *)
LEMMA OwnAnswerStep ==
  ASSUME TypeOK, OneAtATime, AnswersFollowService, OwnAnswerOnly, NoAnswerYet,
         [Next]_vars
  PROVE  (OwnAnswerOnly /\ NoAnswerYet)'
<1> USE DEF TypeOK, ControlOK, CallsOK, OwnAnswerOnly, NoAnswerYet
<1>0. \A i \in Ids : served[i] > 0 => served'[i] > 0
  BY ServedGrows
<1>1. CASE Invoke
  <2>1. id' \in Ids /\ outcome[id'] = "unsent"
    BY <1>1, ConstantsAssumption DEF Invoke, OneAtATime, Ids
  <2>2. QED
    BY <1>0, <1>1, <2>1 DEF Invoke
<1>2. CASE ReadAnswer
  <2>1. Head(lines) = lines[1] /\ 1 \in 1 .. Len(lines)
    BY <1>2 DEF ReadAnswer, SessionOK
  <2>2. id \in Ids /\ Head(lines).id = id /\ served[id] > 0
    BY <1>2, <2>1 DEF ReadAnswer, Matches, AnswersFollowService
  <2>3. QED
    BY <1>0, <1>2, <2>2 DEF ReadAnswer
<1>3. CASE Reattach \/ ReattachFails
  <2>1. id \in Ids /\ outcome[id] = "pending"
    BY <1>3 DEF Reattach, ReattachFails, OneAtATime
  <2>2. UNCHANGED answer
    BY <1>3 DEF Reattach, ReattachFails
  <2>3. \A i \in Ids : outcome'[i] = outcome[i] \/ (i = id /\ outcome'[i] = "failed")
    BY <1>3, <2>1 DEF Reattach, ReattachFails, NextAttempt
  <2>4. QED
    BY <1>0, <2>1, <2>2, <2>3
<1>4. CASE UNCHANGED calls
  BY <1>0, <1>4 DEF calls
<1>5. QED
  BY <1>1, <1>2, <1>3, <1>4, Untouched

(* A turn of rpc's loop hands its request over at most once.               *)
LEMMA BudgetStep ==
  ASSUME TypeOK, OneAtATime, TurnsBound, AttemptBudget, [Next]_vars
  PROVE  (TurnsBound /\ AttemptBudget)'
<1> USE ConstantsAssumption DEF TypeOK, ControlOK, ServerOK, TurnsBound, AttemptBudget
<1>1. CASE Invoke
  BY <1>1 DEF Invoke, OneAtATime, server, Ids
<1>2. CASE WriteDelivered
  BY <1>2 DEF WriteDelivered
<1>3. CASE ReadAnswer
  BY <1>3 DEF ReadAnswer, server
<1>4. CASE Reattach \/ ReattachFails
  BY <1>4 DEF Reattach, ReattachFails, NextAttempt, AttemptLeft, server
<1>5. CASE /\ UNCHANGED <<id, attempt, inbox, served>>
           /\ UNCHANGED pc \/ (pc # "idle" /\ pc' # "idle")
           /\ pc' = "writing" => pc = "writing"
  BY <1>5
<1>6. ASSUME NEW i \in Ids, Serve(i), UNCHANGED <<pc, id, attempt>>
      PROVE  (TurnsBound /\ AttemptBudget)'
  <2>1. \A j \in Ids : inbox'[j] + served'[j] = inbox[j] + served[j]
    BY <1>6 DEF Serve
  <2>2. QED
    BY <1>6, <2>1
<1>7. QED
  BY <1>1, <1>2, <1>3, <1>4, <1>5, <1>6, RpcMoves

(* The inductive invariant.                                                *)
LEMMA Invariance == Spec => []IInv
<1>1. IInv /\ [Next]_vars => IInv'
  BY ControlStep, SessionStep, ServerStep, CallsStep, OneAtATimeStep, GateStep,
     AnswersFollowServiceStep, OwnAnswerStep, BudgetStep DEF IInv, TypeOK
<1>2. QED
  BY InitIInv, <1>1, PTL DEF Spec

(* A call that succeeds has its own answer, from a server that executed it. *)
THEOREM OwnAnswer == Spec => []OwnAnswerOnly
<1>1. IInv => OwnAnswerOnly
  BY DEF IInv
<1>2. QED
  BY Invariance, <1>1, PTL

(* No request reaches the server more than maxAttempts times.              *)
THEOREM Budgeted == Spec => []AttemptBudget
<1>1. IInv => AttemptBudget
  BY DEF IInv
<1>2. QED
  BY Invariance, <1>1, PTL

(* No request but the first is handed over before the first is answered.   *)
THEOREM Handshake == Spec => []HandshakeFirst
<1>1. IInv => HandshakeFirst
  BY DEF IInv, TypeOK, ControlOK, ServerOK, OneAtATime, Gate, HandshakeFirst, Ids, Stages
<1>2. QED
  BY Invariance, <1>1, PTL

-----------------------------------------------------------------------------
(* Every step is a step of the promise, or none: a call starts when rpc is *)
(* entered and ends when rpc returns; an execution is the server's.        *)
LEMMA StepKeepsPromise ==
  ASSUME IInv, IInv', [Next]_vars PROVE [Promise!Next]_(Promise!promise)
<1> USE ConstantsAssumption DEF IInv, TypeOK, ControlOK, Ids, Promise!Next, Promise!promise
<1>1. CASE Invoke
  <2>1. id' \in Ids /\ outcome[id'] = "unsent"
    BY <1>1 DEF Invoke, OneAtATime
  <2>2. \A j \in Ids : outcome[j] # "pending"
    BY <1>1 DEF Invoke, OneAtATime
  <2>3. \A j \in Ids : j < id' => outcome[j] # "unsent"
    BY <1>1 DEF Invoke, OneAtATime
  <2>4. Promise!Start(id')
    BY <1>1, <2>1, <2>2, <2>3 DEF Invoke, server, Promise!Start
  <2>5. QED
    BY <2>1, <2>4
<1>2. CASE ReadAnswer
  <2>1. id \in Ids /\ outcome[id] = "pending" /\ outcome'[id] = "ok"
    BY <1>2 DEF ReadAnswer, OneAtATime, CallsOK
  <2>2. served[id] > 0 /\ Head(lines).id = id
    BY <1>2, <2>1 DEF ReadAnswer, OwnAnswerOnly, Matches, server
  <2>3. Promise!Succeed(id)
    BY <1>2, <2>1, <2>2 DEF ReadAnswer, server, Promise!Succeed
  <2>4. QED
    BY <2>1, <2>3
<1>3. CASE Reattach \/ ReattachFails
  <2>1. id \in Ids /\ outcome[id] = "pending"
    BY <1>3 DEF Reattach, ReattachFails, OneAtATime
  <2>2. UNCHANGED <<outcome, served, answer>> \/ Promise!Fail(id)
    BY <1>3, <2>1 DEF Reattach, ReattachFails, NextAttempt, server, Promise!Fail
  <2>3. QED
    BY <2>1, <2>2
<1>4. ASSUME NEW i \in Ids, Serve(i) PROVE Promise!Execute(i)
  <2>1. outcome[i] # "unsent"
    <3>1. inbox[i] > 0 /\ id \in Nat /\ i \in Nat
      BY <1>4 DEF Serve
    <3>2. i < id \/ i = id
      BY <3>1 DEF OneAtATime
    <3>3. QED
      BY <3>1, <3>2 DEF OneAtATime
  <2>2. served[i] < MaxAttempts
    BY <1>4 DEF Serve, AttemptBudget, ServerOK
  <2>3. QED
    BY <1>4, <2>1, <2>2 DEF Serve, calls, Promise!Execute
<1>5. CASE WriteDelivered
  BY <1>5 DEF WriteDelivered, calls
<1>6. CASE UNCHANGED <<server, calls>>
  BY <1>6 DEF server, calls
<1>7. (\E i \in Ids : Serve(i)) => [Promise!Next]_(Promise!promise)
  BY <1>4
<1>8. QED
  BY <1>1, <1>2, <1>3, <1>5, <1>6, <1>7, Untouched DEF server, calls

(* The stdio transport keeps the promise of mcp.Client, with rpc's attempts *)
(* as the budget of executions.                                            *)
THEOREM Refinement == Spec => KeepsPromise
<1>1. Init => Promise!Init
  BY DEF Init, Promise!Init
<1>2. QED
  BY <1>1, Invariance, StepKeepsPromise, PTL DEF Spec, KeepsPromise, Promise!Spec

-----------------------------------------------------------------------------
(* A call whose context is done while it is under way.                     *)
Late == pc # "idle" /\ ctx \in expired

(* How many steps rpc has left then: an attempt writes, asks the context   *)
(* and attaches anew; the first may have been about to read a line.        *)
StepsToReturn ==
  CASE pc = "idle" -> 0
    [] pc \in {"writing", "reading"} -> 3 * (MaxAttempts - attempt)
    [] pc = "checking" -> 3 * (MaxAttempts - attempt) - 1
    [] pc = "reattaching" -> 3 * (MaxAttempts - attempt) - 2

(* Every step of a late call leaves fewer, and no step of anybody else     *)
(* gives it more or makes it less late.                                    *)
LateCallsRunOut ==
  [][ Late => /\ Rpc => StepsToReturn' < StepsToReturn
              /\ ~ Rpc => Late' /\ StepsToReturn' = StepsToReturn ]_vars

(* It has no more left than all its attempts take.                         *)
LEMMA StepsToReturnType ==
  ASSUME TypeOK
  PROVE  StepsToReturn \in 0 .. 3 * MaxAttempts
<1>1. /\ MaxAttempts \in Nat /\ attempt \in Nat /\ attempt < MaxAttempts
      /\ pc \in {"idle", "writing", "checking", "reading", "reattaching"}
  BY ConstantsAssumption DEF TypeOK, ControlOK, Points
<1>2. QED
  BY <1>1 DEF StepsToReturn

(* The steps of rpc one by one, then those of the others.                  *)
LEMMA StepsToReturnStep ==
  ASSUME TypeOK, [Next]_vars, Late
  PROVE  /\ Rpc => StepsToReturn' < StepsToReturn
         /\ ~ Rpc => Late' /\ StepsToReturn' = StepsToReturn
<1>1. /\ MaxAttempts \in Nat /\ attempt \in Nat /\ attempt < MaxAttempts
      /\ pc # "idle" => stage \in {"initialize", "probe", "processing"}
  BY ConstantsAssumption DEF TypeOK, ControlOK
<1>2. ASSUME Rpc PROVE StepsToReturn' < StepsToReturn
  <2>1. CASE WriteDelivered \/ WriteSwallowed \/ WriteFails
    BY <1>1, <2>1 DEF WriteDelivered, WriteSwallowed, WriteFails, StepsToReturn
  <2>2. CASE CheckContext
    BY <1>1, <2>2 DEF CheckContext, Late, StepsToReturn
  <2>3. CASE ReadAnswer \/ ReadSkipped \/ ReadGarbage \/ ReadEOF
    BY <1>1, <2>3 DEF ReadAnswer, ReadSkipped, ReadGarbage, ReadEOF, StepsToReturn
  <2>4. CASE Reattach \/ ReattachFails
    <3>1. pc = "reattaching" /\ NextAttempt
      BY <2>4 DEF Reattach, ReattachFails
    <3>2. QED
      BY <1>1, <3>1 DEF NextAttempt, AttemptLeft, StepsToReturn
  <2>5. QED
    BY <1>2, <2>1, <2>2, <2>3, <2>4 DEF Rpc
<1>3. ASSUME ~ Rpc PROVE Late' /\ StepsToReturn' = StepsToReturn
  <2>1. CASE Handler
    BY <1>1, <2>1 DEF Handler, Enter, Leave, Deadline, Terminate, Notify, Invoke, Late, StepsToReturn
  <2>2. CASE Library \/ Server
    BY <2>2 DEF Library, Connect, ConnectFails, Drop, Server, Chatter, Serve, Late, StepsToReturn
  <2>3. CASE UNCHANGED vars
    BY <2>3 DEF vars, Late, StepsToReturn
  <2>4. QED
    BY <1>3, <2>1, <2>2, <2>3 DEF Next
<1>4. QED
  BY <1>2, <1>3

(* A call past its deadline takes 3 * MaxAttempts steps more at the most,  *)
(* however lines come and sessions end: nothing but a write or a read that *)
(* blocks can keep it from returning (stdio_client.go:183-219).            *)
THEOREM LateCallsBounded ==
  Spec => [](StepsToReturn \in 0 .. 3 * MaxAttempts) /\ LateCallsRunOut
<1>1. TypeOK => StepsToReturn \in 0 .. 3 * MaxAttempts
  BY StepsToReturnType
<1>2. TypeOK /\ [Next]_vars =>
        [Late => /\ Rpc => StepsToReturn' < StepsToReturn
                 /\ ~ Rpc => Late' /\ StepsToReturn' = StepsToReturn]_vars
  BY StepsToReturnStep
<1>3. QED
  BY <1>1, <1>2, TypeCorrect, PTL DEF Spec, LateCallsRunOut
=============================================================================
