--------------------------- MODULE ToolCallProofs ---------------------------
(***************************************************************************)
(* Safety of the actions of Process for any number of retries and pages,   *)
(* any limit, any graph of pages, and every form and layout of results.    *)
(* The invariant says how many calls have been made where, that the items  *)
(* gathered are a chain of pages whose end the cursor continues, and that  *)
(* only a result with a payload is paginated.                              *)
(***************************************************************************)
EXTENDS ToolCall, SelectionProofs, TLAPS

(* How many calls were made, by where the action is.  A page without items *)
(* adds one call and no items.                                             *)
Counted ==
  /\ at = "idle" => calls = <<>> /\ attempt = 0
  /\ at = "calling" => Len(calls) = attempt
  /\ at \in {"judging", "waiting"} => Len(calls) = attempt + 1
  /\ at = "waiting" => attempt < Retries
  /\ at = "paging" =>
       Len(calls) = attempt + Len(items) + (IF reply \in Bare THEN 1 ELSE 0)
  /\ at = "over" => Len(calls) <= Retries + MaxPages

(* The results of the calls made: repeated calls follow transient errors,  *)
(* and of the pages only the last may be one without items, which stops    *)
(* the loop below its limit.                                               *)
Replies ==
  /\ at = "calling" /\ attempt > 0 => reply \in TransientErrors
  /\ at = "waiting" => reply \in TransientErrors
  /\ at = "paging" =>
       /\ items # <<>> /\ reply \in {"page"} \cup Bare
       /\ reply \in Bare => cursor = 0 /\ Len(items) < MaxPages

(* The calls after the retries asked for the pages gathered, in order.     *)
Answered ==
  /\ at \in {"calling", "judging", "waiting"} => \A k \in 1 .. Len(calls) : calls[k] = 1
  /\ at = "paging" => \A k \in 1 .. Len(items) : calls[attempt + k] = items[k]

(* The items gathered are those of a chain, and the cursor leads on.       *)
ChainSoFar ==
  at = "paging" /\ PathsFit =>
    /\ items[1] = 1
    /\ \A k \in 2 .. Len(items) : items[k] = next[items[k - 1]]
    /\ cursor = next[items[Len(items)]] \/ reply \in Bare

OnlyOverHasOutcome == at # "over" => outcome = "pending"

(* What is paginated had a payload, and what is reported was written into  *)
(* the result it came with.                                                *)
PayloadKept ==
  /\ at = "paging" \/ outcome = "ok" => PayloadOf(form) # <<>>
  /\ outcome = "ok" => result = Rewrite(form, "all")

ToolInv ==
  /\ ToolTypeOK
  /\ Counted
  /\ Replies
  /\ Answered
  /\ ChainSoFar
  /\ OnlyOverHasOutcome
  /\ PayloadKept
  /\ AggregateIsChain
  /\ PagesAccountedFor

-----------------------------------------------------------------------------
(* The initial states satisfy the invariant.                               *)
LEMMA InitToolInv == ToolInit => ToolInv
<1> SUFFICES ASSUME ToolInit PROVE ToolInv
  OBVIOUS
<1> USE ToolAssumption DEF ToolInit
<1>1. paginate \in BOOLEAN /\ done \in BOOLEAN
  OBVIOUS
<1>2. ToolTypeOK
  BY <1>1 DEF ToolTypeOK, Cursor, Results, Actions
<1>3. Counted /\ Replies /\ Answered /\ ChainSoFar /\ OnlyOverHasOutcome /\ PayloadKept
  BY DEF Counted, Replies, Answered, ChainSoFar, OnlyOverHasOutcome, PayloadKept
<1>4. AggregateIsChain /\ PagesAccountedFor
  BY DEF AggregateIsChain, PagesAccountedFor
<1>5. QED
  BY <1>2, <1>3, <1>4 DEF ToolInv

(* A cursor read off a page leads to a page or is empty.                   *)
LEMMA CursorType ==
  ASSUME ToolTypeOK, NEW p \in 1 .. Pages
  PROVE  CursorOf(p) \in Cursor
BY ToolAssumption DEF ToolTypeOK, CursorOf, NextCursor, Cursor

(* Type correctness.                                                       *)
LEMMA ToolTypeStep ==
  ASSUME ToolTypeOK, Counted, Replies, [ToolNext]_toolVars
  PROVE  ToolTypeOK'
<1> USE ToolAssumption DEF ToolTypeOK
<1>1. CASE Execute
  <2>1. /\ action' \in Actions /\ paginate' \in BOOLEAN /\ done' \in BOOLEAN
        /\ UNCHANGED <<next, form, layout, attempt, reply, items, cursor, calls>>
    BY <1>1 DEF Execute, tool
  <2>2. at' \in {"calling", "over"} /\ outcome' \in {"pending", "passed", "ok", "error"}
    BY <1>1 DEF Execute, End
  <2>3. QED
    BY <2>1, <2>2
<1>2. CASE Call
  <2>1. /\ reply' \in Results /\ calls' = Append(calls, 1)
        /\ at' \in {"judging", "over"} /\ outcome' \in {"pending", "passed", "ok", "error"}
        /\ UNCHANGED <<next, form, layout, action, paginate, attempt, items, cursor, done>>
    BY <1>2 DEF Call, End, tool, inputs
  <2>2. calls' \in Seq(1 .. Pages)
    BY <2>1
  <2>3. QED
    BY <2>1, <2>2
<1>3. CASE Backoff \/ GiveUpWaiting \/ Settle
  <2>1. /\ at' \in {"waiting", "over"} /\ outcome' \in {"pending", "passed", "ok", "error"}
        /\ UNCHANGED <<next, form, layout, action, paginate, attempt, reply, items,
                       cursor, done, calls>>
    BY <1>3 DEF Backoff, GiveUpWaiting, Settle, End, tool, inputs
  <2>2. QED
    BY <2>1
<1>4. CASE Retry
  <2>1. /\ at' = "calling" /\ attempt' \in 0 .. Retries
        /\ UNCHANGED <<next, form, layout, action, paginate, reply, items,
                       cursor, done, outcome, calls>>
    BY <1>4 DEF Retry, tool, inputs, Counted
  <2>2. QED
    BY <2>1
<1>5. CASE FirstPage
  <2>1. /\ at' = "paging" /\ items' = <<1>> /\ cursor' = CursorOf(1) /\ 1 \in 1 .. Pages
        /\ UNCHANGED <<next, form, layout, action, paginate, attempt, reply,
                       done, outcome, calls>>
    BY <1>5 DEF FirstPage, tool, inputs
  <2>2. cursor' \in Cursor
    BY <2>1, CursorType
  <2>3. QED
    BY <2>1, <2>2
<1>6. CASE Fetch
  <2>1. cursor \in 1 .. Pages
    BY <1>6 DEF Fetch, Cursor
  <2>2. /\ reply' \in Results /\ calls' = Append(calls, cursor)
        /\ at' \in {"paging", "over"} /\ outcome' \in {"pending", "passed", "ok", "error"}
        /\ items' \in {items, Append(items, cursor)}
        /\ cursor' \in {0, cursor, CursorOf(cursor)}
        /\ Len(items) < MaxPages
        /\ UNCHANGED <<next, form, layout, action, paginate, attempt, done>>
    BY <1>6 DEF Fetch, End, PageError, PageLeft, tool, inputs
  <2>3. cursor' \in Cursor
    BY <2>1, <2>2, CursorType DEF Cursor
  <2>4. /\ Append(items, cursor) \in Seq(1 .. Pages)
        /\ Len(Append(items, cursor)) <= MaxPages
        /\ Append(calls, cursor) \in Seq(1 .. Pages)
    BY <2>1, <2>2
  <2>5. QED
    BY <2>2, <2>3, <2>4 DEF Replies
<1>7. CASE Assemble
  <2>1. /\ at' = "over" /\ outcome' = "ok" /\ items' \in {items, <<1>>}
        /\ UNCHANGED <<next, form, layout, action, paginate, attempt, reply,
                       cursor, done, calls>>
    BY <1>7 DEF Assemble, End, tool, inputs
  <2>2. <<1>> \in Seq(1 .. Pages) /\ Len(<<1>>) <= MaxPages
    <3>1. 1 \in 1 .. Pages
      OBVIOUS
    <3>2. QED
      BY <3>1
  <2>3. QED
    BY <2>1, <2>2
<1>8. CASE Report
  <2>1. paginate' \in BOOLEAN /\ done' \in BOOLEAN
    BY <1>8 DEF Report, Forget
  <2>2. /\ at' = "idle" /\ action' = "reconcile" /\ attempt' = 0 /\ reply' = "none"
        /\ items' = <<>> /\ cursor' = 0 /\ outcome' = "pending" /\ calls' = <<>>
        /\ UNCHANGED <<next, form, layout>>
    BY <1>8 DEF Report, Forget, tool
  <2>3. QED
    BY <2>1, <2>2 DEF Actions, Cursor
<1>9. CASE Expire
  <2>1. done' \in BOOLEAN
    BY <1>9 DEF Expire
  <2>2. UNCHANGED <<next, form, layout, action, paginate, at, attempt, reply, items,
                    cursor, outcome, calls>>
    BY <1>9 DEF Expire, tool, inputs
  <2>3. QED
    BY <2>1, <2>2
<1>10. CASE UNCHANGED toolVars
  BY <1>10 DEF toolVars, tool, inputs
<1>11. QED
  BY <1>1, <1>2, <1>3, <1>4, <1>5, <1>6, <1>7, <1>8, <1>9, <1>10 DEF ToolNext, Step, Ask, Move

(* The count of calls.                                                     *)
LEMMA CountedStep ==
  ASSUME ToolTypeOK, Counted, Replies, [ToolNext]_toolVars
  PROVE  Counted'
<1> USE ToolAssumption DEF ToolTypeOK, Counted
<1>1. CASE Execute
  BY <1>1 DEF Execute, End
<1>2. CASE Call
  BY <1>2 DEF Call, End
<1>3. CASE Backoff
  BY <1>3 DEF Backoff, RetryLeft
<1>4. CASE Retry
  BY <1>4 DEF Retry
<1>5. CASE GiveUpWaiting \/ Settle
  BY <1>5 DEF GiveUpWaiting, Settle, End
<1>6. CASE FirstPage
  <2>1. Len(calls) = attempt + 1 /\ items' = <<1>> /\ at' = "paging" /\ reply = "page"
    BY <1>6 DEF FirstPage, Pageable
  <2>2. QED
    BY <1>6, <2>1 DEF FirstPage, Bare
<1>7. CASE Fetch
  <2>1. cursor \in 1 .. Pages /\ Len(items) < MaxPages /\ reply \notin Bare
    BY <1>7 DEF Fetch, Cursor, PageLeft, Replies
  <2>2. Len(calls) = attempt + Len(items) /\ Len(calls') = Len(calls) + 1
    BY <1>7, <2>1 DEF Fetch
  <2>3. CASE reply' = "page"
    BY <1>7, <2>1, <2>2, <2>3 DEF Fetch, Bare
  <2>4. CASE reply' \in Bare
    BY <1>7, <2>1, <2>2, <2>4 DEF Fetch, Bare
  <2>5. CASE reply' # "page" /\ reply' \notin Bare
    BY <1>7, <2>1, <2>2, <2>5 DEF Fetch, End, PageError
  <2>6. QED
    BY <2>3, <2>4, <2>5
<1>8. CASE Assemble
  BY <1>8 DEF Assemble, End, Replies
<1>9. CASE Report
  BY <1>9 DEF Report, Forget
<1>10. CASE Expire
  BY <1>10 DEF Expire
<1>11. CASE UNCHANGED toolVars
  BY <1>11 DEF toolVars
<1>12. QED
  BY <1>1, <1>2, <1>3, <1>4, <1>5, <1>6, <1>7, <1>8, <1>9, <1>10, <1>11
     DEF ToolNext, Step, Ask, Move

(* The results that led where the action is.                               *)
LEMMA RepliesStep ==
  ASSUME ToolTypeOK, Counted, Replies, [ToolNext]_toolVars
  PROVE  Replies'
<1> USE ToolAssumption DEF ToolTypeOK, Replies
<1>1. CASE Execute
  BY <1>1 DEF Execute, End, Counted
<1>2. CASE Call \/ GiveUpWaiting \/ Settle
  BY <1>2 DEF Call, GiveUpWaiting, Settle, End
<1>3. CASE Backoff
  BY <1>3 DEF Backoff, Transient
<1>4. CASE Retry
  BY <1>4 DEF Retry
<1>5. CASE FirstPage
  BY <1>5 DEF FirstPage, Pageable, Bare
<1>6. CASE Fetch
  BY <1>6 DEF Fetch, End, PageError, PageLeft, Bare
<1>7. CASE Assemble \/ Report
  BY <1>7 DEF Assemble, End, Report, Forget
<1>8. CASE Expire \/ UNCHANGED toolVars
  BY <1>8 DEF Expire, toolVars
<1>9. QED
  BY <1>1, <1>2, <1>3, <1>4, <1>5, <1>6, <1>7, <1>8 DEF ToolNext, Step, Ask, Move

(* What was asked for.                                                     *)
LEMMA AnsweredStep ==
  ASSUME ToolTypeOK, Counted, Replies, Answered, [ToolNext]_toolVars
  PROVE  Answered'
<1> USE ToolAssumption DEF ToolTypeOK, Answered
<1>1. CASE Execute
  BY <1>1 DEF Execute, End, Counted
<1>2. CASE Call
  BY <1>2 DEF Call, End
<1>3. CASE Backoff \/ Retry
  BY <1>3 DEF Backoff, Retry
<1>4. CASE GiveUpWaiting \/ Settle \/ Assemble
  BY <1>4 DEF GiveUpWaiting, Settle, Assemble, End
<1>5. CASE FirstPage
  <2>1. /\ items' = <<1>> /\ at' = "paging" /\ UNCHANGED <<attempt, calls>>
        /\ Len(calls) = attempt + 1 /\ calls[attempt + 1] = 1
    BY <1>5 DEF FirstPage, Counted
  <2>2. QED
    BY <2>1
<1>6. CASE Fetch
  <2>1. /\ cursor \in 1 .. Pages /\ reply \notin Bare /\ at = "paging"
        /\ Len(calls) = attempt + Len(items)
    BY <1>6 DEF Fetch, Cursor, Replies, Counted
  <2>2. calls' = Append(calls, cursor) /\ UNCHANGED attempt
    BY <1>6 DEF Fetch
  <2>3. \A k \in 1 .. Len(items) : calls'[attempt + k] = items[k]
    BY <2>1, <2>2
  <2>4. CASE items' = items
    BY <1>6, <2>1, <2>2, <2>3, <2>4 DEF Fetch, End
  <2>5. CASE items' = Append(items, cursor) /\ at' = at
    <3>1. calls'[attempt + Len(items) + 1] = cursor
      <4>1. calls'[Len(calls) + 1] = cursor
        BY <2>2
      <4>2. Len(calls) + 1 = attempt + Len(items) + 1
        BY <2>1
      <4>3. QED
        BY <4>1, <4>2
    <3>2. /\ Len(items') = Len(items) + 1 /\ items'[Len(items) + 1] = cursor
          /\ \A k \in 1 .. Len(items) : items'[k] = items[k]
      BY <2>1, <2>5
    <3>3. ASSUME NEW k \in 1 .. Len(items') PROVE calls'[attempt + k] = items'[k]
      <4>1. CASE k \in 1 .. Len(items)
        BY <2>3, <3>2, <4>1
      <4>2. CASE k = Len(items) + 1
        <5>1. attempt + k = attempt + Len(items) + 1
          BY <4>2
        <5>2. QED
          BY <3>1, <3>2, <4>2, <5>1
      <4>3. QED
        BY <3>2, <4>1, <4>2
    <3>4. QED
      BY <2>1, <2>2, <2>5, <3>3
  <2>6. QED
    BY <1>6, <2>4, <2>5 DEF Fetch
<1>7. CASE Report
  BY <1>7 DEF Report, Forget
<1>8. CASE Expire \/ UNCHANGED toolVars
  BY <1>8 DEF Expire, toolVars
<1>9. QED
  BY <1>1, <1>2, <1>3, <1>4, <1>5, <1>6, <1>7, <1>8 DEF ToolNext, Step, Ask, Move

(* The chain of pages gathered.                                            *)
LEMMA ChainStep ==
  ASSUME ToolTypeOK, Replies, ChainSoFar, [ToolNext]_toolVars
  PROVE  ChainSoFar'
<1> SUFFICES ASSUME at' = "paging", PathsFit' PROVE ChainSoFar'
  BY DEF ChainSoFar
<1>1. CASE FirstPage
  <2>1. items' = <<1>> /\ cursor' = CursorOf(1) /\ PathsFit /\ next' = next
    BY <1>1 DEF FirstPage, PathsFit, tool
  <2>2. QED
    BY <2>1 DEF ChainSoFar, PathsFit, CursorOf, NextCursor
<1>2. CASE Fetch
  <2>1. PathsFit /\ next' = next /\ at = "paging" /\ cursor # 0 /\ cursor \in 1 .. Pages
    BY <1>2 DEF Fetch, PathsFit, tool, ToolTypeOK, Cursor
  <2>2. reply \notin Bare /\ items # <<>> /\ items \in Seq(1 .. Pages)
    BY <2>1 DEF Replies, ToolTypeOK
  <2>3. CASE reply' = "page"
    <3>1. items' = Append(items, cursor) /\ cursor' = CursorOf(cursor)
      BY <1>2, <2>3 DEF Fetch, Bare, End, tool, inputs
    <3>2. CursorOf(cursor) = next[cursor]
      BY <2>1 DEF CursorOf, NextCursor, PathsFit
    <3>3. QED
      BY <2>1, <2>2, <3>1, <3>2 DEF ChainSoFar
  <2>4. CASE reply' \in Bare
    BY <1>2, <2>1, <2>4 DEF Fetch, ChainSoFar, Bare
  <2>5. reply' = "page" \/ reply' \in Bare
    BY <1>2 DEF Fetch, End
  <2>6. QED
    BY <2>3, <2>4, <2>5
<1>3. CASE Expire \/ UNCHANGED toolVars
  BY <1>3 DEF Expire, toolVars, tool, ChainSoFar, PathsFit
<1>4. ~ (Execute \/ Call \/ Backoff \/ Retry \/ GiveUpWaiting \/ Settle \/ Assemble \/ Report)
  BY DEF Execute, Call, Backoff, Retry, GiveUpWaiting, Settle, Assemble, Report, Forget, End
<1>5. QED
  BY <1>1, <1>2, <1>3, <1>4 DEF ToolNext, Step, Ask, Move

(* What is reported.                                                       *)
LEMMA OutcomeStep ==
  ASSUME ToolInv, [ToolNext]_toolVars
  PROVE  OnlyOverHasOutcome' /\ AggregateIsChain' /\ PagesAccountedFor'
<1> USE ToolAssumption DEF ToolInv
<1>1. CASE Assemble
  <2>1. at' = "over"
    BY <1>1 DEF Assemble, End
  <2>2. ASSUME PathsFit'
        PROVE  /\ items' = items /\ PathsFit
               /\ UNCHANGED <<next, cursor, reply, attempt, calls>>
    BY <1>1, <2>2 DEF Assemble, PathsFit, tool
  <2>3. AggregateIsChain'
    BY <1>1, <2>2 DEF AggregateIsChain, ChainSoFar, Assemble
  <2>4. PagesAccountedFor'
    <3> SUFFICES ASSUME Settable(layout.doc, layout.items)'
                 PROVE  /\ reply' \in {"page"} \cup Bare
                        /\ Len(calls') = attempt' + Len(items')
                                          + (IF reply' = "page" THEN 0 ELSE 1)
                        /\ \A k \in 1 .. Len(items') : calls'[attempt' + k] = items'[k]
      BY DEF PagesAccountedFor
    <3>1. items' = items /\ UNCHANGED <<reply, attempt, calls>>
      BY <1>1 DEF Assemble, tool
    <3>2. /\ reply \in {"page"} \cup Bare
          /\ Len(calls) = attempt + Len(items) + (IF reply \in Bare THEN 1 ELSE 0)
          /\ \A k \in 1 .. Len(items) : calls[attempt + k] = items[k]
      BY <1>1 DEF Counted, Replies, Answered, Assemble
    <3>3. reply \in Bare <=> reply # "page"
      BY <3>2 DEF Bare
    <3>4. QED
      BY <3>1, <3>2, <3>3
  <2>5. QED
    BY <2>1, <2>3, <2>4 DEF OnlyOverHasOutcome
<1>2. CASE Report
  BY <1>2 DEF Report, Forget, OnlyOverHasOutcome, AggregateIsChain, PagesAccountedFor
<1>3. CASE Execute \/ Call \/ GiveUpWaiting \/ Settle \/ Fetch
  <2>1. (at' # "over" => outcome' = "pending") /\ outcome' # "ok"
    BY <1>3 DEF Execute, Call, GiveUpWaiting, Settle, Fetch, End, PageError,
                OnlyOverHasOutcome
  <2>2. QED
    BY <2>1 DEF OnlyOverHasOutcome, AggregateIsChain, PagesAccountedFor
<1>4. CASE Backoff \/ Retry \/ FirstPage
  <2>1. at' # "over" /\ outcome' = "pending"
    BY <1>4 DEF Backoff, Retry, FirstPage, OnlyOverHasOutcome
  <2>2. QED
    BY <2>1 DEF OnlyOverHasOutcome, AggregateIsChain, PagesAccountedFor
<1>5. CASE Expire \/ UNCHANGED toolVars
  BY <1>5 DEF Expire, toolVars, tool, OnlyOverHasOutcome, AggregateIsChain,
              PagesAccountedFor, PathsFit
<1>6. QED
  BY <1>1, <1>2, <1>3, <1>4, <1>5 DEF ToolNext, Step, Ask, Move

(* Whatever follows the first page, its form is that of all results.       *)
LEMMA PayloadStep ==
  ASSUME OnlyOverHasOutcome, PayloadKept, [ToolNext]_toolVars
  PROVE  PayloadKept'
<1> USE DEF PayloadKept, OnlyOverHasOutcome
<1>1. CASE FirstPage
  BY <1>1 DEF FirstPage, Paginates, HasPayload, tool
<1>2. CASE Fetch
  <2>1. /\ at = "paging" /\ UNCHANGED form
        /\ UNCHANGED outcome \/ outcome' = "error"
    BY <1>2 DEF Fetch, End, PageError, tool
  <2>2. QED
    BY <2>1
<1>3. CASE Assemble
  <2>1. at = "paging" /\ at' = "over" /\ result' = Rewrite(form, "all") /\ UNCHANGED form
    BY <1>3 DEF Assemble, End, tool
  <2>2. QED
    BY <2>1
<1>4. CASE Execute \/ Call \/ GiveUpWaiting \/ Settle \/ Report
  <2>1. at' # "paging" /\ outcome' # "ok"
    BY <1>4 DEF Execute, Call, GiveUpWaiting, Settle, End, Report, Forget
  <2>2. QED
    BY <2>1
<1>5. CASE Backoff \/ Retry
  <2>1. at' # "paging" /\ outcome' = "pending"
    BY <1>5 DEF Backoff, Retry
  <2>2. QED
    BY <2>1
<1>6. CASE Expire \/ UNCHANGED toolVars
  <2>1. UNCHANGED <<at, outcome, form, result>>
    BY <1>6 DEF Expire, toolVars, tool
  <2>2. QED
    BY <2>1
<1>7. QED
  BY <1>1, <1>2, <1>3, <1>4, <1>5, <1>6 DEF ToolNext, Step, Ask, Move

(* The invariant is inductive.                                             *)
LEMMA StepToolInv == ToolInv /\ [ToolNext]_toolVars => ToolInv'
BY ToolTypeStep, CountedStep, RepliesStep, AnsweredStep, ChainStep, OutcomeStep, PayloadStep
   DEF ToolInv

(* The first of some positions is there, and is one.                       *)
LEMMA ForemostIsFirst ==
  ASSUME NEW positions \in SUBSET Nat, NEW k \in positions,
         \A j \in positions : k <= j
  PROVE  Foremost(positions) = k
<1>1. Foremost(positions) \in positions /\ \A j \in positions : Foremost(positions) <= j
  BY DEF Foremost
<1>2. Foremost(positions) <= k /\ k <= Foremost(positions)
  BY <1>1
<1>3. k \in Nat /\ Foremost(positions) \in Nat
  BY <1>1
<1>4. QED
  BY <1>2, <1>3

LEMMA ForemostExists ==
  ASSUME NEW positions \in SUBSET Nat, positions # {}
  PROVE  /\ Foremost(positions) \in positions
         /\ \A j \in positions : Foremost(positions) <= j
<1>1. PICK k \in positions : \A j \in positions : k <= j
  BY LeastElement
<1>2. QED
  BY <1>1 DEF Foremost

(* A part without JSON in its data, once the aggregate is written there.   *)
LEMMA PartRewritten ==
  ASSUME NEW part \in Part, ParseData(part) = <<>>,
         part.text # "none" \/ (part.data # <<>> /\ part.data[1] # "none")
  PROVE  ParsePart(WritePart(part, "all")) = <<"all">>
<1> DEFINE new == WritePart(part, "all")
<1>0. "all" \in Json /\ "all" \in Text
  BY DEF Json, Text
<1>1. CASE part.text # "none"
  <2>1. new.text = "all" /\ new.data = part.data
    BY <1>1 DEF WritePart, Part
  <2>2. ParseData(new) = <<>> /\ ParseText(new.text) = <<"all">>
    BY <1>0, <2>1 DEF ParseData, ParseText, IsJson
  <2>3. QED
    BY <2>2 DEF ParsePart
<1>2. CASE part.text = "none"
  <2>1. part.data \in Seq(Text) /\ part.data # <<>> /\ new.data = [part.data EXCEPT ![1] = "all"]
    BY <1>2 DEF WritePart, Part
  <2>2. \A k \in 1 .. Len(part.data) : part.data[k] \notin Json
    BY <2>1, SelectNothing DEF ParseData
  <2>3. /\ new.data \in Seq(Text) /\ new.data # <<>> /\ new.data[1] = "all"
        /\ \A k \in 2 .. Len(new.data) : new.data[k] = part.data[k] /\ k \in 1 .. Len(part.data)
    BY <1>0, <2>1
  <2> HIDE DEF new
  <2>4. ParseData(new) = <<"all">>
    <3>1. Select(new.data, Json) = <<new.data[1]>>
      BY <1>0, <2>2, <2>3, SelectFirst
    <3>2. QED
      BY <2>3, <3>1 DEF ParseData
  <2>5. QED
    BY <2>4 DEF ParsePart, new
<1>3. QED
  BY <1>1, <1>2

(* The aggregate is found where it was written: that part is the first of  *)
(* those before the one the payload came from, or that one, and none       *)
(* before it has a payload of its own.                                     *)
LEMMA RewriteAgrees ==
  ASSUME NEW f \in Form, f.kind = "map", ParsePart(f.top) = <<>>, PayloadOf(f) # <<>>,
         ParseData(f.content[Foremost(Parsing(f.content))]) = <<>>
  PROVE  PayloadOf(Rewrite(f, "all")) = <<"all">>
<1> DEFINE c == f.content
           origin == Foremost(Parsing(c))
           place == Foremost(Writable(c))
           new == [c EXCEPT ![place] = WritePart(@, "all")]
<1>1. c \in Seq(Part) /\ Parsing(c) \in SUBSET Nat /\ Writable(c) \in SUBSET Nat
  BY DEF Form, Parsing, Writable
<1>2. Parsing(c) # {}
  BY DEF PayloadOf, ParseContent
<1>3. origin \in Parsing(c) /\ \A j \in Parsing(c) : origin <= j
  BY <1>1, <1>2, ForemostExists
<1>4. origin \in Writable(c)
  <2>1. origin \in 1 .. Len(c) /\ ParsePart(c[origin]) # <<>> /\ ParseData(c[origin]) = <<>>
    BY <1>3 DEF Parsing
  <2>2. c[origin].text \in Json
    BY <2>1 DEF ParsePart, ParseText, IsJson
  <2>3. QED
    BY <2>1, <2>2 DEF Writable, Json
<1>5. place \in Writable(c) /\ \A j \in Writable(c) : place <= j
  BY <1>1, <1>4, ForemostExists
<1>6. place \in 1 .. Len(c) /\ c[place] \in Part /\ place <= origin
  <2>1. place \in 1 .. Len(c)
    BY <1>5 DEF Writable
  <2>2. place <= origin
    BY <1>4, <1>5
  <2> HIDE DEF c, place, origin
  <2>3. QED
    BY <1>1, <2>1, <2>2
<1> HIDE DEF c, origin, place
<1>7. ParseData(c[place]) = <<>>
  <2>1. CASE place = origin
    BY <2>1 DEF c, origin
  <2>2. CASE place # origin
    <3>1. place \notin Parsing(c)
      BY <1>1, <1>3, <1>6, <2>2
    <3>2. ParsePart(c[place]) = <<>>
      BY <1>6, <3>1 DEF Parsing
    <3>3. QED
      BY <3>2 DEF ParsePart
  <2>3. QED
    BY <2>1, <2>2
<1>8. ParsePart(WritePart(c[place], "all")) = <<"all">>
  BY <1>5, <1>6, <1>7, PartRewritten DEF Writable
<1>9. /\ Len(new) = Len(c) /\ new[place] = WritePart(c[place], "all")
      /\ \A k \in 1 .. Len(c) : k # place => new[k] = c[k]
  BY <1>1, <1>6
<1>10. Rewrite(f, "all") = [f EXCEPT !.content = new]
  BY <1>5 DEF Rewrite, c, place
<1> HIDE DEF new
<1>11. Foremost(Parsing(new)) = place
  <2>1. place \in Parsing(new) /\ Parsing(new) \in SUBSET Nat
    <3>1. <<"all">> # <<>> /\ place \in 1 .. Len(new) /\ 1 .. Len(new) \subseteq Nat
      BY <1>1, <1>6, <1>9
    <3>2. QED
      BY <1>8, <1>9, <3>1 DEF Parsing
  <2>2. ASSUME NEW j \in Parsing(new) PROVE place <= j
    <3>1. j \in 1 .. Len(c)
      BY <1>9 DEF Parsing
    <3>2. j < place => j \in Parsing(c)
      BY <1>6, <1>9, <3>1 DEF Parsing
    <3>3. ~ (j < place)
      BY <1>3, <1>6, <3>1, <3>2, <1>1
    <3>4. QED
      BY <1>6, <3>1, <3>3
  <2>3. QED
    BY <2>1, <2>2, ForemostIsFirst
<1>12. ParseContent(new) = <<"all">>
  BY <1>6, <1>8, <1>9, <1>11 DEF ParseContent, Parsing
<1>13. /\ Rewrite(f, "all").kind = "map" /\ Rewrite(f, "all").top = f.top
       /\ Rewrite(f, "all").content = new
  BY <1>10 DEF Form
<1>14. QED
  BY <1>12, <1>13 DEF PayloadOf

(* The payload was found in the text of a part of the content.             *)
FromContentText ==
  /\ form.kind = "map" /\ ParsePart(form.top) = <<>>
  /\ ParseData(form.content[Foremost(Parsing(form.content))]) = <<>>

(* data.result and data.resultParsed agree: who parses the reported result *)
(* the way the adapter does finds the aggregate, though the part rewritten *)
(* need not be the one the first page came from (normalize.go:99-104,      *)
(* 128-143).  Of payloads found elsewhere the result keeps the first page. *)
(* This is what the code does, and pagination_test.go expects; that the    *)
(* result is passed on verbatim (handler.go:190) it contradicts.           *)
ResultAgrees ==
  outcome = "ok" /\ FromContentText => PayloadOf(result) = <<"all">>

(* What is reported agrees with itself.                                    *)
LEMMA AgreementFollows == ToolInv => ResultAgrees
<1> SUFFICES ASSUME ToolInv, outcome = "ok", FromContentText
             PROVE  PayloadOf(result) = <<"all">>
  BY DEF ResultAgrees
<1>1. form \in Form
  BY ToolAssumption DEF ToolInv, ToolTypeOK
<1>2. QED
  BY <1>1, RewriteAgrees DEF ToolInv, PayloadKept, FromContentText

(* The invariant holds in every reachable state.                           *)
LEMMA ToolInvHolds == ToolSpec => []ToolInv
BY InitToolInv, StepToolInv, PTL DEF ToolSpec

(* So many calls and no more, wherever the action is.                      *)
LEMMA BoundFollows == ToolInv => CallsBounded
BY ToolAssumption DEF ToolInv, ToolTypeOK, Counted, Replies, CallsBounded

(* A step that calls again.                                                *)
LEMMA RepeatStep ==
  ASSUME ToolInv, [ToolNext]_toolVars
  PROVE  calls # <<>> /\ Len(calls') > Len(calls) => reply \in TransientErrors \/ cursor # 0
<1> SUFFICES ASSUME calls # <<>>, Len(calls') > Len(calls)
             PROVE  reply \in TransientErrors \/ cursor # 0
  OBVIOUS
<1>1. calls \in Seq(1 .. Pages)
  BY DEF ToolInv, ToolTypeOK
<1>2. CASE Call
  <2>1. Len(calls) = attempt /\ Len(calls) # 0
    BY <1>1, <1>2 DEF ToolInv, Counted, Call
  <2>2. QED
    BY <1>1, <1>2, <2>1 DEF ToolInv, Replies, Call
<1>3. CASE Fetch
  BY <1>3 DEF Fetch
<1>4. CASE Report
  BY <1>1, <1>4 DEF Report, Forget
<1>5. ASSUME ~ Call, ~ Fetch, ~ Report PROVE calls' = calls
  BY <1>5 DEF ToolNext, Step, Ask, Move, Execute, Backoff, Retry, GiveUpWaiting, Settle, FirstPage,
              Assemble, Expire, toolVars
<1>6. QED
  BY <1>1, <1>2, <1>3, <1>4, <1>5

-----------------------------------------------------------------------------
(* How many steps an action has left at the most, from where it is.  A     *)
(* retry is three steps, a page two; a page without items is the last.     *)
StepsLeft ==
  CASE at = "idle" -> 3 * Retries + 2 * MaxPages + 4
    [] at = "calling" -> 3 * (Retries - attempt) + 2 * MaxPages + 3
    [] at = "judging" -> 3 * (Retries - attempt) + 2 * MaxPages + 2
    [] at = "waiting" -> 3 * (Retries - attempt) + 2 * MaxPages + 1
    [] at = "paging" -> 2 * (MaxPages - Len(items)) + (IF cursor = 0 THEN 1 ELSE 2)
    [] at = "over" -> 0

(* Every step of an action leaves fewer, but for its context expiring,     *)
(* once, which leaves as many.                                             *)
RunsOut ==
  [][ at' # "idle" => \/ StepsLeft' < StepsLeft
                      \/ ~ done /\ done' /\ StepsLeft' = StepsLeft ]_toolVars

(* There is no less than no step left.                                     *)
LEMMA StepsLeftType ==
  ASSUME ToolTypeOK
  PROVE  StepsLeft \in Nat
<1>1. /\ Retries \in Nat /\ MaxPages \in Nat /\ attempt \in 0 .. Retries
      /\ Len(items) \in Nat /\ Len(items) <= MaxPages
      /\ at \in {"idle", "calling", "judging", "waiting", "paging", "over"}
  BY ToolAssumption DEF ToolTypeOK
<1>2. Retries - attempt \in Nat /\ MaxPages - Len(items) \in Nat
  BY <1>1
<1>3. ASSUME NEW k \in Nat, NEW n \in 0 .. 4 PROVE 3 * k + 2 * MaxPages + n \in Nat
  BY <1>1
<1>4. CASE at = "idle"
  BY <1>1, <1>3, <1>4 DEF StepsLeft
<1>5. CASE at \in {"calling", "judging", "waiting"}
  <2>1. \E n \in 1 .. 3 : StepsLeft = 3 * (Retries - attempt) + 2 * MaxPages + n
    BY <1>5 DEF StepsLeft
  <2>2. QED
    BY <1>2, <1>3, <2>1
<1>6. CASE at = "paging"
  BY <1>1, <1>2, <1>6 DEF StepsLeft
<1>7. CASE at = "over"
  BY <1>7 DEF StepsLeft
<1>8. QED
  BY <1>1, <1>4, <1>5, <1>6, <1>7

(* One step of an action.                                                  *)
LEMMA StepsLeftStep ==
  ASSUME ToolInv, [ToolNext]_toolVars, at' # "idle", toolVars' # toolVars
  PROVE  \/ StepsLeft' < StepsLeft
         \/ ~ done /\ done' /\ StepsLeft' = StepsLeft
<1>1. /\ Retries \in Nat /\ MaxPages \in Nat \ {0} /\ attempt \in 0 .. Retries
      /\ items \in Seq(1 .. Pages) /\ Len(items) \in Nat /\ Len(items) <= MaxPages
      /\ cursor \in Cursor /\ cursor \in Nat
  BY ToolAssumption DEF ToolInv, ToolTypeOK, Cursor
<1> USE DEF StepsLeft
<1>2. CASE Execute
  <2>1. at = "idle" /\ attempt = 0 /\ attempt' = 0 /\ at' \in {"calling", "over"}
    BY <1>2 DEF Execute, End, ToolInv, Counted
  <2>2. QED
    BY <1>1, <2>1
<1>3. CASE Call \/ Backoff
  <2>1. /\ attempt' = attempt
        /\ \/ at = "calling" /\ at' \in {"judging", "over"}
           \/ at = "judging" /\ at' = "waiting"
    BY <1>3 DEF Call, Backoff, End
  <2>2. QED
    BY <1>1, <2>1
<1>4. CASE Retry
  <2>1. at = "waiting" /\ at' = "calling" /\ attempt' = attempt + 1
    BY <1>4 DEF Retry
  <2>2. QED
    BY <1>1, <2>1
<1>5. CASE GiveUpWaiting \/ Settle \/ Assemble
  <2>1. at \in {"waiting", "judging", "paging"} /\ at' = "over"
    BY <1>5 DEF GiveUpWaiting, Settle, Assemble, End
  <2>2. QED
    BY <1>1, <2>1
<1>6. CASE FirstPage
  <2>1. at = "judging" /\ at' = "paging" /\ Len(items') = 1
    BY <1>6 DEF FirstPage
  <2>2. QED
    BY <1>1, <2>1
<1>7. CASE Fetch
  <2>1. at = "paging" /\ cursor # 0 /\ Len(items) < MaxPages
    BY <1>7 DEF Fetch, PageLeft
  <2>2. \/ at' = "paging" /\ Len(items') = Len(items) + 1
        \/ at' = "paging" /\ items' = items /\ cursor' = 0
        \/ at' = "over"
    <3>1. \/ at' = at /\ items' = Append(items, cursor)
          \/ at' = at /\ items' = items /\ cursor' = 0
          \/ at' = "over"
      BY <1>7 DEF Fetch, End
    <3>2. QED
      BY <1>1, <2>1, <3>1
  <2>3. QED
    BY <1>1, <2>1, <2>2
<1>8. CASE Expire
  BY <1>8 DEF Expire
<1>9. ~ Report
  BY DEF Report, Forget
<1>10. QED
  BY <1>2, <1>3, <1>4, <1>5, <1>6, <1>7, <1>8, <1>9 DEF ToolNext, Step, Ask, Move

-----------------------------------------------------------------------------
(* Every variable of an action keeps to its range.                         *)
THEOREM ToolTypeCorrect == ToolSpec => []ToolTypeOK
BY ToolInvHolds, PTL DEF ToolInv

(* An action calls the tool at most Retries + MaxPages times               *)
(* (handler.go:345, pagination.go:44).                                     *)
THEOREM BoundedCalls == ToolSpec => []CallsBounded
BY ToolInvHolds, BoundFollows, PTL

(* Only transient errors are worth another call (handler.go:346).          *)
THEOREM OnlyTransientRepeated == ToolSpec => RepeatsOnlyTransient
<1>1. ToolInv /\ [ToolNext]_toolVars =>
        [calls # <<>> /\ Len(calls') > Len(calls)
           => reply \in TransientErrors \/ cursor # 0]_toolVars
  BY RepeatStep
<1>2. QED
  BY <1>1, ToolInvHolds, PTL DEF ToolSpec, RepeatsOnlyTransient

(* An aggregate is the chain of pages, in order, and its cursor continues  *)
(* it (pagination.go:60-68).                                               *)
THEOREM AggregatesAreChains == ToolSpec => []AggregateIsChain
BY ToolInvHolds, PTL DEF ToolInv

(* An aggregate is what the calls after the retries gave, one page each,   *)
(* and no error of the transport or without JSON is among them; the last   *)
(* may have given JSON without the list, which the code takes for the end  *)
(* (pagination.go:53-58).                                                  *)
THEOREM PagesAreAccountedFor == ToolSpec => []PagesAccountedFor
BY ToolInvHolds, PTL DEF ToolInv

(* What is reported agrees with itself: parsed the way the adapter parses, *)
(* a rewritten result gives the aggregate (normalize.go:99-104, 128-143),  *)
(* and is not the payload the server sent.                                 *)
THEOREM ResultsAgree == ToolSpec => []ResultAgrees
BY ToolInvHolds, AgreementFollows, PTL

(* No action goes on for ever, whatever its results: it is over after      *)
(* 3 * Retries + 2 * MaxPages + 4 steps at the most (handler.go:345,       *)
(* pagination.go:44).                                                      *)
THEOREM ActionsRunOut == ToolSpec => [](StepsLeft \in Nat) /\ RunsOut
<1>1. ToolInv => StepsLeft \in Nat
  BY StepsLeftType DEF ToolInv
<1>2. ToolInv /\ [ToolNext]_toolVars =>
        [at' # "idle" => \/ StepsLeft' < StepsLeft
                         \/ ~ done /\ done' /\ StepsLeft' = StepsLeft]_toolVars
  BY StepsLeftStep
<1>3. QED
  BY <1>1, <1>2, ToolInvHolds, PTL DEF ToolSpec, RunsOut
=============================================================================
