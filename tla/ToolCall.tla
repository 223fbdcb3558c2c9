------------------------------ MODULE ToolCall ------------------------------
(***************************************************************************)
(* What Process does for a message, one action after another               *)
(* (executeAndNormalize, pkg/adapter/handler.go).  A callTool action is    *)
(* callToolWithRetry, which repeats a call whose result is a transient MCP *)
(* error, then, when the inputs ask for it, paginateCallTool               *)
(* (pkg/adapter/pagination.go), which follows the cursor of one page after *)
(* another and puts their items into the first page's payload and, by      *)
(* normalize.go, into the result.                                          *)
(*                                                                         *)
(* The MCP server is outside: a tool behind which lies a graph of pages    *)
(* (the cursor of a page may lead anywhere, back included), and whose      *)
(* calls may fail in every way the code tells apart.  A call is one call   *)
(* of module McpClient.                                                    *)
(***************************************************************************)
EXTENDS Normalize, JsonPath

CONSTANTS
  Retries,   \* mcp.callToolRetries
  MaxPages,  \* pagination.maxPages, after its default
  Pages,     \* bound: pages the server can serve, 1 .. Pages
  Forms,     \* how results may carry their payload, see Normalize
  Layouts    \* payloads with pagination settings, see Layout

ASSUME ToolAssumption ==
  /\ Retries \in Nat
  /\ MaxPages \in Nat \ {0}
  /\ Pages \in Nat \ {0}
  /\ Forms \subseteq Form

Cursor == 0 .. Pages  \* the page a cursor leads to, 0 for the empty cursor

(* The document of a page, and the inputs' itemsPath and cursorPath in it; *)
(* complete unless one of the three pagination settings is blank.          *)
LayoutOK(l) ==
  /\ DOMAIN l = {"doc", "items", "cursor", "complete"}
  /\ IsDocument(l.doc) /\ l.complete \in BOOLEAN

ASSUME LayoutAssumption == \A l \in Layouts : LayoutOK(l)

VARIABLES
  next,     \* per page: the cursor it carries
  form,     \* how the tool's results carry their payload
  layout,   \* how its pages are laid out and the inputs describe that
  action,   \* the action of the inputs
  paginate, \* they ask for pagination
  at,       \* where the action is
  attempt,  \* the loop counter of callToolWithRetry
  reply,    \* the class of the last result
  items,    \* the pages whose items are aggregated, then reported, in order
  cursor,   \* the cursor to follow, then the one left in the payload
  result,   \* the first result, as it is reported
  done,     \* the context is cancelled or past its deadline
  outcome,  \* what the action reports
  calls     \* ghost: the pages asked of the server, in order

tool == <<next, form, layout>>
inputs == <<action, paginate>>
toolVars == <<tool, inputs, at, attempt, reply, items, cursor, result, done, outcome, calls>>

(* A result: a page with items; JSON without the list of items, be it an   *)
(* MCP error's (isError), which may be a transient one; such an error with *)
(* no JSON, transient or permanent; or an error of the transport.          *)
Bare == {"bare", "bareTransient"}
TransientErrors == {"transient", "bareTransient"}
Results == {"page", "permanent", "fault"} \cup Bare \cup TransientErrors

(* "other": listTools, listResources, readResource, getPrompt.             *)
Actions == {"callTool", "other", "reconcile", "unknown"}

ToolInit ==
  /\ next \in [1 .. Pages -> Cursor] /\ form \in Forms /\ layout \in Layouts
  /\ action = "reconcile" /\ paginate = FALSE
  /\ at = "idle" /\ attempt = 0 /\ reply = "none"
  /\ items = <<>> /\ cursor = 0 /\ result = form /\ done = FALSE
  /\ outcome = "pending" /\ calls = <<>>

End(verdict) == outcome' = verdict /\ at' = "over"

-----------------------------------------------------------------------------
(* Mutants: permanent errors retried too; one retry too many; the same     *)
(* cursor followed again; a page after the last; partial items reported as *)
(* success; a loop that only an empty cursor ends.                         *)
RetryAnyError == reply \in TransientErrors \cup {"permanent"}
RetryOnceMore == attempt <= Retries
StaleCursor(p) == cursor
PageOnceMore == Len(items) <= MaxPages
Partial == "ok"
CursorEmpty == cursor = 0

-----------------------------------------------------------------------------
(* executeAction.                                                          *)

Execute ==
  /\ at = "idle"
  /\ action' \in Actions /\ paginate' \in BOOLEAN /\ done' \in BOOLEAN
  /\ CASE action' = "reconcile" -> End("passed")
       [] action' = "unknown" -> End("error")
       [] OTHER -> at' = "calling" /\ UNCHANGED outcome
  /\ UNCHANGED <<tool, attempt, reply, items, cursor, result, calls>>

(* The call of callToolWithRetry, or the only one of another action.       *)
Call ==
  /\ at = "calling"
  /\ reply' \in Results
  /\ calls' = Append(calls, 1)
  /\ IF reply' = "fault" THEN End("error") ELSE at' = "judging" /\ UNCHANGED outcome
  /\ UNCHANGED <<tool, inputs, attempt, items, cursor, result, done>>

(* isMCPTransientError: frames have no isError to look at.                 *)
Transient == reply \in TransientErrors /\ form.kind = "map"
RetryLeft == action = "callTool" /\ attempt < Retries

(* A transient error is worth another call as long as there are retries.   *)
Backoff ==
  /\ at = "judging" /\ Transient /\ RetryLeft
  /\ at' = "waiting"
  /\ UNCHANGED <<tool, inputs, attempt, reply, items, cursor, result, done, outcome, calls>>

Retry ==
  /\ at = "waiting"
  /\ attempt' = attempt + 1 /\ at' = "calling"
  /\ UNCHANGED <<tool, inputs, reply, items, cursor, result, done, outcome, calls>>

GiveUpWaiting ==
  /\ at = "waiting" /\ done
  /\ End("error")
  /\ UNCHANGED <<tool, inputs, attempt, reply, items, cursor, result, done, calls>>

-----------------------------------------------------------------------------
(* normalizeAndPaginate.                                                   *)

HasPayload == reply \in {"page"} \cup Bare /\ PayloadOf(form) # <<>>

Paginates == paginate /\ action = "callTool" /\ HasPayload

(* paginationConfig and paginationState raise no error.                    *)
Pageable ==
  /\ reply = "page" /\ layout.complete
  /\ Found(layout.doc, layout.items) /\ layout.doc[layout.items] = "list"

(* Without pagination, or without JSON to paginate (an MCP error, frames), *)
(* the result is passed on as it came, which counts as success.            *)
Settle ==
  /\ at = "judging" /\ ~ (Transient /\ RetryLeft)
  /\ ~ (Paginates /\ Pageable)
  /\ End(IF Paginates THEN "error" ELSE "passed")
  /\ UNCHANGED <<tool, inputs, attempt, reply, items, cursor, result, done, calls>>

NextCursor(p) == next[p]

CursorOf(p) == IF ReadsString(layout.doc, layout.cursor) THEN NextCursor(p) ELSE 0

FirstPage ==
  /\ at = "judging" /\ Paginates /\ Pageable
  /\ items' = <<1>> /\ cursor' = CursorOf(1)
  /\ at' = "paging"
  /\ UNCHANGED <<tool, inputs, attempt, reply, result, done, outcome, calls>>

PageLeft == Len(items) < MaxPages
PageError == "error"

(* fetchPaginationPage: a page without items stops the loop, with the      *)
(* cursor emptied; what is no page at all discards what was gathered.      *)
Fetch ==
  /\ at = "paging" /\ cursor # 0 /\ PageLeft
  /\ reply' \in Results
  /\ calls' = Append(calls, cursor)
  /\ CASE reply' = "page" -> /\ items' = Append(items, cursor)
                             /\ cursor' = CursorOf(cursor)
                             /\ UNCHANGED <<at, outcome>>
       [] reply' \in Bare -> cursor' = 0 /\ UNCHANGED <<at, items, outcome>>
       [] OTHER -> End(PageError) /\ UNCHANGED <<items, cursor>>
  /\ UNCHANGED <<tool, inputs, attempt, result, done>>

NoMorePages == cursor = 0 \/ ~ PageLeft

(* Items and cursor are set in the payload where their paths allow it, and *)
(* the payload is written into the result.                                 *)
Assemble ==
  /\ at = "paging" /\ NoMorePages
  /\ items' = IF Settable(layout.doc, layout.items) THEN items ELSE <<1>>
  /\ result' = Rewrite(form, "all")
  /\ End("ok")
  /\ UNCHANGED <<tool, inputs, attempt, reply, cursor, done, calls>>

(* Process hands the data envelope over and forgets all it did.            *)
Forget ==
  /\ at' = "idle"
  /\ action' = "reconcile" /\ paginate' = FALSE
  /\ attempt' = 0 /\ reply' = "none"
  /\ items' = <<>> /\ cursor' = 0 /\ result' = form /\ done' = FALSE
  /\ outcome' = "pending" /\ calls' = <<>>
  /\ UNCHANGED tool

Report == at = "over" /\ Forget

Expire ==
  /\ ~ done /\ at # "idle"
  /\ done' = TRUE
  /\ UNCHANGED <<tool, inputs, at, attempt, reply, items, cursor, result, outcome, calls>>

-----------------------------------------------------------------------------
(* What waits for the client, and what does not.                           *)
Ask == Call \/ Fetch
Move == Backoff \/ Retry \/ GiveUpWaiting \/ Settle \/ FirstPage \/ Assemble

Step == Ask \/ Move

ToolNext == Execute \/ Step \/ Report \/ Expire

ToolSpec == ToolInit /\ [][ToolNext]_toolVars

-----------------------------------------------------------------------------
(* Every variable keeps to its range.                                      *)
ToolTypeOK ==
  /\ next \in [1 .. Pages -> Cursor] /\ form \in Forms /\ layout \in Layouts
  /\ action \in Actions /\ paginate \in BOOLEAN
  /\ at \in {"idle", "calling", "judging", "waiting", "paging", "over"}
  /\ attempt \in 0 .. Retries /\ reply \in Results \cup {"none"}
  /\ items \in Seq(1 .. Pages) /\ Len(items) <= MaxPages
  /\ cursor \in Cursor /\ done \in BOOLEAN
  /\ outcome \in {"pending", "passed", "ok", "error"}
  /\ calls \in Seq(1 .. Pages)

(* An action calls the tool at most once, Retries times again and for      *)
(* MaxPages - 1 more pages, a cursor that leads in circles included        *)
(* (handler.go:345, pagination.go:44).                                     *)
CallsBounded == Len(calls) <= Retries + MaxPages

(* No call is made after a result that is not a transient error, except    *)
(* for the next page (handler.go:346): a permanent error is final, and a   *)
(* tool that has done its work is not run again for the same page.         *)
RepeatsOnlyTransient ==
  [][ calls # <<>> /\ Len(calls') > Len(calls) => reply \in TransientErrors \/ cursor # 0 ]_toolVars

(* The paths of the inputs fit the payload: the items can be written back  *)
(* and the cursor is a string.                                             *)
PathsFit == Settable(layout.doc, layout.items) /\ ReadsString(layout.doc, layout.cursor)

(* The aggregate is the chain of pages the cursors lead along, from the    *)
(* first, none left out, none moved, and the cursor reported with it is    *)
(* the one to resume from, unless a page without items cut the chain       *)
(* (pagination.go:60-68), provided that the paths fit.                     *)
AggregateIsChain ==
  outcome = "ok" /\ PathsFit =>
    /\ items[1] = 1
    /\ \A k \in 2 .. Len(items) : items[k] = next[items[k - 1]]
    /\ cursor = next[items[Len(items)]] \/ reply \in Bare

(* Nothing that failed is hidden in an aggregate: of the calls after the  *)
(* retries each gave the page whose items stand in its place, and none     *)
(* ended in an error of the transport or one without JSON                  *)
(* (pagination.go:53-55).  One more call there may be, the last: JSON      *)
(* without the list, an MCP error's included, is taken for the end of the  *)
(* pages (pagination.go:56-58, 115-121), and the aggregate reported with   *)
(* an empty cursor.                                                        *)
PagesAccountedFor ==
  outcome = "ok" /\ Settable(layout.doc, layout.items) =>
    /\ reply \in {"page"} \cup Bare
    /\ Len(calls) = attempt + Len(items) + (IF reply = "page" THEN 0 ELSE 1)
    /\ \A k \in 1 .. Len(items) : calls[attempt + k] = items[k]
=============================================================================
