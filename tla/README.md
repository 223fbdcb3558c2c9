# A verification of the MCP adapter engram

TLA+ modules, TLC runs and TLAPS proofs for the adapter in this repository: the
program that lets a Story step call an MCP server, either over HTTP or by
starting the server in a runner Pod and talking JSON-RPC to it through
`pods/attach`. Paths below are relative to the repository; line numbers are
those of the commit beside which this directory lies.

## 1. The system

```
 SDK ──in/out, ctx──▶ handler.go: Init, Process, Stream ──calls──▶ mcp.Client
                        │       │                                   │       │
                        │       └─ callToolWithRetry, pagination    │    http_client.go
                        │          normalisation                    │
                        ▼                                           ▼
                 kube/runner_pod.go ──API──▶ runner Pod ◀─attach── stdio_client.go
```

| Component | State | Operations | Talks to | What is hard | What makes it correct |
| --- | --- | --- | --- | --- | --- |
| `mcp.Client` (`pkg/mcp/types.go`) | none of its own | Initialize, NotifyInitialized, the tool, resource and prompt calls | either transport | nothing by itself: it is the promise | calls are sequential, get their own answers, are executed boundedly often |
| stdio transport (`pkg/mcp/stdio_client.go`) | the current attach session, its pipes, `c.mu` | `attach`, `rpc` with three attempts, `readResponse`, `reattach` | the attach library's goroutine, the MCP server | sessions end at any moment; answers of earlier calls arrive late; a retry repeats what may have been done; a context that is looked at only between lines | own answer only; executions bounded by the attempts; nothing before the handshake; calls return |
| runner lifecycle (`pkg/kube/runner_pod.go`, `initStdio`) | in the cluster: the Pod, its Secret, owner references; in the process: the secret's name, the cleanup | reap, look up, create Secret, create Pod, wait, delete Pod, delete Secret | the API server, kubelet, garbage collector, other runs | each call can fail with or without effect; the process can die between two; runs share a name | a live runner keeps its secret; `Keep` is kept; an orderly run leaves nothing; nothing owned outlives its owner |
| stream loop (`Stream`) | `streaming`, the message in hand | receive, decode, process, reply, acknowledge, clean up | the SDK's channels, `Process` | cancellation between any two steps; undecodable messages; a cleanup that belongs to one of two modes | acknowledged after the reply; nothing skipped; the runner outlives the loop; cancelled means returned |
| tool call (`executeAndNormalize`, `callToolWithRetry`, `pagination.go`) | retry counter, items and cursor so far | call, back off, fetch a page, assemble | `mcp.Client`, normalisation | cursors that lead in circles; a page that fails after others succeeded; the boundary of two counters; paths of the inputs that do not fit the payload | bounded calls; only transient errors repeated; an aggregate is the whole chain and says where to resume |
| normalisation (`normalize.go`) | none | find the JSON payload in a result, write it back | tool call | text and data, at the top and in content: what is read and what is rewritten need not be the same | what is reported is what was found (whether verbatim or rewritten, the documents disagree: section 3) |
| streamable HTTP (`http_client.go`) | session id, request headers | one POST per call, SSE decoding | the MCP server | SSE frames read to the end, answers not matched by id, status codes | one execution per call, own answer |
| ensure (`kube/client.go`, `ensure.go`) | none in the process; the Deployment and the Service in the cluster | get, then create or update, first one, then the other | API server, other writers | another call or a deletion between the get and the write; any error of a get reads as absence; lost replies | each object changes as if in one step; nothing unseen is overwritten; an undisturbed call takes effect, or is refused for a reason that lasts |
| catalogue fetcher (`fetcher.js`) | an index and result lists shared by eight workers | fetch pages, resolve their tables, list servers, fetch their tools, save | network, files | interleaving across awaits; pages that fail or do not parse; tables that refer to themselves | every server discovered is settled once; all are before the file is written |
| catalogue generator (`scripts/`) | none | rewrite files | files | nothing concurrent | – |
| configuration, logging, selection | none | decode, look up, log | environment | nothing concurrent | – |

The hazards of the code, each with its line, are listed in `PROJECT.json`, with
the properties below that would catch them going wrong.

## 2. The modules and how they correspond to the code

`PROJECT.json` maps every definition to the lines it stands for.

**`McpClient`** – the abstract promise of `mcp.Client`: requests numbered in the
order they are sent, each `unsent`, `pending`, `ok` or `failed`, with how often
the server executed it and whose answer its caller got. It says that a request
may be executed after its call has failed, and that it is never executed more
than `Budget` times; `Silent` says whether a call may succeed without an answer.
It knows nothing of sessions or attempts.

**`StdioTransport`** – `stdioClient` as `initStdio` and `Process` drive it.
`stage` is the adapter's progress (`initialize`, the notification, the
`tools/list` probe, then `resting`/`processing`); `ctx` numbers the contexts,
one per `Process` call, 0 for the one `Init` attaches under, and `expired` holds
those that are done. `pc`, `id` and `attempt` are `rpc`'s locals, `link` the
session behind `writer` and `reader` together with the context it was attached
under, `lines` what the reader has not read. `inbox`, `served` and the lines
printed belong to the server, which is outside the repository: it executes in
any order and may print notifications and lines that are no JSON.

Three facts of the code shape this module. `attach` returns before the session
is up and leaves everything else to a goroutine, so `link` is `opening`, `open`
or one of three kinds of ruin. When `StreamWithContext` returns, the goroutine
closes stdout but not stdin (84-92), so what a later write meets is up to the
library: a copying goroutine that still takes one write (`lingering`), nobody,
so that the write blocks (`severed`), or an error (`refused`). The run chooses
among these with `Remains`; nothing in the repository makes it the last, on which
the retry of a failed write depends. And `readResponse` asks the context between lines only, which is
why `CheckContext` is a step of its own and reading is not guarded by it.

`c.mu` is held for all of an `rpc` and the handler calls sequentially, so one
`pc` is enough. Ids are fresh for each request (`newID` makes uuids) and equal
only to themselves, so they are numbers here; `jsonRPCIDMatches` on them is
equality.

**`HttpTransport`** – `httpClient` as `initHTTP` and `Process` drive it: every
message, the notification included, is one POST; the response breaks, is a body,
or is a stream of lines that the decoder reads while the server writes it. A
stream ends cleanly, within its last line (which `ReadString` then drops), or
never. `block` and `frames` are `NextEvent`'s buffer and `decodeSSEFrames`'
result; the context is looked at between lines and, unlike in the stdio
transport, ends a blocked read as well, because `net/http` closes the body.
Since no answer is looked for in a 2xx response, the transport implements
`McpClient` with `Silent` only, and with a `Budget` of one.

**`EventStream`** – what a stream of lines says, without a decoder: cut it at the
blank lines, take the data of each piece. `FramesVerbatim` compares the frames
with this.

**`RunnerLifecycle`** – every Kubernetes call of `initStdio`, `EnsureRunnerPod`,
`WaitForPodRunning` and `DeleteRunnerPod` as an action of a run (`Adapters`),
with the outcomes the code tells apart: success, the error the state of the
cluster causes (NotFound, AlreadyExists), and an error without cause, which
may or may not have taken effect. `faulted` remembers the last kind so that
properties can exempt it. The reaper is two steps: `Reap` reads what is old, `Sweep`
deletes by name whatever has that name by then. A run may crash anywhere. `config` chooses whether the
Pod's name is known (then runs are restarts in one Pod, sequential, and objects
have an owner), the deletion policy, and the ephemeral secret. `created` and
`sealed` are the two results of `EnsureRunnerPod`, of which the caller keeps the
second. Kubelet, garbage collector, other deleters and the passing of two hours
are actions of the environment. `MCRunnerLifecycle` numbers the runs in the order
they start, which keeps the instance small without the symmetry that liveness
forbids: two runs of a named Pod, one after the other; otherwise two that may
overlap, and a third that meets what they left behind, or joins the second while
that is between the List and the Delete of its reaper.

**`StreamLoop`** – `Stream`'s select loop: two selects, each with a `ctx.Done`
branch taken or not as Go pleases; a message that cannot be decoded is
acknowledged and skipped; `Process` is one step, because it returns an envelope
and no error, and cleans up only when `streaming` is unset.

**`Selection`** – the elements of a sequence that are in a set, which the loops of
`normalize.go` and the definition of an event take in turn. It is a recursive
function, unlike `SelectSeq` of the standard module, so that proofs can unfold
it.

**`Normalize`** – `normalize.go` as functions. A result is seen by its texts: SSE
frames, a string, or a map with a text and data of its own and those of its
content. A text is absent, prose, the JSON of a page or that of an aggregate.
`PayloadOf` is what `normalizeMCPResult` finds, `Rewrite` what
`updateNormalizedWithParsed` makes of the result.

**`JsonPath`** – `parsePath`, `getPath` and `setPath` of `pagination.go`: a path is
the sequence of its tokens, a document the kind of what lies at each of its
paths.

**`ToolCall`** – what `executeAndNormalize` does for a message, one action after
another: `callTool` with its retry loop and then the page loop, the other
actions with a single call, `reconcile` and unknown actions with none. The
server's pages form an arbitrary graph (`next`), a result carries its payload in
one of the `Forms` of `Normalize`, and the inputs' paths meet a payload in one
of the `Layouts`. `reply` is the class of a result: a page, JSON without the
list of items (an MCP error's or not), an MCP error without JSON, a fault of the
transport. Whether an error is transient, which the code tells by codes and by
words in its text, is a choice. `calls`, the pages asked for, is a ghost.

**`MessageRun`** – `StreamLoop` and `ToolCall` put together: what the loop takes for
one step, `Process`, is here every call of the action, with messages arriving,
the channel closing, the context cancelled and the deadline passing in between.
`Leave` is the loop's `Process` joined with the end of the action, `ClientCall` the
return of a call, which may never come. Cancelling
Stream's context is cancelling the action's, which is derived from it
(`CancelAll`). That the composition is a `StreamLoop` (`KeepsLoop`) and a
`ToolCall` (`KeepsTool`) are properties, not conventions. `MCMessageRun` gives the
forms and layouts, and restricts what varies together.

**`Upsert`**, **`EnsureObjects`** – the promise of `Ensure`, and the code: an object is
read, any error of the read means absence, then it is created or replaced under
the version that was read. The API server refuses what Kubernetes refuses: a
create of what exists, an update of another version, of a Deployment's selector,
of a Service's cluster IP; and a Service whose type its IP does not fit: `None` goes
with `ClusterIP` only, and an `ExternalName` has no name with it. Versions are never given out twice. Several calls run
at a time, deletions and faults (with or without effect) come in between.
`lone` is a ghost: the calls nothing has disturbed since they began.

**`WorkPool`**, **`CatalogFetch`** – the promise of the fetcher, and `main` of
`fetcher.js`: pages come or fail, their servers are listed, completed by a stub
for every URL that no parsed server has, de-duplicated and sorted, then drawn by
`CONC` workers. An action runs from one await to the next, as JavaScript does;
all workers reach their first await before anything else happens (`MyTurn`). A
server without a URL is settled without a request. What a page decodes to is a
constant (`Blobs`); `CatalogPages` computes it with `PageTable`.

**`PageTable`** – `parseMcpCatalog`: a table whose nodes refer to one another by
number, in circles too, is resolved depth first through a cache, in which a node
counts as undefined while it is being resolved; then the records that look like
servers are listed. A node is seen by what it is on its own and by the references
that are followed for it, in order, whatever it nests them in; a value by what
the listing asks of it. Operators and recursive functions, the latter over the
depth of references and along a list of them, so that one can prove about them.

**`CatalogPages`** – both together: pages are made of tables (`Sources`), and list what
`ServersOf` finds in them. What is resolved inside a circle depends on where the
reading started; `RecordsSaved` says that titles and URLs, which are texts, do
not, by a reading of the table that follows two references and keeps no cache
(`SaysText`, `Said`).

How they fit: `StdioTransport` and `HttpTransport` implement `McpClient`; a
`Call` or `Fetch` of `ToolCall` is one call of `McpClient`; `MessageRun` composes
`StreamLoop` and `ToolCall`; `Handshake` of `RunnerLifecycle` is the handshake of
`StdioTransport`, and its cleanup that of `StreamLoop`. The transports and the
actions above them are not composed into one state machine: `McpClient` is the
interface between them, sequential on both sides. `EnsureObjects` and
`CatalogFetch` share nothing with the rest: `Ensure` is called by no path of
`handler.go`, and the fetcher is a program of its own.

## 3. The runs

`tlc -config <run>.cfg <module>.tla` in this directory.

| Run | Module, cfg | Question | Outcome |
| --- | --- | --- | --- |
| stdio | `StdioTransport`, `Stdio.cfg` | Own answers (`OwnAnswerOnly`), at most `maxAttempts` deliveries (`AttemptBudget`), handshake first (`HandshakeFirst`), refinement of `McpClient` (`KeepsPromise`)? Can a call hang other than in a write to a pipe without a reader (`CallsReturn`)? | holds; it cannot, if the server answers |
| stdio_send | `StdioTransport`, `StdioSend.cfg` | Is a send to a dead session retried (`SendReturns`, after the comment at `stdio_client.go:180`)? | violated |
| stdio_deadline | `StdioTransport`, `StdioDeadline.cfg` | Does a call past its timeout return whatever the server does (`DeadlineHonoured`, after `README.md:99`)? | violated |
| http | `HttpTransport`, `HttpSafety.cfg` | Are the frames the stream's events (`FramesVerbatim`), is a message executed once at the most (`KeepsPromise`)? | holds |
| http_stream | `HttpTransport`, `HttpStream.cfg` | Does a call whose answer has come on a long-lived stream return (`AnsweredReturns`, after `README.md:123`)? | violated |
| runner | `MCRunnerLifecycle`, `Runner.cfg` | Does a runner keep its secret (`SecretOutlivesUse`), `Keep` hold for all but the reaper of a run without a Pod name (`KeepHonoured`), an orderly run leave nothing (`OrderlyEnd`)? Do runner and secret go for good with the adapter Pod (`OwnedGoesWithOwner`)? | holds |
| runner_ensure | `MCRunnerLifecycle`, `RunnerEnsure.cfg` | Does ensure create a missing Pod (`EnsureCreates`, after `runner_pod.go:45`)? | violated |
| runner_secret | `MCRunnerLifecycle`, `RunnerSecret.cfg` | Is the ephemeral secret short-lived (`SecretShortLived`, after `README.md:127`)? | violated |
| runner_orphan | `MCRunnerLifecycle`, `RunnerOrphan.cfg` | Is the cleanup automatic (`NoOrphans`, after `README.md:7`)? | violated |
| message | `MCMessageRun`, `MessageRun.cfg` | Does the loop acknowledge after replying only (`AckAfterReply`), settle what it takes (`TakenIsSettled`), reply in order (`RepliesFollowExecution`), keep its runner (`RunnerServesTheLoop`), and, if the calls of the client return, end when cancelled (`CancelEnds`), get to every message (`ArrivedIsSettled`)? Are calls bounded (`CallsBounded`), repeated after transient errors only (`RepeatsOnlyTransient`), made for the message in hand only (`CallsForMessageInHand`)? Is an aggregate the whole chain (`AggregateIsChain`), with no failed call hidden in it but JSON without a list at its end (`PagesAccountedFor`)? Is the whole a `StreamLoop`, in which every action ends if its calls return, and a `ToolCall` (`KeepsLoop`, `KeepsTool`)? | holds |
| ensure | `MCEnsureObjects`, `Ensure.cfg` | Is nothing overwritten unseen (`NoBlindOverwrite`), does an undisturbed call take effect, unless it changes the labels or its type does not fit the IP (`LoneCallTakesEffect`), does each object change as if in one step, the Service after the Deployment (`ActsAtomically`)? | holds |
| catalog | `MCCatalogFetch`, `Catalog.cfg` | Is a server in one place, once (`InOnePlace`), is nothing discovered lost (`NothingLost`), are the records of cyclic tables among what is saved (`RecordsSaved`), is each settled once and nothing saved before all are (`KeepsPool`), and does the fetcher get there (`Completes`)? | holds |

Every property of a passing run has a mutant in `PROJECT.json`: an alternative
body for one definition (a dropped guard, one turn too many, a delete in the
wrong order) under which the property fails. The operators named there stand
under "Mutants" in the modules and take part in nothing else.

### What the violated properties show

- **stdio_send**: the session under `writer` fails to connect or ends;
  `Write` has no reader and blocks, holding `c.mu`. The retry that line 180
  announces is reached only when the write returns.
- **stdio_deadline**: the session was attached in `Init`, hence under the context
  of the process; the timeout of a `Process` call ends neither it nor the
  `ReadBytes` on it, so a silent server holds the call.
- **http_stream**: `decodeSSEFrames` returns at the end of the body only; a server
  that answers and keeps the stream open holds the call until its deadline, if it
  has one, and then the answer is lost with the error.
- **runner_ensure**: a run ends after it created the Secret and before it created
  the Pod; every later run finds the Secret, gets AlreadyExists and fails.
- **runner_secret**: the second of two runs finds the Pod of the first and adopts
  it with an empty secret name; its cleanup takes the Pod and leaves the Secret.
- **runner_orphan**: the cleanup uses the context of the call, done by then; the
  delete fails, the error is dropped, and without a Pod name there is no owner.

Other differences and limits met while reading, with no run of their own:

- Overlapping runs without a Pod name share the "dedicated" runner of
  `README.md:125`. The reaper, where `runner_pod.go:374` speaks of zombies, deletes a
  two-hour-old Pod under the step's label even while another run serves from it;
  and since it lists (381) and then deletes by name without a UID (390), it may
  delete a young one that another run has put in the place of the old, under
  `deletionPolicy: Keep` too. `RunnerLifecycle` has both behaviours; `KeepHonoured`
  holds for the reaper of runs with a Pod name, since these follow one another, and
  excepts the others, without which TLC finds the young runner deleted.
- A session replaced after a malformed line is not closed, beside `Engram.yaml:49`.
- A `timeout` in the form `Engram.yaml:207-208` gives (a string) makes a message
  undecodable, so that `Stream` acknowledges it without a reply.
- A transient error that comes as SSE frames is a list: it is never retried,
  parsed or paged (`handler.go:364-367`), where `config.go:50-51` and
  `Engram.yaml:158` promise a retry and `Engram.yaml:224` parsed JSON. `ToolCall`
  has this (`Transient` asks for a map).
- A further page that fails transiently is not retried as the first call is
  (`pagination.go:107`). One whose JSON has no list, that of an error with JSON
  included, ends the paging without an error and empties the cursor
  (`pagination.go:56-58, 115-121`): what was gathered until then is reported as if it
  were all there is, though `pagination.go:53-55` gives up on any other failure.
  `AggregateIsChain` excepts the cursor then, and `PagesAccountedFor` says that
  nothing else of the kind passes. A cursor that is a number reads as empty
  and is then overwritten (`pagination.go:65,167`); with the itemsPath `.` a root
  list is read but cannot be set, so the aggregate is lost (`pagination.go:183`).
  `PathsFit` excludes the last two. Settings that are missing or wrong are
  reported only after the tool has run.
- After pagination `data.result` is not what the server sent: the first text in the
  content is replaced by the JSON of the aggregate, be it prose or not the text the
  payload was found in (`normalize.go:112-151`). `handler.go:190` says "verbatim
  payloads under `output.data.result`", `README.md:8` that results are passed on
  "without reshaping", and `Engram.yaml:221` "Raw MCP payload, verbatim"; only
  `pagination_test.go` expects the rewriting. No property takes a side. What the code
  does is a theorem (`ResultsAgree`): a result whose payload was in a text of the
  content says the aggregate to who parses it as the adapter does; a payload found
  in a top-level text or in data is not rewritten, and there `data.result` keeps the
  first page.
- Two overlapping calls of `Ensure` may both succeed and leave the Deployment of
  one with the Service of the other; changed labels make `Ensure` fail for good,
  since a selector cannot change; a Service keeps its IP when `Headless` changes
  (`client.go:46`), so that a headless one that is to become a `NodePort` or
  `LoadBalancer` is refused for good, its Deployment being changed already; an
  `ExternalName` (`ensure.go:25`) is always refused; the spec hash is written and never read.
- The fetcher writes results in the order they come, so the order of
  `fetcher.js:344` is lost; an errors file of an earlier run stays; with an `OUT`
  that does not end in `.json` the errors overwrite the results.

### Bounds

- `MaxAttempts = 2` where the code has 3: with 2 there is a first attempt, a
  retry and a last failure, and the runs stay below a minute; 3 is too large for
  three requests. The theorems below hold for every value.
- `MaxRequests = 3`: the first is `initialize`, the second the probe, the third
  a call that meets the leftovers of both. `MaxContexts = 1` is then enough,
  since 0 (the context of `Init`) is another; it is the pair of contexts that
  matters, a session attached under one and used under the other.
- `MaxNoise = 1`: noise is added as long as no more than that is unread, so it comes
  before, between and after the answers of two calls.
- Four messages over HTTP (`initialize`, the notification, the probe, a call of
  `Process`) and streams of three lines: an event of two data lines with its end,
  two events, an event cut short. The decoder's loop has no other memory.
- Three runs of the adapter in `runner` when they may overlap: one that leaves
  something, one that adopts it or comes between, one that meets what both left or
  replaces the runner the second is about to reap;
  two when they are restarts of one Pod, where only the last one's leavings
  count. Two in the violated runs but `runner_orphan`, which needs one. The
  theorems hold for any number.
- `message`: two messages through a channel of one, so that one is in hand and a
  full channel behind it; three pages and `MaxPages = 3`, every graph of cursors,
  cycles and chains that the limit cuts included; `Retries = 2`: none, one left,
  none left. Twenty-odd forms of result and ten layouts, each met with a
  chain of pages; graphs and sequences of messages are met with the plain form.
  They do not interact: no part of the loop looks at a payload, and an
  action forgets all it did when it ends.
- `ensure`: three calls, one that goes on while another comes between and a third
  meets the result, with specs that differ in labels, port, headlessness and type; one
  fault and one deletion, anywhere.
- `catalog`: three pages of five kinds, so lists of up to five servers; three
  workers: one that holds a server while two others pass it. Four pages are tables:
  one record; three records in two circles, with a list before them, shared texts
  after them and in one of them a title under each of two names; one URL under two
  titles below a plain object; a server without a URL beside a record that is none
  and refers to itself. The theorems hold for every table.

### Fairness and deadlock

`StdioTransport`: `WF` on `rpc` (a runnable goroutine runs), on the notification,
on the end of an attach attempt, and on the end of a session whose context is
done, for `StreamWithContext` returns then. That is all that `stdio_deadline`
assumes; `stdio` and `stdio_send` add that the server answers what it received.
`HttpTransport`: `WF` on the steps of the client and on `net/http` returning when
the context is done; the server may hang. Nothing
makes a session come up or stay up. `RunnerLifecycle`: `WF` on the garbage
collector, on the kubelet removing a Pod, and on every run that is up, since
every call of the API server returns and every wait has a deadline; runs may
crash all the same.

`MessageRun`: `WF` on the steps of the one goroutine, Stream and Process in it, that
wait for nobody. A call of the client need not return: over stdio a write to a pipe
without a reader and a read from a session attached under Init's context are ended
by no cancellation, as `stdio_send` and `stdio_deadline` show, and then a cancelled
Stream does not return and no message behind is taken. So `ClientReturns`, `WF` on
the return of calls, is the stated premise of `CancelEnds` and `ArrivedIsSettled`; the
latter adds that replies are taken. `StreamLoop` by itself states fairness of its
own steps without `Process`, and `KeepsLoop` says that the composition has that, and
has `Process` come to its end if the calls return.

`CatalogFetch`: `WF` on the whole, since something can always be done until the
file is saved: a request is answered or fails. `EnsureObjects` has no fairness:
nothing is claimed but safety.

`CHECK_DEADLOCK FALSE` is set everywhere, for the systems do stop: a failed
`Init`, a returned `Stream`, finished calls of `Ensure`, a saved catalogue, a call
in a blocked write.

## 4. What is proved

Eight modules of proofs, checked by `tlapm`: one for each component with a
specification (`StreamLoop`'s are with those of `MessageRun`), and one of lemmas
about `Selection` on which three of them rest. Every theorem holds for all values of the constants that satisfy
the assumptions named in the modules:

| Module | Assumptions | Theorems: `Spec =>` |
| --- | --- | --- |
| `StdioTransportProofs` | `ConstantsAssumption`: `MaxAttempts` positive, the bounds natural numbers, `Remains` a set of the three ruins | `TypeCorrect`, `OwnAnswer`, `Budgeted`, `Handshake`: the four invariants; `Refinement`: `KeepsPromise`; `LateCallsBounded` |
| `HttpTransportProofs` | `HttpAssumption`: the bounds are natural numbers | `HttpTypeCorrect`; `HttpRefinement`: `KeepsPromise`; `FramesFaithful`: `FramesVerbatim`; `LateCallsBounded` |
| `RunnerLifecycleProofs` | none | `RunnerTypeCorrect`; `SecretIsThere`: `SecretOutlivesUse`; `KeptRunnersStay`: `KeepHonoured`; `CleanupIsComplete`: `OrderlyEnd`; `LeftToCollector`, `RunsEnd`, `GoneForGood` |
| `ToolCallProofs` | `ToolAssumption`: `Retries` a natural number, `MaxPages` and `Pages` positive, results have one of the forms | `ToolTypeCorrect`, `BoundedCalls`, `OnlyTransientRepeated`, `AggregatesAreChains`; `PagesAreAccountedFor`: `PagesAccountedFor`; `ResultsAgree`, `ActionsRunOut` |
| `MessageRunProofs` | `ToolAssumption`, and `StreamAssumption`: the bounds | of `Spec`: `LoopTypeCorrect`; `AcksFollowReplies`, `TakenSettled`, `RepliesInOrder`, `RunnerServes`: the four invariants of the loop; `StreamRunsOut`. Of `RunSpec`: `RunTypesCorrect`; `RunIsLoop`, `RunKeepsTool`: the composition implements its parts; `RunKeepsSafety`: so all of the above holds of it; `CallsInHand`: `CallsForMessageInHand` |
| `EnsureObjectsProofs` | `BoundsAssumption`, `SpecsAssumption`: natural numbers, specs of the right shape | `EnsureTypeCorrect`, `NothingOverwritten`, `LoneCallsTakeEffect`; `ImplementsUpsert`: `ActsAtomically` |
| `CatalogFetchProofs` | `CatalogAssumption`: titles are numbers, there are finitely many servers, pages have the right shape, there is a worker; `SourcesAssumption`: tables are sequences of nodes | `CatalogTypeCorrect`, `EachInOnePlace`, `NothingIsLost`, `RecordsAreSaved`; `ImplementsPool`: `KeepsPool`; `NeverStuck`, `FetcherRunsOut` |
| `SelectionProofs` | none | lemmas only |

The arguments, in the order of the table:

**The stdio transport.** None of the properties is inductive. `IInv` adds what they rest on:

- `OneAtATime`: the ids up to `id` have been used, only the current call is
  pending, and later ids are untouched anywhere. Without it an answer could be
  waiting for a call not yet made.
- `AnswersFollowService`: an answer on the stream is one of a request that was
  executed. `OwnAnswerOnly` needs it at `ReadAnswer`; truncation by `Drop` and
  removal by the reader preserve it.
- `NoAnswerYet`: no answer without success, which makes the refinement's
  `Succeed` set exactly one entry.
- `TurnsBound`: at the write, the copies of the current request in the server's
  hands are at most the completed turns of the loop; after the write, one more.
  `AttemptBudget` follows because the loop ends before `MaxAttempts`.
- `Gate`: past the `initialize` stage the first request has succeeded.

Initial states satisfy `IInv`; the step is proved a conjunct at a time, each by
cases on the actions that can disturb it (`Untouched` and `RpcMoves` set the
others aside). For `Refinement`, `StepKeepsPromise` maps `Invoke` to `Start`,
`Serve` to `Execute`, `ReadAnswer` to `Succeed`, the last turn of the loop to
`Fail`, everything else to stuttering.

`LateCallsBounded`, of both transports, is what a passed deadline does without any
fairness. Over stdio each attempt left is a write, a look at the context and a
reattach, so `StepsToReturn`, which every step of `rpc` decreases and no step of the
server, the library or the handler touches, is at most `3 * MaxAttempts`: what
`stdio_deadline` shows, a late call that never returns, is a write or a read that
blocks and cannot be anything else, such as a server that keeps the reader busy
with notifications. Over HTTP the bound is four, and there `Interrupted` ends what
blocks.

**The HTTP transport.** `ExecutedOnce` says that a message is in the server's hands or
was executed, not both, and neither before it is posted: hence a budget of one.
`AnswersFollowService` carries an answer from the line that was sent through the
decoder's buffer into a frame, by which the success of `ReadEnd` is an `McpClient`
success with an answer.

`FramesVerbatim` speaks of the end of a stream only. `DecoderInv` says what the
decoder holds while it reads: its frames are the events of the pieces that have
ended, and its buffer the data of the piece under way (`Within`, after the line that
begins it). A line of data makes the piece longer, any other but a blank leaves its
data as they are, and a blank one ends the piece: those are the lemmas of the
section on events. At the end what is left in the buffer is the last event.

**The runner.** All rests on who may delete the ephemeral secret. A run that created
it holds it until it deletes it or ends (`Holder`); an adopter never does. As long
as the owner lives, a second holder would have had to create a secret that is
there, so there is one at the most (`HolderInv`), and while that one is about to
delete the secret no other can create a runner that mounts it. Once the owner is
gone the collector may take the secret first, which is why the property stops
there. `OrderlyEnd` needs, besides, that runs of a named Pod follow one another
(`NamedInv`): a run without faults finds its own runner on its way out.
`KeepHonoured` needs the same for the reaper, which deletes by name: between its List
and its Delete no other run of that Pod can replace the runner, so what it deletes
is still the old one, or nothing.

`OwnedGoesWithOwner` rests on three facts that need no fairness. What runs of a
named Pod create is owned by it, so that all that is left belongs to the
collector (`LeftToCollector`, from `Owned`). No run starts once that Pod is gone, and
those under way only go forward (`RunsEnd`: `StepsLeft` of where a run is goes down at
each of its moves, from twelve), so the creating comes to an end. And after
that nothing is made again, nor taken off its way out (`GoneForGood`). That
collector, kubelet and runs do move is fairness.

**The stream loop.** The messages in the channel are the last to have arrived, in
order, and the one in hand is the one before them (`InOrder`, `InHand`); what was
executed was replied to but for that one (`Answers`).

`StreamRunsOut`: `LoopLeft` counts four steps for a message that was not taken and
those from where Stream is; every step of Stream leaves fewer, and none of the
SDK's more. What keeps a cancelled Stream from returning can only be that it is not
run, and in `Process`, which is one step here, that an action goes on, for which
there is `ActionsRunOut`, or that a call does not return.

**The actions.** `Counted` says how many calls have been made at each point, `Replies`
what kinds of result lead there, `Answered` which page each call asked for,
`ChainSoFar` that the items gathered form a
chain which the cursor continues.

`ResultAgrees` compares two readings of one result: where the adapter finds a
payload (`PayloadOf`) and what it rewrites (`Rewrite`). `PayloadKept` says that what
is reported is the rewriting of a result that has a payload; the rest is about
those two functions. What both look for is the first of something: a selection
from a sequence is empty just if there is nothing to select, and otherwise its
head is the element at the least place of all (`ForemostIsFirst`). So the part
that was rewritten is the one that is read.

`ActionsRunOut` is a variant: `StepsLeft` counts down at every step of an action
but one, the context's expiry, which leaves it as it is and happens once. No graph
of cursors, no row of failures makes an action take more than
`3 * Retries + 2 * MaxPages + 4` steps. With the fairness of the goroutine and the
return of its calls, which TLC adds, an action ends.

**The two together.** Every step of `MessageRun` is a step or a stutter of each part
(`LoopStep`, `ToolStep`), so the invariants carry over; `WorksOnMessage`, an action
under way belongs to the message in hand, is what relates them.

**Ensure.** `VersionsIdentify`: a version names one state of its object for ever, so an
update accepted under it replaces what was read. That gives both
`NoBlindOverwrite` and the refinement, in which the write is the step of `Upsert`
and the read none. `Undisturbed` follows a lone call through its four steps; at the
last one the Deployment is in place, and whether the Service is accepted depends on
its type and the IP it has or is to have (`GivenIp`).

**The fetcher.** `Hands`: what a worker holds was drawn, is not settled, and is held by
no other. `NothingLost` needs that two different servers have different keys,
which makes the de-duplication lose none.

`RecordsAreSaved` adds what is true of every table. A cache that comes up is
`Sound`: an entry is absent, or fits its node (`Fits`: it is what the node is, or for an
index map a record that has every text the table says), or is the undefined of a
node being resolved. No reference meets a text in that state, since nothing is
followed while a text is resolved. `Gets` says of a function that it resolves any
reference in a sound cache that misses `n` entries at the most: the cache after
it is sound, has kept the entries it had, and has one for the reference
(`Grows`). Then references followed in turn are all resolved (`FollowResolves`), a
node whose references are resolved is decoded as fits (`DecodeFits`), and what
resolves with `n` missing lets `Resolve` do so with `n + 1`, because a node that is
marked is missing no longer (`ResolveOne`). By induction over the depth a table of
any length is resolved (`GetResolves`, `DecodedFits`), so the depth at which
`GetFromTable` stops is never felt; a record that says title and URL is listed
(`ListsRecords`), and `NothingLost` does the rest (`RecordsLost`).

`Completes` needs two things besides fairness. `NeverStuck`: until the catalogue is
saved, something is always next. Its one difficult case is the order in which
the workers start: `MyTurn` is asked of the new worker with the least number,
which exists, and once there are none every worker still going is waiting or may
move. `FetcherRunsOut`: pages are fetched one by one up to `Pages`; then every step
draws a server, brings an answer or ends a worker, and `WorkLeft` counts these.

**Selections, and induction.** The induction theorems of the library take an
operator as a parameter, which none of the provers at hand can instantiate. What
`SelectionProofs` does instead is to speak of sets: a set of naturals that is not
empty has a least element (`LeastElement`, from `WFMin`), hence one that has 0 and
`n + 1` with every `n` has all (`Induction`), hence one of sequences that has `<<>>`
and is closed under `Append` has all (`SequenceInduction`). Lemmas about `Select` are
shown by such sets: that its recursion has a solution (`PicksExist`,
`PicksAgree`), that it selects as a sequence grows (`SelectAppend`), what it
returns (`SelectType`, `SelectNothing`, `SelectFirst`). The recursions of `PageTable` are
treated so in `CatalogFetchProofs` (`FollowsExist`, `DeepensExist`).

Initial states satisfy each invariant; the step is proved a conjunct at a time,
by cases on the actions that can disturb it.

Only model-checked:

- All liveness with the fairness in it (`CallsReturn`, `OwnedGoesWithOwner`,
  `CancelEnds`, `ArrivedIsSettled`, `Completes`, and the fair part of `KeepsLoop`, of
  which `RunIsLoop` proves the rest): it takes `ENABLED`, which the prover does not
  have. Of most the parts without fairness are proved: of `Completes` `NeverStuck`
  and `FetcherRunsOut`, of the end of an action in `KeepsLoop` `ActionsRunOut`, of
  `CancelEnds` `StreamRunsOut`, of `OwnedGoesWithOwner` `LeftToCollector`, `RunsEnd` and
  `GoneForGood`. That an HTTP call past its deadline returns is not a property of a
  run: it would restate what is assumed of `net/http`; `LateCallsBounded` is what
  the client adds to it.

Every invariant that a run checks is stated by a theorem.

## 5. Not modelled

- In the fetcher, the fields of a server besides its title and URL, which are
  copied, and `normalizeTool`: pure functions on data whose format is the web
  site's.
- The catalogue generator, configuration and secrets, logging: sequential data
  handling with no protocol. `selection.go` has no caller.
- How an MCP error is told to be transient, by codes and words: the outcome is a
  choice of `ToolCall`.
- Within the modelled parts: the content of messages and Pod specs, labels,
  resources, security contexts, metrics and log lines; durations, except that a
  deadline may pass at any time; two runners of different names, which share
  nothing.

## 6. Plan

Done: `McpClient`, both transports, `RunnerLifecycle`, `StreamLoop`, `ToolCall` with
`Normalize` and `JsonPath`, their composition `MessageRun`, `EnsureObjects`,
`CatalogFetch` with `PageTable`, and the safety proofs of all of them.
Left, in this order:

1. For `RunnerLifecycle`, a property of a runner that is reaped and adopted while
   it terminates, and one of the reaper's Delete between overlapping runs, once the
   code says what it means to promise there.
2. `ToolCall` over `StdioTransport` in one state machine, to bound how often a
   message's tool is executed across retries, attempts and redelivery.
3. The transient-error classifier, as a function over a small grammar of
   payloads.
4. Proofs: the steps a call over stdio has left when its context lives
   (`CallsReturn`).
