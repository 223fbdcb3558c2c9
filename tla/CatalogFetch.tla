---------------------------- MODULE CatalogFetch ----------------------------
(***************************************************************************)
(* src/fetcher.js: the pages of the catalogue are fetched one by one, the  *)
(* servers they name are listed, and a pool of asynchronous workers, which *)
(* share one index into that list, fetches the tools of each.  Then the    *)
(* results are written.                                                    *)
(*                                                                         *)
(* JavaScript runs one worker at a time, from one await to the next: that  *)
(* is one action.  The web server is outside: a page or a request for      *)
(* tools may fail.                                                         *)
(***************************************************************************)
EXTENDS Naturals, Sequences, FiniteSets

CONSTANTS
  Urls,      \* URLs of tools
  Titles,    \* titles of servers, in their order
  FileName,  \* per URL: the name of its file, the title of a stub
  Blobs,     \* what a page may be, see PageBlob
  Pages,     \* --from to --to, numbered from 1
  CONC       \* the workers

NoUrl == "none"

(* A server, by what tells it from others.                                 *)
Server == [url : Urls \cup {NoUrl}, title : Titles]

(* A page: does it parse, and what servers are in it if so; and what URLs  *)
(* its text holds.                                                         *)
PageBlob == [parses : BOOLEAN, servers : SUBSET Server, urls : SUBSET Urls]

ASSUME CatalogAssumption ==
  /\ Titles \subseteq Nat /\ FileName \in [Urls -> Titles]
  /\ NoUrl \notin Urls /\ IsFiniteSet(Server)
  /\ Blobs \subseteq PageBlob
  /\ Pages \in Nat /\ CONC \in Nat \ {0}

Workers == 1 .. CONC

VARIABLES
  page,     \* the page to fetch next
  blobs,    \* the pages that came
  servers,  \* the list of servers
  idx,      \* the number of the next one to draw
  hand,     \* per worker: the number of the server it has drawn
  state,    \* per worker: "new", "fetching", "resting" or "ended"
  results,  \* numbers of servers in the order their results came
  errors,   \* numbers of servers whose tools could not be fetched
  phase     \* "listing", "working" or "saved"

pageVars == <<page, blobs>>
poolVars == <<idx, hand, state, results, errors>>
vars == <<pageVars, servers, poolVars, phase>>

Init ==
  /\ page = 1 /\ blobs = <<>> /\ servers = <<>>
  /\ idx = 1 /\ hand = [w \in Workers |-> 0] /\ state = [w \in Workers |-> "new"]
  /\ results = <<>> /\ errors = <<>> /\ phase = "listing"

SeqRange(s) == {s[k] : k \in DOMAIN s}

-----------------------------------------------------------------------------
(* Mutants: duplicates recognised by the title alone; stubs only if no     *)
(* server was parsed; an index advanced after the fetch; a worker that     *)
(* does not catch the error; results written when the first worker ends.   *)
TitleOnly(s) == s.title
StubsIfNone(listed, found) ==
  IF listed = {} THEN {[url |-> u, title |-> FileName[u]] : u \in found} ELSE {}
AdvanceLater(k) == k
Rejected == "rejected"
FirstEnded == \E w \in Workers : state[w] = "ended"

-----------------------------------------------------------------------------
(* Listing.                                                                *)

FetchPage ==
  /\ phase = "listing" /\ page <= Pages
  /\ page' = page + 1
  /\ \/ \E b \in Blobs : blobs' = Append(blobs, b)
     \/ UNCHANGED blobs
  /\ UNCHANGED <<servers, poolVars, phase>>

(* Servers of the pages that parse.                                        *)
Parsed(bs) == UNION {b.servers : b \in {x \in SeqRange(bs) : x.parses}}

Discovered(bs) == UNION {b.urls : b \in SeqRange(bs)}

(* A stub for each URL of which no server was parsed.                      *)
Stubs(listed, found) ==
  {[url |-> u, title |-> FileName[u]] : u \in found \ {s.url : s \in listed}}

(* The key servers are de-duplicated by, and the first of each key.        *)
Key(s) == <<s.url, s.title>>

Kept(candidates) ==
  {s \in candidates : s = CHOOSE t \in candidates : Key(t) = Key(s)}

(* By title; servers of one title stay in the order they were found.       *)
Sorted(kept) ==
  {list \in [1 .. Cardinality(kept) -> kept] :
     /\ SeqRange(list) = kept
     /\ \A j, k \in DOMAIN list : j < k => list[j].title <= list[k].title}

List ==
  /\ phase = "listing" /\ page > Pages
  /\ LET listed == Parsed(blobs)
     IN  servers' \in Sorted(Kept(listed \cup Stubs(listed, Discovered(blobs))))
  /\ phase' = "working"
  /\ UNCHANGED <<pageVars, poolVars>>

-----------------------------------------------------------------------------
(* The pool.                                                               *)

(* All workers run to their first await, in turn, before anything else.    *)
MyTurn(w) ==
  IF state[w] = "new" THEN \A v \in 1 .. w - 1 : state[v] # "new"
  ELSE state[w] = "resting" /\ \A v \in Workers : state[v] # "new"

Advanced(k) == k + 1

(* The next server; without a URL there is nothing to fetch.               *)
Draw(w) ==
  /\ phase = "working" /\ MyTurn(w) /\ idx <= Len(servers)
  /\ idx' = Advanced(idx)
  /\ hand' = [hand EXCEPT ![w] = idx]
  /\ IF servers[idx].url # NoUrl
     THEN state' = [state EXCEPT ![w] = "fetching"] /\ UNCHANGED results
     ELSE /\ results' = Append(results, idx)
          /\ state' = [state EXCEPT ![w] = "resting"]
  /\ UNCHANGED <<pageVars, servers, errors, phase>>

EndWorker(w) ==
  /\ phase = "working" /\ MyTurn(w) /\ idx > Len(servers)
  /\ state' = [state EXCEPT ![w] = "ended"]
  /\ UNCHANGED <<pageVars, servers, idx, hand, results, errors, phase>>

Awaits(w) == state[w] = "fetching" /\ \A v \in Workers : state[v] # "new"

Tools(w) ==
  /\ Awaits(w)
  /\ results' = Append(results, hand[w])
  /\ state' = [state EXCEPT ![w] = "resting"]
  /\ UNCHANGED <<pageVars, servers, idx, hand, errors, phase>>

Caught == "resting"

NoTools(w) ==
  /\ Awaits(w)
  /\ errors' = Append(errors, hand[w])
  /\ state' = [state EXCEPT ![w] = Caught]
  /\ UNCHANGED <<pageVars, servers, idx, hand, results, phase>>

AllEnded == \A w \in Workers : state[w] = "ended"

Save ==
  /\ phase = "working" /\ AllEnded
  /\ phase' = "saved"
  /\ UNCHANGED <<pageVars, servers, poolVars>>

-----------------------------------------------------------------------------
Work(w) == Draw(w) \/ EndWorker(w) \/ Tools(w) \/ NoTools(w)

Next == FetchPage \/ List \/ Save \/ \E w \in Workers : Work(w)

(* Timers fire, and requests are answered or fail.                         *)
Spec == Init /\ [][Next]_vars /\ WF_vars(Next)

-----------------------------------------------------------------------------
Settled == SeqRange(results) \cup SeqRange(errors)

Fetching == {w \in Workers : state[w] = "fetching"}

(* Every variable keeps to its range.                                      *)
TypeOK ==
  /\ page \in 1 .. Pages + 1 /\ blobs \in Seq(Blobs)
  /\ servers \in Seq(Server) /\ idx \in 1 .. Len(servers) + 1
  /\ hand \in [Workers -> 0 .. Len(servers)]
  /\ state \in [Workers -> {"new", "fetching", "resting", "ended"}]
  /\ results \in Seq(1 .. Len(servers)) /\ errors \in Seq(1 .. Len(servers))
  /\ phase \in {"listing", "working", "saved"}

(* A server drawn is in the hand of one worker, or in the results or the   *)
(* errors, in one place only and there once, though the workers share the  *)
(* index and the lists across their awaits (fetcher.js:354-378).           *)
InOnePlace ==
  /\ Settled \cup {hand[w] : w \in Fetching} = 1 .. idx - 1
  /\ Len(results) + Len(errors) + Cardinality(Fetching) = idx - 1

(* What is saved leaves out no server of a page that could be parsed, and  *)
(* no URL of a page that came: each has a result or an error of its own    *)
(* (fetcher.js:300-344, 381).                                              *)
NothingLost ==
  phase = "saved" =>
    LET saved == {servers[k] : k \in Settled} IN
    /\ Parsed(blobs) \subseteq saved
    /\ Discovered(blobs) \subseteq {s.url : s \in saved}

(* The fetcher keeps the promise of WorkPool.                              *)
Pool == INSTANCE WorkPool WITH total <- Len(servers), settled <- Settled

(* Whatever the workers do in which order, the servers are settled one by  *)
(* one, none again, and nothing is saved before the last one is            *)
(* (fetcher.js:354-386).                                                   *)
KeepsPool == Pool!Spec

(* Pages and requests that fail do not keep the rest from being saved      *)
(* (fetcher.js:280, 375).                                                  *)
Completes == <>(phase = "saved")
=============================================================================
