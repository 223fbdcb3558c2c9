------------------------- MODULE CatalogFetchProofs -------------------------
(***************************************************************************)
(* Safety of the catalogue fetcher for any number of pages and workers,    *)
(* any servers on the pages, and every order of the workers' awaits; and,  *)
(* for any tables of nodes in the pages, that their records are listed.    *)
(* The invariant locates each server drawn, and relates the list of        *)
(* servers to the pages it was made of.                                    *)
(***************************************************************************)
EXTENDS CatalogPages, FiniteSetTheorems, SelectionProofs, TLAPS

(* Before the list is made the pool has not begun.                         *)
NotBegun ==
  phase = "listing" =>
    /\ idx = 1 /\ servers = <<>> /\ results = <<>> /\ errors = <<>>
    /\ \A w \in Workers : state[w] = "new"

(* What is in a worker's hand is drawn, not settled, and in no other's.    *)
Hands ==
  /\ \A w \in Fetching : hand[w] \in (1 .. idx - 1) \ Settled
  /\ \A v, w \in Fetching : hand[v] = hand[w] => v = w

(* A worker ends when the list is exhausted, and all have when it is saved. *)
Ends ==
  /\ \A w \in Workers : state[w] = "ended" => idx = Len(servers) + 1
  /\ phase = "saved" => AllEnded

(* What is on the pages is in the list.                                    *)
Wanted == Parsed(blobs) \cup Stubs(Parsed(blobs), Discovered(blobs))

Listed == phase # "listing" => SeqRange(servers) = Wanted

PoolInv == TypeOK /\ NotBegun /\ Hands /\ Ends /\ InOnePlace

-----------------------------------------------------------------------------
(* The elements of a sequence with one more at its end.                    *)
LEMMA RangeAppend ==
  ASSUME NEW S, NEW s \in Seq(S), NEW e \in S
  PROVE  SeqRange(Append(s, e)) = SeqRange(s) \cup {e}
<1> DEFINE t == Append(s, e)
<1>1. /\ t \in Seq(S) /\ Len(t) = Len(s) + 1 /\ t[Len(s) + 1] = e
      /\ \A k \in 1 .. Len(s) : t[k] = s[k]
  OBVIOUS
<1>2. DOMAIN t = 1 .. Len(s) + 1 /\ DOMAIN s = 1 .. Len(s) /\ Len(s) \in Nat
  BY <1>1
<1> HIDE DEF t
<1>3. QED
  BY <1>1, <1>2 DEF SeqRange, t

(* Servers found on pages are servers, and there are finitely many.        *)
LEMMA WantedServers ==
  ASSUME blobs \in Seq(Blobs)
  PROVE  Wanted \subseteq Server
<1>1. \A b \in SeqRange(blobs) : b \in PageBlob
  BY CatalogAssumption DEF SeqRange
<1>2. Parsed(blobs) \subseteq Server
  BY <1>1 DEF Parsed, PageBlob
<1>3. Discovered(blobs) \subseteq Urls
  BY <1>1 DEF Discovered, PageBlob
<1>4. Stubs(Parsed(blobs), Discovered(blobs)) \subseteq Server
  BY <1>3, CatalogAssumption DEF Stubs, Server
<1>5. QED
  BY <1>2, <1>4 DEF Wanted

(* Two servers that differ have different keys: none is taken for another. *)
LEMMA KeepsAll ==
  ASSUME NEW C \in SUBSET Server
  PROVE  Kept(C) = C
<1>1. ASSUME NEW s \in C, NEW t \in C, Key(t) = Key(s) PROVE t = s
  BY <1>1 DEF Key, Server
<1>2. ASSUME NEW s \in C PROVE s = CHOOSE t \in C : Key(t) = Key(s)
  BY <1>1
<1>3. QED
  BY <1>2 DEF Kept

(* Sorting keeps what there is.                                            *)
LEMMA SortKeeps ==
  ASSUME NEW C \in SUBSET Server, NEW list \in Sorted(C)
  PROVE  list \in Seq(Server) /\ SeqRange(list) = C
<1>1. IsFiniteSet(C)
  BY FS_Subset, CatalogAssumption
<1>2. Cardinality(C) \in Nat
  BY <1>1, FS_CardinalityType
<1>3. list \in [1 .. Cardinality(C) -> C] /\ SeqRange(list) = C
  BY DEF Sorted
<1>4. QED
  BY <1>2, <1>3

(* The list is made of what the pages named, and of all of it.             *)
LEMMA ListStep ==
  ASSUME TypeOK, List
  PROVE  servers' \in Seq(Server) /\ SeqRange(servers') = Wanted
<1>1. Wanted \subseteq Server /\ Kept(Wanted) = Wanted
  BY WantedServers, KeepsAll DEF TypeOK
<1>2. servers' \in Sorted(Wanted)
  BY <1>1 DEF List, Wanted
<1>3. QED
  BY <1>1, <1>2, SortKeeps

-----------------------------------------------------------------------------
(* The initial states satisfy the invariant.                               *)
LEMMA InitPoolInv == Init => PoolInv /\ Listed
<1> SUFFICES ASSUME Init PROVE PoolInv /\ Listed
  OBVIOUS
<1> USE CatalogAssumption DEF Init
<1>1. Len(servers) = 0 /\ Settled = {} /\ Fetching = {}
  BY DEF Settled, SeqRange, Fetching
<1>2. TypeOK
  BY <1>1 DEF TypeOK
<1>3. Cardinality(Fetching) = 0
  BY <1>1, FS_EmptySet
<1>4. InOnePlace
  BY <1>1, <1>3 DEF InOnePlace
<1>5. NotBegun /\ Hands /\ Ends /\ Listed
  BY <1>1 DEF NotBegun, Hands, Ends, Listed
<1>6. QED
  BY <1>2, <1>4, <1>5 DEF PoolInv

(* Type correctness.                                                       *)
LEMMA TypeStep ==
  ASSUME TypeOK, NotBegun, Hands, [Next]_vars
  PROVE  TypeOK'
<1> USE CatalogAssumption DEF TypeOK
<1>1. CASE FetchPage
  <2>1. blobs' \in Seq(Blobs)
    <3>1. CASE UNCHANGED blobs
      BY <3>1
    <3>2. ASSUME NEW b \in Blobs, blobs' = Append(blobs, b) PROVE blobs' \in Seq(Blobs)
      BY <3>2
    <3>3. QED
      BY <1>1, <3>1, <3>2 DEF FetchPage
  <2>2. page' \in 1 .. Pages + 1
    BY <1>1 DEF FetchPage
  <2>3. QED
    BY <1>1, <2>1, <2>2 DEF FetchPage, poolVars
<1>2. CASE List
  <2>1. servers' \in Seq(Server) /\ Len(servers') \in Nat
    BY <1>2, ListStep
  <2>2. /\ idx = 1 /\ results = <<>> /\ errors = <<>> /\ servers = <<>>
        /\ phase' = "working" /\ UNCHANGED <<page, blobs, idx, hand, state, results, errors>>
    BY <1>2 DEF List, NotBegun, pageVars, poolVars
  <2>3. hand \in [Workers -> 0 .. Len(servers')]
    <3>1. \A w \in Workers : hand[w] \in 0 .. 0
      BY <2>2
    <3>2. QED
      BY <2>1, <3>1
  <2>4. QED
    BY <2>1, <2>2, <2>3
<1>3. ASSUME NEW w \in Workers, Draw(w) PROVE TypeOK'
  <2>1. idx \in 1 .. Len(servers) /\ Len(servers) \in Nat
    BY <1>3 DEF Draw
  <2>2. Append(results, idx) \in Seq(1 .. Len(servers))
    BY <2>1
  <2>3. idx' \in 1 .. Len(servers) + 1 /\ hand' \in [Workers -> 0 .. Len(servers)]
    BY <1>3, <2>1 DEF Draw, Advanced
  <2>4. /\ state' \in [Workers -> {"new", "fetching", "resting", "ended"}]
        /\ results' \in {results, Append(results, idx)}
        /\ UNCHANGED <<page, blobs, servers, errors, phase>>
    BY <1>3 DEF Draw, pageVars
  <2>5. QED
    BY <2>2, <2>3, <2>4
<1>4. ASSUME NEW w \in Workers, EndWorker(w) PROVE TypeOK'
  BY <1>4 DEF EndWorker, pageVars
<1>5. ASSUME NEW w \in Workers, Tools(w) \/ NoTools(w) PROVE TypeOK'
  <2>1. hand[w] \in 1 .. Len(servers)
    <3>1. hand[w] \in 1 .. idx - 1 /\ Len(servers) \in Nat
      BY <1>5 DEF Hands, Fetching, Tools, NoTools, Awaits
    <3>2. QED
      BY <3>1
  <2>2. /\ Append(results, hand[w]) \in Seq(1 .. Len(servers))
        /\ Append(errors, hand[w]) \in Seq(1 .. Len(servers))
    BY <2>1
  <2>3. /\ state' \in [Workers -> {"new", "fetching", "resting", "ended"}]
        /\ results' \in {results, Append(results, hand[w])}
        /\ errors' \in {errors, Append(errors, hand[w])}
        /\ UNCHANGED <<page, blobs, servers, idx, hand, phase>>
    BY <1>5 DEF Tools, NoTools, Caught, pageVars
  <2>4. QED
    BY <2>2, <2>3
<1>6. CASE Save \/ UNCHANGED vars
  BY <1>6 DEF Save, vars, pageVars, poolVars
<1>7. QED
  BY <1>1, <1>2, <1>3, <1>4, <1>5, <1>6 DEF Next, Work

-----------------------------------------------------------------------------
(* What the steps of the pool do to where the servers are.                 *)
LEMMA DrawEffect ==
  ASSUME TypeOK, NEW w \in Workers, Draw(w)
  PROVE  /\ idx \in 1 .. Len(servers) /\ idx' = idx + 1 /\ w \notin Fetching
         /\ hand' = [hand EXCEPT ![w] = idx] /\ UNCHANGED <<servers, errors, phase>>
         /\ \/ /\ Fetching' = Fetching \cup {w} /\ Settled' = Settled
               /\ results' = results
            \/ /\ Fetching' = Fetching /\ Settled' = Settled \cup {idx}
               /\ Len(results') = Len(results) + 1
<1>1. /\ idx \in 1 .. Len(servers) /\ idx' = idx + 1 /\ w \notin Fetching
      /\ hand' = [hand EXCEPT ![w] = idx] /\ UNCHANGED <<servers, errors, phase>>
  BY DEF TypeOK, Draw, Advanced, Fetching, MyTurn
<1>2. CASE servers[idx].url # NoUrl
  <2>1. state' = [state EXCEPT ![w] = "fetching"] /\ results' = results
    BY <1>2 DEF Draw
  <2>2. Fetching' = Fetching \cup {w}
    BY <2>1 DEF Fetching, TypeOK
  <2>3. Settled' = Settled
    BY <1>1, <2>1 DEF Settled, SeqRange
  <2>4. QED
    BY <1>1, <2>1, <2>2, <2>3
<1>3. CASE servers[idx].url = NoUrl
  <2>1. state' = [state EXCEPT ![w] = "resting"] /\ results' = Append(results, idx)
    BY <1>3 DEF Draw
  <2>2. Fetching' = Fetching
    BY <1>1, <2>1 DEF Fetching, TypeOK
  <2>3. SeqRange(results') = SeqRange(results) \cup {idx}
    <3>1. results \in Seq(1 .. Len(servers))
      BY DEF TypeOK
    <3>2. SeqRange(Append(results, idx)) = SeqRange(results) \cup {idx}
      BY <1>1, <3>1, RangeAppend
    <3>3. QED
      BY <2>1, <3>2
  <2>4. Settled' = Settled \cup {idx}
    BY <1>1, <2>3 DEF Settled, SeqRange
  <2>5. Len(results') = Len(results) + 1
    BY <1>1, <2>1 DEF TypeOK
  <2>6. QED
    BY <1>1, <2>2, <2>4, <2>5
<1>4. QED
  BY <1>2, <1>3

(* What an answer, good or bad, does to the pool.                          *)
LEMMA AnswerEffect ==
  ASSUME TypeOK, Hands, NEW w \in Workers, Tools(w) \/ NoTools(w)
  PROVE  /\ w \in Fetching /\ Fetching' = Fetching \ {w}
         /\ Settled' = Settled \cup {hand[w]}
         /\ Len(results') + Len(errors') = Len(results) + Len(errors) + 1
         /\ UNCHANGED <<servers, idx, hand, phase>>
<1>1. /\ w \in Fetching /\ state' = [state EXCEPT ![w] = "resting"]
      /\ UNCHANGED <<servers, idx, hand, phase>>
  BY DEF Tools, NoTools, Caught, Awaits, Fetching
<1>2. Fetching' = Fetching \ {w}
  BY <1>1 DEF Fetching, TypeOK
<1>3. hand[w] \in 1 .. Len(servers)
  <2>1. hand[w] \in 1 .. idx - 1
    BY <1>1 DEF Hands
  <2>2. QED
    BY <2>1 DEF TypeOK
<1>4. CASE Tools(w)
  <2>1. results' = Append(results, hand[w]) /\ errors' = errors
    BY <1>4 DEF Tools
  <2>2. SeqRange(results') = SeqRange(results) \cup {hand[w]}
    <3>1. results \in Seq(1 .. Len(servers))
      BY DEF TypeOK
    <3>2. SeqRange(Append(results, hand[w])) = SeqRange(results) \cup {hand[w]}
      BY <1>3, <3>1, RangeAppend
    <3>3. QED
      BY <2>1, <3>2
  <2>3. Len(results') = Len(results) + 1 /\ Len(results) \in Nat /\ Len(errors) \in Nat
    BY <1>3, <2>1 DEF TypeOK
  <2>4. Settled' = Settled \cup {hand[w]}
    BY <2>1, <2>2 DEF Settled, SeqRange
  <2>5. QED
    BY <1>1, <1>2, <2>1, <2>3, <2>4
<1>5. CASE NoTools(w)
  <2>1. errors' = Append(errors, hand[w]) /\ results' = results
    BY <1>5 DEF NoTools
  <2>2. SeqRange(errors') = SeqRange(errors) \cup {hand[w]}
    <3>1. errors \in Seq(1 .. Len(servers))
      BY DEF TypeOK
    <3>2. SeqRange(Append(errors, hand[w])) = SeqRange(errors) \cup {hand[w]}
      BY <1>3, <3>1, RangeAppend
    <3>3. QED
      BY <2>1, <3>2
  <2>3. Len(errors') = Len(errors) + 1 /\ Len(results) \in Nat /\ Len(errors) \in Nat
    BY <1>3, <2>1 DEF TypeOK
  <2>4. Settled' = Settled \cup {hand[w]}
    BY <2>1, <2>2 DEF Settled, SeqRange
  <2>5. QED
    BY <1>1, <1>2, <2>1, <2>3, <2>4
<1>6. QED
  BY <1>4, <1>5

(* What the steps that settle nothing leave alone.                         *)
LEMMA OtherEffect ==
  ASSUME TypeOK,
         \/ FetchPage \/ List \/ Save \/ UNCHANGED vars
         \/ \E w \in Workers : EndWorker(w)
  PROVE  UNCHANGED <<idx, hand, results, errors, Settled, Fetching>>
<1>1. UNCHANGED <<idx, hand, results, errors>>
  BY DEF FetchPage, List, Save, EndWorker, vars, poolVars
<1>2. Fetching' = Fetching
  BY DEF FetchPage, List, Save, EndWorker, MyTurn, vars, poolVars, Fetching, TypeOK
<1>3. QED
  BY <1>1, <1>2 DEF Settled, SeqRange

(* Every step of the fetcher has one of these effects.                     *)
LEMMA Effects ==
  ASSUME [Next]_vars
  PROVE  \/ \E w \in Workers : Draw(w)
         \/ \E w \in Workers : Tools(w) \/ NoTools(w)
         \/ FetchPage \/ List \/ Save \/ UNCHANGED vars
         \/ \E w \in Workers : EndWorker(w)
BY DEF Next, Work

-----------------------------------------------------------------------------
(* Only servers that were drawn are settled.                               *)
LEMMA SettledDrawn == ASSUME TypeOK, InOnePlace PROVE Settled \subseteq 1 .. idx - 1
BY DEF InOnePlace

(* Hands is inductive.                                                     *)
LEMMA HandsStep ==
  ASSUME TypeOK, Hands, InOnePlace, [Next]_vars
  PROVE  Hands'
<1>1. idx \in Nat /\ hand \in [Workers -> Nat] /\ Settled \subseteq 1 .. idx - 1
      /\ Fetching \subseteq Workers
  BY SettledDrawn DEF TypeOK, Fetching
<1>2. ASSUME NEW w \in Workers, Draw(w) PROVE Hands'
  <2>1. \A v \in Fetching : hand[v] < idx /\ hand[v] # idx /\ v # w
    BY <1>1, <1>2, DrawEffect DEF Hands
  <2>2. \A v \in Fetching : hand'[v] = hand[v]
    BY <1>1, <1>2, <2>1, DrawEffect
  <2>3. hand'[w] = idx /\ idx' = idx + 1 /\ idx \notin Settled /\ idx >= 1
    BY <1>1, <1>2, DrawEffect DEF TypeOK
  <2>4. CASE Fetching' = Fetching \cup {w} /\ Settled' = Settled
    BY <1>1, <2>1, <2>2, <2>3, <2>4 DEF Hands
  <2>5. CASE Fetching' = Fetching /\ Settled' = Settled \cup {idx}
    BY <1>1, <2>1, <2>2, <2>3, <2>5 DEF Hands
  <2>6. QED
    BY <1>2, <2>4, <2>5, DrawEffect
<1>3. ASSUME NEW w \in Workers, Tools(w) \/ NoTools(w) PROVE Hands'
  BY <1>3, AnswerEffect DEF Hands
<1>4. ASSUME UNCHANGED <<idx, hand, results, errors, Settled, Fetching>> PROVE Hands'
  BY <1>4 DEF Hands
<1>5. QED
  BY <1>2, <1>3, <1>4, Effects, OtherEffect

(* InOnePlace is inductive.                                                *)
LEMMA InOnePlaceStep ==
  ASSUME TypeOK, Hands, InOnePlace, [Next]_vars
  PROVE  InOnePlace'
<1> DEFINE Held == {hand[w] : w \in Fetching}
<1>1. /\ idx \in Nat \ {0} /\ Len(results) \in Nat /\ Len(errors) \in Nat
      /\ Fetching \subseteq Workers /\ hand \in [Workers -> Nat]
  BY DEF TypeOK, Fetching
<1>2. IsFiniteSet(Fetching) /\ Cardinality(Fetching) \in Nat
  <2>1. IsFiniteSet(1 .. CONC)
    BY CatalogAssumption, FS_Interval
  <2>2. IsFiniteSet(Fetching)
    BY <1>1, <2>1, FS_Subset DEF Workers
  <2>3. QED
    BY <2>2, FS_CardinalityType
<1>3. /\ Settled \cup Held = 1 .. idx - 1
      /\ Len(results) + Len(errors) + Cardinality(Fetching) = idx - 1
  BY DEF InOnePlace
<1>4. ASSUME NEW w \in Workers, Draw(w) PROVE InOnePlace'
  <2>1. /\ \A v \in Fetching : hand'[v] = hand[v]
        /\ hand'[w] = idx /\ idx' = idx + 1 /\ errors' = errors
    BY <1>1, <1>4, DrawEffect
  <2>2. 1 .. idx' - 1 = (1 .. idx - 1) \cup {idx}
    BY <1>1, <2>1
  <2>3. CASE Fetching' = Fetching \cup {w} /\ Settled' = Settled /\ results' = results
    <3>1. Cardinality(Fetching') = Cardinality(Fetching) + 1
      BY <1>2, <1>4, <2>3, DrawEffect, FS_AddElement
    <3>2. Held' = Held \cup {idx}
      BY <2>1, <2>3
    <3>3. Settled' \cup Held' = 1 .. idx' - 1
      BY <1>3, <2>2, <2>3, <3>2
    <3>4. Len(results') + Len(errors') + Cardinality(Fetching') = idx' - 1
      BY <1>1, <1>2, <1>3, <2>1, <2>3, <3>1
    <3>5. QED
      BY <3>3, <3>4 DEF InOnePlace
  <2>4. CASE /\ Fetching' = Fetching /\ Settled' = Settled \cup {idx}
             /\ Len(results') = Len(results) + 1
    <3>1. Held' = Held
      BY <2>1, <2>4
    <3>2. Settled' \cup Held' = 1 .. idx' - 1
      BY <1>3, <2>2, <2>4, <3>1
    <3>3. Len(results') + Len(errors') + Cardinality(Fetching') = idx' - 1
      BY <1>1, <1>2, <1>3, <2>1, <2>4
    <3>4. QED
      BY <3>2, <3>3 DEF InOnePlace
  <2>5. QED
    BY <1>4, <2>3, <2>4, DrawEffect
<1>5. ASSUME NEW w \in Workers, Tools(w) \/ NoTools(w) PROVE InOnePlace'
  <2>1. /\ w \in Fetching /\ Fetching' = Fetching \ {w}
        /\ Settled' = Settled \cup {hand[w]}
        /\ Len(results') + Len(errors') = Len(results) + Len(errors) + 1
        /\ UNCHANGED <<servers, idx, hand>>
    BY <1>5, AnswerEffect
  <2>2. Cardinality(Fetching') = Cardinality(Fetching) - 1
    BY <1>2, <2>1, FS_RemoveElement
  <2>3. Settled' \cup Held' = Settled \cup Held
    BY <2>1
  <2>4. QED
    <3>1. (Len(results) + Len(errors) + 1) + (Cardinality(Fetching) - 1) = idx - 1
      BY <1>1, <1>2, <1>3
    <3>2. QED
      BY <1>3, <2>1, <2>2, <2>3, <3>1 DEF InOnePlace
<1>6. ASSUME UNCHANGED <<idx, hand, results, errors, Settled, Fetching>> PROVE InOnePlace'
  BY <1>6 DEF InOnePlace
<1>7. QED
  BY <1>4, <1>5, <1>6, Effects, OtherEffect

(* The phases.                                                             *)
LEMMA PhaseStep ==
  ASSUME TypeOK, NotBegun, Ends, [Next]_vars
  PROVE  NotBegun' /\ Ends'
<1>1. NotBegun'
  <2>1. CASE FetchPage \/ UNCHANGED vars
    BY <2>1 DEF NotBegun, FetchPage, vars, poolVars
  <2>2. ASSUME NEW w \in Workers, Tools(w) \/ NoTools(w) PROVE NotBegun'
    <3>1. state[w] = "fetching" /\ phase' = phase
      BY <2>2 DEF Tools, NoTools, Awaits
    <3>2. QED
      BY <3>1 DEF NotBegun
  <2>3. CASE List \/ Save \/ \E w \in Workers : Draw(w) \/ EndWorker(w)
    BY <2>3 DEF NotBegun, List, Save, Draw, EndWorker
  <2>4. QED
    BY <2>1, <2>2, <2>3 DEF Next, Work
<1>2. Ends'
  <2> USE DEF Ends, AllEnded
  <2>1. CASE FetchPage \/ Save \/ UNCHANGED vars
    BY <2>1 DEF FetchPage, Save, vars, poolVars
  <2>2. CASE List
    BY <2>2 DEF List, poolVars, NotBegun
  <2>3. ASSUME NEW w \in Workers, Draw(w) PROVE Ends'
    <3>1. /\ idx <= Len(servers) /\ idx \in Nat /\ Len(servers) \in Nat
          /\ phase' = "working"
          /\ \E at \in {"fetching", "resting"} : state' = [state EXCEPT ![w] = at]
      BY <2>3 DEF Draw, TypeOK
    <3>2. \A v \in Workers : state[v] # "ended"
      BY <3>1
    <3>3. \A v \in Workers : state'[v] # "ended"
      BY <3>1, <3>2 DEF TypeOK
    <3>4. QED
      BY <3>1, <3>3
  <2>4. ASSUME NEW w \in Workers, EndWorker(w) PROVE Ends'
    <3>1. idx = Len(servers) + 1 /\ UNCHANGED <<idx, servers>> /\ phase' = "working"
      <4>1. Len(servers) \in Nat /\ idx \in 1 .. Len(servers) + 1
        BY DEF TypeOK
      <4>2. QED
        BY <2>4, <4>1 DEF EndWorker
    <3>2. QED
      BY <3>1
  <2>5. ASSUME NEW w \in Workers, Tools(w) \/ NoTools(w) PROVE Ends'
    <3>1. /\ state[w] = "fetching" /\ UNCHANGED <<idx, servers, phase>>
          /\ state' = [state EXCEPT ![w] = "resting"]
      BY <2>5 DEF Tools, NoTools, Awaits, Caught
    <3>2. QED
      BY <3>1 DEF TypeOK
  <2>6. QED
    BY <2>1, <2>2, <2>3, <2>4, <2>5 DEF Next, Work
<1>3. QED
  BY <1>1, <1>2

(* The pages do not change after the list is made of them.                 *)
LEMMA ListedStep ==
  ASSUME TypeOK, Listed, [Next]_vars
  PROVE  Listed'
<1>1. CASE List
  <2>1. Wanted' = Wanted
    BY <1>1 DEF List, pageVars, Wanted, Parsed, Discovered, Stubs, SeqRange
  <2>2. QED
    BY <1>1, <2>1, ListStep DEF Listed, SeqRange
<1>2. CASE FetchPage
  BY <1>2 DEF FetchPage, Listed
<1>3. CASE ~ List /\ ~ FetchPage
  <2>1. UNCHANGED <<servers, blobs>> /\ (phase = "listing" => phase' = "listing")
    BY <1>3 DEF Next, Work, Draw, EndWorker, Tools, NoTools, Save, vars, pageVars
  <2>2. Wanted' = Wanted /\ SeqRange(servers)' = SeqRange(servers)
    BY <2>1 DEF Wanted, Parsed, Discovered, Stubs, SeqRange
  <2>3. QED
    BY <2>1, <2>2 DEF Listed
<1>4. QED
  BY <1>1, <1>2, <1>3

(* The invariant holds in every reachable state.                           *)
LEMMA PoolInvHolds == Spec => [](PoolInv /\ Listed)
<1>1. PoolInv /\ Listed /\ [Next]_vars => (PoolInv /\ Listed)'
  BY TypeStep, HandsStep, InOnePlaceStep, PhaseStep, ListedStep DEF PoolInv
<1>2. QED
  BY <1>1, InitPoolInv, PTL DEF Spec

-----------------------------------------------------------------------------
(* When all workers have ended every server of the list is settled.        *)
LEMMA EndedIsSettled ==
  ASSUME PoolInv, AllEnded
  PROVE  Settled = 1 .. Len(servers)
<1>1. 1 \in Workers /\ Fetching = {}
  BY CatalogAssumption DEF AllEnded, Fetching, Workers
<1>2. idx - 1 = Len(servers)
  BY <1>1 DEF PoolInv, TypeOK, Ends, AllEnded
<1>3. QED
  BY <1>1, <1>2 DEF PoolInv, InOnePlace

(* What is saved covers what is on the pages.                              *)
LEMMA SavedIsWanted == PoolInv /\ Listed => NothingLost
<1> SUFFICES ASSUME PoolInv, Listed, phase = "saved" PROVE NothingLost
  BY DEF NothingLost
<1> DEFINE saved == {servers[k] : k \in Settled}
<1>1. Settled = 1 .. Len(servers) /\ DOMAIN servers = 1 .. Len(servers)
  BY EndedIsSettled DEF PoolInv, Ends, TypeOK
<1>2. saved = Wanted
  BY <1>1 DEF Listed, SeqRange
<1>3. Parsed(blobs) \subseteq saved
  BY <1>2 DEF Wanted
<1>4. ASSUME NEW u \in Discovered(blobs) PROVE u \in {s.url : s \in saved}
  <2>1. CASE u \in {s.url : s \in Parsed(blobs)}
    BY <1>3, <2>1
  <2>2. CASE u \notin {s.url : s \in Parsed(blobs)}
    <3>1. [url |-> u, title |-> FileName[u]] \in saved
      BY <1>2, <2>2 DEF Wanted, Stubs
    <3>2. QED
      BY <3>1
  <2>3. QED
    BY <2>1, <2>2
<1>5. QED
  BY <1>3, <1>4 DEF NothingLost

(* The steps of the fetcher are steps of the abstract pool.                *)
LEMMA StepKeepsPool ==
  ASSUME PoolInv, [Next]_vars
  PROVE  [Pool!Next]_(Pool!vars)
<1> USE DEF PoolInv
<1>0. idx \in Nat /\ Len(servers) \in Nat /\ Settled \subseteq 1 .. idx - 1
  BY SettledDrawn DEF TypeOK
<1>1. ASSUME NEW w \in Workers, Draw(w) PROVE [Pool!Next]_(Pool!vars)
  <2>1. /\ phase = "working" /\ phase' = phase /\ servers' = servers
        /\ idx \in 1 .. Len(servers)
    BY <1>1, DrawEffect DEF Draw
  <2>2. Settled' = Settled \/ Settled' = Settled \cup {idx}
    BY <1>1, DrawEffect
  <2>3. idx \notin Settled
    BY <1>0
  <2>4. QED
    BY <2>1, <2>2, <2>3 DEF Pool!Next, Pool!Settle, Pool!vars
<1>2. ASSUME NEW w \in Workers, Tools(w) \/ NoTools(w) PROVE [Pool!Next]_(Pool!vars)
  <2>1. /\ UNCHANGED <<servers, phase>> /\ w \in Fetching
        /\ Settled' = Settled \cup {hand[w]}
    BY <1>2, AnswerEffect
  <2>2. hand[w] \in (1 .. Len(servers)) \ Settled
    <3>1. hand[w] \in (1 .. idx - 1) \ Settled /\ idx <= Len(servers) + 1
      BY <2>1 DEF Hands, TypeOK
    <3>2. QED
      BY <1>0, <3>1
  <2>3. phase = "working"
    BY <2>1 DEF NotBegun, Ends, AllEnded, Fetching, TypeOK
  <2>4. QED
    BY <2>1, <2>2, <2>3 DEF Pool!Next, Pool!Settle, Pool!vars
<1>3. CASE List
  <2>1. Len(servers') \in Nat /\ Settled' = Settled
    BY <1>3, ListStep, OtherEffect
  <2>2. QED
    BY <1>3, <2>1 DEF List, Pool!Next, Pool!List
<1>4. CASE Save
  <2>1. Settled = 1 .. Len(servers) /\ Settled' = Settled
    BY <1>4, EndedIsSettled, OtherEffect DEF Save
  <2>2. QED
    BY <1>4, <2>1 DEF Save, Pool!Next, Pool!Save
<1>5. CASE FetchPage \/ UNCHANGED vars \/ \E w \in Workers : EndWorker(w)
  <2>1. Settled' = Settled /\ UNCHANGED <<servers, phase>>
    BY <1>5, OtherEffect DEF FetchPage, vars, EndWorker
  <2>2. QED
    BY <2>1 DEF Pool!vars
<1>6. QED
  BY <1>1, <1>2, <1>3, <1>4, <1>5, Effects

-----------------------------------------------------------------------------
(* A list by title can be made of any servers: the first is one of the     *)
(* least title, the others follow by induction.                            *)
LEMMA SortedExists ==
  ASSUME NEW C \in SUBSET Server
  PROVE  Sorted(C) # {}
<1> DEFINE S == {n \in Nat : \A D \in SUBSET Server : Cardinality(D) = n => Sorted(D) # {}}
<1>0. \A D \in SUBSET Server : IsFiniteSet(D) /\ Cardinality(D) \in Nat
  BY FS_Subset, FS_CardinalityType, CatalogAssumption
<1>1. 0 \in S
  <2>1. ASSUME NEW D \in SUBSET Server, Cardinality(D) = 0 PROVE Sorted(D) # {}
    <3>1. D = {}
      BY <1>0, <2>1, FS_EmptySet
    <3> DEFINE list == [k \in 1 .. Cardinality(D) |-> D]
    <3>2. list \in [1 .. Cardinality(D) -> D] /\ DOMAIN list = {}
      BY <2>1
    <3>3. SeqRange(list) = D
      BY <3>1, <3>2 DEF SeqRange
    <3> HIDE DEF list
    <3>4. list \in Sorted(D)
      BY <3>2, <3>3 DEF Sorted
    <3>5. QED
      BY <3>4
  <2>2. QED
    BY <2>1
<1>2. ASSUME NEW n \in Nat, n \in S PROVE n + 1 \in S
  <2> SUFFICES ASSUME NEW D \in SUBSET Server, Cardinality(D) = n + 1
               PROVE  Sorted(D) # {}
    OBVIOUS
  <2>1. PICK s \in D : \A t \in D : s.title <= t.title
    <3> DEFINE Ts == {t.title : t \in D}
    <3>1. D # {}
      BY <1>0, FS_EmptySet
    <3>2. Ts \subseteq Nat /\ Ts # {}
      <4>1. \A t \in D : t.title \in Nat
        BY CatalogAssumption DEF Server
      <4>2. QED
        BY <3>1, <4>1
    <3>3. PICK x \in Ts : \A y \in Ts : x <= y
      <4> HIDE DEF Ts
      <4>1. QED
        BY <3>2, LeastElement
    <3>4. QED
      BY <3>3
  <2> DEFINE R == D \ {s}
  <2>2. R \in SUBSET Server /\ Cardinality(R) = n
    <3>1. Cardinality(R) = Cardinality(D) - 1
      BY <1>0, FS_RemoveElement
    <3>2. QED
      BY <3>1
  <2>3. PICK rest \in Sorted(R) : TRUE
    BY <1>2, <2>2
  <2>4. /\ rest \in [1 .. n -> R] /\ \A t \in R : \E k \in 1 .. n : rest[k] = t
        /\ \A j, k \in 1 .. n : j < k => rest[j].title <= rest[k].title
    BY <2>2, <2>3 DEF Sorted, SeqRange
  <2> DEFINE list == [k \in 1 .. n + 1 |-> IF k = 1 THEN s ELSE rest[k - 1]]
  <2>5. \A k \in 1 .. n + 1 : k # 1 => k - 1 \in 1 .. n
    OBVIOUS
  <2>6. list \in [1 .. n + 1 -> D]
    BY <2>4, <2>5
  <2>7. ASSUME NEW t \in D PROVE \E k \in 1 .. n + 1 : list[k] = t
    <3>1. CASE t = s
      <4>1. 1 \in 1 .. n + 1 /\ list[1] = s
        OBVIOUS
      <4>2. QED
        BY <3>1, <4>1
    <3>2. CASE t # s
      <4>1. PICK k \in 1 .. n : rest[k] = t
        BY <2>4, <3>2
      <4>2. k + 1 \in 1 .. n + 1 /\ k + 1 # 1 /\ (k + 1) - 1 = k
        OBVIOUS
      <4>3. list[k + 1] = t
        BY <4>1, <4>2
      <4>4. QED
        BY <4>2, <4>3
    <3>3. QED
      BY <3>1, <3>2
  <2>8. ASSUME NEW j \in 1 .. n + 1, NEW k \in 1 .. n + 1, j < k
        PROVE  list[j].title <= list[k].title
    <3>1. k # 1 /\ k - 1 \in 1 .. n /\ list[k] = rest[k - 1] /\ rest[k - 1] \in D
      BY <2>4, <2>5, <2>8
    <3>2. CASE j = 1
      BY <2>1, <3>1, <3>2
    <3>3. CASE j # 1
      <4>1. j - 1 \in 1 .. n /\ list[j] = rest[j - 1] /\ j - 1 < k - 1
        BY <2>5, <2>8, <3>3
      <4>2. QED
        BY <2>4, <3>1, <4>1
    <3>4. QED
      BY <3>2, <3>3
  <2> HIDE DEF list
  <2>9. list \in Sorted(D)
    <3>1. DOMAIN list = 1 .. n + 1 /\ SeqRange(list) = D
      BY <2>6, <2>7 DEF SeqRange
    <3>2. QED
      BY <2>6, <2>8, <3>1 DEF Sorted
  <2>10. QED
    BY <2>9
<1> HIDE DEF S
<1>3. Nat \subseteq S
  BY <1>1, <1>2, Induction
<1>4. QED
  BY <1>0, <1>3 DEF S

(* The fetcher can go on until it has saved: there is a page to fetch, or  *)
(* a list to make of the pages, or some worker's turn, or all have ended.  *)
CanGoOn ==
  CASE phase = "listing" ->
         page > Pages =>
           Sorted(Kept(Parsed(blobs) \cup Stubs(Parsed(blobs), Discovered(blobs)))) # {}
    [] phase = "working" -> AllEnded \/ \E w \in Workers : MyTurn(w) \/ Awaits(w)
    [] OTHER -> phase = "saved"

(* It always can.                                                          *)
LEMMA GoesOn ==
  ASSUME TypeOK
  PROVE  CanGoOn
<1>1. CASE phase = "listing"
  <2>1. Wanted \in SUBSET Server /\ Kept(Wanted) = Wanted
    BY WantedServers, KeepsAll DEF TypeOK
  <2>2. QED
    BY <1>1, <2>1, SortedExists DEF CanGoOn, Wanted
<1>2. ASSUME NEW w \in Workers, state[w] = "new"
      PROVE  \E v \in Workers : MyTurn(v)
  <2> DEFINE fresh == {v \in Workers : state[v] = "new"}
  <2>1. fresh \in SUBSET Nat /\ fresh # {}
    BY <1>2 DEF Workers
  <2>2. PICK v \in fresh : \A u \in fresh : v <= u
    <3> HIDE DEF fresh
    <3>1. QED
      BY <2>1, LeastElement
  <2>3. ASSUME NEW u \in 1 .. v - 1 PROVE state[u] # "new"
    <3>1. u \in Workers /\ v \in Workers /\ u < v
      BY <2>1, CatalogAssumption DEF Workers
    <3>2. QED
      BY <2>2, <3>1 DEF Workers
  <2>4. MyTurn(v)
    BY <2>2, <2>3 DEF MyTurn
  <2>5. QED
    BY <2>2, <2>4
<1>3. ASSUME NEW w \in Workers, state[w] # "ended", \A v \in Workers : state[v] # "new"
      PROVE  MyTurn(w) \/ Awaits(w)
  BY <1>3 DEF MyTurn, Awaits, TypeOK
<1>4. CASE phase = "working"
  <2>1. AllEnded \/ \E w \in Workers : MyTurn(w) \/ Awaits(w)
    BY <1>2, <1>3 DEF AllEnded
  <2>2. QED
    BY <1>4, <2>1 DEF CanGoOn
<1>5. QED
  BY <1>1, <1>4 DEF TypeOK, CanGoOn

(* What the pool has left to do: servers to draw, answers to come, workers *)
(* to end.                                                                 *)
Going == {w \in Workers : state[w] # "ended"}

WorkLeft == 2 * (Len(servers) + 1 - idx) + Cardinality(Fetching) + Cardinality(Going)

(* Every step fetches a page, or lists, or leaves the pool less to do, or  *)
(* saves, in this order.                                                   *)
RunsOut ==
  [][ \/ phase = "listing" /\ phase' = "listing" /\ page' = page + 1
      \/ phase = "listing" /\ phase' = "working"
      \/ phase = "working" /\ phase' = "working" /\ WorkLeft' < WorkLeft
      \/ phase = "working" /\ phase' = "saved" ]_vars

(* There is no less than nothing left.                                     *)
LEMMA WorkLeftType ==
  ASSUME TypeOK
  PROVE  /\ Cardinality(Fetching) \in Nat /\ IsFiniteSet(Fetching)
         /\ Cardinality(Going) \in Nat /\ IsFiniteSet(Going)
         /\ WorkLeft \in Nat
<1>1. IsFiniteSet(1 .. CONC)
  BY CatalogAssumption, FS_Interval
<1>2. IsFiniteSet(Fetching) /\ IsFiniteSet(Going)
  BY <1>1, FS_Subset DEF Workers, Fetching, Going
<1>3. Cardinality(Fetching) \in Nat /\ Cardinality(Going) \in Nat
  BY <1>2, FS_CardinalityType
<1>4. 2 * (Len(servers) + 1 - idx) \in Nat
  BY DEF TypeOK
<1>5. QED
  BY <1>2, <1>3, <1>4 DEF WorkLeft

(* One step of the fetcher.                                                *)
LEMMA WorkLeftStep ==
  ASSUME PoolInv, [Next]_vars, vars' # vars
  PROVE  \/ phase = "listing" /\ phase' = "listing" /\ page' = page + 1
         \/ phase = "listing" /\ phase' = "working"
         \/ phase = "working" /\ phase' = "working" /\ WorkLeft' < WorkLeft
         \/ phase = "working" /\ phase' = "saved"
<1> USE DEF PoolInv
<1>1. /\ Cardinality(Fetching) \in Nat /\ IsFiniteSet(Fetching)
      /\ Cardinality(Going) \in Nat /\ IsFiniteSet(Going)
      /\ idx \in Nat /\ Len(servers) \in Nat
  BY WorkLeftType DEF TypeOK
<1>2. ASSUME NEW w \in Workers, Draw(w)
      PROVE  phase = "working" /\ phase' = "working" /\ WorkLeft' < WorkLeft
  <2>1. /\ phase = "working" /\ phase' = "working"
        /\ idx' = idx + 1 /\ servers' = servers /\ w \notin Fetching
        /\ Fetching' = Fetching \cup {w} \/ Fetching' = Fetching
    BY <1>2, DrawEffect DEF Draw
  <2>2. Going' = Going
    BY <1>2 DEF Draw, MyTurn, TypeOK, Going
  <2>3. Cardinality(Fetching') \in {Cardinality(Fetching), Cardinality(Fetching) + 1}
    BY <1>1, <2>1, FS_AddElement
  <2>4. WorkLeft' = 2 * (Len(servers) + 1 - (idx + 1)) + Cardinality(Fetching') + Cardinality(Going)
    BY <2>1, <2>2 DEF WorkLeft
  <2>5. QED
    BY <1>1, <2>1, <2>3, <2>4 DEF WorkLeft
<1>3. ASSUME NEW w \in Workers, Tools(w) \/ NoTools(w)
      PROVE  phase = "working" /\ phase' = "working" /\ WorkLeft' < WorkLeft
  <2>1. /\ w \in Fetching /\ Fetching' = Fetching \ {w} /\ UNCHANGED <<idx, servers, phase>>
    BY <1>3, AnswerEffect
  <2>2. phase = "working"
    BY <2>1 DEF NotBegun, Ends, AllEnded, Fetching, TypeOK
  <2>3. Going' = Going
    BY <1>3 DEF Tools, NoTools, Awaits, Caught, TypeOK, Going
  <2>4. Cardinality(Fetching') = Cardinality(Fetching) - 1
    BY <1>1, <2>1, FS_RemoveElement
  <2>5. WorkLeft' = 2 * (Len(servers) + 1 - idx) + Cardinality(Fetching') + Cardinality(Going)
    BY <2>1, <2>3 DEF WorkLeft
  <2>6. QED
    BY <1>1, <2>1, <2>2, <2>4, <2>5 DEF WorkLeft
<1>4. ASSUME NEW w \in Workers, EndWorker(w)
      PROVE  phase = "working" /\ phase' = "working" /\ WorkLeft' < WorkLeft
  <2>1. phase = "working" /\ UNCHANGED <<idx, servers, phase, Fetching>>
    BY <1>4, OtherEffect DEF EndWorker
  <2>2. w \in Going /\ Going' = Going \ {w}
    BY <1>4 DEF EndWorker, MyTurn, TypeOK, Going
  <2>3. Cardinality(Going') = Cardinality(Going) - 1
    BY <1>1, <2>2, FS_RemoveElement
  <2>4. WorkLeft' = 2 * (Len(servers) + 1 - idx) + Cardinality(Fetching) + Cardinality(Going')
    BY <2>1 DEF WorkLeft
  <2>5. QED
    BY <1>1, <2>1, <2>3, <2>4 DEF WorkLeft
<1>5. CASE FetchPage \/ List \/ Save
  BY <1>5 DEF FetchPage, List, Save
<1>6. QED
  BY <1>2, <1>3, <1>4, <1>5, Effects

-----------------------------------------------------------------------------
(* Tables.  What is followed is bounded by the entries the cache misses;   *)
(* an entry once made stays; and each is made to fit its node, whatever    *)
(* was resolved before.                                                    *)

(* What a node resolves to: itself, or of an index map a record that has   *)
(* the texts the table says.                                               *)
Fits(table, i, v) ==
  IF At(table, i).kind # "map" THEN v = At(table, i).is
  ELSE \E fields \in [Names -> Leaf] :
         /\ v = Record(fields)
         /\ \A name \in Names :
              SaysText(table, i, name) => fields[name] = Text(Said(table, i, name))

(* A cache that may come up: a node is absent, resolved, or just being     *)
(* resolved, which a text never is, since nothing is followed for it.      *)
Sound(table, c) ==
  /\ c \in Caches(table)
  /\ \A j \in Indexes(table) :
       c[j] = Absent \/ Fits(table, j, c[j]) \/ (c[j] = Undefined /\ ~ IsText(table, j))

(* What following references does to a cache: entries stay, and new ones   *)
(* are resolved.                                                           *)
Grows(table, c, d) ==
  \A j \in Indexes(table) :
    IF c[j] # Absent THEN d[j] = c[j] ELSE d[j] = Absent \/ Fits(table, j, d[j])

Missing(table, c) == {j \in Indexes(table) : c[j] = Absent}

(* A function that resolves every reference in caches with n missing.      *)
Gets(table, get, n) ==
  \A i \in Int, c \in Caches(table) :
    Sound(table, c) /\ Cardinality(Missing(table, c)) <= n
      => /\ Sound(table, get[i][c]) /\ Grows(table, c, get[i][c])
         /\ i \in Indexes(table) => get[i][c][i] # Absent

(* The indexes of a table can be counted.                                  *)
LEMMA IndexesCount ==
  ASSUME NEW table \in Seq(Node)
  PROVE  IsFiniteSet(Indexes(table)) /\ Cardinality(Indexes(table)) = Len(table)
<1>1. Len(table) \in Nat /\ 0 \in Int /\ Len(table) - 1 \in Int
  OBVIOUS
<1> DEFINE top == Len(table) - 1
<1>2. /\ IsFiniteSet(0 .. top)
      /\ Cardinality(0 .. top) = IF 0 > top THEN 0 ELSE top - 0 + 1
  <2> HIDE DEF top
  <2>1. QED
    BY <1>1, FS_Interval DEF top
<1>3. QED
  BY <1>1, <1>2 DEF Indexes

(* Missing entries can be counted, and get fewer.                          *)
LEMMA MissingCounts ==
  ASSUME NEW table \in Seq(Node), NEW c, NEW d, Grows(table, c, d)
  PROVE  /\ IsFiniteSet(Missing(table, c)) /\ Cardinality(Missing(table, c)) \in Nat
         /\ Cardinality(Missing(table, d)) \in Nat
         /\ Cardinality(Missing(table, d)) <= Cardinality(Missing(table, c))
<1>1. IsFiniteSet(Indexes(table))
  BY IndexesCount
<1>2. Missing(table, c) \subseteq Indexes(table) /\ Missing(table, d) \subseteq Missing(table, c)
  BY DEF Missing, Grows
<1>3. QED
  BY <1>1, <1>2, FS_Subset, FS_CardinalityType

(* Growth adds up,                                                         *)
LEMMA GrowsTwice ==
  ASSUME NEW table, NEW c, NEW d, NEW e, Grows(table, c, d), Grows(table, d, e)
  PROVE  Grows(table, c, e)
BY DEF Grows

(* and no change is growth.                                                *)
LEMMA GrowsNot ==
  ASSUME NEW table, NEW c
  PROVE  Grows(table, c, c)
BY DEF Grows

(* f is the recursion of Follow up to n.                                   *)
Follows(get, refs, c, n, f) ==
  f = [k \in 0 .. n |-> IF k = 0 THEN c ELSE get[refs[k]][f[k - 1]]]

(* The recursion of Follow has a solution, however many references;        *)
LEMMA FollowsExist ==
  ASSUME NEW get, NEW refs, NEW c
  PROVE  \A n \in Nat : \E f : Follows(get, refs, c, n, f)
<1> DEFINE S == {n \in Nat : \E f : Follows(get, refs, c, n, f)}
<1>1. 0 \in S
  <2>1. Follows(get, refs, c, 0, [k \in 0 .. 0 |-> c])
    BY DEF Follows
  <2>2. QED
    BY <2>1
<1>2. ASSUME NEW n \in Nat, n \in S PROVE n + 1 \in S
  <2>1. PICK f : Follows(get, refs, c, n, f)
    BY <1>2
  <2> DEFINE last == get[refs[n + 1]][f[n]]
             g == [k \in 0 .. n + 1 |-> IF k = n + 1 THEN last ELSE f[k]]
  <2>2. ASSUME NEW k \in 0 .. n + 1
        PROVE  g[k] = IF k = 0 THEN c ELSE get[refs[k]][g[k - 1]]
    <3>1. CASE k = n + 1
      <4>1. g[k] = last /\ k - 1 = n /\ g[n] = f[n]
        BY <3>1
      <4>2. QED
        BY <3>1, <4>1
    <3>2. CASE k # n + 1
      <4>1. k \in 0 .. n /\ (k # 0 => k - 1 \in 0 .. n)
        BY <3>2
      <4>2. g[k] = f[k] /\ (k # 0 => g[k - 1] = f[k - 1])
        BY <4>1
      <4>3. QED
        BY <2>1, <4>1, <4>2 DEF Follows
    <3>3. QED
      BY <3>1, <3>2
  <2>3. g = [k \in 0 .. n + 1 |-> g[k]]
    OBVIOUS
  <2> HIDE DEF g
  <2>4. Follows(get, refs, c, n + 1, g)
    BY <2>2, <2>3 DEF Follows
  <2>5. QED
    BY <2>4
<1> HIDE DEF S
<1>3. Nat \subseteq S
  BY <1>1, <1>2, Induction
<1>4. QED
  BY <1>3 DEF S

(* Follow is its last value.                                               *)
LEMMA FollowIs ==
  ASSUME NEW get, NEW refs, Len(refs) \in Nat, NEW c
  PROVE  \E f : Follows(get, refs, c, Len(refs), f) /\ Follow(get, refs, c) = f[Len(refs)]
<1> DEFINE f == CHOOSE g : Follows(get, refs, c, Len(refs), g)
<1>1. Follows(get, refs, c, Len(refs), f)
  BY FollowsExist
<1>2. Follow(get, refs, c) = f[Len(refs)]
  BY DEF Follow, Follows
<1>3. QED
  BY <1>1, <1>2

(* References followed in turn are all resolved.                           *)
LEMMA FollowResolves ==
  ASSUME NEW table \in Seq(Node), NEW n \in Nat, NEW get, Gets(table, get, n),
         NEW refs \in Seq(Int), NEW c, Sound(table, c), Cardinality(Missing(table, c)) <= n
  PROVE  /\ Sound(table, Follow(get, refs, c)) /\ Grows(table, c, Follow(get, refs, c))
         /\ \A k \in 1 .. Len(refs) :
              refs[k] \in Indexes(table) => Follow(get, refs, c)[refs[k]] # Absent
<1>1. PICK f : Follows(get, refs, c, Len(refs), f) /\ Follow(get, refs, c) = f[Len(refs)]
  BY FollowIs
<1> DEFINE Fine(k) == /\ Sound(table, f[k]) /\ Grows(table, c, f[k])
                      /\ \A m \in 1 .. k : refs[m] \in Indexes(table) => f[k][refs[m]] # Absent
           S == {k \in Nat : k <= Len(refs) => Fine(k)}
<1>2. 0 \in S
  <2>1. f[0] = c
    BY <1>1 DEF Follows
  <2>2. Sound(table, f[0]) /\ Grows(table, c, f[0])
    BY <2>1, GrowsNot
  <2>3. QED
    BY <2>2
<1>3. ASSUME NEW k \in Nat, k \in S PROVE k + 1 \in S
  <2> SUFFICES ASSUME k + 1 <= Len(refs) PROVE Fine(k + 1)
    OBVIOUS
  <2>1. Fine(k)
    BY <1>3
  <2> HIDE DEF S
  <2>2. refs[k + 1] \in Int /\ f[k + 1] = get[refs[k + 1]][f[k]]
    <3> HIDE DEF Fine
    <3>1. k + 1 \in 1 .. Len(refs) /\ k + 1 \in 0 .. Len(refs) /\ k + 1 # 0 /\ (k + 1) - 1 = k
      OBVIOUS
    <3>2. refs[k + 1] \in Int
      BY <3>1
    <3>3. f[k + 1] = get[refs[k + 1]][f[k]]
      BY <1>1, <3>1 DEF Follows
    <3>4. QED
      BY <3>2, <3>3
  <2>3. Cardinality(Missing(table, f[k])) <= n
    <3>1. /\ Cardinality(Missing(table, c)) \in Nat /\ Cardinality(Missing(table, f[k])) \in Nat
          /\ Cardinality(Missing(table, f[k])) <= Cardinality(Missing(table, c))
      BY <2>1, MissingCounts
    <3>2. QED
      BY <3>1
  <2>4. /\ Sound(table, f[k + 1]) /\ Grows(table, f[k], f[k + 1])
        /\ refs[k + 1] \in Indexes(table) => f[k + 1][refs[k + 1]] # Absent
    <3>1. f[k] \in Caches(table)
      BY <2>1 DEF Sound
    <3>2. QED
      BY <2>1, <2>2, <2>3, <3>1 DEF Gets
  <2>5. Grows(table, c, f[k + 1])
    BY <2>1, <2>4, GrowsTwice
  <2>6. ASSUME NEW m \in 1 .. k + 1, refs[m] \in Indexes(table) PROVE f[k + 1][refs[m]] # Absent
    <3>1. CASE m = k + 1
      BY <2>4, <2>6, <3>1
    <3>2. CASE m # k + 1
      BY <2>1, <2>4, <2>6, <3>2 DEF Grows
    <3>3. QED
      BY <3>1, <3>2
  <2>7. QED
    BY <2>4, <2>5, <2>6
<1> HIDE DEF S
<1>4. Nat \subseteq S
  BY <1>2, <1>3, Induction
<1>5. Fine(Len(refs))
  BY <1>4 DEF S
<1>6. QED
  BY <1>1, <1>5

(* A value is not absent.                                                  *)
LEMMA ValuesAre ==
  /\ Absent \notin Value /\ \A v \in Value : Shown(v) \in Leaf
  /\ \A s \in STRING : Text(s) \in Leaf
BY DEF Absent, Value, Leaf, Object, Undefined, Null, Thing, Text, Shown

(* Of a set of places there is a last one.                                 *)
LEMMA LastPlace ==
  ASSUME NEW n \in Nat, NEW places \in SUBSET (1 .. n - 1), places # {}
  PROVE  LastOf(places) \in places
<1> DEFINE T == {n - k : k \in places}
<1>1. T \in SUBSET Nat /\ T # {}
  <2>1. \A k \in places : k \in Int /\ k <= n - 1
    OBVIOUS
  <2>2. \A k \in places : n - k \in Nat
    BY <2>1
  <2>3. QED
    BY <2>2
<1>2. PICK x \in T : \A y \in T : x <= y
  <2> HIDE DEF T
  <2>1. QED
    BY <1>1, LeastElement
<1>3. PICK k \in places : x = n - k
  BY <1>2
<1>4. \A j \in places : j <= k
  <2>1. \A j \in places : n - j \in T /\ j \in Nat
    OBVIOUS
  <2>2. QED
    BY <1>2, <1>3, <2>1
<1>5. QED
  BY <1>4 DEF LastOf

(* A reference that gives a text leads to it in the table.                 *)
LEMMA ReadText ==
  ASSUME NEW table \in Seq(Node), NEW d, Sound(table, d), NEW r \in Int, NEW s,
         r \in Indexes(table) => d[r] # Absent
  PROVE  /\ Read(d, r) \in Value
         /\ Read(d, r) = Text(s) <=> IsText(table, r) /\ At(table, r).is.text = s
<1>1. d \in [Indexes(table) -> Value \cup {Absent}] /\ DOMAIN d = Indexes(table)
  BY DEF Sound, Caches
<1>2. CASE r < 0
  BY <1>2 DEF Read, Indexes, IsText, Null, Text, Value, Leaf
<1>3. CASE r >= 0 /\ r \notin Indexes(table)
  BY <1>1, <1>3 DEF Read, IsText, Undefined, Text, Value, Leaf
<1>4. CASE r \in Indexes(table)
  <2>1. Read(d, r) = d[r] /\ d[r] \in Value
    BY <1>1, <1>4 DEF Read, Indexes
  <2>2. At(table, r) \in Node
    BY <1>4 DEF At, Indexes
  <2>3. At(table, r).kind = "map" => At(table, r).is.kind # "text"
    BY <2>2 DEF Node, Leaf, Object, Undefined, Null, Thing
  <2>4. At(table, r).is.kind = "text" => At(table, r).is = Text(At(table, r).is.text)
    BY <2>2 DEF Node, Leaf, Object, Undefined, Null, Thing, Text
  <2>5. CASE Fits(table, r, d[r])
    <3>1. CASE At(table, r).kind = "map"
      <4>1. PICK fields \in [Names -> Leaf] : d[r] = Record(fields)
        BY <2>5, <3>1 DEF Fits
      <4>2. d[r] # Text(s)
        BY <4>1 DEF Record, Text
      <4>3. QED
        BY <2>1, <2>3, <3>1, <4>2 DEF IsText
    <3>2. CASE At(table, r).kind # "map"
      <4>1. d[r] = At(table, r).is
        BY <2>5, <3>2 DEF Fits
      <4>2. Text(s).kind = "text" /\ Text(s).text = s
        BY DEF Text
      <4>3. QED
        BY <1>4, <2>1, <2>4, <4>1, <4>2 DEF IsText
    <3>3. QED
      BY <3>1, <3>2
  <2>6. CASE d[r] = Undefined /\ ~ IsText(table, r)
    BY <1>4, <2>1, <2>6 DEF IsText, Undefined, Text
  <2>7. QED
    BY <1>4, <2>1, <2>5, <2>6 DEF Sound
<1>5. QED
  BY <1>2, <1>3, <1>4

(* A node has references, and is a value on its own.                       *)
LEMMA NodeHas ==
  ASSUME NEW node \in Node
  PROVE  node.refs \in Seq(Int) /\ node.is \in Value
<1>1. CASE node \in [kind : {"leaf"}, is : Leaf, refs : {<<>>}]
  <2>1. << >> \in Seq(Int)
    OBVIOUS
  <2>2. node.refs = << >> /\ node.is \in Leaf
    BY <1>1
  <2>3. QED
    BY <2>1, <2>2 DEF Value
<1>2. CASE node \in [kind : {"bulk", "map"}, is : {Thing} \cup Object, refs : Seq(Int)]
  BY <1>2 DEF Value, Leaf
<1>3. QED
  BY <1>1, <1>2 DEF Node

(* A node all of whose references were followed is decoded as it fits.     *)
LEMMA DecodeFits ==
  ASSUME NEW table \in Seq(Node), NEW i \in Indexes(table), NEW d, Sound(table, d),
         \A k \in 1 .. Len(At(table, i).refs) :
           At(table, i).refs[k] \in Indexes(table) => d[At(table, i).refs[k]] # Absent
  PROVE  Fits(table, i, Decode(At(table, i), d)) /\ Decode(At(table, i), d) \in Value
<1> DEFINE node == At(table, i)
           refs == At(table, i).refs
           field(name) == LET places == Places(refs, d, name)
                          IN  IF places = {} THEN Undefined
                              ELSE Shown(Read(d, refs[LastOf(places) + 1]))
<1>1. node \in Node /\ refs \in Seq(Int)
  <2>1. node \in Node
    BY DEF At, Indexes
  <2>2. QED
    BY <2>1, NodeHas
<1>2. CASE node.kind # "map"
  <2>1. node.is \in Value
    BY <1>1, NodeHas
  <2>2. QED
    BY <1>2, <2>1 DEF Fits, Decode
<1>3. CASE node.kind = "map"
  <2>1. ASSUME NEW k \in 1 .. Len(refs), NEW s
        PROVE  /\ refs[k] \in Int /\ Read(d, refs[k]) \in Value
               /\ Read(d, refs[k]) = Text(s)
                    <=> IsText(table, refs[k]) /\ At(table, refs[k]).is.text = s
    <3>1. refs[k] \in Int
      BY <1>1
    <3>2. refs[k] \in Indexes(table) => d[refs[k]] # Absent
      OBVIOUS
    <3> HIDE DEF refs
    <3>3. QED
      BY <3>1, <3>2, ReadText
  <2>2. ASSUME NEW name
        PROVE  /\ Places(refs, d, name) = NamePlaces(table, refs, name)
               /\ Places(refs, d, name) # {} =>
                    /\ LastOf(Places(refs, d, name)) \in 1 .. Len(refs) - 1
                    /\ LastOf(Places(refs, d, name)) + 1 \in 1 .. Len(refs)
    <3>1. Places(refs, d, name) = NamePlaces(table, refs, name)
      <4>1. Len(refs) \in Nat
        BY <1>1
      <4>2. ASSUME NEW k \in 1 .. Len(refs) - 1
            PROVE  Read(d, refs[k]) = Text(name) <=> IsName(table, refs[k], name)
        <5>1. k \in 1 .. Len(refs)
          BY <4>1
        <5>2. QED
          BY <2>1, <5>1 DEF IsName
      <4> HIDE DEF refs
      <4>3. QED
        BY <4>2 DEF Places, NamePlaces
    <3>2. Len(refs) \in Nat /\ Places(refs, d, name) \in SUBSET (1 .. Len(refs) - 1)
      BY <1>1 DEF Places
    <3>3. Places(refs, d, name) # {} =>
            LastOf(Places(refs, d, name)) \in 1 .. Len(refs) - 1
      BY <3>2, LastPlace
    <3>4. QED
      BY <3>1, <3>2, <3>3
  <2>3. ASSUME NEW name PROVE field(name) \in Leaf
    <3>1. CASE Places(refs, d, name) = {}
      BY <3>1 DEF Leaf
    <3>2. CASE Places(refs, d, name) # {}
      BY <2>1, <2>2, <3>2, ValuesAre
    <3>3. QED
      BY <3>1, <3>2
  <2>4. ASSUME NEW name, SaysText(table, i, name)
        PROVE  field(name) = Text(Said(table, i, name))
    <3> DEFINE k == LastOf(Places(refs, d, name)) + 1
    <3>1. Places(refs, d, name) # {} /\ k \in 1 .. Len(refs) /\ refs[k] = Under(table, i, name)
      BY <2>2, <2>4 DEF SaysText, Under
    <3> HIDE DEF k
    <3>2. IsText(table, refs[k]) /\ At(table, refs[k]).is.text = Said(table, i, name)
      BY <2>4, <3>1 DEF SaysText, Said
    <3>3. Read(d, refs[k]) = Text(Said(table, i, name))
      BY <2>1, <3>1, <3>2
    <3>4. field(name) = Shown(Read(d, refs[k]))
      BY <3>1 DEF k
    <3>5. QED
      BY <3>3, <3>4 DEF Shown, Text
  <2> DEFINE fields == [name \in Names |-> field(name)]
  <2>5. Decode(node, d) = Record(fields)
    BY <1>3 DEF Decode
  <2>6. fields \in [Names -> Leaf]
    BY <2>3
  <2>7. \A name \in Names : SaysText(table, i, name) => fields[name] = Text(Said(table, i, name))
    BY <2>4
  <2> HIDE DEF fields
  <2>8. Record(fields) \in Value
    BY <2>6 DEF Value, Object, Record
  <2>9. QED
    BY <1>3, <2>5, <2>6, <2>7, <2>8 DEF Fits
<1>4. QED
  BY <1>2, <1>3

(* A node marked is one less that is missing.                              *)
LEMMA MarkedOne ==
  ASSUME NEW table \in Seq(Node), NEW c, Sound(table, c), NEW i \in Indexes(table),
         c[i] = Absent, NEW n \in Nat, Cardinality(Missing(table, c)) <= n + 1
  PROVE  /\ Marked(c, i) \in Caches(table) /\ Marked(c, i)[i] = Undefined
         /\ \A j \in Indexes(table) : j # i => Marked(c, i)[j] = c[j]
         /\ Cardinality(Missing(table, Marked(c, i))) <= n
<1>1. c \in [Indexes(table) -> Value \cup {Absent}] /\ Undefined \in Value /\ Undefined # Absent
  BY ValuesAre DEF Sound, Caches, Value, Leaf
<1>2. /\ Marked(c, i) \in Caches(table) /\ Marked(c, i)[i] = Undefined
      /\ \A j \in Indexes(table) : j # i => Marked(c, i)[j] = c[j]
  BY <1>1 DEF Marked, Caches
<1>3. Missing(table, Marked(c, i)) = Missing(table, c) \ {i} /\ i \in Missing(table, c)
  BY <1>1, <1>2 DEF Missing
<1>4. IsFiniteSet(Missing(table, c)) /\ Cardinality(Missing(table, c)) \in Nat
  BY GrowsNot, MissingCounts
<1>5. Cardinality(Missing(table, c) \ {i}) = Cardinality(Missing(table, c)) - 1
  BY <1>3, <1>4, FS_RemoveElement
<1>6. QED
  BY <1>2, <1>3, <1>4, <1>5

(* A node that is a text has no references.                                *)
LEMMA TextsEnd ==
  ASSUME NEW table \in Seq(Node), NEW i, IsText(table, i)
  PROVE  At(table, i).refs = <<>> /\ At(table, i).kind # "map"
<1>1. At(table, i) \in Node
  BY DEF IsText, At, Indexes
<1>2. At(table, i) \notin [kind : {"bulk", "map"}, is : {Thing} \cup Object, refs : Seq(Int)]
  BY DEF IsText, Thing, Object
<1>3. QED
  BY <1>1, <1>2 DEF Node

(* Following no references leaves the cache.                               *)
LEMMA FollowNone ==
  ASSUME NEW get, NEW c
  PROVE  Follow(get, <<>>, c) = c
<1>1. Len(<<>>) = 0
  OBVIOUS
<1>2. PICK f : Follows(get, <<>>, c, 0, f) /\ Follow(get, <<>>, c) = f[0]
  BY <1>1, FollowIs
<1>3. QED
  BY <1>2 DEF Follows

(* What resolves every reference with n entries missing lets Resolve do so *)
(* with one more.                                                          *)
LEMMA ResolveOne ==
  ASSUME NEW table \in Seq(Node), NEW n \in Nat, NEW get, Gets(table, get, n)
  PROVE  Gets(table, Resolve(table, get), n + 1)
<1> SUFFICES ASSUME NEW i \in Int, NEW c \in Caches(table), Sound(table, c),
                    Cardinality(Missing(table, c)) <= n + 1
             PROVE  /\ Sound(table, Resolve(table, get)[i][c])
                    /\ Grows(table, c, Resolve(table, get)[i][c])
                    /\ i \in Indexes(table) => Resolve(table, get)[i][c][i] # Absent
  BY DEF Gets
<1>1. CASE i \notin Indexes(table) \/ c[i] # Absent
  <2>1. Resolve(table, get)[i][c] = c
    BY <1>1 DEF Resolve
  <2>2. QED
    BY <1>1, <2>1, GrowsNot
<1>2. CASE i \in Indexes(table) /\ c[i] = Absent
  <2> DEFINE node == At(table, i)
             d == Follow(get, node.refs, Marked(c, i))
             v == Decode(node, d)
  <2>1. Resolve(table, get)[i][c] = Known(d, i, v)
    BY <1>2 DEF Resolve
  <2>2. /\ Marked(c, i) \in Caches(table) /\ Marked(c, i)[i] = Undefined
        /\ \A j \in Indexes(table) : j # i => Marked(c, i)[j] = c[j]
        /\ Cardinality(Missing(table, Marked(c, i))) <= n
    BY <1>2, MarkedOne
  <2>3. node \in Node /\ node.refs \in Seq(Int) /\ node.is \in Value
    <3>1. node \in Node
      BY <1>2 DEF At, Indexes
    <3>2. QED
      BY <3>1, NodeHas
  <2>4. /\ d \in Caches(table) /\ Fits(table, i, v) /\ v \in Value
        /\ \A j \in Indexes(table) : j # i =>
             /\ d[j] = Absent \/ Fits(table, j, d[j]) \/ (d[j] = Undefined /\ ~ IsText(table, j))
             /\ IF c[j] # Absent THEN d[j] = c[j] ELSE d[j] = Absent \/ Fits(table, j, d[j])
    <3>1. CASE IsText(table, i)
      <4>1. node.refs = <<>> /\ node.kind # "map"
        BY <3>1, TextsEnd
      <4>2. d = Marked(c, i)
        BY <4>1, FollowNone
      <4>3. v = node.is
        BY <4>1 DEF Decode
      <4>4. Fits(table, i, v) /\ v \in Value
        BY <2>3, <4>1, <4>3 DEF Fits
      <4> HIDE DEF d, v
      <4>5. QED
        BY <2>2, <4>2, <4>4 DEF Sound
    <3>2. CASE ~ IsText(table, i)
      <4>1. Sound(table, Marked(c, i))
        BY <2>2, <3>2 DEF Sound
      <4>2. /\ Sound(table, d) /\ Grows(table, Marked(c, i), d)
            /\ \A k \in 1 .. Len(node.refs) :
                 node.refs[k] \in Indexes(table) => d[node.refs[k]] # Absent
        BY <2>2, <2>3, <4>1, FollowResolves
      <4>3. Fits(table, i, v) /\ v \in Value
        BY <1>2, <4>2, DecodeFits
      <4> HIDE DEF d, v
      <4>4. QED
        BY <2>2, <4>2, <4>3 DEF Sound, Grows
    <3>3. QED
      BY <3>1, <3>2
  <2> HIDE DEF d, v
  <2>5. /\ Known(d, i, v) \in Caches(table) /\ Known(d, i, v)[i] = v
        /\ \A j \in Indexes(table) : j # i => Known(d, i, v)[j] = d[j]
    BY <1>2, <2>4 DEF Known, Caches
  <2>6. Sound(table, Known(d, i, v))
    BY <2>4, <2>5 DEF Sound
  <2>7. Grows(table, c, Known(d, i, v))
    BY <1>2, <2>4, <2>5 DEF Grows
  <2>8. v # Absent
    BY <2>4, ValuesAre
  <2>9. QED
    BY <2>1, <2>5, <2>6, <2>7, <2>8
<1>3. QED
  BY <1>1, <1>2

(* g is the recursion of GetFromTable up to n.                             *)
Deepens(table, n, g) ==
  g = [depth \in 0 .. n |->
         IF depth = 0 THEN [i \in Int |-> [cache \in Caches(table) |-> cache]]
         ELSE Resolve(table, g[depth - 1])]

(* The recursion of GetFromTable has a solution, however deep.             *)
LEMMA DeepensExist ==
  ASSUME NEW table
  PROVE  \A n \in Nat : \E g : Deepens(table, n, g)
<1> DEFINE S == {n \in Nat : \E g : Deepens(table, n, g)}
           nothing == [i \in Int |-> [cache \in Caches(table) |-> cache]]
<1>1. 0 \in S
  <2>1. Deepens(table, 0, [depth \in 0 .. 0 |-> nothing])
    BY DEF Deepens
  <2>2. QED
    BY <2>1
<1>2. ASSUME NEW n \in Nat, n \in S PROVE n + 1 \in S
  <2>1. PICK f : Deepens(table, n, f)
    BY <1>2
  <2> DEFINE last == Resolve(table, f[n])
             g == [k \in 0 .. n + 1 |-> IF k = n + 1 THEN last ELSE f[k]]
  <2> HIDE DEF nothing
  <2>2. ASSUME NEW k \in 0 .. n + 1
        PROVE  g[k] = IF k = 0 THEN nothing ELSE Resolve(table, g[k - 1])
    <3>1. CASE k = n + 1
      <4>1. g[k] = last /\ k - 1 = n /\ g[n] = f[n]
        BY <3>1
      <4>2. QED
        BY <3>1, <4>1
    <3>2. CASE k # n + 1
      <4>1. k \in 0 .. n /\ (k # 0 => k - 1 \in 0 .. n)
        BY <3>2
      <4>2. g[k] = f[k] /\ (k # 0 => g[k - 1] = f[k - 1])
        BY <4>1
      <4>3. f[k] = IF k = 0 THEN nothing ELSE Resolve(table, f[k - 1])
        BY <2>1, <4>1 DEF Deepens, nothing
      <4>4. QED
        BY <4>1, <4>2, <4>3
    <3>3. QED
      BY <3>1, <3>2
  <2>3. g = [k \in 0 .. n + 1 |-> g[k]]
    OBVIOUS
  <2> HIDE DEF g
  <2>4. Deepens(table, n + 1, g)
    BY <2>2, <2>3 DEF Deepens, nothing
  <2>5. QED
    BY <2>4
<1> HIDE DEF S
<1>3. Nat \subseteq S
  BY <1>1, <1>2, Induction
<1>4. QED
  BY <1>3 DEF S

(* However many nodes there are, all references are resolved.              *)
LEMMA GetResolves ==
  ASSUME NEW table \in Seq(Node)
  PROVE  Gets(table, GetFromTable(table), Len(table))
<1>1. Len(table) \in Nat
  OBVIOUS
<1> DEFINE g == CHOOSE h : Deepens(table, Len(table), h)
<1>2. Deepens(table, Len(table), g)
  BY <1>1, DeepensExist
<1>3. GetFromTable(table) = g[Len(table)]
  BY DEF GetFromTable, Deepens
<1> HIDE DEF g
<1> DEFINE S == {n \in Nat : n <= Len(table) => Gets(table, g[n], n)}
<1>4. 0 \in S
  <2>1. g[0] = [i \in Int |-> [cache \in Caches(table) |-> cache]]
    BY <1>1, <1>2 DEF Deepens
  <2>2. ASSUME NEW i \in Int, NEW c \in Caches(table), Sound(table, c),
               Cardinality(Missing(table, c)) <= 0
        PROVE  i \in Indexes(table) => c[i] # Absent
    <3>1. IsFiniteSet(Missing(table, c)) /\ Cardinality(Missing(table, c)) \in Nat
      BY GrowsNot, MissingCounts
    <3>2. Missing(table, c) = {}
      BY <2>2, <3>1, FS_EmptySet
    <3>3. QED
      BY <3>2 DEF Missing
  <2>3. Gets(table, g[0], 0)
    BY <2>1, <2>2, GrowsNot DEF Gets
  <2>4. QED
    BY <2>3
<1>5. ASSUME NEW n \in Nat, n \in S PROVE n + 1 \in S
  <2> SUFFICES ASSUME n + 1 <= Len(table) PROVE Gets(table, g[n + 1], n + 1)
    OBVIOUS
  <2>1. Gets(table, g[n], n)
    BY <1>1, <1>5
  <2>2. n + 1 \in 0 .. Len(table) /\ n + 1 # 0 /\ (n + 1) - 1 = n
    BY <1>1
  <2>3. g[n + 1] = Resolve(table, g[n])
    BY <1>2, <2>2 DEF Deepens
  <2>4. QED
    BY <2>1, <2>3, ResolveOne
<1> HIDE DEF S
<1>6. Nat \subseteq S
  BY <1>4, <1>5, Induction
<1>7. Gets(table, g[Len(table)], Len(table))
  BY <1>1, <1>6 DEF S
<1>8. QED
  BY <1>3, <1>7

(* Every node of a table is resolved to what fits it.                      *)
LEMMA DecodedFits ==
  ASSUME NEW table \in Seq(Node), NEW i \in Indexes(table)
  PROVE  Fits(table, i, Decoded(table)[i])
<1> DEFINE c == [j \in Indexes(table) |-> Absent]
           refs == [k \in 1 .. Len(table) |-> k - 1]
<1>1. Len(table) \in Nat
  OBVIOUS
<1>2. Sound(table, c)
  BY DEF Sound, Caches
<1>3. refs \in Seq(Int) /\ Len(refs) = Len(table)
  BY <1>1
<1>4. Cardinality(Missing(table, c)) <= Len(table)
  <2>1. Missing(table, c) = Indexes(table)
    BY DEF Missing
  <2>2. QED
    BY <1>1, <2>1, IndexesCount
<1>5. Decoded(table) = Follow(GetFromTable(table), refs, c)
  BY DEF Decoded
<1> HIDE DEF c, refs
<1>6. /\ Sound(table, Decoded(table)) /\ Grows(table, c, Decoded(table))
      /\ \A k \in 1 .. Len(refs) :
           refs[k] \in Indexes(table) => Decoded(table)[refs[k]] # Absent
  BY <1>1, <1>2, <1>3, <1>4, <1>5, GetResolves, FollowResolves
<1>7. Decoded(table)[i] # Absent
  <2>1. i + 1 \in 1 .. Len(table) /\ refs[i + 1] = i
    BY <1>1 DEF Indexes, refs
  <2>2. QED
    BY <1>3, <1>6, <2>1
<1>8. QED
  BY <1>6, <1>7 DEF Grows, c

(* A record with a title and a URL is listed by them.                      *)
LEMMA ListsRecords ==
  ASSUME NEW table \in Seq(Node), NEW i \in Indexes(table),
         SaysText(table, i, "title"), SaysText(table, i, "toolsUrl"),
         Said(table, i, "toolsUrl") # ""
  PROVE  [title |-> Said(table, i, "title"), toolsUrl |-> Text(Said(table, i, "toolsUrl"))]
           \in ServersOf(table)
<1> DEFINE v == Decoded(table)[i]
           t == Said(table, i, "title")
           u == Said(table, i, "toolsUrl")
<1>1. PICK fields \in [Names -> Leaf] :
        v = Record(fields) /\ fields["title"] = Text(t) /\ fields["toolsUrl"] = Text(u)
  <2>1. Fits(table, i, v) /\ At(table, i).kind = "map"
    BY DecodedFits DEF SaysText
  <2>2. "title" \in Names /\ "toolsUrl" \in Names
    BY DEF Names
  <2> HIDE DEF v
  <2>3. QED
    BY <2>1, <2>2 DEF Fits
<1> HIDE DEF v, t, u
<1>2. Text(t).kind = "text" /\ Text(t).text = t /\ Text(u).kind = "text"
  BY DEF Text
<1>3. Text(u) \notin {Null, Undefined, Text("")}
  BY DEF Text, Null, Undefined, u
<1>4. LooksLikeServer(fields)
  BY <1>1, <1>2, <1>3 DEF LooksLikeServer, Truthy
<1>5. v.kind = "record" /\ v.fields = fields
  BY <1>1 DEF Record
<1>6. v \in {x \in {Decoded(table)[j] : j \in Indexes(table)} :
               x.kind = "record" /\ LooksLikeServer(x.fields)}
  BY <1>4, <1>5 DEF v
<1>7. [title |-> v.fields["title"].text,
       toolsUrl |-> IF v.fields["toolsUrl"].kind = "text" THEN v.fields["toolsUrl"] ELSE Null]
        = [title |-> t, toolsUrl |-> Text(u)]
  BY <1>1, <1>2, <1>5
<1>8. QED
  BY <1>6, <1>7 DEF ServersOf, t, u

(* A page parses and lists the servers of its table.                       *)
LEMMA PageLists ==
  ASSUME NEW source \in Sources
  PROVE  /\ PageOf[source].parses = TRUE
         /\ \A s \in ServersOf(source.table) :
              [title |-> TitleOf(s.title), url |-> Url(s.toolsUrl)] \in PageOf[source].servers
<1> DEFINE blob == PageOf[source]
           found == source.urls
           listed == {[title |-> TitleOf(s.title), url |-> Url(s.toolsUrl)] :
                        s \in ServersOf(source.table)}
<1>1. blob = [parses |-> TRUE, urls |-> found, servers |-> listed]
  BY DEF PageOf
<1>2. \A s \in ServersOf(source.table) :
        [title |-> TitleOf(s.title), url |-> Url(s.toolsUrl)] \in listed
  OBVIOUS
<1>3. blob.parses = TRUE /\ blob.servers = listed
  <2> HIDE DEF blob, found, listed
  <2>1. QED
    BY <1>1
<1>4. QED
  BY <1>2, <1>3

(* What leaves out no server of a page leaves out no record of its table.  *)
LEMMA RecordsLost == NothingLost => RecordsSaved
<1> SUFFICES ASSUME NothingLost, phase = "saved",
                    NEW source \in Sources, PageOf[source] \in SeqRange(blobs),
                    NEW i \in Indexes(source.table),
                    SaysText(source.table, i, "title"), SaysText(source.table, i, "toolsUrl"),
                    Said(source.table, i, "toolsUrl") # ""
             PROVE  \E j \in Settled :
                      servers[j] = [title |-> TitleOf(Said(source.table, i, "title")),
                                    url |-> Said(source.table, i, "toolsUrl")]
  BY DEF RecordsSaved
<1> DEFINE t == Said(source.table, i, "title")
           u == Said(source.table, i, "toolsUrl")
<1>1. source.table \in Seq(Node)
  BY SourcesAssumption
<1> DEFINE s == [title |-> t, toolsUrl |-> Text(u)]
<1>2. s \in ServersOf(source.table)
  BY <1>1, ListsRecords
<1>3. s.title = t /\ s.toolsUrl = Text(u)
  OBVIOUS
<1>4. Url(Text(u)) = u
  <2>1. u # ""
    OBVIOUS
  <2> HIDE DEF u
  <2>2. QED
    BY <2>1 DEF Url, Text
<1> HIDE DEF s, t, u
<1>5. [title |-> TitleOf(s.title), url |-> Url(s.toolsUrl)] \in PageOf[source].servers
  BY <1>2, PageLists
<1>6. [title |-> TitleOf(t), url |-> u] \in Parsed(blobs)
  <2>1. [title |-> TitleOf(t), url |-> u] \in PageOf[source].servers
    BY <1>3, <1>4, <1>5
  <2>2. QED
    BY <2>1, PageLists DEF Parsed
<1>7. [title |-> TitleOf(t), url |-> u] \in {servers[k] : k \in Settled}
  BY <1>6 DEF NothingLost
<1>8. QED
  BY <1>7 DEF t, u

-----------------------------------------------------------------------------
(* Every variable of the fetcher keeps to its range.                       *)
THEOREM CatalogTypeCorrect == Spec => []TypeOK
BY PoolInvHolds, PTL DEF PoolInv

(* Each server drawn is in one place, once (fetcher.js:354-378).           *)
THEOREM EachInOnePlace == Spec => []InOnePlace
BY PoolInvHolds, PTL DEF PoolInv

(* What is saved leaves out nothing of the pages that came                 *)
(* (fetcher.js:300-344, 381).                                              *)
THEOREM NothingIsLost == Spec => []NothingLost
BY PoolInvHolds, SavedIsWanted, PTL

(* What is saved has, for every record of a page that came with a title    *)
(* and a URL, a server of that title and URL, for every table of nodes     *)
(* that refer to one another (fetcher.js:87-190).                          *)
THEOREM RecordsAreSaved == Spec => []RecordsSaved
BY PoolInvHolds, SavedIsWanted, RecordsLost, PTL

(* The fetcher implements WorkPool, for any number of workers.             *)
THEOREM ImplementsPool == Spec => KeepsPool
<1>1. Init => Pool!Init
  <2> SUFFICES ASSUME Init PROVE Pool!Init
    OBVIOUS
  <2>1. Len(servers) = 0 /\ Settled = {} /\ phase = "listing"
    BY DEF Init, Settled, SeqRange
  <2>2. QED
    BY <2>1 DEF Pool!Init
<1>2. PoolInv /\ [Next]_vars => [Pool!Next]_(Pool!vars)
  BY StepKeepsPool
<1>3. QED
  BY <1>1, <1>2, PoolInvHolds, PTL DEF Spec, KeepsPool, Pool!Spec

(* The fetcher does not get stuck before it has saved: the turns of the    *)
(* workers never deadlock (fetcher.js:354-381).                            *)
THEOREM NeverStuck == Spec => []CanGoOn
BY PoolInvHolds, GoesOn, PTL DEF PoolInv

(* Nor does it go on for ever: pages are as many as asked for, and the     *)
(* pool runs out of work, failing requests included.                       *)
THEOREM FetcherRunsOut == Spec => [](WorkLeft \in Nat) /\ RunsOut
<1>1. PoolInv => WorkLeft \in Nat
  BY WorkLeftType DEF PoolInv
<1>2. PoolInv /\ [Next]_vars =>
        [\/ phase = "listing" /\ phase' = "listing" /\ page' = page + 1
         \/ phase = "listing" /\ phase' = "working"
         \/ phase = "working" /\ phase' = "working" /\ WorkLeft' < WorkLeft
         \/ phase = "working" /\ phase' = "saved"]_vars
  BY WorkLeftStep
<1>3. QED
  BY <1>1, <1>2, PoolInvHolds, PTL DEF Spec, RunsOut
=============================================================================
