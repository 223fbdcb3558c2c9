------------------------------ MODULE PageTable ------------------------------
(***************************************************************************)
(* parseMcpCatalog of src/fetcher.js: a page of the catalogue is a table   *)
(* of nodes that refer to one another by number, in circles too.  Each     *)
(* node is resolved once and cached, and the records that look like        *)
(* servers are listed.                                                     *)
(*                                                                         *)
(* The recursion is over functions, about which proofs are possible.       *)
(***************************************************************************)
EXTENDS Integers, Sequences

Names == {"title", "toolsUrl", "type", "readme", "source", "upstream"}

(* A value by what the listing asks of it: a text; nothing, null and all   *)
(* else that counts as false; any other thing; or, of an object, what its  *)
(* fields hold, objects in them being things.                              *)
Undefined == [kind |-> "undefined"]
Null == [kind |-> "null"]
Thing == [kind |-> "thing"]
Text(s) == [kind |-> "text", text |-> s]
Record(fields) == [kind |-> "record", fields |-> fields]

Leaf == {Undefined, Null, Thing} \cup [kind : {"text"}, text : STRING]
Object == [kind : {"record"}, fields : [Names -> Leaf]]
Value == Leaf \cup Object

(* A node by what it is on its own and by the references followed to       *)
(* resolve it, in order.  Those of an index map are names and values in    *)
(* turn; those of a list or of another object are all that is nested in it. *)
Node == [kind : {"leaf"}, is : Leaf, refs : {<<>>}]
          \cup [kind : {"bulk", "map"}, is : {Thing} \cup Object, refs : Seq(Int)]

Indexes(table) == 0 .. Len(table) - 1
At(table, i) == table[i + 1]

(* Mutant: the value is not kept when it is known.                         *)
StaysMarked(cache, i, v) == cache

-----------------------------------------------------------------------------
(* Resolving.  The cache has an entry for every node that was come across. *)
Absent == [kind |-> "absent"]

Caches(table) == [Indexes(table) -> Value \cup {Absent}]

(* What a reference gives.  It is read when all references of a node have  *)
(* been followed: by then its entry is as it was right after its turn.     *)
Read(cache, i) ==
  IF i < 0 THEN Null ELSE IF i \in DOMAIN cache THEN cache[i] ELSE Undefined

Shown(v) == IF v.kind = "record" THEN Thing ELSE v

(* Where in an index map a name stands; its value comes next, and of one   *)
(* name the last counts.                                                   *)
Places(refs, cache, name) ==
  {k \in 1 .. Len(refs) - 1 : k % 2 = 1 /\ Read(cache, refs[k]) = Text(name)}

LastOf(places) == CHOOSE k \in places : \A j \in places : j <= k

Decode(node, cache) ==
  IF node.kind # "map" THEN node.is
  ELSE Record([name \in Names |->
         LET places == Places(node.refs, cache, name)
         IN  IF places = {} THEN Undefined
             ELSE Shown(Read(cache, node.refs[LastOf(places) + 1]))])

(* While a node is being resolved it is undefined, which breaks circles.   *)
Marked(cache, i) == [cache EXCEPT ![i] = Undefined]

Known(cache, i, v) == [cache EXCEPT ![i] = v]

(* The references followed one after the other, each from the cache the    *)
(* one before it has left.                                                 *)
Follow(get, refs, cache) ==
  LET after[k \in 0 .. Len(refs)] ==
        IF k = 0 THEN cache ELSE get[refs[k]][after[k - 1]]
  IN  after[Len(refs)]

(* getFromTable: a node that is in the cache, or in no table, is left; for *)
(* any other the cache after it, its references followed by get.           *)
Resolve(table, get) ==
  [i \in Int |-> [cache \in Caches(table) |->
     IF i \notin Indexes(table) \/ cache[i] # Absent THEN cache
     ELSE LET node == At(table, i)
              found == Follow(get, node.refs, Marked(cache, i))
          IN  Known(found, i, Decode(node, found))]]

(* References are followed no deeper than the table is long, since each    *)
(* marks a node.                                                           *)
GetFromTable(table) ==
  LET get[depth \in 0 .. Len(table)] ==
        IF depth = 0 THEN [i \in Int |-> [cache \in Caches(table) |-> cache]]
        ELSE Resolve(table, get[depth - 1])
  IN  get[Len(table)]

Decoded(table) ==
  Follow(GetFromTable(table), [k \in 1 .. Len(table) |-> k - 1],
         [i \in Indexes(table) |-> Absent])

-----------------------------------------------------------------------------
(* Listing.                                                                *)

Truthy(v) == v \notin {Null, Undefined, Text("")}

LooksLikeServer(fields) ==
  /\ \/ fields["type"] = Text("server")
     \/ \E name \in {"toolsUrl", "readme", "source", "upstream"} : Truthy(fields[name])
  /\ fields["title"].kind = "text"

(* The servers of a page, by title and by URL, which is null if not text.  *)
(* Those the code drops as repeated are equal in both, if texts are free   *)
(* of the bar it joins them by.                                            *)
ServersOf(table) ==
  {[title |-> v.fields["title"].text,
    toolsUrl |-> IF v.fields["toolsUrl"].kind = "text" THEN v.fields["toolsUrl"] ELSE Null] :
     v \in {x \in {Decoded(table)[i] : i \in Indexes(table)} :
              x.kind = "record" /\ LooksLikeServer(x.fields)}}
=============================================================================
