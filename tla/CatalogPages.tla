---------------------------- MODULE CatalogPages ----------------------------
(***************************************************************************)
(* The fetcher with the tables its pages are made of: what a page lists is *)
(* what parseMcpCatalog makes of its table (src/fetcher.js).               *)
(***************************************************************************)
EXTENDS CatalogFetch, PageTable

CONSTANTS
  Sources,    \* pages that parse: a table each, and the URLs found in its text
  TitleOf(_)  \* the place of a text among the titles

ASSUME SourcesAssumption ==
  Sources \subseteq [table : Seq(Node), urls : SUBSET Urls]

Url(v) == IF v.kind = "text" /\ v # Text("") THEN v.text ELSE NoUrl

PageOf ==
  [source \in Sources |->
     [parses |-> TRUE, urls |-> source.urls,
      servers |-> {[title |-> TitleOf(s.title), url |-> Url(s.toolsUrl)] :
                     s \in ServersOf(source.table)}]]

-----------------------------------------------------------------------------
(* What a table says of itself before anything is resolved: which nodes    *)
(* are texts, and where in an index map a name stands.                     *)
IsText(table, i) == i \in Indexes(table) /\ At(table, i).is.kind = "text"

IsName(table, i, name) == IsText(table, i) /\ At(table, i).is.text = name

NamePlaces(table, refs, name) ==
  {k \in 1 .. Len(refs) - 1 : k % 2 = 1 /\ IsName(table, refs[k], name)}

(* The reference an index map has under a name.                            *)
Under(table, i, name) ==
  LET refs == At(table, i).refs
  IN  refs[LastOf(NamePlaces(table, refs, name)) + 1]

SaysText(table, i, name) ==
  /\ At(table, i).kind = "map"
  /\ NamePlaces(table, At(table, i).refs, name) # {}
  /\ IsText(table, Under(table, i, name))

Said(table, i, name) == At(table, Under(table, i, name)).is.text

(* What is saved has, for every record of the table of a page that came    *)
(* with a title and a URL, a server of that title and URL, in whatever     *)
(* circles the table refers to itself and in whatever order it is resolved *)
(* (fetcher.js:87-190).                                                    *)
RecordsSaved ==
  phase = "saved" =>
    \A source \in {x \in Sources : PageOf[x] \in SeqRange(blobs)} :
      \A i \in Indexes(source.table) :
        LET says(name) == SaysText(source.table, i, name)
            said(name) == Said(source.table, i, name)
        IN  says("title") /\ says("toolsUrl") /\ said("toolsUrl") # ""
              => \E j \in Settled :
                   servers[j] = [title |-> TitleOf(said("title")), url |-> said("toolsUrl")]
=============================================================================
