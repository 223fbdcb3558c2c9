--------------------------- MODULE MCCatalogFetch ---------------------------
(* CatalogPages with the pages TLC tries: servers with and without a URL,  *)
(* two of one title, one of two titles, pages that do not parse.           *)
EXTENDS CatalogPages

SomeUrls == {"a.json", "b.json"}
SomeTitles == {1, 2}
Files == [u \in SomeUrls |-> IF u = "a.json" THEN 1 ELSE 2]
TitleAt(text) == IF text = "alpha" THEN 1 ELSE 2

(* The nodes of tables.                                                    *)
Word(s) == [kind |-> "leaf", is |-> Text(s), refs |-> <<>>]
Refs(refs) == [kind |-> "bulk", is |-> Thing, refs |-> refs]
IndexMap(refs) == [kind |-> "map", is |-> Thing, refs |-> refs]

(* Tables start with three names and the texts most records share.         *)
Table(nodes) ==
  <<Word("title"), Word("toolsUrl"), Word("type"), Word("related"),
    Word("alpha"), Word("beta"), Word("a.json"), Word("server")>> \o nodes

(* A record whose URL is absent (-5 stands for a null).                    *)
Alone == Table(<<IndexMap(<<0, 4,  1, 6,  3, -5>>)>>)

(* Three servers that refer to one another in circles, a list before them  *)
(* all, and one record without a URL and a title under each of two names.  *)
Circle == Table(<<
  Refs(<<9, 10, 11, -5>>),
  IndexMap(<<0, 4,  3, 12,  1, 6>>),
  IndexMap(<<3, 12,  1, 13,  0, 4>>),
  IndexMap(<<2, 7,  0, 4,  3, 8,  14, 5>>),
  Refs(<<10, 9>>),
  Word("b.json"),
  Word("title")>>)

(* One URL under two titles, below an object that is no index map.         *)
Twice == Table(<<
  [Refs(<<9, 10>>) EXCEPT !.is = [kind |-> "record", fields |-> [n \in Names |-> Undefined]]],
  IndexMap(<<0, 4,  1, 6>>),
  IndexMap(<<1, 6,  0, 5>>)>>)

(* A server without a URL, and a record that is none.                      *)
Bare == Table(<<
  IndexMap(<<0, 4,  2, 7>>),
  IndexMap(<<0, 5,  3, 9>>)>>)

SomeSources ==
  {[table |-> Alone, urls |-> {"a.json"}], [table |-> Circle, urls |-> {"a.json", "b.json"}],
   [table |-> Twice, urls |-> {}], [table |-> Bare, urls |-> {"a.json"}]}

PagesTried ==
  {PageOf[source] : source \in Sources}
    \cup {[parses |-> FALSE, servers |-> {[title |-> 1, url |-> "b.json"]}, urls |-> {"b.json"}]}

(* TLC evaluates a constant's value at each use, but the definitions that  *)
(* value names only once.                                                  *)
SomeBlobs == PagesTried
TheSources == SomeSources
=============================================================================
