------------------------------ MODULE JsonPath ------------------------------
(***************************************************************************)
(* The path language of pkg/adapter/pagination.go: parsePath, getPath and  *)
(* setPath.                                                                *)
(*                                                                         *)
(* A path is the sequence of its tokens, "a[0].b" the three a, [0] and b;  *)
(* empty segments vanish, so "." is the empty sequence.  A document is the *)
(* kind of what lies at each of its paths; what a leaf holds is up to the  *)
(* module that uses it.                                                    *)
(***************************************************************************)
EXTENDS Naturals, Sequences

Indices == {"[0]", "[1]"}
Unparsable == "["  \* a bracket left open, or around no number

NodeKinds == {"map", "list", "string", "number"}

Parent(path) == SubSeq(path, 1, Len(path) - 1)
Final(path) == path[Len(path)]

(* A set of paths with a kind each is a document if it has a root, and     *)
(* every other path leads from a map by a key or from a list by an index.  *)
IsDocument(doc) ==
  /\ <<>> \in DOMAIN doc
  /\ \A p \in DOMAIN doc :
       /\ doc[p] \in NodeKinds
       /\ p # <<>> => /\ Parent(p) \in DOMAIN doc
                      /\ doc[Parent(p)] = IF Final(p) \in Indices THEN "list" ELSE "map"

WellFormed(path) == \A k \in 1 .. Len(path) : path[k] # Unparsable

(* getPath: the walk goes through maps by key and lists by index, which in *)
(* a document leaves just one way for a path to lead somewhere.            *)
Found(doc, path) == WellFormed(path) /\ path \in DOMAIN doc

(* getStringPath: anything but a string reads as the empty string.         *)
ReadsString(doc, path) == Found(doc, path) /\ doc[path] = "string"

(* setPath: nothing is set without a last token, without a parent, or at   *)
(* an index that is not there; a key is created in a map if need be.       *)
Settable(doc, path) ==
  /\ WellFormed(path) /\ path # <<>>
  /\ Parent(path) \in DOMAIN doc
  /\ IF Final(path) \in Indices THEN path \in DOMAIN doc ELSE doc[Parent(path)] = "map"
=============================================================================
