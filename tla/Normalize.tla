----------------------------- MODULE Normalize -----------------------------
(***************************************************************************)
(* pkg/adapter/normalize.go: where in an MCP result the payload is looked  *)
(* for, and where an aggregated payload is written back.                   *)
(*                                                                         *)
(* A result is seen by its texts alone.  A text is "none" where there is   *)
(* no string, "prose" if it is no JSON object or list, "page" the JSON of  *)
(* one page, "all" the JSON of an aggregate.  A payload is the sequence of *)
(* what was parsed: empty for nil, one for that one, more for a list.      *)
(***************************************************************************)
EXTENDS Naturals, Sequences, Selection

Json == {"page", "all"}
Text == {"none", "prose"} \cup Json

(* A part of a result: its text, and the texts of the items of its data.   *)
Part == [text : Text, data : Seq(Text)]

(* A result: SSE frames, a string, or a map, which is a part itself and    *)
(* has the parts of its result.content; a content that is a map is like a  *)
(* list of one.                                                            *)
Form == [kind : {"frames", "string", "map"}, top : Part, content : Seq(Part)]

-----------------------------------------------------------------------------
IsJson(t) == t \in Json

ParseText(t) == IF IsJson(t) THEN <<t>> ELSE <<>>

(* parseDataItemJSON: every item whose text is JSON.                       *)
ParseData(part) == Select(part.data, Json)

ParsePart(part) ==
  IF ParseData(part) # <<>> THEN ParseData(part) ELSE ParseText(part.text)

(* The parts with something to parse, and the first of some parts.         *)
Parsing(content) == {k \in 1 .. Len(content) : ParsePart(content[k]) # <<>>}

Foremost(positions) == CHOOSE k \in positions : \A j \in positions : k <= j

ParseContent(content) ==
  IF Parsing(content) # {} THEN ParsePart(content[Foremost(Parsing(content))]) ELSE <<>>

(* normalizeMCPResult: the payload, with data before text and the result   *)
(* itself before its content.                                              *)
PayloadOf(form) ==
  CASE form.kind = "frames" -> <<>>
    [] form.kind = "string" -> ParseText(form.top.text)
    [] OTHER -> IF ParsePart(form.top) # <<>> THEN ParsePart(form.top)
                ELSE ParseContent(form.content)

-----------------------------------------------------------------------------
(* updateContentMap: the text if there is one, JSON or not, else the text  *)
(* of the first data item.                                                 *)
Writable(content) ==
  {k \in 1 .. Len(content) :
     \/ content[k].text # "none"
     \/ content[k].data # <<>> /\ content[k].data[1] # "none"}

WritePart(part, new) ==
  IF part.text # "none" THEN [part EXCEPT !.text = new] ELSE [part EXCEPT !.data[1] = new]

(* updateNormalizedWithParsed: the first part of the content that can be   *)
(* written, if any; the result itself never is.                            *)
Rewrite(form, new) ==
  IF form.kind = "map" /\ Writable(form.content) # {}
  THEN [form EXCEPT !.content[Foremost(Writable(form.content))] = WritePart(@, new)]
  ELSE form
=============================================================================
