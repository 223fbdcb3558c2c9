---------------------------- MODULE MCMessageRun ----------------------------
(* MessageRun with the results and payloads TLC tries.                     *)
EXTENDS MessageRun, TLC

P(text, data) == [text |-> text, data |-> data]
Nothing == P("none", <<>>)
Result(top, content) == [kind |-> "map", top |-> top, content |-> content]

(* What Slack's server sends: one text, JSON (pagination_test.go).         *)
Common == Result(Nothing, << P("page", <<>>) >>)

Parts == { Nothing, P("prose", <<>>), P("page", <<>>), P("none", <<"page">>),
           P("none", <<"prose", "page">>), P("page", <<"prose">>) }

SomeForms ==
  { Result(Nothing, c) : c \in {<<>>} \cup Parts \X Parts \cup {<<p>> : p \in Parts} }
  \cup { Result(P("none", <<"page">>), << P("prose", <<>>) >>),
         Result(P("page", <<>>), << P("page", <<>>) >>),
         Result(P("none", <<"page", "page">>), <<>>),
         [kind |-> "string", top |-> P("page", <<>>), content |-> <<>>],
         [kind |-> "frames", top |-> Nothing, content |-> <<>>] }

(* Paths and payloads: both at the top; both deeper down; in a list; the   *)
(* list the root itself; a cursor that is a number; one that is not there, *)
(* its parent likewise; items that are no list; a path or a setting that   *)
(* is none.                                                                *)
At(path, k) == path :> k
Tree(root, nodes) == (<<>> :> root) @@ nodes
L(doc, items_, cursor_) == [doc |-> doc, items |-> items_, cursor |-> cursor_, complete |-> TRUE]

FlatDoc == Tree("map", At(<<"items">>, "list") @@ At(<<"next">>, "string"))
Flat == L(FlatDoc, <<"items">>, <<"next">>)
Deep ==
  L(Tree("map", At(<<"data">>, "map") @@ At(<<"data", "items">>, "list")
                @@ At(<<"meta">>, "map") @@ At(<<"meta", "next">>, "string")),
    <<"data", "items">>, <<"meta", "next">>)
Listed ==
  L(Tree("list", At(<<"[0]">>, "map") @@ At(<<"[0]", "items">>, "list")
                 @@ At(<<"[0]", "next">>, "string")),
    <<"[0]", "items">>, <<"[0]", "next">>)

SomeLayouts ==
  { Flat, Deep, Listed, [Flat EXCEPT !.complete = FALSE], [Flat EXCEPT !.items = <<"[">>],
    [Flat EXCEPT !.cursor = <<"items", "[0]">>], [Flat EXCEPT !.cursor = <<"meta", "next">>],
    [Flat EXCEPT !.doc[<<"next">>] = "number"], [Flat EXCEPT !.items = <<"next">>],
    [Listed EXCEPT !.items = <<>>] }

Chain == [p \in 1 .. Pages |-> (p + 1) % (Pages + 1)]

One == [m \in Messages |-> IF m = 1 THEN "inputs" ELSE "empty"]

(* Every sequence of messages with a plain result; with one message, every *)
(* graph of pages; and with a chain of pages every result and layout.      *)
MCInit ==
  /\ RunInit
  /\ \/ form = Common /\ layout = Flat /\ (next = Chain \/ kind = One)
     \/ next = Chain /\ kind = One /\ (form = Common \/ layout = Flat)

MCSpec == MCInit /\ [][RunNext]_runVars /\ WF_runVars(Goroutine)
=============================================================================
