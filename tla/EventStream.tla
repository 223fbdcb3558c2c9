----------------------------- MODULE EventStream -----------------------------
(***************************************************************************)
(* What a stream of lines says, without saying how it is read: blank lines *)
(* cut it into pieces, and a piece with data is an event.                  *)
(***************************************************************************)
EXTENDS Selection

Said == {"answer", "other"}  \* lines with data

Data(lines) == Select(lines, Said)

(* A piece begins at the start of the stream and after every blank line,   *)
(* and ends before the next one, or with the stream.                       *)
BeginsAt(lines, k) == k = 0 \/ lines[k] = "blank"

EndsAt(lines, k, e) ==
  /\ \A j \in k + 1 .. e : lines[j] # "blank"
  /\ e = Len(lines) \/ lines[e + 1] = "blank"

(* The event of the piece after line k, empty if none begins there or it   *)
(* says nothing.                                                           *)
EventAfter(lines, k) ==
  IF BeginsAt(lines, k)
  THEN Data(SubSeq(lines, k + 1, CHOOSE e \in k .. Len(lines) : EndsAt(lines, k, e)))
  ELSE <<>>

NonEmpty == Seq(Said) \ {<<>>}

(* The events of the pieces that begin after fewer than n lines.           *)
EventsUpTo(lines, n) == Select([k \in 1 .. n |-> EventAfter(lines, k - 1)], NonEmpty)

Events(lines) == EventsUpTo(lines, Len(lines) + 1)
=============================================================================
