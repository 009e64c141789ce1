----------------------------- MODULE PassThrough ----------------------------
(***************************************************************************)
(* What the gateway promises for a streamed answer: the client gets the    *)
(* provider's lines unchanged, in whole events, in order, from the first   *)
(* on, and an answer is called complete only if nothing is missing.        *)
(***************************************************************************)
EXTENDS Naturals, Sequences

CONSTANT Lines

VARIABLES
  sent,     \* the lines the provider has sent
  ended,    \* the provider has ended the answer
  got,      \* the lines the client has got
  there,    \* the client is still there
  state     \* "open", "complete" or "cut"

vars == <<sent, ended, got, there, state>>

Init ==
  /\ sent = <<>> /\ got = <<>>
  /\ ended = FALSE /\ there = TRUE
  /\ state = "open"

Send(l) ==
  /\ ~ended
  /\ sent' = Append(sent, l)
  /\ UNCHANGED <<ended, got, there, state>>

End ==
  /\ ended' = TRUE
  /\ UNCHANGED <<sent, got, there, state>>

Leave ==
  /\ there' = FALSE
  /\ UNCHANGED <<sent, ended, got, state>>

\* The end of an event, or of an answer whose last event has no blank line.
Boundary(n) ==
  /\ n \in 1..Len(sent)
  /\ sent[n] = "blank" \/ (ended /\ n = Len(sent))

Deliver ==
  /\ state = "open" /\ there
  /\ \E n \in Len(got) + 1 .. Len(sent) : Boundary(n) /\ got' = SubSeq(sent, 1, n)
  /\ UNCHANGED <<sent, ended, there, state>>

Complete ==
  /\ state = "open" /\ ended
  /\ there => got = sent
  /\ state' = "complete"
  /\ UNCHANGED <<sent, ended, got, there>>

Cut ==
  /\ state = "open"
  /\ state' = "cut"
  /\ UNCHANGED <<sent, ended, got, there>>

Next == (\E l \in Lines : Send(l)) \/ End \/ Leave \/ Deliver \/ Complete \/ Cut

Spec == Init /\ [][Next]_vars

-----------------------------------------------------------------------------
\* What this comes to for the client.

\* It has a beginning of the answer, up to the end of an event; and if the
\* answer is called complete while it is still there, it has all of it.
WholeEvents ==
  /\ Len(got) <= Len(sent) /\ got = SubSeq(sent, 1, Len(got))
  /\ got = <<>> \/ Boundary(Len(got))
  /\ state = "complete" => ended /\ (there => got = sent)

\* What it has got is not taken back.
OnlyGrows == [][Len(got) <= Len(got') /\ got = SubSeq(got', 1, Len(got))]_got
=============================================================================
