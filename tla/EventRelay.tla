----------------------------- MODULE EventRelay -----------------------------
(***************************************************************************)
(* A streamed answer on its way through the gateway: the lines the provider*)
(* sends, SSEReader.Next that collects them into events, and the loop of   *)
(* handleStream that writes each event to the client.  The provider, the   *)
(* client and the request's context go their own way meanwhile.            *)
(***************************************************************************)
EXTENDS Naturals, Sequences

CONSTANT MaxLines    \* bound: the lines of an answer

Lines == {"data", "blank"}

VARIABLES
  sent,       \* the lines the provider has sent
  upstream,   \* the provider's connection: "open", "ended" or "broken"
  ctx,        \* the request's context: "live" or "over"
  client,     \* "there" or "gone"
  read,       \* how many lines the reader has taken
  buf,        \* the lines of the event being collected
  got,        \* the lines the client has got
  relay       \* where handleStream is

environment == <<sent, upstream, ctx, client>>
reader == <<read, buf, got, relay>>
vars == <<sent, upstream, ctx, client, read, buf, got, relay>>

RelayStates == {"off", "next", "reading", "writing", "complete", "cut"}

Init ==
  /\ sent = <<>> /\ upstream = "open"
  /\ ctx = "live" /\ client = "there"
  /\ read = 0 /\ buf = <<>> /\ got = <<>>
  /\ relay = "off"

-----------------------------------------------------------------------------
(* The environment *)

ProviderSends(l) ==
  /\ relay # "off" /\ upstream = "open" /\ Len(sent) < MaxLines
  /\ sent' = Append(sent, l)
  /\ UNCHANGED <<upstream, ctx, client, reader>>

ProviderStops(how) ==
  /\ relay # "off" /\ upstream = "open"
  /\ upstream' = how
  /\ UNCHANGED <<sent, ctx, client, reader>>

\* The server cancels the context when it notices that the client is gone.
ClientLeaves ==
  /\ client = "there"
  /\ client' = "gone"
  /\ UNCHANGED <<sent, upstream, ctx, reader>>

\* The timeout of the router is over, or the client's connection.
ContextEnds ==
  /\ ctx = "live"
  /\ ctx' = "over"
  /\ UNCHANGED <<sent, upstream, client, reader>>

-----------------------------------------------------------------------------
(* handleStream *)

Start ==
  /\ relay = "off"
  /\ relay' = "next"
  /\ UNCHANGED <<environment, read, buf, got>>

\* Faulty Next_CheckContext: the buffer is not reset.
Next_KeepBuffer ==
  /\ relay = "next"
  /\ relay' = IF ctx = "over" THEN "cut" ELSE "reading"
  /\ UNCHANGED <<environment, read, buf, got>>

\* Next looks at the context before it reads, and starts a new event.
Next_CheckContext ==
  /\ relay = "next"
  /\ relay' = IF ctx = "over" THEN "cut" ELSE "reading"
  /\ buf' = <<>>
  /\ UNCHANGED <<environment, read, got>>

\* A blank line ends the event, unless it is the first line of it.
Next_ReadLine ==
  /\ relay = "reading" /\ read < Len(sent)
  /\ read' = read + 1
  /\ buf' = Append(buf, sent[read + 1])
  /\ relay' = IF sent[read + 1] = "blank" /\ buf # <<>> THEN "writing" ELSE "reading"
  /\ UNCHANGED <<environment, got>>

\* Faulty Next_AtEnd: what has been collected is dropped.
Next_DropLast ==
  /\ relay = "reading" /\ read = Len(sent) /\ upstream = "ended"
  /\ relay' = "complete"
  /\ UNCHANGED <<environment, read, buf, got>>

\* At the end, what has been collected is the last event; then, Next says so.
Next_AtEnd ==
  /\ relay = "reading" /\ read = Len(sent) /\ upstream = "ended"
  /\ relay' = IF buf = <<>> THEN "complete" ELSE "writing"
  /\ UNCHANGED <<environment, read, buf, got>>

\* Faulty Next_Fails: the connection is not bound to the request's context.
Next_FailsAlone ==
  /\ relay = "reading"
  /\ upstream = "broken"
  /\ relay' = "cut"
  /\ UNCHANGED <<environment, read, buf, got>>

\* An error of the connection, which the end of the context is one of: what
\* has been collected is lost.
Next_Fails ==
  /\ relay = "reading"
  /\ upstream = "broken" \/ ctx = "over"
  /\ relay' = "cut"
  /\ UNCHANGED <<environment, read, buf, got>>

WriteEvent ==
  /\ relay = "writing" /\ client = "there"
  /\ got' = got \o buf
  /\ relay' = "next"
  /\ UNCHANGED <<environment, read, buf>>

\* To a client that is gone a write may still be taken by the socket.
WriteToNobody ==
  /\ relay = "writing" /\ client = "gone"
  /\ relay' \in {"next", "cut"}
  /\ UNCHANGED <<environment, read, buf, got>>

Handle ==
  \/ Next_CheckContext \/ Next_ReadLine \/ Next_AtEnd \/ Next_Fails
  \/ WriteEvent \/ WriteToNobody

Environment ==
  \/ \E l \in Lines : ProviderSends(l)
  \/ \E how \in {"ended", "broken"} : ProviderStops(how)
  \/ ClientLeaves \/ ContextEnds

Next == Start \/ Handle \/ Environment

Spec == Init /\ [][Next]_vars

-----------------------------------------------------------------------------
(* Properties *)

TypeOK ==
  /\ sent \in Seq(Lines)
  /\ upstream \in {"open", "ended", "broken"}
  /\ ctx \in {"live", "over"} /\ client \in {"there", "gone"}
  /\ read \in 0..Len(sent)
  /\ buf \in Seq(Lines) /\ got \in Seq(Lines)
  /\ relay \in RelayStates

\* What the client has, and what the reader holds, is what has been read.
Held == IF relay \in {"reading", "writing"} THEN buf ELSE <<>>

NothingLost ==
  client = "there" /\ relay # "cut" => got \o Held = SubSeq(sent, 1, read)

\* PassThrough is what the relay implements: handleStream writes each event
\* unchanged, and audits the answer as streamed only at its end.
P == INSTANCE PassThrough WITH
       ended <- upstream = "ended",
       there <- client = "there",
       state <- CASE relay = "complete" -> "complete"
                  [] relay = "cut"      -> "cut"
                  [] OTHER              -> "open"

Relayed == P!Spec
=============================================================================
