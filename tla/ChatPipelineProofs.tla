------------------------- MODULE ChatPipelineProofs -------------------------
(***************************************************************************)
(* What TLAPS proves of the request pipeline, for any requests, bodies and *)
(* verdicts: refused requests are not sent, the provider finds one         *)
(* credential, the audit line is true, a masked body says what the masked  *)
(* messages say and nothing else is changed, and an answer is relayed      *)
(* whole.                                                                  *)
(***************************************************************************)
EXTENDS ChatPipeline, SequenceTheorems, WellFoundedInduction, TLAPS

(* The streamed answer *)

\* The buffer holds lines that have been read.
BufferWasRead == buf # <<>> => read >= 1

\* What is being written is a whole event.
EventIsWhole ==
  relay = "writing" =>
    /\ buf # <<>>
    /\ sent[read] = "blank" \/ (upstream = "ended" /\ read = Len(sent))

RelayInv == R!TypeOK /\ R!NothingLost /\ BufferWasRead /\ EventIsWhole

-----------------------------------------------------------------------------

\* What the provider sends later leaves what has been read as it was.
LEMMA PrefixStays ==
  ASSUME NEW s \in Seq(R!Lines), NEW l \in R!Lines, NEW n \in 0..Len(s)
  PROVE  /\ SubSeq(Append(s, l), 1, n) = SubSeq(s, 1, n)
         /\ n >= 1 => Append(s, l)[n] = s[n]
<1>1. /\ Append(s, l) \in Seq(R!Lines) /\ Len(Append(s, l)) = Len(s) + 1
      /\ \A i \in 1..Len(s) : Append(s, l)[i] = s[i]
  BY AppendProperties
<1>2. n \in Nat /\ Len(s) \in Nat /\ n <= Len(s)
  BY LenProperties
<1>3. /\ SubSeq(Append(s, l), 1, n) \in Seq(R!Lines) /\ SubSeq(s, 1, n) \in Seq(R!Lines)
      /\ Len(SubSeq(Append(s, l), 1, n)) = n /\ Len(SubSeq(s, 1, n)) = n
      /\ \A i \in 1..n : SubSeq(Append(s, l), 1, n)[i] = Append(s, l)[i]
      /\ \A i \in 1..n : SubSeq(s, 1, n)[i] = s[i]
  BY <1>1, <1>2
<1>4. \A i \in 1..n : SubSeq(Append(s, l), 1, n)[i] = SubSeq(s, 1, n)[i]
  BY <1>1, <1>2, <1>3
<1> QED
  BY <1>1, <1>2, <1>3, <1>4, SeqEqual

\* One more line read is one more line of the prefix.
LEMMA AppendAfterConcat ==
  ASSUME NEW L, NEW g \in Seq(L), NEW b \in Seq(L), NEW x \in L
  PROVE  g \o Append(b, x) = Append(g \o b, x)
  OBVIOUS

LEMMA PrefixGrows ==
  ASSUME NEW s \in Seq(R!Lines), NEW g \in Seq(R!Lines), NEW b \in Seq(R!Lines),
         NEW n \in Nat, n < Len(s), g \o b = SubSeq(s, 1, n)
  PROVE  g \o Append(b, s[n + 1]) = SubSeq(s, 1, n + 1)
<1>1. Len(s) \in Nat /\ 1 \in 1..Len(s) /\ n + 1 \in 1..Len(s) /\ (n + 1) - 1 = n
  BY LenProperties
<1>2. s[n + 1] \in R!Lines /\ SubSeq(s, 1, n) \in Seq(R!Lines)
  BY <1>1, ElementOfSeq
<1>3. ASSUME NEW x \in R!Lines PROVE g \o Append(b, x) = Append(g \o b, x)
  BY AppendAfterConcat
<1>4. SubSeq(s, 1, n + 1) = SubSeq(s, 1, (n + 1) - 1) \o <<s[n + 1]>>
  BY <1>1, SubSeqRecursiveSecond
<1>5. Append(SubSeq(s, 1, n), s[n + 1]) = SubSeq(s, 1, n) \o <<s[n + 1]>>
  BY <1>2, AppendIsConcat
<1> QED
  BY <1>1, <1>2, <1>3, <1>4, <1>5

-----------------------------------------------------------------------------

LEMMA InitRelay == R!Init => RelayInv
<1> SUFFICES ASSUME R!Init PROVE RelayInv OBVIOUS
<1>1. <<>> \in Seq(R!Lines) /\ Len(<<>>) = 0
  BY EmptySeq
<1>2. <<>> \o <<>> = <<>> /\ SubSeq(<<>>, 1, 0) = <<>>
  BY ConcatEmptySeq, <1>1, SubSeqEmpty
<1>3. R!TypeOK
  BY <1>1 DEF R!Init, R!TypeOK, R!RelayStates
<1>4. R!NothingLost
  BY <1>2 DEF R!Init, R!NothingLost, R!Held
<1>5. EventIsWhole
  BY DEF R!Init, EventIsWhole
<1>6. BufferWasRead
  BY DEF R!Init, BufferWasRead
<1> QED
  BY <1>3, <1>4, <1>5, <1>6 DEF RelayInv

LEMMA NextRelay == RelayInv /\ [R!Next]_(R!vars) => RelayInv'
<1> SUFFICES ASSUME RelayInv, [R!Next]_(R!vars) PROVE RelayInv'
  OBVIOUS
<1> USE DEF RelayInv, BufferWasRead, R!environment, R!reader
<1>1. ASSUME NEW l \in R!Lines, R!ProviderSends(l) PROVE RelayInv'
  <2>1. /\ sent \in Seq(R!Lines) /\ read \in 0..Len(sent) /\ sent' = Append(sent, l)
        /\ UNCHANGED <<upstream, ctx, client, read, buf, got, relay>>
        /\ upstream = "open"
    BY <1>1 DEF R!ProviderSends, R!TypeOK
  <2>2. /\ SubSeq(sent', 1, read) = SubSeq(sent, 1, read)
        /\ read >= 1 => sent'[read] = sent[read]
    BY <2>1, PrefixStays
  <2>3. sent' \in Seq(R!Lines) /\ Len(sent') = Len(sent) + 1
    BY <2>1, AppendProperties
  <2>4. R!TypeOK'
    BY <2>1, <2>3, LenProperties DEF R!TypeOK
  <2>5. R!NothingLost'
    BY <2>1, <2>2 DEF R!NothingLost, R!Held
  <2>6. EventIsWhole'
    BY <2>1, <2>2 DEF EventIsWhole
  <2> QED
    BY <2>1, <2>4, <2>5, <2>6
<1>2. ASSUME NEW how \in {"ended", "broken"}, R!ProviderStops(how) PROVE RelayInv'
  BY <1>2 DEF R!ProviderStops, R!TypeOK, R!NothingLost, R!Held, EventIsWhole
<1>3. CASE R!ClientLeaves
  BY <1>3 DEF R!ClientLeaves, R!TypeOK, R!NothingLost, R!Held, EventIsWhole
<1>4. CASE R!ContextEnds
  BY <1>4 DEF R!ContextEnds, R!TypeOK, R!NothingLost, R!Held, EventIsWhole
<1>5. CASE R!Start
  BY <1>5 DEF R!Start, R!TypeOK, R!RelayStates, R!NothingLost, R!Held, EventIsWhole
<1>6. CASE R!Next_CheckContext
  <2>1. /\ relay = "next" /\ relay' \in {"cut", "reading"} /\ buf' = <<>>
        /\ UNCHANGED <<sent, upstream, ctx, client, read, got>>
    BY <1>6 DEF R!Next_CheckContext
  <2>2. <<>> \in Seq(R!Lines)
    BY EmptySeq
  <2>3. R!TypeOK'
    BY <2>1, <2>2 DEF R!TypeOK, R!RelayStates
  <2>4. R!NothingLost'
    BY <2>1 DEF R!NothingLost, R!Held
  <2>5. EventIsWhole'
    BY <2>1 DEF EventIsWhole
  <2> QED
    BY <2>1, <2>3, <2>4, <2>5
<1>7. CASE R!Next_ReadLine
  <2> DEFINE line == sent[read + 1]
  <2>1. /\ relay = "reading" /\ read < Len(sent) /\ read' = read + 1
        /\ buf' = Append(buf, line)
        /\ relay' \in {"writing", "reading"}
        /\ relay' = "writing" => line = "blank"
        /\ UNCHANGED <<sent, upstream, ctx, client, got>>
    BY <1>7 DEF R!Next_ReadLine
  <2>2. /\ sent \in Seq(R!Lines) /\ got \in Seq(R!Lines) /\ buf \in Seq(R!Lines)
        /\ read \in Nat /\ Len(sent) \in Nat
    BY LenProperties DEF R!TypeOK
  <2>3. line \in R!Lines /\ read + 1 \in 0..Len(sent) /\ read + 1 >= 1
    BY <2>1, <2>2, ElementOfSeq
  <2>4. buf' \in Seq(R!Lines) /\ buf' # <<>>
    BY <2>1, <2>2, <2>3, AppendProperties
  <2>5. R!TypeOK'
    BY <2>1, <2>3, <2>4 DEF R!TypeOK, R!RelayStates
  <2>6. ASSUME client = "there" PROVE got \o buf' = SubSeq(sent, 1, read')
    <3>1. got \o buf = SubSeq(sent, 1, read)
      BY <2>1, <2>6 DEF R!NothingLost, R!Held
    <3> QED
      BY <2>1, <2>2, <3>1, PrefixGrows
  <2>7. R!NothingLost'
    BY <2>1, <2>6 DEF R!NothingLost, R!Held
  <2>8. EventIsWhole'
    BY <2>1, <2>3, <2>4 DEF EventIsWhole
  <2> QED
    BY <2>1, <2>2, <2>5, <2>7, <2>8
<1>8. CASE R!Next_AtEnd
  <2>1. /\ relay = "reading" /\ read = Len(sent) /\ upstream = "ended"
        /\ \/ buf = <<>> /\ relay' = "complete"
           \/ buf # <<>> /\ relay' = "writing"
        /\ UNCHANGED <<sent, upstream, ctx, client, read, buf, got>>
    BY <1>8 DEF R!Next_AtEnd
  <2>2. sent \in Seq(R!Lines) /\ buf \in Seq(R!Lines) /\ Len(sent) \in Nat
    BY LenProperties DEF R!TypeOK
  <2> QED
    BY <2>1, <2>2 DEF R!TypeOK, R!RelayStates, R!NothingLost, R!Held, EventIsWhole
<1>9. CASE R!Next_Fails
  BY <1>9 DEF R!Next_Fails, R!TypeOK, R!RelayStates, R!NothingLost, R!Held, EventIsWhole
<1>10. CASE R!WriteEvent
  <2>1. /\ relay = "writing" /\ client = "there" /\ relay' = "next"
        /\ got' = got \o buf
        /\ UNCHANGED <<sent, upstream, ctx, client, read, buf>>
    BY <1>10 DEF R!WriteEvent
  <2>2. got \in Seq(R!Lines) /\ buf \in Seq(R!Lines) /\ got' \in Seq(R!Lines)
    BY <2>1, ConcatProperties DEF R!TypeOK
  <2>3. got' \o <<>> = got' /\ got' = SubSeq(sent, 1, read)
    BY <2>1, <2>2, ConcatEmptySeq DEF R!NothingLost, R!Held
  <2> QED
    BY <2>1, <2>2, <2>3 DEF R!TypeOK, R!RelayStates, R!NothingLost, R!Held, EventIsWhole
<1>11. CASE R!WriteToNobody
  BY <1>11 DEF R!WriteToNobody, R!TypeOK, R!RelayStates, R!NothingLost, R!Held, EventIsWhole
<1>12. CASE UNCHANGED R!vars
  BY <1>12 DEF R!vars, R!TypeOK, R!NothingLost, R!Held, EventIsWhole
<1> QED
  BY <1>1, <1>2, <1>3, <1>4, <1>5, <1>6, <1>7, <1>8, <1>9, <1>10, <1>11, <1>12
  DEF R!Next, R!Handle, R!Environment

-----------------------------------------------------------------------------

\* SSEReader and handleStream keep their variables in shape, for answers of
\* any length.
THEOREM RelayTypeCorrect == R!Spec => []R!TypeOK
<1>1. RelayInv => R!TypeOK
  BY DEF RelayInv
<1> QED
  BY InitRelay, NextRelay, <1>1, PTL DEF R!Spec

\* No line is lost, doubled or moved on its way: what the client has and what
\* the reader holds is what the reader has taken.
THEOREM RelayLosesNothing == R!Spec => []R!NothingLost
<1>1. RelayInv => R!NothingLost
  BY DEF RelayInv
<1> QED
  BY InitRelay, NextRelay, <1>1, PTL DEF R!Spec

-----------------------------------------------------------------------------

LEMMA RelayInitPasses == R!Init => R!P!Init
BY DEF R!Init, R!P!Init

\* The loop is complete only when everything the provider has sent is with a
\* client that stayed.
LEMMA CompleteHasAll ==
  ASSUME RelayInv, R!Handle, relay' = "complete"
  PROVE  /\ relay = "reading" /\ upstream = "ended"
         /\ client = "there" => got = sent
         /\ UNCHANGED <<sent, upstream, client, got>>
<1> USE DEF R!environment
<1>1. R!Next_AtEnd /\ buf = <<>>
  BY DEF R!Handle, R!Next_CheckContext, R!Next_ReadLine, R!Next_AtEnd, R!Next_Fails,
         R!WriteEvent, R!WriteToNobody
<1>2. /\ relay = "reading" /\ read = Len(sent) /\ upstream = "ended"
      /\ UNCHANGED <<sent, upstream, client, got>>
  BY <1>1 DEF R!Next_AtEnd
<1>3. ASSUME client = "there" PROVE got = sent
  <2>1. got \o <<>> = SubSeq(sent, 1, Len(sent))
    BY <1>1, <1>2, <1>3 DEF RelayInv, R!NothingLost, R!Held
  <2>2. got \in Seq(R!Lines) /\ sent \in Seq(R!Lines)
    BY DEF RelayInv, R!TypeOK
  <2> QED
    BY <2>1, <2>2, ConcatEmptySeq, SubSeqFull
<1> QED
  BY <1>2, <1>3

LEMMA RelayNextPasses == RelayInv /\ [R!Next]_(R!vars) => [R!P!Next]_(R!P!vars)
<1> SUFFICES ASSUME RelayInv, [R!Next]_(R!vars) PROVE R!P!Next \/ UNCHANGED R!P!vars
  OBVIOUS
<1> USE DEF R!environment, R!reader
<1>1. ASSUME NEW l \in R!Lines, R!ProviderSends(l) PROVE R!P!Send(l)
  BY <1>1 DEF R!ProviderSends, R!P!Send
<1>2. ASSUME R!ProviderStops("ended") PROVE R!P!End
  BY <1>2 DEF R!ProviderStops, R!P!End
<1>3. ASSUME R!ProviderStops("broken") PROVE UNCHANGED R!P!vars
  BY <1>3 DEF R!ProviderStops, R!P!vars
<1>4. CASE R!ClientLeaves
  <2>1. R!P!Leave
    BY <1>4 DEF R!ClientLeaves, R!P!Leave
  <2> QED
    BY <2>1 DEF R!P!Next
<1>5. ASSUME R!ContextEnds PROVE UNCHANGED R!P!vars
  BY <1>5 DEF R!ContextEnds, R!P!vars
<1>6. ASSUME R!Start PROVE UNCHANGED R!P!vars
  BY <1>6 DEF R!Start, R!P!vars
<1>7. ASSUME R!Next_CheckContext PROVE R!P!Cut \/ UNCHANGED R!P!vars
  BY <1>7 DEF R!Next_CheckContext, R!P!Cut, R!P!vars
<1>8. ASSUME R!Next_ReadLine PROVE UNCHANGED R!P!vars
  BY <1>8 DEF R!Next_ReadLine, R!P!vars
<1>9. ASSUME R!Next_AtEnd PROVE R!P!Complete \/ UNCHANGED R!P!vars
  <2>1. /\ relay = "reading" /\ upstream = "ended"
        /\ UNCHANGED <<sent, upstream, client, got>>
    BY <1>9 DEF R!Next_AtEnd
  <2>2. CASE relay' = "complete"
    <3>1. client = "there" => got = sent
      BY <1>9, <2>2, CompleteHasAll DEF R!Handle
    <3> QED
      BY <2>1, <2>2, <3>1 DEF R!P!Complete
  <2>3. CASE relay' = "writing"
    BY <2>1, <2>3 DEF R!P!vars
  <2> QED
    BY <1>9, <2>2, <2>3 DEF R!Next_AtEnd
<1>10. ASSUME R!Next_Fails PROVE R!P!Cut
  BY <1>10 DEF R!Next_Fails, R!P!Cut
<1>11. ASSUME R!WriteEvent PROVE R!P!Deliver
  <2>1. /\ relay = "writing" /\ client = "there" /\ relay' = "next" /\ got' = got \o buf
        /\ UNCHANGED <<sent, upstream, client>>
    BY <1>11 DEF R!WriteEvent
  <2>2. /\ got \in Seq(R!Lines) /\ buf \in Seq(R!Lines) /\ sent \in Seq(R!Lines)
        /\ read \in 0..Len(sent) /\ buf # <<>> /\ read >= 1
        /\ Len(sent) \in Nat /\ Len(got) \in Nat /\ Len(buf) \in Nat
    BY <2>1, LenProperties DEF RelayInv, R!TypeOK, EventIsWhole, BufferWasRead
  <2>3. got' = SubSeq(sent, 1, read)
    BY <2>1 DEF RelayInv, R!NothingLost, R!Held
  <2>4. read \in Len(got) + 1 .. Len(sent)
    <3>1. Len(got \o buf) = Len(got) + Len(buf) /\ Len(buf) > 0
      BY <2>2, ConcatProperties, EmptySeq
    <3>2. Len(SubSeq(sent, 1, read)) = read
      BY <2>2
    <3> QED
      BY <2>1, <2>2, <2>3, <3>1, <3>2
  <2>5. R!P!Boundary(read)
    BY <2>1, <2>2 DEF RelayInv, EventIsWhole, R!P!Boundary
  <2> QED
    BY <2>1, <2>3, <2>4, <2>5 DEF R!P!Deliver
<1>12. ASSUME R!WriteToNobody PROVE R!P!Cut \/ UNCHANGED R!P!vars
  BY <1>12 DEF R!WriteToNobody, R!P!Cut, R!P!vars
<1>13. ASSUME UNCHANGED R!vars PROVE UNCHANGED R!P!vars
  BY <1>13 DEF R!vars, R!P!vars
<1> QED
  BY <1>1, <1>2, <1>3, <1>4, <1>5, <1>6, <1>7, <1>8, <1>9, <1>10, <1>11, <1>12, <1>13
  DEF R!Next, R!Handle, R!Environment, R!P!Next

\* handleStream with its SSE reader implements PassThrough: events reach the
\* client whole, unchanged and in order, and an answer is complete only when
\* the provider has ended it and a client that stayed has all of it.
THEOREM RelayPassesThrough == R!Spec => R!Relayed
BY InitRelay, NextRelay, RelayInitPasses, RelayNextPasses, PTL DEF R!Spec, R!Relayed, R!P!Spec

-----------------------------------------------------------------------------
(* The request *)

LEMMA RelayStep ==
  ASSUME RelayInv, R!Handle \/ R!Start \/ R!Environment \/ UNCHANGED streaming
  PROVE  RelayInv'
<1>1. R!Next \/ UNCHANGED R!vars
  BY DEF R!Next, R!vars, streaming
<1> QED
  BY <1>1, NextRelay

-----------------------------------------------------------------------------

\* The parts of TypeOK but for the relay's.
Shape ==
  /\ call \in Calls
  /\ at \in Places
  /\ verdict \in {"none"} \cup Verdicts
  /\ status \in {0, 502} \cup Refusals \cup Statuses
  /\ audit \in {"none", "BLOCK", "ALLOW", "ALLOW_STREAM"}

\* The request leaves once, after an inspection that did not block it, and
\* with the credentials Credentials gives it.
SentOnce ==
  out # <<>> =>
    /\ out = <<out[1]>>
    /\ out[1].credentials = Credentials(call.provider, call.given)
    /\ verdict \in {"ALLOW", "MASK"}

\* How far the handler is says what has happened.
Stage ==
  /\ at \in {"authenticate", "resolve", "read", "inspect", "send"} => out = <<>>
  /\ at \notin {"relay", "done"} => status = 0 /\ audit = "none" /\ relay = "off"
  /\ at = "send" => verdict \in {"ALLOW", "MASK"}
  /\ at \in {"await", "relay"} => out # <<>>
  /\ at = "relay" => /\ status = 200 /\ audit = "none"
                     /\ relay \in {"next", "reading", "writing"}

PipelineInv == Shape /\ SentOnce /\ Stage /\ RefusedIsNotSent /\ AuditIsTrue

Inv == RelayInv /\ PipelineInv

\* An action that leaves the relay alone leaves its invariant alone.
LEMMA RelayRests == RelayInv /\ UNCHANGED streaming => RelayInv'
BY RelayStep

LEMMA InitInv == Init => Inv
<1> SUFFICES ASSUME Init PROVE Inv OBVIOUS
<1>1. RelayInv
  BY InitRelay DEF Init
<1>2. PipelineInv
  BY DEF Init, R!Init, PipelineInv, Shape, Places, SentOnce, Stage,
    RefusedIsNotSent, Refusals, AuditIsTrue
<1> QED
  BY <1>1, <1>2 DEF Inv

-----------------------------------------------------------------------------

\* A refusal before the request has left.
LEMMA Refused ==
  ASSUME PipelineInv, UNCHANGED <<call, out, streaming>>,
         at \in {"authenticate", "resolve", "read", "inspect", "send"},
         at' = "done", status' \in {502} \cup Refusals,
         verdict' \in {"none"} \cup Verdicts,
         audit' = "none" \/ (audit' = "BLOCK" /\ status' = 403)
  PROVE  PipelineInv'
BY DEF PipelineInv, Shape, Places, SentOnce, Stage, RefusedIsNotSent, Refusals,
  AuditIsTrue, streaming

\* A step on the way to the provider.
LEMMA Proceeded ==
  ASSUME PipelineInv, UNCHANGED <<call, out, status, audit, streaming>>,
         at \in {"authenticate", "resolve", "read", "inspect"},
         at' \in {"resolve", "read", "inspect", "send"},
         verdict' \in {"none"} \cup Verdicts,
         at' = "send" => verdict' \in {"ALLOW", "MASK"}
  PROVE  PipelineInv'
BY DEF PipelineInv, Shape, Places, SentOnce, Stage, RefusedIsNotSent, Refusals,
  AuditIsTrue, streaming

LEMMA NextInv == Inv /\ [Next]_vars => Inv'
<1> SUFFICES ASSUME Inv, [Next]_vars PROVE Inv'
  OBVIOUS
<1>0. RelayInv /\ PipelineInv /\ Shape
  BY DEF Inv, PipelineInv
<1> USE DEF Inv
<1>1. CASE Unauthorized
  <2>1. PipelineInv'
    BY <1>0, <1>1, Refused DEF Unauthorized, Refuse, Refusals, Shape, PipelineInv, Stage
  <2> QED
    BY <1>0, <1>1, <2>1, RelayRests DEF Unauthorized, Refuse
<1>2. CASE ProviderNotAllowed
  <2>1. PipelineInv'
    BY <1>0, <1>2, Refused DEF ProviderNotAllowed, Refuse, Refusals, Shape, PipelineInv, Stage
  <2> QED
    BY <1>0, <1>2, <2>1, RelayRests DEF ProviderNotAllowed, Refuse
<1>3. CASE Authenticate
  <2>1. PipelineInv'
    BY <1>0, <1>3, Proceeded DEF Authenticate, Proceed, Shape
  <2> QED
    BY <1>0, <1>3, <2>1, RelayRests DEF Authenticate, Proceed
<1>4. CASE NoMasterKey
  <2>1. PipelineInv'
    BY <1>0, <1>4, Refused DEF NoMasterKey, Refuse, Refusals, Shape, PipelineInv, Stage
  <2> QED
    BY <1>0, <1>4, <2>1, RelayRests DEF NoMasterKey, Refuse
<1>5. CASE ResolveMasterKey
  <2>1. PipelineInv'
    BY <1>0, <1>5, Proceeded DEF ResolveMasterKey, Proceed, Shape
  <2> QED
    BY <1>0, <1>5, <2>1, RelayRests DEF ResolveMasterKey, Proceed
<1>6. CASE BodyTooLarge
  <2>1. PipelineInv'
    BY <1>0, <1>6, Refused DEF BodyTooLarge, Refuse, Refusals, Shape, PipelineInv, Stage
  <2> QED
    BY <1>0, <1>6, <2>1, RelayRests DEF BodyTooLarge, Refuse
<1>7. CASE ReadBody
  <2>1. PipelineInv'
    BY <1>0, <1>7, Proceeded DEF ReadBody, Proceed, Shape
  <2> QED
    BY <1>0, <1>7, <2>1, RelayRests DEF ReadBody, Proceed
<1>8. CASE Block
  <2>1. PipelineInv'
    BY <1>0, <1>8, Refused DEF Block, Refuse, Refusals
  <2> QED
    BY <1>0, <1>8, <2>1, RelayRests DEF Block, Refuse
<1>9. CASE Allow
  <2>1. PipelineInv'
    BY <1>0, <1>9, Proceeded DEF Allow, Proceed
  <2> QED
    BY <1>0, <1>9, <2>1, RelayRests DEF Allow, Proceed
<1>10. CASE MaskFails
  <2>1. /\ at = "inspect" /\ "MASK" \in Verdicts /\ verdict' = "MASK"
        /\ UNCHANGED audit /\ Refuse(500)
    BY <1>10 DEF MaskFails
  <2>2. PipelineInv'
    BY <1>0, <2>1, Refused DEF Refuse, Refusals, PipelineInv, Stage
  <2> QED
    BY <1>0, <2>1, <2>2, RelayRests DEF Refuse
<1>11. CASE Mask
  <2>1. /\ at = "inspect" /\ "MASK" \in Verdicts /\ verdict' = "MASK" /\ Proceed("send")
    BY <1>11 DEF Mask
  <2>2. PipelineInv'
    BY <1>0, <2>1, Proceeded DEF Proceed
  <2> QED
    BY <1>0, <2>1, <2>2, RelayRests DEF Proceed
<1>12. CASE NotSent
  <2>1. PipelineInv'
    BY <1>0, <1>12, Refused DEF NotSent, Refuse, Shape, PipelineInv, Stage
  <2> QED
    BY <1>0, <1>12, <2>1, RelayRests DEF NotSent, Refuse
<1>13. CASE Dispatch
  <2>1. /\ at = "send" /\ at' = "await"
        /\ UNCHANGED <<call, verdict, status, audit, streaming>>
        /\ out' = Append(out, [body |-> body,
                               credentials |-> Credentials(call.provider, call.given)])
    BY <1>13 DEF Dispatch
  <2>2. out = <<>>
    BY <1>0, <2>1 DEF PipelineInv, Stage
  <2> DEFINE r == [body |-> body, credentials |-> Credentials(call.provider, call.given)]
  <2>3. r.credentials = Credentials(call.provider, call.given)
    OBVIOUS
  <2>4. out' = Append(<<>>, r)
    BY <2>1, <2>2
  <2> HIDE DEF r
  <2>5. out' = <<r>> /\ out'[1] = r /\ out' # <<>>
    BY <2>4
  <2>6. SentOnce'
    BY <1>0, <2>1, <2>3, <2>5 DEF PipelineInv, Stage, SentOnce
  <2>7. Shape' /\ Stage' /\ RefusedIsNotSent' /\ AuditIsTrue'
    BY <1>0, <2>1, <2>5 DEF PipelineInv, Shape, Places, Stage, RefusedIsNotSent,
      Refusals, AuditIsTrue, streaming
  <2> QED
    BY <1>0, <2>1, <2>6, <2>7, RelayRests DEF PipelineInv
<1>14. ASSUME ProviderFails \/ GiveUp PROVE Inv'
  <2>1. at = "await" /\ Refuse(502) /\ UNCHANGED <<verdict, audit>>
    BY <1>14 DEF ProviderFails, GiveUp
  <2>2. PipelineInv'
    BY <1>0, <2>1 DEF Refuse, PipelineInv, Shape, Places, SentOnce, Stage,
      RefusedIsNotSent, Refusals, AuditIsTrue, streaming
  <2> QED
    BY <1>0, <2>1, <2>2, RelayRests DEF Refuse
<1>15. ASSUME NEW code \in Statuses, Forward(code) PROVE Inv'
  <2>1. /\ at = "await" /\ status' = code /\ at' = "done" /\ audit' = "ALLOW"
        /\ UNCHANGED <<call, verdict, out, streaming>>
    BY <1>15 DEF Forward
  <2>2. PipelineInv'
    BY <1>0, <2>1 DEF PipelineInv, Shape, Places, SentOnce, Stage, Statuses,
      RefusedIsNotSent, Refusals, AuditIsTrue, streaming
  <2> QED
    BY <1>0, <2>1, <2>2, RelayRests
<1>16. CASE BeginStream
  <2>1. /\ at = "await" /\ status' = 200 /\ at' = "relay" /\ R!Start
        /\ UNCHANGED <<call, verdict, out, audit>>
    BY <1>16 DEF BeginStream
  <2>2. RelayInv'
    BY <1>0, <2>1, RelayStep
  <2>3. PipelineInv'
    BY <1>0, <2>1 DEF PipelineInv, Shape, Places, SentOnce, Stage, Statuses,
      RefusedIsNotSent, Refusals, AuditIsTrue, R!Start
  <2> QED
    BY <2>2, <2>3
<1>17. CASE Stream
  <2>1. /\ at = "relay" /\ R!Handle
        /\ at' = IF relay' \in {"complete", "cut"} THEN "done" ELSE "relay"
        /\ audit' = IF relay' = "complete" THEN "ALLOW_STREAM" ELSE audit
        /\ UNCHANGED <<call, verdict, out, status>>
    BY <1>17 DEF Stream
  <2>2. RelayInv'
    BY <1>0, <2>1, RelayStep
  <2>3. relay' = "complete" =>
          /\ upstream' = "ended" /\ (client' = "there" => got' = sent')
    BY <1>0, <2>1, CompleteHasAll
  <2>4. relay' \in {"next", "reading", "writing", "complete", "cut"}
    BY <1>0, <2>1 DEF PipelineInv, Stage, R!Handle, R!Next_CheckContext,
      R!Next_ReadLine, R!Next_AtEnd, R!Next_Fails, R!WriteEvent, R!WriteToNobody
  <2>5. status = 200 /\ out # <<>> /\ audit = "none"
    BY <1>0, <2>1 DEF PipelineInv, Stage
  <2>6. PipelineInv'
    BY <1>0, <2>1, <2>3, <2>4, <2>5 DEF PipelineInv, Shape, Places, SentOnce, Stage,
      Statuses, RefusedIsNotSent, Refusals, AuditIsTrue
  <2> QED
    BY <2>2, <2>6
<1>18. CASE Environment
  <2>1. R!Environment /\ UNCHANGED <<call, handler>>
    BY <1>18 DEF Environment
  <2>2. RelayInv'
    BY <1>0, <2>1, RelayStep
  <2>3. /\ UNCHANGED relay /\ UNCHANGED got
        /\ upstream = "ended" => upstream' = "ended" /\ sent' = sent
        /\ client' = "there" => client = "there"
    BY <2>1 DEF R!Environment, R!ProviderSends, R!ProviderStops, R!ClientLeaves,
      R!ContextEnds, R!reader
  <2>4. PipelineInv'
    BY <1>0, <2>1, <2>3 DEF handler, PipelineInv, Shape, SentOnce, Stage,
      RefusedIsNotSent, AuditIsTrue
  <2> QED
    BY <2>2, <2>4
<1>19. CASE UNCHANGED vars
  <2>1. UNCHANGED <<call, handler, streaming>>
    BY <1>19 DEF vars
  <2>2. PipelineInv'
    BY <1>0, <2>1 DEF handler, streaming, PipelineInv, Shape, SentOnce, Stage,
      RefusedIsNotSent, AuditIsTrue
  <2> QED
    BY <1>0, <2>1, <2>2, RelayRests
<1> QED
  BY <1>1, <1>2, <1>3, <1>4, <1>5, <1>6, <1>7, <1>8, <1>9, <1>10, <1>11, <1>12, <1>13,
    <1>14, <1>15, <1>16, <1>17, <1>18, <1>19
  DEF Next, Gateway, Provider

-----------------------------------------------------------------------------

\* The handler's and the relay's variables keep their shape, and no request is
\* sent twice.
THEOREM TypeCorrect == Spec => []TypeOK
<1>1. Inv => TypeOK
  <2> SUFFICES ASSUME Inv PROVE TypeOK OBVIOUS
  <2>1. R!TypeOK
    BY DEF Inv, RelayInv
  <2>2. out = <<>> \/ out = <<out[1]>>
    BY DEF Inv, PipelineInv, SentOnce
  <2>3. DOMAIN out \subseteq {1}
    <3>1. ASSUME NEW o, out = <<o>> PROVE DOMAIN out \subseteq {1}
      BY <3>1
    <3>2. CASE out = <<>>
      BY <3>2
    <3> QED
      BY <2>2, <3>1, <3>2
  <2> QED
    BY <2>1, <2>3 DEF Inv, PipelineInv, Shape, TypeOK
<1> QED
  BY InitInv, NextInv, <1>1, PTL DEF Spec

\* A refusal of the handler means that the provider has not seen the request,
\* and what the provider sees was inspected and not blocked.
THEOREM RefusedStaysHere == Spec => []RefusedIsNotSent
<1>1. Inv => RefusedIsNotSent
  BY DEF Inv, PipelineInv
<1> QED
  BY InitInv, NextInv, <1>1, PTL DEF Spec

\* auditPlaceholder's line says what has happened.
THEOREM AuditTrail == Spec => []AuditIsTrue
<1>1. Inv => AuditIsTrue
  BY DEF Inv, PipelineInv
<1> QED
  BY InitInv, NextInv, <1>1, PTL DEF Spec

-----------------------------------------------------------------------------

\* buildUpstream: whatever slots the client has filled, the provider finds one
\* credential in the slots it looks at, the master key.
LEMMA OneCredential ==
  ASSUME NEW p \in Providers, NEW given \in SUBSET Slots
  PROVE  \E s \in Slots :
           /\ {t \in KeySlots(p) : Credentials(p, given)[t] # "none"} = {s}
           /\ Credentials(p, given)[s] = "master"
<1> DEFINE m == MasterSlot(p, given)
<1>1. m \in KeySlots(p) /\ KeySlots(p) \subseteq Slots
  BY DEF MasterSlot, KeySlots, Slots, Providers
<1>2. \A t \in KeySlots(p) : Credentials(p, given)[t] = IF t = m THEN "master" ELSE "none"
  BY <1>1 DEF Credentials
<1> HIDE DEF m
<1>3. {t \in KeySlots(p) : Credentials(p, given)[t] # "none"} = {m}
  BY <1>1, <1>2
<1> QED
  BY <1>1, <1>2, <1>3

\* The master key is the only credential of every request that is sent.
THEOREM OnlyTheMasterKey == Spec => []OneMasterKey
<1>1. Inv => OneMasterKey
  <2> SUFFICES ASSUME Inv, out # <<>>
               PROVE  LET found == {s \in KeySlots(call.provider) :
                                      out[1].credentials[s] # "none"}
                      IN  \E s \in Slots : found = {s} /\ out[1].credentials[s] = "master"
    BY DEF OneMasterKey
  <2>1. call.provider \in Providers /\ call.given \in SUBSET Slots
    BY CallsAssumption DEF Inv, PipelineInv, Shape
  <2>2. out[1].credentials = Credentials(call.provider, call.given)
    BY DEF Inv, PipelineInv, SentOnce
  <2> QED
    BY <2>1, <2>2, OneCredential
<1> QED
  BY InitInv, NextInv, <1>1, PTL DEF Spec

-----------------------------------------------------------------------------

(* The masked body *)

\* Counting up: a set that has 0 and the successor of each member below N
\* has all numbers up to N.
LEMMA CountUp ==
  ASSUME NEW N \in Nat, NEW A, 0 \in A, \A n \in 1..N : n - 1 \in A => n \in A
  PROVE  \A n \in 0..N : n \in A
<1> DEFINE T == {n \in 0..N : n \notin A}
<1> SUFFICES ASSUME T # {} PROVE FALSE
  OBVIOUS
<1>1. T \subseteq Nat
  OBVIOUS
<1>2. PICK x \in T : \A y \in T : ~ (<<y, x>> \in OpToRel(<, Nat))
  BY <1>1, NatLessThanWellFounded, WFMin
<1>3. x # 0 /\ x \in 1..N /\ x - 1 \in 0..N /\ x - 1 \in Nat /\ x \in Nat /\ x - 1 < x
  OBVIOUS
<1>4. x - 1 \in A
  BY <1>2, <1>3 DEF OpToRel
<1> QED
  BY <1>3, <1>4

\* f has the values of a loop over 1..N that starts with e and goes on with g.
Loop(N, S, e, g, f) ==
  f \in [0..N -> S] /\ f[0] = e /\ \A n \in 1..N : f[n] = g[<<n, f[n - 1]>>]

\* Such a loop has a value after each round.
LEMMA LoopExists ==
  ASSUME NEW N, N \in Nat, NEW S, NEW e, e \in S, NEW g, g \in [(1..N) \X S -> S]
  PROVE  \E f : Loop(N, S, e, g, f)
<1> DEFINE Is(f, m) == f[0] = e /\ \A n \in 1..m : f[n] = g[<<n, f[n - 1]>>]
           A == {m \in 0..N : \E f \in [0..m -> S] : Is(f, m)}
<1>1. 0 \in A
  <2> DEFINE h == [n \in 0..0 |-> e]
  <2>1. h \in [0..0 -> S] /\ h[0] = e
    OBVIOUS
  <2> HIDE DEF h
  <2> QED
    BY <2>1
<1>2. ASSUME NEW m \in 1..N, m - 1 \in A PROVE m \in A
  <2>1. PICK f \in [0..(m - 1) -> S] : Is(f, m - 1)
    BY <1>2
  <2>2. m \in Nat /\ m - 1 \in Nat /\ m - 1 \in 0..(m - 1) /\ m # 0 /\ m \in 0..N
    OBVIOUS
  <2>3. f[m - 1] \in S /\ g[<<m, f[m - 1]>>] \in S
    BY <2>1, <2>2
  <2> DEFINE h == [n \in 0..m |-> IF n = m THEN g[<<m, f[m - 1]>>] ELSE f[n]]
  <2>4. h \in [0..m -> S]
    BY <2>1, <2>2, <2>3
  <2>5. h[0] = e
    BY <2>1, <2>2
  <2>6. ASSUME NEW n \in 1..m PROVE h[n] = g[<<n, h[n - 1]>>]
    <3>1. n - 1 # m /\ n - 1 \in 0..m /\ n \in 0..m
      OBVIOUS
    <3>2. h[n - 1] = f[n - 1]
      BY <3>1
    <3>3. CASE n = m
      BY <3>1, <3>2, <3>3
    <3>4. CASE n # m
      <4>1. n \in 1..(m - 1)
        BY <3>4
      <4> QED
        BY <2>1, <3>1, <3>2, <3>4, <4>1
    <3> QED
      BY <3>3, <3>4
  <2> HIDE DEF h
  <2> QED
    BY <2>2, <2>4, <2>5, <2>6
<1> HIDE DEF A
<1>3. N \in A
  BY <1>1, <1>2, CountUp
<1>4. PICK f \in [0..N -> S] : Is(f, N)
  BY <1>3 DEF A
<1> QED
  BY <1>4 DEF Loop

-----------------------------------------------------------------------------

\* One round of the loop that joins texts: what it makes of the text so far.
JoinedUpTo(bs, types, f) ==
  f = [n \in 0..Len(bs) |->
         IF n = 0 THEN <<>>
         ELSE IF bs[n].type \in types THEN f[n - 1] \o bs[n].text ELSE f[n - 1]]

LEMMA JoinedLoop ==
  ASSUME NEW bs \in Seq(ContentBlocks), NEW types
  PROVE  \E f \in [0..Len(bs) -> Seq(Pieces)] :
           JoinedUpTo(bs, types, f) /\ Joined(bs, types) = f[Len(bs)]
<1> DEFINE N == Len(bs)
           S == Seq(Pieces)
           g == [x \in (1..N) \X S |->
                   IF bs[x[1]].type \in types THEN x[2] \o bs[x[1]].text ELSE x[2]]
           h == CHOOSE f : JoinedUpTo(bs, types, f)
<1>1. N \in Nat /\ <<>> \in S
  BY LenProperties, EmptySeq
<1>2. ASSUME NEW n \in 1..N PROVE bs[n] \in ContentBlocks /\ bs[n].text \in S
  <2>1. bs[n] \in ContentBlocks
    BY ElementOfSeq
  <2> QED
    BY <2>1 DEF ContentBlocks
<1>3. ASSUME NEW n \in 1..N, NEW s \in S PROVE s \o bs[n].text \in S
  BY <1>2, ConcatProperties
<1>4. g \in [(1..N) \X S -> S]
  <2>1. ASSUME NEW x \in (1..N) \X S
        PROVE  (IF bs[x[1]].type \in types THEN x[2] \o bs[x[1]].text ELSE x[2]) \in S
    <3>1. x[1] \in 1..N /\ x[2] \in S
      OBVIOUS
    <3> HIDE DEF N, S
    <3> QED
      BY <3>1, <1>3
  <2> HIDE DEF N, S
  <2> QED
    BY <2>1
<1>5. \E f : Loop(N, S, <<>>, g, f)
  <2> HIDE DEF S, g, N
  <2> QED
    BY <1>1, <1>4, LoopExists
<1>6. PICK f : f \in [0..N -> S] /\ f[0] = <<>> /\ \A n \in 1..N : f[n] = g[<<n, f[n - 1]>>]
  BY <1>5 DEF Loop
<1>7. ASSUME NEW n \in 1..N
      PROVE  f[n] = IF bs[n].type \in types THEN f[n - 1] \o bs[n].text ELSE f[n - 1]
  <2>1. n - 1 \in 0..N
    BY <1>1
  <2>2. f[n - 1] \in S
    BY <2>1, <1>6
  <2>3. <<n, f[n - 1]>> \in (1..N) \X S
    BY <2>2
  <2> QED
    BY <2>3, <1>6
<1> HIDE DEF g, S
<1>8. JoinedUpTo(bs, types, f)
  <2>1. ASSUME NEW n \in 0..N
        PROVE  f[n] = IF n = 0 THEN <<>>
                      ELSE IF bs[n].type \in types THEN f[n - 1] \o bs[n].text ELSE f[n - 1]
    <3>1. n = 0 \/ n \in 1..N
      BY <1>1
    <3> QED
      BY <1>1, <1>6, <1>7, <3>1
  <2> QED
    BY <1>6, <2>1 DEF JoinedUpTo
<1>9. JoinedUpTo(bs, types, h)
  BY <1>8
<1>10. Joined(bs, types) = h[N]
  BY DEF Joined, JoinedUpTo
<1> HIDE DEF h
<1>11. \A n \in 0..N : h[n] = f[n]
  <2> DEFINE A == {n \in 0..N : h[n] = f[n]}
  <2>1. 0 \in A
    BY <1>1, <1>8, <1>9 DEF JoinedUpTo
  <2>2. ASSUME NEW n \in 1..N, n - 1 \in A PROVE n \in A
    <3>1. n \in 0..N /\ n # 0 /\ h[n - 1] = f[n - 1]
      BY <1>1, <2>2
    <3> QED
      BY <1>8, <1>9, <3>1 DEF JoinedUpTo
  <2> HIDE DEF A
  <2>3. \A n \in 0..N : n \in A
    BY <1>1, <2>1, <2>2, CountUp
  <2> QED
    BY <2>3 DEF A
<1>12. h[N] = f[N]
  BY <1>1, <1>11
<1> QED
  BY <1>6, <1>8, <1>10, <1>12 DEF S

\* One block more.
LEMMA AppendBlock ==
  ASSUME NEW bs \in Seq(ContentBlocks), NEW b \in ContentBlocks
  PROVE  /\ Append(bs, b) \in Seq(ContentBlocks)
         /\ Len(bs) \in Nat /\ Len(Append(bs, b)) = Len(bs) + 1
         /\ Append(bs, b)[Len(bs) + 1] = b
         /\ \A n \in 1..Len(bs) : Append(bs, b)[n] = bs[n]
BY AppendProperties, LenProperties

LEMMA JoinedNone ==
  ASSUME NEW types
  PROVE  Joined(<<>>, types) = <<>>
<1>1. <<>> \in Seq(ContentBlocks) /\ Len(<<>>) = 0
  BY EmptySeq
<1>2. ASSUME NEW bs \in Seq(ContentBlocks), Len(bs) = 0 PROVE Joined(bs, types) = <<>>
  <2>1. PICK f \in [0..0 -> Seq(Pieces)] : JoinedUpTo(bs, types, f) /\ Joined(bs, types) = f[0]
    BY <1>2, JoinedLoop
  <2> QED
    BY <2>1, <1>2 DEF JoinedUpTo
<1> QED
  BY <1>1, <1>2

LEMMA JoinedAppend ==
  ASSUME NEW bs \in Seq(ContentBlocks), NEW b \in ContentBlocks, NEW types
  PROVE  /\ Joined(bs, types) \in Seq(Pieces)
         /\ Joined(Append(bs, b), types)
              = IF b.type \in types THEN Joined(bs, types) \o b.text ELSE Joined(bs, types)
<1> DEFINE N == Len(bs)
           cs == Append(bs, b)
<1>1. cs \in Seq(ContentBlocks) /\ N \in Nat /\ Len(cs) = N + 1 /\ cs[N + 1] = b
  BY AppendBlock
<1>2. \A n \in 1..N : cs[n] = bs[n]
  BY AppendBlock
<1>3. PICK f \in [0..N -> Seq(Pieces)] : JoinedUpTo(bs, types, f) /\ Joined(bs, types) = f[N]
  BY JoinedLoop
<1> HIDE DEF cs
<1>4. PICK h \in [0..Len(cs) -> Seq(Pieces)] :
        JoinedUpTo(cs, types, h) /\ Joined(cs, types) = h[Len(cs)]
  BY <1>1, JoinedLoop
<1> DEFINE A == {n \in 0..N : h[n] = f[n]}
<1>5. 0 \in A
  BY <1>1, <1>3, <1>4 DEF JoinedUpTo
<1>6. ASSUME NEW n \in 1..N, n - 1 \in A PROVE n \in A
  <2>1. n \in 0..N /\ n \in 0..(N + 1) /\ n # 0 /\ h[n - 1] = f[n - 1] /\ cs[n] = bs[n]
    BY <1>1, <1>2, <1>6
  <2>2. f[n] = IF bs[n].type \in types THEN f[n - 1] \o bs[n].text ELSE f[n - 1]
    BY <1>3, <2>1 DEF JoinedUpTo
  <2>3. h[n] = IF cs[n].type \in types THEN h[n - 1] \o cs[n].text ELSE h[n - 1]
    BY <1>1, <1>4, <2>1 DEF JoinedUpTo
  <2>4. h[n] = f[n]
    BY <2>1, <2>2, <2>3
  <2> QED
    BY <2>1, <2>4
<1> HIDE DEF A
<1>7. \A n \in 0..N : n \in A
  BY <1>1, <1>5, <1>6, CountUp
<1>8. h[N] = f[N] /\ f[N] \in Seq(Pieces)
  BY <1>1, <1>3, <1>7 DEF A
<1>9. h[N + 1] = IF b.type \in types THEN h[N] \o b.text ELSE h[N]
  <2>1. N + 1 \in 0..(N + 1) /\ N + 1 # 0 /\ (N + 1) - 1 = N
    BY <1>1
  <2> QED
    BY <1>1, <1>4, <2>1 DEF JoinedUpTo
<1> QED
  BY <1>1, <1>3, <1>4, <1>8, <1>9 DEF cs

-----------------------------------------------------------------------------

\* The loop that drops the text blocks.
OthersUpTo(bs, f) ==
  f = [n \in 0..Len(bs) |->
         IF n = 0 THEN <<>>
         ELSE IF bs[n].type # "text" THEN Append(f[n - 1], bs[n]) ELSE f[n - 1]]

LEMMA OthersLoop ==
  ASSUME NEW bs \in Seq(ContentBlocks)
  PROVE  \E f \in [0..Len(bs) -> Seq(ContentBlocks)] :
           OthersUpTo(bs, f) /\ OtherBlocks(bs) = f[Len(bs)]
<1> DEFINE N == Len(bs)
           S == Seq(ContentBlocks)
           g == [x \in (1..N) \X S |->
                   IF bs[x[1]].type # "text" THEN Append(x[2], bs[x[1]]) ELSE x[2]]
           h == CHOOSE f : OthersUpTo(bs, f)
<1>1. N \in Nat /\ <<>> \in S
  BY LenProperties, EmptySeq
<1>2. ASSUME NEW n \in 1..N PROVE bs[n] \in ContentBlocks
  BY ElementOfSeq
<1>3. ASSUME NEW n \in 1..N, NEW s \in S PROVE Append(s, bs[n]) \in S
  BY <1>2, AppendProperties
<1>4. g \in [(1..N) \X S -> S]
  <2>1. ASSUME NEW x \in (1..N) \X S
        PROVE  (IF bs[x[1]].type # "text" THEN Append(x[2], bs[x[1]]) ELSE x[2]) \in S
    <3>1. x[1] \in 1..N /\ x[2] \in S
      OBVIOUS
    <3> HIDE DEF N, S
    <3> QED
      BY <3>1, <1>3
  <2> HIDE DEF N, S
  <2> QED
    BY <2>1
<1>5. \E f : Loop(N, S, <<>>, g, f)
  <2> HIDE DEF S, g, N
  <2> QED
    BY <1>1, <1>4, LoopExists
<1>6. PICK f : f \in [0..N -> S] /\ f[0] = <<>> /\ \A n \in 1..N : f[n] = g[<<n, f[n - 1]>>]
  BY <1>5 DEF Loop
<1>7. ASSUME NEW n \in 1..N
      PROVE  f[n] = IF bs[n].type # "text" THEN Append(f[n - 1], bs[n]) ELSE f[n - 1]
  <2>1. n - 1 \in 0..N
    BY <1>1
  <2>2. f[n - 1] \in S
    BY <2>1, <1>6
  <2>3. <<n, f[n - 1]>> \in (1..N) \X S
    BY <2>2
  <2> QED
    BY <2>3, <1>6
<1> HIDE DEF g, S
<1>8. OthersUpTo(bs, f)
  <2>1. ASSUME NEW n \in 0..N
        PROVE  f[n] = IF n = 0 THEN <<>>
                      ELSE IF bs[n].type # "text" THEN Append(f[n - 1], bs[n]) ELSE f[n - 1]
    <3>1. n = 0 \/ n \in 1..N
      BY <1>1
    <3> QED
      BY <1>1, <1>6, <1>7, <3>1
  <2> QED
    BY <1>6, <2>1 DEF OthersUpTo
<1>9. OthersUpTo(bs, h)
  BY <1>8
<1>10. OtherBlocks(bs) = h[N]
  BY DEF OtherBlocks, OthersUpTo
<1> HIDE DEF h
<1>11. \A n \in 0..N : h[n] = f[n]
  <2> DEFINE A == {n \in 0..N : h[n] = f[n]}
  <2>1. 0 \in A
    BY <1>1, <1>8, <1>9 DEF OthersUpTo
  <2>2. ASSUME NEW n \in 1..N, n - 1 \in A PROVE n \in A
    <3>1. n \in 0..N /\ n # 0 /\ h[n - 1] = f[n - 1]
      BY <1>1, <2>2
    <3> QED
      BY <1>8, <1>9, <3>1 DEF OthersUpTo
  <2> HIDE DEF A
  <2>3. \A n \in 0..N : n \in A
    BY <1>1, <2>1, <2>2, CountUp
  <2> QED
    BY <2>3 DEF A
<1>12. h[N] = f[N]
  BY <1>1, <1>11
<1> QED
  BY <1>6, <1>8, <1>10, <1>12 DEF S

LEMMA OthersNone == OtherBlocks(<<>>) = <<>>
<1>1. <<>> \in Seq(ContentBlocks) /\ Len(<<>>) = 0
  BY EmptySeq
<1>2. ASSUME NEW bs \in Seq(ContentBlocks), Len(bs) = 0 PROVE OtherBlocks(bs) = <<>>
  <2>1. PICK f \in [0..0 -> Seq(ContentBlocks)] : OthersUpTo(bs, f) /\ OtherBlocks(bs) = f[0]
    BY <1>2, OthersLoop
  <2> QED
    BY <2>1, <1>2 DEF OthersUpTo
<1> QED
  BY <1>1, <1>2

LEMMA OthersAppend ==
  ASSUME NEW bs \in Seq(ContentBlocks), NEW b \in ContentBlocks
  PROVE  /\ OtherBlocks(bs) \in Seq(ContentBlocks)
         /\ OtherBlocks(Append(bs, b))
              = IF b.type # "text" THEN Append(OtherBlocks(bs), b) ELSE OtherBlocks(bs)
<1> DEFINE N == Len(bs)
           cs == Append(bs, b)
<1>1. cs \in Seq(ContentBlocks) /\ N \in Nat /\ Len(cs) = N + 1 /\ cs[N + 1] = b
  BY AppendBlock
<1>2. \A n \in 1..N : cs[n] = bs[n]
  BY AppendBlock
<1>3. PICK f \in [0..N -> Seq(ContentBlocks)] : OthersUpTo(bs, f) /\ OtherBlocks(bs) = f[N]
  BY OthersLoop
<1> HIDE DEF cs
<1>4. PICK h \in [0..Len(cs) -> Seq(ContentBlocks)] :
        OthersUpTo(cs, h) /\ OtherBlocks(cs) = h[Len(cs)]
  BY <1>1, OthersLoop
<1> DEFINE A == {n \in 0..N : h[n] = f[n]}
<1>5. 0 \in A
  BY <1>1, <1>3, <1>4 DEF OthersUpTo
<1>6. ASSUME NEW n \in 1..N, n - 1 \in A PROVE n \in A
  <2>1. n \in 0..N /\ n \in 0..(N + 1) /\ n # 0 /\ h[n - 1] = f[n - 1] /\ cs[n] = bs[n]
    BY <1>1, <1>2, <1>6
  <2>2. f[n] = IF bs[n].type # "text" THEN Append(f[n - 1], bs[n]) ELSE f[n - 1]
    BY <1>3, <2>1 DEF OthersUpTo
  <2>3. h[n] = IF cs[n].type # "text" THEN Append(h[n - 1], cs[n]) ELSE h[n - 1]
    BY <1>1, <1>4, <2>1 DEF OthersUpTo
  <2>4. h[n] = f[n]
    BY <2>1, <2>2, <2>3
  <2> QED
    BY <2>1, <2>4
<1> HIDE DEF A
<1>7. \A n \in 0..N : n \in A
  BY <1>1, <1>5, <1>6, CountUp
<1>8. h[N] = f[N] /\ f[N] \in Seq(ContentBlocks)
  BY <1>1, <1>3, <1>7 DEF A
<1>9. h[N + 1] = IF b.type # "text" THEN Append(h[N], b) ELSE h[N]
  <2>1. N + 1 \in 0..(N + 1) /\ N + 1 # 0 /\ (N + 1) - 1 = N
    BY <1>1
  <2> QED
    BY <1>1, <1>4, <2>1 DEF OthersUpTo
<1> QED
  BY <1>1, <1>3, <1>4, <1>8, <1>9 DEF cs

-----------------------------------------------------------------------------

TextAmong(bs, n) == \E i \in 1..n : bs[i].type = "text"

\* The loop that puts the masked text into the blocks.
MergedUpTo(bs, t, f) ==
  f = [n \in 0..Len(bs) |->
         IF n = 0 THEN <<>>
         ELSE IF bs[n].type # "text" THEN Append(f[n - 1], bs[n])
         ELSE IF TextAmong(bs, n - 1) THEN f[n - 1] ELSE Append(f[n - 1], Text(t))]

LEMMA MergedLoop ==
  ASSUME NEW bs \in Seq(ContentBlocks), NEW t \in Seq(Pieces)
  PROVE  \E f \in [0..Len(bs) -> Seq(ContentBlocks)] :
           /\ MergedUpTo(bs, t, f)
           /\ MergeText(bs, t)
                = IF TextAmong(bs, Len(bs)) THEN f[Len(bs)] ELSE Append(f[Len(bs)], Text(t))
<1> DEFINE N == Len(bs)
           S == Seq(ContentBlocks)
           g == [x \in (1..N) \X S |->
                   IF bs[x[1]].type # "text" THEN Append(x[2], bs[x[1]])
                   ELSE IF TextAmong(bs, x[1] - 1) THEN x[2] ELSE Append(x[2], Text(t))]
           h == CHOOSE f : MergedUpTo(bs, t, f)
<1>1. N \in Nat /\ <<>> \in S
  BY LenProperties, EmptySeq
<1>2. ASSUME NEW n \in 1..N PROVE bs[n] \in ContentBlocks
  BY ElementOfSeq
<1>3. /\ \A n \in 1..N, s \in S : Append(s, bs[n]) \in S
      /\ \A s \in S : Append(s, Text(t)) \in S
  <2>1. Text(t) \in ContentBlocks
    BY DEF Text, ContentBlocks, BlockTypes
  <2> QED
    BY <1>2, <2>1, AppendProperties
<1>4. g \in [(1..N) \X S -> S]
  <2>1. ASSUME NEW x \in (1..N) \X S
        PROVE  (IF bs[x[1]].type # "text" THEN Append(x[2], bs[x[1]])
                ELSE IF TextAmong(bs, x[1] - 1) THEN x[2] ELSE Append(x[2], Text(t))) \in S
    <3>1. x[1] \in 1..N /\ x[2] \in S
      OBVIOUS
    <3> HIDE DEF N, S
    <3> QED
      BY <3>1, <1>3
  <2> HIDE DEF N, S
  <2> QED
    BY <2>1
<1>5. \E f : Loop(N, S, <<>>, g, f)
  <2> HIDE DEF S, g, N
  <2> QED
    BY <1>1, <1>4, LoopExists
<1>6. PICK f : f \in [0..N -> S] /\ f[0] = <<>> /\ \A n \in 1..N : f[n] = g[<<n, f[n - 1]>>]
  BY <1>5 DEF Loop
<1>7. ASSUME NEW n \in 1..N
      PROVE  f[n] = IF bs[n].type # "text" THEN Append(f[n - 1], bs[n])
                    ELSE IF TextAmong(bs, n - 1) THEN f[n - 1] ELSE Append(f[n - 1], Text(t))
  <2>1. n - 1 \in 0..N
    BY <1>1
  <2>2. f[n - 1] \in S
    BY <2>1, <1>6
  <2>3. <<n, f[n - 1]>> \in (1..N) \X S
    BY <2>2
  <2> QED
    BY <2>3, <1>6
<1> HIDE DEF g, S
<1>8. MergedUpTo(bs, t, f)
  <2>1. ASSUME NEW n \in 0..N
        PROVE  f[n] = IF n = 0 THEN <<>>
                      ELSE IF bs[n].type # "text" THEN Append(f[n - 1], bs[n])
                      ELSE IF TextAmong(bs, n - 1) THEN f[n - 1] ELSE Append(f[n - 1], Text(t))
    <3>1. n = 0 \/ n \in 1..N
      BY <1>1
    <3> QED
      BY <1>1, <1>6, <1>7, <3>1
  <2> QED
    BY <1>6, <2>1 DEF MergedUpTo
<1>9. MergedUpTo(bs, t, h)
  BY <1>8
<1>10. MergeText(bs, t) = IF TextAmong(bs, Len(bs)) THEN h[N] ELSE Append(h[N], Text(t))
  BY DEF MergeText, TextAmong, MergedUpTo
<1> HIDE DEF h
<1>11. \A n \in 0..N : h[n] = f[n]
  <2> DEFINE A == {n \in 0..N : h[n] = f[n]}
  <2>1. 0 \in A
    BY <1>1, <1>8, <1>9 DEF MergedUpTo
  <2>2. ASSUME NEW n \in 1..N, n - 1 \in A PROVE n \in A
    <3>1. n \in 0..N /\ n # 0 /\ h[n - 1] = f[n - 1]
      BY <1>1, <2>2
    <3> QED
      BY <1>8, <1>9, <3>1 DEF MergedUpTo
  <2> HIDE DEF A
  <2>3. \A n \in 0..N : n \in A
    BY <1>1, <2>1, <2>2, CountUp
  <2> QED
    BY <2>3 DEF A
<1>12. h[N] = f[N]
  BY <1>1, <1>11
<1> QED
  BY <1>6, <1>8, <1>10, <1>12 DEF S

LEMMA AppendText ==
  ASSUME NEW bs \in Seq(ContentBlocks), NEW t \in Seq(Pieces), NEW types, "text" \in types
  PROVE  /\ Text(t) \in ContentBlocks
         /\ Joined(Append(bs, Text(t)), types) = Joined(bs, types) \o t
         /\ OtherBlocks(Append(bs, Text(t))) = OtherBlocks(bs)
<1>1. Text(t) \in ContentBlocks /\ Text(t).type = "text" /\ Text(t).text = t
  BY DEF Text, ContentBlocks, BlockTypes
<1>2. Joined(Append(bs, Text(t)), types) = Joined(bs, types) \o t
  BY <1>1, JoinedAppend
<1>3. OtherBlocks(Append(bs, Text(t))) = OtherBlocks(bs)
  BY <1>1, OthersAppend
<1> QED
  BY <1>1, <1>2, <1>3

LEMMA OneTextBlock ==
  ASSUME NEW t \in Seq(Pieces), NEW types, "text" \in types
  PROVE  /\ Joined(<<Text(t)>>, types) = t
         /\ OtherBlocks(<<Text(t)>>) = <<>>
<1>1. <<>> \in Seq(ContentBlocks) /\ <<>> \o t = t
  BY EmptySeq, ConcatEmptySeq
<1>2. ASSUME NEW bs \in Seq(ContentBlocks),
             Joined(bs, types) = <<>>, OtherBlocks(bs) = <<>>
      PROVE  Joined(Append(bs, Text(t)), types) = t /\ OtherBlocks(Append(bs, Text(t))) = <<>>
  BY <1>1, <1>2, AppendText
<1>3. Append(<<>>, Text(t)) = <<Text(t)>>
  OBVIOUS
<1>4. PICK bs : bs = <<>>
  OBVIOUS
<1>5. bs \in Seq(ContentBlocks) /\ Joined(bs, types) = <<>> /\ OtherBlocks(bs) = <<>>
  BY <1>1, <1>4, JoinedNone, OthersNone
<1>6. Append(bs, Text(t)) = <<Text(t)>>
  BY <1>3, <1>4
<1> QED
  BY <1>2, <1>5, <1>6

LEMMA TextAmongGrows ==
  ASSUME NEW bs, NEW n \in Nat, n # 0
  PROVE  TextAmong(bs, n) <=> TextAmong(bs, n - 1) \/ bs[n].type = "text"
<1>1. \A i \in 1..n : i = n \/ i \in 1..(n - 1)
  OBVIOUS
<1>2. n \in 1..n /\ \A i \in 1..(n - 1) : i \in 1..n
  OBVIOUS
<1> QED
  BY <1>1, <1>2 DEF TextAmong

\* What is read from merged blocks is the text they were merged with.
LEMMA MergedIsRead ==
  ASSUME NEW bs \in Seq(ContentBlocks), NEW t \in Seq(Pieces), NEW types, "text" \in types,
         \A n \in 1..Len(bs) : bs[n].type \in types => bs[n].type = "text"
  PROVE  Joined(MergeText(bs, t), types) = t
<1> DEFINE N == Len(bs)
<1>1. N \in Nat
  BY LenProperties
<1>2. PICK f \in [0..N -> Seq(ContentBlocks)] :
        /\ MergedUpTo(bs, t, f)
        /\ MergeText(bs, t) = IF TextAmong(bs, N) THEN f[N] ELSE Append(f[N], Text(t))
  BY MergedLoop
<1>3. <<>> \o t = t
  BY ConcatEmptySeq
<1> DEFINE A == {n \in 0..N : Joined(f[n], types) = IF TextAmong(bs, n) THEN t ELSE <<>>}
<1>4. 0 \in A
  <2>1. f[0] = <<>> /\ 0 \in 0..N
    BY <1>1, <1>2 DEF MergedUpTo
  <2>2. ~TextAmong(bs, 0)
    BY DEF TextAmong
  <2> QED
    BY <2>1, <2>2, JoinedNone
<1>5. ASSUME NEW n \in 1..N, n - 1 \in A PROVE n \in A
  <2>1. /\ n \in Nat /\ n # 0 /\ n \in 0..N /\ n - 1 \in 0..N
        /\ Joined(f[n - 1], types) = IF TextAmong(bs, n - 1) THEN t ELSE <<>>
    BY <1>1, <1>5
  <2>2. f[n] = IF bs[n].type # "text" THEN Append(f[n - 1], bs[n])
               ELSE IF TextAmong(bs, n - 1) THEN f[n - 1] ELSE Append(f[n - 1], Text(t))
    BY <1>2, <2>1 DEF MergedUpTo
  <2>3. f[n - 1] \in Seq(ContentBlocks) /\ bs[n] \in ContentBlocks
    BY <1>2, <2>1, ElementOfSeq
  <2>4. TextAmong(bs, n) <=> TextAmong(bs, n - 1) \/ bs[n].type = "text"
    BY <2>1, TextAmongGrows
  <2>5. CASE bs[n].type # "text"
    <3>1. Joined(Append(f[n - 1], bs[n]), types) = Joined(f[n - 1], types)
      BY <2>3, <2>5, JoinedAppend
    <3> QED
      BY <2>1, <2>2, <2>4, <2>5, <3>1
  <2>6. CASE bs[n].type = "text" /\ TextAmong(bs, n - 1)
    BY <2>1, <2>2, <2>4, <2>6
  <2>7. CASE bs[n].type = "text" /\ ~TextAmong(bs, n - 1)
    <3>1. Joined(Append(f[n - 1], Text(t)), types) = Joined(f[n - 1], types) \o t
      BY <2>3, AppendText
    <3> QED
      BY <1>3, <2>1, <2>2, <2>4, <2>7, <3>1
  <2> QED
    BY <2>5, <2>6, <2>7
<1> HIDE DEF A
<1>6. \A n \in 0..N : n \in A
  BY <1>1, <1>4, <1>5, CountUp
<1>7. f[N] \in Seq(ContentBlocks) /\ Joined(f[N], types) = IF TextAmong(bs, N) THEN t ELSE <<>>
  BY <1>1, <1>2, <1>6 DEF A
<1>8. Joined(Append(f[N], Text(t)), types) = Joined(f[N], types) \o t
  BY <1>7, AppendText
<1> QED
  BY <1>3, <1>2, <1>7, <1>8

\* Merging leaves the other blocks as and where they were.
LEMMA MergedKeepsOthers ==
  ASSUME NEW bs \in Seq(ContentBlocks), NEW t \in Seq(Pieces)
  PROVE  OtherBlocks(MergeText(bs, t)) = OtherBlocks(bs)
<1> DEFINE N == Len(bs)
<1>1. N \in Nat
  BY LenProperties
<1>2. PICK f \in [0..N -> Seq(ContentBlocks)] :
        /\ MergedUpTo(bs, t, f)
        /\ MergeText(bs, t) = IF TextAmong(bs, N) THEN f[N] ELSE Append(f[N], Text(t))
  BY MergedLoop
<1>3. PICK o \in [0..N -> Seq(ContentBlocks)] : OthersUpTo(bs, o) /\ OtherBlocks(bs) = o[N]
  BY OthersLoop
<1>4. Text(t) \in ContentBlocks /\ Text(t).type = "text"
  BY DEF Text, ContentBlocks, BlockTypes
<1> DEFINE A == {n \in 0..N : OtherBlocks(f[n]) = o[n]}
<1>5. 0 \in A
  <2>1. f[0] = <<>> /\ o[0] = <<>> /\ 0 \in 0..N
    BY <1>1, <1>2, <1>3 DEF MergedUpTo, OthersUpTo
  <2> QED
    BY <2>1, OthersNone
<1>6. ASSUME NEW n \in 1..N, n - 1 \in A PROVE n \in A
  <2>1. n # 0 /\ n \in 0..N /\ n - 1 \in 0..N /\ OtherBlocks(f[n - 1]) = o[n - 1]
    BY <1>1, <1>6
  <2>2. f[n] = IF bs[n].type # "text" THEN Append(f[n - 1], bs[n])
               ELSE IF TextAmong(bs, n - 1) THEN f[n - 1] ELSE Append(f[n - 1], Text(t))
    BY <1>2, <2>1 DEF MergedUpTo
  <2>3. o[n] = IF bs[n].type # "text" THEN Append(o[n - 1], bs[n]) ELSE o[n - 1]
    BY <1>3, <2>1 DEF OthersUpTo
  <2>4. f[n - 1] \in Seq(ContentBlocks) /\ bs[n] \in ContentBlocks
    BY <1>2, <2>1, ElementOfSeq
  <2>5. OtherBlocks(Append(f[n - 1], Text(t))) = o[n - 1]
    BY <1>4, <2>1, <2>4, OthersAppend
  <2>6. OtherBlocks(Append(f[n - 1], bs[n]))
          = IF bs[n].type # "text" THEN Append(o[n - 1], bs[n]) ELSE o[n - 1]
    BY <2>1, <2>4, OthersAppend
  <2>7. OtherBlocks(f[n]) = o[n]
    BY <2>1, <2>2, <2>3, <2>5, <2>6
  <2> QED
    BY <2>1, <2>7
<1> HIDE DEF A
<1>7. \A n \in 0..N : n \in A
  BY <1>1, <1>5, <1>6, CountUp
<1>8. f[N] \in Seq(ContentBlocks) /\ OtherBlocks(f[N]) = o[N]
  BY <1>1, <1>2, <1>7 DEF A
<1>9. OtherBlocks(Append(f[N], Text(t))) = o[N]
  BY <1>4, <1>8, OthersAppend
<1> QED
  BY <1>2, <1>3, <1>8, <1>9

-----------------------------------------------------------------------------

NoTools(c) == \A i \in DOMAIN c.blocks : c.blocks[i].type \notin {"tool_use", "tool_result"}

\* The content that is written: what is under other spellings stays.
LEMMA InjectContentIs ==
  ASSUME NEW p \in Providers, NEW c, NEW t
  PROVE  LET d == InjectContent(p, c, t)
         IN  /\ d = [form |-> d.form, blocks |-> d.blocks, stray |-> c.stray]
             /\ \/ d.form = "string" /\ d.blocks = <<Text(t)>>
                  /\ p # "google" /\ (p = "anthropic" => c.form # "blocks")
                \/ d.form = "blocks" /\ d.blocks = MergeText(c.blocks, t)
                  /\ p \in {"anthropic", "google"}
<1> DEFINE s == [form |-> "string", blocks |-> <<Text(t)>>, stray |-> c.stray]
           m == [form |-> "blocks", blocks |-> MergeText(c.blocks, t), stray |-> c.stray]
<1>1. CASE p \in {"openai", "azure"} \/ (p = "anthropic" /\ c.form # "blocks")
  <2>1. InjectContent(p, c, t) = s
    BY <1>1 DEF InjectContent, String
  <2> QED
    BY <1>1, <2>1
<1>2. CASE p = "google" \/ (p = "anthropic" /\ c.form = "blocks")
  <2>1. InjectContent(p, c, t) = m
    BY <1>2 DEF InjectContent, Blocks
  <2> QED
    BY <1>2, <2>1
<1> QED
  BY <1>1, <1>2 DEF Providers

\* What is read from a content after injection is what was injected.
LEMMA InjectedIsRead ==
  ASSUME NEW p \in Providers, NEW c \in Contents, NEW t \in Seq(Pieces),
         p = "anthropic" => NoTools(c)
  PROVE  Flatten(p, InjectContent(p, c, t)) = t
<1>1. "text" \in ReadTypes(p)
  BY DEF ReadTypes
<1>2. c.blocks \in Seq(ContentBlocks)
  BY DEF Contents
<1>3. Joined(<<Text(t)>>, ReadTypes(p)) = t
  BY <1>1, OneTextBlock
<1>4. ASSUME p \in {"anthropic", "google"} PROVE Joined(MergeText(c.blocks, t), ReadTypes(p)) = t
  <2>1. \A n \in 1..Len(c.blocks) : c.blocks[n] \in ContentBlocks /\ n \in DOMAIN c.blocks
    BY <1>2, ElementOfSeq, LenProperties
  <2>2. \A n \in 1..Len(c.blocks) :
          c.blocks[n].type \in ReadTypes(p) => c.blocks[n].type = "text"
    BY <2>1, <1>4 DEF NoTools, ReadTypes
  <2> QED
    BY <1>1, <1>2, <2>2, MergedIsRead
<1> QED
  BY <1>3, <1>4, InjectContentIs DEF Flatten

\* Injection leaves the other blocks of a content as they were.
LEMMA InjectedKeepsOthers ==
  ASSUME NEW p \in Providers, HasSystem(p), NEW c \in Contents, NEW t \in Seq(Pieces)
  PROVE  OtherBlocks(InjectContent(p, c, t).blocks) = OtherBlocks(c.blocks)
<1>1. c.blocks \in Seq(ContentBlocks)
  BY DEF Contents
<1>2. OtherBlocks(MergeText(c.blocks, t)) = OtherBlocks(c.blocks)
  BY <1>1, MergedKeepsOthers
<1>3. OtherBlocks(<<Text(t)>>) = <<>>
  BY OneTextBlock
<1>4. ASSUME c.form # "blocks" PROVE OtherBlocks(c.blocks) = <<>>
  <2>1. CASE c.form = "string"
    <3>1. Len(c.blocks) = 1 /\ c.blocks[1].type = "text"
      BY <2>1 DEF Contents
    <3>2. c.blocks[1] \in ContentBlocks
      BY <1>1, <3>1, ElementOfSeq
    <3>3. PICK bs \in Seq(ContentBlocks) : bs = <<>>
      BY EmptySeq
    <3>4. c.blocks = Append(bs, c.blocks[1])
      <4>1. Len(Append(bs, c.blocks[1])) = 1 /\ Append(bs, c.blocks[1])[1] = c.blocks[1]
        <5>1. Len(bs) = 0 /\ Len(bs) + 1 = 1
          BY <3>3, EmptySeq
        <5> HIDE <3>3
        <5> QED
          BY <3>2, <5>1, AppendBlock
      <4>2. Append(bs, c.blocks[1]) \in Seq(ContentBlocks)
        BY <3>2, AppendBlock
      <4>3. \A i \in 1..1 : i = 1
        OBVIOUS
      <4> QED
        BY <1>1, <3>1, <4>1, <4>2, <4>3, SeqEqual
    <3>5. OtherBlocks(Append(bs, c.blocks[1])) = OtherBlocks(bs)
      BY <3>1, <3>2, OthersAppend
    <3> QED
      BY <3>3, <3>4, <3>5, OthersNone
  <2>2. CASE c.form \in {"none", "absent"}
    BY <2>2, OthersNone DEF Contents
  <2> QED
    BY <1>4, <2>1, <2>2 DEF Contents, ContentForms
<1>5. p = "google" \/ p = "anthropic"
  BY DEF HasSystem
<1> QED
  BY <1>2, <1>3, <1>4, <1>5, InjectContentIs

\* A content stays a content.
LEMMA InjectedIsContent ==
  ASSUME NEW p \in Providers, NEW c \in Contents, NEW t \in Seq(Pieces)
  PROVE  InjectContent(p, c, t) \in Contents
<1>1. c.blocks \in Seq(ContentBlocks) /\ Text(t) \in ContentBlocks /\ Text(t).type = "text"
  BY DEF Contents, Text, ContentBlocks, BlockTypes
<1>2. MergeText(c.blocks, t) \in Seq(ContentBlocks)
  <2>1. PICK f \in [0..Len(c.blocks) -> Seq(ContentBlocks)] :
          MergeText(c.blocks, t)
            = IF TextAmong(c.blocks, Len(c.blocks)) THEN f[Len(c.blocks)]
              ELSE Append(f[Len(c.blocks)], Text(t))
    BY <1>1, MergedLoop
  <2>2. f[Len(c.blocks)] \in Seq(ContentBlocks)
    BY <1>1, <2>1, LenProperties
  <2> QED
    BY <1>1, <2>1, <2>2, AppendProperties
<1>3. <<Text(t)>> \in Seq(ContentBlocks) /\ Len(<<Text(t)>>) = 1 /\ <<Text(t)>>[1] = Text(t)
  BY <1>1
<1>4. c.stray \in Seq(ContentBlocks)
  BY DEF Contents
<1> DEFINE d == InjectContent(p, c, t)
<1>5. /\ d = [form |-> d.form, blocks |-> d.blocks, stray |-> c.stray]
      /\ \/ d.form = "string" /\ d.blocks = <<Text(t)>>
         \/ d.form = "blocks" /\ d.blocks = MergeText(c.blocks, t)
  BY InjectContentIs
<1> HIDE DEF d
<1>6. /\ d.blocks \in Seq(ContentBlocks) /\ d.form \in {"string", "blocks"}
      /\ d.form = "string" => Len(d.blocks) = 1 /\ d.blocks[1].type = "text"
  BY <1>1, <1>2, <1>3, <1>5
<1>7. ASSUME NEW f \in {"string", "blocks"}, NEW bs \in Seq(ContentBlocks),
             NEW st \in Seq(ContentBlocks),
             f = "string" => Len(bs) = 1 /\ bs[1].type = "text"
      PROVE  [form |-> f, blocks |-> bs, stray |-> st] \in Contents
  BY <1>7 DEF Contents, ContentForms
<1>8. [form |-> d.form, blocks |-> d.blocks, stray |-> c.stray] \in Contents
  BY <1>4, <1>6, <1>7
<1> QED
  BY <1>5, <1>8 DEF d

LEMMA FlattenIsText ==
  ASSUME NEW p, NEW c \in Contents
  PROVE  Flatten(p, c) \in Seq(Pieces)
<1> DEFINE bs == IF c.form = "none" THEN c.stray ELSE c.blocks
<1>1. bs \in Seq(ContentBlocks) /\ Len(bs) \in Nat
  BY LenProperties DEF Contents
<1> HIDE DEF bs
<1>2. PICK f \in [0..Len(bs) -> Seq(Pieces)] :
        Joined(bs, ReadTypes(p)) = f[Len(bs)]
  BY <1>1, JoinedLoop
<1> QED
  BY <1>1, <1>2 DEF Flatten, bs

-----------------------------------------------------------------------------

Extracted == [role : Roles, text : Seq(Pieces)]

\* How many messages come from the system prompt.
Lead(p, b) == IF HasSystem(p) /\ Flatten(p, b.system) # <<>> THEN 1 ELSE 0

\* The messages of a body, one by one.
LEMMA ExtractIs ==
  ASSUME NEW c, c.provider \in Providers, NEW b \in Bodies, Inspectable(c), ~Malformed(b)
  PROVE  LET p == c.provider
             ms == Extract(c, b)
         IN  /\ ms \in Seq(Extracted)
             /\ Len(b.messages) \in Nat
             /\ Len(ms) = Lead(p, b) + Len(b.messages)
             /\ Lead(p, b) = 1 => ms[1] = [role |-> "system", text |-> Flatten(p, b.system)]
             /\ \A i \in 1..Len(b.messages) :
                  ms[Lead(p, b) + i] = [role |-> NormalRole(p, b.messages[i].role),
                                        text |-> Flatten(p, b.messages[i].content)]
<1> DEFINE p == c.provider
           n == Len(b.messages)
           system == [role |-> "system", text |-> Flatten(p, b.system)]
           lead == IF HasSystem(p) /\ Flatten(p, b.system) # <<>> THEN <<system>> ELSE <<>>
           turn(i) == [role |-> NormalRole(p, b.messages[i].role),
                       text |-> Flatten(p, b.messages[i].content)]
           turns == [i \in DOMAIN b.messages |-> turn(i)]
<1>1. /\ b.messages \in Seq([role : Roles, content : Contents]) /\ n \in Nat
      /\ DOMAIN b.messages = 1..n /\ b.system \in Contents
  BY LenProperties DEF Bodies
<1>2. ASSUME NEW i \in 1..n PROVE turn(i) \in Extracted
  <2>1. b.messages[i] \in [role : Roles, content : Contents]
    BY <1>1, ElementOfSeq
  <2>2. Flatten(p, b.messages[i].content) \in Seq(Pieces)
    BY <2>1, FlattenIsText
  <2>3. NormalRole(p, b.messages[i].role) \in Roles
    BY <2>1 DEF NormalRole, Roles
  <2> QED
    BY <2>2, <2>3 DEF Extracted
<1>3. turns \in Seq(Extracted) /\ Len(turns) = n /\ \A i \in 1..n : turns[i] = turn(i)
  <2> HIDE DEF turn
  <2>1. turns \in [1..n -> Extracted]
    BY <1>1, <1>2
  <2> QED
    BY <1>1, <2>1
<1>4. system \in Extracted
  BY <1>1, FlattenIsText DEF Extracted, Roles
<1>5. /\ lead \in Seq(Extracted) /\ Len(lead) = Lead(p, b)
      /\ Lead(p, b) = 1 => lead[1] = system
  <2> HIDE DEF system
  <2> QED
    BY <1>4 DEF Lead
<1>6. Extract(c, b) = lead \o turns
  BY DEF Extract
<1>7. Lead(p, b) \in {0, 1}
  BY DEF Lead
<1> HIDE DEF lead, turns, turn, system
<1>8. /\ lead \o turns \in Seq(Extracted) /\ Len(lead \o turns) = Lead(p, b) + n
      /\ Lead(p, b) = 1 => (lead \o turns)[1] = lead[1]
      /\ \A i \in 1..n : (lead \o turns)[Lead(p, b) + i] = turns[i]
  BY <1>1, <1>3, <1>5, <1>7, ConcatProperties
<1> QED
  BY <1>1, <1>3, <1>5, <1>6, <1>8 DEF turn, system

\* A role that was read, put into a message and read again is the same role.
LEMMA RoleComesBack ==
  ASSUME NEW p \in Providers, NEW role \in Roles
  PROVE  LET is == InjectRole(p, role, NormalRole(p, role))
         IN  is \in Roles /\ RoleKept(p, role, is) /\ NormalRole(p, is) = NormalRole(p, role)
<1>1. CASE p \in {"openai", "azure"}
  <2>1. p # "google" /\ p # "anthropic"
    BY <1>1
  <2>2. ASSUME NEW r PROVE NormalRole(p, r) = IF r = "none" THEN "empty" ELSE r
    BY <2>1 DEF NormalRole
  <2>3. InjectRole(p, role, NormalRole(p, role)) = NormalRole(p, role)
    BY <1>1 DEF InjectRole
  <2>4. ~HasSystem(p)
    BY <2>1 DEF HasSystem
  <2>5. CASE role = "none"
    <3>1. NormalRole(p, role) = "empty" /\ NormalRole(p, "empty") = "empty"
      BY <2>2, <2>5
    <3> QED
      BY <2>3, <2>4, <2>5, <3>1 DEF RoleKept, Roles
  <2>6. CASE role # "none"
    <3>1. NormalRole(p, role) = role
      BY <2>2, <2>6
    <3> QED
      BY <2>3, <3>1 DEF RoleKept
  <2> QED
    BY <2>5, <2>6
<1>2. CASE p \in {"anthropic", "google"}
  BY <1>2 DEF InjectRole, RoleKept
<1> QED
  BY <1>1, <1>2 DEF Providers

\* The masked messages have the roles and the lengths of those they mask.
LEMMA MaskedAre ==
  ASSUME NEW ms \in Seq(Extracted)
  PROVE  /\ Masked(ms) \in Seq(Extracted)
         /\ Len(ms) \in Nat /\ Len(Masked(ms)) = Len(ms)
         /\ \A i \in 1..Len(ms) :
              /\ Masked(ms)[i].role = ms[i].role
              /\ Masked(ms)[i].text = <<>> => ms[i].text = <<>>
<1> DEFINE clean(t) == [j \in DOMAIN t |-> IF t[j] = "secret" THEN "redacted" ELSE t[j]]
           m(i) == [ms[i] EXCEPT !.text = clean(@)]
<1>1. Len(ms) \in Nat /\ DOMAIN ms = 1..Len(ms) /\ \A i \in 1..Len(ms) : ms[i] \in Extracted
  BY LenProperties, ElementOfSeq
<1>2. ASSUME NEW t \in Seq(Pieces) PROVE clean(t) \in Seq(Pieces) /\ (clean(t) = <<>> => t = <<>>)
  <2>1. DOMAIN t = 1..Len(t) /\ Len(t) \in Nat /\ \A j \in 1..Len(t) : t[j] \in Pieces
    BY LenProperties, ElementOfSeq
  <2>2. clean(t) \in [1..Len(t) -> Pieces]
    BY <2>1 DEF Pieces
  <2>3. clean(t) \in Seq(Pieces) /\ Len(clean(t)) = Len(t)
    BY <2>1, <2>2
  <2> HIDE DEF clean
  <2> QED
    BY <2>1, <2>3, EmptySeq
<1>3. Masked(ms) = [i \in DOMAIN ms |-> m(i)]
  BY DEF Masked
<1>4. ASSUME NEW i \in 1..Len(ms)
      PROVE  m(i) \in Extracted /\ m(i).role = ms[i].role /\ (m(i).text = <<>> => ms[i].text = <<>>)
  <2>1. ms[i] \in Extracted /\ ms[i].text \in Seq(Pieces)
    BY <1>1 DEF Extracted
  <2>2. clean(ms[i].text) \in Seq(Pieces) /\ (clean(ms[i].text) = <<>> => ms[i].text = <<>>)
    BY <1>2, <2>1
  <2> HIDE DEF clean
  <2> QED
    BY <2>1, <2>2 DEF Extracted
<1> HIDE DEF m
<1>5. Masked(ms) \in [1..Len(ms) -> Extracted] /\ \A i \in 1..Len(ms) : Masked(ms)[i] = m(i)
  BY <1>1, <1>3, <1>4
<1>6. Masked(ms) \in Seq(Extracted) /\ Len(Masked(ms)) = Len(ms)
  BY <1>1, <1>5
<1> QED
  BY <1>1, <1>4, <1>5, <1>6

\* What injection into a body needs to be what extraction left.
Maskable(c, b) ==
  /\ c.provider \in Providers /\ b \in Bodies
  /\ Extract(c, b) # <<>> /\ "messages" \in b.exact
  /\ ~InjectFails(c, b, Masked(Extract(c, b)))

\* A count that fits is that of the messages with the system prompt's.
LEMMA MaskableIs ==
  ASSUME NEW c, NEW b, Maskable(c, b)
  PROVE  LET p == c.provider
             ms == Extract(c, b)
             m == Masked(ms)
         IN  /\ Inspectable(c) /\ ~Malformed(b)
             /\ SystemShare(p, b, m) = Lead(p, b) /\ Lead(p, b) \in {0, 1}
             /\ Lead(p, b) = 1 => HasSystem(p)
             /\ ms \in Seq(Extracted) /\ m \in Seq(Extracted)
             /\ Len(b.messages) \in Nat /\ DOMAIN b.messages = 1..Len(b.messages)
             /\ Len(ms) = Lead(p, b) + Len(b.messages) /\ Len(m) = Len(ms)
<1> DEFINE p == c.provider
           ms == Extract(c, b)
           m == Masked(ms)
<1>1. Inspectable(c) /\ ~Malformed(b)
  BY DEF Maskable, Extract
<1>2. /\ ms \in Seq(Extracted) /\ Len(b.messages) \in Nat
      /\ Len(ms) = Lead(p, b) + Len(b.messages)
  BY <1>1, ExtractIs DEF Maskable
<1>3. m \in Seq(Extracted) /\ Len(ms) \in Nat /\ Len(m) = Len(ms)
  BY <1>2, MaskedAre
<1>4. DOMAIN b.messages = 1..Len(b.messages)
  BY LenProperties DEF Maskable, Bodies
<1> HIDE DEF m
<1>5. Len(b.messages) = Len(m) - SystemShare(p, b, m)
  BY DEF Maskable, InjectFails, m
<1>6. SystemShare(p, b, m) \in {0, 1} /\ Lead(p, b) \in {0, 1}
  BY DEF SystemShare, Lead
<1>7. SystemShare(p, b, m) = Lead(p, b)
  BY <1>2, <1>3, <1>5, <1>6
<1> QED
  BY <1>1, <1>2, <1>3, <1>4, <1>6, <1>7 DEF Lead, m

\* The fields of the body that is forwarded.
LEMMA InjectIs ==
  ASSUME NEW c, NEW b, Maskable(c, b)
  PROVE  LET p == c.provider
             k == Lead(p, b)
             m == Masked(Extract(c, b))
             d == Inject(c, b, m)
         IN  /\ d \in Bodies
             /\ d.shape = b.shape /\ d.stream = b.stream /\ d.exact = b.exact
             /\ d.system = IF k = 1 THEN InjectContent(p, b.system, m[1].text) ELSE b.system
             /\ DOMAIN d.messages = 1..Len(b.messages) /\ Len(d.messages) = Len(b.messages)
             /\ \A i \in 1..Len(b.messages) :
                  /\ RoleKept(p, b.messages[i].role, d.messages[i].role)
                  /\ NormalRole(p, d.messages[i].role) = m[k + i].role
                  /\ d.messages[i].content
                       = InjectContent(p, b.messages[i].content, m[k + i].text)
                  /\ m[k + i] \in Extracted
<1> DEFINE p == c.provider
           k == Lead(p, b)
           ms == Extract(c, b)
           m == Masked(ms)
           d == Inject(c, b, m)
           n == Len(b.messages)
           turn(i) == [role    |-> InjectRole(p, b.messages[i].role, m[k + i].role),
                       content |-> InjectContent(p, b.messages[i].content, m[k + i].text)]
<1>1. /\ SystemShare(p, b, m) = k /\ k \in {0, 1}
      /\ n \in Nat /\ DOMAIN b.messages = 1..n /\ Len(m) = k + n
      /\ ms \in Seq(Extracted) /\ Len(ms) = k + n /\ m \in Seq(Extracted)
  BY MaskableIs
<1>2. /\ p \in Providers /\ b \in Bodies /\ b.system \in Contents
      /\ b.messages \in Seq([role : Roles, content : Contents])
  BY DEF Maskable, Bodies
<1>3. /\ d.shape = b.shape /\ d.stream = b.stream /\ d.exact = b.exact
      /\ d.system = IF k = 1 THEN InjectContent(p, b.system, m[1].text) ELSE b.system
      /\ d.messages = [i \in 1..n |-> turn(i)]
      /\ d = [b EXCEPT !.system = d.system, !.messages = d.messages]
  <2> HIDE DEF k, m, n
  <2> QED
    BY <1>1, <1>2 DEF Inject, Bodies, Maskable
<1>4. ASSUME NEW i \in 1..n
      PROVE  /\ b.messages[i] \in [role : Roles, content : Contents]
             /\ m[k + i] \in Extracted /\ m[k + i].text \in Seq(Pieces)
             /\ m[k + i].role = NormalRole(p, b.messages[i].role)
  <2>1. k + i \in 1..Len(ms) /\ k + i \in 1..Len(m)
    BY <1>1
  <2>2. b.messages[i] \in [role : Roles, content : Contents]
    BY <1>1, <1>2, ElementOfSeq
  <2>3. m[k + i] \in Extracted
    BY <1>1, <2>1, ElementOfSeq
  <2>4. m[k + i].role = ms[k + i].role
    BY <1>1, <2>1, MaskedAre
  <2>5. ms[k + i] = [role |-> NormalRole(p, b.messages[i].role),
                     text |-> Flatten(p, b.messages[i].content)]
    BY MaskableIs, ExtractIs, <1>2 DEF Maskable
  <2> HIDE DEF m, ms, k
  <2> QED
    BY <2>2, <2>3, <2>4, <2>5 DEF Extracted
<1> HIDE DEF d, m, k, ms
<1>5. ASSUME NEW i \in 1..n
      PROVE  /\ RoleKept(p, b.messages[i].role, turn(i).role)
             /\ NormalRole(p, turn(i).role) = m[k + i].role
             /\ turn(i) \in [role : Roles, content : Contents]
  <2>1. /\ RoleKept(p, b.messages[i].role, turn(i).role)
        /\ NormalRole(p, turn(i).role) = m[k + i].role
        /\ turn(i).role \in Roles
    <3>1. /\ turn(i).role = InjectRole(p, b.messages[i].role, NormalRole(p, b.messages[i].role))
          /\ b.messages[i].role \in Roles
      BY <1>4
    <3> HIDE DEF turn
    <3> QED
      BY <1>2, <1>4, <3>1, RoleComesBack
  <2>2. InjectContent(p, b.messages[i].content, m[k + i].text) \in Contents
    BY <1>2, <1>4, InjectedIsContent
  <2> QED
    BY <1>4, <2>1, <2>2
<1>6. /\ d.messages \in Seq([role : Roles, content : Contents])
      /\ DOMAIN d.messages = 1..n /\ Len(d.messages) = n
      /\ \A i \in 1..n : d.messages[i] = turn(i)
  <2> HIDE DEF turn
  <2>1. d.messages \in [1..n -> [role : Roles, content : Contents]]
    BY <1>3, <1>5
  <2> QED
    BY <1>1, <1>3, <2>1
<1>7. d.system \in Contents
  <2>1. CASE k = 1
    <3>1. m[1] \in Extracted
      BY <1>1, <2>1, ElementOfSeq
    <3> QED
      BY <1>2, <1>3, <2>1, <3>1, InjectedIsContent DEF Extracted
  <2> QED
    BY <1>2, <1>3, <2>1
<1>8. d \in Bodies
  BY <1>2, <1>3, <1>6, <1>7 DEF Bodies
<1>9. ASSUME NEW i \in 1..n
      PROVE  /\ RoleKept(p, b.messages[i].role, d.messages[i].role)
             /\ NormalRole(p, d.messages[i].role) = m[k + i].role
             /\ d.messages[i].content = InjectContent(p, b.messages[i].content, m[k + i].text)
             /\ m[k + i] \in Extracted
  <2>1. d.messages[i] = turn(i)
    BY <1>6
  <2>2. d.messages[i].content = InjectContent(p, b.messages[i].content, m[k + i].text)
    BY <2>1
  <2> HIDE DEF turn
  <2> QED
    BY <1>4, <1>5, <2>1, <2>2
<1>10. /\ d \in Bodies
       /\ d.shape = b.shape /\ d.stream = b.stream /\ d.exact = b.exact
       /\ d.system = IF k = 1 THEN InjectContent(p, b.system, m[1].text) ELSE b.system
       /\ DOMAIN d.messages = 1..n /\ Len(d.messages) = n
  BY <1>3, <1>6, <1>8
<1> QED
  BY <1>9, <1>10 DEF d, m, k, ms

\* The provider reads the masked messages in the body it gets.
LEMMA InjectedAreExtracted ==
  ASSUME NEW c, NEW b, Maskable(c, b), ~HasTools(b)
  PROVE  Extract(c, Inject(c, b, Masked(Extract(c, b)))) = Masked(Extract(c, b))
<1> DEFINE p == c.provider
           k == Lead(p, b)
           ms == Extract(c, b)
           m == Masked(ms)
           d == Inject(c, b, m)
           n == Len(b.messages)
           xs == Extract(c, d)
<1>1. /\ Inspectable(c) /\ ~Malformed(b)
      /\ k \in {0, 1} /\ (k = 1 => HasSystem(p))
      /\ ms \in Seq(Extracted) /\ m \in Seq(Extracted)
      /\ n \in Nat /\ DOMAIN b.messages = 1..n
      /\ Len(ms) = k + n /\ Len(m) = k + n
  BY MaskableIs
<1>2. p \in Providers /\ b \in Bodies /\ b.system \in Contents
  BY DEF Maskable, Bodies
<1>3. /\ d \in Bodies
      /\ d.shape = b.shape
      /\ d.system = IF k = 1 THEN InjectContent(p, b.system, m[1].text) ELSE b.system
      /\ Len(d.messages) = n
  BY InjectIs
<1>4. ASSUME NEW i \in 1..n
      PROVE  /\ NormalRole(p, d.messages[i].role) = m[k + i].role
             /\ d.messages[i].content = InjectContent(p, b.messages[i].content, m[k + i].text)
             /\ m[k + i] \in Extracted
  BY InjectIs
<1>5. /\ k = 1 => ms[1] = [role |-> "system", text |-> Flatten(p, b.system)]
      /\ \A i \in 1..n : b.messages[i] \in [role : Roles, content : Contents]
  <2>1. k = 1 => ms[1] = [role |-> "system", text |-> Flatten(p, b.system)]
    BY <1>1, <1>2, ExtractIs
  <2>2. b.messages \in Seq([role : Roles, content : Contents])
    BY <1>2 DEF Bodies
  <2> QED
    BY <2>1, <2>2, ElementOfSeq
<1>6. NoTools(b.system) /\ \A i \in 1..n : NoTools(b.messages[i].content)
  BY <1>1 DEF HasTools, NoTools
<1> HIDE DEF d, m, ms
<1>7. ASSUME k = 1
      PROVE  /\ m[1] \in Extracted /\ m[1].role = "system"
             /\ Flatten(p, d.system) = m[1].text /\ m[1].text # <<>>
  <2>1. 1 \in 1..Len(ms) /\ 1 \in 1..Len(m)
    BY <1>1, <1>7
  <2>2. m[1] \in Extracted /\ m[1].role = ms[1].role /\ (m[1].text = <<>> => ms[1].text = <<>>)
    BY <1>1, <2>1, MaskedAre, ElementOfSeq DEF m
  <2>3. ms[1].role = "system" /\ ms[1].text = Flatten(p, b.system)
    BY <1>5, <1>7
  <2>4. Flatten(p, b.system) # <<>>
    BY <1>7 DEF Lead
  <2>5. Flatten(p, InjectContent(p, b.system, m[1].text)) = m[1].text
    BY <1>2, <1>6, <2>2, InjectedIsRead DEF Extracted
  <2> QED
    BY <1>3, <1>7, <2>2, <2>3, <2>4, <2>5
<1>8. Lead(p, d) = k
  <2>1. CASE k = 1
    BY <1>1, <1>7, <2>1 DEF Lead
  <2>2. CASE k = 0
    <3>1. d.system = b.system
      BY <1>3, <2>2
    <3> QED
      BY <3>1 DEF Lead
  <2> QED
    BY <1>1, <2>1, <2>2
<1>9. ~Malformed(d)
  BY <1>1, <1>3 DEF Malformed
<1>10. /\ xs \in Seq(Extracted) /\ Len(xs) = k + n
       /\ k = 1 => xs[1] = [role |-> "system", text |-> Flatten(p, d.system)]
       /\ \A i \in 1..n :
            xs[k + i] = [role |-> NormalRole(p, d.messages[i].role),
                         text |-> Flatten(p, d.messages[i].content)]
  BY <1>1, <1>2, <1>3, <1>8, <1>9, ExtractIs
<1> HIDE DEF k, xs
<1>11. ASSUME NEW i \in 1..n PROVE xs[k + i] = m[k + i]
  <2>1. Flatten(p, InjectContent(p, b.messages[i].content, m[k + i].text)) = m[k + i].text
    BY <1>2, <1>4, <1>5, <1>6, InjectedIsRead DEF Extracted
  <2>2. xs[k + i] = [role |-> m[k + i].role, text |-> m[k + i].text]
    BY <1>4, <1>10, <2>1
  <2> QED
    BY <1>4, <2>2 DEF Extracted
<1>12. ASSUME k = 1 PROVE xs[1] = m[1]
  BY <1>7, <1>10, <1>12 DEF Extracted
<1>13. ASSUME NEW j \in 1..Len(xs) PROVE xs[j] = m[j]
  <2>1. CASE k = 1 /\ j = 1
    BY <1>12, <2>1
  <2>2. CASE ~(k = 1 /\ j = 1)
    <3>1. j - k \in 1..n /\ k + (j - k) = j
      BY <1>1, <1>10, <2>2
    <3> QED
      BY <1>11, <3>1
  <2> QED
    BY <2>1, <2>2
<1>14. xs = m
  BY <1>1, <1>10, <1>13, SeqEqual
<1> QED
  BY <1>14 DEF xs, d, m, ms

-----------------------------------------------------------------------------

\* The body that is forwarded once a verdict is there.
ForwardedBody ==
  IF verdict = "MASK" /\ Messages # <<>>
    THEN Inject(call, call.body, Masked(Messages)) ELSE call.body

\* The client's body until the verdict, the one that is forwarded after it,
\* and what was sent is that body.
BodyInv ==
  /\ at \in {"authenticate", "resolve", "read", "inspect"} => body = call.body
  /\ at \in {"send", "await", "relay"} \/ out # <<>> =>
       /\ body = ForwardedBody
       /\ verdict = "MASK" /\ Messages # <<>> =>
            ~InjectFails(call, call.body, Masked(Messages))
  /\ out # <<>> => out[1].body = body

\* The body stays right before the request is sent.
LEMMA NotYetSent ==
  ASSUME Inv, UNCHANGED out,
         at \in {"authenticate", "resolve", "read", "inspect", "send"},
         at' = "done"
  PROVE  BodyInv'
BY DEF Inv, PipelineInv, Stage, BodyInv

LEMMA OnTheWay ==
  ASSUME Inv, BodyInv, UNCHANGED <<call, body, out>>,
         at \in {"authenticate", "resolve", "read"}, at' \in {"resolve", "read", "inspect"}
  PROVE  BodyInv'
BY DEF Inv, PipelineInv, Stage, BodyInv

\* What was sent stays the body that was forwarded.
LEMMA Sent ==
  ASSUME Inv, BodyInv, UNCHANGED <<call, body, verdict, out>>,
         at \in {"await", "relay"}, at' \in {"await", "relay", "done"}
  PROVE  BodyInv'
BY DEF Inv, PipelineInv, Stage, BodyInv, ForwardedBody, Messages

LEMMA NextBody == Inv /\ BodyInv /\ [Next]_vars => BodyInv'
<1> SUFFICES ASSUME Inv, BodyInv, [Next]_vars PROVE BodyInv'
  OBVIOUS
<1>1. ASSUME Unauthorized \/ ProviderNotAllowed \/ NoMasterKey \/ BodyTooLarge \/ Block
               \/ MaskFails \/ NotSent
      PROVE  BodyInv'
  BY <1>1, NotYetSent DEF Unauthorized, ProviderNotAllowed, NoMasterKey, BodyTooLarge,
    Block, MaskFails, NotSent, Refuse
<1>2. ASSUME Authenticate \/ ResolveMasterKey \/ ReadBody PROVE BodyInv'
  BY <1>2, OnTheWay DEF Authenticate, ResolveMasterKey, ReadBody, Proceed
<1>3. CASE Allow
  <2>1. /\ at = "inspect" /\ at' = "send" /\ UNCHANGED <<call, body, out>>
        /\ verdict' = "ALLOW" \/ Messages = <<>>
    BY <1>3 DEF Allow, Proceed
  <2>2. body = call.body /\ out = <<>>
    BY <2>1 DEF Inv, PipelineInv, Stage, BodyInv
  <2> QED
    BY <2>1, <2>2 DEF BodyInv, ForwardedBody, Messages
<1>4. CASE Mask
  <2>1. /\ at = "inspect" /\ at' = "send" /\ UNCHANGED <<call, out>> /\ verdict' = "MASK"
        /\ Messages # <<>> /\ ~InjectFails(call, body, Masked(Messages))
        /\ body' = Inject(call, body, Masked(Messages))
    BY <1>4 DEF Mask, Proceed
  <2>2. body = call.body /\ out = <<>>
    BY <2>1 DEF Inv, PipelineInv, Stage, BodyInv
  <2>3. Messages' = Messages
    BY <2>1 DEF Messages
  <2> QED
    BY <2>1, <2>2, <2>3 DEF BodyInv, ForwardedBody
<1>5. CASE Dispatch
  <2> DEFINE r == [body |-> body, credentials |-> Credentials(call.provider, call.given)]
  <2>1. /\ at = "send" /\ at' = "await" /\ UNCHANGED <<call, body, verdict>>
        /\ out' = Append(out, r)
    BY <1>5 DEF Dispatch
  <2>2. out = <<>>
    BY <2>1 DEF Inv, PipelineInv, Stage
  <2>3. r.body = body
    OBVIOUS
  <2> HIDE DEF r
  <2>4. out'[1] = r
    BY <2>1, <2>2
  <2> QED
    BY <2>1, <2>3, <2>4 DEF BodyInv, ForwardedBody, Messages
<1>6. ASSUME ProviderFails \/ GiveUp \/ BeginStream \/ Stream
               \/ \E code \in Statuses : Forward(code)
      PROVE  BodyInv'
  BY <1>6, Sent DEF ProviderFails, GiveUp, BeginStream, Stream, Forward, Refuse
<1>7. ASSUME Environment \/ UNCHANGED vars PROVE BodyInv'
  <2>1. UNCHANGED <<call, at, body, verdict, out>>
    BY <1>7 DEF Environment, vars, handler
  <2> QED
    BY <2>1 DEF BodyInv, ForwardedBody, Messages
<1> QED
  BY <1>1, <1>2, <1>3, <1>4, <1>5, <1>6, <1>7 DEF Next, Gateway, Provider

LEMMA InitBody == Init => BodyInv
BY DEF Init, BodyInv

LEMMA BodyAlways == Spec => [](Inv /\ BodyInv)
BY InitInv, NextInv, InitBody, NextBody, PTL DEF Spec

\* A body that was forwarded with masked messages could take them.
LEMMA SentMasked ==
  ASSUME Inv, BodyInv, out # <<>>, out[1].body # call.body
  PROVE  /\ call.provider \in Providers /\ call.body \in Bodies
         /\ Messages # <<>>
         /\ "messages" \in call.body.exact => Maskable(call, call.body)
         /\ out[1].body = Inject(call, call.body, Masked(Messages))
<1>1. call.provider \in Providers /\ call.body \in Bodies
  BY CallsAssumption DEF Inv, PipelineInv, Shape
<1> QED
  BY <1>1 DEF BodyInv, ForwardedBody, Maskable, Messages

\* Messages whose key is not found are left alone; the system prompt may
\* still be written.
LEMMA Unfound ==
  ASSUME NEW c, c.provider \in Providers, NEW b \in Bodies,
         Extract(c, b) # <<>>, "messages" \notin b.exact
  PROVE  LET d == Inject(c, b, Masked(Extract(c, b)))
         IN  /\ d.shape = b.shape /\ d.stream = b.stream /\ d.exact = b.exact
             /\ d = [b EXCEPT !.system = d.system]
             /\ d.messages = b.messages
             /\ d.system.stray = b.system.stray
             /\ HasSystem(c.provider) =>
                  OtherBlocks(d.system.blocks) = OtherBlocks(b.system.blocks)
<1> DEFINE p == c.provider
           ms == Extract(c, b)
           m == Masked(ms)
           d == Inject(c, b, m)
           k == SystemShare(p, b, m)
<1>1. Inspectable(c) /\ ~Malformed(b)
  BY DEF Extract
<1>2. ms \in Seq(Extracted) /\ b.system \in Contents
  BY <1>1, ExtractIs DEF Bodies
<1>3. /\ m \in Seq(Extracted) /\ Len(m) = Len(ms) /\ Len(ms) \in Nat
  BY <1>2, MaskedAre
<1>4. Len(ms) # 0
  BY <1>2, EmptySeq
<1>5. m[1] \in Extracted
  <2>1. 1 \in 1..Len(m)
    BY <1>3, <1>4
  <2> HIDE DEF m
  <2> QED
    BY <1>3, <2>1, ElementOfSeq
<1> HIDE DEF m, k
<1>6. /\ d.shape = b.shape /\ d.stream = b.stream /\ d.exact = b.exact
      /\ d = [b EXCEPT !.system = d.system]
      /\ d.messages = b.messages
      /\ d.system = IF k = 1 THEN InjectContent(p, b.system, m[1].text) ELSE b.system
  BY DEF Inject, Bodies, k
<1> HIDE DEF d
<1>7. /\ d.system.stray = b.system.stray
      /\ HasSystem(p) => OtherBlocks(d.system.blocks) = OtherBlocks(b.system.blocks)
  <2>1. CASE k = 1
    <3>1. m[1].text \in Seq(Pieces)
      BY <1>5 DEF Extracted
    <3>2. InjectContent(p, b.system, m[1].text).stray = b.system.stray
      BY InjectContentIs
    <3> QED
      BY <1>2, <1>6, <2>1, <3>1, <3>2, InjectedKeepsOthers
  <2> QED
    BY <1>6, <2>1
<1> QED
  BY <1>6, <1>7 DEF d, m

\* InjectMessages undoes ExtractMessages where it finds the messages' key:
\* whatever the shape of a masked request, what it says are the masked
\* messages, all of them, in their order.  Where it does not find the key, it
\* does nothing about the messages.
THEOREM MaskArrives == Spec => []MaskReachesProvider
<1>1. Inv /\ BodyInv => MaskReachesProvider
  <2> SUFFICES ASSUME Inv, BodyInv, out # <<>>, verdict = "MASK", ~HasTools(call.body)
               PROVE  IF "messages" \in call.body.exact
                        THEN Extract(call, out[1].body) = Masked(Messages)
                        ELSE out[1].body.messages = call.body.messages
    BY DEF MaskReachesProvider
  <2>1. CASE Messages = <<>>
    <3>1. out[1].body = call.body
      BY <2>1 DEF BodyInv, ForwardedBody
    <3>2. Masked(<<>>) = <<>>
      BY DEF Masked
    <3> QED
      BY <2>1, <3>1, <3>2 DEF Messages
  <2>2. CASE Messages # <<>>
    <3>1. out[1].body = Inject(call, call.body, Masked(Messages))
      BY <2>2 DEF BodyInv, ForwardedBody
    <3>2. call.provider \in Providers /\ call.body \in Bodies
      BY CallsAssumption DEF Inv, PipelineInv, Shape
    <3>3. ASSUME "messages" \in call.body.exact PROVE Maskable(call, call.body)
      BY <2>2, <3>2, <3>3 DEF BodyInv, Maskable, Messages
    <3>4. ASSUME "messages" \notin call.body.exact
          PROVE  out[1].body.messages = call.body.messages
      BY <2>2, <3>1, <3>2, <3>4, Unfound DEF Messages
    <3> QED
      BY <3>1, <3>3, <3>4, InjectedAreExtracted DEF Messages
  <2> QED
    BY <2>1, <2>2
<1> QED
  BY BodyAlways, <1>1, PTL

\* InjectMessages rewrites text only: the roles, the number of messages, the
\* way the answer comes and the blocks that are no text are the client's.
THEOREM RestOfBodyStays == Spec => []RestSurvivesMask
<1>1. Inv /\ BodyInv => RestSurvivesMask
  <2> SUFFICES ASSUME Inv, BodyInv, out # <<>> PROVE RestSurvivesMask
    BY DEF RestSurvivesMask
  <2>1. CASE out[1].body = call.body
    BY <2>1 DEF RestSurvivesMask, RoleKept
  <2>2. CASE out[1].body # call.body /\ "messages" \notin call.body.exact
    <3> DEFINE b == call.body
               d == out[1].body
    <3>1. /\ call.provider \in Providers /\ b \in Bodies /\ Extract(call, b) # <<>>
          /\ d = Inject(call, b, Masked(Extract(call, b)))
      BY <2>2, SentMasked DEF Messages
    <3>2. /\ d = [b EXCEPT !.system = d.system] /\ d.messages = b.messages
          /\ d.system.stray = b.system.stray
          /\ HasSystem(call.provider) =>
               OtherBlocks(d.system.blocks) = OtherBlocks(b.system.blocks)
      BY <2>2, <3>1, Unfound
    <3> HIDE DEF d, b
    <3>3. [d EXCEPT !.messages = <<>>, !.system = Absent]
            = [b EXCEPT !.messages = <<>>, !.system = Absent]
      BY <3>1, <3>2 DEF Bodies
    <3> QED
      BY <3>2, <3>3 DEF RestSurvivesMask, RoleKept, d, b
  <2>3. CASE out[1].body # call.body /\ "messages" \in call.body.exact
    <3> DEFINE b == call.body
               d == out[1].body
               k == Lead(call.provider, b)
               m == Masked(Messages)
               n == Len(b.messages)
    <3>1. Maskable(call, b) /\ d = Inject(call, b, Masked(Extract(call, b)))
      BY <2>3, SentMasked DEF Messages
    <3>2. /\ d \in Bodies /\ b \in Bodies
          /\ d.shape = b.shape /\ d.stream = b.stream /\ d.exact = b.exact
          /\ d.system = IF k = 1 THEN InjectContent(call.provider, b.system, m[1].text)
                        ELSE b.system
          /\ DOMAIN d.messages = 1..n /\ DOMAIN b.messages = 1..n
      BY <3>1, InjectIs, MaskableIs DEF Messages, Maskable
    <3>3. call.provider \in Providers
      BY <3>1 DEF Maskable
    <3>4. ASSUME NEW i \in 1..n
          PROVE  /\ RoleKept(call.provider, b.messages[i].role, d.messages[i].role)
                 /\ d.messages[i].content
                      = InjectContent(call.provider, b.messages[i].content, m[k + i].text)
                 /\ m[k + i].text \in Seq(Pieces)
      BY <3>1, InjectIs DEF Messages, Extracted
    <3> HIDE DEF d, b, k, m, n
    <3>5. [d EXCEPT !.messages = <<>>, !.system = Absent]
            = [b EXCEPT !.messages = <<>>, !.system = Absent]
      BY <3>2 DEF Bodies
    <3>6. ASSUME HasSystem(call.provider)
          PROVE  OtherBlocks(d.system.blocks) = OtherBlocks(b.system.blocks)
      <4>1. CASE k = 1
        <5>1. b.system \in Contents
          BY <3>2 DEF Bodies
        <5>2. m[1].text \in Seq(Pieces)
          <6>1. /\ m \in Seq(Extracted) /\ Len(m) = k + n /\ n \in Nat
            BY <3>1, MaskableIs DEF m, n, k, Messages, b
          <6>2. m[1] \in Extracted
            BY <4>1, <6>1, ElementOfSeq
          <6> QED
            BY <6>2 DEF Extracted
        <5> QED
          BY <3>2, <3>6, <3>3, <4>1, <5>1, <5>2, InjectedKeepsOthers
      <4>2. CASE k # 1
        BY <3>2, <4>2
      <4> QED
        BY <4>1, <4>2
    <3>7. ASSUME NEW i \in 1..n, HasSystem(call.provider)
          PROVE  OtherBlocks(d.messages[i].content.blocks)
                   = OtherBlocks(b.messages[i].content.blocks)
      <4>1. b.messages[i].content \in Contents
        <5>1. b.messages \in Seq([role : Roles, content : Contents])
          BY <3>2 DEF Bodies
        <5>2. b.messages[i] \in [role : Roles, content : Contents]
          BY <5>1, ElementOfSeq DEF n
        <5> QED
          BY <5>2
      <4> QED
        BY <3>4, <3>7, <3>3, <4>1, InjectedKeepsOthers
    <3>8. /\ d.system.stray = b.system.stray
          /\ \A i \in 1..n : d.messages[i].content.stray = b.messages[i].content.stray
      BY <3>2, <3>4, <3>3, InjectContentIs
    <3> QED
      BY <3>2, <3>4, <3>5, <3>6, <3>7, <3>8 DEF RestSurvivesMask, d, b
  <2> QED
    BY <2>1, <2>2, <2>3
<1> QED
  BY BodyAlways, <1>1, PTL

-----------------------------------------------------------------------------

\* The pipeline lets the relay lose nothing.
THEOREM PipelineLosesNothing == Spec => []NothingLost
<1>1. Inv => NothingLost
  BY DEF Inv, RelayInv, NothingLost
<1> QED
  BY InitInv, NextInv, <1>1, PTL DEF Spec

LEMMA StepRelays == Inv /\ [Next]_vars => [R!P!Next]_(R!P!vars)
<1> SUFFICES ASSUME Inv, [Next]_vars PROVE R!P!Next \/ UNCHANGED R!P!vars
  OBVIOUS
<1>1. R!Handle \/ R!Start \/ R!Environment \/ UNCHANGED streaming
  <2>1. Gateway => R!Handle \/ UNCHANGED streaming
    BY DEF Gateway, Unauthorized, ProviderNotAllowed, Authenticate, NoMasterKey,
      ResolveMasterKey, BodyTooLarge, ReadBody, Block, Allow, MaskFails, Mask, NotSent,
      Dispatch, GiveUp, Stream, Refuse, Proceed
  <2>2. Provider => R!Start \/ UNCHANGED streaming
    BY DEF Provider, ProviderFails, BeginStream, Forward, Refuse
  <2>3. Environment => R!Environment
    BY DEF Environment
  <2>4. UNCHANGED vars => UNCHANGED streaming
    BY DEF vars
  <2> QED
    BY <2>1, <2>2, <2>3, <2>4 DEF Next
<1>2. R!Next \/ UNCHANGED R!vars
  BY <1>1 DEF R!Next, R!vars, streaming
<1> QED
  BY <1>2, RelayNextPasses DEF Inv

\* The whole pipeline relays a provider's stream as PassThrough promises.
THEOREM PipelinePassesThrough == Spec => Relayed
<1>1. Init => R!P!Init
  BY DEF Init, R!Init, R!P!Init
<1> QED
  BY InitInv, NextInv, <1>1, StepRelays, PTL DEF Spec, Relayed, R!Relayed, R!P!Spec

-----------------------------------------------------------------------------
\* What PassThrough comes to.

PassInv == sent \in Seq(R!Lines) /\ got \in Seq(R!Lines) /\ R!P!WholeEvents

LEMMA PassStays == R!P!Spec => []PassInv
<1>1. R!P!Init => PassInv
  <2> SUFFICES ASSUME R!P!Init PROVE PassInv
    OBVIOUS
  <2>1. sent = <<>> /\ got = <<>> /\ R!P!Init
    BY DEF R!P!Init
  <2> QED BY <2>1, EmptySeq DEF PassInv, R!P!WholeEvents, R!P!Init
<1>2. PassInv /\ [R!P!Next]_(R!P!vars) => PassInv'
  <2> SUFFICES ASSUME PassInv, [R!P!Next]_(R!P!vars) PROVE PassInv'
    OBVIOUS
  <2>1. ASSUME NEW l \in R!Lines, R!P!Send(l) PROVE PassInv'
    <3>1. sent' = Append(sent, l) /\ got' = got
      BY <2>1 DEF R!P!Send
    <3>2. /\ sent' \in Seq(R!Lines) /\ Len(sent') = Len(sent) + 1 /\ Len(got) \in Nat
          /\ \A i \in 1 .. Len(sent) : sent'[i] = sent[i]
      BY <3>1 DEF PassInv
    <3>3. SubSeq(sent', 1, Len(got)) = SubSeq(sent, 1, Len(got))
      BY <3>2 DEF PassInv, R!P!WholeEvents
    <3>4. upstream # "ended" /\ upstream' # "ended"
      BY <2>1 DEF R!P!Send
    <3>5. relay # "complete" /\ relay' # "complete"
      BY <2>1, <3>4 DEF R!P!Send, PassInv, R!P!WholeEvents
    <3>6. got = <<>> \/ (Len(got) \in 1 .. Len(sent) /\ sent[Len(got)] = "blank")
      BY <3>4 DEF PassInv, R!P!WholeEvents, R!P!Boundary
    <3>7. got' = <<>> \/ (Len(got') \in 1 .. Len(sent') /\ sent'[Len(got')] = "blank")
      BY <3>1, <3>2, <3>6 DEF PassInv
    <3>8. Len(got') <= Len(sent') /\ got' = SubSeq(sent', 1, Len(got'))
      BY <3>1, <3>2, <3>3 DEF PassInv, R!P!WholeEvents
    <3> QED BY <3>1, <3>2, <3>5, <3>7, <3>8 DEF PassInv, R!P!WholeEvents, R!P!Boundary
  <2>2. ASSUME R!P!Deliver PROVE PassInv'
    <3>1. PICK n \in Len(got) + 1 .. Len(sent) : R!P!Boundary(n) /\ got' = SubSeq(sent, 1, n)
      BY <2>2 DEF R!P!Deliver
    <3>2. n \in Nat /\ n \in 1 .. Len(sent) /\ UNCHANGED sent
      BY <2>2, <3>1 DEF R!P!Deliver, PassInv
    <3>3. got' \in Seq(R!Lines) /\ Len(got') = n
      BY <3>1, <3>2 DEF PassInv
    <3> QED BY <2>2, <3>1, <3>2, <3>3 DEF PassInv, R!P!WholeEvents, R!P!Boundary, R!P!Deliver
  <2>3. ASSUME R!P!End \/ R!P!Leave \/ R!P!Complete \/ R!P!Cut \/ UNCHANGED R!P!vars
        PROVE  PassInv'
    <3>1. UNCHANGED <<sent, got>>
      BY <2>3 DEF R!P!End, R!P!Leave, R!P!Complete, R!P!Cut, R!P!vars
    <3> QED BY <2>3, <3>1 DEF PassInv, R!P!WholeEvents, R!P!Boundary, R!P!End, R!P!Leave,
                              R!P!Complete, R!P!Cut, R!P!vars
  <2> QED BY <2>1, <2>2, <2>3 DEF R!P!Next
<1> QED BY <1>1, <1>2, PTL DEF R!P!Spec

\* A client of the gateway has the beginning of the provider's stream, up to
\* the end of an event, and if the handler ends it as complete, all of it;
\* what it has got is not taken back.
THEOREM WholeEventsArrive == Spec => []R!P!WholeEvents /\ R!P!OnlyGrows
<1> DEFINE Grows == Len(got) <= Len(got') /\ got = SubSeq(got', 1, Len(got))
<1>1. PassInv => R!P!WholeEvents
  BY DEF PassInv
<1>2. PassInv /\ [R!P!Next]_(R!P!vars) => [Grows]_got
  <2> SUFFICES ASSUME PassInv, R!P!Next, got' # got PROVE Grows
    BY DEF R!P!vars
  <2>1. R!P!Deliver
    BY DEF R!P!Next, R!P!Send, R!P!End, R!P!Leave, R!P!Complete, R!P!Cut
  <2>2. PICK n \in Len(got) + 1 .. Len(sent) : got' = SubSeq(sent, 1, n)
    BY <2>1 DEF R!P!Deliver
  <2>3. Len(got') = n /\ n \in Nat /\ Len(got) \in Nat /\ Len(got) < n
    BY <2>2 DEF PassInv
  <2>4. SubSeq(got', 1, Len(got)) = SubSeq(sent, 1, Len(got))
    BY <2>2, <2>3 DEF PassInv
  <2> QED BY <2>3, <2>4 DEF PassInv, R!P!WholeEvents
<1>3. R!P!Spec => [][Grows]_got
  BY <1>2, PassStays, PTL DEF R!P!Spec
<1>4. [][Grows]_got => R!P!OnlyGrows
  BY DEF R!P!OnlyGrows
<1> QED BY <1>1, <1>3, <1>4, PassStays, PipelinePassesThrough, PTL DEF Relayed, R!Relayed
=============================================================================
