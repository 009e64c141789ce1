---------------------------- MODULE ChatPipeline ----------------------------
(***************************************************************************)
(* One request through ChatHandlerWithDeps: authentication, the key's list *)
(* of providers, the master key, the body, extraction, inspection, masking *)
(* and the call to the provider, answered in one piece or streamed.        *)
(*                                                                         *)
(* What VirtualKeyAuth, TenantKeys and Inspector decide is a choice here.  *)
(* The adapters are the operators of ProviderBody, the stream is EventRelay*)
(* on the same variables.                                                  *)
(***************************************************************************)
EXTENDS ProviderBody

CONSTANTS
  Calls,      \* requests that may arrive, with the bodies they carry
  Verdicts,   \* what the inspection may decide: "ALLOW", "BLOCK", "MASK"
  MaxLines    \* bound: the lines of a streamed answer

ASSUME CallsAssumption ==
  \A c \in Calls : c.provider \in Providers /\ c.given \subseteq Slots /\ c.body \in Bodies

\* A client's JSON has a key in one spelling, and no key without its field.
ASSUME OneSpelling ==
  \A c \in Calls :
    /\ "system" \in c.body.exact => c.body.system.form # "absent"
    /\ \A content \in {c.body.system}
                       \cup {c.body.messages[i].content : i \in DOMAIN c.body.messages} :
         content.form # "none" => content.stray = <<>>
ASSUME MaxLinesAssumption == MaxLines \in Nat

VARIABLES
  call,       \* the request
  at,         \* where the handler is
  body,       \* preq.Body
  verdict,    \* the inspection's decision, "none" before it
  out,        \* the requests the provider has got
  status,     \* the status the client was answered with, 0 before that
  audit,      \* the audit line, "none" before it
  sent, upstream, ctx, client, read, buf, got, relay    \* EventRelay

R == INSTANCE EventRelay

streaming == <<sent, upstream, ctx, client, read, buf, got, relay>>
handler == <<at, body, verdict, out, status, audit>>
vars == <<call, handler, streaming>>

Places == {"authenticate", "resolve", "read", "inspect", "send", "await", "relay", "done"}
Refusals == {401, 403, 413, 500, 503}
Statuses == {200, 429}    \* upstream statuses: a success and an error

Messages == Extract(call, call.body)

\* What the inspector makes of the messages it masks: as many of them, of
\* the same roles.  An empty list arrives as nil.
Masked(messages) ==
  [i \in DOMAIN messages |->
     [messages[i] EXCEPT !.text =
        [j \in DOMAIN @ |-> IF @[j] = "secret" THEN "redacted" ELSE @[j]]]]

Init ==
  /\ call \in Calls
  /\ at = "authenticate" /\ body = call.body
  /\ verdict = "none" /\ out = <<>> /\ status = 0 /\ audit = "none"
  /\ R!Init

-----------------------------------------------------------------------------

\* writeJSON of an error, and the end of the handler.
Refuse(code) ==
  /\ status' = code /\ at' = "done"
  /\ UNCHANGED <<call, body, out, streaming>>

Proceed(place) ==
  /\ at' = place
  /\ UNCHANGED <<call, out, status, audit, streaming>>

\* No key was presented, or Verify does not accept it.
Unauthorized ==
  /\ at = "authenticate"
  /\ Refuse(401) /\ UNCHANGED <<verdict, audit>>

ProviderNotAllowed ==
  /\ at = "authenticate" /\ call.given # {}
  /\ Refuse(403) /\ UNCHANGED <<verdict, audit>>

Authenticate ==
  /\ at = "authenticate" /\ call.given # {}
  /\ Proceed("resolve") /\ UNCHANGED <<body, verdict>>

NoMasterKey ==
  /\ at = "resolve"
  /\ Refuse(503) /\ UNCHANGED <<verdict, audit>>

ResolveMasterKey ==
  /\ at = "resolve"
  /\ Proceed("read") /\ UNCHANGED <<body, verdict>>

\* A body cut short because the client is gone is refused as too large, too.
BodyTooLarge ==
  /\ at = "read"
  /\ call.body.shape = "too_large" \/ client = "gone"
  /\ Refuse(413) /\ UNCHANGED <<verdict, audit>>

ReadBody ==
  /\ at = "read" /\ call.body.shape # "too_large"
  /\ Proceed("inspect") /\ UNCHANGED <<body, verdict>>

\* Faulty Block: the handler goes on after its answer.
BlockAndGoOn ==
  /\ at = "inspect" /\ "BLOCK" \in Verdicts
  /\ verdict' = "BLOCK" /\ audit' = "BLOCK"
  /\ status' = 403 /\ at' = "send"
  /\ UNCHANGED <<call, body, out, streaming>>

Block ==
  /\ at = "inspect" /\ "BLOCK" \in Verdicts
  /\ verdict' = "BLOCK" /\ audit' = "BLOCK"
  /\ Refuse(403)

\* A MASK without messages forwards the body as it is.
Allow ==
  /\ at = "inspect"
  /\ verdict' \in {"ALLOW"} \cup (IF Messages = <<>> THEN {"MASK"} ELSE {})
  /\ verdict' \in Verdicts
  /\ Proceed("send") /\ UNCHANGED body

MaskFails ==
  /\ at = "inspect" /\ "MASK" \in Verdicts
  /\ Messages # <<>> /\ InjectFails(call, body, Masked(Messages))
  /\ verdict' = "MASK"
  /\ Refuse(500) /\ UNCHANGED audit

Mask ==
  /\ at = "inspect" /\ "MASK" \in Verdicts
  /\ Messages # <<>> /\ ~InjectFails(call, body, Masked(Messages))
  /\ verdict' = "MASK"
  /\ body' = Inject(call, body, Masked(Messages))
  /\ Proceed("send")

-----------------------------------------------------------------------------

\* The upstream request cannot be built, or does not reach the provider.
NotSent ==
  /\ at = "send"
  /\ Refuse(502) /\ UNCHANGED <<verdict, audit>>

\* Faulty Dispatch: sent again until an answer comes.
DispatchAgain ==
  /\ at \in {"send", "await"} /\ Buildable(call) /\ Len(out) < 2
  /\ out' = Append(out, [body |-> body,
                         credentials |-> Credentials(call.provider, call.given)])
  /\ at' = "await"
  /\ UNCHANGED <<call, body, verdict, status, audit, streaming>>

Dispatch ==
  /\ at = "send" /\ Buildable(call)
  /\ out' = Append(out, [body |-> body,
                         credentials |-> Credentials(call.provider, call.given)])
  /\ at' = "await"
  /\ UNCHANGED <<call, body, verdict, status, audit, streaming>>

\* No answer comes, or only a part of one; or a stream is refused by the
\* provider with a status that is no success.
ProviderFails ==
  /\ at = "await"
  /\ Refuse(502) /\ UNCHANGED <<verdict, audit>>

\* The provider's client gives up with the context of the request.
GiveUp ==
  /\ at = "await" /\ ctx = "over"
  /\ Refuse(502) /\ UNCHANGED <<verdict, audit>>

\* An answer in one piece, written without a look at whether the write works.
Forward(code) ==
  /\ at = "await" /\ ~IsStreamRequest(call, body)
  /\ status' = code /\ at' = "done" /\ audit' = "ALLOW"
  /\ UNCHANGED <<call, body, verdict, out, streaming>>

BeginStream ==
  /\ at = "await" /\ IsStreamRequest(call, body)
  /\ status' = 200 /\ at' = "relay"
  /\ R!Start
  /\ UNCHANGED <<call, body, verdict, out, audit>>

\* Faulty Stream: the audit line is written however the loop ends.
StreamAlwaysAudited ==
  /\ at = "relay"
  /\ R!Handle
  /\ at' = IF relay' \in {"complete", "cut"} THEN "done" ELSE "relay"
  /\ audit' = IF relay' \in {"complete", "cut"} THEN "ALLOW_STREAM" ELSE audit
  /\ UNCHANGED <<call, body, verdict, out, status>>

\* A step of the loop, and what follows when it is over: an audit line only
\* after the end of the answer, not after an error or a failed write.
Stream ==
  /\ at = "relay"
  /\ R!Handle
  /\ at' = IF relay' \in {"complete", "cut"} THEN "done" ELSE "relay"
  /\ audit' = IF relay' = "complete" THEN "ALLOW_STREAM" ELSE audit
  /\ UNCHANGED <<call, body, verdict, out, status>>

Environment == R!Environment /\ UNCHANGED <<call, handler>>

\* What the gateway does without waiting for the provider.
Gateway ==
  \/ Unauthorized \/ ProviderNotAllowed \/ Authenticate
  \/ NoMasterKey \/ ResolveMasterKey
  \/ BodyTooLarge \/ ReadBody
  \/ Block \/ Allow \/ MaskFails \/ Mask
  \/ NotSent \/ Dispatch \/ GiveUp \/ Stream

Provider ==
  \/ ProviderFails \/ BeginStream
  \/ \E code \in Statuses : Forward(code)

Next == Gateway \/ Provider \/ Environment

Spec == Init /\ [][Next]_vars

\* Handlers go on; a client sends its body and reads its answer, or leaves;
\* and the router's timeout ends the context.  The provider owes nothing.
Fairness ==
  /\ WF_vars(Gateway)
  /\ WF_vars(R!ContextEnds /\ UNCHANGED <<call, handler>>)

FairSpec == Spec /\ Fairness

-----------------------------------------------------------------------------
(* Properties *)

TypeOK ==
  /\ call \in Calls
  /\ at \in Places
  /\ verdict \in {"none"} \cup Verdicts
  /\ DOMAIN out \subseteq {1}
  /\ status \in {0, 502} \cup Refusals \cup Statuses
  /\ audit \in {"none", "BLOCK", "ALLOW", "ALLOW_STREAM"}
  /\ R!TypeOK

\* A client that was refused, at whatever stage of the handler, can rely on
\* the provider not having seen the request; whoever was not refused was
\* inspected first, and never blocked.
RefusedIsNotSent ==
  /\ status \in Refusals => out = <<>>
  /\ out # <<>> => verdict \in {"ALLOW", "MASK"}

\* The blocks Anthropic's extraction reads but injection leaves alone.
HasTools(b) ==
  \E c \in {b.system} \cup {b.messages[i].content : i \in DOMAIN b.messages} :
    \E i \in DOMAIN c.blocks : c.blocks[i].type \in {"tool_use", "tool_result"}

\* InjectMessages is the inverse of ExtractMessages: what a masked body says
\* are the masked messages, all of them, in their places.  It is so where the
\* key of the messages is written exactly: under another spelling of it they
\* have been read and inspected, and leave the way they came.  (Not with
\* Anthropic's tool blocks, whose text stays as it was.)
MaskReachesProvider ==
  out # <<>> /\ verdict = "MASK" /\ ~HasTools(call.body) =>
    IF "messages" \in call.body.exact
      THEN Extract(call, out[1].body) = Masked(Messages)
      ELSE out[1].body.messages = call.body.messages

OtherBlocks(bs) ==
  LET other[n \in 0..Len(bs)] ==
        IF n = 0 THEN <<>>
        ELSE IF bs[n].type # "text" THEN Append(other[n - 1], bs[n]) ELSE other[n - 1]
  IN  other[Len(bs)]

\* OpenAI's and Azure's adapters write a missing role back as an empty one.
RoleKept(p, was, is) == is = was \/ (was = "none" /\ is = "empty" /\ ~HasSystem(p))

\* Masking changes text and nothing else: the messages, the roles the client
\* has given them, the way the answer comes, what stands under other spellings
\* of the adapter's keys, and, with the adapters that keep blocks, all blocks
\* other than text are those of the client's body.
RestSurvivesMask ==
  out # <<>> =>
    LET b == out[1].body
    IN  /\ [b EXCEPT !.messages = <<>>, !.system = Absent]
             = [call.body EXCEPT !.messages = <<>>, !.system = Absent]
        /\ b.system.stray = call.body.system.stray
        /\ HasSystem(call.provider) =>
             OtherBlocks(b.system.blocks) = OtherBlocks(call.body.system.blocks)
        /\ DOMAIN b.messages = DOMAIN call.body.messages
        /\ \A i \in DOMAIN b.messages :
             /\ RoleKept(call.provider, call.body.messages[i].role, b.messages[i].role)
             /\ b.messages[i].content.stray = call.body.messages[i].content.stray
             /\ HasSystem(call.provider) =>
                  OtherBlocks(b.messages[i].content.blocks)
                    = OtherBlocks(call.body.messages[i].content.blocks)

\* The provider finds one credential where it looks for one, and it is the
\* master key, wherever the client has put its virtual key.
OneMasterKey ==
  out # <<>> =>
    LET found == {s \in KeySlots(call.provider) : out[1].credentials[s] # "none"}
    IN  \E s \in Slots : found = {s} /\ out[1].credentials[s] = "master"

\* An audit line says what happened: a blocked prompt has not left, and an
\* answer audited as streamed was sent to its end, and received as sent by
\* a client that stayed.
AuditIsTrue ==
  /\ audit = "BLOCK" => status = 403 /\ out = <<>>
  /\ audit = "ALLOW" => out # <<>> /\ status \in Statuses
  /\ audit = "ALLOW_STREAM" =>
       out # <<>> /\ upstream = "ended" /\ (client = "there" => got = sent)

\* What the client has got and what SSEReader holds is what has been read.
NothingLost == R!NothingLost

\* The client gets the provider's stream as PassThrough promises it.
Relayed == R!Relayed

\* Whatever the provider does, every request ends.
EveryRequestEnds == <>(at = "done")
=============================================================================
